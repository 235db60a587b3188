------------------------------- MODULE AppItems -------------------------------
(***************************************************************************)
(* What a person keeps and sends with the phone app                        *)
(* (src/assets/android-ui-mock): the Share page with its message, its      *)
(* attachment and what was sent, the notes and pins, and the Pi camera's   *)
(* captures, with the sheets that act on one of them.                      *)
(*                                                                         *)
(* Every tap is one step and draws the whole phone anew from the state, so *)
(* what is drawn must exist.  What a sheet lies over can still be reached  *)
(* with the keyboard.  A page that cannot be drawn, because what it is     *)
(* about is gone, offers nothing.  Left out: searching, the words of notes *)
(* and pins, what plays, what the assistant wrote beside the one result    *)
(* that names a note, and the places typed as an address (README, 8).      *)
(***************************************************************************)
EXTENDS AppPlaces, FiniteSets

CONSTANTS
  Devices,   \* the other devices
  Online,    \* those that can receive
  Files,     \* what is attached or sent: files, captures, notes, pins
  ClipImage, \* the image on the clipboard, which may be one of them
  Words,     \* the message written
  None,      \* nothing attached, nothing failed
  MaxSent,   \* bound: how many deliveries the list keeps, the newest first
  MaxItems,  \* bound: the items of a note
  MaxNew,    \* bound: notes, pins and captures made
  Reach      \* bound: the places a person walks to

ASSUME ThingsAssumption ==
  Online \subseteq Devices /\ Online # {} /\ None \notin Files \cup {ClipImage, Words}
    /\ Words \notin Files \cup {ClipImage}
ASSUME BoundsAssumption ==
  MaxSent \in Nat \ {0} /\ MaxItems \in Nat /\ MaxNew \in Nat /\ Reach \subseteq Places \ {"note", "pin"}

VARIABLES
  place,      \* S.place
  sheet,      \* S.sheet: its type, and what its argument names
  pi,         \* S.pi
  recipient,  \* S.recipient
  text,       \* S.shareText: Words, or None when it is empty
  attachment, \* S.attachment
  failed,     \* S.failed: what the notice says was not delivered
  sent,       \* S.sent, the newest first
  sendFails,  \* deliveries fail now
  kept,       \* the ids of S.notes and S.pins
  shown,      \* S.noteId and S.pinId
  items,      \* how many things each note holds
  captures,   \* the ids of S.captures
  recording,  \* S.recording
  made,       \* how many ids were made: 'n', 'p' or 'c' and the time
  linked      \* history: the page was entered by the assistant's link to a note

sharing == <<recipient, text, attachment, failed, sent, sendFails>>
keeping == <<kept, shown, items, captures, made>>
vars == <<place, sheet, pi, sharing, keeping, recording, linked>>

Kinds == {"note", "pin"}
Ids == 0..MaxNew     \* 0 is there from the start, as a note it is 'n2'
SampleNote == 0      \* the id the assistant's link to a note always opens
ListOf == "notes"    \* both kinds are listed on one page

Sheet(type, arg) == [type |-> type, arg |-> arg]
NoSheet == Sheet("none", None)
Entry(x, to, ok) == [item |-> x, to |-> to, ok |-> ok]
PiUp == pi = "online"

Init ==
  /\ place = "home" /\ sheet = NoSheet /\ pi = "online"
  /\ recipient \in Online /\ text = None /\ attachment = None /\ failed = None
  /\ sent = <<>> /\ sendFails = FALSE
  /\ kept = [k \in Kinds |-> {0}] /\ shown = [k \in Kinds |-> 0]
  /\ items = [n \in Ids |-> 0]
  /\ captures = {0} /\ recording = FALSE /\ made = 0 /\ linked = FALSE

-----------------------------------------------------------------------------
(* go(): a recording ends when the camera's page is left.                  *)
Enter(p) == place' = p /\ sheet' = NoSheet /\ recording' = (recording /\ p = "camera")
Arrive(p) == Enter(p) /\ linked' = FALSE

Show(s) == sheet' = s /\ UNCHANGED <<place, recording, linked>>
Stay == UNCHANGED <<place, recording, linked>>

Go(p) == Arrive(p) /\ UNCHANGED <<pi, sharing, keeping>>
Back ==
  /\ IF sheet # NoSheet THEN Show(NoSheet)
     ELSE BackTarget(place) # Nowhere /\ Arrive(BackTarget(place))
  /\ UNCHANGED <<pi, sharing, keeping>>

(* Which sheets a place offers, and which a sheet leads to.                *)
PageDrawn(k) == place = k /\ shown[k] \in kept[k]
Offered ==
  {Sheet("item", x) : x \in IF place \in {"media", "received", "incoming"} THEN Files ELSE {}}
  \cup {Sheet(t, None) : t \in IF place = "share" THEN {"recipient", "attach", "clipboard"} ELSE {}}
  \cup {Sheet("sent", i) : i \in IF place = "share" THEN DOMAIN sent ELSE {}}
  \cup {Sheet("capture", c) : c \in IF place = "captures" THEN captures ELSE {}}
  \cup {Sheet(t, None) : t \in IF place = "conversation" THEN {"result"} ELSE {}}
  \cup {Sheet(t, None) : t \in IF PageDrawn("note") THEN {"note-add", "share-note", "delete-note"} ELSE {}}
  \cup {Sheet("note-item", i) : i \in IF PageDrawn("note") THEN 1..items[shown["note"]] ELSE {}}
  \cup {Sheet(t, None) : t \in IF PageDrawn("pin") THEN {"share-pin", "delete-pin"} ELSE {}}
Onward ==
  {Sheet(t, sheet.arg) : t \in IF sheet.type = "item" THEN {"to-device", "to-note"} ELSE {}}
  \cup {Sheet("delete-capture", c) : c \in IF sheet.type = "capture" THEN {sheet.arg} ELSE {}}
  \cup {Sheet("drop-note-item", i) : i \in IF sheet.type = "note-item" THEN {sheet.arg} ELSE {}}
Open(s) == s \in Offered \cup Onward /\ Show(s) /\ UNCHANGED <<pi, sharing, keeping>>

-----------------------------------------------------------------------------
(* Sharing.                                                                *)
Recent(s) == SubSeq(s, 1, IF Len(s) > MaxSent THEN MaxSent ELSE Len(s))

\* deliver() puts what is tried first in the list and says whether it failed;
\* the mutant keeps an earlier notice.
Tried(x, to) == Recent(<<Entry(x, to, ~sendFails)>> \o sent)
FailureKept(x) == IF sendFails THEN x ELSE failed
Failure(x) == IF sendFails THEN x ELSE None

Deliver(x, to) ==
  /\ sent' = Tried(x, to)
  /\ failed' = Failure(x)

PickRecipient(d) ==
  /\ \/ sheet.type = "recipient" /\ Show(NoSheet)
     \/ sheet.type = "to-device" /\ Stay /\ UNCHANGED sheet
  /\ recipient' = d
  /\ UNCHANGED <<pi, text, attachment, failed, sent, sendFails, keeping>>

\* "Send to" in the sheet of a device, on Home.
PickFromHome(d) ==
  /\ place = "home" /\ d \in Online
  /\ recipient' = d
  /\ Arrive("share")
  /\ UNCHANGED <<pi, text, attachment, failed, sent, sendFails, keeping>>

Attach(x) ==
  /\ sheet.type = "attach"
  /\ attachment' = x /\ failed' = None
  /\ Show(NoSheet)
  /\ UNCHANGED <<pi, recipient, text, sent, sendFails, keeping>>

Detach ==
  /\ place = "share" /\ attachment # None
  /\ attachment' = None /\ failed' = None
  /\ Stay /\ UNCHANGED <<sheet, pi, recipient, text, sent, sendFails, keeping>>

\* The clipboard holds an image or text.
UseClip ==
  /\ sheet.type = "clipboard"
  /\ \/ attachment' = ClipImage /\ UNCHANGED text
     \/ text' = Words /\ UNCHANGED attachment
  /\ Show(NoSheet)
  /\ UNCHANGED <<pi, recipient, failed, sent, sendFails, keeping>>

SendClip ==
  /\ sheet.type = "clipboard" /\ recipient \in Online
  /\ \E x \in {ClipImage, Words} : Deliver(x, recipient)
  /\ Show(NoSheet)
  /\ UNCHANGED <<pi, recipient, text, attachment, sendFails, keeping>>

Write(w) ==
  /\ place = "share"
  /\ text' = w
  /\ Stay /\ UNCHANGED <<sheet, pi, recipient, attachment, failed, sent, sendFails, keeping>>

\* Send is drawn ready for a device that is online, Send again whenever
\* something failed.
SendOffered ==
  /\ place = "share"
  /\ (recipient \in Online /\ (text # None \/ attachment # None)) \/ failed # None

\* The attachment first, then the message unless something failed; the message
\* is cleared once it was tried.  In the mutant the attachment leaves like it.
AfterAttachment == IF attachment = None THEN failed ELSE Failure(attachment)
TextGoes == text # None /\ AfterAttachment = None
AttachmentGone == None
AttachmentLeft == IF attachment # None /\ sendFails THEN attachment ELSE None

Send ==
  /\ SendOffered
  /\ LET first == IF attachment = None THEN <<>> ELSE <<Entry(attachment, recipient, ~sendFails)>>
         second == IF TextGoes THEN <<Entry(Words, recipient, ~sendFails)>> ELSE <<>>
     IN sent' = Recent(second \o first \o sent)
  /\ failed' = (IF TextGoes THEN Failure(Words) ELSE AfterAttachment)
  /\ text' = (IF TextGoes THEN None ELSE text)
  /\ attachment' = AttachmentLeft
  /\ Stay /\ UNCHANGED <<sheet, pi, recipient, sendFails, keeping>>

Resend ==
  /\ sheet.type = "sent"
  /\ recipient' = sent[sheet.arg].to
  /\ Deliver(sent[sheet.arg].item, sent[sheet.arg].to)
  /\ Show(NoSheet)
  /\ UNCHANGED <<pi, text, attachment, sendFails, keeping>>

SendItem ==
  /\ sheet.type = "to-device" /\ recipient \in Online
  /\ Deliver(sheet.arg, recipient)
  /\ Show(NoSheet)
  /\ UNCHANGED <<pi, recipient, text, attachment, sendFails, keeping>>

-----------------------------------------------------------------------------
(* Notes and pins.                                                         *)
Fresh == made + 1

OpenKept(k, id) ==
  /\ place \in {"notes", "search"} /\ id \in kept[k]
  /\ shown' = [shown EXCEPT ![k] = id]
  /\ Arrive(k)
  /\ UNCHANGED <<pi, sharing, kept, items, captures, made>>

\* 'Open in Notes' under what the assistant found: always the same note,
\* whether or not it is still kept.
OpenFromResult ==
  /\ sheet.type = "result"
  /\ shown' = [shown EXCEPT !["note"] = SampleNote]
  /\ Enter("note") /\ linked' = TRUE
  /\ UNCHANGED <<pi, sharing, kept, items, captures, made>>

NewKept(k) ==
  /\ place = "notes" /\ made < MaxNew
  /\ made' = Fresh
  /\ kept' = [kept EXCEPT ![k] = @ \cup {Fresh}]
  /\ shown' = [shown EXCEPT ![k] = Fresh]
  /\ Arrive(k)
  /\ UNCHANGED <<pi, sharing, items, captures>>

Confirms(k) == sheet.type = IF k = "note" THEN "delete-note" ELSE "delete-pin"

\* The page of what was deleted is left; the mutant stays on it.
Deleted(k) == Show(NoSheet)
Leave(k) == Arrive(ListOf)

DeleteKept(k) ==
  /\ Confirms(k)
  /\ kept' = [kept EXCEPT ![k] = @ \ {shown[k]}]
  /\ Leave(k)
  /\ UNCHANGED <<pi, sharing, shown, items, captures, made>>

\* note-add: what is chosen goes into the note that is open.
AddHere ==
  /\ sheet.type = "note-add" /\ items[shown["note"]] < MaxItems
  /\ items' = [items EXCEPT ![shown["note"]] = @ + 1]
  /\ Show(NoSheet)
  /\ UNCHANGED <<pi, sharing, kept, shown, captures, made>>

\* add-to-note: into a note that is there, or a new one.
AddToNote ==
  /\ sheet.type = "to-note"
  /\ \/ \E n \in kept["note"] :
          /\ items[n] < MaxItems
          /\ items' = [items EXCEPT ![n] = @ + 1]
          /\ UNCHANGED <<kept, made>>
     \/ /\ made < MaxNew /\ MaxItems > 0
        /\ made' = Fresh
        /\ kept' = [kept EXCEPT !["note"] = @ \cup {Fresh}]
        /\ items' = [items EXCEPT ![Fresh] = 1]
  /\ Show(NoSheet)
  /\ UNCHANGED <<pi, sharing, shown, captures>>

\* The mutant leaves the question about an item that is gone.
DroppedUnder == Stay /\ UNCHANGED sheet
Dropped == Show(NoSheet)
DropItem ==
  /\ sheet.type = "drop-note-item"
  /\ items' = [items EXCEPT ![shown["note"]] = @ - 1]
  /\ Dropped
  /\ UNCHANGED <<pi, sharing, kept, shown, captures, made>>

-----------------------------------------------------------------------------
(* The Pi camera.                                                          *)
Photo ==
  /\ place = "camera" /\ PiUp /\ made < MaxNew
  /\ made' = Fresh /\ captures' = captures \cup {Fresh}
  /\ Stay /\ UNCHANGED <<sheet, pi, sharing, kept, shown, items>>

Record ==
  /\ place = "camera" /\ PiUp
  /\ recording' = ~recording
  /\ IF recording THEN made < MaxNew /\ made' = Fresh /\ captures' = captures \cup {Fresh}
     ELSE UNCHANGED <<made, captures>>
  /\ UNCHANGED <<place, sheet, linked, pi, sharing, kept, shown, items>>

DeleteCapture ==
  /\ sheet.type = "delete-capture"
  /\ captures' = captures \ {sheet.arg}
  /\ Show(NoSheet)
  /\ UNCHANGED <<pi, sharing, kept, shown, items, made>>

-----------------------------------------------------------------------------
PiChanges == pi' = (IF PiUp THEN "away" ELSE "online") /\ Stay /\ UNCHANGED <<sheet, sharing, keeping>>
NetworkChanges ==
  /\ sendFails' = ~sendFails
  /\ Stay /\ UNCHANGED <<sheet, pi, recipient, text, attachment, failed, sent, keeping>>

Next ==
  \/ \E p \in Reach : Go(p)
  \/ \E s \in Offered \cup Onward : Open(s)
  \/ \E d \in Devices : PickRecipient(d) \/ PickFromHome(d)
  \/ \E x \in Files : Attach(x)
  \/ \E w \in {Words, None} : Write(w)
  \/ Back \/ Detach \/ UseClip \/ SendClip \/ Send \/ Resend \/ SendItem
  \/ \E k \in Kinds : (\E id \in kept[k] : OpenKept(k, id)) \/ NewKept(k) \/ DeleteKept(k)
  \/ OpenFromResult \/ AddHere \/ AddToNote \/ DropItem
  \/ Photo \/ Record \/ DeleteCapture
  \/ PiChanges \/ NetworkChanges

Spec == Init /\ [][Next]_vars

-----------------------------------------------------------------------------
TypeOK ==
  /\ place \in Places /\ pi \in {"online", "away"}
  /\ recipient \in Devices
  /\ text \in {Words, None} /\ attachment \in Files \cup {ClipImage, None}
  /\ failed \in Files \cup {ClipImage, Words, None}
  /\ \A i \in DOMAIN sent : sent[i].to \in Devices /\ sent[i].item # None
  /\ Len(sent) <= MaxSent /\ sendFails \in BOOLEAN /\ recording \in BOOLEAN
  /\ kept \in [Kinds -> SUBSET Ids] /\ shown \in [Kinds -> Ids]
  /\ items \in [Ids -> 0..MaxItems] /\ captures \subseteq Ids /\ made \in 0..MaxNew
  /\ linked \in BOOLEAN

(* The page and the sheet on the screen speak of something that is there, so  *)
(* that drawing them cannot fail: the note and the pin of their pages, the    *)
(* item, the delivery and the capture a sheet's argument names by id or by    *)
(* index (screens.js and sheets.js look each of them up without a check).     *)
(* One way in is excepted, for it does fail: the assistant's link to a note   *)
(* (sheets.js:289), followed when that note was deleted.  A recording is      *)
(* under way only on the page that shows it and can end it.                   *)
ShownExists ==
  /\ place = "pin" => shown["pin"] \in kept["pin"]
  /\ place = "note" => shown["note"] \in kept["note"] \/ linked
  /\ sheet.type \in {"note-add", "share-note", "delete-note", "note-item", "drop-note-item"} => PageDrawn("note")
  /\ sheet.type \in {"share-pin", "delete-pin"} => PageDrawn("pin")
  /\ sheet.type \in {"note-item", "drop-note-item"} => sheet.arg \in 1..items[shown["note"]]
  /\ sheet.type \in {"capture", "delete-capture"} => sheet.arg \in captures
  /\ sheet.type = "sent" => sheet.arg \in DOMAIN sent
  /\ recording => place = "camera"

(* The name of what was not delivered, with which the notice on the Share     *)
(* page begins, is that of the last thing tried, until it was delivered after *)
(* all or taken back.  Nothing is said of the rest of the line, which can be  *)
(* wrong (screens.js:186): it names the recipient chosen now, and says "still *)
(* attached" of what a sheet delivered, which never was.                      *)
NoticeIsTheLastTry == failed # None => sent # <<>> /\ ~sent[1].ok /\ sent[1].item = failed

(* What is attached leaves the message only by hand or when it was delivered. *)
AttachmentKept ==
  [][attachment # None /\ attachment' # attachment =>
       \/ sheet.type \in {"attach", "clipboard"}
       \/ Detach
       \/ attachment' = None /\ failed' = None /\ sent'[1].ok /\ sent'[1].to = recipient]_vars
=============================================================================
