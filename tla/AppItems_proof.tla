---------------------------- MODULE AppItems_proof ----------------------------
(***************************************************************************)
(* What AppItems promises for every set of devices and files and every     *)
(* bound: what is drawn exists, but on the page one link leads to, the     *)
(* notice is about the last delivery that was tried, and an attachment     *)
(* leaves the message for a reason.                                        *)
(*                                                                         *)
(* Three things are needed beside the properties: a delivery in the list   *)
(* is of a thing that can be sent again (Sharing), a sheet about an item   *)
(* names one (Fits), and what is put first in the list of deliveries never *)
(* makes it shorter, so that an index into it stays one (PutFirst).        *)
(***************************************************************************)
EXTENDS AppItems, SequenceTheorems, TLAPS

Things == Files \cup {ClipImage, Words}
Delivery == [item: Things, to: Devices, ok: BOOLEAN]

(* Sharing: the list keeps deliveries that can be tried again.             *)
Sharing ==
  /\ recipient \in Devices
  /\ text \in {Words, None} /\ attachment \in Files \cup {ClipImage, None}
  /\ failed \in Things \cup {None}
  /\ sent \in Seq(Delivery) /\ Len(sent) <= MaxSent /\ sendFails \in BOOLEAN
  /\ NoticeIsTheLastTry

(* Notes, pins and captures.                                               *)
Keeping ==
  /\ kept \in [Kinds -> SUBSET Ids] /\ shown \in [Kinds -> Ids]
  /\ items \in [Ids -> 0..MaxItems] /\ captures \subseteq Ids /\ made \in 0..MaxNew

(* A sheet, and what its argument names.                                   *)
OnNote == {"note-add", "share-note", "delete-note", "note-item", "drop-note-item"}
Fits(s) ==
  /\ s.type \in {"item", "to-device", "to-note"} => s.arg \in Files
  /\ s.type \in OnNote => PageDrawn("note")
  /\ s.type \in {"share-pin", "delete-pin"} => PageDrawn("pin")
  /\ s.type \in {"note-item", "drop-note-item"} => s.arg \in 1..items[shown["note"]]
  /\ s.type \in {"capture", "delete-capture"} => s.arg \in captures
  /\ s.type = "sent" => s.arg \in DOMAIN sent

(* What is on the screen.                                                  *)
PageShown ==
  /\ place = "pin" => shown["pin"] \in kept["pin"]
  /\ place = "note" => shown["note"] \in kept["note"] \/ linked
Drawn ==
  /\ place \in Places /\ pi \in {"online", "away"} /\ recording \in BOOLEAN /\ linked \in BOOLEAN
  /\ PageShown
  /\ recording => place = "camera"
  /\ Fits(sheet)

IInv == Sharing /\ Keeping /\ Drawn

LEMMA InvShownExists == IInv => ShownExists
BY DEF IInv, Drawn, Fits, OnNote, PageShown, ShownExists

LEMMA InvTypeOK == IInv => TypeOK
<1> SUFFICES ASSUME IInv PROVE TypeOK
  OBVIOUS
<1>1. \A i \in DOMAIN sent : sent[i] \in Delivery
  BY DEF IInv, Sharing
<1>2. \A i \in DOMAIN sent : sent[i].to \in Devices /\ sent[i].item # None
  BY <1>1, ThingsAssumption DEF Delivery, Things
<1> QED BY <1>2 DEF IInv, Sharing, Keeping, Drawn, Things, TypeOK

-----------------------------------------------------------------------------
(* The map.  Back leads to a place, and never to the page of a note or a   *)
(* pin: no page hangs below them.                                          *)
LEMMA BackPlaces ==
  ASSUME NEW p \in Places, BackTarget(p) # Nowhere
  PROVE  BackTarget(p) \in Places \ {"note", "pin"}
BY DEF BackTarget, Places, Pages, BarPlaces, Parent, FromOutside, Nowhere

LEMMA NamedPlaces == {"home", "share", "notes", "note", "pin", "camera"} \subseteq Places
BY DEF Places, Pages, BarPlaces, Parent

-----------------------------------------------------------------------------
(* The list of deliveries.                                                 *)
LEMMA RecentType ==
  ASSUME NEW S, NEW s \in Seq(S)
  PROVE  /\ Recent(s) \in Seq(S)
         /\ Len(Recent(s)) = IF Len(s) > MaxSent THEN MaxSent ELSE Len(s)
         /\ \A i \in 1..Len(Recent(s)) : Recent(s)[i] = s[i]
<1> DEFINE m == IF Len(s) > MaxSent THEN MaxSent ELSE Len(s)
<1>1. m \in Nat /\ m <= Len(s)
  BY BoundsAssumption
<1> HIDE DEF m
<1>2. /\ SubSeq(s, 1, m) \in Seq(S) /\ Len(SubSeq(s, 1, m)) = m
      /\ \A i \in 1..m : SubSeq(s, 1, m)[i] = s[i]
  BY <1>1
<1> QED BY <1>2 DEF Recent, m

(* What is put first is the first, and pushes out at most the last.        *)
LEMMA PutFirst ==
  ASSUME NEW S, NEW s \in Seq(S), NEW e \in S, NEW r, r = Recent(<<e>> \o s)
  PROVE  /\ r \in Seq(S) /\ r # <<>> /\ r[1] = e
         /\ Len(r) <= MaxSent
         /\ \A m \in Nat : m <= MaxSent /\ m <= Len(s) => 1..m \subseteq DOMAIN r
<1> DEFINE t == <<e>> \o s
<1>1. t \in Seq(S) /\ Len(t) = Len(s) + 1 /\ t[1] = e
  OBVIOUS
<1> HIDE DEF t
<1>2. /\ Recent(t) \in Seq(S)
      /\ Len(Recent(t)) = IF Len(t) > MaxSent THEN MaxSent ELSE Len(t)
      /\ \A i \in 1..Len(Recent(t)) : Recent(t)[i] = t[i]
  BY <1>1, RecentType
<1>3. /\ Len(Recent(t)) \in Nat /\ 1 <= Len(Recent(t)) /\ Len(Recent(t)) <= MaxSent
      /\ \A m \in Nat : m <= MaxSent /\ m <= Len(s) => m <= Len(Recent(t))
  BY <1>1, <1>2, BoundsAssumption
<1>4. /\ Recent(t)[1] = e /\ Recent(t) # <<>>
      /\ \A m \in Nat : m <= MaxSent /\ m <= Len(s) => 1..m \subseteq DOMAIN Recent(t)
  BY <1>1, <1>2, <1>3
<1> QED BY <1>2, <1>3, <1>4 DEF t

(* A list within the bound is kept whole.                                  *)
LEMMA RecentWhole ==
  ASSUME NEW S, NEW s \in Seq(S), Len(s) <= MaxSent
  PROVE  Recent(s) = s
<1>1. MaxSent \in Nat /\ Len(s) \in Nat
  BY BoundsAssumption
<1>2. Recent(s) = SubSeq(s, 1, Len(s))
  BY <1>1 DEF Recent
<1> QED BY <1>2

(* The four ways Send may put things before the list.                      *)
LEMMA Prefixes ==
  ASSUME NEW S, NEW s \in Seq(S), NEW a \in S, NEW b \in S
  PROVE  /\ <<>> \o <<>> \o s = s
         /\ <<a>> \o <<>> \o s = <<a>> \o s
         /\ <<>> \o <<b>> \o s = <<b>> \o s
         /\ <<a>> \o <<b>> \o s = <<a>> \o (<<b>> \o s)
         /\ <<b>> \o s \in Seq(S) /\ Len(<<b>> \o s) = Len(s) + 1
<1>1. <<a>> \in Seq(S) /\ <<b>> \in Seq(S) /\ <<>> \in Seq(S)
  OBVIOUS
<1> QED BY <1>1, ConcatAssociative, ConcatEmptySeq

(* What deliver() leaves: one more delivery at the front, and a notice     *)
(* exactly when it failed.                                                 *)
LEMMA DeliverKeeps ==
  ASSUME Sharing, NEW x \in Things, NEW to \in Devices, Deliver(x, to),
         recipient' \in Devices, text' \in {Words, None},
         attachment' \in Files \cup {ClipImage, None}, sendFails' \in BOOLEAN
  PROVE  Sharing' /\ DOMAIN sent \subseteq DOMAIN sent'
<1> DEFINE e == Entry(x, to, ~sendFails)
<1>1. e.item = x /\ e.ok = ~sendFails /\ failed' = IF sendFails THEN x ELSE None
  BY DEF Entry, Deliver, Failure
<1>2. e \in Delivery /\ sent \in Seq(Delivery) /\ Len(sent) <= MaxSent
  BY DEF Entry, Delivery, Sharing
<1>3. sent' = Recent(<<e>> \o sent)
  BY DEF Deliver, Tried
<1> HIDE DEF e
<1>4. /\ sent' \in Seq(Delivery) /\ sent' # <<>> /\ sent'[1] = e
      /\ Len(sent') <= MaxSent
      /\ \A m \in Nat : m <= MaxSent /\ m <= Len(sent) => 1..m \subseteq DOMAIN sent'
  BY <1>2, <1>3, PutFirst
<1>5. NoticeIsTheLastTry'
  BY <1>1, <1>4 DEF NoticeIsTheLastTry
<1>6. failed' \in Things \cup {None}
  BY <1>1
<1>7. DOMAIN sent \subseteq DOMAIN sent'
  <2>1. DOMAIN sent = 1..Len(sent) /\ Len(sent) \in Nat
    BY <1>2
  <2> QED BY <1>2, <1>4, <2>1
<1> QED BY <1>4, <1>5, <1>6, <1>7 DEF Sharing

-----------------------------------------------------------------------------
(* What a step leaves alone, and what a move or a sheet does to the screen. *)
LEMMA SharingSame == Sharing /\ UNCHANGED sharing => Sharing'
BY DEF Sharing, sharing, NoticeIsTheLastTry

LEMMA KeepingSame == Keeping /\ UNCHANGED keeping => Keeping'
BY DEF Keeping, keeping

LEMMA Arrives ==
  ASSUME Drawn, NEW p \in Places, Arrive(p), pi' = pi,
         p \in Kinds => shown'[p] \in kept'[p]
  PROVE  Drawn'
BY DEF Drawn, Arrive, Enter, Kinds, PageShown, Fits, OnNote, NoSheet, Sheet

LEMMA Closes ==
  ASSUME Drawn, Show(NoSheet), pi' = pi, PageShown'
  PROVE  Drawn'
BY DEF Drawn, Show, Fits, OnNote, NoSheet, Sheet

(* The sheet stays, or another one opens.                                  *)
LEMMA Opens ==
  ASSUME Drawn, UNCHANGED <<place, linked, kept, shown, items>>, Fits(sheet'),
         captures \subseteq captures', DOMAIN sent \subseteq DOMAIN sent',
         pi' \in {"online", "away"}, recording' \in BOOLEAN, recording' => place' = "camera"
  PROVE  Drawn'
BY DEF Drawn, PageShown, PageDrawn, Fits

LEMMA OfferedFits ==
  ASSUME IInv, NEW s \in Offered \cup Onward
  PROVE  Fits(s)
<1>1. CASE s \in Onward
  BY <1>1 DEF Onward, Sheet, IInv, Drawn, Fits, OnNote
<1>2. CASE s \in Offered
  BY <1>2 DEF Offered, PageDrawn, Sheet, Fits, OnNote
<1> QED BY <1>1, <1>2

-----------------------------------------------------------------------------
(* Moving about, and opening and closing sheets.                           *)
LEMMA Walks ==
  ASSUME IInv,
         \/ \E p \in Reach : Go(p)
         \/ \E s \in Offered \cup Onward : Open(s)
         \/ Back \/ PiChanges
  PROVE  IInv'
<1> USE DEF IInv
<1>1. ASSUME NEW p \in Reach, Go(p) PROVE IInv'
  <2>1. p \in Places /\ p \notin Kinds
    BY BoundsAssumption DEF Kinds
  <2> QED BY <1>1, <2>1, Arrives, SharingSame, KeepingSame DEF Go
<1>2. ASSUME NEW s \in Offered \cup Onward, Open(s) PROVE IInv'
  <2>1. UNCHANGED <<place, linked, kept, shown, items, captures, sent, recording, pi>> /\ sheet' = s
    BY <1>2 DEF Open, Show, sharing, keeping
  <2>2. Drawn'
    BY <2>1, OfferedFits, Opens DEF Drawn
  <2> QED BY <1>2, <2>2, SharingSame, KeepingSame DEF Open
<1>3. CASE Back
  <2>1. Sharing' /\ Keeping' /\ UNCHANGED <<pi, kept, shown>>
    BY <1>3, SharingSame, KeepingSame DEF Back, keeping
  <2>2. CASE Show(NoSheet)
    BY <2>1, <2>2, Closes DEF Drawn, PageShown, Show
  <2>3. CASE BackTarget(place) # Nowhere /\ Arrive(BackTarget(place))
    <3>1. BackTarget(place) \in Places \ Kinds
      BY <2>3, BackPlaces DEF Drawn, Kinds
    <3> QED BY <2>1, <2>3, <3>1, Arrives
  <2> QED BY <1>3, <2>2, <2>3 DEF Back
<1>4. CASE PiChanges
  <2>1. /\ UNCHANGED <<place, sheet, linked, kept, shown, items, captures, sent, recording>>
        /\ pi' \in {"online", "away"}
    BY <1>4 DEF PiChanges, Stay, sharing, keeping
  <2>2. Drawn'
    BY <2>1, Opens DEF Drawn
  <2> QED BY <1>4, <2>2, SharingSame, KeepingSame DEF PiChanges
<1> QED BY <1>1, <1>2, <1>3, <1>4

-----------------------------------------------------------------------------
(* Sharing: what is attached and written, and what is tried.               *)
LEMMA Composes ==
  ASSUME IInv,
         \/ \E d \in Devices : PickRecipient(d) \/ PickFromHome(d)
         \/ \E x \in Files : Attach(x)
         \/ \E w \in {Words, None} : Write(w)
         \/ Detach \/ UseClip \/ NetworkChanges
  PROVE  IInv'
<1> USE DEF IInv
<1>1. Keeping' /\ UNCHANGED <<kept, shown, items, captures, sent, pi>>
  BY KeepingSame
     DEF PickRecipient, PickFromHome, Attach, Write, Detach, UseClip, NetworkChanges, keeping
<1>2. Sharing'
  BY DEF PickRecipient, PickFromHome, Attach, Write, Detach, UseClip, NetworkChanges, Sharing,
         NoticeIsTheLastTry, Things
<1>3. Drawn'
  <2>1. CASE Show(NoSheet)
    BY <1>1, <2>1, Closes DEF Drawn, PageShown, Show
  <2>2. CASE UNCHANGED <<place, sheet, recording, linked>>
    BY <1>1, <2>2, Opens DEF Drawn
  <2>3. CASE Arrive("share")
    BY <1>1, <2>3, Arrives, NamedPlaces DEF Kinds
  <2> QED BY <2>1, <2>2, <2>3
          DEF PickRecipient, PickFromHome, Attach, Write, Detach, UseClip, NetworkChanges, Stay
<1> QED BY <1>1, <1>2, <1>3

LEMMA Delivers ==
  ASSUME IInv, SendClip \/ Resend \/ SendItem
  PROVE  IInv'
<1> USE DEF IInv
<1>1. PICK x \in Things, to \in Devices :
        Deliver(x, to) /\ recipient' \in Devices /\ UNCHANGED <<text, attachment, sendFails>>
  <2>1. CASE SendClip
    BY <2>1 DEF SendClip, Things, Sharing
  <2>2. CASE Resend
    <3>1. sent[sheet.arg] \in Delivery
      BY <2>2 DEF Resend, Sharing, Drawn, Fits
    <3>2. sent[sheet.arg].item \in Things /\ sent[sheet.arg].to \in Devices
      BY <3>1 DEF Delivery
    <3> QED BY <2>2, <3>2 DEF Resend
  <2>3. CASE SendItem
    BY <2>3 DEF SendItem, Drawn, Fits, Things, Sharing
  <2> QED BY <2>1, <2>2, <2>3
<1>2. Sharing'
  BY <1>1, DeliverKeeps DEF Sharing
<1>3. Keeping' /\ UNCHANGED <<kept, shown, pi>> /\ Show(NoSheet)
  BY KeepingSame DEF SendClip, Resend, SendItem, keeping
<1>4. Drawn'
  BY <1>3, Closes DEF Drawn, PageShown, Show
<1> QED BY <1>2, <1>3, <1>4

(* Send: what comes first in the list is what the notice is about.         *)
LEMMA SendKeeps ==
  ASSUME Sharing, Send
  PROVE  /\ Sharing' /\ DOMAIN sent \subseteq DOMAIN sent'
         /\ attachment # None /\ attachment' # attachment =>
              /\ attachment' = None /\ failed' = None
              /\ sent'[1].ok /\ sent'[1].to = recipient
<1> DEFINE a == Entry(attachment, recipient, ~sendFails)
           b == Entry(Words, recipient, ~sendFails)
<1>1. /\ sent \in Seq(Delivery) /\ Len(sent) \in Nat /\ Len(sent) <= MaxSent
      /\ DOMAIN sent = 1..Len(sent)
  BY DEF Sharing
<1>2. b \in Delivery /\ (attachment # None => a \in Delivery)
  BY DEF Entry, Delivery, Sharing, Things
<1>3. /\ a.item = attachment /\ a.to = recipient /\ a.ok = ~sendFails
      /\ b.item = Words /\ b.to = recipient /\ b.ok = ~sendFails
  BY DEF Entry
<1>4. /\ recipient' = recipient /\ sendFails' = sendFails
      /\ text' \in {Words, None} /\ attachment' \in Files \cup {ClipImage, None}
      /\ failed' = IF TextGoes THEN Failure(Words) ELSE AfterAttachment
      /\ attachment' = AttachmentLeft
  BY DEF Send, Sharing, AttachmentLeft
<1>5. sent' = Recent((IF TextGoes THEN <<b>> ELSE <<>>)
                       \o (IF attachment = None THEN <<>> ELSE <<a>>) \o sent)
  BY DEF Send
<1> HIDE DEF a, b
<1>6. CASE TextGoes
  <2>1. PICK s \in Seq(Delivery) : sent' = Recent(<<b>> \o s) /\ Len(sent) <= Len(s)
    <3>1. CASE attachment = None
      BY <1>1, <1>2, <1>5, <1>6, <3>1, Prefixes
    <3>2. CASE attachment # None
      <4>1. a \in Delivery /\ b \in Delivery /\ sent \in Seq(Delivery) /\ Len(sent) \in Nat
        BY <1>1, <1>2, <3>2
      <4>2. sent' = Recent(<<b>> \o <<a>> \o sent)
        BY <1>5, <1>6, <3>2
      <4>3. /\ <<b>> \o <<a>> \o sent = <<b>> \o (<<a>> \o sent)
            /\ <<a>> \o sent \in Seq(Delivery) /\ Len(<<a>> \o sent) = Len(sent) + 1
        BY <4>1, Prefixes
      <4> DEFINE s == <<a>> \o sent
      <4>4. sent' = Recent(<<b>> \o s)
        BY <4>2, <4>3, Zenon
      <4>5. s \in Seq(Delivery) /\ Len(sent) <= Len(s)
        BY <4>1, <4>3
      <4> HIDE DEF s
      <4> QED BY <4>4, <4>5
    <3> QED BY <3>1, <3>2
  <2>2. /\ sent' \in Seq(Delivery) /\ sent' # <<>> /\ sent'[1] = b /\ Len(sent') <= MaxSent
        /\ \A m \in Nat : m <= MaxSent /\ m <= Len(s) => 1..m \subseteq DOMAIN sent'
    BY <1>2, <2>1, PutFirst
  <2>3. DOMAIN sent \subseteq DOMAIN sent'
    BY <1>1, <2>1, <2>2
  <2>4. failed' = IF sendFails THEN Words ELSE None
    BY <1>4, <1>6 DEF Failure
  <2>5. NoticeIsTheLastTry'
    BY <1>3, <2>2, <2>4 DEF NoticeIsTheLastTry
  <2>6. failed' \in Things \cup {None}
    BY <2>4 DEF Things
  <2>7. Sharing'
    BY <1>4, <2>2, <2>5, <2>6 DEF Sharing
  <2> QED BY <1>3, <1>4, <2>2, <2>3, <2>4, <2>7 DEF AttachmentLeft
<1>7. CASE ~TextGoes /\ attachment # None
  <2>1. sent' = Recent(<<a>> \o sent)
    BY <1>1, <1>2, <1>5, <1>7, Prefixes
  <2>2. /\ sent' \in Seq(Delivery) /\ sent' # <<>> /\ sent'[1] = a /\ Len(sent') <= MaxSent
        /\ \A m \in Nat : m <= MaxSent /\ m <= Len(sent) => 1..m \subseteq DOMAIN sent'
    <3>1. a \in Delivery /\ sent \in Seq(Delivery)
      BY <1>1, <1>2, <1>7
    <3> QED BY <2>1, <3>1, PutFirst
  <2>3. DOMAIN sent \subseteq DOMAIN sent'
    BY <1>1, <2>2
  <2>4. failed' = IF sendFails THEN attachment ELSE None
    BY <1>4, <1>7 DEF AfterAttachment, Failure
  <2>5. NoticeIsTheLastTry'
    BY <1>3, <2>2, <2>4 DEF NoticeIsTheLastTry
  <2>6. failed' \in Things \cup {None}
    BY <1>7, <2>4 DEF Sharing, Things
  <2>7. Sharing'
    BY <1>4, <2>2, <2>5, <2>6 DEF Sharing
  <2> QED BY <1>3, <1>4, <2>2, <2>3, <2>4, <2>7 DEF AttachmentLeft
<1>8. CASE ~TextGoes /\ attachment = None
  <2>1. sent' = Recent(sent)
    BY <1>1, <1>2, <1>5, <1>8, Prefixes
  <2>2. sent' = sent
    BY <1>1, <2>1, RecentWhole
  <2>3. failed' = failed
    BY <1>4, <1>8 DEF AfterAttachment
  <2>4. Sharing'
    BY <1>4, <2>2, <2>3 DEF Sharing, NoticeIsTheLastTry
  <2> QED BY <1>8, <2>2, <2>4
<1> QED BY <1>6, <1>7, <1>8

LEMMA SendsAll ==
  ASSUME IInv, Send
  PROVE  IInv'
<1>1. Sharing' /\ DOMAIN sent \subseteq DOMAIN sent'
  BY SendKeeps DEF IInv
<1>2. Keeping' /\ UNCHANGED <<place, sheet, linked, recording, pi, kept, shown, items, captures>>
  BY KeepingSame DEF Send, Stay, keeping, IInv
<1>3. Drawn'
  BY <1>1, <1>2, Opens DEF IInv, Drawn
<1> QED BY <1>1, <1>2, <1>3 DEF IInv

-----------------------------------------------------------------------------
(* Notes and pins.                                                         *)
LEMMA FreshId ==
  ASSUME Keeping, made < MaxNew
  PROVE  Fresh \in Ids /\ Fresh \in 0..MaxNew
BY BoundsAssumption DEF Keeping, Fresh, Ids

LEMMA KeptOpens ==
  ASSUME IInv, NEW k \in Kinds,
         NewKept(k) \/ \E id \in kept[k] : OpenKept(k, id)
  PROVE  IInv'
<1> USE DEF IInv
<1>1. PICK id \in Ids : /\ id \in kept'[k] /\ shown' = [shown EXCEPT ![k] = id]
                        /\ kept' \in [Kinds -> SUBSET Ids]
  <2>1. CASE NewKept(k)
    BY <2>1, FreshId DEF NewKept, Keeping
  <2>2. CASE \E id \in kept[k] : OpenKept(k, id)
    BY <2>2 DEF OpenKept, Keeping
  <2> QED BY <2>1, <2>2
<1>2. shown' \in [Kinds -> Ids] /\ shown'[k] = id
  BY <1>1 DEF Keeping
<1>3. made' \in 0..MaxNew /\ items' = items /\ captures' = captures
  BY FreshId DEF NewKept, OpenKept, Keeping
<1>4. Keeping'
  BY <1>1, <1>2, <1>3 DEF Keeping
<1>5. Arrive(k) /\ pi' = pi /\ k \in Places /\ Sharing'
  BY SharingSame, NamedPlaces DEF NewKept, OpenKept, Kinds
<1>6. Drawn'
  BY <1>1, <1>2, <1>5, Arrives
<1> QED BY <1>4, <1>5, <1>6

(* The assistant's link leads to the page of a note that may be gone.      *)
LEMMA LinkOpens ==
  ASSUME IInv, OpenFromResult
  PROVE  IInv'
<1> USE DEF IInv
<1>1. SampleNote \in Ids
  BY BoundsAssumption DEF SampleNote, Ids
<1>2. Keeping' /\ Sharing'
  BY <1>1, SharingSame DEF OpenFromResult, Keeping
<1>3. Drawn'
  BY NamedPlaces
     DEF OpenFromResult, Enter, Drawn, PageShown, Fits, OnNote, NoSheet, Sheet
<1> QED BY <1>2, <1>3

LEMMA KeptDeletes ==
  ASSUME IInv, NEW k \in Kinds, DeleteKept(k)
  PROVE  IInv'
<1> USE DEF IInv
<1>1. Keeping' /\ Sharing'
  BY SharingSame DEF DeleteKept, Keeping
<1>2. Arrive("notes") /\ pi' = pi /\ "notes" \in Places \ Kinds
  BY NamedPlaces DEF DeleteKept, Leave, ListOf, Kinds
<1>3. Drawn'
  BY <1>2, Arrives
<1> QED BY <1>1, <1>3

LEMMA ItemsChange ==
  ASSUME IInv, AddHere \/ AddToNote \/ DropItem
  PROVE  IInv'
<1> USE DEF IInv
<1>1. Show(NoSheet) /\ pi' = pi /\ Sharing' /\ shown' = shown /\ captures' = captures
  BY SharingSame DEF AddHere, AddToNote, DropItem, Dropped
<1>2. CASE AddHere
  <2>1. shown["note"] \in Ids /\ items[shown["note"]] + 1 \in 0..MaxItems
    BY <1>2, BoundsAssumption DEF AddHere, Keeping, Kinds
  <2>2. Keeping' /\ kept' = kept
    BY <1>2, <2>1 DEF AddHere, Keeping
  <2> QED BY <1>1, <2>2, Closes DEF Drawn, PageShown, Show
<1>3. CASE DropItem
  <2>1. shown["note"] \in Ids /\ items[shown["note"]] - 1 \in 0..MaxItems
    BY <1>3, BoundsAssumption DEF DropItem, Keeping, Kinds, Drawn, Fits
  <2>2. Keeping' /\ kept' = kept
    BY <1>3, <2>1 DEF DropItem, Keeping
  <2> QED BY <1>1, <2>2, Closes DEF Drawn, PageShown, Show
<1>4. CASE AddToNote
  <2>1. ASSUME NEW n \in kept["note"], items[n] < MaxItems,
               items' = [items EXCEPT ![n] = @ + 1], UNCHANGED <<kept, made>>
        PROVE  Keeping' /\ \A k \in Kinds : kept[k] \subseteq kept'[k]
    <3>1. n \in Ids /\ items[n] + 1 \in 0..MaxItems
      BY <2>1, BoundsAssumption DEF Keeping, Kinds
    <3> QED BY <1>1, <2>1, <3>1 DEF Keeping
  <2>2. ASSUME made < MaxNew, MaxItems > 0, made' = Fresh,
               kept' = [kept EXCEPT !["note"] = @ \cup {Fresh}],
               items' = [items EXCEPT ![Fresh] = 1]
        PROVE  Keeping' /\ \A k \in Kinds : kept[k] \subseteq kept'[k]
    <3>1. Fresh \in Ids /\ Fresh \in 0..MaxNew /\ 1 \in 0..MaxItems
      BY <2>2, FreshId, BoundsAssumption
    <3>2. kept' \in [Kinds -> SUBSET Ids] /\ \A k \in Kinds : kept[k] \subseteq kept'[k]
      BY <2>2, <3>1 DEF Keeping
    <3>3. items' \in [Ids -> 0..MaxItems]
      BY <2>2, <3>1 DEF Keeping
    <3> QED BY <1>1, <2>2, <3>1, <3>2, <3>3 DEF Keeping
  <2>3. Keeping' /\ \A k \in Kinds : kept[k] \subseteq kept'[k]
    BY <1>4, <2>1, <2>2 DEF AddToNote
  <2>4. kept["note"] \subseteq kept'["note"] /\ kept["pin"] \subseteq kept'["pin"]
    BY <2>3 DEF Kinds
  <2>5. PageShown /\ UNCHANGED <<place, linked, shown>>
    BY <1>1 DEF Drawn, Show
  <2>6. PageShown'
    BY <2>4, <2>5 DEF PageShown
  <2> QED BY <1>1, <2>3, <2>6, Closes
<1> QED BY <1>2, <1>3, <1>4

(* The Pi camera.                                                          *)
LEMMA CameraKeeps ==
  ASSUME IInv, Photo \/ Record \/ DeleteCapture
  PROVE  IInv'
<1> USE DEF IInv
<1>1. Sharing'
  BY SharingSame DEF Photo, Record, DeleteCapture
<1>2. Keeping'
  BY FreshId DEF Photo, Record, DeleteCapture, Keeping
<1>3. CASE Photo \/ Record
  <2>1. /\ UNCHANGED <<place, sheet, linked, kept, shown, items, sent, pi>> /\ captures \subseteq captures'
        /\ recording' \in BOOLEAN /\ place = "camera"
    BY <1>3 DEF Photo, Record, Stay, sharing, Drawn
  <2>2. Drawn'
    BY <2>1, Opens DEF Drawn
  <2> QED BY <1>1, <1>2, <2>2
<1>4. CASE DeleteCapture
  <2>1. Show(NoSheet) /\ UNCHANGED <<pi, kept, shown>>
    BY <1>4 DEF DeleteCapture
  <2> QED BY <1>1, <1>2, <2>1, Closes DEF Drawn, PageShown, Show
<1> QED BY <1>3, <1>4

-----------------------------------------------------------------------------
LEMMA InitIInv == Init => IInv
<1> SUFFICES ASSUME Init PROVE IInv
  OBVIOUS
<1> USE DEF Init
<1>1. Sharing
  <2>1. sent \in Seq(Delivery) /\ Len(sent) <= MaxSent
    BY BoundsAssumption
  <2>2. recipient \in Devices
    BY ThingsAssumption
  <2> QED BY <2>1, <2>2 DEF Sharing, NoticeIsTheLastTry
<1>2. Keeping
  BY BoundsAssumption DEF Keeping, Ids
<1>3. Drawn
  BY NamedPlaces DEF Drawn, PageShown, Kinds, Fits, OnNote, NoSheet, Sheet
<1> QED BY <1>1, <1>2, <1>3 DEF IInv

LEMMA NextIInv == IInv /\ [Next]_vars => IInv'
<1> SUFFICES ASSUME IInv, [Next]_vars PROVE IInv'
  OBVIOUS
<1>1. CASE UNCHANGED vars
  <2>1. Sharing' /\ Keeping'
    BY <1>1, SharingSame, KeepingSame DEF vars, IInv
  <2>2. Drawn'
    BY <1>1, Opens DEF vars, sharing, keeping, IInv, Drawn
  <2> QED BY <2>1, <2>2 DEF IInv
<1> QED BY <1>1, Walks, Composes, Delivers, SendsAll, KeptOpens, LinkOpens, KeptDeletes, ItemsChange,
           CameraKeeps DEF Next

(* The inductive invariant: what is kept, what is shared and what is drawn *)
(* fit together in every state the taps lead to.                           *)
THEOREM Invariant == Spec => []IInv
BY InitIInv, NextIInv, PTL DEF Spec

(* Every variable keeps its type and every list its bound.                 *)
THEOREM Typing == Spec => []TypeOK
BY Invariant, InvTypeOK, PTL

(* The page and the sheet on the screen speak of a note, a pin, an item, a *)
(* delivery or a capture that is there, whatever was deleted before, so    *)
(* that drawing them cannot fail (screens.js, sheets.js); but for the page *)
(* of a note entered by the assistant's link (sheets.js:289), which may be *)
(* gone, and then nothing is offered there.                                *)
THEOREM WhatIsDrawnExists == Spec => []ShownExists
BY Invariant, InvShownExists, PTL

(* What the notice of a failure names first is the delivery at the head of *)
(* the list, which failed, through Send, Send again and every deliver() of *)
(* a sheet (app.js).  The rest of the notice's line is not covered.        *)
THEOREM NoticeIsCurrent == Spec => []NoticeIsTheLastTry
BY Invariant, PTL DEF IInv, Sharing

(* What is attached goes by the person's hand, or because it was delivered *)
(* to the one it was meant for: a failed send never loses it (app.js).     *)
THEOREM AttachmentsStay == Spec => AttachmentKept
<1> DEFINE Stays == attachment # None /\ attachment' # attachment =>
              \/ sheet.type \in {"attach", "clipboard"}
              \/ Detach
              \/ attachment' = None /\ failed' = None /\ sent'[1].ok /\ sent'[1].to = recipient
<1>1. IInv /\ [Next]_vars => [Stays]_vars
  <2> SUFFICES ASSUME IInv, Next, attachment # None, attachment' # attachment
               PROVE  \/ sheet.type \in {"attach", "clipboard"}
                      \/ Detach
                      \/ attachment' = None /\ failed' = None /\ sent'[1].ok
                         /\ sent'[1].to = recipient
    BY DEF Stays
  <2>1. CASE Send
    BY <2>1, SendKeeps DEF IInv
  <2>2. CASE UseClip \/ \E x \in Files : Attach(x)
    BY <2>2 DEF UseClip, Attach
  <2> QED BY <2>1, <2>2
          DEF Next, Go, Open, PickRecipient, PickFromHome, Write, Back, SendClip, Resend,
              SendItem, OpenKept, OpenFromResult, NewKept, DeleteKept, AddHere, AddToNote, DropItem, Photo,
              Record, DeleteCapture, PiChanges, NetworkChanges, sharing
<1>2. [][Stays]_vars => AttachmentKept
  BY PTL DEF AttachmentKept
<1> QED BY <1>1, <1>2, Invariant, PTL DEF Spec
=============================================================================
