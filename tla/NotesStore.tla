------------------------------ MODULE NotesStore ------------------------------
(***************************************************************************)
(* The notes folder the Mac, the Pi and the phone share, as the Pi serves  *)
(* it: one file per note in a git repository, every save a commit          *)
(* (media/notes_store.py, and its callers in media/server.py).             *)
(*                                                                         *)
(* The server has a thread per request and no lock around the folder, so a *)
(* request is here what it reads and writes, step by step: the file, git's *)
(* index and git's log.  A git command that finds an index.lock fails, and *)
(* its result is not looked at; one that is killed in its work leaves the  *)
(* lock behind, and nothing in the program removes it.  The Mac pushes     *)
(* straight into the working tree, which git allows on top of the newest   *)
(* commit and with nothing uncommitted.                                    *)
(***************************************************************************)
EXTENDS NotesText

CONSTANTS
  Notes,        \* note ids
  Writers,      \* the phone, the assistant, the web page
  Asked,        \* the kinds of request they make
  MaxRequests,  \* bound: requests and pushes in a behaviour
  MaxOverlaps,  \* bound: those that begin while another is under way
  MaxDeaths     \* bound: requests that get no answer

Kinds == {"read", "create", "save", "meta", "resolve", "delete"}

ASSUME KindsAssumption == Asked \subseteq Kinds
ASSUME BoundsAssumption == {MaxRequests, MaxOverlaps, MaxDeaths} \subseteq Nat

VARIABLES
  file,    \* the working tree
  index,   \* what the next commit will hold
  log,     \* the commits that touched each note, oldest first
  lock,    \* git's index.lock: "free", or held by the Mac's "push", or "stale"
  req,     \* each writer's request, or the last one that got no answer
  copy,    \* what each writer was last told of each note
  sent,    \* requests and pushes so far, each of which numbers its edit
  overlaps, \* how many of them began while another was under way
  deaths,  \* requests that got no answer
  crossed  \* history: the requests under way that others got in the way of

folder == <<file, index, log>>
vars == <<folder, lock, req, copy, sent, overlaps, deaths, crossed>>

(* What is asked: the line a save is about, its title and text, the pin,   *)
(* the side to keep.  part tells a save's own write from that of the pin   *)
(* sent along with it; note is what the request has in hand of the file.   *)
Quiet == [pc |-> "idle", op |-> "none", id |-> "none", exp |-> 0, edit |-> 0, title |-> 0,
          body |-> <<>>, pin |-> "keep", keep |-> "none", part |-> "text", note |-> NoNote]

UnderWay == {w \in Writers : req[w].pc \notin {"idle", "unanswered"}}

Init ==
  /\ file = [n \in Notes |-> NoNote]
  /\ index = file
  /\ log = [n \in Notes |-> <<>>]
  /\ lock = "free"
  /\ req = [w \in Writers |-> Quiet]
  /\ copy = [w \in Writers |-> [n \in Notes |-> Unread]]
  /\ sent = 0 /\ overlaps = 0 /\ deaths = 0
  /\ crossed = {}

-----------------------------------------------------------------------------
Revision(n) == Len(log[n])
Newest(n) == IF log[n] = <<>> THEN NoNote ELSE Last(log[n])

(* _body_at: these are the words of version r.                             *)
WordsAt(n, r, body) == r \in 1..Len(log[n]) /\ Exists(log[n][r]) /\ log[n][r].body = body

-----------------------------------------------------------------------------
(* A request that has begun is crossed by another one that writes the file *)
(* or has git done its work, and by a push; by a file half written when it *)
(* begins; and by a lock that makes its own git command fail.              *)
HalfWritten == \E w \in Writers : req[w].pc = "fill"
Begins(w) == crossed' = IF HalfWritten THEN crossed \cup {w} ELSE crossed \ {w}
Crosses(w) == crossed' = crossed \cup (UnderWay \ {w})

(* A writer sends a request, about a note as it was told of it.            *)
Numbered == sent < MaxRequests /\ sent' = sent + 1
Overlapping ==
  /\ overlaps' = IF UnderWay # {} \/ lock = "push" THEN overlaps + 1 ELSE overlaps
  /\ overlaps' <= MaxOverlaps

Begun(w, r) ==
  /\ Numbered /\ Overlapping
  /\ req' = [req EXCEPT ![w] = r]
  /\ Begins(w)
  /\ UNCHANGED <<folder, lock, copy, deaths>>

Send(w, n, op, r) ==
  /\ req[w].pc = "idle" /\ op \in Asked
  /\ Begun(w, [r EXCEPT !.op = op, !.id = n, !.exp = copy[w][n].rev])

SendRead(w, n) ==
  /\ Exists(file[n])
  /\ Send(w, n, "read", [Quiet EXCEPT !.pc = "answer"])

SendCreate(w, n) ==
  /\ log[n] = <<>> /\ ~Exists(file[n]) /\ \A v \in Writers : req[v].id # n
  /\ \E pin \in {"keep", "pin"} :
       Send(w, n, "create", [Quiet EXCEPT !.pc = "write", !.edit = sent + 1, !.title = sent + 1,
              !.body = <<sent + 1>>, !.pin = pin,
              !.note = [title |-> sent + 1, body |-> <<sent + 1>>, pin |-> "unpin"]])

(* _note_revision: a save or a deletion names a revision, 1 or later.      *)
Versioned(w, n) == Exists(copy[w][n].note) /\ copy[w][n].rev >= 1

(* A new title, a line more or another in the place of one, a mark of a    *)
(* clash block included; with a pin that is asked to change, or without.   *)
Other(pin) == IF pin = "pin" THEN "unpin" ELSE "pin"
SendSave(w, n) ==
  LET seen == copy[w][n].note
      edit == sent + 1
  IN
  /\ Versioned(w, n)
  /\ \E text \in {<<edit, seen.body>>, <<seen.title, Append(seen.body, edit)>>}
                 \cup {<<seen.title, ReplaceAt(seen.body, i, edit)>> : i \in DOMAIN seen.body},
        pin \in {"keep", Other(seen.pin)} :
       Send(w, n, "save", [Quiet EXCEPT !.pc = "look", !.edit = edit, !.title = text[1],
                                        !.body = text[2], !.pin = pin])

SendMeta(w, n) ==
  /\ Exists(copy[w][n].note)
  /\ Send(w, n, "meta", [Quiet EXCEPT !.pc = "look at pin", !.pin = Other(copy[w][n].note.pin)])

SendResolve(w, n) ==
  /\ Conflicted(copy[w][n].note.body)
  /\ \E keep \in {"first", "second", "both"} :
       Send(w, n, "resolve", [Quiet EXCEPT !.pc = "look at clash", !.keep = keep])

SendDelete(w, n) ==
  /\ Versioned(w, n)
  /\ Send(w, n, "delete", [Quiet EXCEPT !.pc = "check"])

(* The answer did not come: the writer sends the same again, or reloads.   *)
FirstStep == [save |-> "look", meta |-> "look at pin", resolve |-> "look at clash", delete |-> "check"]
Retry(w) ==
  /\ req[w].pc = "unanswered" /\ req[w].op \in DOMAIN FirstStep
  /\ Begun(w, [req[w] EXCEPT !.pc = FirstStep[req[w].op]])

Reload(w) ==
  /\ req[w].pc = "unanswered"
  /\ req' = [req EXCEPT ![w] = Quiet]
  /\ UNCHANGED <<folder, lock, copy, sent, overlaps, deaths, crossed>>

-----------------------------------------------------------------------------
\* A request that is not answered leaves only what was asked.
Dropped(r) == [r EXCEPT !.pc = "unanswered", !.part = "text", !.note = NoNote]

(* A request goes on, or comes to its end, and the folder stays.           *)
Only(w, r) ==
  /\ req' = [req EXCEPT ![w] = r]
  /\ UNCHANGED <<folder, lock, copy, sent, overlaps, deaths, crossed>>
Told(w, seen) ==
  /\ req' = [req EXCEPT ![w] = Quiet]
  /\ copy' = [copy EXCEPT ![w][req[w].id] = seen]
  /\ UNCHANGED <<folder, lock, sent, overlaps, deaths, crossed>>

(* The note is gone (404): the writer is told so.                          *)
NotFound(w) == ~Exists(file[req[w].id]) /\ Told(w, Unread)

(* A request reads the file, and goes on with what it makes of it.         *)
Look(w, from, to, note, part) ==
  /\ req[w].pc = from
  /\ \/ NotFound(w)
     \/ /\ Exists(file[req[w].id])
        /\ Only(w, [req[w] EXCEPT !.pc = to, !.note = note, !.part = part])

LookSave(w) == Look(w, "look", "compare", file[req[w].id], "text")

LookMeta(w) ==
  Look(w, "look at pin", "write", [file[req[w].id] EXCEPT !.pin = req[w].pin], "pin")

LookResolve(w) ==
  LET note == file[req[w].id]
  IN  Look(w, "look at clash", "write", [note EXCEPT !.body = Settle(note.body, req[w].keep)], "text")

(* update: on top of an edit it never saw, a save keeps both sides.        *)
ClashesOverPins(r) == r.exp # Revision(r.id) /\ r.body # r.note.body
Clash(r) ==
  r.exp # Revision(r.id) /\ r.body # r.note.body /\ ~WordsAt(r.id, r.exp, r.note.body)

Compare(w) ==
  LET r == req[w]
      body == IF Clash(r) THEN Block(r.body, r.note.body) ELSE r.body
  IN
  /\ r.pc = "compare"
  /\ Only(w, [r EXCEPT !.pc = "write", !.note = [@ EXCEPT !.title = r.title, !.body = body]])

(* delete: over an edit never seen it is refused (409).                    *)
Check(w) ==
  LET r == req[w] IN
  /\ r.pc = "check"
  /\ \/ NotFound(w)
     \/ /\ Exists(file[r.id])
        /\ Only(w, IF Revision(r.id) = r.exp THEN [r EXCEPT !.pc = "write", !.note = NoNote] ELSE Quiet)

(* The file is emptied and then written, or unlinked at once: a second     *)
(* unlink raises.                                                          *)
Puts(w, note, r) ==
  /\ file' = [file EXCEPT ![r.id] = note]
  /\ req' = [req EXCEPT ![w] = r]
  /\ UNCHANGED <<index, log, lock, copy, sent, overlaps, deaths>>
  /\ Crosses(w)

Write(w) ==
  LET r == req[w] IN
  /\ r.pc = "write"
  /\ IF r.op # "delete" THEN Puts(w, Blank, [r EXCEPT !.pc = "fill"])
     ELSE Puts(w, NoNote, IF Exists(file[r.id]) THEN [r EXCEPT !.pc = "add"] ELSE Dropped(r))

Fill(w) == req[w].pc = "fill" /\ Puts(w, req[w].note, [req[w] EXCEPT !.pc = "add", !.note = NoNote])

(* commit: git add -A and git commit, each skipped when something else has *)
(* the lock.  A pin sent along with a save has a write and a commit of its *)
(* own.                                                                    *)
Locked == lock # "free"
OthersInGit(w) == \E v \in Writers \ {w} : req[v].pc \in {"add", "commit"}

Git(w, from, to, done) ==
  /\ req[w].pc = from
  /\ req' = [req EXCEPT ![w].pc = to]
  /\ \/ ~Locked /\ done /\ Crosses(w)
     \/ (Locked \/ OthersInGit(w)) /\ UNCHANGED folder /\ crossed' = crossed \cup {w}
  /\ UNCHANGED <<lock, copy, sent, overlaps, deaths>>

AddsNothing(w) == Git(w, "add", "commit", UNCHANGED folder)
Add(w) == Git(w, "add", "commit", index' = file /\ UNCHANGED <<file, log>>)

Committed == [n \in Notes |-> IF index[n] = Newest(n) THEN log[n] ELSE Append(log[n], index[n])]
Commit(w) ==
  Git(w, "commit", IF req[w].pin # "keep" /\ req[w].part = "text" THEN "look at pin" ELSE "answer",
      log' = Committed /\ UNCHANGED <<file, index>>)

(* read: the text, and then how many commits there are.                    *)
Answer(w) ==
  \/ req[w].op # "delete" /\ Look(w, "answer", "count", file[req[w].id], "text")
  \/ req[w].op = "delete" /\ req[w].pc = "answer" /\ Told(w, Unread)

\* The mutant does not count, but adds one to what the writer had.
NextOne(r) == r.exp + 1
Counted(r) == Revision(r.id)
Count(w) ==
  LET r == req[w] IN
  /\ r.pc = "count"
  /\ \/ Told(w, [rev |-> Counted(r), note |-> r.note])
     \/ ~Exists(file[r.id]) /\ Only(w, Dropped(r))

(* The answer is lost, the service is restarted, git takes too long: what  *)
(* is killed in git may leave the lock.                                    *)
Dies(w) ==
  /\ w \in UnderWay /\ deaths < MaxDeaths
  /\ deaths' = deaths + 1
  /\ req' = [req EXCEPT ![w] = Dropped(@)]
  /\ lock' \in {lock} \cup (IF req[w].pc \in {"add", "commit"} /\ ~Locked THEN {"stale"} ELSE {})
  /\ UNCHANGED <<folder, copy, sent, overlaps, crossed>>

(* The Mac pushes an edit of the newest version: git takes the lock, and   *)
(* puts the edit in place if nothing was written meanwhile.                *)
Clean == \A m \in Notes : index[m] = Newest(m) /\ file[m] = index[m]
Pushable(n) == Exists(Newest(n)) /\ sent < MaxRequests

PushBegins ==
  /\ ~Locked /\ Clean /\ \E n \in Notes : Pushable(n)
  /\ Overlapping
  /\ lock' = "push"
  /\ UNCHANGED <<folder, req, copy, sent, deaths, crossed>>

PushFails ==
  /\ lock = "push" /\ ~Clean
  /\ lock' = "free"
  /\ UNCHANGED <<folder, req, copy, sent, overlaps, deaths, crossed>>

MacPush(n) ==
  /\ lock = "push" /\ Clean /\ Pushable(n)
  /\ Numbered
  /\ LET pushed == [Newest(n) EXCEPT !.body = <<sent'>>] IN
       /\ file' = [file EXCEPT ![n] = pushed]
       /\ index' = file'
       /\ log' = [log EXCEPT ![n] = Append(@, pushed)]
  /\ lock' = "free"
  /\ crossed' = crossed \cup UnderWay
  /\ UNCHANGED <<req, copy, overlaps, deaths>>

-----------------------------------------------------------------------------
Ask(w, n) ==
  \/ SendRead(w, n) \/ SendCreate(w, n) \/ SendSave(w, n)
  \/ SendMeta(w, n) \/ SendResolve(w, n) \/ SendDelete(w, n)

Serve(w) ==
  \/ LookSave(w) \/ LookMeta(w) \/ LookResolve(w) \/ Compare(w) \/ Check(w)
  \/ Write(w) \/ Fill(w) \/ Add(w) \/ Commit(w) \/ Answer(w) \/ Count(w)

Next ==
  \/ \E w \in Writers, n \in Notes : Ask(w, n)
  \/ \E w \in Writers : Serve(w) \/ Retry(w) \/ Reload(w) \/ Dies(w)
  \/ PushBegins \/ PushFails \/ \E n \in Notes : MacPush(n)

Spec == Init /\ [][Next]_vars

-----------------------------------------------------------------------------
Line == Marks \cup 1..MaxRequests
Content == [title : {Untitled} \cup 0..MaxRequests, body : Seq(Line), pin : {"pin", "unpin"}]
Request == [pc : {"idle", "unanswered", "look", "look at pin", "look at clash", "check", "compare",
                  "write", "fill", "add", "commit", "answer", "count"},
            op : {"none"} \cup Kinds,
            id : Notes \cup {"none"}, exp : Nat, edit : 0..MaxRequests, title : {Untitled} \cup 0..MaxRequests,
            body : Seq(Line), pin : {"keep", "pin", "unpin"},
            keep : {"none", "first", "second", "both"}, part : {"text", "pin"}, note : Content]

(* The folder, the requests and what the writers know have their types, a  *)
(* request under way is about a note, and nobody was told of a revision    *)
(* that does not exist.                                                    *)
TypeOK ==
  /\ file \in [Notes -> Content] /\ index \in [Notes -> Content]
  /\ log \in [Notes -> Seq(Content)] /\ lock \in {"free", "push", "stale"}
  /\ req \in [Writers -> Request]
  /\ \A w \in UnderWay : req[w].id \in Notes
  /\ copy \in [Writers -> [Notes -> [rev : Nat, note : Content]]]
  /\ \A w \in Writers, n \in Notes : copy[w][n].rev <= Len(log[n])
  /\ sent \in 0..MaxRequests /\ overlaps \in 0..MaxOverlaps /\ deaths \in 0..MaxDeaths /\ crossed \subseteq Writers

Words(body) == ToSet(body) \ Marks
Has(note, e) == e = note.title \/ e \in Words(note.body)

(* Nothing is ever lost: the edit of a save that is being answered is in   *)
(* the file or in a version of it (notes_store.py:3-8: every save is a     *)
(* version).                                                               *)
NothingLost == \A w \in Writers : req[w].pc = "count" /\ req[w].edit # 0 =>
  \E n \in Notes : Has(file[n], req[w].edit) \/ \E i \in 1..Len(log[n]) : Has(log[n][i], req[w].edit)

(* Every save is a version (notes_store.py:3-8), when nothing got in its   *)
(* way: what a writer is told at the end of it is the version whose number *)
(* it is told, with the edit in it, so that its next save will not clash   *)
(* with its own words; whoever died before it, half way through a save or  *)
(* between a save and its commit, and however often it was sent again.     *)
EndsAsVersion(w) ==
  req[w].op \in {"create", "save"} /\ req[w].pc = "count" /\ req'[w].pc = "idle" =>
    LET n == req[w].id
        seen == copy'[w][n]
    IN  seen.rev \in 1..Len(log[n]) /\ log[n][seen.rev] = seen.note /\ Has(seen.note, req[w].edit)
SaveIsVersion == [][\A w \in Writers \ crossed : EndsAsVersion(w)]_vars

(* A block settled keeps the side asked for, and both together keep every  *)
(* line of the owner in its order, however the blocks are nested           *)
(* (notes_store.py:379-400).                                               *)
OwnLine(own, line) == IF line \in Marks THEN own ELSE Append(own, line)
OwnLines(body) ==
  LET own[i \in 0..Len(body)] == IF i = 0 THEN <<>> ELSE OwnLine(own[i - 1], body[i])
  IN  own[Len(body)]
SettlesWell(body) ==
  /\ OwnLines(Settle(body, "both")) = OwnLines(body)
  /\ \A q \in 1..Len(body) :
       LET mine == SubSeq(body, 2, q - 1)
           theirs == SubSeq(body, q + 1, Len(body) - 1)
       IN  body = Block(mine, theirs) /\ Marks \cap (ToSet(mine) \cup ToSet(theirs)) = {} =>
             Settle(body, "first") = mine /\ Settle(body, "second") = theirs
SettleKeeps == \A n \in Notes : SettlesWell(file[n].body)

(* A request that nothing crossed is as good as one step, though it looks, *)
(* compares, empties the file, writes and commits apart, while others read *)
(* or wait, and after some that died and left their work to its commit:    *)
(* each of its steps leaves what a writer sees alone, or does to it what   *)
(* was asked as NotesAtomic does it in one.  An emptied file counts as the *)
(* text that is about to be in it.                                         *)
Filling(n) == {w \in Writers : req[w].pc = "fill" /\ req[w].id = n}
Shown == [n \in Notes |-> IF Filling(n) = {} THEN file[n] ELSE req[CHOOSE w \in Filling(n) : TRUE].note]

Atomic == INSTANCE NotesAtomic WITH file <- Shown, asked <- req
UncrossedIsAtomic ==
  /\ Atomic!Init
  /\ [][\A w \in Writers \ crossed : Serve(w) => Atomic!Next]_<<Shown, log, copy>>
=============================================================================
