----------------------------- MODULE NotesAtomic -----------------------------
(***************************************************************************)
(* The notes folder as its writers may think of it: what a request asks is *)
(* done in one step to the text there is, a version is taken of what the   *)
(* folder holds, and a writer is told of a note as it is.                  *)
(***************************************************************************)
EXTENDS NotesText

CONSTANTS Notes, Writers

VARIABLES
  file,  \* the text of each note
  log,   \* its versions
  copy,  \* what each writer was last told of it
  asked  \* what each writer asks, as it likes

Init ==
  /\ file = [n \in Notes |-> NoNote]
  /\ log = [n \in Notes |-> <<>>]
  /\ copy = [w \in Writers |-> [n \in Notes |-> Unread]]

Newest(n) == IF log[n] = <<>> THEN NoNote ELSE Last(log[n])

Becomes(n, note) ==
  /\ file' = [file EXCEPT ![n] = note]
  /\ UNCHANGED <<log, copy>>

Create(w) ==
  LET r == asked[w] IN
  /\ r.op = "create" /\ ~Exists(file[r.id])
  /\ Becomes(r.id, [title |-> r.title, body |-> r.body, pin |-> "unpin"])

(* A writer knows the words there are when no version is newer than the    *)
(* one it was told of, or when they are that one's.                        *)
Knows(w, n) ==
  LET rev == copy[w][n].rev
  IN  \/ rev = Len(log[n])
      \/ rev \in 1..Len(log[n]) /\ Exists(log[n][rev]) /\ log[n][rev].body = file[n].body

(* Over words it does not know a writer puts both sides of a clash.        *)
Save(w) ==
  LET r == asked[w]
      old == file[r.id]
  IN
  /\ r.op = "save" /\ Exists(old)
  /\ Becomes(r.id, [title |-> r.title, pin |-> old.pin,
                    body |-> IF Knows(w, r.id) \/ r.body = old.body THEN r.body
                             ELSE Block(r.body, old.body)])

Pin(w) ==
  LET r == asked[w] IN
  /\ r.op \in {"create", "save", "meta"} /\ r.pin # "keep" /\ Exists(file[r.id])
  /\ Becomes(r.id, [file[r.id] EXCEPT !.pin = r.pin])

Resolve(w) ==
  LET r == asked[w] IN
  /\ r.op = "resolve" /\ Exists(file[r.id])
  /\ Becomes(r.id, [file[r.id] EXCEPT !.body = Settle(@, r.keep)])

Delete(w) ==
  LET r == asked[w] IN
  /\ r.op = "delete" /\ Exists(file[r.id]) /\ copy[w][r.id].rev = Len(log[r.id])
  /\ Becomes(r.id, NoNote)

(* Versions are taken of all that changed.                                 *)
Version ==
  /\ log' = [n \in Notes |-> IF file[n] = Newest(n) THEN log[n] ELSE Append(log[n], file[n])]
  /\ UNCHANGED <<file, copy>>

(* A writer is told of a note as it is, or that it is gone.                *)
Tell(w) ==
  LET n == asked[w].id IN
  /\ copy' = [copy EXCEPT ![w][n] =
                IF Exists(file[n]) THEN [rev |-> Len(log[n]), note |-> file[n]] ELSE Unread]
  /\ UNCHANGED <<file, log>>

Next ==
  \/ \E w \in Writers : Create(w) \/ Save(w) \/ Pin(w) \/ Resolve(w) \/ Delete(w) \/ Tell(w)
  \/ Version

Spec == Init /\ [][Next]_<<file, log, copy>>
=============================================================================
