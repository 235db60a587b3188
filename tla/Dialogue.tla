------------------------------- MODULE Dialogue -------------------------------
(***************************************************************************)
(* What the assistant promises about a conversation: one reply at a time,  *)
(* and a reply is the owner's message, then its steps, then at most one    *)
(* text, all of them after everything an earlier reply wrote.  The owner   *)
(* may cut the conversation back at any moment.                            *)
(*                                                                         *)
(* An entry may fail to reach the disk; the reply goes on without it.      *)
(***************************************************************************)
EXTENDS Naturals, Sequences

CONSTANT Sessions

VARIABLES
  log,    \* what is shown of each conversation
  open,   \* the reply under way in it, 0 if there is none
  phase,  \* how far that reply is
  asked   \* the replies begun so far, in all conversations

vars == <<log, open, phase, asked>>

Kinds == {"user", "step", "text"}
Entry == [req : Nat, kind : Kinds]
Phases == {"closed", "claimed", "telling", "told"}

TypeOK ==
  /\ log \in [Sessions -> Seq(Entry)]
  /\ open \in [Sessions -> Nat]
  /\ phase \in [Sessions -> Phases]
  /\ asked \in Nat

Init ==
  /\ log = [s \in Sessions |-> <<>>]
  /\ open = [s \in Sessions |-> 0]
  /\ phase = [s \in Sessions |-> "closed"]
  /\ asked = 0

Claim(s) ==
  /\ phase[s] = "closed"
  /\ asked' = asked + 1
  /\ open' = [open EXCEPT ![s] = asked']
  /\ phase' = [phase EXCEPT ![s] = "claimed"]
  /\ UNCHANGED log

(* One entry of the reply under way; it is shown unless the disk fails.    *)
Say(s, from, kind, to) ==
  /\ phase[s] = from
  /\ phase' = [phase EXCEPT ![s] = to]
  /\ log' \in {log, [log EXCEPT ![s] = Append(@, [req |-> open[s], kind |-> kind])]}
  /\ UNCHANGED <<open, asked>>

Tell(s) ==
  \/ Say(s, "claimed", "user", "telling")
  \/ Say(s, "telling", "step", "telling")
  \/ Say(s, "telling", "text", "told")

(* The reply fails before it has a text: the message could not be saved,   *)
(* or the model gave an error.                                             *)
GiveUp(s) ==
  /\ phase[s] \in {"claimed", "telling"}
  /\ phase' = [phase EXCEPT ![s] = "told"]
  /\ UNCHANGED <<log, open, asked>>

Close(s) ==
  /\ phase[s] = "told"
  /\ phase' = [phase EXCEPT ![s] = "closed"]
  /\ open' = [open EXCEPT ![s] = 0]
  /\ UNCHANGED <<log, asked>>

(* The owner takes back all but the first k entries.                       *)
Cut(s, k) ==
  /\ k < Len(log[s])
  /\ log' = [log EXCEPT ![s] = SubSeq(@, 1, k)]
  /\ UNCHANGED <<open, phase, asked>>

(* The service dies; every reply under way is lost.                        *)
Forget ==
  /\ open' = [s \in Sessions |-> 0]
  /\ phase' = [s \in Sessions |-> "closed"]
  /\ UNCHANGED <<log, asked>>

Next ==
  \/ \E s \in Sessions : Claim(s) \/ Tell(s) \/ GiveUp(s) \/ Close(s)
  \/ \E s \in Sessions : \E k \in 0..Len(log[s]) : Cut(s, k)
  \/ Forget

Spec == Init /\ [][Next]_vars

-----------------------------------------------------------------------------
(* Replies stand one behind the other, and each is at most one message,    *)
(* then steps, then at most one text.                                      *)
Rank == [user |-> 0, step |-> 1, text |-> 2]
Before(a, b) ==
  \/ a.req < b.req
  \/ a.req = b.req /\ Rank[a.kind] <= Rank[b.kind] /\ (a.kind = b.kind => a.kind = "step")

InOrder(l) == \A i, j \in 1..Len(l) : i < j => Before(l[i], l[j])

RepliesInOrder == \A s \in Sessions : InOrder(log[s])
=============================================================================
