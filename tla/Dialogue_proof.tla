---------------------------- MODULE Dialogue_proof ----------------------------
(* Replies never interleave in a Dialogue, however many there are.         *)
EXTENDS Dialogue, SequenceTheorems, TLAPS

(* Nothing shown belongs to a reply that is not begun, and in a            *)
(* conversation whose reply is under way nothing shown would have to stand *)
(* behind what that reply has yet to say.                                  *)
Behind(s) == \A i \in 1..Len(log[s]) :
  /\ log[s][i].req <= asked
  /\ phase[s] = "claimed" => log[s][i].req < open[s]
  /\ phase[s] = "telling" =>
       \/ log[s][i].req < open[s]
       \/ log[s][i].req = open[s] /\ log[s][i].kind # "text"

IInv ==
  /\ TypeOK
  /\ \A s \in Sessions : Behind(s) /\ open[s] <= asked /\ InOrder(log[s])

(* One more entry keeps a conversation in order when all the others may    *)
(* stand before it.                                                        *)
LEMMA AppendInOrder ==
  ASSUME NEW l \in Seq(Entry), NEW e \in Entry,
         InOrder(l), \A i \in 1..Len(l) : Before(l[i], e)
  PROVE  InOrder(Append(l, e))
<1> SUFFICES ASSUME NEW i \in 1..Len(Append(l, e)), NEW j \in 1..Len(Append(l, e)), i < j
             PROVE  Before(Append(l, e)[i], Append(l, e)[j])
  BY DEF InOrder
<1>1. i \in 1..Len(l) /\ Append(l, e)[i] = l[i]
  OBVIOUS
<1>2. CASE j = Len(l) + 1
  BY <1>1, <1>2
<1>3. CASE j \in 1..Len(l)
  BY <1>1, <1>3 DEF InOrder
<1>q. QED
  BY <1>2, <1>3

LEMMA PrefixInOrder ==
  ASSUME NEW l \in Seq(Entry), NEW k \in Nat, k < Len(l), InOrder(l)
  PROVE  /\ InOrder(SubSeq(l, 1, k))
         /\ SubSeq(l, 1, k) \in Seq(Entry)
         /\ Len(SubSeq(l, 1, k)) = k
         /\ \A i \in 1..k : SubSeq(l, 1, k)[i] = l[i]
<1>1. Len(SubSeq(l, 1, k)) = k /\ \A i \in 1..k : SubSeq(l, 1, k)[i] = l[i]
  OBVIOUS
<1>2. SubSeq(l, 1, k) \in Seq(Entry)
  <2>1. \A i \in 1..k : l[i] \in Entry
    OBVIOUS
  <2>q. QED
    BY <2>1, SubSeqProperties
<1>q. QED
  BY <1>1, <1>2 DEF InOrder

LEMMA InitHolds == Init => IInv
BY DEF Init, IInv, TypeOK, Behind, InOrder, Phases

LEMMA ClaimKeeps == ASSUME IInv, NEW s \in Sessions, Claim(s) PROVE IInv'
<1> USE DEF IInv
<1>1. TypeOK'
  <2>1. asked' \in Nat /\ open' \in [Sessions -> Nat]
    BY DEF Claim, TypeOK
  <2>2. phase' \in [Sessions -> Phases] /\ log' = log
    BY DEF Claim, TypeOK, Phases
  <2>q. QED
    BY <2>1, <2>2 DEF TypeOK
<1>2. asked' = asked + 1 /\ asked \in Nat /\ log' = log
  BY DEF Claim, TypeOK
<1>3. ASSUME NEW t \in Sessions
      PROVE  Behind(t)' /\ (open[t] <= asked)' /\ InOrder(log[t])'
  <2>1. /\ open[t] \in Nat /\ log[t] \in Seq(Entry)
        /\ \A i \in 1..Len(log[t]) : log[t][i].req \in Nat
    <3>1. log[t] \in Seq(Entry)
      BY DEF TypeOK
    <3>2. ASSUME NEW i \in 1..Len(log[t]) PROVE log[t][i].req \in Nat
      <4>1. log[t][i] \in Entry
        BY <3>1
      <4>q. QED
        BY <4>1 DEF Entry
    <3>q. QED
      BY <3>1, <3>2 DEF TypeOK
  <2>2. CASE t = s
    <3>1. open'[t] = asked + 1 /\ phase'[t] = "claimed"
      BY <2>2 DEF Claim, TypeOK
    <3>q. QED
      BY <1>2, <2>1, <3>1 DEF Behind
  <2>3. CASE t # s
    <3>1. open'[t] = open[t] /\ phase'[t] = phase[t]
      BY <2>3 DEF Claim, TypeOK
    <3>q. QED
      BY <1>2, <2>1, <3>1 DEF Behind
  <2>q. QED
    BY <2>2, <2>3
<1>q. QED
  BY <1>1, <1>3

(* The entry a reply says next may stand behind all that is shown.         *)
LEMMA SayKeeps ==
  ASSUME IInv, NEW s \in Sessions, NEW from, NEW kind, NEW to,
         Say(s, from, kind, to),
         <<from, kind, to>> \in {<<"claimed", "user", "telling">>, <<"telling", "step", "telling">>,
                                 <<"telling", "text", "told">>}
  PROVE  IInv'
<1> DEFINE e == [req |-> open[s], kind |-> kind]
<1>1. /\ kind \in Kinds /\ to \in Phases
      /\ open[s] \in Nat /\ log[s] \in Seq(Entry)
      /\ InOrder(log[s])
  BY DEF IInv, TypeOK, Kinds, Phases
<1>2. e \in Entry
  BY <1>1 DEF Entry
<1>3. ASSUME NEW i \in 1..Len(log[s]) PROVE Before(log[s][i], e)
  <2>1. log[s][i].req \in Nat /\ log[s][i].kind \in Kinds
    <3>1. log[s][i] \in Entry
      BY <1>1
    <3>q. QED
      BY <3>1 DEF Entry
  <2>2. phase[s] = from /\ Behind(s)
    BY DEF Say, IInv
  <2>q. QED
    BY <1>1, <2>1, <2>2 DEF Behind, Before, Rank, Kinds
<1>4. InOrder(Append(log[s], e))
  BY <1>1, <1>2, <1>3, AppendInOrder
<1>5. TypeOK'
  <2>1. Append(log[s], e) \in Seq(Entry)
    BY <1>1, <1>2
  <2>2. log' \in [Sessions -> Seq(Entry)]
    BY <2>1 DEF Say, IInv, TypeOK
  <2>q. QED
    BY <1>1, <2>2 DEF Say, IInv, TypeOK
<1>6. ASSUME NEW t \in Sessions
      PROVE  Behind(t)' /\ (open[t] <= asked)' /\ InOrder(log[t])'
  <2>1. open' = open /\ asked' = asked /\ open[t] \in Nat /\ asked \in Nat /\ open[t] <= asked
    BY DEF Say, IInv, TypeOK
  <2>2. Behind(t) /\ InOrder(log[t])
    BY DEF IInv
  <2>3. CASE t # s
    <3>1. phase'[t] = phase[t] /\ log'[t] = log[t]
      BY <2>3 DEF Say, IInv, TypeOK
    <3>q. QED
      BY <2>1, <2>2, <3>1 DEF Behind
  <2>4. CASE t = s
    <3>1. phase[s] = from /\ phase'[s] = to
      BY DEF Say, IInv, TypeOK
    <3>2. log'[s] = log[s] \/ log'[s] = Append(log[s], e)
      BY DEF Say, IInv, TypeOK
    <3>3. ASSUME NEW i \in 1..Len(log[s])
          PROVE  log[s][i].req \in Nat /\ log[s][i].kind \in Kinds
      <4>1. log[s][i] \in Entry
        BY <1>1
      <4>q. QED
        BY <4>1 DEF Entry
    <3>4. CASE log'[s] = log[s]
      BY <1>1, <2>1, <2>2, <2>4, <3>1, <3>3, <3>4 DEF Behind
    <3>5. CASE log'[s] = Append(log[s], e)
      <4>1. InOrder(log[t])'
        BY <1>4, <2>4, <3>5
      <4>2. ASSUME NEW i \in 1..Len(log'[s])
            PROVE  \/ i \in 1..Len(log[s]) /\ log'[s][i] = log[s][i]
                   \/ log'[s][i] = e
        BY <1>1, <3>5
      <4>3. Behind(t)'
        <5> SUFFICES ASSUME NEW i \in 1..Len(log'[s])
                     PROVE  /\ log'[s][i].req <= asked
                            /\ to = "claimed" => log'[s][i].req < open[s]
                            /\ to = "telling" =>
                                 \/ log'[s][i].req < open[s]
                                 \/ log'[s][i].req = open[s] /\ log'[s][i].kind # "text"
          BY <2>1, <2>4, <3>1 DEF Behind
        <5>1. CASE i \in 1..Len(log[s]) /\ log'[s][i] = log[s][i]
          BY <1>1, <2>1, <2>2, <2>4, <3>1, <3>3, <5>1 DEF Behind
        <5>2. CASE log'[s][i] = e
          BY <1>1, <2>1, <2>4, <5>2
        <5>q. QED
          BY <4>2, <5>1, <5>2
      <4>q. QED
        BY <2>1, <4>1, <4>3
    <3>q. QED
      BY <3>2, <3>4, <3>5
  <2>q. QED
    BY <2>3, <2>4
<1>q. QED
  BY <1>5, <1>6 DEF IInv

LEMMA TellKeeps == ASSUME IInv, NEW s \in Sessions, Tell(s) PROVE IInv'
<1>1. CASE Say(s, "claimed", "user", "telling")
  BY <1>1, SayKeeps
<1>2. CASE Say(s, "telling", "step", "telling")
  BY <1>2, SayKeeps
<1>3. CASE Say(s, "telling", "text", "told")
  BY <1>3, SayKeeps
<1>q. QED
  BY <1>1, <1>2, <1>3 DEF Tell

LEMMA EndKeeps ==
  ASSUME IInv, NEW s \in Sessions, GiveUp(s) \/ Close(s) \/ Forget
  PROVE  IInv'
<1>1. TypeOK'
  <2>1. CASE GiveUp(s)
    BY <2>1 DEF IInv, TypeOK, GiveUp, Phases
  <2>2. CASE Close(s)
    BY <2>2 DEF IInv, TypeOK, Close, Phases
  <2>3. CASE Forget
    BY <2>3 DEF IInv, TypeOK, Forget, Phases
  <2>q. QED
    BY <2>1, <2>2, <2>3
<1>2. log' = log /\ asked' = asked /\ asked \in Nat
  BY DEF IInv, TypeOK, GiveUp, Close, Forget
<1>3. ASSUME NEW t \in Sessions
      PROVE  Behind(t)' /\ (open[t] <= asked)' /\ InOrder(log[t])'
  <2>1. \/ open'[t] = open[t] /\ phase'[t] = phase[t]
        \/ open'[t] \in {0, open[t]} /\ phase'[t] \in {"told", "closed"}
    BY DEF IInv, TypeOK, GiveUp, Close, Forget
  <2>2. Behind(t) /\ open[t] <= asked /\ InOrder(log[t])
    BY DEF IInv
  <2>q. QED
    BY <1>2, <2>1, <2>2 DEF Behind
<1>q. QED
  BY <1>1, <1>3 DEF IInv

LEMMA CutKeeps == ASSUME IInv, NEW s \in Sessions, NEW k \in Nat, Cut(s, k) PROVE IInv'
<1>1. /\ log[s] \in Seq(Entry) /\ InOrder(log[s]) /\ k < Len(log[s])
  BY DEF IInv, TypeOK, Cut
<1>2. UNCHANGED <<open, phase, asked>> /\ log' = [log EXCEPT ![s] = SubSeq(@, 1, k)]
  BY DEF Cut
<1>3. TypeOK'
  BY <1>1, <1>2, PrefixInOrder DEF IInv, TypeOK
<1>4. ASSUME NEW t \in Sessions
      PROVE  Behind(t)' /\ (open[t] <= asked)' /\ InOrder(log[t])'
  <2>1. Behind(t) /\ open[t] <= asked /\ InOrder(log[t])
    BY DEF IInv
  <2>2. CASE t # s
    <3>1. log'[t] = log[t]
      BY <1>2, <2>2 DEF IInv, TypeOK
    <3>q. QED
      BY <1>2, <2>1, <3>1 DEF Behind
  <2>3. CASE t = s
    <3>1. log'[t] = SubSeq(log[t], 1, k)
      BY <1>2, <2>3 DEF IInv, TypeOK
    <3>2. Len(log'[t]) = k /\ (\A i \in 1..k : log'[t][i] = log[t][i]) /\ InOrder(log'[t])
      BY <1>1, <2>3, <3>1, PrefixInOrder
    <3>3. \A i \in 1..k : i \in 1..Len(log[t])
      BY <1>1, <2>3
    <3>q. QED
      BY <1>2, <2>1, <3>2, <3>3 DEF Behind
  <2>q. QED
    BY <2>2, <2>3
<1>q. QED
  BY <1>3, <1>4 DEF IInv

LEMMA NextKeeps == IInv /\ [Next]_vars => IInv'
<1> SUFFICES ASSUME IInv, [Next]_vars PROVE IInv'
  OBVIOUS
<1>1. CASE UNCHANGED vars
  BY <1>1 DEF vars, IInv, TypeOK, Behind, InOrder
<1>2. CASE \E s \in Sessions : Claim(s)
  BY <1>2, ClaimKeeps
<1>3. CASE \E s \in Sessions : Tell(s)
  BY <1>3, TellKeeps
<1>4. CASE \E s \in Sessions : GiveUp(s) \/ Close(s)
  BY <1>4, EndKeeps
<1>5. CASE \E s \in Sessions : \E k \in 0..Len(log[s]) : Cut(s, k)
  <2> PICK s \in Sessions : \E k \in 0..Len(log[s]) : Cut(s, k)
    BY <1>5
  <2> PICK k \in 0..Len(log[s]) : Cut(s, k)
    OBVIOUS
  <2>1. k \in Nat
    BY DEF IInv, TypeOK
  <2>q. QED
    BY <2>1, CutKeeps
<1>6. CASE Forget
  <2>1. CASE Sessions = {}
    BY <1>6, <2>1 DEF Forget, IInv, TypeOK
  <2>2. CASE \E s \in Sessions : TRUE
    BY <1>6, <2>2, EndKeeps
  <2>q. QED
    BY <2>1, <2>2
<1>q. QED
  BY <1>1, <1>2, <1>3, <1>4, <1>5, <1>6 DEF Next

(* Whatever the owner sends, stops or takes back, and however often the    *)
(* service dies, the replies shown of a conversation stand one behind the  *)
(* other: assist/chat.go:20-47 lets one request at a time write to it.     *)
THEOREM Order == Spec => []RepliesInOrder
<1>1. IInv => RepliesInOrder
  BY DEF IInv, RepliesInOrder
<1>q. QED
  BY InitHolds, NextKeeps, <1>1, PTL DEF Spec
=============================================================================
