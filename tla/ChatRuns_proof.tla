---------------------------- MODULE ChatRuns_proof ----------------------------
(***************************************************************************)
(* The chat for every number of conversations and messages, every ceiling  *)
(* and every set of replies a provider may give.                           *)
(***************************************************************************)
EXTENDS ChatRuns, FiniteSetTheorems, SequenceTheorems, TLAPS

Shown == [req : Requests, kind : {"user", "step", "text"}]
Replayed == [req : Requests, kind : {"user", "model"}]

FileTypes ==
  /\ saved \subseteq Sessions /\ deleted \subseteq Sessions
  /\ transcript \in [Sessions -> Seq(Shown)]
  /\ history \in [Sessions -> Seq(Replayed)]

RunTypes ==
  /\ running \in [Sessions -> {0} \cup Requests]
  /\ accepted \in 0..MaxRequests
  /\ run \in [Requests -> RunRec]
  /\ cancelled \subseteq {r \in Requests : Active(r)}

(* A request under way is about some conversation, and is one of those     *)
(* accepted.                                                               *)
Assigned == \A r \in Requests :
  /\ Active(r) => run[r].session \in Sessions
  /\ run[r].pc # "none" => r <= accepted

IInv == FileTypes /\ RunTypes /\ ClaimedWhileActive /\ Assigned

LEMMA Types == TypeOK <=> FileTypes /\ RunTypes
BY DEF TypeOK, FileTypes, RunTypes, Shown, Replayed, Conversation

-----------------------------------------------------------------------------
(* What a request's own step does to the registry: nothing.                *)
Moves(r) ==
  /\ run' \in [Requests -> RunRec]
  /\ \A q \in Requests : q # r => run'[q] = run[q]
  /\ run'[r].session = run[r].session /\ run'[r].pc \notin {"none", "done"}
  /\ UNCHANGED <<registry, cancelled>>

(* The request holds its conversation, before and after, and the others    *)
(* are where they were.                                                    *)
LEMMA MovesKeeps ==
  ASSUME IInv, NEW r \in Requests, Active(r), Moves(r)
  PROVE  /\ RunTypes' /\ ClaimedWhileActive' /\ Assigned'
         /\ run[r].session \in Sessions
         /\ running[run[r].session] = r
         /\ \A s \in Sessions : s # run[r].session /\ running[s] # 0 =>
              run'[running[s]] = run[running[s]]
<1> USE DEF IInv, Moves, registry
<1>1. r # 0 /\ run[r].session \in Sessions /\ running[run[r].session] = r
  BY DEF Assigned, ClaimedWhileActive, Requests
<1>3. \A q \in Requests : Active(q)' <=> Active(q)
  BY DEF Active
<1>4. RunTypes'
  BY <1>3 DEF RunTypes
<1>5. ClaimedWhileActive'
  BY <1>3 DEF ClaimedWhileActive
<1>6. Assigned'
  BY <1>3 DEF Assigned, Active
<1>7. \A s \in Sessions : s # run[r].session /\ running[s] # 0 => run'[running[s]] = run[running[s]]
  BY DEF ClaimedWhileActive, RunTypes
<1>q. QED
  BY <1>1, <1>4, <1>5, <1>6, <1>7

-----------------------------------------------------------------------------
(* Between its message and its text a reply shows nothing by itself.       *)
Telling == {"loop", "asking", "items", "text"}

(* A record of a request with other fields is still one.                   *)
LEMMA RecTypes ==
  ASSUME NEW rec \in RunRec
  PROVE  /\ \A step \in 0..MaxSteps :
              [rec EXCEPT !.pc = "asking", !.step = step, !.words = FALSE] \in RunRec
         /\ [rec EXCEPT !.words = TRUE] \in RunRec
         /\ \A items \in Seq({"thinking", "tool"}), again \in BOOLEAN :
              [rec EXCEPT !.pc = "items", !.items = items, !.again = again] \in RunRec
         /\ \A text \in {"none", "empty", "words"} :
              /\ [rec EXCEPT !.pc = "text", !.text = text] \in RunRec
              /\ [rec EXCEPT !.pc = "text", !.stopped = TRUE, !.text = text] \in RunRec
         /\ \A items \in Seq({"thinking", "tool"}) : [rec EXCEPT !.items = items] \in RunRec
BY DEF RunRec, Pc

LEMMA MovesTo ==
  ASSUME IInv, NEW r \in Requests, NEW rec \in RunRec, run' = [run EXCEPT ![r] = rec],
         rec.session = run[r].session, rec.pc \notin {"none", "done"}, UNCHANGED <<registry, cancelled>>
  PROVE  Moves(r) /\ run'[r] = rec
BY DEF IInv, RunTypes, Moves

(* The steps that leave the files alone.                                   *)
Quiet(r) ==
  \/ Ceiling(r) \/ SeeStop(r) \/ Ask(r) \/ Words(r) \/ CallFails(r) \/ EndOfReply(r)
  \/ \E reply \in Replies : Reply(r, reply)

LEMMA StopMoves == ASSUME IInv, NEW r \in Requests, StoppedText(r), UNCHANGED <<registry, cancelled>>
  PROVE Moves(r) /\ run'[r].pc = "text"
<1> DEFINE rec == [run[r] EXCEPT !.pc = "text", !.stopped = TRUE,
                                 !.text = IF run[r].words THEN "words" ELSE "empty"]
<1>1. run[r] \in RunRec
  BY DEF IInv, RunTypes
<1>2. rec \in RunRec
  <2>1. (IF run[r].words THEN "words" ELSE "empty") \in {"none", "empty", "words"}
    OBVIOUS
  <2>q. QED
    BY <1>1, <2>1, RecTypes DEF Pc
<1>3. rec.pc = "text" /\ rec.session = run[r].session
  BY <1>1 DEF RunRec
<1>4. run' = [run EXCEPT ![r] = rec]
  BY DEF StoppedText
<1>q. QED
  BY <1>2, <1>3, <1>4, MovesTo

LEMMA GotoMoves == ASSUME IInv, NEW r \in Requests, NEW pc \in Pc \ {"none", "done"}, Goto(r, pc),
                          UNCHANGED <<registry, cancelled>>
  PROVE Moves(r) /\ run'[r] = [run[r] EXCEPT !.pc = pc] /\ run'[r].pc = pc
<1> DEFINE rec == [run[r] EXCEPT !.pc = pc]
<1>1. run[r] \in RunRec
  BY DEF IInv, RunTypes
<1>2. rec \in RunRec /\ rec.pc = pc /\ rec.session = run[r].session
  BY <1>1 DEF RunRec
<1>3. run' = [run EXCEPT ![r] = rec]
  BY DEF Goto
<1>q. QED
  BY <1>2, <1>3, MovesTo

LEMMA QuietMoves == ASSUME IInv, NEW r \in Requests, Quiet(r)
  PROVE /\ run[r].pc \in Telling
        /\ UNCHANGED <<files, deleted>>
        /\ Moves(r) /\ run'[r].pc \in Telling
<1> USE DEF Telling
<1>0. run[r] \in RunRec
  BY DEF IInv, RunTypes
<1>1. CASE Ceiling(r)
  BY <1>1, GotoMoves DEF Ceiling, Pc
<1>2. CASE SeeStop(r)
  BY <1>2, StopMoves DEF SeeStop
<1>3. CASE Ask(r)
  <2> DEFINE rec == [run[r] EXCEPT !.pc = "asking", !.step = run[r].step + 1, !.words = FALSE]
  <2>1. run[r].step + 1 \in 0..MaxSteps
    <3>1. run[r].step \in 0..MaxSteps
      BY <1>0 DEF RunRec
    <3>2. run[r].step < MaxSteps
      BY <1>3 DEF Ask, StepsLeft
    <3>q. QED
      BY <3>1, <3>2, BoundsAssumption
  <2>2. rec \in RunRec
    BY <1>0, <2>1, RecTypes DEF Pc
  <2>3. rec.pc = "asking" /\ rec.session = run[r].session
    BY <1>0 DEF RunRec
  <2>q. QED
    BY <1>3, <2>2, <2>3, MovesTo DEF Ask
<1>4. CASE Words(r)
  <2> DEFINE rec == [run[r] EXCEPT !.words = TRUE]
  <2>1. rec \in RunRec
    BY <1>0, RecTypes DEF Pc
  <2>2. rec.pc = "asking" /\ rec.session = run[r].session
    BY <1>0, <1>4 DEF RunRec, Words
  <2>3. run' = [run EXCEPT ![r] = rec]
    BY <1>4 DEF Words
  <2>q. QED
    BY <1>4, <2>1, <2>2, <2>3, MovesTo DEF Words
<1>5. CASE CallFails(r)
  <2>1. CASE r \in cancelled
    BY <1>5, <2>1, StopMoves DEF CallFails
  <2>2. CASE r \notin cancelled
    BY <1>5, <2>2, GotoMoves DEF CallFails, Pc
  <2>q. QED
    BY <2>1, <2>2
<1>6. CASE EndOfReply(r)
  <2>1. CASE Goto(r, "loop")
    BY <1>6, <2>1, GotoMoves DEF EndOfReply, Pc
  <2>2. ASSUME NEW text \in {"words", "empty"},
               run' = [run EXCEPT ![r] = [@ EXCEPT !.pc = "text", !.text = text]]
        PROVE  Moves(r) /\ run'[r].pc = "text"
    <3> DEFINE rec == [run[r] EXCEPT !.pc = "text", !.text = text]
    <3>1. rec \in RunRec
      BY <1>0, RecTypes DEF Pc
    <3>2. rec.pc = "text" /\ rec.session = run[r].session
      BY <1>0 DEF RunRec
    <3>q. QED
      BY <1>6, <2>2, <3>1, <3>2, MovesTo DEF EndOfReply
  <2>q. QED
    BY <1>6, <2>1, <2>2 DEF EndOfReply
<1>7. ASSUME NEW reply \in Replies, Reply(r, reply)
      PROVE  run[r].pc = "asking" /\ UNCHANGED <<files, deleted>> /\ Moves(r) /\ run'[r].pc = "items"
  <2> DEFINE rec == [run[r] EXCEPT !.pc = "items", !.items = reply.items, !.again = reply.again]
  <2>1. rec \in RunRec
    BY <1>0, ReplyAssumption, RecTypes DEF Pc
  <2>2. rec.pc = "items" /\ rec.session = run[r].session
    BY <1>0 DEF RunRec
  <2>q. QED
    BY <1>7, <2>1, <2>2, MovesTo DEF Reply
<1>q. QED
  BY <1>1, <1>2, <1>3, <1>4, <1>5, <1>6, <1>7 DEF Quiet

-----------------------------------------------------------------------------
(* The files stay conversations whatever is saved, appended or cut.        *)
LEMMA NewestTypes ==
  ASSUME NEW S, NEW h \in Seq(S), NEW limit \in Nat \ {0}
  PROVE  Newest(h, limit) \in Seq(S) /\ Len(Newest(h, limit)) <= limit
<1>1. CASE Len(h) <= limit
  BY <1>1 DEF Newest
<1>2. CASE Len(h) > limit
  <2>1. Newest(h, limit) = SubSeq(h, Len(h) - limit + 1, Len(h))
    BY <1>2 DEF Newest
  <2>2. \A i \in (Len(h) - limit + 1)..Len(h) : h[i] \in S
    BY <1>2
  <2>q. QED
    BY <1>2, <2>1, <2>2, SubSeqProperties
<1>q. QED
  BY <1>1, <1>2

LEMMA PrefixTypes ==
  ASSUME NEW S, NEW h \in Seq(S), NEW n \in 0..Len(h)
  PROVE  SubSeq(h, 1, n) \in Seq(S) /\ Len(SubSeq(h, 1, n)) = n
<1>1. \A i \in 1..n : h[i] \in S
  OBVIOUS
<1>q. QED
  BY <1>1, SubSeqProperties

LEMMA DropLength ==
  ASSUME NEW S, NEW h \in Seq(S), NEW n \in Nat
  PROVE  Cardinality({i \in 1..Len(h) : Behind(h, i) >= n}) \in 0..Len(h)
<1> DEFINE kept == {i \in 1..Len(h) : Behind(h, i) >= n}
<1>1. kept \subseteq 1..Len(h) /\ Len(h) \in Nat
  OBVIOUS
<1> HIDE DEF kept
<1>2. Cardinality(1..Len(h)) = IF 1 > Len(h) THEN 0 ELSE Len(h) - 1 + 1
  BY <1>1, FS_Interval
<1>3. IsFiniteSet(1..Len(h))
  BY <1>1, FS_Interval
<1>4. IsFiniteSet(kept) /\ Cardinality(kept) <= Cardinality(1..Len(h))
  BY <1>1, <1>3, FS_Subset
<1>5. Cardinality(kept) \in Nat
  BY <1>4, FS_CardinalityType
<1>6. Cardinality(kept) \in 0..Len(h)
  BY <1>1, <1>2, <1>4, <1>5
<1>q. QED
  BY <1>6 DEF kept

LEMMA DropTypes ==
  ASSUME NEW S, NEW h \in Seq(S), NEW n \in Nat
  PROVE  DropUsers(h, n) \in Seq(S)
<1> DEFINE kept == {i \in 1..Len(h) : Behind(h, i) >= n}
<1>1. Cardinality(kept) \in 0..Len(h) /\ DropUsers(h, n) = SubSeq(h, 1, Cardinality(kept))
  BY DropLength DEF DropUsers
<1> HIDE DEF kept
<1>q. QED
  BY <1>1, PrefixTypes

LEMMA ChangeTypes ==
  ASSUME FileTypes, NEW s \in Sessions, NEW t \in Seq(Shown), NEW h \in Seq(Replayed),
         Change(s, t, h), deleted' \subseteq Sessions
  PROVE  FileTypes' /\ transcript' = [transcript EXCEPT ![s] = t]
BY DEF FileTypes, Change

LEMMA SameFiles == ASSUME FileTypes, UNCHANGED files, deleted' \subseteq Sessions PROVE FileTypes'
BY DEF FileTypes, files

LEMMA EntryTypes == ASSUME NEW r \in Requests PROVE
  /\ Entry(r, "user") \in Shown /\ Entry(r, "step") \in Shown /\ Entry(r, "text") \in Shown
  /\ Entry(r, "user") \in Replayed /\ Entry(r, "model") \in Replayed
BY DEF Entry, Shown, Replayed

-----------------------------------------------------------------------------
(* What the conversation's owner sees of a step of the reply that holds it.*)
Dreamt == [Promise!Next]_(Promise!vars)

LEMMA PhaseMoves ==
  ASSUME IInv, NEW r \in Requests, Active(r), Moves(r)
  PROVE  /\ Phase[run[r].session] = PhaseOf(run[r].pc)
         /\ Phase' = [Phase EXCEPT ![run[r].session] = PhaseOf(run'[r].pc)]
         /\ UNCHANGED <<running, accepted>>
<1>1. /\ run[r].session \in Sessions /\ running[run[r].session] = r
      /\ \A s \in Sessions : s # run[r].session /\ running[s] # 0 =>
           run'[running[s]] = run[running[s]]
  BY MovesKeeps
<1>2. r # 0
  BY DEF Requests
<1>3. UNCHANGED <<running, accepted>>
  BY DEF Moves, registry
<1>4. \A s \in Sessions : Phase'[s] = IF s = run[r].session THEN PhaseOf(run'[r].pc) ELSE Phase[s]
  BY <1>1, <1>2, <1>3 DEF Phase
<1>q. QED
  BY <1>1, <1>2, <1>3, <1>4 DEF Phase

LEMMA SilentMoves ==
  ASSUME IInv, NEW r \in Requests, Active(r), Moves(r), transcript' = transcript,
         PhaseOf(run'[r].pc) = PhaseOf(run[r].pc)
  PROVE  Dreamt
<1>1. /\ Phase[run[r].session] = PhaseOf(run[r].pc)
      /\ Phase' = [Phase EXCEPT ![run[r].session] = PhaseOf(run'[r].pc)]
  BY PhaseMoves
<1>2. Phase \in [Sessions -> {Phase[s] : s \in Sessions}]
  BY DEF Phase
<1>3. Phase' = Phase
  BY <1>1, <1>2
<1>q. QED
  BY <1>3, PhaseMoves DEF Dreamt, Promise!vars

LEMMA TellingMoves ==
  ASSUME IInv, NEW r \in Requests, Active(r), Moves(r), NEW kind,
         \/ transcript' = transcript
         \/ transcript' = [transcript EXCEPT ![run[r].session] = Append(@, Entry(r, kind))],
         <<PhaseOf(run[r].pc), kind, PhaseOf(run'[r].pc)>> \in
           {<<"claimed", "user", "telling">>, <<"telling", "step", "telling">>, <<"telling", "text", "told">>}
  PROVE  Dreamt
<1>1. run[r].session \in Sessions /\ running[run[r].session] = r
  BY MovesKeeps
<1>2. Promise!Say(run[r].session, PhaseOf(run[r].pc), kind, PhaseOf(run'[r].pc))
  BY <1>1, PhaseMoves DEF Promise!Say, Entry
<1>3. Promise!Tell(run[r].session)
  BY <1>2 DEF Promise!Tell
<1>q. QED
  BY <1>1, <1>3 DEF Dreamt, Promise!Next

LEMMA GivingUp ==
  ASSUME IInv, NEW r \in Requests, Active(r), Moves(r), transcript' = transcript,
         PhaseOf(run[r].pc) \in {"claimed", "telling"}, PhaseOf(run'[r].pc) = "told"
  PROVE  Dreamt
<1>1. run[r].session \in Sessions
  BY MovesKeeps
<1>2. Promise!GiveUp(run[r].session)
  BY <1>1, PhaseMoves DEF Promise!GiveUp
<1>q. QED
  BY <1>1, <1>2 DEF Dreamt, Promise!Next

-----------------------------------------------------------------------------
(* Each action keeps the invariant and is a step of a dialogue.            *)
LEMMA SavedTypes == ASSUME IInv, NEW s \in Sessions PROVE
  transcript[s] \in Seq(Shown) /\ history[s] \in Seq(Replayed)
BY DEF IInv, FileTypes

LEMMA Said ==
  ASSUME IInv, NEW r \in Requests, run[r].session \in Sessions, NEW kind \in {"user", "step", "text"},
         NEW h \in Seq(Replayed),
         Change(run[r].session, Append(transcript[run[r].session], Entry(r, kind)), h),
         deleted' \subseteq Sessions
  PROVE  /\ FileTypes'
         /\ transcript' = [transcript EXCEPT ![run[r].session] = Append(@, Entry(r, kind))]
<1>1. transcript[run[r].session] \in Seq(Shown) /\ Entry(r, kind) \in Shown
  BY SavedTypes, EntryTypes
<1>2. Append(transcript[run[r].session], Entry(r, kind)) \in Seq(Shown)
  BY <1>1
<1>q. QED
  BY <1>2, ChangeTypes DEF IInv

LEMMA StillFiles == ASSUME IInv, UNCHANGED <<files, deleted>> PROVE FileTypes' /\ transcript' = transcript
<1>1. deleted' \subseteq Sessions /\ UNCHANGED files
  BY DEF IInv, FileTypes
<1>q. QED
  BY <1>1, SameFiles DEF IInv, files

LEMMA Kept == ASSUME IInv, NEW r \in Requests, Active(r), Moves(r), FileTypes' PROVE IInv'
BY MovesKeeps DEF IInv

LEMMA QuietStep == ASSUME IInv, NEW r \in Requests, Quiet(r) PROVE IInv' /\ Dreamt
<1>1. /\ run[r].pc \in Telling /\ run'[r].pc \in Telling
      /\ UNCHANGED <<files, deleted>> /\ Moves(r)
  BY QuietMoves
<1>2. Active(r) /\ PhaseOf(run[r].pc) = "telling" /\ PhaseOf(run'[r].pc) = "telling"
  BY <1>1 DEF Telling, Active, PhaseOf
<1>3. FileTypes' /\ transcript' = transcript
  BY <1>1, StillFiles
<1>q. QED
  BY <1>1, <1>2, <1>3, Kept, SilentMoves

LEMMA UserTurnStep == ASSUME IInv, NEW r \in Requests, UserTurn(r) PROVE IInv' /\ Dreamt
<1> DEFINE s == run[r].session
<1>1. run[r].pc = "claimed" /\ Active(r) /\ PhaseOf(run[r].pc) = "claimed"
  BY DEF UserTurn, Active, PhaseOf
<1>2. s \in Sessions /\ deleted \subseteq Sessions
  BY <1>1 DEF IInv, Assigned, FileTypes
<1>3. CASE /\ Change(s, Append(transcript[s], Entry(r, "user")),
                     Newest(Append(history[s], Entry(r, "user")), MaxTurns))
           /\ deleted' = deleted \ {s}
           /\ Goto(r, "loop")
  <2>1. Moves(r) /\ run'[r].pc = "loop" /\ PhaseOf(run'[r].pc) = "telling"
    <3>1. Moves(r) /\ run'[r].pc = "loop"
      BY <1>3, GotoMoves DEF UserTurn, Pc
    <3>q. QED
      BY <3>1 DEF PhaseOf
  <2>2. Append(history[s], Entry(r, "user")) \in Seq(Replayed)
    BY <1>2, SavedTypes, EntryTypes
  <2>3. Newest(Append(history[s], Entry(r, "user")), MaxTurns) \in Seq(Replayed)
    BY <2>2, NewestTypes, BoundsAssumption
  <2>4. /\ FileTypes'
        /\ transcript' = [transcript EXCEPT ![s] = Append(@, Entry(r, "user"))]
    BY <1>2, <1>3, <2>3, Said
  <2>q. QED
    BY <1>1, <2>1, <2>4, Kept, TellingMoves
<1>4. CASE Failed /\ Goto(r, "finish") /\ UNCHANGED deleted
  <2>1. Moves(r) /\ run'[r].pc = "finish" /\ PhaseOf(run'[r].pc) = "told"
    <3>1. Moves(r) /\ run'[r].pc = "finish"
      BY <1>4, GotoMoves DEF UserTurn, Pc
    <3>q. QED
      BY <3>1 DEF PhaseOf
  <2>2. FileTypes' /\ transcript' = transcript
    BY <1>4, StillFiles DEF Failed
  <2>q. QED
    BY <1>1, <2>1, <2>2, Kept, GivingUp
<1>q. QED
  BY <1>3, <1>4 DEF UserTurn

LEMMA ItemMoves ==
  ASSUME IInv, NEW r \in Requests, NEW item, Item(r, item)
  PROVE  run[r].pc = "items" /\ Active(r) /\ Moves(r) /\ run'[r].pc = "items"
<1> DEFINE rec == [run[r] EXCEPT !.items = Tail(run[r].items)]
<1>1. run[r].pc = "items" /\ Active(r) /\ run[r].items # <<>> /\ run[r] \in RunRec
  BY DEF Item, Active, IInv, RunTypes
<1>2. rec \in RunRec /\ rec.session = run[r].session /\ rec.pc = "items"
  <2>1. run[r].items \in Seq({"thinking", "tool"})
    BY <1>1 DEF RunRec
  <2>2. Tail(run[r].items) \in Seq({"thinking", "tool"})
    BY <1>1, <2>1
  <2>3. rec.pc = "items" /\ rec.session = run[r].session
    BY <1>1 DEF RunRec
  <2>q. QED
    BY <1>1, <2>2, <2>3, RecTypes
<1>3. run' = [run EXCEPT ![r] = rec]
  BY DEF Item
<1>q. QED
  BY <1>1, <1>2, <1>3, MovesTo DEF Item

LEMMA ItemStep ==
  ASSUME IInv, NEW r \in Requests, NEW item, Item(r, item)
  PROVE  IInv' /\ Dreamt
<1> DEFINE s == run[r].session
<1>1. run[r].pc = "items" /\ Active(r) /\ Moves(r) /\ run'[r].pc = "items"
  BY ItemMoves
<1>2. s \in Sessions
  BY <1>1 DEF IInv, Assigned
<1>3. PhaseOf(run[r].pc) = "telling" /\ PhaseOf(run'[r].pc) = "telling"
  BY <1>1 DEF PhaseOf
<1>4. CASE Change(s, Append(transcript[s], Entry(r, "step")), history[s])
  <2>1. /\ FileTypes'
        /\ transcript' = [transcript EXCEPT ![s] = Append(@, Entry(r, "step"))]
    <3>1. deleted' \subseteq Sessions /\ history[s] \in Seq(Replayed)
      BY <1>2, SavedTypes DEF Item, IInv, FileTypes
    <3>q. QED
      BY <1>2, <1>4, <3>1, Said
  <2>q. QED
    BY <1>1, <1>3, <2>1, Kept, TellingMoves
<1>5. CASE Failed
  <2>1. FileTypes' /\ transcript' = transcript
    BY <1>5, StillFiles DEF Item, Failed
  <2>q. QED
    BY <1>1, <1>3, <2>1, Kept, SilentMoves
<1>q. QED
  BY <1>4, <1>5 DEF Item

LEMMA SaveTextStep == ASSUME IInv, NEW r \in Requests, SaveText(r) PROVE IInv' /\ Dreamt
<1> DEFINE s == run[r].session
<1>1. run[r].pc = "text" /\ Active(r) /\ PhaseOf(run[r].pc) = "telling"
  BY DEF SaveText, Active, PhaseOf
<1>2. s \in Sessions
  BY <1>1 DEF IInv, Assigned
<1>3. Moves(r) /\ run'[r].pc = "reply" /\ PhaseOf(run'[r].pc) = "told"
  <2>1. Moves(r) /\ run'[r].pc = "reply"
    BY GotoMoves DEF SaveText, Pc
  <2>q. QED
    BY <2>1 DEF PhaseOf
<1>4. CASE Change(s, Append(transcript[s], Entry(r, "text")), history[s])
  <2>1. /\ FileTypes'
        /\ transcript' = [transcript EXCEPT ![s] = Append(@, Entry(r, "text"))]
    <3>1. deleted' \subseteq Sessions /\ history[s] \in Seq(Replayed)
      BY <1>2, SavedTypes DEF SaveText, IInv, FileTypes
    <3>q. QED
      BY <1>2, <1>4, <3>1, Said
  <2>q. QED
    BY <1>1, <1>3, <2>1, Kept, TellingMoves
<1>5. CASE UNCHANGED files
  <2>1. FileTypes' /\ transcript' = transcript
    BY <1>5, StillFiles DEF SaveText
  <2>q. QED
    BY <1>1, <1>3, <2>1, Kept, GivingUp
<1>q. QED
  BY <1>4, <1>5 DEF SaveText, Failed

LEMMA AnsweredStep == ASSUME IInv, NEW r \in Requests, Answered(r) PROVE IInv' /\ Dreamt
<1> DEFINE s == run[r].session
<1>1. run[r].pc = "reply" /\ Active(r) /\ PhaseOf(run[r].pc) = "told"
  BY DEF Answered, Active, PhaseOf
<1>2. s \in Sessions /\ deleted' \subseteq Sessions
  BY <1>1 DEF IInv, Assigned, FileTypes, Answered
<1>3. Moves(r) /\ run'[r].pc = "finish" /\ PhaseOf(run'[r].pc) = "told"
  <2>1. Moves(r) /\ run'[r].pc = "finish"
    BY GotoMoves DEF Answered, Pc
  <2>q. QED
    BY <2>1 DEF PhaseOf
<1>4. CASE Change(s, transcript[s], Append(history[s], Entry(r, "model")))
  <2>1. transcript[s] \in Seq(Shown) /\ Append(history[s], Entry(r, "model")) \in Seq(Replayed)
    BY <1>2, SavedTypes, EntryTypes
  <2>2. FileTypes' /\ transcript' = [transcript EXCEPT ![s] = transcript[s]]
    BY <1>2, <1>4, <2>1, ChangeTypes DEF IInv
  <2>3. transcript' = transcript
    BY <2>2 DEF IInv, FileTypes
  <2>q. QED
    BY <1>1, <1>3, <2>2, <2>3, Kept, SilentMoves
<1>5. CASE UNCHANGED files
  <2>1. FileTypes' /\ transcript' = transcript
    BY <1>5, StillFiles DEF Answered
  <2>q. QED
    BY <1>1, <1>3, <2>1, Kept, SilentMoves
<1>q. QED
  BY <1>4, <1>5 DEF Answered, Failed

LEMMA ClaimStep == ASSUME IInv, NEW s \in Sessions, Claim(s) PROVE IInv' /\ Dreamt
<1> DEFINE r == accepted + 1
           rec == [Idle EXCEPT !.pc = "claimed", !.session = s]
<1>1. accepted \in 0..MaxRequests /\ accepted < MaxRequests /\ accepted' = r
  BY DEF Claim, IInv, RunTypes
<1>2. r \in Requests /\ r # 0
  BY <1>1, BoundsAssumption DEF Requests
<1>3. run[r].pc = "none" /\ ~Active(r)
  BY <1>1, <1>2 DEF IInv, Assigned, Active, Requests
<1>4. rec \in RunRec /\ rec.pc = "claimed" /\ rec.session = s
  <2>1. 0 \in 0..MaxSteps /\ <<>> \in Seq({"thinking", "tool"})
    BY BoundsAssumption
  <2>q. QED
    BY <2>1 DEF Idle, RunRec, Pc
<1> HIDE DEF rec
<1>5. run' = [run EXCEPT ![r] = rec] /\ running' = [running EXCEPT ![s] = r] /\ running[s] = 0
  BY <1>1 DEF Claim, Busy, rec
<1>6. run'[r] = rec /\ \A q \in Requests : q # r => run'[q] = run[q]
  BY <1>2, <1>5 DEF IInv, RunTypes
<1>7. UNCHANGED <<files, cancelled, deleted>>
  BY DEF Claim
<1>8. \A q \in Requests : Active(q)' <=> Active(q) \/ q = r
  BY <1>4, <1>6 DEF Active
<1> HIDE DEF r
<1>9. RunTypes'
  <2>1. run' \in [Requests -> RunRec] /\ running' \in [Sessions -> {0} \cup Requests]
    BY <1>2, <1>4, <1>5 DEF IInv, RunTypes
  <2>2. accepted' \in 0..MaxRequests
    BY <1>1, <1>2 DEF Requests
  <2>q. QED
    BY <1>7, <1>8, <2>1, <2>2 DEF IInv, RunTypes
<1>10. ASSUME NEW t \in Sessions, NEW q \in Requests
       PROVE  running'[t] = q <=> Active(q)' /\ run'[q].session = t
  <2>1. running[t] = q <=> Active(q) /\ run[q].session = t
    BY DEF IInv, ClaimedWhileActive
  <2>2. q # 0 /\ running'[t] = IF t = s THEN r ELSE running[t]
    BY <1>5 DEF IInv, RunTypes, Requests
  <2>3. CASE q = r
    BY <1>3, <1>4, <1>6, <1>8, <2>1, <2>2, <2>3
  <2>4. CASE q # r
    BY <1>5, <1>6, <1>8, <2>1, <2>2, <2>4
  <2>q. QED
    BY <2>3, <2>4
<1>11. Assigned'
  <2> SUFFICES ASSUME NEW q \in Requests
               PROVE  /\ Active(q)' => run'[q].session \in Sessions
                      /\ run'[q].pc # "none" => q <= r
    BY <1>1 DEF Assigned
  <2>1. CASE q = r
    BY <1>2, <1>4, <1>6, <2>1 DEF Requests
  <2>2. CASE q # r
    <3>1. run'[q] = run[q] /\ (Active(q)' <=> Active(q))
      BY <1>6, <1>8, <2>2
    <3>2. run[q].pc # "none" => q <= accepted
      BY DEF IInv, Assigned
    <3>3. q \in Nat /\ accepted <= r
      BY <1>1 DEF r, Requests
    <3>q. QED
      BY <1>1, <3>1, <3>2, <3>3 DEF IInv, Assigned, r
  <2>q. QED
    BY <2>1, <2>2
<1>12. FileTypes' /\ transcript' = transcript
  BY <1>7, StillFiles
<1>13. Phase[s] = "closed" /\ Phase' = [Phase EXCEPT ![s] = "claimed"]
  <2>1. ASSUME NEW t \in Sessions
        PROVE  Phase'[t] = IF t = s THEN "claimed" ELSE Phase[t]
    <3>1. CASE t = s
      <4>1. running'[t] = r
        BY <1>5, <3>1 DEF IInv, RunTypes
      <4>q. QED
        BY <1>2, <1>4, <1>6, <3>1, <4>1 DEF Phase, PhaseOf
    <3>2. CASE t # s
      <4>1. running'[t] = running[t] /\ running[t] \in {0} \cup Requests
        BY <1>5, <3>2 DEF IInv, RunTypes
      <4>2. running[t] # r
        BY <1>2, <1>3 DEF IInv, ClaimedWhileActive
      <4>q. QED
        BY <1>6, <3>2, <4>1, <4>2 DEF Phase
    <3>q. QED
      BY <3>1, <3>2
  <2>q. QED
    BY <1>5, <2>1 DEF Phase
<1>14. Promise!Claim(s)
  BY <1>1, <1>5, <1>12, <1>13 DEF Promise!Claim, r
<1>q. QED
  BY <1>9, <1>10, <1>11, <1>12, <1>14 DEF IInv, ClaimedWhileActive, Dreamt, Promise!Next

LEMMA FinishStep == ASSUME IInv, NEW r \in Requests, Finish(r) PROVE IInv' /\ Dreamt
<1> DEFINE s == run[r].session
           rec == [Idle EXCEPT !.pc = "done", !.session = s]
<1>1. run[r].pc = "finish" /\ Active(r) /\ r # 0
  BY DEF Finish, Active, Requests
<1>2. s \in Sessions /\ running[s] = r
  BY <1>1 DEF IInv, Assigned, ClaimedWhileActive
<1>3. rec \in RunRec /\ rec.pc = "done" /\ rec.session = s
  <2>1. 0 \in 0..MaxSteps /\ <<>> \in Seq({"thinking", "tool"})
    BY BoundsAssumption
  <2>q. QED
    BY <1>2, <2>1 DEF Idle, RunRec, Pc
<1>4. run' = [run EXCEPT ![r] = rec] /\ running' = [running EXCEPT ![s] = 0]
  BY DEF Finish
<1> HIDE DEF rec
<1>5. run'[r] = rec /\ \A q \in Requests : q # r => run'[q] = run[q]
  BY <1>4 DEF IInv, RunTypes
<1>6. UNCHANGED <<files, accepted, deleted>> /\ cancelled' = cancelled \ {r}
  BY DEF Finish
<1>7. \A q \in Requests : Active(q)' <=> Active(q) /\ q # r
  BY <1>3, <1>5 DEF Active
<1>8. RunTypes'
  BY <1>3, <1>4, <1>6, <1>7 DEF IInv, RunTypes
<1>9. ASSUME NEW t \in Sessions, NEW q \in Requests
      PROVE  running'[t] = q <=> Active(q)' /\ run'[q].session = t
  <2>1. running[t] = q <=> Active(q) /\ run[q].session = t
    BY DEF IInv, ClaimedWhileActive
  <2>2. q # 0 /\ running'[t] = IF t = s THEN 0 ELSE running[t]
    BY <1>4 DEF IInv, RunTypes, Requests
  <2>3. CASE q = r
    BY <1>2, <1>7, <2>1, <2>2, <2>3
  <2>4. CASE q # r
    BY <1>2, <1>5, <1>7, <2>1, <2>2, <2>4
  <2>q. QED
    BY <2>3, <2>4
<1>10. Assigned'
  <2> SUFFICES ASSUME NEW q \in Requests
               PROVE  /\ Active(q)' => run'[q].session \in Sessions
                      /\ run'[q].pc # "none" => q <= accepted
    BY <1>6 DEF Assigned
  <2>1. run[q].pc # "none" => q <= accepted
    BY DEF IInv, Assigned
  <2>2. run[r].pc # "none"
    BY <1>1
  <2>3. CASE q = r
    BY <1>7, <2>1, <2>2, <2>3
  <2>4. CASE q # r
    BY <1>5, <1>7, <2>1, <2>4 DEF IInv, Assigned
  <2>q. QED
    BY <2>3, <2>4
<1>11. FileTypes' /\ transcript' = transcript
  BY <1>6, StillFiles
<1>12. Phase[s] = "told" /\ Phase' = [Phase EXCEPT ![s] = "closed"]
  <2>1. ASSUME NEW t \in Sessions
        PROVE  Phase'[t] = IF t = s THEN "closed" ELSE Phase[t]
    <3>1. CASE t = s
      <4>1. running'[t] = 0
        BY <1>4, <3>1 DEF IInv, RunTypes
      <4>q. QED
        BY <3>1, <4>1 DEF Phase
    <3>2. CASE t # s
      <4>1. running'[t] = running[t] /\ running[t] \in {0} \cup Requests
        BY <1>4, <3>2 DEF IInv, RunTypes
      <4>2. running[t] # r
        BY <3>2 DEF IInv, ClaimedWhileActive
      <4>q. QED
        BY <1>5, <3>2, <4>1, <4>2 DEF Phase
    <3>q. QED
      BY <3>1, <3>2
  <2>2. Phase[s] = "told"
    BY <1>1, <1>2 DEF Phase, PhaseOf
  <2>q. QED
    BY <2>1, <2>2 DEF Phase
<1>13. Promise!Close(s)
  BY <1>4, <1>6, <1>11, <1>12 DEF Promise!Close
<1>q. QED
  BY <1>2, <1>8, <1>9, <1>10, <1>11, <1>13 DEF IInv, ClaimedWhileActive, Dreamt, Promise!Next

(* The owner's other requests touch the files of one conversation, or who  *)
(* is asked to stop, and no reply under way.                               *)
LEMMA Untouched ==
  ASSUME IInv, FileTypes', UNCHANGED <<registry, run>>,
         cancelled' \subseteq {r \in Requests : Active(r)}
  PROVE  IInv' /\ Phase' = Phase /\ UNCHANGED <<running, accepted>>
<1>1. UNCHANGED <<running, accepted>>
  BY DEF registry
<1>2. \A r \in Requests : Active(r)' <=> Active(r)
  BY DEF Active
<1>3. RunTypes' /\ ClaimedWhileActive' /\ Assigned'
  BY <1>1, <1>2 DEF IInv, RunTypes, ClaimedWhileActive, Assigned
<1>q. QED
  BY <1>1, <1>3 DEF IInv, Phase

LEMMA CutStep ==
  ASSUME IInv, NEW s \in Sessions, NEW keep \in 0..Len(transcript[s]), NEW h \in Seq(Replayed),
         FileTypes', UNCHANGED <<registry, cancelled, run>>,
         transcript' = [transcript EXCEPT ![s] = SubSeq(transcript[s], 1, keep)]
  PROVE  IInv' /\ Dreamt
<1>1. IInv' /\ Phase' = Phase /\ UNCHANGED <<running, accepted>>
  BY Untouched DEF IInv, RunTypes
<1>2. transcript[s] \in Seq(Shown)
  BY SavedTypes
<1>3. CASE keep = Len(transcript[s])
  <2>1. SubSeq(transcript[s], 1, keep) = transcript[s]
    BY <1>2, <1>3
  <2>2. transcript' = transcript
    BY <2>1 DEF IInv, FileTypes
  <2>q. QED
    BY <1>1, <2>2 DEF Dreamt, Promise!vars
<1>4. CASE keep < Len(transcript[s])
  <2>1. Promise!Cut(s, keep)
    BY <1>1, <1>4 DEF Promise!Cut
  <2>q. QED
    BY <1>1, <2>1 DEF Dreamt, Promise!Next
<1>q. QED
  BY <1>2, <1>3, <1>4

LEMMA CutCount ==
  ASSUME IInv, NEW s \in Sessions, NEW keep \in 0..Len(transcript[s])
  PROVE  Cardinality(Users(SubSeq(transcript[s], keep + 1, Len(transcript[s])))) \in Nat
<1> DEFINE l == transcript[s]
           cut == SubSeq(l, keep + 1, Len(l))
<1>1. cut \in Seq(Shown)
  <2>1. l \in Seq(Shown)
    BY SavedTypes
  <2>2. \A i \in (keep + 1)..Len(l) : l[i] \in Shown
    BY <2>1
  <2>q. QED
    BY <2>1, <2>2, SubSeqProperties
<1>2. Len(cut) \in Nat
  BY <1>1
<1> HIDE DEF cut
<1>3. IsFiniteSet(1..Len(cut)) /\ Users(cut) \subseteq 1..Len(cut)
  <2>1. IsFiniteSet(1..Len(cut))
    BY <1>2, FS_Interval
  <2>q. QED
    BY <2>1 DEF Users
<1>4. IsFiniteSet(Users(cut))
  BY <1>3, FS_Subset
<1>5. Cardinality(Users(cut)) \in Nat
  BY <1>4, FS_CardinalityType
<1>q. QED
  BY <1>5 DEF cut

LEMMA RewindStep ==
  ASSUME IInv, NEW s \in Sessions, NEW keep \in 0..Len(transcript[s]), Rewind(s, keep)
  PROVE  IInv' /\ Dreamt
<1> DEFINE l == transcript[s]
           cut == SubSeq(l, keep + 1, Len(l))
           n == Cardinality(Users(cut))
<1>1. l \in Seq(Shown) /\ history[s] \in Seq(Replayed)
  BY SavedTypes
<1>2. UNCHANGED <<registry, cancelled, run>> /\ deleted' \subseteq Sessions
  BY DEF Rewind, IInv, FileTypes
<1>3. n \in Nat
  BY CutCount
<1>4. CASE Change(s, SubSeq(l, 1, keep), DropUsers(history[s], n))
  <2> HIDE DEF n
  <2>1. SubSeq(l, 1, keep) \in Seq(Shown) /\ DropUsers(history[s], n) \in Seq(Replayed)
    BY <1>1, <1>3, PrefixTypes, DropTypes
  <2>2. FileTypes' /\ transcript' = [transcript EXCEPT ![s] = SubSeq(l, 1, keep)]
    BY <1>2, <1>4, <2>1, ChangeTypes DEF IInv
  <2>q. QED
    BY <1>2, <2>1, <2>2, CutStep
<1>5. CASE Failed
  <2>1. FileTypes' /\ transcript' = transcript
    BY <1>2, <1>5, SameFiles DEF Failed, IInv, files
  <2>2. IInv' /\ Phase' = Phase /\ UNCHANGED <<running, accepted>>
    BY <1>2, <2>1, Untouched DEF IInv, RunTypes
  <2>q. QED
    BY <2>1, <2>2 DEF Dreamt, Promise!vars
<1>q. QED
  BY <1>4, <1>5 DEF Rewind

LEMMA RemoveStep == ASSUME IInv, NEW s \in Sessions, Remove(s) PROVE IInv' /\ Dreamt
<1>1. transcript[s] \in Seq(Shown) /\ <<>> \in Seq(Replayed) /\ <<>> \in Seq(Shown)
  BY SavedTypes
<1>2. UNCHANGED <<registry, cancelled, run>> /\ FileTypes'
  BY <1>1 DEF Remove, IInv, FileTypes
<1>3. SubSeq(transcript[s], 1, 0) = <<>> /\ 0 \in 0..Len(transcript[s])
  BY <1>1
<1>4. transcript' = [transcript EXCEPT ![s] = SubSeq(transcript[s], 1, 0)]
  BY <1>3 DEF Remove
<1>q. QED
  BY <1>1, <1>2, <1>3, <1>4, CutStep

LEMMA SettingsStep == ASSUME IInv, NEW s \in Sessions, Settings(s) PROVE IInv' /\ Dreamt
<1>1. transcript[s] \in Seq(Shown) /\ history[s] \in Seq(Replayed)
  BY SavedTypes
<1>2. UNCHANGED <<registry, cancelled, run>> /\ deleted' \subseteq Sessions
  BY DEF Settings, IInv, FileTypes
<1>3. FileTypes' /\ transcript' = [transcript EXCEPT ![s] = transcript[s]]
  BY <1>1, <1>2, ChangeTypes DEF Settings, IInv
<1>4. transcript' = transcript
  BY <1>3 DEF IInv, FileTypes
<1>5. IInv' /\ Phase' = Phase /\ UNCHANGED <<running, accepted>>
  BY <1>2, <1>3, Untouched DEF IInv, RunTypes
<1>q. QED
  BY <1>4, <1>5 DEF Dreamt, Promise!vars

LEMMA StopStep == ASSUME IInv, NEW s \in Sessions, Stop(s) PROVE IInv' /\ Dreamt
<1>1. UNCHANGED <<files, registry, run, deleted>> /\ cancelled' = cancelled \cup {running[s]}
  BY DEF Stop
<1>2. running[s] \in Requests /\ Active(running[s])
  BY DEF Stop, IInv, RunTypes, ClaimedWhileActive
<1>3. FileTypes' /\ transcript' = transcript
  BY <1>1, StillFiles
<1>4. IInv' /\ Phase' = Phase /\ UNCHANGED <<running, accepted>>
  BY <1>1, <1>2, <1>3, Untouched DEF IInv, RunTypes
<1>q. QED
  BY <1>3, <1>4 DEF Dreamt, Promise!vars

LEMMA RestartStep == ASSUME IInv, Restart PROVE IInv' /\ Dreamt
<1>1. UNCHANGED <<files, accepted, deleted>> /\ running' = [s \in Sessions |-> 0] /\ cancelled' = {}
  BY DEF Restart
<1>2. FileTypes' /\ transcript' = transcript
  BY <1>1, StillFiles
<1>3. ASSUME NEW r \in Requests
      PROVE  /\ run'[r] \in RunRec /\ ~Active(r)'
             /\ run'[r].pc # "none" => run[r].pc # "none"
  <2>1. run[r] \in RunRec
    BY DEF IInv, RunTypes
  <2>2. CASE Active(r)
    <3> DEFINE rec == [Idle EXCEPT !.pc = "done", !.session = run[r].session]
    <3>1. rec \in RunRec /\ rec.pc = "done"
      <4>1. 0 \in 0..MaxSteps /\ <<>> \in Seq({"thinking", "tool"})
        BY BoundsAssumption
      <4>q. QED
        BY <2>1, <4>1 DEF Idle, RunRec, Pc
    <3>2. run'[r] = rec
      BY <2>2 DEF Restart
    <3>q. QED
      BY <2>2, <3>1, <3>2 DEF Active
  <2>3. CASE ~Active(r)
    BY <2>1, <2>3 DEF Restart, Active
  <2>q. QED
    BY <2>2, <2>3
<1>4. run' \in [Requests -> RunRec]
  BY <1>3 DEF Restart
<1>5. RunTypes'
  BY <1>1, <1>4 DEF IInv, RunTypes
<1>6. ClaimedWhileActive'
  BY <1>1, <1>3 DEF ClaimedWhileActive, Requests
<1>7. Assigned'
  BY <1>1, <1>3 DEF IInv, Assigned
<1>8. Phase' = [s \in Sessions |-> "closed"]
  BY <1>1 DEF Phase
<1>9. Promise!Forget
  BY <1>1, <1>2, <1>8 DEF Promise!Forget
<1>q. QED
  BY <1>2, <1>5, <1>6, <1>7, <1>9 DEF IInv, Dreamt, Promise!Next

-----------------------------------------------------------------------------
LEMMA InitHolds == Init => IInv /\ Promise!Init
<1> SUFFICES ASSUME Init PROVE IInv /\ Promise!Init
  OBVIOUS
<1>1. FileTypes
  BY DEF Init, FileTypes
<1>2. Idle \in RunRec
  <2>1. 0 \in 0..MaxSteps /\ <<>> \in Seq({"thinking", "tool"})
    BY BoundsAssumption
  <2>q. QED
    BY <2>1 DEF Idle, RunRec, Pc
<1>3. ASSUME NEW r \in Requests PROVE ~Active(r) /\ run[r].pc = "none" /\ r # 0
  <2>1. run[r] = Idle /\ r # 0
    BY DEF Init, Requests
  <2>2. Idle.pc = "none"
    BY DEF Idle
  <2>q. QED
    BY <2>1, <2>2 DEF Active
<1>4. RunTypes
  <2>1. run = [r \in Requests |-> Idle] /\ accepted = 0 /\ cancelled = {}
        /\ running = [s \in Sessions |-> 0]
    BY DEF Init
  <2>2. run \in [Requests -> RunRec] /\ accepted \in 0..MaxRequests
    BY <1>2, <2>1, BoundsAssumption
  <2>q. QED
    BY <2>1, <2>2 DEF RunTypes
<1>5. ClaimedWhileActive /\ Assigned
  BY <1>3 DEF Init, ClaimedWhileActive, Assigned
<1>6. Promise!Init
  BY DEF Init, Promise!Init, Phase
<1>q. QED
  BY <1>1, <1>4, <1>5, <1>6 DEF IInv

LEMMA NextKeeps == IInv /\ [Next]_vars => IInv' /\ Dreamt
<1> SUFFICES ASSUME IInv, [Next]_vars PROVE IInv' /\ Dreamt
  OBVIOUS
<1>1. CASE UNCHANGED vars
  <2>1. UNCHANGED <<files, deleted, registry, cancelled, run>>
    BY <1>1 DEF vars
  <2>2. FileTypes' /\ transcript' = transcript
    BY <2>1, StillFiles
  <2>3. IInv' /\ Phase' = Phase /\ UNCHANGED <<running, accepted>>
    BY <2>1, <2>2, Untouched DEF IInv, RunTypes
  <2>q. QED
    BY <2>2, <2>3 DEF Dreamt, Promise!vars
<1>2. ASSUME NEW r \in Requests, Step(r) \/ Words(r) \/ Item(r, "tool") PROVE IInv' /\ Dreamt
  <2>1. CASE Quiet(r)
    BY <2>1, QuietStep
  <2>2. CASE UserTurn(r) \/ SaveText(r) \/ Answered(r) \/ Finish(r)
    BY <2>2, UserTurnStep, SaveTextStep, AnsweredStep, FinishStep
  <2>3. CASE Item(r, "thinking") \/ Item(r, "tool")
    BY <2>3, ItemStep
  <2>q. QED
    BY <1>2, <2>1, <2>2, <2>3 DEF Step, Quiet
<1>3. ASSUME NEW s \in Sessions, Owner(s) PROVE IInv' /\ Dreamt
  BY <1>3, ClaimStep, StopStep, SettingsStep, RemoveStep, RewindStep DEF Owner
<1>4. CASE Restart
  BY <1>4, RestartStep
<1>q. QED
  BY <1>1, <1>2, <1>3, <1>4 DEF Next

LEMMA InvHolds == Spec => []IInv
BY InitHolds, NextKeeps, PTL DEF Spec

(* Files, registry and goroutines have their types, and only replies under *)
(* way are asked to stop, whatever fails and however often the service is  *)
(* restarted: assist/chat.go:20-47, conversations.go:63-112.               *)
THEOREM Typing == Spec => []TypeOK
<1>1. IInv => TypeOK
  BY Types DEF IInv
<1>q. QED
  BY InvHolds, <1>1, PTL

(* A conversation answers 409 exactly while a reply to it is under way: no *)
(* failure, stop or restart leaves it claimed, and no reply runs on in one *)
(* that is free (assist/chat.go:27-47,83-102).                             *)
THEOREM Claimed == Spec => []ClaimedWhileActive
<1>1. IInv => ClaimedWhileActive
  BY DEF IInv
<1>q. QED
  BY InvHolds, <1>1, PTL

(* The chat implements the dialogue it promises: each save of a reply is   *)
(* one entry of it or a stutter, each rewind and deletion a cut, and a     *)
(* restart forgets the replies under way (assist/chat.go:83-160).          *)
THEOREM Refines == Spec => IsDialogue
<1>1. Init => Promise!Init
  BY InitHolds
<1>2. IInv /\ [Next]_vars => [Promise!Next]_(Promise!vars)
  BY NextKeeps DEF Dreamt
<1>q. QED
  BY InvHolds, <1>1, <1>2, PTL DEF Spec, IsDialogue, Promise!Spec

-----------------------------------------------------------------------------
(* What a dialogue guarantees holds of the chat.                           *)
Proved == INSTANCE Dialogue_proof WITH
  log <- transcript,
  open <- running,
  phase <- Phase,
  asked <- accepted

LEMMA SameDialogue ==
  /\ Promise!Init <=> Proved!Init
  /\ [Promise!Next]_(Promise!vars) <=> [Proved!Next]_(Proved!vars)
BY DEF Promise!Init, Proved!Init, Promise!Next, Proved!Next, Promise!vars, Proved!vars,
       Promise!Claim, Proved!Claim, Promise!Tell, Proved!Tell, Promise!Say, Proved!Say,
       Promise!GiveUp, Proved!GiveUp, Promise!Close, Proved!Close, Promise!Cut, Proved!Cut,
       Promise!Forget, Proved!Forget, Phase

LEMMA SameOrder == Promise!RepliesInOrder <=> Proved!RepliesInOrder
BY DEF Promise!RepliesInOrder, Proved!RepliesInOrder, Promise!InOrder, Proved!InOrder,
       Promise!Before, Proved!Before, Promise!Rank, Proved!Rank

(* In every conversation the replies shown stand one behind the other, the *)
(* message first and at most one text last, across rewinds, deletions,     *)
(* failed saves and restarts (assist/chat.go:83-160).                      *)
THEOREM Order == Spec => []RepliesInOrder
<1>1. IsDialogue => []RepliesInOrder
  BY SameDialogue, SameOrder, Proved!Order, PTL
     DEF IsDialogue, Promise!Spec, Proved!Spec, RepliesInOrder
<1>q. QED
  BY Refines, <1>1

-----------------------------------------------------------------------------
(* What the model is replayed.  An answer follows the message it answers,  *)
(* so once a reply has said its message there is room for one answer, and  *)
(* nothing in the history would have to stand behind it.                   *)
InPlace(h) == \A i, j \in 1..Len(h) : i < j =>
  \/ h[i].req < h[j].req
  \/ h[i].req = h[j].req /\ h[i].kind = "user" /\ h[j].kind = "model"

Sound(h, a, r, pc) ==
  /\ InPlace(h) /\ Len(h) <= MaxTurns + 1
  /\ \A i \in 1..Len(h) : h[i].req <= a
  /\ pc = "claimed" => \A i \in 1..Len(h) : h[i].req < r
  /\ pc \in Telling \cup {"reply"} =>
       /\ Len(h) <= MaxTurns
       /\ \A i \in 1..Len(h) : h[i].req < r \/ (h[i].req = r /\ h[i].kind = "user")

Holder(s) == IF running[s] = 0 THEN "none" ELSE run[running[s]].pc

HInv == \A s \in Sessions : Sound(history[s], accepted, running[s], Holder(s))

LEMMA ReqTypes == ASSUME NEW h \in Seq(Replayed) PROVE \A i \in 1..Len(h) : h[i].req \in Nat
<1> SUFFICES ASSUME NEW i \in 1..Len(h) PROVE h[i].req \in Nat
  OBVIOUS
<1>1. h[i] \in Replayed
  OBVIOUS
<1>q. QED
  BY <1>1 DEF Replayed, Requests

(* A stretch of a history is as sound as the whole.                        *)
LEMMA StretchSound ==
  ASSUME NEW h \in Seq(Replayed), NEW k \in Seq(Replayed), NEW d \in Nat,
         Len(k) + d <= Len(h), \A i \in 1..Len(k) : k[i] = h[i + d],
         NEW a, NEW r, NEW pc, Sound(h, a, r, pc)
  PROVE  Sound(k, a, r, pc)
<1>1. \A i \in 1..Len(k) : i + d \in 1..Len(h)
  OBVIOUS
<1>2. Len(k) <= Len(h) /\ Len(k) \in Nat /\ Len(h) \in Nat
  <2>1. Len(k) \in Nat /\ Len(h) \in Nat
    BY LenProperties
  <2>2. Len(k) + d <= Len(h)
    OBVIOUS
  <2>q. QED
    BY <2>1, <2>2
<1>3. InPlace(k)
  <2> SUFFICES ASSUME NEW i \in 1..Len(k), NEW j \in 1..Len(k), i < j
               PROVE  \/ k[i].req < k[j].req
                      \/ k[i].req = k[j].req /\ k[i].kind = "user" /\ k[j].kind = "model"
    BY DEF InPlace
  <2>1. i + d < j + d /\ i + d \in 1..Len(h) /\ j + d \in 1..Len(h)
    BY <1>1
  <2>2. k[i] = h[i + d] /\ k[j] = h[j + d]
    OBVIOUS
  <2>q. QED
    BY <2>1, <2>2 DEF Sound, InPlace
<1>4. /\ \A i \in 1..Len(k) : k[i].req <= a
      /\ pc = "claimed" => \A i \in 1..Len(k) : k[i].req < r
  BY <1>1 DEF Sound
<1>5. pc \in Telling \cup {"reply"} =>
        \A i \in 1..Len(k) : k[i].req < r \/ (k[i].req = r /\ k[i].kind = "user")
  BY <1>1 DEF Sound
<1>6. Len(k) <= MaxTurns + 1 /\ (pc \in Telling \cup {"reply"} => Len(k) <= MaxTurns)
  BY <1>2, BoundsAssumption DEF Sound
<1>q. QED
  BY <1>3, <1>4, <1>5, <1>6 DEF Sound

LEMMA CutSound ==
  ASSUME NEW h \in Seq(Replayed), NEW n \in Nat, NEW a, NEW r, NEW pc, Sound(h, a, r, pc)
  PROVE  Sound(DropUsers(h, n), a, r, pc)
<1> DEFINE kept == {i \in 1..Len(h) : Behind(h, i) >= n}
           c == Cardinality(kept)
<1>1. DropUsers(h, n) = SubSeq(h, 1, c) /\ c \in 0..Len(h)
  BY DropLength DEF DropUsers
<1> HIDE DEF c
<1>2. SubSeq(h, 1, c) \in Seq(Replayed) /\ Len(SubSeq(h, 1, c)) = c
  BY <1>1, PrefixTypes
<1> DEFINE k == SubSeq(h, 1, c)
<1>3. \A i \in 1..Len(k) : k[i] = h[i + 0]
  BY <1>1, <1>2
<1>4. k \in Seq(Replayed) /\ Len(k) + 0 <= Len(h) /\ 0 \in Nat
  BY <1>1, <1>2
<1> HIDE DEF k
<1>5. Sound(k, a, r, pc)
  BY <1>3, <1>4, StretchSound
<1>q. QED
  BY <1>1, <1>5 DEF k

LEMMA UserSound ==
  ASSUME NEW h \in Seq(Replayed), NEW r \in Requests, NEW a \in Nat, r <= a, Sound(h, a, r, "claimed")
  PROVE  Sound(Newest(Append(h, Entry(r, "user")), MaxTurns), a, r, "loop")
<1> DEFINE k == Append(h, Entry(r, "user"))
<1>1. k \in Seq(Replayed) /\ Len(k) = Len(h) + 1 /\ k[Len(k)] = Entry(r, "user")
      /\ \A i \in 1..Len(h) : k[i] = h[i]
  BY EntryTypes
<1>2. Entry(r, "user").req = r /\ Entry(r, "user").kind = "user"
  BY DEF Entry
<1> HIDE DEF k
<1>3. \A i \in 1..Len(k) : i \in 1..Len(h) \/ i = Len(k)
  BY <1>1
<1>4. \A i \in 1..Len(h) : h[i].req < r
  BY DEF Sound
<1>5. InPlace(k)
  <2> SUFFICES ASSUME NEW i \in 1..Len(k), NEW j \in 1..Len(k), i < j
               PROVE  \/ k[i].req < k[j].req
                      \/ k[i].req = k[j].req /\ k[i].kind = "user" /\ k[j].kind = "model"
    BY DEF InPlace
  <2>1. i \in 1..Len(h)
    BY <1>1
  <2>2. CASE j \in 1..Len(h)
    BY <1>1, <2>1, <2>2 DEF Sound, InPlace
  <2>3. CASE j = Len(k)
    BY <1>1, <1>2, <1>4, <2>1, <2>3
  <2>q. QED
    BY <1>3, <2>2, <2>3
<1>6. ASSUME NEW i \in 1..Len(k)
      PROVE  k[i].req <= a /\ (k[i].req < r \/ (k[i].req = r /\ k[i].kind = "user"))
  <2>1. CASE i \in 1..Len(h)
    <3>1. k[i] = h[i]
      BY <1>1, <2>1
    <3>2. h[i].req <= a
      BY <2>1 DEF Sound
    <3>3. h[i].req < r
      BY <1>4, <2>1
    <3>q. QED
      BY <3>1, <3>2, <3>3
  <2>2. CASE i = Len(k)
    BY <1>1, <1>2, <2>2
  <2>q. QED
    BY <1>3, <2>1, <2>2
<1> DEFINE n == Newest(k, MaxTurns)
<1>7. n \in Seq(Replayed) /\ Len(n) <= MaxTurns /\ Len(n) \in Nat
  BY <1>1, NewestTypes, BoundsAssumption
<1>8. PICK d \in Nat : Len(n) + d <= Len(k) /\ \A i \in 1..Len(n) : n[i] = k[i + d]
  <2>1. CASE Len(k) > MaxTurns
    <3>1. n = SubSeq(k, Len(k) - MaxTurns + 1, Len(k))
      BY <2>1 DEF Newest
    <3>2. Len(k) \in Nat /\ Len(k) - MaxTurns \in Nat /\ Len(n) = MaxTurns
      BY <1>1, <2>1, <3>1, BoundsAssumption
    <3>3. \A i \in 1..Len(n) : n[i] = k[i + (Len(k) - MaxTurns)]
      BY <1>1, <2>1, <3>1, <3>2, BoundsAssumption
    <3>4. Len(n) + (Len(k) - MaxTurns) <= Len(k)
      BY <3>2, BoundsAssumption
    <3> HIDE DEF n
    <3>q. QED
      BY <3>2, <3>3, <3>4
  <2>2. CASE ~(Len(k) > MaxTurns)
    <3>1. n = k /\ Len(n) + 0 <= Len(k) /\ \A i \in 1..Len(n) : n[i] = k[i + 0]
      BY <1>1, <2>2 DEF Newest
    <3>q. QED
      BY <3>1
  <2>q. QED
    BY <2>1, <2>2
<1> HIDE DEF n
<1>9. \A i \in 1..Len(n) : i + d \in 1..Len(k)
  BY <1>1, <1>7, <1>8
<1>10. InPlace(n)
  BY <1>5, <1>7, <1>8, <1>9 DEF InPlace
<1>11. /\ \A i \in 1..Len(n) : n[i].req <= a
       /\ \A i \in 1..Len(n) : n[i].req < r \/ (n[i].req = r /\ n[i].kind = "user")
  BY <1>6, <1>8, <1>9
<1>12. Len(n) <= MaxTurns + 1
  BY <1>7, BoundsAssumption
<1>13. Sound(n, a, r, "loop")
  BY <1>7, <1>10, <1>11, <1>12 DEF Sound
<1>q. QED
  BY <1>13 DEF n, k

LEMMA ModelSound ==
  ASSUME NEW h \in Seq(Replayed), NEW r \in Requests, NEW a \in Nat, r <= a, Sound(h, a, r, "reply")
  PROVE  Sound(Append(h, Entry(r, "model")), a, r, "finish")
<1> DEFINE k == Append(h, Entry(r, "model"))
<1>1. k \in Seq(Replayed) /\ Len(k) = Len(h) + 1 /\ k[Len(k)] = Entry(r, "model")
      /\ \A i \in 1..Len(h) : k[i] = h[i]
  BY EntryTypes
<1>2. Entry(r, "model").req = r /\ Entry(r, "model").kind = "model"
  BY DEF Entry
<1> HIDE DEF k
<1>3. \A i \in 1..Len(k) : i \in 1..Len(h) \/ i = Len(k)
  BY <1>1
<1>4. Len(h) <= MaxTurns /\ \A i \in 1..Len(h) : h[i].req < r \/ (h[i].req = r /\ h[i].kind = "user")
  BY DEF Sound
<1>5. InPlace(k)
  <2> SUFFICES ASSUME NEW i \in 1..Len(k), NEW j \in 1..Len(k), i < j
               PROVE  \/ k[i].req < k[j].req
                      \/ k[i].req = k[j].req /\ k[i].kind = "user" /\ k[j].kind = "model"
    BY DEF InPlace
  <2>1. i \in 1..Len(h)
    BY <1>1
  <2>2. CASE j \in 1..Len(h)
    BY <1>1, <2>1, <2>2 DEF Sound, InPlace
  <2>3. CASE j = Len(k)
    BY <1>1, <1>2, <1>4, <2>1, <2>3
  <2>q. QED
    BY <1>3, <2>2, <2>3
<1>6. \A i \in 1..Len(k) : k[i].req <= a
  <2> SUFFICES ASSUME NEW i \in 1..Len(k) PROVE k[i].req <= a
    OBVIOUS
  <2>1. CASE i \in 1..Len(h)
    BY <1>1, <2>1 DEF Sound
  <2>2. CASE i = Len(k)
    BY <1>1, <1>2, <2>2
  <2>q. QED
    BY <1>3, <2>1, <2>2
<1>7. Len(k) <= MaxTurns + 1
  BY <1>1, <1>4, BoundsAssumption
<1>8. Sound(k, a, r, "finish")
  BY <1>5, <1>6, <1>7 DEF Sound, Telling
<1>q. QED
  BY <1>8 DEF k

LEMMA EmptySound == ASSUME NEW a, NEW r, NEW pc PROVE Sound(<<>>, a, r, pc)
BY BoundsAssumption DEF Sound, InPlace

(* As long as a reply does not go back, its history needs no more.         *)
LEMMA OnwardSound ==
  ASSUME NEW h, NEW a, NEW r, NEW pc, NEW to, Sound(h, a, r, pc), to # "claimed",
         to \in Telling \cup {"reply"} => pc \in Telling \cup {"reply"}
  PROVE  Sound(h, a, r, to)
BY DEF Sound

(* A step of the reply that holds a conversation is about that one only.   *)
LEMMA MovesSound ==
  ASSUME IInv, HInv, NEW r \in Requests, Active(r), Moves(r), NEW h,
         history' = [history EXCEPT ![run[r].session] = h],
         Sound(history[run[r].session], accepted, r, run[r].pc) => Sound(h, accepted, r, run'[r].pc)
  PROVE  HInv'
<1>1. /\ run[r].session \in Sessions /\ running[run[r].session] = r
      /\ \A s \in Sessions : s # run[r].session /\ running[s] # 0 =>
           run'[running[s]] = run[running[s]]
  BY MovesKeeps
<1>2. UNCHANGED <<running, accepted>> /\ r # 0
  BY DEF Moves, registry, Requests
<1>3. ASSUME NEW s \in Sessions PROVE Sound(history[s], accepted, running[s], Holder(s))'
  <2>1. Sound(history[s], accepted, running[s], Holder(s))
    BY DEF HInv
  <2>2. CASE s = run[r].session
    <3>1. Holder(s) = run[r].pc /\ Holder(s)' = run'[r].pc /\ history'[s] = h
      BY <1>1, <1>2, <2>2 DEF Holder, IInv, FileTypes
    <3>2. Sound(h, accepted, r, run'[r].pc)
      BY <1>1, <2>1, <2>2, <3>1
    <3>q. QED
      BY <1>1, <1>2, <2>2, <3>1, <3>2 DEF Sound, InPlace
  <2>3. CASE s # run[r].session
    <3>1. Holder(s)' = Holder(s) /\ history'[s] = history[s]
      BY <1>1, <1>2, <2>3 DEF Holder, IInv, FileTypes
    <3>q. QED
      BY <1>2, <2>1, <3>1 DEF Sound, InPlace
  <2>q. QED
    BY <2>2, <2>3
<1>q. QED
  BY <1>3 DEF HInv

LEMMA SameHistory ==
  ASSUME IInv, HInv, NEW r \in Requests, Active(r), Moves(r), UNCHANGED history,
         run'[r].pc # "claimed",
         run'[r].pc \in Telling \cup {"reply"} => run[r].pc \in Telling \cup {"reply"}
  PROVE  HInv'
<1>1. history' = [history EXCEPT ![run[r].session] = history[run[r].session]]
  BY DEF IInv, FileTypes
<1>2. Sound(history[run[r].session], accepted, r, run[r].pc) =>
        Sound(history[run[r].session], accepted, r, run'[r].pc)
  BY OnwardSound
<1>q. QED
  BY <1>1, <1>2, MovesSound

LEMMA StepSound ==
  ASSUME IInv, HInv, NEW r \in Requests,
         Quiet(r) \/ UserTurn(r) \/ (\E item : Item(r, item)) \/ SaveText(r) \/ Answered(r)
  PROVE  HInv'
<1> DEFINE s == run[r].session
<1>0. /\ accepted \in Nat
      /\ Active(r) => s \in Sessions /\ history[s] \in Seq(Replayed) /\ r <= accepted
  BY SavedTypes DEF IInv, Assigned, RunTypes, Active
<1>1. CASE Quiet(r)
  <2>1. /\ run[r].pc \in Telling /\ run'[r].pc \in Telling
        /\ UNCHANGED <<files, deleted>> /\ Moves(r)
    BY <1>1, QuietMoves
  <2>2. Active(r) /\ run'[r].pc # "claimed" /\ UNCHANGED history
    BY <2>1 DEF Telling, Active, files
  <2>q. QED
    BY <2>1, <2>2, SameHistory
<1>2. CASE UserTurn(r)
  <2>1. run[r].pc = "claimed" /\ Active(r)
    BY <1>2 DEF UserTurn, Active
  <2>2. CASE Goto(r, "loop") /\ history' = [history EXCEPT ![s] =
                Newest(Append(history[s], Entry(r, "user")), MaxTurns)]
    <3>1. Moves(r) /\ run'[r].pc = "loop"
      BY <1>2, <2>2, GotoMoves DEF UserTurn, Pc
    <3>2. Sound(history[s], accepted, r, "claimed") =>
            Sound(Newest(Append(history[s], Entry(r, "user")), MaxTurns), accepted, r, "loop")
      BY <1>0, <2>1, UserSound
    <3>q. QED
      BY <2>1, <2>2, <3>1, <3>2, MovesSound
  <2>3. CASE Goto(r, "finish") /\ UNCHANGED history
    <3>1. Moves(r) /\ run'[r].pc = "finish"
      BY <1>2, <2>3, GotoMoves DEF UserTurn, Pc
    <3>q. QED
      BY <2>1, <2>3, <3>1, SameHistory DEF Telling
  <2>q. QED
    BY <1>2, <2>2, <2>3 DEF UserTurn, Change, Failed, files
<1>3. CASE \E item : Item(r, item)
  <2>1. run[r].pc = "items" /\ Active(r) /\ history' = [history EXCEPT ![s] = history[s]]
    BY <1>3 DEF Item, Active, Change, Failed, files, IInv, FileTypes
  <2>2. Moves(r) /\ run'[r].pc = "items"
    BY <1>3, ItemMoves
  <2>q. QED
    BY <2>1, <2>2, MovesSound
<1>4. CASE SaveText(r)
  <2>1. run[r].pc = "text" /\ Active(r) /\ history' = [history EXCEPT ![s] = history[s]]
    BY <1>4 DEF SaveText, Active, Change, Failed, files, IInv, FileTypes
  <2>2. Moves(r) /\ run'[r].pc = "reply"
    BY <1>4, GotoMoves DEF SaveText, Pc
  <2>3. UNCHANGED history
    BY <2>1 DEF IInv, FileTypes
  <2>q. QED
    BY <2>1, <2>2, <2>3, SameHistory DEF Telling
<1>5. CASE Answered(r)
  <2>1. run[r].pc = "reply" /\ Active(r)
    BY <1>5 DEF Answered, Active
  <2>2. Moves(r) /\ run'[r].pc = "finish"
    BY <1>5, GotoMoves DEF Answered, Pc
  <2>3. CASE history' = [history EXCEPT ![s] = Append(history[s], Entry(r, "model"))]
    <3>1. Sound(history[s], accepted, r, "reply") =>
            Sound(Append(history[s], Entry(r, "model")), accepted, r, "finish")
      BY <1>0, <2>1, ModelSound
    <3>q. QED
      BY <2>1, <2>2, <2>3, <3>1, MovesSound
  <2>4. CASE UNCHANGED history
    BY <2>1, <2>2, <2>4, SameHistory DEF Telling
  <2>q. QED
    BY <1>5, <2>3, <2>4 DEF Answered, Change, Failed, files
<1>q. QED
  BY <1>1, <1>2, <1>3, <1>4, <1>5

(* A new reply is newer than all that is there, and a reply that ends or a *)
(* restart leaves the histories as they are.                               *)
LEMMA ClaimSound == ASSUME IInv, HInv, NEW s \in Sessions, Claim(s) PROVE HInv'
<1>1. /\ accepted \in Nat /\ accepted' = accepted + 1 /\ accepted + 1 \in Requests
      /\ running[s] = 0 /\ running' = [running EXCEPT ![s] = accepted + 1]
      /\ run' = [run EXCEPT ![accepted + 1] = [Idle EXCEPT !.pc = "claimed", !.session = s]]
      /\ UNCHANGED history
  BY BoundsAssumption DEF Claim, Busy, IInv, RunTypes, Requests, files
<1>2. ~Active(accepted + 1)
  BY <1>1 DEF IInv, Assigned, Active
<1>3. ASSUME NEW t \in Sessions PROVE Sound(history[t], accepted, running[t], Holder(t))'
  <2>1. Sound(history[t], accepted, running[t], Holder(t)) /\ history[t] \in Seq(Replayed)
    BY SavedTypes DEF HInv
  <2>2. \A i \in 1..Len(history[t]) : /\ history[t][i].req \in Nat
                                      /\ history[t][i].req <= accepted
    BY <2>1, ReqTypes DEF Sound
  <2>3. \A i \in 1..Len(history[t]) : /\ history[t][i].req <= accepted + 1
                                      /\ history[t][i].req < accepted + 1
    BY <1>1, <2>2
  <2>4. InPlace(history[t]) /\ Len(history[t]) <= MaxTurns + 1
    BY <2>1 DEF Sound
  <2>5. CASE t = s
    <3>1. running'[t] = accepted + 1 /\ accepted + 1 # 0
      BY <1>1, <2>5 DEF IInv, RunTypes
    <3>2. run'[accepted + 1].pc = "claimed"
      BY <1>1 DEF IInv, RunTypes, Idle
    <3>3. Holder(t)' = "claimed"
      BY <3>1, <3>2 DEF Holder
    <3>4. Sound(history[t], accepted + 1, accepted + 1, "claimed")
      BY <2>3, <2>4 DEF Sound, Telling
    <3>q. QED
      BY <1>1, <3>1, <3>3, <3>4 DEF Sound, InPlace
  <2>6. CASE t # s
    <3>1. running'[t] = running[t] /\ running[t] \in {0} \cup Requests
      BY <1>1, <2>6 DEF IInv, RunTypes
    <3>2. running[t] # accepted + 1
      BY <1>1, <1>2 DEF IInv, ClaimedWhileActive
    <3>3. Holder(t)' = Holder(t)
      BY <1>1, <3>1, <3>2 DEF Holder, IInv, RunTypes
    <3>4. Sound(history[t], accepted + 1, running[t], Holder(t))
      BY <2>1, <2>3 DEF Sound
    <3>q. QED
      BY <1>1, <3>1, <3>3, <3>4 DEF Sound, InPlace
  <2>q. QED
    BY <2>5, <2>6
<1>q. QED
  BY <1>3 DEF HInv

LEMMA EndSound ==
  ASSUME IInv, HInv, Restart \/ (\E r \in Requests : Finish(r))
  PROVE  HInv'
<1>1. UNCHANGED <<history, accepted>>
  BY DEF Restart, Finish, files
<1>2. ASSUME NEW s \in Sessions
      PROVE  \/ Holder(s)' = "none"
             \/ running'[s] = running[s] /\ Holder(s)' = Holder(s)
  <2>1. CASE Restart
    BY <2>1 DEF Restart, Holder
  <2>2. ASSUME NEW r \in Requests, Finish(r)
        PROVE  \/ Holder(s)' = "none"
               \/ running'[s] = running[s] /\ Holder(s)' = Holder(s)
    <3>1. /\ run[r].pc = "finish" /\ Active(r)
          /\ running' = [running EXCEPT ![run[r].session] = 0]
          /\ \A q \in Requests : q # r => run'[q] = run[q]
      BY <2>2 DEF Finish, Active, IInv, RunTypes
    <3>2. CASE s = run[r].session
      BY <3>1, <3>2 DEF Holder, IInv, RunTypes
    <3>3. CASE s # run[r].session
      <4>1. running'[s] = running[s] /\ running[s] # r /\ running[s] \in {0} \cup Requests
        BY <3>1, <3>3 DEF IInv, RunTypes, ClaimedWhileActive
      <4>q. QED
        BY <3>1, <4>1 DEF Holder
    <3>q. QED
      BY <3>2, <3>3
  <2>q. QED
    BY <2>1, <2>2
<1>3. ASSUME NEW s \in Sessions PROVE Sound(history[s], accepted, running[s], Holder(s))'
  <2>1. Sound(history[s], accepted, running[s], Holder(s))
    BY DEF HInv
  <2>2. CASE Holder(s)' = "none"
    <3>1. Sound(history[s], accepted, running'[s], "none")
      BY <2>1 DEF Sound, Telling
    <3>q. QED
      BY <1>1, <2>2, <3>1 DEF Sound, InPlace
  <2>3. CASE running'[s] = running[s] /\ Holder(s)' = Holder(s)
    BY <1>1, <2>1, <2>3 DEF Sound, InPlace
  <2>q. QED
    BY <1>2, <2>2, <2>3
<1>q. QED
  BY <1>3 DEF HInv

(* What the owner takes back leaves a stretch of the history.              *)
LEMMA OwnerSound ==
  ASSUME IInv, HInv, NEW s \in Sessions, NEW h, UNCHANGED <<registry, run>>,
         history' = [history EXCEPT ![s] = h],
         \A a, r, pc : Sound(history[s], a, r, pc) => Sound(h, a, r, pc)
  PROVE  HInv'
<1>1. UNCHANGED <<running, accepted>>
  BY DEF registry
<1>2. ASSUME NEW t \in Sessions PROVE Sound(history[t], accepted, running[t], Holder(t))'
  <2>1. Sound(history[t], accepted, running[t], Holder(t)) /\ Holder(t)' = Holder(t)
    BY <1>1 DEF HInv, Holder
  <2>2. Sound(history'[t], accepted, running[t], Holder(t))
    <3>1. CASE t = s
      BY <2>1, <3>1 DEF IInv, FileTypes
    <3>2. CASE t # s
      BY <2>1, <3>2 DEF IInv, FileTypes
    <3>q. QED
      BY <3>1, <3>2
  <2>q. QED
    BY <1>1, <2>1, <2>2 DEF Sound, InPlace
<1>q. QED
  BY <1>2 DEF HInv

LEMMA HistoryKeeps == IInv /\ HInv /\ [Next]_vars => HInv'
<1> SUFFICES ASSUME IInv, HInv, [Next]_vars PROVE HInv'
  OBVIOUS
<1>1. ASSUME NEW r \in Requests, Step(r) \/ Words(r) \/ Item(r, "tool") PROVE HInv'
  BY <1>1, StepSound, EndSound DEF Step, Quiet
<1>2. ASSUME UNCHANGED <<history, registry, run>> PROVE HInv'
  <2>1. \A s \in Sessions : Holder(s)' = Holder(s)
    BY <1>2 DEF Holder, registry
  <2>q. QED
    BY <1>2, <2>1 DEF HInv, Sound, InPlace, registry
<1>3. ASSUME NEW s \in Sessions, Owner(s) PROVE HInv'
  <2>1. CASE Claim(s)
    BY <2>1, ClaimSound
  <2>2. CASE Stop(s)
    BY <1>2, <2>2 DEF Stop, files
  <2>3. CASE Settings(s)
    <3>1. history' = history /\ UNCHANGED <<registry, run>>
      BY <2>3 DEF Settings, Change, IInv, FileTypes
    <3>q. QED
      BY <1>2, <3>1
  <2>4. CASE Remove(s)
    <3>1. history' = [history EXCEPT ![s] = <<>>] /\ UNCHANGED <<registry, run>>
      BY <2>4 DEF Remove
    <3>q. QED
      BY <3>1, EmptySound, OwnerSound
  <2>5. ASSUME NEW keep \in 0..Len(transcript[s]), Rewind(s, keep) PROVE HInv'
    <3> DEFINE n == Cardinality(Users(SubSeq(transcript[s], keep + 1, Len(transcript[s]))))
    <3>1. n \in Nat /\ history[s] \in Seq(Replayed)
      BY CutCount, SavedTypes
    <3>2. UNCHANGED <<registry, run>>
      BY <2>5 DEF Rewind
    <3>3. CASE history' = [history EXCEPT ![s] = DropUsers(history[s], n)]
      <4> HIDE DEF n
      <4>1. \A a, r, pc : Sound(history[s], a, r, pc) => Sound(DropUsers(history[s], n), a, r, pc)
        BY <3>1, CutSound
      <4>q. QED
        BY <3>2, <3>3, <4>1, OwnerSound
    <3>4. CASE UNCHANGED history
      BY <1>2, <3>2, <3>4
    <3>q. QED
      BY <2>5, <3>3, <3>4 DEF Rewind, Change, Failed, files
  <2>q. QED
    BY <1>3, <2>1, <2>2, <2>3, <2>4, <2>5 DEF Owner
<1>4. CASE Restart
  BY <1>4, EndSound
<1>5. CASE UNCHANGED vars
  BY <1>2, <1>5 DEF vars, files
<1>q. QED
  BY <1>1, <1>3, <1>4, <1>5 DEF Next

LEMMA HistoryHolds == Spec => []HInv
<1>1. Init => HInv
  <2> SUFFICES ASSUME Init, NEW s \in Sessions PROVE Sound(history[s], accepted, running[s], Holder(s))
    BY DEF HInv
  <2>1. history[s] = <<>>
    BY DEF Init
  <2>q. QED
    BY <2>1, EmptySound
<1>q. QED
  BY InvHolds, HistoryKeeps, <1>1, PTL DEF Spec

(* The history never outgrows maxTurns by more than the answer under way,  *)
(* whatever fails to be saved (assist/conversations.go:114-149).           *)
THEOREM Bounded == Spec => []HistoryBounded
<1>1. HInv => HistoryBounded
  BY DEF HInv, Sound, HistoryBounded
<1>q. QED
  BY HistoryHolds, <1>1, PTL

(* What the model is replayed is in order: no answer stands before its     *)
(* message or behind a later one, across rewinds in the middle of a reply, *)
(* deletions and restarts (assist/conversations.go:114-176).               *)
THEOREM Answers == Spec => []AnswersInPlace
<1>1. HInv => AnswersInPlace
  BY DEF HInv, Sound, InPlace, AnswersInPlace
<1>q. QED
  BY HistoryHolds, <1>1, PTL
-----------------------------------------------------------------------------
(* What the model is replayed are the newest of the owner's messages.  The *)
(* messages are counted from the end: how a list that grows or is cut      *)
(* changes the count behind an entry.                                      *)
BehindSet(l, i) == {j \in Users(l) : j > i}

LEMMA BehindFinite ==
  ASSUME NEW S, NEW l \in Seq(S), NEW i
  PROVE  /\ IsFiniteSet(BehindSet(l, i)) /\ Behind(l, i) \in Nat
         /\ Behind(l, i) = Cardinality(BehindSet(l, i))
<1>1. Len(l) \in Nat
  OBVIOUS
<1>2. IsFiniteSet(1..Len(l)) /\ BehindSet(l, i) \in SUBSET (1..Len(l))
  BY <1>1, FS_Interval DEF BehindSet, Users
<1>3. IsFiniteSet(BehindSet(l, i))
  BY <1>2, FS_Subset
<1> QED BY <1>3, FS_CardinalityType DEF Behind, BehindSet

(* The end of a list, from position d on, counts as the list does.         *)
LEMMA BehindSuffix ==
  ASSUME NEW S, NEW h \in Seq(S), NEW k \in Seq(S), NEW d \in Nat,
         Len(k) + d = Len(h), \A i \in 1..Len(k) : k[i] = h[i + d],
         NEW i \in 0..Len(k)
  PROVE  Behind(k, i) = Behind(h, i + d)
<1> DEFINE A == BehindSet(k, i)
           B == BehindSet(h, i + d)
           f == [j \in A |-> j + d]
<1>1. Len(k) \in Nat /\ Len(h) \in Nat
  OBVIOUS
<1>2. ASSUME NEW j \in A PROVE j + d \in B /\ j \in Int
  BY <1>1 DEF BehindSet, Users
<1>3. ASSUME NEW j \in B PROVE j \in Int /\ j - d \in A /\ (j - d) + d = j
  <2>1. j \in 1..Len(h) /\ j > i + d /\ h[j].kind = "user"
    BY DEF BehindSet, Users
  <2>2. j - d \in 1..Len(k) /\ j - d > i /\ (j - d) + d = j /\ j \in Int
    BY <1>1, <2>1
  <2> QED BY <2>1, <2>2 DEF BehindSet, Users
<1> HIDE DEF A, B
<1>4. f \in Bijection(A, B)
  <2>1. f \in [A -> B]
    BY <1>2
  <2>2. \A x, y \in A : f[x] = f[y] => x = y
    BY <1>2
  <2>3. \A y \in B : \E x \in A : f[x] = y
    BY <1>3
  <2> HIDE DEF f
  <2> QED BY <2>1, <2>2, <2>3 DEF Bijection, Injection, Surjection, IsInjective
<1>5. ExistsBijection(A, B)
  BY <1>4 DEF ExistsBijection
<1>6. IsFiniteSet(A) /\ Behind(k, i) = Cardinality(A) /\ Behind(h, i + d) = Cardinality(B)
  BY BehindFinite DEF A, B
<1> QED BY <1>5, <1>6, FS_Bijection

(* The beginning of a list, up to position m, has less behind each entry   *)
(* by what is behind m.                                                    *)
LEMMA BehindPrefix ==
  ASSUME NEW S, NEW h \in Seq(S), NEW k \in Seq(S), Len(k) <= Len(h),
         \A i \in 1..Len(k) : k[i] = h[i], NEW i \in 0..Len(k)
  PROVE  Behind(h, i) = Behind(k, i) + Behind(h, Len(k))
<1> DEFINE A == BehindSet(k, i)
           B == BehindSet(h, Len(k))
           C == BehindSet(h, i)
<1>1. Len(k) \in Nat /\ Len(h) \in Nat
  OBVIOUS
<1>2. C = A \cup B /\ A \cap B = {}
  BY <1>1 DEF BehindSet, Users
<1>3. /\ IsFiniteSet(A) /\ Behind(k, i) = Cardinality(A) /\ Behind(k, i) \in Nat
      /\ IsFiniteSet(B) /\ Behind(h, Len(k)) = Cardinality(B) /\ Behind(h, Len(k)) \in Nat
      /\ Behind(h, i) = Cardinality(C)
  BY BehindFinite
<1> HIDE DEF A, B, C
<1>4. Cardinality(A \cup B) = Cardinality(A) + Cardinality(B) - Cardinality({})
  BY <1>2, <1>3, FS_Union
<1> QED BY <1>2, <1>3, <1>4, FS_EmptySet

(* Less is behind what comes later, and strictly less behind a message;    *)
(* from one entry to the next it is less by one at most.                   *)
LEMMA BehindOrder ==
  ASSUME NEW S, NEW l \in Seq(S), NEW i \in Nat, NEW j \in Nat
  PROVE  /\ i <= j => Behind(l, j) <= Behind(l, i)
         /\ i < j /\ j \in Users(l) => Behind(l, j) + 1 <= Behind(l, i)
         /\ Behind(l, i) <= Behind(l, i + 1) + 1
<1> DEFINE A == BehindSet(l, i)
           B == BehindSet(l, j)
           C == BehindSet(l, i + 1)
<1>1. /\ IsFiniteSet(A) /\ Behind(l, i) = Cardinality(A) /\ Behind(l, i) \in Nat
      /\ IsFiniteSet(B) /\ Behind(l, j) = Cardinality(B) /\ Behind(l, j) \in Nat
      /\ IsFiniteSet(C) /\ Behind(l, i + 1) = Cardinality(C) /\ Behind(l, i + 1) \in Nat
  BY BehindFinite
<1>2. \A x \in Users(l) : x \in Nat
  BY DEF Users
<1>3. /\ i <= j => B \subseteq A
      /\ i < j /\ j \in Users(l) => (B \cup {j}) \subseteq A /\ j \notin B
      /\ A \subseteq C \cup {i + 1}
  BY <1>2 DEF BehindSet
<1> HIDE DEF A, B, C
<1>4. ASSUME i <= j PROVE Cardinality(B) <= Cardinality(A)
  BY <1>1, <1>3, <1>4, FS_Subset
<1>5. ASSUME i < j, j \in Users(l) PROVE Cardinality(B) + 1 <= Cardinality(A)
  <2>1. Cardinality(B \cup {j}) = Cardinality(B) + 1
    BY <1>1, <1>3, <1>5, FS_AddElement
  <2>2. Cardinality(B \cup {j}) <= Cardinality(A)
    BY <1>1, <1>3, <1>5, FS_Subset
  <2> QED BY <2>1, <2>2
<1>6. Cardinality(A) <= Cardinality(C) + 1
  <2>0. IsFiniteSet(C) /\ Cardinality(C) \in Nat
    BY <1>1, FS_CardinalityType
  <2>1. IsFiniteSet(C \cup {i + 1}) /\ Cardinality(C \cup {i + 1}) <= Cardinality(C) + 1
    <3>1. /\ IsFiniteSet(C \cup {i + 1})
          /\ Cardinality(C \cup {i + 1}) = IF i + 1 \in C THEN Cardinality(C) ELSE Cardinality(C) + 1
      BY <2>0, FS_AddElement
    <3> QED BY <2>0, <3>1
  <2>2. Cardinality(A) <= Cardinality(C \cup {i + 1})
    BY <1>3, <2>1, FS_Subset
  <2>3. Cardinality(C \cup {i + 1}) \in Nat
    BY <2>1, FS_CardinalityType
  <2> QED BY <1>1, <2>1, <2>2, <2>3
<1> QED BY <1>1, <1>4, <1>5, <1>6

(* A set of positions that has with each one all before it is a beginning. *)
LEMMA Beginning ==
  ASSUME NEW n \in Nat, NEW K \in SUBSET (1..n), \A i \in K : 1..i \subseteq K
  PROVE  Cardinality(K) \in 0..n /\ K = 1..Cardinality(K)
<1> DEFINE c == Cardinality(K)
<1>1. IsFiniteSet(1..n) /\ Cardinality(1..n) = n
  BY FS_Interval
<1>2. IsFiniteSet(K) /\ c \in Nat /\ c <= n
  BY <1>1, FS_Subset, FS_CardinalityType
<1>3. ASSUME NEW i \in K PROVE i \in 1..c
  <2>1. i \in 1..n /\ 1..i \in SUBSET K
    OBVIOUS
  <2>2. Cardinality(1..i) = i
    BY <2>1, FS_Interval
  <2>3. Cardinality(1..i) <= Cardinality(K)
    BY <1>2, <2>1, FS_Subset
  <2> QED BY <1>2, <2>1, <2>2, <2>3
<1>4. IsFiniteSet(1..c) /\ Cardinality(1..c) = c
  BY <1>2, FS_Interval
<1>5. K \in SUBSET (1..c)
  BY <1>3
<1>6. 1..c = K
  BY <1>4, <1>5, FS_Subset
<1> QED BY <1>2, <1>6

(* What DropUsers leaves ends just before the first of the last n messages:*)
(* n messages are behind it.                                               *)
LEMMA DropExact ==
  ASSUME NEW S, NEW h \in Seq(S), NEW n \in Nat
  PROVE  \E c \in 0..Len(h) :
           /\ DropUsers(h, n) = SubSeq(h, 1, c)
           /\ c # 0 => Behind(h, c) = n
<1> DEFINE K == {i \in 1..Len(h) : Behind(h, i) >= n}
           c == Cardinality(K)
<1>1. Len(h) \in Nat
  OBVIOUS
<1>2. ASSUME NEW i \in K, NEW j \in 1..i PROVE j \in K
  <2>1. i \in Nat /\ j \in Nat /\ j <= i /\ j \in 1..Len(h) /\ Behind(h, i) >= n
    BY <1>1
  <2>2. Behind(h, i) \in Nat /\ Behind(h, j) \in Nat
    BY BehindFinite
  <2>3. Behind(h, i) <= Behind(h, j)
    BY <2>1, BehindOrder
  <2> QED BY <2>1, <2>2, <2>3
<1>3. K \in SUBSET (1..Len(h)) /\ \A i \in K : 1..i \subseteq K
  BY <1>2
<1>4. c \in 0..Len(h) /\ K = 1..c
  <2> HIDE DEF K
  <2> QED BY <1>1, <1>3, Beginning
<1>5. DropUsers(h, n) = SubSeq(h, 1, c)
  BY DEF DropUsers
<1>6. ASSUME c # 0 PROVE Behind(h, c) = n
  <2> HIDE DEF c
  <2>1. c \in K /\ c + 1 \notin K /\ c \in Nat
    <3> HIDE DEF K
    <3> QED BY <1>1, <1>4, <1>6
  <2>2. Behind(h, c) >= n /\ Behind(h, c) \in Nat /\ Behind(h, c + 1) \in Nat
    BY <2>1, BehindFinite
  <2>3. Behind(h, c) <= Behind(h, c + 1) + 1
    BY <2>1, BehindOrder
  <2>4. CASE c = Len(h)
    <3>1. BehindSet(h, c) = {}
      BY <1>1, <2>4 DEF BehindSet, Users
    <3>2. Behind(h, c) = 0
      BY <3>1, BehindFinite, FS_EmptySet
    <3> QED BY <2>2, <3>2
  <2>5. CASE c # Len(h)
    <3>1. c + 1 \in 1..Len(h)
      BY <1>1, <1>4, <2>5
    <3>2. Behind(h, c + 1) < n
      BY <2>1, <2>2, <3>1
    <3> QED BY <2>2, <2>3, <3>2
  <2> QED BY <2>4, <2>5
<1> HIDE DEF c, K
<1> QED BY <1>4, <1>5, <1>6

-----------------------------------------------------------------------------
(* The two lists agree after each thing the code does to them.             *)
LEMMA AskedNone == ASSUME NEW t PROVE AskedLast(t, <<>>)
BY DEF AskedLast, Users

(* Something other than a message at the end of either.                    *)
LEMMA AppendCounts ==
  ASSUME NEW S, NEW l \in Seq(S), NEW e \in S, NEW i \in 1..Len(l)
  PROVE  /\ e.kind # "user" => Users(Append(l, e)) = Users(l) /\ Behind(Append(l, e), i) = Behind(l, i)
         /\ e.kind = "user" =>
              /\ Users(Append(l, e)) = Users(l) \cup {Len(l) + 1}
              /\ Behind(Append(l, e), i) = Behind(l, i) + 1
         /\ Append(l, e)[i] = l[i]
<1> DEFINE k == Append(l, e)
<1>1. /\ k \in Seq(S) /\ Len(k) = Len(l) + 1 /\ Len(l) \in Nat /\ k[Len(l) + 1] = e
      /\ \A j \in 1..Len(l) : k[j] = l[j]
  OBVIOUS
<1> HIDE DEF k
<1>2. Len(l) \in Nat /\ IsFiniteSet(BehindSet(l, i))
      /\ Behind(l, i) = Cardinality(BehindSet(l, i)) /\ Behind(l, i) \in Nat
      /\ Behind(k, i) = Cardinality(BehindSet(k, i))
  BY <1>1, BehindFinite
<1>3. CASE e.kind # "user"
  <2>1. Users(k) = Users(l)
    BY <1>1, <1>3 DEF Users
  <2>2. Behind(k, i) = Behind(l, i)
    BY <2>1 DEF Behind
  <2> QED BY <1>1, <1>3, <2>1, <2>2 DEF k
<1>4. CASE e.kind = "user"
  <2>1. Users(k) = Users(l) \cup {Len(l) + 1}
    BY <1>1, <1>4 DEF Users
  <2>2. BehindSet(k, i) = BehindSet(l, i) \cup {Len(l) + 1} /\ Len(l) + 1 \notin BehindSet(l, i)
    BY <1>1, <2>1 DEF BehindSet, Users
  <2>3. Behind(k, i) = Behind(l, i) + 1
    BY <1>2, <2>2, FS_AddElement
  <2> QED BY <1>1, <1>4, <2>1, <2>3 DEF k
<1> QED BY <1>3, <1>4

LEMMA AskedAppends ==
  ASSUME NEW S, NEW T, NEW t \in Seq(S), NEW h \in Seq(T), AskedLast(t, h)
  PROVE  /\ \A e \in S : e.kind # "user" => AskedLast(Append(t, e), h)
         /\ \A e \in T : e.kind # "user" => AskedLast(t, Append(h, e))
<1>1. ASSUME NEW e \in S, e.kind # "user" PROVE AskedLast(Append(t, e), h)
  <2> DEFINE k == Append(t, e)
  <2>1. \A j \in Users(t) : j \in Users(k) /\ k[j] = t[j] /\ Behind(k, j) = Behind(t, j)
    BY <1>1, AppendCounts DEF Users
  <2> HIDE DEF k
  <2>2. AskedLast(k, h)
    BY <2>1 DEF AskedLast
  <2> QED BY <2>2 DEF k
<1>2. ASSUME NEW e \in T, e.kind # "user" PROVE AskedLast(t, Append(h, e))
  <2> DEFINE k == Append(h, e)
  <2>1. Users(k) = Users(h)
    <3>1. /\ Len(k) = Len(h) + 1 /\ Len(h) \in Nat /\ k[Len(h) + 1] = e
          /\ \A j \in 1..Len(h) : k[j] = h[j]
      OBVIOUS
    <3> HIDE DEF k
    <3> QED BY <1>2, <3>1 DEF Users
  <2>2. \A i \in Users(h) : k[i] = h[i] /\ Behind(k, i) = Behind(h, i)
    BY <1>2, AppendCounts DEF Users
  <2> HIDE DEF k
  <2>3. AskedLast(t, k)
    BY <2>1, <2>2 DEF AskedLast
  <2> QED BY <2>3 DEF k
<1> QED BY <1>1, <1>2

(* A message at the end of both.                                           *)
LEMMA AskedGrows ==
  ASSUME NEW S, NEW T, NEW t \in Seq(S), NEW h \in Seq(T), AskedLast(t, h),
         NEW e \in S, e \in T, e.kind = "user"
  PROVE  AskedLast(Append(t, e), Append(h, e))
<1> DEFINE p == Append(t, e)
           q == Append(h, e)
<1>1. /\ p \in Seq(S) /\ Len(p) = Len(t) + 1 /\ Len(t) \in Nat /\ p[Len(t) + 1] = e
      /\ q \in Seq(T) /\ Len(q) = Len(h) + 1 /\ Len(h) \in Nat /\ q[Len(h) + 1] = e
      /\ \A j \in 1..Len(t) : p[j] = t[j]
      /\ \A j \in 1..Len(h) : q[j] = h[j]
  OBVIOUS
<1>2. \A j \in 1..Len(t) : Behind(p, j) = Behind(t, j) + 1
  BY AppendCounts
<1>3. \A j \in 1..Len(h) : Behind(q, j) = Behind(h, j) + 1
  BY AppendCounts
<1> HIDE DEF p, q
<1>4. Behind(p, Len(t) + 1) = 0 /\ Behind(q, Len(h) + 1) = 0
  <2>1. BehindSet(p, Len(t) + 1) = {} /\ BehindSet(q, Len(h) + 1) = {}
    BY <1>1 DEF BehindSet, Users
  <2> QED BY <1>1, <2>1, BehindFinite, FS_EmptySet
<1>5. Len(t) + 1 \in Users(p)
  BY <1>1 DEF Users
<1>6. ASSUME NEW i \in Users(q)
      PROVE  \E j \in Users(p) : p[j].req = q[i].req /\ Behind(p, j) = Behind(q, i)
  <2>1. CASE i = Len(h) + 1
    BY <1>1, <1>4, <1>5, <2>1
  <2>2. CASE i # Len(h) + 1
    <3>1. i \in 1..Len(h) /\ i \in Users(h)
      BY <1>1, <2>2 DEF Users
    <3>2. PICK j \in Users(t) : t[j].req = h[i].req /\ Behind(t, j) = Behind(h, i)
      BY <3>1 DEF AskedLast
    <3>3. j \in 1..Len(t) /\ j \in Users(p)
      BY <1>1 DEF Users
    <3>4. p[j].req = q[i].req /\ Behind(p, j) = Behind(q, i)
      BY <1>1, <1>2, <1>3, <3>1, <3>2, <3>3
    <3> QED BY <3>3, <3>4
  <2> QED BY <2>1, <2>2
<1>7. AskedLast(p, q)
  BY <1>6 DEF AskedLast
<1> QED BY <1>7 DEF p, q

(* The oldest of the history trimmed.                                      *)
LEMMA AskedTrimmed ==
  ASSUME NEW S, NEW h \in Seq(S), NEW t, AskedLast(t, h), NEW limit \in Nat \ {0}
  PROVE  AskedLast(t, Newest(h, limit))
<1>1. CASE Len(h) <= limit
  BY <1>1 DEF Newest
<1>2. CASE Len(h) > limit
  <2> DEFINE d == Len(h) - limit
             k == Newest(h, limit)
  <2>1. k = SubSeq(h, d + 1, Len(h)) /\ d \in Nat
    BY <1>2 DEF Newest
  <2>2. k \in Seq(S)
    BY NewestTypes
  <2>3. Len(k) + d = Len(h) /\ \A i \in 1..Len(k) : k[i] = h[i + d]
    BY <1>2, <2>1
  <2> HIDE DEF k, d
  <2>4. ASSUME NEW i \in Users(k)
        PROVE  \E j \in Users(t) : t[j].req = k[i].req /\ Behind(t, j) = Behind(k, i)
    <3>1. i \in 1..Len(k) /\ Len(k) \in Nat /\ Len(h) \in Nat
      BY <2>2 DEF Users
    <3>2. k[i] = h[i + d] /\ i + d \in Users(h)
      BY <2>1, <2>3, <3>1 DEF Users
    <3>3. i \in 0..Len(k)
      BY <3>1
    <3>4. d \in Nat /\ Len(k) + d = Len(h) /\ \A x \in 1..Len(k) : k[x] = h[x + d]
      BY <2>1, <2>3
    <3>5. Behind(k, i) = Behind(h, i + d)
      BY <2>2, <3>3, <3>4, BehindSuffix
    <3>6. \E j \in Users(t) : t[j].req = h[i + d].req /\ Behind(t, j) = Behind(h, i + d)
      BY <3>2 DEF AskedLast
    <3> QED BY <3>2, <3>5, <3>6
  <2>5. AskedLast(t, k)
    BY <2>4 DEF AskedLast
  <2> QED BY <2>5 DEF k
<1>3. Len(h) \in Nat
  OBVIOUS
<1> QED BY <1>1, <1>2, <1>3

(* Both cut by a rewind: the transcript at an entry, the history by as     *)
(* many messages.                                                          *)
LEMMA AskedCut ==
  ASSUME NEW S, NEW T, NEW t \in Seq(S), NEW h \in Seq(T), AskedLast(t, h),
         NEW keep \in 0..Len(t)
  PROVE  AskedLast(SubSeq(t, 1, keep),
                   DropUsers(h, Cardinality(Users(SubSeq(t, keep + 1, Len(t))))))
<1> DEFINE cut == SubSeq(t, keep + 1, Len(t))
           n == Cardinality(Users(cut))
           p == SubSeq(t, 1, keep)
           q == DropUsers(h, n)
<1>0. Len(t) \in Nat /\ Len(h) \in Nat /\ keep \in Nat
  OBVIOUS
<1>1. p \in Seq(S) /\ Len(p) = keep /\ \A i \in 1..keep : p[i] = t[i]
  <2>1. p \in Seq(S) /\ Len(p) = keep
    BY PrefixTypes
  <2> QED BY <2>1
<1>2. cut \in Seq(S) /\ Len(cut) + keep = Len(t) /\ \A i \in 1..Len(cut) : cut[i] = t[i + keep]
  <2>1. \A i \in (keep + 1)..Len(t) : t[i] \in S
    BY <1>0
  <2> QED BY <1>0, <2>1, SubSeqProperties
<1> HIDE DEF cut
<1>3. n = Behind(t, keep)
  <2>1. 0 \in 0..Len(cut)
    BY <1>2
  <2>2. Behind(cut, 0) = Behind(t, 0 + keep)
    BY <1>0, <1>2, <2>1, BehindSuffix
  <2>3. BehindSet(cut, 0) = Users(cut)
    BY DEF BehindSet, Users
  <2>4. Behind(cut, 0) = n
    BY <1>2, <2>3, BehindFinite
  <2> QED BY <1>0, <2>2, <2>4
<1> HIDE DEF n, p
<1>4. n \in Nat
  BY <1>3, BehindFinite
<1>5. PICK c \in 0..Len(h) : q = SubSeq(h, 1, c) /\ (c # 0 => Behind(h, c) = n)
  BY <1>4, DropExact
<1>6. q \in Seq(T) /\ Len(q) = c /\ \A i \in 1..c : q[i] = h[i]
  <2>1. SubSeq(h, 1, c) \in Seq(T) /\ Len(SubSeq(h, 1, c)) = c
    BY PrefixTypes
  <2> QED BY <1>0, <1>5, <2>1
<1> HIDE DEF q
<1>7. ASSUME NEW i \in Users(q)
      PROVE  \E j \in Users(p) : p[j].req = q[i].req /\ Behind(p, j) = Behind(q, i)
  <2>1. i \in 1..c /\ i \in Users(h) /\ q[i] = h[i] /\ c # 0 /\ c \in Nat
    BY <1>0, <1>6 DEF Users
  <2>2. Behind(h, i) = Behind(q, i) + n
    <3>1. i \in 0..Len(q) /\ Len(q) <= Len(h) /\ \A x \in 1..Len(q) : q[x] = h[x]
      BY <1>0, <1>6, <2>1
    <3>2. Behind(h, i) = Behind(q, i) + Behind(h, Len(q))
      BY <1>6, <3>1, BehindPrefix
    <3> QED BY <1>5, <1>6, <2>1, <3>2
  <2>3. PICK j \in Users(t) : t[j].req = h[i].req /\ Behind(t, j) = Behind(h, i)
    BY <2>1 DEF AskedLast
  <2>4. Behind(t, j) \in Nat /\ Behind(q, i) \in Nat /\ Behind(t, keep) \in Nat
    BY <1>6, BehindFinite
  <2>5. j \in 1..Len(t) /\ j \in Nat
    BY DEF Users
  <2>6. j <= keep
    <3>1. keep < j => Behind(t, j) + 1 <= Behind(t, keep)
      BY <1>0, <2>5, BehindOrder
    <3> QED BY <1>0, <1>3, <2>2, <2>3, <2>4, <2>5, <3>1
  <2>7. j \in 1..keep /\ p[j] = t[j] /\ j \in Users(p)
    BY <1>0, <1>1, <2>5, <2>6 DEF Users
  <2>8. Behind(t, j) = Behind(p, j) + n
    <3>1. j \in 0..Len(p) /\ Len(p) <= Len(t) /\ \A x \in 1..Len(p) : p[x] = t[x]
      BY <1>0, <1>1, <2>7
    <3>2. Behind(t, j) = Behind(p, j) + Behind(t, Len(p))
      BY <1>1, <3>1, BehindPrefix
    <3> QED BY <1>1, <1>3, <3>2
  <2>9. Behind(p, j) \in Nat
    BY <1>1, BehindFinite
  <2>10. Behind(p, j) = Behind(q, i)
    BY <1>4, <2>2, <2>3, <2>4, <2>8, <2>9
  <2> QED BY <2>1, <2>3, <2>7, <2>10
<1>8. AskedLast(p, q)
  BY <1>7 DEF AskedLast
<1> QED BY <1>8 DEF p, q, n, cut

-----------------------------------------------------------------------------
(* A step that changes the lists of one conversation at most.              *)
LEMMA OneAsked ==
  ASSUME IInv, ModelSeesTheNewest, NEW s \in Sessions, NEW t, NEW h, Change(s, t, h) \/ Failed,
         AskedLast(t, h)
  PROVE  ModelSeesTheNewest'
BY DEF ModelSeesTheNewest, Change, Failed, files, IInv, FileTypes

LEMMA AskedStep ==
  ASSUME IInv, ModelSeesTheNewest, NEW r \in Requests,
         UserTurn(r) \/ (\E item : Item(r, item)) \/ SaveText(r) \/ Answered(r)
  PROVE  ModelSeesTheNewest'
<1> DEFINE s == run[r].session
           t == transcript[s]
           h == history[s]
<1>1. s \in Sessions
  BY DEF UserTurn, Item, SaveText, Answered, IInv, Assigned, Active
<1>2. t \in Seq(Shown) /\ h \in Seq(Replayed) /\ AskedLast(t, h)
  BY <1>1, SavedTypes DEF ModelSeesTheNewest
<1>3. /\ Entry(r, "user") \in Shown /\ Entry(r, "step") \in Shown /\ Entry(r, "text") \in Shown
      /\ Entry(r, "user") \in Replayed /\ Entry(r, "model") \in Replayed
      /\ Entry(r, "user").kind = "user" /\ Entry(r, "step").kind # "user"
      /\ Entry(r, "text").kind # "user" /\ Entry(r, "model").kind # "user"
  <2>1. /\ Entry(r, "user").kind = "user" /\ Entry(r, "step").kind # "user"
        /\ Entry(r, "text").kind # "user" /\ Entry(r, "model").kind # "user"
    BY DEF Entry
  <2> QED BY <2>1, EntryTypes
<1> HIDE DEF s, t, h
<1>4. ASSUME UNCHANGED files PROVE ModelSeesTheNewest'
  BY <1>4 DEF ModelSeesTheNewest, files
<1>5. CASE UserTurn(r)
  <2> DEFINE k == Append(h, Entry(r, "user"))
             p == Append(t, Entry(r, "user"))
  <2>1. AskedLast(p, k)
    BY <1>2, <1>3, AskedGrows
  <2>2. k \in Seq(Replayed)
    BY <1>2, <1>3
  <2>3. Change(s, p, Newest(k, MaxTurns)) \/ Failed
    BY <1>5 DEF UserTurn, s, t, h
  <2> HIDE DEF k, p
  <2>4. AskedLast(p, Newest(k, MaxTurns))
    BY <2>1, <2>2, AskedTrimmed, BoundsAssumption
  <2> QED BY <1>1, <2>3, <2>4, OneAsked
<1>6. CASE (\E item : Item(r, item)) \/ SaveText(r)
  <2>1. PICK kind \in {"step", "text"} : Change(s, Append(t, Entry(r, kind)), h) \/ UNCHANGED files
    BY <1>6 DEF Item, SaveText, Failed, s, t, h
  <2>2. AskedLast(Append(t, Entry(r, kind)), h)
    BY <1>2, <1>3, AskedAppends
  <2> QED BY <1>1, <1>4, <2>1, <2>2, OneAsked
<1>7. CASE Answered(r)
  <2>1. Change(s, t, Append(h, Entry(r, "model"))) \/ UNCHANGED files
    BY <1>7 DEF Answered, Failed, s, t, h
  <2>2. AskedLast(t, Append(h, Entry(r, "model")))
    BY <1>2, <1>3, AskedAppends
  <2> QED BY <1>1, <1>4, <2>1, <2>2, OneAsked
<1> QED BY <1>5, <1>6, <1>7

LEMMA AskedOwner ==
  ASSUME IInv, ModelSeesTheNewest, NEW s \in Sessions, Owner(s)
  PROVE  ModelSeesTheNewest'
<1>1. /\ transcript[s] \in Seq(Shown) /\ history[s] \in Seq(Replayed)
      /\ AskedLast(transcript[s], history[s])
  BY SavedTypes DEF ModelSeesTheNewest
<1>2. CASE Claim(s) \/ Stop(s)
  BY <1>2 DEF Claim, Stop, ModelSeesTheNewest, files
<1>3. CASE Settings(s)
  BY <1>1, <1>3, OneAsked DEF Settings
<1>4. CASE Remove(s)
  BY <1>4, AskedNone DEF Remove, ModelSeesTheNewest, IInv, FileTypes
<1>5. ASSUME NEW keep \in 0..Len(transcript[s]), Rewind(s, keep) PROVE ModelSeesTheNewest'
  <2> DEFINE p == SubSeq(transcript[s], 1, keep)
             q == DropUsers(history[s], Cardinality(Users(SubSeq(transcript[s], keep + 1, Len(transcript[s])))))
  <2>1. AskedLast(p, q)
    BY <1>1, AskedCut
  <2>2. Change(s, p, q) \/ Failed
    BY <1>5 DEF Rewind
  <2> HIDE DEF p, q
  <2> QED BY <2>1, <2>2, OneAsked
<1> QED BY <1>2, <1>3, <1>4, <1>5 DEF Owner

LEMMA AskedKeeps == IInv /\ ModelSeesTheNewest /\ [Next]_vars => ModelSeesTheNewest'
<1> SUFFICES ASSUME IInv, ModelSeesTheNewest, [Next]_vars PROVE ModelSeesTheNewest'
  OBVIOUS
<1>1. ASSUME UNCHANGED files PROVE ModelSeesTheNewest'
  BY <1>1 DEF ModelSeesTheNewest, files
<1>2. ASSUME NEW r \in Requests, Step(r) \/ Words(r) \/ Item(r, "tool") PROVE ModelSeesTheNewest'
  <2>1. CASE UserTurn(r) \/ (\E item : Item(r, item)) \/ SaveText(r) \/ Answered(r)
    BY <2>1, AskedStep
  <2>2. CASE \/ Ceiling(r) \/ SeeStop(r) \/ Ask(r) \/ CallFails(r) \/ EndOfReply(r) \/ Finish(r)
             \/ Words(r) \/ \E reply \in Replies : Reply(r, reply)
    BY <1>1, <2>2 DEF Ceiling, SeeStop, Ask, CallFails, EndOfReply, Finish, Words, Reply
  <2> QED BY <1>2, <2>1, <2>2 DEF Step
<1>3. CASE Restart \/ UNCHANGED vars
  BY <1>1, <1>3 DEF Restart, vars
<1> QED BY <1>2, <1>3, AskedOwner DEF Next

(* What the model is replayed are the newest of the owner's messages that  *)
(* are still shown, each once and in their order, whatever was rewound,    *)
(* trimmed, deleted or failed to be saved meanwhile                        *)
(* (assist/conversations.go:114-176).                                      *)
THEOREM SeesTheNewest == Spec => []ModelSeesTheNewest
<1>1. Init => ModelSeesTheNewest
  BY AskedNone DEF Init, ModelSeesTheNewest
<1> QED BY InvHolds, AskedKeeps, <1>1, PTL DEF Spec
=============================================================================
