--------------------------- MODULE NotesStore_proof ---------------------------
(***************************************************************************)
(* What NotesStore keeps, for all notes, writers and bounds.               *)
(*                                                                         *)
(* First the clash blocks, by induction over the lines of a text; then the *)
(* types, together with what a request has in hand while nothing crosses   *)
(* it; from it, that a save nobody crossed is the version its writer is    *)
(* told of, and that a request nobody crossed is as good as single steps.  *)
(***************************************************************************)
EXTENDS NotesStore, FiniteSetTheorems, SequenceTheorems, TLAPS

-----------------------------------------------------------------------------
(* Induction and recursion on the naturals, for sets and functions: what   *)
(* the proofs about data need, with no operator as a parameter.            *)

(* A set that has 0 and with a number the next one has every natural: the  *)
(* naturals up to n outside of it would move down by one into themselves,  *)
(* without n.                                                              *)
THEOREM NatSetInduction ==
  ASSUME NEW S, 0 \in S, \A n \in Nat : n \in S => n + 1 \in S
  PROVE  Nat \subseteq S
<1>1. SUFFICES ASSUME NEW n \in Nat, n \notin S
               PROVE  FALSE
  OBVIOUS
<1> DEFINE Outside == {x \in 0..n : x \notin S}
           Down == [x \in Outside |-> x - 1]
<1>2. n \in Outside
  BY <1>1
<1>3. /\ IsFiniteSet(Outside) /\ IsFiniteSet(Outside \ {n})
      /\ Cardinality(Outside) \in Nat
      /\ Cardinality(Outside \ {n}) = Cardinality(Outside) - 1
  <2>1. IsFiniteSet(0..n)
    BY FS_Interval
  <2>2. IsFiniteSet(Outside)
    BY <2>1, FS_Subset
  <2> HIDE DEF Outside
  <2> QED BY <2>2, <1>2, FS_RemoveElement, FS_CardinalityType
<1>4. Down \in [Outside -> Outside \ {n}]
  <2>1. ASSUME NEW x \in Outside
        PROVE  x - 1 \in Outside \ {n}
    <3>1. x \in Nat /\ x # 0 /\ x <= n
      OBVIOUS
    <3>2. x - 1 \in Nat /\ (x - 1) + 1 = x
      BY <3>1
    <3>3. x - 1 \notin S
      BY <3>2
    <3> QED BY <3>1, <3>2, <3>3
  <2> QED BY <2>1
<1>5. PICK x, y \in Outside : x # y /\ Down[x] = Down[y]
  <2> HIDE DEF Outside, Down
  <2>1. Cardinality(Outside \ {n}) < Cardinality(Outside)
    BY <1>3
  <2> QED BY <2>1, <1>3, <1>4, FS_PigeonHole
<1> QED BY <1>5

(* The same up to a bound.                                                 *)
THEOREM UpToInduction ==
  ASSUME NEW N \in Nat, NEW S, 0 \in S, \A n \in 1..N : n - 1 \in S => n \in S
  PROVE  0..N \subseteq S
<1> DEFINE T == {n \in Nat : n <= N => n \in S}
<1>1. 0 \in T
  OBVIOUS
<1>2. ASSUME NEW n \in Nat, n \in T
      PROVE  n + 1 \in T
  <2>1. CASE n + 1 <= N
    <3>1. n + 1 \in 1..N /\ (n + 1) - 1 = n /\ n \in S
      BY <2>1, <1>2
    <3> QED BY <3>1
  <2>2. CASE ~(n + 1 <= N)
    BY <2>2
  <2> QED BY <2>1, <2>2
<1>3. Nat \subseteq T
  <2> HIDE DEF T
  <2> QED BY <1>1, <1>2, NatSetInduction
<1> QED BY <1>3

(* f starts at base and takes step i from i - 1 to i, N times.             *)
Runs(f, N, base, step) == f[0] = base /\ \A i \in 1..N : f[i] = step[i][f[i - 1]]

(* A step on a set can be repeated from any start.                         *)
THEOREM RecursionUpTo ==
  ASSUME NEW N \in Nat, NEW S, NEW base \in S, NEW step \in [1..N -> [S -> S]]
  PROVE  \E f \in [0..N -> S] : Runs(f, N, base, step)
<1> DEFINE Of(n) == {f \in [0..n -> S] : /\ f[0] = base
                                         /\ \A i \in 1..n : f[i] = step[i][f[i - 1]]}
           T == {n \in 0..N : Of(n) # {}}
<1>1. 0 \in T
  <2>1. [i \in 0..0 |-> base] \in [0..0 -> S] /\ [i \in 0..0 |-> base][0] = base
    OBVIOUS
  <2>2. 1..0 = {}
    OBVIOUS
  <2>3. [i \in 0..0 |-> base] \in Of(0)
    BY <2>1, <2>2
  <2> QED BY <2>3
<1>2. ASSUME NEW n \in 1..N, n - 1 \in T
      PROVE  n \in T
  <2>1. PICK f \in [0..(n - 1) -> S] : f[0] = base /\ \A i \in 1..(n - 1) : f[i] = step[i][f[i - 1]]
    BY <1>2
  <2> DEFINE g == [i \in 0..n |-> IF i = n THEN step[n][f[n - 1]] ELSE f[i]]
  <2>2. n - 1 \in 0..(n - 1) /\ f[n - 1] \in S
    BY <2>1
  <2>3. step[n][f[n - 1]] \in S
    BY <2>2
  <2>4. g \in [0..n -> S]
    <3>1. ASSUME NEW i \in 0..n
          PROVE  g[i] \in S
      BY <2>1, <2>3
    <3> QED BY <3>1
  <2>5. g[0] = base
    BY <2>1
  <2>6. ASSUME NEW i \in 1..n
        PROVE  g[i] = step[i][g[i - 1]]
    <3>1. i - 1 \in 0..n /\ i - 1 # n /\ g[i - 1] = f[i - 1]
      OBVIOUS
    <3>2. CASE i = n
      BY <3>1, <3>2
    <3>3. CASE i # n
      <4>1. i \in 1..(n - 1)
        BY <3>3
      <4>2. g[i] = f[i]
        BY <3>3
      <4> QED BY <4>1, <4>2, <3>1, <2>1
    <3> QED BY <3>2, <3>3
  <2>7. g \in Of(n)
    <3> HIDE DEF g
    <3> QED BY <2>4, <2>5, <2>6
  <2> HIDE DEF g, Of
  <2> QED BY <2>7
<1>3. N \in T
  <2>1. 0..N \subseteq T
    <3> HIDE DEF T
    <3> QED BY <1>1, <1>2, UpToInduction
  <2> HIDE DEF T
  <2> QED BY <2>1
<1> QED BY <1>3 DEF Runs

-----------------------------------------------------------------------------
(* The blocks of a note: their types.                                      *)

BlockType == [part : {"out", "first", "second"},
              out : Seq(Line), first : Seq(Line), second : Seq(Line)]
Outside == [part |-> "out", out |-> <<>>, first |-> <<>>, second |-> <<>>]

LEMMA SettleLineType ==
  ASSUME NEW block \in BlockType, NEW line \in Line, NEW keep
  PROVE  SettleLine(block, line, keep) \in BlockType
<1>1. CASE block.part = "out" /\ line = Opens
  <2>1. SettleLine(block, line, keep) = [block EXCEPT !.part = "first", !.first = <<>>, !.second = <<>>]
    BY <1>1 DEF SettleLine
  <2>2. <<>> \in Seq(Line)
    OBVIOUS
  <2> QED BY <2>1, <2>2 DEF BlockType
<1>2. CASE block.part = "out" /\ line # Opens
  <2>1. Append(block.out, line) \in Seq(Line)
    BY DEF BlockType
  <2> QED BY <1>2, <2>1 DEF SettleLine, BlockType
<1>3. CASE block.part = "first" /\ line = Splits
  BY <1>3 DEF SettleLine, BlockType
<1>4. CASE block.part = "first" /\ line # Splits
  <2>1. Append(block.first, line) \in Seq(Line)
    BY DEF BlockType
  <2> QED BY <1>4, <2>1 DEF SettleLine, BlockType
<1>5. CASE block.part = "second" /\ line = Closes
  <2> DEFINE one == IF keep = "second" THEN <<>> ELSE block.first
             two == IF keep = "first" THEN <<>> ELSE block.second
  <2>1. one \in Seq(Line) /\ two \in Seq(Line) /\ block.out \in Seq(Line)
    BY DEF BlockType
  <2>2. block.out \o one \o two \in Seq(Line)
    <3> HIDE DEF one, two
    <3> QED BY <2>1
  <2>3. SettleLine(block, line, keep) = [block EXCEPT !.part = "out", !.out = block.out \o one \o two]
    BY <1>5 DEF SettleLine, BlockType
  <2> HIDE DEF one, two
  <2> QED BY <2>2, <2>3 DEF BlockType
<1>6. CASE block.part = "second" /\ line # Closes
  <2>1. Append(block.second, line) \in Seq(Line)
    BY DEF BlockType
  <2> QED BY <1>6, <2>1 DEF SettleLine, BlockType
<1> QED BY <1>1, <1>2, <1>3, <1>4, <1>5, <1>6 DEF BlockType

(* The lines of a text, read one after the other, lead from block to       *)
(* block: the recursion in Settled is what it says.                        *)
LEMMA Reading ==
  ASSUME NEW body \in Seq(Line), NEW keep
  PROVE  \E block \in [0..Len(body) -> BlockType] :
           /\ block[0] = Outside
           /\ \A i \in 1..Len(body) : block[i] = SettleLine(block[i - 1], body[i], keep)
           /\ Settled(body, keep) = block[Len(body)]
<1> DEFINE step == [i \in 1..Len(body) |-> [b \in BlockType |-> SettleLine(b, body[i], keep)]]
           Def(f) == [i \in 0..Len(body) |-> IF i = 0 THEN Outside ELSE SettleLine(f[i - 1], body[i], keep)]
           block == CHOOSE f : f = Def(f)
<1>0. Len(body) \in Nat
  OBVIOUS
<1>1. Outside \in BlockType
  BY DEF Outside, BlockType
<1>2. step \in [1..Len(body) -> [BlockType -> BlockType]]
  BY SettleLineType
<1>3. PICK f \in [0..Len(body) -> BlockType] : Runs(f, Len(body), Outside, step)
  <2> HIDE DEF step
  <2> QED BY <1>0, <1>1, <1>2, RecursionUpTo
<1>4. f = Def(f)
  <2>1. ASSUME NEW i \in 0..Len(body)
        PROVE  f[i] = IF i = 0 THEN Outside ELSE SettleLine(f[i - 1], body[i], keep)
    <3>1. CASE i = 0
      BY <3>1, <1>3 DEF Runs
    <3>2. CASE i # 0
      <4>1. i \in 1..Len(body) /\ f[i - 1] \in BlockType
        BY <3>2, <1>0
      <4>2. f[i] = step[i][f[i - 1]]
        <5> HIDE DEF step
        <5> QED BY <4>1, <1>3 DEF Runs
      <4> QED BY <3>2, <4>1, <4>2
    <3> QED BY <3>1, <3>2
  <2> QED BY <2>1
<1>5. block = Def(block)
  <2>1. \E g : g = Def(g)
    BY <1>4
  <2> HIDE DEF Def
  <2> QED BY <2>1, Zenon
<1>6. Settled(body, keep) = block[Len(body)]
  BY DEF Settled, Outside
<1>7. /\ block = [i \in 0..Len(body) |-> block[i]]
      /\ block[0] = Outside
      /\ \A i \in 1..Len(body) : block[i] = SettleLine(block[i - 1], body[i], keep)
  <2>1. ASSUME NEW g, g = Def(g)
        PROVE  /\ g = [i \in 0..Len(body) |-> g[i]]
               /\ g[0] = Outside
               /\ \A i \in 1..Len(body) : g[i] = SettleLine(g[i - 1], body[i], keep)
    BY <2>1
  <2> HIDE DEF block, Def
  <2> QED BY <1>5, <2>1
<1>8. block \in [0..Len(body) -> BlockType]
  <2> DEFINE T == {i \in 0..Len(body) : block[i] \in BlockType}
  <2> HIDE DEF block
  <2>1. 0 \in T
    BY <1>1, <1>7
  <2>2. ASSUME NEW i \in 1..Len(body), i - 1 \in T
        PROVE  i \in T
    BY <2>2, <1>7, SettleLineType
  <2>3. 0..Len(body) \subseteq T
    <3> HIDE DEF T
    <3> QED BY <2>1, <2>2, UpToInduction, SMTT(40)
  <2> QED BY <2>3, <1>7
<1> QED
  <2> HIDE DEF block
  <2> QED BY <1>6, <1>7, <1>8

LEMMA WordsAppend ==
  ASSUME NEW s \in Seq(Line), NEW x \in Line
  PROVE  Words(Append(s, x)) = Words(s) \cup ({x} \ Marks)
<1>1. /\ DOMAIN s = 1..Len(s) /\ DOMAIN Append(s, x) = 1..(Len(s) + 1) /\ Len(s) \in Nat
      /\ \A i \in 1..Len(s) : Append(s, x)[i] = s[i]
      /\ Append(s, x)[Len(s) + 1] = x
  OBVIOUS
<1>2. ToSet(Append(s, x)) = ToSet(s) \cup {x}
  <2>1. \A y \in ToSet(Append(s, x)) : y \in ToSet(s) \cup {x}
    <3>1. TAKE y \in ToSet(Append(s, x))
    <3>2. PICK i \in 1..(Len(s) + 1) : y = Append(s, x)[i]
      BY <1>1 DEF ToSet
    <3>3. CASE i \in 1..Len(s)
      BY <3>2, <3>3, <1>1 DEF ToSet
    <3>4. CASE i = Len(s) + 1
      BY <3>2, <3>4, <1>1
    <3> QED BY <3>3, <3>4, <1>1
  <2>2. \A y \in ToSet(s) : y \in ToSet(Append(s, x))
    <3>1. TAKE y \in ToSet(s)
    <3>2. PICK i \in 1..Len(s) : y = s[i]
      BY <1>1 DEF ToSet
    <3>3. i \in 1..(Len(s) + 1) /\ y = Append(s, x)[i]
      BY <3>2, <1>1
    <3> QED BY <3>3, <1>1 DEF ToSet
  <2>3. x \in ToSet(Append(s, x))
    <3>1. Len(s) + 1 \in 1..(Len(s) + 1)
      BY <1>1
    <3> QED BY <3>1, <1>1 DEF ToSet
  <2> QED BY <2>1, <2>2, <2>3
<1> QED BY <1>2 DEF Words

LEMMA WordsConcat ==
  ASSUME NEW s \in Seq(Line), NEW t \in Seq(Line)
  PROVE  Words(s \o t) = Words(s) \cup Words(t)
<1>1. /\ DOMAIN s = 1..Len(s) /\ DOMAIN t = 1..Len(t) /\ Len(s) \in Nat /\ Len(t) \in Nat
      /\ DOMAIN (s \o t) = 1..(Len(s) + Len(t))
      /\ \A i \in 1..Len(s) : (s \o t)[i] = s[i]
  OBVIOUS
<1>2. \A i \in 1..Len(t) : (s \o t)[Len(s) + i] = t[i]
  OBVIOUS
<1>3. ToSet(s \o t) = ToSet(s) \cup ToSet(t)
  <2>1. \A y \in ToSet(s \o t) : y \in ToSet(s) \cup ToSet(t)
    <3>1. TAKE y \in ToSet(s \o t)
    <3>2. PICK i \in 1..(Len(s) + Len(t)) : y = (s \o t)[i]
      BY <1>1 DEF ToSet
    <3>3. CASE i <= Len(s)
      <4>1. i \in 1..Len(s) /\ y = s[i]
        BY <3>2, <3>3, <1>1
      <4> QED BY <4>1, <1>1 DEF ToSet
    <3>4. CASE ~(i <= Len(s))
      <4>1. i - Len(s) \in 1..Len(t) /\ Len(s) + (i - Len(s)) = i
        BY <3>4, <1>1
      <4>2. y = t[i - Len(s)]
        BY <4>1, <3>2, <1>2
      <4> QED BY <4>1, <4>2, <1>1 DEF ToSet
    <3> QED BY <3>3, <3>4
  <2>2. \A y \in ToSet(s) : y \in ToSet(s \o t)
    <3>1. TAKE y \in ToSet(s)
    <3>2. PICK i \in 1..Len(s) : y = s[i]
      BY <1>1 DEF ToSet
    <3>3. i \in 1..(Len(s) + Len(t)) /\ y = (s \o t)[i]
      BY <3>2, <1>1
    <3> QED BY <3>3, <1>1 DEF ToSet
  <2>3. \A y \in ToSet(t) : y \in ToSet(s \o t)
    <3>1. TAKE y \in ToSet(t)
    <3>2. PICK i \in 1..Len(t) : y = t[i]
      BY <1>1 DEF ToSet
    <3>3. Len(s) + i \in 1..(Len(s) + Len(t)) /\ y = (s \o t)[Len(s) + i]
      BY <3>2, <1>1, <1>2
    <3> QED BY <3>3, <1>1 DEF ToSet
  <2> QED BY <2>1, <2>2, <2>3
<1> QED BY <1>3 DEF Words

LEMMA WordsNone == Words(<<>>) = {}
BY DEF Words, ToSet

(* What a block has in hand: its lines outside, and the sides while open.  *)
InHand(block) == Words(block.out) \cup (IF block.part = "out" THEN {} ELSE Words(block.first) \cup Words(block.second))

LEMMA SettleLineKeeps ==
  ASSUME NEW block \in BlockType, NEW line \in Line, NEW keep,
         NEW next, next = SettleLine(block, line, keep)
  PROVE  /\ InHand(next) \subseteq InHand(block) \cup ({line} \ Marks)
         /\ keep = "both" => InHand(block) \cup ({line} \ Marks) \subseteq InHand(next)
<1>0. block.out \in Seq(Line) /\ block.first \in Seq(Line) /\ block.second \in Seq(Line)
  BY DEF BlockType
<1>1. CASE block.part = "out" /\ line = Opens
  <2>1. next = [block EXCEPT !.part = "first", !.first = <<>>, !.second = <<>>]
    BY <1>1 DEF SettleLine
  <2>2. /\ next.part = "first" /\ next.out = block.out
        /\ next.first = <<>> /\ next.second = <<>>
    BY <2>1 DEF BlockType
  <2>3. {line} \ Marks = {}
    BY <1>1 DEF Marks
  <2> QED BY <1>1, <2>2, <2>3, WordsNone DEF InHand
<1>2. CASE block.part = "out" /\ line # Opens
  <2>1. next = [block EXCEPT !.out = Append(block.out, line)]
    BY <1>2 DEF SettleLine
  <2>2. next.part = "out" /\ next.out = Append(block.out, line)
    BY <1>2, <2>1 DEF BlockType
  <2> QED BY <1>0, <1>2, <2>2, WordsAppend DEF InHand
<1>3. CASE block.part = "first" /\ line = Splits
  <2>1. next = [block EXCEPT !.part = "second"]
    BY <1>3 DEF SettleLine
  <2>2. /\ next.part = "second" /\ next.out = block.out
        /\ next.first = block.first /\ next.second = block.second
    BY <2>1 DEF BlockType
  <2>3. {line} \ Marks = {}
    BY <1>3 DEF Marks
  <2> QED BY <1>3, <2>2, <2>3 DEF InHand
<1>4. CASE block.part = "first" /\ line # Splits
  <2>1. next = [block EXCEPT !.first = Append(block.first, line)]
    BY <1>4 DEF SettleLine
  <2>2. /\ next.part = "first" /\ next.out = block.out
        /\ next.first = Append(block.first, line) /\ next.second = block.second
    BY <1>4, <2>1 DEF BlockType
  <2> QED BY <1>0, <1>4, <2>2, WordsAppend DEF InHand
<1>5. CASE block.part = "second" /\ line = Closes
  <2> DEFINE one == IF keep = "second" THEN <<>> ELSE block.first
             two == IF keep = "first" THEN <<>> ELSE block.second
  <2>1. next = [block EXCEPT !.part = "out", !.out = block.out \o one \o two]
    BY <1>5 DEF SettleLine
  <2>2. next.part = "out" /\ next.out = block.out \o one \o two
    <3> HIDE DEF one, two
    <3> QED BY <2>1 DEF BlockType
  <2>3. /\ Words(one) \subseteq Words(block.first) /\ Words(two) \subseteq Words(block.second)
        /\ keep = "both" => one = block.first /\ two = block.second
    BY WordsNone
  <2>4. one \in Seq(Line) /\ two \in Seq(Line)
    BY <1>0
  <2>5. Words(block.out \o one \o two) = Words(block.out) \cup Words(one) \cup Words(two)
    <3> HIDE DEF one, two
    <3>1. block.out \o one \in Seq(Line)
      BY <1>0, <2>4
    <3> QED BY <1>0, <2>4, <3>1, WordsConcat
  <2>6. {line} \ Marks = {}
    BY <1>5 DEF Marks
  <2> HIDE DEF one, two
  <2> QED BY <1>5, <2>2, <2>3, <2>5, <2>6 DEF InHand
<1>6. CASE block.part = "second" /\ line # Closes
  <2>1. next = [block EXCEPT !.second = Append(block.second, line)]
    BY <1>6 DEF SettleLine
  <2>2. /\ next.part = "second" /\ next.out = block.out
        /\ next.first = block.first /\ next.second = Append(block.second, line)
    BY <1>6, <2>1 DEF BlockType
  <2> QED BY <1>0, <1>6, <2>2, WordsAppend DEF InHand
<1> QED BY <1>1, <1>2, <1>3, <1>4, <1>5, <1>6 DEF BlockType

(* What a block settles to, and that no side's line is lost or made up.    *)
LEMMA SettleFacts ==
  ASSUME NEW body \in Seq(Line), NEW keep
  PROVE  /\ Settle(body, keep) \in Seq(Line)
         /\ Words(Settle(body, keep)) \subseteq Words(body)
         /\ keep = "both" => Words(Settle(body, keep)) = Words(body)
<1>0. /\ Len(body) \in Nat /\ DOMAIN body = 1..Len(body)
      /\ \A i \in 1..Len(body) : body[i] \in Line
  OBVIOUS
<1>1. PICK block \in [0..Len(body) -> BlockType] :
        /\ block[0] = Outside
        /\ \A i \in 1..Len(body) : block[i] = SettleLine(block[i - 1], body[i], keep)
        /\ Settled(body, keep) = block[Len(body)]
  BY Reading
<1> DEFINE Read(i) == {body[j] : j \in 1..i} \ Marks
           T == {i \in 0..Len(body) : /\ InHand(block[i]) \subseteq Read(i)
                                      /\ keep = "both" => Read(i) \subseteq InHand(block[i])}
<1>2. 0 \in T
  <2>1. InHand(block[0]) = {}
    BY <1>1, WordsNone DEF InHand, Outside
  <2>2. Read(0) = {}
    OBVIOUS
  <2> QED BY <1>0, <2>1, <2>2
<1>3. ASSUME NEW i \in 1..Len(body), i - 1 \in T
      PROVE  i \in T
  <2>1. i - 1 \in 0..Len(body) /\ block[i - 1] \in BlockType /\ body[i] \in Line
    BY <1>0
  <2>2. /\ InHand(block[i]) \subseteq InHand(block[i - 1]) \cup ({body[i]} \ Marks)
        /\ keep = "both" => InHand(block[i - 1]) \cup ({body[i]} \ Marks) \subseteq InHand(block[i])
    BY <2>1, <1>1, SettleLineKeeps
  <2>3. Read(i) = Read(i - 1) \cup ({body[i]} \ Marks)
    BY <1>0
  <2> HIDE DEF Read
  <2> QED BY <1>3, <2>2, <2>3
<1>4. Len(body) \in T
  <2>1. 0..Len(body) \subseteq T
    <3> HIDE DEF T
    <3> QED BY <1>0, <1>2, <1>3, UpToInduction
  <2> HIDE DEF T
  <2> QED BY <1>0, <2>1
<1> DEFINE last == block[Len(body)]
<1>5. last \in BlockType
  BY <1>0
<1>6. Read(Len(body)) = Words(body)
  BY <1>0 DEF Words, ToSet
<1>7. Settle(body, keep) = IF last.part = "out" THEN last.out ELSE last.out \o last.first \o last.second
  BY <1>1 DEF Settle
<1>8. last.out \in Seq(Line) /\ last.first \in Seq(Line) /\ last.second \in Seq(Line)
  BY <1>5 DEF BlockType
<1>9. /\ last.out \o last.first \o last.second \in Seq(Line)
      /\ Words(last.out \o last.first \o last.second) = Words(last.out) \cup Words(last.first) \cup Words(last.second)
  <2> HIDE DEF last
  <2>1. last.out \o last.first \in Seq(Line)
    BY <1>8
  <2>2. (last.out \o last.first) \o last.second \in Seq(Line)
    BY <2>1, <1>8
  <2> QED BY <1>8, <2>1, <2>2, WordsConcat
<1>10. Words(Settle(body, keep)) = InHand(last)
  <2> HIDE DEF last
  <2> QED BY <1>7, <1>9 DEF InHand
<1>11. Settle(body, keep) \in Seq(Line)
  <2> HIDE DEF last
  <2> QED BY <1>7, <1>8, <1>9
<1>12. InHand(last) \subseteq Read(Len(body)) /\ (keep = "both" => Read(Len(body)) \subseteq InHand(last))
  BY <1>4
<1> HIDE DEF last, Read, T
<1> QED BY <1>6, <1>10, <1>11, <1>12, SMTT(40)

(* Settling a text of any length and with blocks however nested or left    *)
(* open, "both" keeps every line of the owner's and makes none up          *)
(* (notes_store.py:379-400).                                               *)
THEOREM BothKeepsEveryLine ==
  \A body \in Seq(Line) : Words(Settle(body, "both")) = Words(body)
BY SettleFacts

(* The owner's lines of a text, read one after the other, and what one     *)
(* more line adds.                                                         *)
LEMMA OwnReading ==
  ASSUME NEW body \in Seq(Line)
  PROVE  \E own \in [0..Len(body) -> Seq(Line)] :
           /\ own[0] = <<>>
           /\ \A i \in 1..Len(body) : own[i] = OwnLine(own[i - 1], body[i])
           /\ OwnLines(body) = own[Len(body)]
<1> DEFINE step == [i \in 1..Len(body) |-> [b \in Seq(Line) |-> OwnLine(b, body[i])]]
           Def(f) == [i \in 0..Len(body) |->
                        IF i = 0 THEN <<>> ELSE OwnLine(f[i - 1], body[i])]
           own == CHOOSE f : f = Def(f)
<1>0. Len(body) \in Nat /\ <<>> \in Seq(Line)
  OBVIOUS
<1>1. ASSUME NEW b \in Seq(Line), NEW i \in 1..Len(body)
      PROVE  OwnLine(b, body[i]) \in Seq(Line)
  <2>1. Append(b, body[i]) \in Seq(Line)
    OBVIOUS
  <2> QED BY <2>1 DEF OwnLine
<1>2. step \in [1..Len(body) -> [Seq(Line) -> Seq(Line)]]
  BY <1>1
<1>3. PICK f \in [0..Len(body) -> Seq(Line)] : Runs(f, Len(body), <<>>, step)
  <2> HIDE DEF step
  <2> QED BY <1>0, <1>2, RecursionUpTo
<1>4. f = Def(f)
  <2>1. ASSUME NEW i \in 0..Len(body)
        PROVE  f[i] = IF i = 0 THEN <<>> ELSE OwnLine(f[i - 1], body[i])
    <3>1. CASE i = 0
      BY <3>1, <1>3 DEF Runs
    <3>2. CASE i # 0
      <4>1. i \in 1..Len(body) /\ f[i - 1] \in Seq(Line)
        BY <3>2, <1>0
      <4>2. f[i] = step[i][f[i - 1]]
        <5> HIDE DEF step
        <5> QED BY <4>1, <1>3 DEF Runs
      <4>3. step[i][f[i - 1]] = OwnLine(f[i - 1], body[i])
        BY <4>1
      <4> QED BY <3>2, <4>2, <4>3
    <3> QED BY <3>1, <3>2
  <2> QED BY <2>1
<1>5. own = Def(own)
  <2>1. \E g : g = Def(g)
    BY <1>4
  <2> HIDE DEF Def
  <2> QED BY <2>1, Zenon
<1>6. OwnLines(body) = own[Len(body)]
  BY DEF OwnLines
<1>7. /\ own = [i \in 0..Len(body) |-> own[i]]
      /\ own[0] = <<>>
      /\ \A i \in 1..Len(body) : own[i] = OwnLine(own[i - 1], body[i])
  <2>1. ASSUME NEW g, g = Def(g)
        PROVE  /\ g = [i \in 0..Len(body) |-> g[i]]
               /\ g[0] = <<>>
               /\ \A i \in 1..Len(body) : g[i] = OwnLine(g[i - 1], body[i])
    BY <2>1
  <2> HIDE DEF own, Def
  <2> QED BY <1>5, <2>1
<1>8. own \in [0..Len(body) -> Seq(Line)]
  <2> DEFINE T == {i \in 0..Len(body) : own[i] \in Seq(Line)}
  <2> HIDE DEF own
  <2>0. own[0] = <<>> /\ \A i \in 1..Len(body) : own[i] = OwnLine(own[i - 1], body[i])
    BY <1>7
  <2>1. 0 \in T
    <3>1. own[0] \in Seq(Line)
      BY <1>0, <2>0, Zenon
    <3>2. 0 \in 0..Len(body)
      BY <1>0
    <3> QED BY <3>1, <3>2, Zenon
  <2>2. ASSUME NEW i \in 1..Len(body), i - 1 \in T
        PROVE  i \in T
    <3>1. own[i - 1] \in Seq(Line) /\ i \in 0..Len(body)
      BY <2>2, <1>0
    <3>2. own[i] \in Seq(Line)
      BY <1>1, <2>0, <3>1
    <3> QED BY <3>1, <3>2
  <2>3. 0..Len(body) \subseteq T
    <3> HIDE DEF T
    <3> QED BY <1>0, <2>1, <2>2, UpToInduction
  <2> QED BY <2>3, <1>7
<1> QED
  <2> HIDE DEF own
  <2> QED BY <1>6, <1>7, <1>8

LEMMA OwnAppend ==
  ASSUME NEW s \in Seq(Line), NEW x \in Line
  PROVE  OwnLines(Append(s, x)) = OwnLine(OwnLines(s), x)
<1> DEFINE t == Append(s, x)
<1>1. /\ Len(s) \in Nat /\ t \in Seq(Line) /\ Len(t) = Len(s) + 1 /\ t[Len(s) + 1] = x
      /\ \A i \in 1..Len(s) : t[i] = s[i]
  OBVIOUS
<1> HIDE DEF t
<1>2. PICK a \in [0..Len(s) -> Seq(Line)] :
        /\ a[0] = <<>> /\ \A i \in 1..Len(s) : a[i] = OwnLine(a[i - 1], s[i])
        /\ OwnLines(s) = a[Len(s)]
  BY OwnReading
<1>3. PICK b \in [0..Len(t) -> Seq(Line)] :
        /\ b[0] = <<>> /\ \A i \in 1..Len(t) : b[i] = OwnLine(b[i - 1], t[i])
        /\ OwnLines(t) = b[Len(t)]
  BY <1>1, OwnReading
<1> DEFINE T == {i \in 0..Len(s) : a[i] = b[i]}
<1>4. 0 \in T
  BY <1>1, <1>2, <1>3
<1>5. ASSUME NEW i \in 1..Len(s), i - 1 \in T PROVE i \in T
  <2>1. i \in 1..Len(t) /\ t[i] = s[i] /\ a[i - 1] = b[i - 1] /\ i \in 0..Len(s)
    BY <1>1, <1>5
  <2>2. a[i] = OwnLine(a[i - 1], s[i]) /\ b[i] = OwnLine(b[i - 1], t[i])
    BY <1>2, <1>3, <2>1
  <2> QED BY <2>1, <2>2
<1>6. Len(s) \in T
  <2>1. 0..Len(s) \subseteq T
    <3> HIDE DEF T
    <3> QED BY <1>1, <1>4, <1>5, UpToInduction
  <2> QED BY <1>1, <2>1
<1>7. b[Len(s) + 1] = OwnLine(b[Len(s)], x)
  <2>1. Len(s) + 1 \in 1..Len(t) /\ (Len(s) + 1) - 1 = Len(s)
    BY <1>1
  <2> QED BY <1>1, <1>3, <2>1
<1>8. OwnLines(t) = OwnLine(OwnLines(s), x)
  BY <1>1, <1>2, <1>3, <1>6, <1>7
<1> QED BY <1>8 DEF t

LEMMA OwnNone == OwnLines(<<>>) = <<>>
<1>1. <<>> \in Seq(Line) /\ Len(<<>>) = 0
  OBVIOUS
<1> QED BY <1>1, OwnReading

LEMMA AppendAfter ==
  ASSUME NEW s \in Seq(Line), NEW t \in Seq(Line), NEW x \in Line
  PROVE  s \o Append(t, x) = Append(s \o t, x)
<1> DEFINE a == s \o Append(t, x)
           b == Append(s \o t, x)
<1>1. /\ Append(t, x) \in Seq(Line) /\ Len(Append(t, x)) = Len(t) + 1
      /\ Append(t, x)[Len(t) + 1] = x /\ \A i \in 1..Len(t) : Append(t, x)[i] = t[i]
      /\ s \o t \in Seq(Line) /\ Len(s \o t) = Len(s) + Len(t)
      /\ Len(s) \in Nat /\ Len(t) \in Nat
  OBVIOUS
<1>2. /\ a \in Seq(Line) /\ Len(a) = Len(s) + Len(t) + 1
      /\ b \in Seq(Line) /\ Len(b) = Len(s) + Len(t) + 1
  BY <1>1
<1>3. ASSUME NEW i \in 1..(Len(s) + Len(t) + 1) PROVE a[i] = b[i]
  BY <1>1
<1> HIDE DEF a, b
<1>4. a = b
  BY <1>1, <1>2, <1>3, SeqEqual
<1> QED BY <1>4 DEF a, b

(* What settle has read of a text, when it keeps both sides.               *)
Held(block) ==
  IF block.part = "out" THEN block.out ELSE block.out \o block.first \o block.second

LEMMA HeldStep ==
  ASSUME NEW block \in BlockType, NEW line \in Line,
         block.part = "first" => block.second = <<>>,
         NEW next, next = SettleLine(block, line, "both")
  PROVE  /\ next.part = "first" => next.second = <<>>
         /\ Held(block) \in Seq(Line)
         /\ OwnLines(Held(next)) = OwnLine(OwnLines(Held(block)), line)
<1>0. /\ block.out \in Seq(Line) /\ block.first \in Seq(Line) /\ block.second \in Seq(Line)
      /\ block.part \in {"out", "first", "second"}
  BY DEF BlockType
<1>1. Held(block) \in Seq(Line)
  <2>1. block.out \o block.first \o block.second \in Seq(Line)
    BY <1>0
  <2> QED BY <1>0, <2>1 DEF Held
<1>2. /\ next.part = "first" => next.second = <<>>
      /\ \/ Held(next) = Held(block) /\ line \in Marks
         \/ Held(next) = Append(Held(block), line)
  <2>1. CASE block.part = "out" /\ line = Opens
    <3>1. next = [block EXCEPT !.part = "first", !.first = <<>>, !.second = <<>>]
      BY <2>1 DEF SettleLine
    <3>2. next.part = "first" /\ next.out = block.out /\ next.first = <<>> /\ next.second = <<>>
      BY <3>1 DEF BlockType
    <3>3. Held(next) = block.out \o <<>> \o <<>>
      BY <3>2 DEF Held
    <3>4. block.out \o <<>> \o <<>> = block.out
      BY <1>0
    <3> QED BY <2>1, <3>2, <3>3, <3>4 DEF Held, Marks
  <2>2. CASE block.part = "out" /\ line # Opens
    <3>1. next = [block EXCEPT !.out = Append(block.out, line)]
      BY <2>2 DEF SettleLine
    <3>2. next.part = "out" /\ next.out = Append(block.out, line)
      BY <2>2, <3>1 DEF BlockType
    <3> QED BY <2>2, <3>2 DEF Held
  <2>3. CASE block.part = "first" /\ line = Splits
    <3>1. next = [block EXCEPT !.part = "second"]
      BY <2>3 DEF SettleLine
    <3>2. /\ next.part = "second" /\ next.out = block.out
          /\ next.first = block.first /\ next.second = block.second
      BY <3>1 DEF BlockType
    <3> QED BY <2>3, <3>2 DEF Held, Marks
  <2>4. CASE block.part = "first" /\ line # Splits
    <3>1. next = [block EXCEPT !.first = Append(block.first, line)]
      BY <2>4 DEF SettleLine
    <3>2. /\ next.part = "first" /\ next.out = block.out
          /\ next.first = Append(block.first, line) /\ next.second = <<>> /\ block.second = <<>>
      BY <2>4, <3>1 DEF BlockType
    <3>3. block.out \o Append(block.first, line) \o <<>> = Append(block.out \o block.first \o <<>>, line)
      <4>1. block.out \o block.first \in Seq(Line) /\ block.out \o Append(block.first, line) \in Seq(Line)
        BY <1>0
      <4>2. block.out \o Append(block.first, line) = Append(block.out \o block.first, line)
        BY <1>0, AppendAfter
      <4>3. /\ (block.out \o block.first) \o <<>> = block.out \o block.first
            /\ (block.out \o Append(block.first, line)) \o <<>> = block.out \o Append(block.first, line)
        BY <4>1
      <4> QED BY <4>2, <4>3
    <3>4. Held(next) = block.out \o Append(block.first, line) \o <<>>
      BY <3>2 DEF Held
    <3>5. Held(block) = block.out \o block.first \o <<>>
      BY <2>4, <3>2 DEF Held
    <3> QED BY <3>2, <3>3, <3>4, <3>5
  <2>5. CASE block.part = "second" /\ line = Closes
    <3>1. next = [block EXCEPT !.part = "out", !.out = block.out \o block.first \o block.second]
      BY <2>5 DEF SettleLine
    <3>2. next.part = "out" /\ next.out = block.out \o block.first \o block.second
      BY <3>1 DEF BlockType
    <3> QED BY <2>5, <3>2 DEF Held, Marks
  <2>6. CASE block.part = "second" /\ line # Closes
    <3>1. next = [block EXCEPT !.second = Append(block.second, line)]
      BY <2>6 DEF SettleLine
    <3>2. /\ next.part = "second" /\ next.out = block.out
          /\ next.first = block.first /\ next.second = Append(block.second, line)
      BY <2>6, <3>1 DEF BlockType
    <3>3. block.out \o block.first \o Append(block.second, line)
            = Append(block.out \o block.first \o block.second, line)
      <4>1. block.out \o block.first \in Seq(Line)
        BY <1>0
      <4> QED BY <1>0, <4>1, AppendAfter
    <3>4. Held(next) = block.out \o block.first \o Append(block.second, line)
      BY <3>2 DEF Held
    <3>5. Held(block) = block.out \o block.first \o block.second
      BY <2>6 DEF Held
    <3> QED BY <3>2, <3>3, <3>4, <3>5
  <2> QED BY <1>0, <2>1, <2>2, <2>3, <2>4, <2>5, <2>6
<1>3. CASE Held(next) = Held(block) /\ line \in Marks
  BY <1>1, <1>2, <1>3 DEF OwnLine
<1>4. CASE Held(next) = Append(Held(block), line)
  BY <1>1, <1>2, <1>4, OwnAppend
<1> QED BY <1>2, <1>3, <1>4

(* Both sides kept, the owner's lines stay, in their order.                *)
LEMMA BothInOrder ==
  ASSUME NEW body \in Seq(Line)
  PROVE  OwnLines(Settle(body, "both")) = OwnLines(body)
<1>0. Len(body) \in Nat /\ \A i \in 1..Len(body) : body[i] \in Line
  OBVIOUS
<1>1. PICK block \in [0..Len(body) -> BlockType] :
        /\ block[0] = Outside
        /\ \A i \in 1..Len(body) : block[i] = SettleLine(block[i - 1], body[i], "both")
        /\ Settled(body, "both") = block[Len(body)]
  BY Reading
<1>2. PICK own \in [0..Len(body) -> Seq(Line)] :
        /\ own[0] = <<>> /\ \A i \in 1..Len(body) : own[i] = OwnLine(own[i - 1], body[i])
        /\ OwnLines(body) = own[Len(body)]
  BY OwnReading
<1> DEFINE T == {i \in 0..Len(body) : /\ OwnLines(Held(block[i])) = own[i]
                                      /\ block[i].part = "first" => block[i].second = <<>>}
<1>3. 0 \in T
  <2>1. Held(Outside) = <<>> /\ Outside.part = "out"
    BY DEF Held, Outside
  <2> QED BY <1>0, <1>1, <1>2, <2>1, OwnNone
<1>4. ASSUME NEW i \in 1..Len(body), i - 1 \in T PROVE i \in T
  <2>1. /\ i - 1 \in 0..Len(body) /\ i \in 0..Len(body)
        /\ block[i - 1] \in BlockType /\ body[i] \in Line
        /\ block[i - 1].part = "first" => block[i - 1].second = <<>>
        /\ OwnLines(Held(block[i - 1])) = own[i - 1]
    BY <1>0, <1>4
  <2>2. block[i] = SettleLine(block[i - 1], body[i], "both") /\ own[i] = OwnLine(own[i - 1], body[i])
    BY <1>1, <1>2
  <2>3. /\ block[i].part = "first" => block[i].second = <<>>
        /\ OwnLines(Held(block[i])) = OwnLine(OwnLines(Held(block[i - 1])), body[i])
    BY <2>1, <2>2, HeldStep
  <2> QED BY <2>1, <2>2, <2>3
<1>5. Len(body) \in T
  <2>1. 0..Len(body) \subseteq T
    <3> HIDE DEF T
    <3> QED BY <1>0, <1>3, <1>4, UpToInduction
  <2> HIDE DEF T
  <2> QED BY <1>0, <2>1
<1>6. Settle(body, "both") = Held(block[Len(body)])
  BY <1>1 DEF Settle, Held
<1> QED BY <1>2, <1>5, <1>6

LEMMA FirstLine ==
  ASSUME NEW first, NEW line, NEW keep, line # Splits
  PROVE  SettleLine([part |-> "first", out |-> <<>>, first |-> first, second |-> <<>>], line, keep)
           = [part |-> "first", out |-> <<>>, first |-> Append(first, line), second |-> <<>>]
<1> DEFINE b == [part |-> "first", out |-> <<>>, first |-> first, second |-> <<>>]
<1>1. b.part = "first" /\ b.first = first
  OBVIOUS
<1>2. SettleLine(b, line, keep) = [b EXCEPT !.first = Append(first, line)]
  BY <1>1 DEF SettleLine
<1> QED BY <1>2

LEMMA SecondLine ==
  ASSUME NEW first, NEW second, NEW line, NEW keep, line # Closes
  PROVE  SettleLine([part |-> "second", out |-> <<>>, first |-> first, second |-> second], line, keep)
           = [part |-> "second", out |-> <<>>, first |-> first, second |-> Append(second, line)]
<1> DEFINE c == [part |-> "second", out |-> <<>>, first |-> first, second |-> second]
<1>1. c.part = "second" /\ c.second = second
  OBVIOUS
<1>2. SettleLine(c, line, keep) = [c EXCEPT !.second = Append(second, line)]
  BY <1>1 DEF SettleLine
<1> QED BY <1>2

(* One block, with no mark within: its sides are what it settles to.       *)
LEMMA BlockSettles ==
  ASSUME NEW mine \in Seq(Line), NEW theirs \in Seq(Line),
         \A i \in 1..Len(mine) : mine[i] \notin Marks,
         \A i \in 1..Len(theirs) : theirs[i] \notin Marks,
         NEW keep \in {"first", "second"}
  PROVE  Settle(Block(mine, theirs), keep) = IF keep = "first" THEN mine ELSE theirs
<1> DEFINE body == Block(mine, theirs)
           L == Len(mine)
           R == Len(theirs)
           B(part, first, second) == [part |-> part, out |-> <<>>, first |-> first, second |-> second]
<1>0. L \in Nat /\ R \in Nat /\ {Opens, Splits, Closes} \subseteq Line
  BY DEF Line, Marks
<1>1. /\ body \in Seq(Line) /\ Len(body) = L + R + 3
      /\ body[1] = Opens /\ body[L + 2] = Splits /\ body[L + R + 3] = Closes
      /\ \A i \in 1..L : body[i + 1] = mine[i]
      /\ \A i \in 1..R : body[i + (L + 2)] = theirs[i]
  <2> DEFINE a == <<Opens>> \o mine
             b == a \o <<Splits>>
             c == b \o theirs
  <2>1. /\ a \in Seq(Line) /\ Len(a) = L + 1 /\ a[1] = Opens
        /\ \A i \in 1..L : a[i + 1] = mine[i]
    BY <1>0
  <2> HIDE DEF a
  <2>2. /\ b \in Seq(Line) /\ Len(b) = L + 2 /\ b[L + 2] = Splits
        /\ \A i \in 1..(L + 1) : b[i] = a[i]
    BY <1>0, <2>1
  <2> HIDE DEF b
  <2>3. /\ c \in Seq(Line) /\ Len(c) = L + R + 2
        /\ \A i \in 1..(L + 2) : c[i] = b[i]
        /\ \A i \in 1..R : c[i + (L + 2)] = theirs[i]
    BY <1>0, <2>2, SMTT(40)
  <2> HIDE DEF c
  <2>4. body = c \o <<Closes>>
    BY DEF Block, a, b, c
  <2> HIDE DEF body
  <2>5. /\ body \in Seq(Line) /\ Len(body) = L + R + 3 /\ body[L + R + 3] = Closes
        /\ \A i \in 1..(L + R + 2) : body[i] = c[i]
    <3>1. c \in Seq(Line) /\ <<Closes>> \in Seq(Line) /\ Len(<<Closes>>) = 1 /\ <<Closes>>[1] = Closes
      BY <1>0, <2>3
    <3>2. /\ body \in Seq(Line) /\ Len(body) = Len(c) + 1 /\ body[Len(c) + 1] = Closes
          /\ \A i \in 1..Len(c) : body[i] = c[i]
      BY <2>4, <3>1
    <3>3. Len(c) + 1 = L + R + 3
      BY <1>0, <2>3
    <3> QED BY <2>3, <3>2, <3>3
  <2>6. body[1] = Opens /\ body[L + 2] = Splits /\ \A i \in 1..L : body[i + 1] = mine[i]
    <3>1. 1 \in 1..(L + 1) /\ 1 \in 1..(L + 2) /\ L + 2 \in 1..(L + 2)
          /\ 1 \in 1..(L + R + 2) /\ L + 2 \in 1..(L + R + 2)
      BY <1>0
    <3>2. \A i \in 1..L : i + 1 \in 1..(L + 1) /\ i + 1 \in 1..(L + 2) /\ i + 1 \in 1..(L + R + 2)
      BY <1>0
    <3> QED BY <2>1, <2>2, <2>3, <2>5, <3>1, <3>2, SMTT(40)
  <2>7. \A i \in 1..R : body[i + (L + 2)] = theirs[i]
    <3>1. \A i \in 1..R : i + (L + 2) \in 1..(L + R + 2)
      BY <1>0
    <3> QED BY <2>3, <2>5, <3>1
  <2> QED BY <2>5, <2>6, <2>7
<1> HIDE DEF body
<1>2. PICK block \in [0..Len(body) -> BlockType] :
        /\ block[0] = Outside
        /\ \A i \in 1..Len(body) : block[i] = SettleLine(block[i - 1], body[i], keep)
        /\ Settled(body, keep) = block[Len(body)]
  BY <1>1, Reading
<1>3. /\ \A i \in 1..L : SubSeq(mine, 1, i) = Append(SubSeq(mine, 1, i - 1), mine[i])
      /\ \A i \in 1..R : SubSeq(theirs, 1, i) = Append(SubSeq(theirs, 1, i - 1), theirs[i])
      /\ SubSeq(mine, 1, 0) = <<>> /\ SubSeq(theirs, 1, 0) = <<>>
      /\ SubSeq(mine, 1, L) = mine /\ SubSeq(theirs, 1, R) = theirs
  <2>1. ASSUME NEW s \in Seq(Line), NEW i \in 1..Len(s)
        PROVE  SubSeq(s, 1, i) = Append(SubSeq(s, 1, i - 1), s[i])
    OBVIOUS
  <2> QED BY <2>1
<1>4. block[1] = B("first", <<>>, <<>>)
  <2>1. 1 \in 1..Len(body) /\ 1 - 1 = 0
    BY <1>0, <1>1
  <2>2. block[1] = SettleLine(Outside, Opens, keep)
    BY <1>1, <1>2, <2>1
  <2> QED BY <2>2 DEF SettleLine, Outside
<1> DEFINE T == {i \in 0..L : block[i + 1] = B("first", SubSeq(mine, 1, i), <<>>)}
<1>5. 0 \in T
  BY <1>0, <1>3, <1>4
<1>6. ASSUME NEW i \in 1..L, i - 1 \in T PROVE i \in T
  <2>1. i + 1 \in 1..Len(body) /\ (i + 1) - 1 = i /\ (i - 1) + 1 = i /\ i \in 0..L
    BY <1>0, <1>1
  <2>2. block[i] = B("first", SubSeq(mine, 1, i - 1), <<>>)
    BY <1>6, <2>1
  <2>3. block[i + 1] = SettleLine(block[i], mine[i], keep)
    BY <1>1, <1>2, <2>1
  <2>4. mine[i] # Splits
    BY DEF Marks
  <2>5. block[i + 1] = B("first", Append(SubSeq(mine, 1, i - 1), mine[i]), <<>>)
    <3> DEFINE f == SubSeq(mine, 1, i - 1)
               x == mine[i]
    <3> HIDE DEF f, x
    <3>1. x # Splits => SettleLine(B("first", f, <<>>), x, keep) = B("first", Append(f, x), <<>>)
      BY FirstLine
    <3> QED BY <2>2, <2>3, <2>4, <3>1, Zenon DEF f, x
  <2> QED BY <1>3, <2>1, <2>5
<1>7. block[L + 1] = B("first", mine, <<>>)
  <2>1. 0..L \subseteq T
    <3> HIDE DEF T
    <3> QED BY <1>0, <1>5, <1>6, UpToInduction
  <2>2. L \in T
    <3> HIDE DEF T
    <3> QED BY <1>0, <2>1
  <2> QED BY <1>3, <2>2
<1>8. block[L + 2] = B("second", mine, <<>>)
  <2>1. L + 2 \in 1..Len(body) /\ (L + 2) - 1 = L + 1
    BY <1>0, <1>1
  <2>2. block[L + 2] = SettleLine(block[L + 1], Splits, keep)
    BY <1>1, <1>2, <2>1
  <2> QED BY <1>7, <2>2 DEF SettleLine
<1> DEFINE U == {i \in 0..R : block[i + (L + 2)] = B("second", mine, SubSeq(theirs, 1, i))}
<1>9. 0 \in U
  BY <1>0, <1>3, <1>8
<1>10. ASSUME NEW i \in 1..R, i - 1 \in U PROVE i \in U
  <2>1. /\ i + (L + 2) \in 1..Len(body) /\ (i + (L + 2)) - 1 = (i - 1) + (L + 2) /\ i \in 0..R
    BY <1>0, <1>1
  <2>2. block[(i - 1) + (L + 2)] = B("second", mine, SubSeq(theirs, 1, i - 1))
    BY <1>10
  <2>3. block[i + (L + 2)] = SettleLine(block[(i - 1) + (L + 2)], theirs[i], keep)
    BY <1>1, <1>2, <2>1
  <2>4. theirs[i] # Closes
    BY DEF Marks
  <2>5. block[i + (L + 2)] = B("second", mine, Append(SubSeq(theirs, 1, i - 1), theirs[i]))
    <3> DEFINE f == SubSeq(theirs, 1, i - 1)
               x == theirs[i]
    <3> HIDE DEF f, x
    <3>1. x # Closes => SettleLine(B("second", mine, f), x, keep) = B("second", mine, Append(f, x))
      BY SecondLine
    <3> QED BY <2>2, <2>3, <2>4, <3>1, Zenon DEF f, x
  <2> QED BY <1>3, <2>1, <2>5
<1>11. block[R + (L + 2)] = B("second", mine, theirs)
  <2>1. 0..R \subseteq U
    <3> HIDE DEF U
    <3> QED BY <1>0, <1>9, <1>10, UpToInduction
  <2>2. R \in U
    <3> HIDE DEF U
    <3> QED BY <1>0, <2>1
  <2> QED BY <1>3, <2>2
<1>12. /\ block[Len(body)].part = "out"
       /\ block[Len(body)].out = IF keep = "first" THEN mine ELSE theirs
  <2>1. Len(body) \in 1..Len(body) /\ Len(body) - 1 = R + (L + 2)
    BY <1>0, <1>1
  <2>2. block[Len(body)] = SettleLine(B("second", mine, theirs), Closes, keep)
    BY <1>1, <1>2, <1>11, <2>1
  <2> DEFINE one == IF keep = "second" THEN <<>> ELSE mine
             two == IF keep = "first" THEN <<>> ELSE theirs
  <2>3. /\ block[Len(body)].part = "out"
        /\ block[Len(body)].out = <<>> \o one \o two
    BY <2>2 DEF SettleLine
  <2>4. <<>> \o one \o two = IF keep = "first" THEN mine ELSE theirs
    <3>1. CASE keep = "first"
      BY <3>1
    <3>2. CASE keep = "second"
      BY <3>2
    <3> QED BY <3>1, <3>2
  <2> QED BY <2>3, <2>4
<1>13. Settle(body, keep) = IF keep = "first" THEN mine ELSE theirs
  BY <1>2, <1>12 DEF Settle
<1> QED BY <1>13 DEF body

(* Settling a text: both sides together are every line of the owner's in   *)
(* its order, however blocks are nested or left open, and a block settles  *)
(* to the side that is asked for (notes_store.py:379-400).                 *)
THEOREM SettlesTexts == \A body \in Seq(Line) : SettlesWell(body)
<1> SUFFICES ASSUME NEW body \in Seq(Line) PROVE SettlesWell(body)
  OBVIOUS
<1>1. ASSUME NEW q \in 1..Len(body), NEW mine, NEW theirs,
             mine = SubSeq(body, 2, q - 1), theirs = SubSeq(body, q + 1, Len(body) - 1),
             body = Block(mine, theirs), Marks \cap (ToSet(mine) \cup ToSet(theirs)) = {}
      PROVE  Settle(body, "first") = mine /\ Settle(body, "second") = theirs
  <2>1. mine \in Seq(Line) /\ theirs \in Seq(Line)
    <3>1. \A i \in 2..(q - 1) : body[i] \in Line
      OBVIOUS
    <3>2. \A i \in (q + 1)..(Len(body) - 1) : body[i] \in Line
      OBVIOUS
    <3> QED BY <1>1, <3>1, <3>2
  <2>2. /\ \A i \in 1..Len(mine) : mine[i] \notin Marks
        /\ \A i \in 1..Len(theirs) : theirs[i] \notin Marks
    <3>1. ASSUME NEW s \in Seq(Line), NEW i \in 1..Len(s) PROVE s[i] \in ToSet(s)
      BY DEF ToSet
    <3> QED BY <1>1, <2>1, <3>1, Zenon
  <2>3. /\ Settle(Block(mine, theirs), "first") = mine
        /\ Settle(Block(mine, theirs), "second") = theirs
    BY <2>1, <2>2, BlockSettles
  <2> QED BY <1>1, <2>3, Zenon
<1> QED BY <1>1, BothInOrder DEF SettlesWell

-----------------------------------------------------------------------------
(* What a request knows of itself at each of its steps; c is what its      *)
(* writer was told of the notes.                                           *)
Mine(r) == r.op \in {"create", "save"}
Asking(r, c) ==
  /\ r.pc # "idle" => r.id \in Notes /\ r.exp = c[r.id].rev
  /\ r.pc \in {"look", "compare"} => r.op = "save"
  /\ r.pc = "look at clash" => r.op = "resolve"
  /\ r.pc = "check" => r.op = "delete"
  /\ r.pc = "fill" => r.op # "delete"
  /\ r.pc = "look at pin" \/ r.op = "meta" => r.pin # "keep"
  /\ r.pin # "keep" => r.op \in {"create", "save", "meta"}
  /\ Mine(r) => r.edit # 0 /\ (r.edit = r.title \/ r.edit \in Words(r.body))

(* What the write of a request does to the text there is, of which the     *)
(* versions are l.                                                         *)
Unknown(r, old, l) ==
  /\ r.exp # Len(l) /\ r.body # old.body
  /\ ~(r.exp \in 1..Len(l) /\ Exists(l[r.exp]) /\ l[r.exp].body = old.body)
Merged(r, old, l) == IF Unknown(r, old, l) THEN Block(r.body, old.body) ELSE r.body
Makes(r, old, l) ==
  \/ r.op = "create" /\ ~Exists(old) /\ r.note = [title |-> r.title, body |-> r.body, pin |-> "unpin"]
  \/ /\ r.op = "save" /\ Exists(old)
     /\ r.note = [title |-> r.title, body |-> Merged(r, old, l), pin |-> old.pin]
  \/ r.pin # "keep" /\ Exists(old) /\ r.note = [old EXCEPT !.pin = r.pin]
  \/ r.op = "resolve" /\ Exists(old) /\ r.note = [old EXCEPT !.body = Settle(old.body, r.keep)]
  \/ r.op = "delete" /\ Exists(old) /\ r.exp = Len(l)

(* While nothing crosses a request, what it has in hand is of the file as  *)
(* it is, what it writes is staged when it commits, and its edit is in the *)
(* file and then in the newest version.                                    *)
Fresh(r, f, i, l) ==
  /\ r.pc \in {"compare", "count"} => Exists(f[r.id]) /\ r.note = f[r.id]
  /\ r.pc = "write" => Makes(r, f[r.id], l[r.id])
  /\ r.pc = "commit" => i = f
  /\ r.op = "delete" /\ r.pc \in {"add", "commit", "answer"} => ~Exists(f[r.id])
  /\ Mine(r) /\ r.pc \in {"write", "fill"} => Has(r.note, r.edit)
  /\ Mine(r) /\ r.pc \in {"add", "commit", "look at pin", "answer", "count"} => Has(f[r.id], r.edit)
  /\ Mine(r) /\ r.pc \in {"look at pin", "answer", "count"} =>
       l[r.id] # <<>> /\ f[r.id] = l[r.id][Len(l[r.id])]

(* No other request has emptied a file.                                    *)
Alone(w) == \A v \in Writers \ {w} : req[v].pc # "fill"

Seen == [rev : Nat, note : Content]
Texts == file \in [Notes -> Content] /\ index \in [Notes -> Content] /\ log \in [Notes -> Seq(Content)]
Others ==
  /\ lock \in {"free", "push", "stale"}
  /\ copy \in [Writers -> [Notes -> Seen]]
  /\ \A w \in Writers, n \in Notes : copy[w][n].rev <= Len(log[n])
  /\ sent \in 0..MaxRequests /\ overlaps \in 0..MaxOverlaps /\ deaths \in 0..MaxDeaths
  /\ crossed \subseteq Writers

Inv ==
  /\ Texts /\ Others /\ req \in [Writers -> Request]
  /\ \A w \in Writers : Asking(req[w], copy[w])
  /\ \A w \in UnderWay \ crossed : Alone(w) /\ Fresh(req[w], file, index, log)

LEMMA InvTypes == Inv => TypeOK
BY DEF Inv, Texts, Others, Seen, TypeOK, Asking, UnderWay

(* A step of w's request: it leaves the folder alone and crosses nobody,   *)
(* or it crosses all others; and it goes on with what it has in hand.      *)
LEMMA Step ==
  ASSUME Inv, NEW w \in Writers, NEW x \in Request, req' = [req EXCEPT ![w] = x], Texts', Others',
         Asking(x, copy'[w]), \A v \in Writers \ {w} : copy'[v] = copy[v],
         \/ UNCHANGED folder /\ crossed \ {w} \subseteq crossed' /\ x.pc # "fill"
         \/ Crosses(w),
         \/ w \in crossed' \/ x.pc \in {"idle", "unanswered"}
         \/ Fresh(x, file', index', log') /\ (~HalfWritten \/ w \in UnderWay \ crossed)
  PROVE  Inv'
<1>1. req \in [Writers -> Request] /\ req' \in [Writers -> Request]
  BY DEF Inv
<1>2. req'[w] = x /\ \A v \in Writers \ {w} : req'[v] = req[v]
  BY <1>1
<1>3. \A v \in Writers : Asking(req'[v], copy'[v])
  BY <1>2 DEF Inv
<1>4. ASSUME NEW v \in UnderWay' \ crossed', v # w
      PROVE  Alone(v)' /\ Fresh(req'[v], file', index', log')
  <2>1. v \in Writers /\ req'[v] = req[v] /\ v \in UnderWay
    BY <1>2, <1>4 DEF UnderWay
  <2>2. UNCHANGED folder /\ crossed \ {w} \subseteq crossed' /\ x.pc # "fill"
    BY <1>4, <2>1 DEF Crosses
  <2>3. Alone(v) /\ Fresh(req[v], file, index, log)
    BY <1>4, <2>1, <2>2 DEF Inv
  <2>4. Alone(v)'
    BY <1>2, <2>2, <2>3 DEF Alone
  <2> QED BY <2>1, <2>2, <2>3, <2>4 DEF folder
<1>5. ASSUME w \in UnderWay' \ crossed'
      PROVE  Alone(w)' /\ Fresh(req'[w], file', index', log')
  <2>1. Fresh(x, file', index', log') /\ (~HalfWritten \/ w \in UnderWay \ crossed)
    BY <1>2, <1>5 DEF UnderWay
  <2>2. Alone(w)
    BY <2>1 DEF Inv, Alone, HalfWritten
  <2>3. Alone(w)'
    BY <1>2, <2>2 DEF Alone
  <2> QED BY <1>2, <2>1, <2>3
<1> QED BY <1>1, <1>3, <1>4, <1>5 DEF Inv, UnderWay

LEMMA Now ==
  ASSUME Inv, NEW w \in Writers
  PROVE  /\ req[w] \in Request /\ Asking(req[w], copy[w]) /\ Texts /\ Others
         /\ req[w].pc # "idle" => req[w].id \in Notes /\ req[w].exp = copy[w][req[w].id].rev
         /\ w \in UnderWay \ crossed => Alone(w) /\ Fresh(req[w], file, index, log)
         /\ req[w].note \in Content /\ req[w].body \in Seq(Line)
BY DEF Inv, Asking, Request

LEMMA FileFacts ==
  ASSUME Inv, NEW n \in Notes
  PROVE  /\ file[n] \in Content /\ file[n].title \in {Untitled} \cup 0..MaxRequests
         /\ file[n].body \in Seq(Line) /\ file[n].pin \in {"pin", "unpin"}
<1>1. file[n] \in Content
  BY DEF Inv, Texts
<1> QED BY <1>1 DEF Content

LEMMA NoNoteType == NoNote \in Content /\ Blank \in Content /\ Unread \in Seen /\ Unread.rev = 0
<1>1. 0 \in 0..MaxRequests
  BY BoundsAssumption
<1>2. <<>> \in Seq(Line)
  OBVIOUS
<1>3. NoNote \in Content /\ Blank \in Content
  BY <1>1, <1>2 DEF NoNote, Blank, Content
<1> QED BY <1>3 DEF Unread, Seen

LEMMA QuietType ==
  /\ Quiet \in Request /\ Quiet.edit = 0 /\ Quiet.pin = "keep" /\ Quiet.op = "none" /\ Quiet.pc = "idle"
  /\ \A c : Asking(Quiet, c)
<1>1. 0 \in 0..MaxRequests
  BY BoundsAssumption
<1>2. <<>> \in Seq(Line)
  OBVIOUS
<1>3. Quiet \in Request
  BY <1>1, <1>2, NoNoteType DEF Quiet, Request
<1> QED BY <1>3 DEF Quiet, Asking, Mine

(* The folder stays, and the request goes on or ends.                      *)
LEMMA OnlyStep ==
  ASSUME Inv, NEW w \in UnderWay, NEW x \in Request, Only(w, x), Asking(x, copy[w]), x.pc # "fill",
         w \notin crossed => x.pc \in {"idle", "unanswered"} \/ Fresh(x, file, index, log)
  PROVE  Inv'
<1>1. /\ w \in Writers /\ req' = [req EXCEPT ![w] = x]
      /\ UNCHANGED <<file, index, log, lock, copy, sent, overlaps, deaths, crossed>>
  BY DEF Only, UnderWay, folder
<1>2. Texts' /\ Others'
  BY <1>1 DEF Inv, Texts, Others
<1> QED BY <1>1, <1>2, Step DEF folder

(* A request ends, with its writer told something of the note.             *)
LEMMA ToldStep ==
  ASSUME Inv, NEW w \in UnderWay, NEW seen \in Seen, seen.rev <= Len(log[req[w].id]), Told(w, seen)
  PROVE  Inv'
<1> DEFINE n == req[w].id
<1>1. /\ w \in Writers /\ req' = [req EXCEPT ![w] = Quiet] /\ copy' = [copy EXCEPT ![w][n] = seen]
      /\ UNCHANGED <<file, index, log, lock, sent, overlaps, deaths, crossed>>
  BY DEF Told, UnderWay, folder
<1>2. n \in Notes /\ copy \in [Writers -> [Notes -> Seen]]
  BY Now DEF UnderWay, Others
<1>3. copy' \in [Writers -> [Notes -> Seen]]
  BY <1>1, <1>2
<1>4. ASSUME NEW v \in Writers, NEW m \in Notes PROVE copy'[v][m].rev <= Len(log'[m])
  <2>1. copy'[v][m] = IF v = w /\ m = n THEN seen ELSE copy[v][m]
    BY <1>1, <1>2
  <2>2. copy[v][m].rev <= Len(log[m]) /\ log' = log
    BY <1>1 DEF Inv, Others
  <2> QED BY <2>1, <2>2
<1>5. Texts' /\ Others'
  <2>1. Texts /\ Others
    BY DEF Inv
  <2> QED BY <1>1, <1>3, <1>4, <2>1 DEF Texts, Others
<1>6. \A v \in Writers \ {w} : copy'[v] = copy[v]
  BY <1>1, <1>2
<1> HIDE DEF n
<1> QED BY <1>1, <1>5, <1>6, QuietType, Step DEF folder

LEMMA NotFoundStep ==
  ASSUME Inv, NEW w \in UnderWay, NotFound(w)
  PROVE  Inv'
<1>1. Told(w, Unread) /\ req[w].id \in Notes
  BY Now DEF NotFound, UnderWay
<1>2. Len(log[req[w].id]) \in Nat
  BY <1>1 DEF Inv, Texts
<1> QED BY <1>1, <1>2, NoNoteType, ToldStep

(* Something is put into the file, and all others are crossed.             *)
LEMMA PutsStep ==
  ASSUME Inv, NEW w \in UnderWay, NEW note \in Content, NEW x \in Request, Puts(w, note, x),
         x.id = req[w].id, Asking(x, copy[w]),
         w \notin crossed => x.pc = "unanswered" \/ Fresh(x, file', index, log)
  PROVE  Inv'
<1>1. /\ w \in Writers /\ req' = [req EXCEPT ![w] = x] /\ file' = [file EXCEPT ![req[w].id] = note]
      /\ UNCHANGED <<index, log, lock, copy, sent, overlaps, deaths>> /\ Crosses(w)
  BY DEF Puts, UnderWay
<1>2. Texts' /\ Others'
  BY <1>1 DEF Inv, Texts, Others, Crosses, UnderWay
<1> QED BY <1>1, <1>2, Step DEF Crosses

-----------------------------------------------------------------------------
(* What a record keeps when a request goes on, and when it is sent.        *)
Pcs == {"idle", "unanswered", "look", "look at pin", "look at clash", "check", "compare",
        "write", "fill", "add", "commit", "answer", "count"}

LEMMA PcFacts == Pcs \ {"fill"} \subseteq Pcs /\ {"write", "fill", "add", "unanswered"} \subseteq Pcs
BY DEF Pcs

Same(x, r) ==
  /\ x.op = r.op /\ x.id = r.id /\ x.exp = r.exp /\ x.edit = r.edit /\ x.title = r.title
  /\ x.body = r.body /\ x.pin = r.pin /\ x.keep = r.keep

LEMMA AtType ==
  ASSUME NEW r \in Request, NEW pc \in Pcs
  PROVE  LET x == [r EXCEPT !.pc = pc]
         IN  x \in Request /\ x.pc = pc /\ Same(x, r) /\ x.part = r.part /\ x.note = r.note
BY DEF Request, Pcs, Same

LEMMA WithNoteType ==
  ASSUME NEW r \in Request, NEW note \in Content
  PROVE  LET x == [r EXCEPT !.note = note]
         IN  x \in Request /\ x.pc = r.pc /\ Same(x, r) /\ x.part = r.part /\ x.note = note
BY DEF Request, Same

LEMMA WithPartType ==
  ASSUME NEW r \in Request, NEW part \in {"text", "pin"}
  PROVE  LET x == [r EXCEPT !.part = part]
         IN  x \in Request /\ x.pc = r.pc /\ Same(x, r) /\ x.part = part /\ x.note = r.note
BY DEF Request, Same

With(r, pc, note) == [r EXCEPT !.pc = pc, !.note = note]
Holding(r, pc, note, part) == [r EXCEPT !.pc = pc, !.note = note, !.part = part]

LEMMA AtNoteType ==
  ASSUME NEW r \in Request, NEW pc \in Pcs, NEW note \in Content
  PROVE  LET x == With(r, pc, note)
         IN  x \in Request /\ x.pc = pc /\ Same(x, r) /\ x.note = note
<1> DEFINE a == [r EXCEPT !.pc = pc]
           b == [a EXCEPT !.note = note]
<1>1. a \in Request /\ a.pc = pc /\ Same(a, r)
  BY AtType
<1> HIDE DEF a
<1>2. b \in Request /\ b.pc = a.pc /\ Same(b, a) /\ b.note = note
  BY <1>1, WithNoteType
<1>3. b \in Request /\ b.pc = pc /\ Same(b, r) /\ b.note = note
  BY <1>1, <1>2 DEF Same
<1> QED BY <1>3 DEF a, With

LEMMA HoldingType ==
  ASSUME NEW r \in Request, NEW pc \in Pcs, NEW note \in Content, NEW part \in {"text", "pin"}
  PROVE  LET x == Holding(r, pc, note, part)
         IN  x \in Request /\ x.pc = pc /\ Same(x, r) /\ x.note = note
<1> DEFINE c == [r EXCEPT !.pc = pc]
           a == [c EXCEPT !.note = note]
           b == [a EXCEPT !.part = part]
<1>0. c \in Request /\ c.pc = pc /\ Same(c, r)
  BY AtType
<1>2. b = [r EXCEPT !.pc = pc, !.note = note, !.part = part]
  OBVIOUS
<1> HIDE DEF c
<1>1. a \in Request /\ a.pc = pc /\ Same(a, r) /\ a.note = note
  <2>1. a \in Request /\ a.pc = c.pc /\ Same(a, c) /\ a.note = note
    BY <1>0, WithNoteType
  <2> QED BY <1>0, <2>1 DEF Same
<1> HIDE DEF a
<1>3. b \in Request /\ b.pc = a.pc /\ Same(b, a) /\ b.note = a.note
  BY <1>1, WithPartType
<1>4. b \in Request /\ b.pc = pc /\ Same(b, r) /\ b.note = note
  BY <1>1, <1>3 DEF Same
<1> QED BY <1>2, <1>4 DEF Holding

(* A request as Send sends it on.                                          *)
Sent(r, op, n, v) == [r EXCEPT !.op = op, !.id = n, !.exp = v]

LEMMA SentType ==
  ASSUME NEW r \in Request, NEW op \in Kinds, NEW n \in Notes, NEW v \in Nat
  PROVE  LET x == Sent(r, op, n, v)
         IN  /\ x \in Request /\ x.op = op /\ x.id = n /\ x.exp = v /\ x.pc = r.pc
             /\ x.edit = r.edit /\ x.title = r.title /\ x.body = r.body /\ x.pin = r.pin /\ x.note = r.note
BY DEF Sent, Request, Kinds

LEMMA BegunStep ==
  ASSUME Inv, NEW w \in Writers, NEW x \in Request, Begun(w, x), Asking(x, copy[w]), x.pc # "fill",
         Fresh(x, file, index, log)
  PROVE  Inv'
<1>1. /\ req' = [req EXCEPT ![w] = x] /\ UNCHANGED <<file, index, log, lock, copy, deaths>>
      /\ sent < MaxRequests /\ sent' = sent + 1 /\ overlaps' \in {overlaps, overlaps + 1} /\ overlaps' <= MaxOverlaps
  BY DEF Begun, folder, Numbered, Overlapping
<1>2. /\ HalfWritten => crossed' = crossed \cup {w}
      /\ ~HalfWritten => crossed' = crossed \ {w}
  BY DEF Begun, Begins
<1>3. sent' \in 0..MaxRequests /\ overlaps' \in 0..MaxOverlaps
  <2>1. sent \in 0..MaxRequests /\ overlaps \in 0..MaxOverlaps
    BY DEF Inv, Others
  <2> QED BY <1>1, <2>1, BoundsAssumption
<1>4. Texts' /\ Others'
  <2>1. Texts /\ Others
    BY DEF Inv
  <2>2. crossed' \subseteq Writers
    BY <1>2, <2>1 DEF Others
  <2> QED BY <1>1, <1>3, <2>1, <2>2 DEF Texts, Others
<1>5. w \in crossed' \/ ~HalfWritten
  BY <1>2
<1> QED BY <1>1, <1>2, <1>4, <1>5, Step DEF folder

LEMMA SendStep ==
  ASSUME Inv, NEW w \in Writers, NEW n \in Notes, NEW op \in Kinds, NEW r \in Request, Send(w, n, op, r),
         r.pc \notin {"idle", "fill"},
         LET x == Sent(r, op, n, copy[w][n].rev)
         IN  x.id = n /\ x.exp = copy[w][n].rev => Asking(x, copy[w]) /\ Fresh(x, file, index, log)
  PROVE  Inv'
<1> DEFINE x == Sent(r, op, n, copy[w][n].rev)
<1>1. copy[w][n].rev \in Nat
  BY DEF Inv, Others, Seen
<1>2. x \in Request /\ x.id = n /\ x.exp = copy[w][n].rev /\ x.pc = r.pc
  BY <1>1, SentType
<1>3. Begun(w, x)
  BY DEF Send, Sent
<1>4. Asking(x, copy[w]) /\ Fresh(x, file, index, log)
  BY <1>2
<1> HIDE DEF x
<1> QED BY <1>2, <1>3, <1>4, BegunStep

LEMMA AskFacts ==
  ASSUME Inv, NEW w \in Writers, NEW n \in Notes
  PROVE  /\ copy[w][n].rev \in Nat /\ copy[w][n].note \in Content
         /\ sent \in 0..MaxRequests /\ MaxRequests \in Nat /\ 0 \in 0..MaxRequests
         /\ sent < MaxRequests => sent + 1 \in 1..MaxRequests /\ sent + 1 \in 0..MaxRequests
         /\ <<>> \in Seq(Line)
BY BoundsAssumption DEF Inv, Others, Seen

LEMMA SendReadStep == ASSUME Inv, NEW w \in Writers, NEW n \in Notes, SendRead(w, n) PROVE Inv'
<1> DEFINE r == [Quiet EXCEPT !.pc = "answer"]
           x == Sent(r, "read", n, copy[w][n].rev)
<1>1. Send(w, n, "read", r) /\ "read" \in Kinds /\ "answer" \in Pcs
  BY DEF SendRead, Kinds, Pcs
<1>2. r \in Request /\ r.pc = "answer" /\ r.pin = "keep"
  BY <1>1, QuietType, AtType DEF Same
<1> HIDE DEF r
<1>3. copy[w][n].rev \in Nat
  BY AskFacts
<1>4. x.op = "read" /\ x.pc = "answer" /\ x.pin = "keep"
  BY <1>1, <1>2, <1>3, SentType
<1> HIDE DEF x
<1>5. x.id = n /\ x.exp = copy[w][n].rev => Asking(x, copy[w]) /\ Fresh(x, file, index, log)
  BY <1>4 DEF Asking, Fresh, Mine
<1> QED BY <1>1, <1>2, <1>5, SendStep DEF x

LEMMA SendDeleteStep == ASSUME Inv, NEW w \in Writers, NEW n \in Notes, SendDelete(w, n) PROVE Inv'
<1> DEFINE r == [Quiet EXCEPT !.pc = "check"]
           x == Sent(r, "delete", n, copy[w][n].rev)
<1>1. Send(w, n, "delete", r) /\ "delete" \in Kinds /\ "check" \in Pcs
  BY DEF SendDelete, Kinds, Pcs
<1>2. r \in Request /\ r.pc = "check" /\ r.pin = "keep"
  BY <1>1, QuietType, AtType DEF Same
<1> HIDE DEF r
<1>3. copy[w][n].rev \in Nat
  BY AskFacts
<1>4. x.op = "delete" /\ x.pc = "check" /\ x.pin = "keep"
  BY <1>1, <1>2, <1>3, SentType
<1> HIDE DEF x
<1>5. x.id = n /\ x.exp = copy[w][n].rev => Asking(x, copy[w]) /\ Fresh(x, file, index, log)
  BY <1>4 DEF Asking, Fresh, Mine
<1> QED BY <1>1, <1>2, <1>5, SendStep DEF x

LEMMA SendMetaStep == ASSUME Inv, NEW w \in Writers, NEW n \in Notes, SendMeta(w, n) PROVE Inv'
<1> DEFINE pin == Other(copy[w][n].note.pin)
           r == [Quiet EXCEPT !.pc = "look at pin", !.pin = pin]
           x == Sent(r, "meta", n, copy[w][n].rev)
<1>1. Send(w, n, "meta", r) /\ "meta" \in Kinds
  BY DEF SendMeta, Kinds
<1>2. pin \in {"pin", "unpin"}
  BY DEF Other
<1> HIDE DEF pin
<1>3. r \in Request /\ r.pc = "look at pin" /\ r.pin = pin
  BY <1>2, QuietType DEF Request
<1> HIDE DEF r
<1>4. copy[w][n].rev \in Nat
  BY AskFacts
<1>5. x.op = "meta" /\ x.pc = "look at pin" /\ x.pin = pin
  <2>1. r \in Request /\ "meta" \in Kinds
    BY <1>1, <1>3, <1>4
  <2> DEFINE v == copy[w][n].rev
  <2>2. v \in Nat
    BY <1>4
  <2> HIDE DEF v
  <2>3. LET y == Sent(r, "meta", n, v) IN y.op = "meta" /\ y.pc = r.pc /\ y.pin = r.pin
    BY <2>1, <2>2, SentType
  <2> QED BY <1>3, <2>3 DEF v
<1> HIDE DEF x
<1>6. x.id = n /\ x.exp = copy[w][n].rev => Asking(x, copy[w]) /\ Fresh(x, file, index, log)
  BY <1>2, <1>5 DEF Asking, Fresh, Mine
<1> QED BY <1>1, <1>3, <1>6, SendStep DEF x

LEMMA SendResolveStep == ASSUME Inv, NEW w \in Writers, NEW n \in Notes, SendResolve(w, n) PROVE Inv'
<1>1. PICK keep \in {"first", "second", "both"} :
        Send(w, n, "resolve", [Quiet EXCEPT !.pc = "look at clash", !.keep = keep])
  BY DEF SendResolve
<1> DEFINE r == [Quiet EXCEPT !.pc = "look at clash", !.keep = keep]
           x == Sent(r, "resolve", n, copy[w][n].rev)
<1>2. r \in Request /\ r.pc = "look at clash" /\ r.pin = "keep"
  BY QuietType DEF Request
<1>3. Send(w, n, "resolve", r) /\ "resolve" \in Kinds
  BY <1>1 DEF Kinds
<1> HIDE DEF r
<1>4. copy[w][n].rev \in Nat
  BY AskFacts
<1>5. x.op = "resolve" /\ x.pc = "look at clash" /\ x.pin = "keep"
  <2>1. r \in Request /\ "resolve" \in Kinds
    BY <1>2, <1>3, <1>4
  <2> DEFINE v == copy[w][n].rev
  <2>2. v \in Nat
    BY <1>4
  <2> HIDE DEF v
  <2>3. LET y == Sent(r, "resolve", n, v) IN y.op = "resolve" /\ y.pc = r.pc /\ y.pin = r.pin
    BY <2>1, <2>2, SentType
  <2> QED BY <1>2, <2>3 DEF v
<1> HIDE DEF x
<1>6. x.id = n /\ x.exp = copy[w][n].rev => Asking(x, copy[w]) /\ Fresh(x, file, index, log)
  BY <1>5 DEF Asking, Fresh, Mine
<1> QED BY <1>2, <1>3, <1>6, SendStep DEF x

LEMMA LineOne ==
  ASSUME NEW e \in 1..MaxRequests
  PROVE  e \in Line /\ e \notin Marks /\ <<e>> \in Seq(Line) /\ e \in Words(<<e>>)
<1>1. e \in Line /\ e \notin Marks
  BY BoundsAssumption DEF Line, Marks, Opens, Splits, Closes
<1>2. <<e>> \in Seq(Line) /\ <<e>>[1] = e /\ 1 \in DOMAIN <<e>>
  BY <1>1
<1> QED BY <1>1, <1>2 DEF Words, ToSet

LEMMA WordsReplaced ==
  ASSUME NEW body \in Seq(Line), NEW i \in DOMAIN body, NEW e \in 1..MaxRequests
  PROVE  ReplaceAt(body, i, e) \in Seq(Line) /\ e \in Words(ReplaceAt(body, i, e))
<1>1. e \in Line /\ e \notin Marks
  BY LineOne
<1>2. ReplaceAt(body, i, e) = [body EXCEPT ![i] = e]
  BY DEF ReplaceAt
<1>3. [body EXCEPT ![i] = e] \in Seq(Line) /\ i \in DOMAIN [body EXCEPT ![i] = e] /\ [body EXCEPT ![i] = e][i] = e
  BY <1>1
<1> QED BY <1>1, <1>2, <1>3 DEF Words, ToSet

LEMMA WordsLast ==
  ASSUME NEW body \in Seq(Line), NEW e \in 1..MaxRequests
  PROVE  Append(body, e) \in Seq(Line) /\ e \in Words(Append(body, e))
<1>1. e \in Line /\ e \notin Marks
  BY LineOne
<1>2. Append(body, e) \in Seq(Line)
  BY <1>1
<1> QED BY <1>1, <1>2, WordsAppend

LEMMA SendCreateStep == ASSUME Inv, NEW w \in Writers, NEW n \in Notes, SendCreate(w, n) PROVE Inv'
<1> DEFINE e == sent + 1
           text == <<e>>
           note == [title |-> e, body |-> text, pin |-> "unpin"]
<1>1. PICK pin \in {"keep", "pin"} :
        Send(w, n, "create", [Quiet EXCEPT !.pc = "write", !.edit = e, !.title = e, !.body = text,
                                           !.pin = pin, !.note = note])
  BY DEF SendCreate
<1>2. sent < MaxRequests /\ ~Exists(file[n])
  BY <1>1 DEF SendCreate, Send, Begun, Numbered
<1>3. e \in 1..MaxRequests /\ e \in 0..MaxRequests /\ e # 0
  BY <1>2, AskFacts
<1> HIDE DEF e
<1>4. text \in Seq(Line) /\ e \in Words(text)
  BY <1>3, LineOne
<1> HIDE DEF text
<1>5. note \in Content /\ note.title = e
  BY <1>3, <1>4 DEF Content
<1>6. note = [title |-> e, body |-> text, pin |-> "unpin"]
  OBVIOUS
<1> HIDE DEF note
<1> DEFINE r == [Quiet EXCEPT !.pc = "write", !.edit = e, !.title = e, !.body = text, !.pin = pin, !.note = note]
           x == Sent(r, "create", n, copy[w][n].rev)
<1>7. /\ r \in Request /\ r.pc = "write" /\ r.edit = e /\ r.title = e
      /\ r.body = text /\ r.pin = pin /\ r.note = note
  BY <1>3, <1>4, <1>5, QuietType, ZenonT(60) DEF Request
<1>8. Send(w, n, "create", r) /\ "create" \in Kinds
  BY <1>1 DEF Kinds
<1> HIDE DEF r
<1>9. copy[w][n].rev \in Nat
  BY AskFacts
<1>10. /\ x.op = "create" /\ x.pc = "write" /\ x.edit = e /\ x.title = e
       /\ x.body = text /\ x.pin = pin /\ x.note = note
  BY <1>7, <1>8, <1>9, SentType
<1> HIDE DEF x
<1>11. x.id = n /\ x.exp = copy[w][n].rev => Asking(x, copy[w])
  BY <1>3, <1>10 DEF Asking, Mine
<1>12. x.id = n => Fresh(x, file, index, log)
  BY <1>2, <1>5, <1>6, <1>10 DEF Fresh, Makes, Mine, Has
<1> QED BY <1>7, <1>8, <1>11, <1>12, SendStep DEF x

(* A save has its new line in its title or in its text.                    *)
LEMMA SendSaveStep == ASSUME Inv, NEW w \in Writers, NEW n \in Notes, SendSave(w, n) PROVE Inv'
<1> DEFINE e == sent + 1
           seen == copy[w][n].note
           Drafts == {<<e, seen.body>>, <<seen.title, Append(seen.body, e)>>}
                       \cup {<<seen.title, ReplaceAt(seen.body, i, e)>> : i \in DOMAIN seen.body}
<1>1. PICK text \in Drafts, pin \in {"keep", Other(seen.pin)} :
        Send(w, n, "save", [Quiet EXCEPT !.pc = "look", !.edit = e, !.title = text[1],
                                         !.body = text[2], !.pin = pin])
  BY ZenonT(40) DEF SendSave
<1>2. sent < MaxRequests
  BY <1>1 DEF Send, Begun, Numbered
<1>3. e \in 1..MaxRequests /\ e \in 0..MaxRequests /\ e # 0
  BY <1>2, AskFacts
<1>4. /\ seen.body \in Seq(Line) /\ seen.title \in {Untitled} \cup 0..MaxRequests
      /\ pin \in {"keep", "pin", "unpin"}
  BY AskFacts DEF Content, Other
<1> HIDE DEF e, seen
<1> DEFINE title == text[1]
           body == text[2]
<1>5. title \in {Untitled} \cup 0..MaxRequests /\ body \in Seq(Line) /\ (e = title \/ e \in Words(body))
  <2>1. CASE text = <<e, seen.body>>
    BY <2>1, <1>3, <1>4
  <2>2. CASE text = <<seen.title, Append(seen.body, e)>>
    BY <2>2, <1>3, <1>4, WordsLast
  <2>3. CASE text \in {<<seen.title, ReplaceAt(seen.body, i, e)>> : i \in DOMAIN seen.body}
    <3>1. PICK i \in DOMAIN seen.body : text = <<seen.title, ReplaceAt(seen.body, i, e)>>
      BY <2>3
    <3> QED BY <3>1, <1>3, <1>4, WordsReplaced
  <2> QED BY <2>1, <2>2, <2>3
<1> DEFINE r == [Quiet EXCEPT !.pc = "look", !.edit = e, !.title = title, !.body = body, !.pin = pin]
           x == Sent(r, "save", n, copy[w][n].rev)
<1>6. Send(w, n, "save", r) /\ "save" \in Kinds
  BY <1>1 DEF Kinds
<1> HIDE DEF title, body
<1>7. /\ r \in Request /\ r.pc = "look" /\ r.edit = e /\ r.title = title
      /\ r.body = body /\ r.pin = pin
  BY <1>3, <1>4, <1>5, QuietType DEF Request
<1> HIDE DEF r
<1>8. copy[w][n].rev \in Nat
  BY AskFacts
<1>9. /\ x.op = "save" /\ x.pc = "look" /\ x.edit = e /\ x.title = title
      /\ x.body = body /\ x.pin = pin
  BY <1>6, <1>7, <1>8, SentType
<1> HIDE DEF x
<1>10. x.id = n /\ x.exp = copy[w][n].rev => Asking(x, copy[w]) /\ Fresh(x, file, index, log)
  BY <1>3, <1>5, <1>9 DEF Asking, Mine, Fresh
<1> QED BY <1>6, <1>7, <1>10, SendStep DEF x

LEMMA AskStep == ASSUME Inv, NEW w \in Writers, NEW n \in Notes, Ask(w, n) PROVE Inv'
BY SendReadStep, SendCreateStep, SendSaveStep, SendMetaStep, SendResolveStep, SendDeleteStep DEF Ask

LEMMA RetryStep == ASSUME Inv, NEW w \in Writers, Retry(w) PROVE Inv'
<1> DEFINE r == req[w]
           pc == FirstStep[r.op]
           x == [r EXCEPT !.pc = pc]
<1>1. r.pc = "unanswered" /\ r.op \in DOMAIN FirstStep /\ Begun(w, x) /\ r \in Request /\ Asking(r, copy[w])
  BY Now DEF Retry
<1>2. /\ r.op \in {"save", "meta", "resolve", "delete"}
      /\ pc = IF r.op = "save" THEN "look" ELSE IF r.op = "meta" THEN "look at pin"
              ELSE IF r.op = "resolve" THEN "look at clash" ELSE "check"
  <2>1. DOMAIN FirstStep = {"save", "meta", "resolve", "delete"}
    BY DEF FirstStep
  <2>2. /\ FirstStep["save"] = "look" /\ FirstStep["meta"] = "look at pin"
        /\ FirstStep["resolve"] = "look at clash" /\ FirstStep["delete"] = "check"
    BY DEF FirstStep
  <2> QED BY <1>1, <2>1, <2>2
<1> HIDE DEF pc, r
<1>3. pc \in Pcs
  BY <1>2 DEF Pcs
<1>4. x \in Request /\ x.pc = pc /\ Same(x, r)
  BY <1>1, <1>3, AtType
<1> HIDE DEF x
<1>5. Asking(x, copy[w]) /\ x.pc # "fill"
  BY <1>1, <1>2, <1>4 DEF Asking, Same, Mine
<1>6. Fresh(x, file, index, log)
  BY <1>2, <1>4 DEF Fresh, Same, Mine
<1> QED BY <1>1, <1>4, <1>5, <1>6, BegunStep

LEMMA ReloadStep == ASSUME Inv, NEW w \in Writers, Reload(w) PROVE Inv'
<1>1. req' = [req EXCEPT ![w] = Quiet]
      /\ UNCHANGED <<file, index, log, lock, copy, sent, overlaps, deaths, crossed>>
  BY DEF Reload, folder
<1>2. Texts' /\ Others'
  BY <1>1 DEF Inv, Texts, Others
<1> QED BY <1>1, <1>2, QuietType, Step DEF folder

-----------------------------------------------------------------------------
(* The steps of a request.                                                 *)
LEMMA LookStep ==
  ASSUME Inv, NEW w \in Writers, NEW from \in Pcs \ {"idle", "unanswered"}, NEW to \in Pcs \ {"fill"}, NEW note,
         NEW part \in {"text", "pin"}, Look(w, from, to, note, part),
         LET x == Holding(req[w], to, note, part)
         IN  Exists(file[req[w].id]) =>
               /\ note \in Content
               /\ x.pc = to /\ x.note = note /\ Same(x, req[w]) =>
                    Asking(x, copy[w]) /\ (w \notin crossed => Fresh(x, file, index, log))
  PROVE  Inv'
<1>1. w \in UnderWay
  BY DEF Look, UnderWay
<1>2. CASE NotFound(w)
  BY <1>1, <1>2, NotFoundStep
<1>3. CASE /\ Exists(file[req[w].id])
           /\ Only(w, Holding(req[w], to, note, part))
  <2> DEFINE x == Holding(req[w], to, note, part)
  <2>1. note \in Content /\ req[w] \in Request
    BY <1>3, Now
  <2> to \in Pcs
    OBVIOUS
  <2>2. x \in Request /\ x.pc = to /\ Same(x, req[w]) /\ x.note = note
    BY <2>1, HoldingType
  <2>3. Asking(x, copy[w]) /\ (w \notin crossed => Fresh(x, file, index, log))
    BY <1>3, <2>2
  <2>4. Only(w, x)
    BY <1>3
  <2> HIDE DEF x
  <2> QED BY <1>1, <2>2, <2>3, <2>4, OnlyStep
<1> QED BY <1>2, <1>3 DEF Look, Holding

LEMMA LookSaveStep == ASSUME Inv, NEW w \in Writers, LookSave(w) PROVE Inv'
<1> DEFINE r == req[w]
           note == file[r.id]
           x == Holding(r, "compare", note, "text")
<1>1. Look(w, "look", "compare", note, "text") /\ r.pc = "look"
  BY DEF LookSave, Look
<1>2. Asking(r, copy[w]) /\ r.id \in Notes
  BY <1>1, Now
<1>3. note \in Content
  BY <1>2, FileFacts
<1>4. x.pc = "compare" /\ Same(x, r) => Asking(x, copy[w])
  <2> HIDE DEF x, r
  <2> QED BY <1>1, <1>2 DEF Asking, Same, Mine
<1>5. Exists(note) /\ x.pc = "compare" /\ x.note = note /\ Same(x, r) => Fresh(x, file, index, log)
  <2> HIDE DEF x, r
  <2> QED BY <1>2 DEF Fresh, Same, Mine
<1>6. "look" \in Pcs \ {"idle", "unanswered"} /\ "compare" \in Pcs \ {"fill"}
  BY DEF Pcs
<1> HIDE DEF x
<1> QED BY <1>1, <1>3, <1>4, <1>5, <1>6, LookStep DEF x

LEMMA LookMetaStep == ASSUME Inv, NEW w \in Writers, LookMeta(w) PROVE Inv'
<1> DEFINE r == req[w]
           old == file[r.id]
           note == [old EXCEPT !.pin = r.pin]
           x == Holding(r, "write", note, "pin")
<1>1. Look(w, "look at pin", "write", note, "pin") /\ r.pc = "look at pin"
  BY DEF LookMeta, Look
<1>2. Asking(r, copy[w]) /\ r.id \in Notes /\ r.pin # "keep" /\ r.pin \in {"keep", "pin", "unpin"}
  BY <1>1, Now DEF Asking, Request
<1>3. old \in Content
  BY <1>2, FileFacts
<1>4. note \in Content /\ note.title = old.title /\ note.body = old.body
  BY <1>2, <1>3 DEF Content
<1>5. x.pc = "write" /\ Same(x, r) => Asking(x, copy[w])
  <2> HIDE DEF x, r
  <2> QED BY <1>1, <1>2 DEF Asking, Same, Mine
<1>6. w \notin crossed => Fresh(r, file, index, log)
  BY <1>1, Now DEF UnderWay
<1>7. ASSUME Exists(old), x.pc = "write", x.note = note, Same(x, r), w \notin crossed
      PROVE  Fresh(x, file, index, log)
  <2>1. Makes(x, old, log[r.id])
    <3> HIDE DEF x, r
    <3> QED BY <1>2, <1>7 DEF Makes, Same
  <2>2. Mine(r) => Has(old, r.edit)
    BY <1>1, <1>6, <1>7 DEF Fresh
  <2>3. Mine(r) => Has(note, r.edit)
    <3> HIDE DEF note, old
    <3> QED BY <1>4, <2>2 DEF Has
  <2> HIDE DEF x, r, note
  <2> QED BY <1>7, <2>1, <2>3 DEF Fresh, Same, Mine
<1>8. "look at pin" \in Pcs \ {"idle", "unanswered"} /\ "write" \in Pcs \ {"fill"}
  BY DEF Pcs
<1> HIDE DEF x, note
<1> QED BY <1>1, <1>4, <1>5, <1>7, <1>8, LookStep DEF x

LEMMA LookResolveStep == ASSUME Inv, NEW w \in Writers, LookResolve(w) PROVE Inv'
<1> DEFINE r == req[w]
           old == file[r.id]
           note == [old EXCEPT !.body = Settle(old.body, r.keep)]
           x == Holding(r, "write", note, "text")
<1>1. Look(w, "look at clash", "write", note, "text") /\ r.pc = "look at clash"
  BY DEF LookResolve, Look
<1>2. Asking(r, copy[w]) /\ r.id \in Notes /\ r.op = "resolve"
  BY <1>1, Now DEF Asking
<1>3. old \in Content /\ old.body \in Seq(Line)
  BY <1>2, FileFacts
<1>4. note \in Content
  <2>1. Settle(old.body, r.keep) \in Seq(Line)
    BY <1>3, SettleFacts
  <2> QED BY <1>3, <2>1 DEF Content
<1>5. x.pc = "write" /\ Same(x, r) => Asking(x, copy[w])
  <2> HIDE DEF x, r
  <2> QED BY <1>1, <1>2 DEF Asking, Same, Mine
<1>6. ASSUME Exists(old), x.pc = "write", x.note = note, Same(x, r)
      PROVE  Fresh(x, file, index, log)
  <2>1. Makes(x, old, log[r.id])
    <3> HIDE DEF x, r
    <3> QED BY <1>2, <1>6 DEF Makes, Same
  <2> HIDE DEF x, r, note
  <2> QED BY <1>2, <1>6, <2>1 DEF Fresh, Same, Mine
<1>7. "look at clash" \in Pcs \ {"idle", "unanswered"} /\ "write" \in Pcs \ {"fill"}
  BY DEF Pcs
<1> HIDE DEF x, note
<1> QED BY <1>1, <1>4, <1>5, <1>6, <1>7, LookStep DEF x

LEMMA WordsBlock ==
  ASSUME NEW mine \in Seq(Line), NEW theirs \in Seq(Line)
  PROVE  /\ Block(mine, theirs) \in Seq(Line) /\ Words(mine) \subseteq Words(Block(mine, theirs))
         /\ Words(theirs) \subseteq Words(Block(mine, theirs))
<1> DEFINE opens == <<Opens>>
           splits == <<Splits>>
           closes == <<Closes>>
<1>1. opens \in Seq(Line) /\ splits \in Seq(Line) /\ closes \in Seq(Line)
  BY DEF Line, Marks
<1>2. Block(mine, theirs) = opens \o mine \o splits \o theirs \o closes
  BY DEF Block
<1> HIDE DEF opens, splits, closes
<1>3. ASSUME NEW s \in Seq(Line), NEW t \in Seq(Line)
      PROVE  s \o t \in Seq(Line) /\ Words(s) \subseteq Words(s \o t) /\ Words(t) \subseteq Words(s \o t)
  BY <1>3, WordsConcat
<1>4. opens \o mine \in Seq(Line) /\ Words(mine) \subseteq Words(opens \o mine)
  BY <1>1, <1>3
<1> DEFINE a == opens \o mine
<1> HIDE DEF a
<1>5. a \in Seq(Line) /\ Words(mine) \subseteq Words(a)
  BY <1>4 DEF a
<1>6. a \o splits \in Seq(Line) /\ Words(a) \subseteq Words(a \o splits)
  BY <1>1, <1>3, <1>5
<1>7. /\ a \o splits \o theirs \in Seq(Line) /\ Words(a \o splits) \subseteq Words(a \o splits \o theirs)
      /\ Words(theirs) \subseteq Words(a \o splits \o theirs)
  BY <1>3, <1>6
<1>8. /\ a \o splits \o theirs \o closes \in Seq(Line)
      /\ Words(a \o splits \o theirs) \subseteq Words(a \o splits \o theirs \o closes)
  BY <1>1, <1>3, <1>7
<1>9. Block(mine, theirs) = a \o splits \o theirs \o closes
  BY <1>2 DEF a
<1> QED BY <1>5, <1>6, <1>7, <1>8, <1>9


LEMMA CompareStep == ASSUME Inv, NEW w \in Writers, Compare(w) PROVE Inv'
<1> DEFINE r == req[w]
           body == IF Clash(r) THEN Block(r.body, r.note.body) ELSE r.body
           note == [r.note EXCEPT !.title = r.title, !.body = body]
           x == With(r, "write", note)
<1>1. r.pc = "compare" /\ Only(w, x) /\ w \in UnderWay
  BY DEF Compare, UnderWay, With
<1>2. /\ Asking(r, copy[w]) /\ r \in Request /\ r.id \in Notes /\ r.op = "save"
      /\ r.edit = r.title \/ r.edit \in Words(r.body)
  BY <1>1, Now DEF Asking, Mine
<1>3. /\ r.body \in Seq(Line) /\ r.note \in Content /\ r.note.body \in Seq(Line)
      /\ r.title \in {Untitled} \cup 0..MaxRequests
  BY <1>2 DEF Request, Content
<1>4. body \in Seq(Line) /\ Words(r.body) \subseteq Words(body)
  <2>1. /\ Block(r.body, r.note.body) \in Seq(Line)
        /\ Words(r.body) \subseteq Words(Block(r.body, r.note.body))
    BY <1>3, WordsBlock
  <2> QED BY <1>3, <2>1
<1>5. body = Merged(r, r.note, log[r.id])
  BY DEF Merged, Unknown, Clash, Revision, WordsAt
<1> HIDE DEF body
<1>6. note \in Content /\ note = [title |-> r.title, body |-> body, pin |-> r.note.pin]
  <2> DEFINE old == r.note
             title == r.title
  <2>1. old \in Content /\ title \in {Untitled} \cup 0..MaxRequests /\ body \in Seq(Line)
    BY <1>3, <1>4
  <2> HIDE DEF old, title
  <2> DEFINE new == [title |-> title, body |-> body, pin |-> old.pin]
  <2>2. [old EXCEPT !.title = title, !.body = body] = new
    <3> DEFINE a == [old EXCEPT !.title = title]
    <3>1. old = [title |-> old.title, body |-> old.body, pin |-> old.pin]
      BY <2>1 DEF Content
    <3>2. a = [title |-> title, body |-> old.body, pin |-> old.pin]
      BY <3>1
    <3>3. [a EXCEPT !.body = body] = [title |-> a.title, body |-> body, pin |-> a.pin]
      <4> HIDE DEF a
      <4> QED BY <3>2
    <3>4. [a EXCEPT !.body = body] = new
      BY <3>2, <3>3
    <3> QED BY <3>4
  <2>3. new \in Content
    BY <2>1 DEF Content
  <2> QED BY <2>2, <2>3 DEF old, title
<1>7. Has(note, r.edit)
  BY <1>2, <1>4, <1>6 DEF Has
<1>8. w \notin crossed => Exists(file[r.id]) /\ r.note = file[r.id]
  BY <1>1, Now DEF Fresh
<1> HIDE DEF note
<1>9. x \in Request /\ x.pc = "write" /\ Same(x, r) /\ x.note = note
  BY <1>2, <1>6, PcFacts, AtNoteType
<1> HIDE DEF x, r
<1>10. Asking(x, copy[w]) /\ x.pc # "fill"
  BY <1>1, <1>2, <1>9 DEF Asking, Same, Mine
<1>11. ASSUME w \notin crossed PROVE Fresh(x, file, index, log)
  <2>1. Makes(x, file[r.id], log[r.id])
    BY <1>2, <1>5, <1>6, <1>8, <1>9, <1>11 DEF Makes, Same, Merged, Unknown
  <2> QED BY <1>7, <1>9, <2>1 DEF Fresh, Same, Mine
<1> QED BY <1>1, <1>9, <1>10, <1>11, OnlyStep

LEMMA CheckStep == ASSUME Inv, NEW w \in Writers, Check(w) PROVE Inv'
<1> DEFINE r == req[w]
           x == With(r, "write", NoNote)
<1>1. r.pc = "check" /\ w \in UnderWay
  BY DEF Check, UnderWay
<1>2. Asking(r, copy[w]) /\ r \in Request /\ r.id \in Notes /\ r.op = "delete"
  BY <1>1, Now DEF Asking
<1>3. CASE NotFound(w)
  BY <1>1, <1>3, NotFoundStep
<1>4. CASE Exists(file[r.id]) /\ Revision(r.id) = r.exp /\ Only(w, x)
  <2>1. x \in Request /\ x.pc = "write" /\ Same(x, r)
    BY <1>2, NoNoteType, AtNoteType, PcFacts
  <2> HIDE DEF x, r
  <2>2. Asking(x, copy[w]) /\ x.pc # "fill"
    BY <1>1, <1>2, <2>1 DEF Asking, Same, Mine
  <2>3. Makes(x, file[r.id], log[r.id])
    BY <1>2, <1>4, <2>1 DEF Makes, Same, Revision
  <2>4. Fresh(x, file, index, log)
    BY <1>2, <2>1, <2>3 DEF Fresh, Same, Mine
  <2> QED BY <1>1, <1>4, <2>1, <2>2, <2>4, OnlyStep
<1>5. CASE Only(w, Quiet)
  BY <1>1, <1>5, QuietType, OnlyStep
<1> QED BY <1>3, <1>4, <1>5 DEF Check, With

LEMMA DroppedType ==
  ASSUME NEW r \in Request
  PROVE  LET x == Dropped(r) IN x \in Request /\ x.pc = "unanswered" /\ Same(x, r)
<1> DEFINE x == Holding(r, "unanswered", NoNote, "text")
<1>0. NoNote \in Content /\ "unanswered" \in Pcs
  BY NoNoteType DEF Pcs
<1>1. x \in Request /\ x.pc = "unanswered" /\ Same(x, r)
  BY <1>0, HoldingType
<1>2. Dropped(r) = x
  BY DEF Dropped, Holding, Request
<1> HIDE DEF x
<1> QED BY <1>1, <1>2

LEMMA DroppedAsks ==
  ASSUME Inv, NEW w \in UnderWay
  PROVE  LET x == Dropped(req[w])
         IN  x \in Request /\ x.pc = "unanswered" /\ x.id = req[w].id /\ Asking(x, copy[w])
<1> DEFINE r == req[w]
           x == Dropped(r)
<1>1. r \in Request /\ Asking(r, copy[w]) /\ r.pc # "idle"
  BY Now DEF UnderWay
<1>2. x \in Request /\ x.pc = "unanswered" /\ Same(x, r)
  BY <1>1, DroppedType
<1> HIDE DEF x, r
<1>3. Asking(x, copy[w]) /\ x.id = r.id
  BY <1>1, <1>2 DEF Asking, Same, Mine
<1> QED BY <1>2, <1>3 DEF x, r

LEMMA WriteStep == ASSUME Inv, NEW w \in Writers, Write(w) PROVE Inv'
<1> DEFINE r == req[w]
<1>1. r.pc = "write" /\ w \in UnderWay
  BY DEF Write, UnderWay
<1>2. Asking(r, copy[w]) /\ r \in Request /\ r.id \in Notes /\ file \in [Notes -> Content]
  BY <1>1, Now DEF Texts
<1>3. w \notin crossed => Fresh(r, file, index, log)
  BY <1>1, Now
<1>4. CASE r.op # "delete"
  <2> DEFINE x == [r EXCEPT !.pc = "fill"]
  <2>1. Puts(w, Blank, x)
    BY <1>4 DEF Write
  <2>2. x \in Request /\ x.pc = "fill" /\ Same(x, r) /\ x.note = r.note
    BY <1>2, AtType DEF Pcs
  <2> HIDE DEF x, r
  <2>3. Asking(x, copy[w]) /\ x.id = r.id
    BY <1>1, <1>2, <1>4, <2>2 DEF Asking, Same, Mine
  <2>4. w \notin crossed => Fresh(x, file', index, log)
    BY <1>1, <1>3, <1>4, <2>2 DEF Fresh, Same, Mine
  <2> QED BY <1>1, <2>1, <2>2, <2>3, <2>4, NoNoteType, PutsStep DEF r
<1>5. CASE r.op = "delete" /\ Exists(file[r.id])
  <2> DEFINE x == [r EXCEPT !.pc = "add"]
  <2>1. Puts(w, NoNote, x)
    BY <1>5 DEF Write
  <2>2. x \in Request /\ x.pc = "add" /\ Same(x, r)
    BY <1>2, AtType DEF Pcs
  <2>3. ~Exists(file'[r.id])
    BY <1>2, <2>1 DEF Puts, Exists, NoNote
  <2> HIDE DEF x, r
  <2>4. Asking(x, copy[w]) /\ x.id = r.id
    BY <1>1, <1>2, <2>2 DEF Asking, Same, Mine
  <2>5. Fresh(x, file', index, log)
    BY <1>5, <2>2, <2>3 DEF Fresh, Same, Mine
  <2> QED BY <1>1, <2>1, <2>2, <2>4, <2>5, NoNoteType, PutsStep DEF r
<1>6. CASE r.op = "delete" /\ ~Exists(file[r.id])
  <2>1. Puts(w, NoNote, Dropped(r))
    BY <1>6 DEF Write
  <2> QED BY <1>1, <2>1, NoNoteType, DroppedAsks, PutsStep
<1> QED BY <1>4, <1>5, <1>6

LEMMA FillStep == ASSUME Inv, NEW w \in Writers, Fill(w) PROVE Inv'
<1> DEFINE r == req[w]
           x == With(r, "add", NoNote)
<1>1. r.pc = "fill" /\ w \in UnderWay /\ Puts(w, r.note, x)
  BY DEF Fill, UnderWay, With
<1>2. /\ Asking(r, copy[w]) /\ r \in Request /\ r.id \in Notes /\ r.op # "delete"
      /\ r.note \in Content /\ file \in [Notes -> Content]
  BY <1>1, Now DEF Texts, Asking
<1>3. w \notin crossed /\ Mine(r) => Has(r.note, r.edit)
  BY <1>1, Now DEF Fresh
<1>5. x \in Request /\ x.pc = "add" /\ Same(x, r)
  BY <1>2, NoNoteType, AtNoteType, PcFacts
<1>4. file'[r.id] = r.note
  <2>1. x.id = r.id
    BY <1>5 DEF Same
  <2>2. file' = [file EXCEPT ![x.id] = r.note]
    BY <1>1 DEF Puts
  <2> HIDE DEF x, r
  <2> QED BY <1>2, <2>1, <2>2
<1> HIDE DEF x, r
<1>6. Asking(x, copy[w]) /\ x.id = r.id
  BY <1>1, <1>2, <1>5 DEF Asking, Same, Mine
<1>7. w \notin crossed => Fresh(x, file', index, log)
  BY <1>2, <1>3, <1>4, <1>5 DEF Fresh, Same, Mine
<1> QED BY <1>1, <1>2, <1>5, <1>6, <1>7, PutsStep DEF r

LEMMA LengthsStay == ASSUME Texts, UNCHANGED log PROVE \A n \in Notes : Len(log[n]) <= Len(log'[n])
<1> SUFFICES ASSUME NEW n \in Notes PROVE Len(log[n]) <= Len(log[n])
  OBVIOUS
<1>1. log[n] \in Seq(Content)
  BY DEF Texts
<1>2. Len(log[n]) \in Nat
  BY <1>1
<1> QED BY <1>2

(* Versions are only added, so what a writer was told of stays.            *)
LEMMA GrownOthers ==
  ASSUME Texts, Others, Texts', \A n \in Notes : Len(log[n]) <= Len(log'[n]), crossed' \subseteq Writers,
         UNCHANGED <<lock, copy, sent, overlaps, deaths>>
  PROVE  Others'
<1>1. ASSUME NEW v \in Writers, NEW n \in Notes PROVE copy'[v][n].rev <= Len(log'[n])
  <2> DEFINE told == copy[v][n]
  <2>1. told \in Seen /\ told.rev <= Len(log[n]) /\ copy'[v][n] = told
    BY DEF Others
  <2>2. log[n] \in Seq(Content) /\ log'[n] \in Seq(Content)
    BY DEF Texts
  <2>3. Len(log[n]) \in Nat /\ Len(log'[n]) \in Nat
    BY <2>2
  <2> HIDE DEF told
  <2>4. told.rev \in Nat
    BY <2>1 DEF Seen
  <2> QED BY <2>1, <2>3, <2>4
<1> QED BY <1>1 DEF Others

(* git does its work, or fails unseen.                                     *)
LEMMA GitStep ==
  ASSUME Inv, NEW w \in UnderWay, NEW to \in {"commit", "look at pin", "answer"},
         to = "look at pin" => req[w].pin # "keep",
         NEW x, x = [req[w] EXCEPT !.pc = to], req' = [req EXCEPT ![w] = x],
         UNCHANGED <<lock, copy, sent, overlaps, deaths>>,
         \/ /\ Texts' /\ Crosses(w) /\ \A n \in Notes : Len(log[n]) <= Len(log'[n])
            /\ w \notin crossed /\ x.pc = to /\ Same(x, req[w]) => Fresh(x, file', index', log')
         \/ UNCHANGED folder /\ crossed' = crossed \cup {w}
  PROVE  Inv'
<1> DEFINE r == req[w]
<1>1. r \in Request /\ Asking(r, copy[w]) /\ r.pc # "idle" /\ w \in Writers
  BY Now DEF UnderWay
<1>3. x \in Request /\ x.pc = to /\ Same(x, r)
  <2>1. r \in Request /\ to \in Pcs
    BY <1>1 DEF Pcs
  <2> HIDE DEF r
  <2>2. LET y == [r EXCEPT !.pc = to] IN y \in Request /\ y.pc = to /\ Same(y, r)
    BY <2>1, AtType
  <2> QED BY <2>2 DEF r
<1>4. Texts /\ Others
  BY DEF Inv
<1>5. Texts' /\ (\A n \in Notes : Len(log[n]) <= Len(log'[n])) /\ crossed' \subseteq Writers
  <2>1. CASE UNCHANGED folder /\ crossed' = crossed \cup {w}
    <3>2. Texts' /\ log' = log
      <4>1. UNCHANGED <<file, index, log>>
        BY <2>1 DEF folder
      <4> QED BY <4>1, <1>4 DEF Texts
    <3>3. crossed' \subseteq Writers
      BY <2>1, <1>1, <1>4 DEF Others
    <3>4. \A n \in Notes : Len(log[n]) <= Len(log'[n])
      BY <3>2, <1>4, LengthsStay
    <3> QED BY <3>2, <3>3, <3>4
  <2>2. CASE Crosses(w) /\ Texts' /\ \A n \in Notes : Len(log[n]) <= Len(log'[n])
    BY <2>2, <1>4 DEF Others, Crosses, UnderWay
  <2> QED BY <2>1, <2>2
<1>6. Others'
  BY <1>4, <1>5, GrownOthers
<1>7. ASSUME w \notin crossed' PROVE Fresh(x, file', index', log') /\ w \in UnderWay \ crossed
  BY <1>3, <1>7 DEF Crosses
<1>8. to = "look at pin" => r.pin # "keep"
  OBVIOUS
<1> HIDE DEF r
<1>9. Asking(x, copy[w]) /\ x.pc # "fill"
  BY <1>1, <1>3, <1>8 DEF Asking, Same, Mine
<1>10. copy' = copy
  OBVIOUS
<1>11. w \in crossed' \/ (Fresh(x, file', index', log') /\ w \in UnderWay \ crossed)
  BY <1>7
<1>12. (UNCHANGED folder /\ crossed \ {w} \subseteq crossed') \/ Crosses(w)
  OBVIOUS
<1> QED BY <1>1, <1>3, <1>5, <1>6, <1>9, <1>10, <1>11, <1>12, Step

LEMMA AddStep == ASSUME Inv, NEW w \in Writers, Add(w) PROVE Inv'
<1> DEFINE r == req[w]
           x == [r EXCEPT !.pc = "commit"]
<1>1. /\ r.pc = "add" /\ w \in UnderWay /\ req' = [req EXCEPT ![w] = x]
      /\ UNCHANGED <<lock, copy, sent, overlaps, deaths>>
      /\ \/ index' = file /\ UNCHANGED <<file, log>> /\ Crosses(w)
         \/ UNCHANGED folder /\ crossed' = crossed \cup {w}
  BY DEF Add, Git, UnderWay
<1>2. Texts /\ r.id \in Notes
  BY <1>1, Now
<1>3. CASE UNCHANGED folder /\ crossed' = crossed \cup {w}
  <2> HIDE DEF x
  <2> QED BY <1>1, <1>3, GitStep DEF x
<1>4. CASE index' = file /\ UNCHANGED <<file, log>> /\ Crosses(w)
  <2>1. Texts' /\ \A n \in Notes : Len(log[n]) <= Len(log'[n])
    <3>1. \A n \in Notes : Len(log[n]) <= Len(log'[n])
      BY <1>2, <1>4, LengthsStay
    <3> QED BY <1>2, <1>4, <3>1 DEF Texts
  <2>2. ASSUME w \notin crossed, x.pc = "commit", Same(x, r)
        PROVE  Fresh(x, file', index', log')
    <3>1. Fresh(r, file, index, log)
      BY <1>1, <2>2, Now
    <3> HIDE DEF x, r
    <3> QED BY <1>1, <1>4, <2>2, <3>1 DEF Fresh, Same, Mine
  <2> HIDE DEF x
  <2> QED BY <1>1, <1>4, <2>1, <2>2, GitStep DEF x
<1> QED BY <1>1, <1>3, <1>4

(* A commit adds what is staged where it differs from the newest version.  *)
LEMMA CommittedType ==
  ASSUME Inv
  PROVE  /\ Committed \in [Notes -> Seq(Content)] /\ \A n \in Notes : Len(log[n]) <= Len(Committed[n])
         /\ \A n \in Notes : index[n] # NoNote =>
              Committed[n] # <<>> /\ Committed[n][Len(Committed[n])] = index[n]
<1>1. ASSUME NEW n \in Notes
      PROVE  /\ Committed[n] \in Seq(Content) /\ Len(log[n]) <= Len(Committed[n])
             /\ index[n] # NoNote => Committed[n] # <<>> /\ Committed[n][Len(Committed[n])] = index[n]
  <2>1. index[n] \in Content /\ log[n] \in Seq(Content) /\ Len(log[n]) \in Nat
    BY DEF Inv, Texts
  <2> DEFINE longer == Append(log[n], index[n])
  <2>2. longer \in Seq(Content) /\ Len(longer) = Len(log[n]) + 1 /\ longer # <<>> /\ longer[Len(longer)] = index[n]
    BY <2>1
  <2>3. Committed[n] = IF index[n] = Newest(n) THEN log[n] ELSE longer
    BY DEF Committed
  <2>4. log[n] # <<>> => Newest(n) = log[n][Len(log[n])]
    BY DEF Newest, Last
  <2>5. log[n] = <<>> => Newest(n) = NoNote
    BY DEF Newest
  <2> HIDE DEF longer
  <2> QED BY <2>1, <2>2, <2>3, <2>4, <2>5
<1> QED BY <1>1 DEF Committed

LEMMA HasSomething == ASSUME NEW note, NEW e, Has(note, e), e # 0 PROVE note # NoNote
BY WordsNone DEF Has, NoNote

LEMMA CommitStep == ASSUME Inv, NEW w \in Writers, Commit(w) PROVE Inv'
<1> DEFINE r == req[w]
           to == IF r.pin # "keep" /\ r.part = "text" THEN "look at pin" ELSE "answer"
           x == [r EXCEPT !.pc = to]
<1>1. /\ r.pc = "commit" /\ w \in UnderWay /\ req' = [req EXCEPT ![w] = x]
      /\ UNCHANGED <<lock, copy, sent, overlaps, deaths>>
      /\ \/ log' = Committed /\ UNCHANGED <<file, index>> /\ Crosses(w)
         \/ UNCHANGED folder /\ crossed' = crossed \cup {w}
  BY DEF Commit, Git, UnderWay
<1>2. Texts /\ r.id \in Notes /\ Asking(r, copy[w])
  BY <1>1, Now
<1>3. to \in {"commit", "look at pin", "answer"} /\ to # "commit" /\ (to = "look at pin" => r.pin # "keep")
  OBVIOUS
<1> HIDE DEF to
<1>4. CASE UNCHANGED folder /\ crossed' = crossed \cup {w}
  <2> HIDE DEF x
  <2> QED BY <1>1, <1>3, <1>4, GitStep DEF x
<1>5. CASE log' = Committed /\ UNCHANGED <<file, index>> /\ Crosses(w)
  <2>1. Texts' /\ \A n \in Notes : Len(log[n]) <= Len(log'[n])
    BY <1>2, <1>5, CommittedType DEF Texts
  <2>2. ASSUME w \notin crossed, x.pc = to, Same(x, r)
        PROVE  Fresh(x, file', index', log')
    <3>1. Fresh(r, file, index, log)
      BY <1>1, <2>2, Now
    <3>2. /\ index = file /\ (r.op = "delete" => ~Exists(file[r.id]))
          /\ Mine(r) => Has(file[r.id], r.edit) /\ r.edit # 0
      BY <1>1, <1>2, <3>1 DEF Fresh, Asking
    <3>3. Mine(r) => file[r.id] # NoNote
      BY <3>2, HasSomething
    <3>4. Mine(r) => log'[r.id] # <<>> /\ file[r.id] = log'[r.id][Len(log'[r.id])]
      BY <1>2, <1>5, <3>2, <3>3, CommittedType
    <3> HIDE DEF x, r
    <3> QED BY <1>3, <1>5, <2>2, <3>2, <3>4 DEF Fresh, Same, Mine
  <2> HIDE DEF x
  <2> QED BY <1>1, <1>3, <1>5, <2>1, <2>2, GitStep DEF x
<1> QED BY <1>1, <1>4, <1>5

LEMMA AnswerStep == ASSUME Inv, NEW w \in Writers, Answer(w) PROVE Inv'
<1> DEFINE r == req[w]
           note == file[r.id]
           x == Holding(r, "count", note, "text")
<1>1. r.pc = "answer" /\ w \in UnderWay /\ r.id \in Notes /\ Asking(r, copy[w]) /\ Texts
  BY Now DEF Answer, Look, UnderWay
<1>2. CASE Look(w, "answer", "count", note, "text")
  <2>1. note \in Content
    BY <1>1, FileFacts
  <2>2. x.pc = "count" /\ Same(x, r) => Asking(x, copy[w])
    <3> HIDE DEF x, r
    <3> QED BY <1>1 DEF Asking, Same, Mine
  <2>3. ASSUME Exists(note), w \notin crossed, x.pc = "count", x.note = note, Same(x, r)
        PROVE  Fresh(x, file, index, log)
    <3>1. Fresh(r, file, index, log)
      BY <1>1, <2>3, Now
    <3> HIDE DEF x, r
    <3> QED BY <1>1, <2>3, <3>1 DEF Fresh, Same, Mine
  <2>4. "answer" \in Pcs \ {"idle", "unanswered"} /\ "count" \in Pcs \ {"fill"}
    BY DEF Pcs
  <2> HIDE DEF x, note
  <2> QED BY <1>2, <2>1, <2>2, <2>3, <2>4, LookStep DEF x, note
<1>3. CASE Told(w, Unread)
  <2>1. Len(log[r.id]) \in Nat
    BY <1>1 DEF Texts
  <2> QED BY <1>1, <1>3, <2>1, NoNoteType, ToldStep
<1> QED BY <1>2, <1>3 DEF Answer

LEMMA CountStep == ASSUME Inv, NEW w \in Writers, Count(w) PROVE Inv'
<1> DEFINE r == req[w]
           seen == [rev |-> Len(log[r.id]), note |-> r.note]
<1>1. r.pc = "count" /\ w \in UnderWay /\ r.id \in Notes /\ r.note \in Content /\ Texts
  BY Now DEF Count, UnderWay
<1>2. CASE Told(w, seen)
  <2>1. Len(log[r.id]) \in Nat
    BY <1>1 DEF Texts
  <2>2. seen \in Seen /\ seen.rev = Len(log[r.id])
    BY <1>1, <2>1 DEF Seen
  <2> HIDE DEF seen
  <2> QED BY <1>1, <1>2, <2>1, <2>2, ToldStep
<1>3. CASE Only(w, Dropped(r))
  BY <1>1, <1>3, DroppedAsks, OnlyStep
<1> QED BY <1>2, <1>3 DEF Count, Counted, Revision

LEMMA DiesStep == ASSUME Inv, NEW w \in Writers, Dies(w) PROVE Inv'
<1> DEFINE x == Dropped(req[w])
<1>1. /\ w \in UnderWay /\ req' = [req EXCEPT ![w] = x] /\ deaths < MaxDeaths /\ deaths' = deaths + 1
      /\ lock' \in {lock, "stale"} /\ UNCHANGED <<file, index, log, copy, sent, overlaps, crossed>>
  BY DEF Dies, folder
<1>2. x \in Request /\ x.pc = "unanswered" /\ Asking(x, copy[w])
  BY <1>1, DroppedAsks
<1>3. Texts' /\ Others'
  <2>1. Texts /\ Others
    BY DEF Inv
  <2>2. deaths' \in 0..MaxDeaths
    BY <1>1, <2>1, BoundsAssumption DEF Others
  <2> QED BY <1>1, <2>1, <2>2 DEF Texts, Others
<1> HIDE DEF x
<1> QED BY <1>1, <1>2, <1>3, Step DEF folder

(* The Mac's pushes: a request under way when one is done is crossed.      *)
LEMMA PushStep ==
  ASSUME Inv, PushBegins \/ PushFails
  PROVE  Inv'
<1>1. /\ UNCHANGED <<file, index, log, req, copy, sent, deaths, crossed>>
      /\ lock' \in {"push", "free"} /\ overlaps' \in 0..MaxOverlaps
  <2>1. overlaps \in 0..MaxOverlaps /\ MaxOverlaps \in Nat
    BY BoundsAssumption DEF Inv, Others
  <2>2. CASE PushBegins
    BY <2>1, <2>2 DEF PushBegins, Overlapping, folder
  <2>3. CASE PushFails
    BY <2>1, <2>3 DEF PushFails, folder
  <2> QED BY <2>2, <2>3
<1>2. Texts' /\ Others'
  BY <1>1 DEF Inv, Texts, Others
<1> QED BY <1>1, <1>2 DEF Inv, UnderWay, Alone

LEMMA MacPushStep == ASSUME Inv, NEW n \in Notes, MacPush(n) PROVE Inv'
<1> DEFINE e == sent + 1
           text == <<e>>
           pushed == [Newest(n) EXCEPT !.body = text]
<1>1. /\ sent < MaxRequests /\ sent' = e /\ UNCHANGED <<req, copy, overlaps, deaths>> /\ lock' = "free"
      /\ crossed' = crossed \cup UnderWay /\ Clean /\ index' = file'
      /\ \E note : /\ note = [Newest(n) EXCEPT !.body = <<sent'>>]
                   /\ file' = [file EXCEPT ![n] = note] /\ log' = [log EXCEPT ![n] = Append(@, note)]
  BY DEF MacPush, Numbered
<1>2. /\ file' = [file EXCEPT ![n] = pushed] /\ log' = [log EXCEPT ![n] = Append(@, pushed)]
  BY <1>1
<1>3. Texts /\ Others /\ file[n] \in Content /\ Newest(n) = file[n] /\ log[n] \in Seq(Content)
  BY <1>1 DEF Clean, Inv, Texts
<1>4. e \in 1..MaxRequests /\ sent' \in 0..MaxRequests
  BY <1>1, <1>3, BoundsAssumption DEF Others
<1> HIDE DEF e
<1>5. text \in Seq(Line)
  BY <1>4, LineOne
<1> HIDE DEF text
<1>6. pushed \in Content
  <2>1. pushed = [file[n] EXCEPT !.body = text]
    BY <1>3
  <2> HIDE DEF pushed
  <2> QED BY <1>3, <1>5, <2>1 DEF Content
<1> HIDE DEF pushed
<1>7. Append(log[n], pushed) \in Seq(Content) /\ Len(Append(log[n], pushed)) = Len(log[n]) + 1 /\ Len(log[n]) \in Nat
  BY <1>3, <1>6
<1>8. Texts' /\ \A m \in Notes : Len(log[m]) <= Len(log'[m])
  <2>1. Texts'
    BY <1>1, <1>2, <1>3, <1>6, <1>7 DEF Texts
  <2>2. ASSUME NEW m \in Notes PROVE Len(log[m]) <= Len(log'[m])
    <3>1. Len(log[m]) \in Nat /\ log'[m] = IF m = n THEN Append(log[n], pushed) ELSE log[m]
      BY <1>2, <1>3 DEF Texts
    <3> QED BY <1>7, <3>1
  <2> QED BY <2>1, <2>2
<1>9. Others'
  <2>1. ASSUME NEW v \in Writers, NEW m \in Notes PROVE copy'[v][m].rev <= Len(log'[m])
    <3>1. copy[v][m].rev \in Nat /\ copy[v][m].rev <= Len(log[m]) /\ Len(log[m]) \in Nat /\ Len(log'[m]) \in Nat
      BY <1>3, <1>8 DEF Others, Texts, Seen
    <3> QED BY <1>1, <1>8, <3>1
  <2>2. crossed' \subseteq Writers
    BY <1>1, <1>3 DEF Others, UnderWay
  <2> QED BY <1>1, <1>3, <1>4, <2>1, <2>2 DEF Others
<1>10. UnderWay' \ crossed' = {}
  BY <1>1 DEF UnderWay
<1> QED BY <1>1, <1>8, <1>9, <1>10 DEF Inv

LEMMA InvInit == Init => Inv
<1> SUFFICES ASSUME Init PROVE Inv
  OBVIOUS
<1>1. /\ 0 \in 0..MaxRequests /\ 0 \in 0..MaxDeaths /\ 0 \in 0..MaxOverlaps /\ <<>> \in Seq(Content)
      /\ Len(<<>>) = 0
  BY BoundsAssumption
<1>2. /\ Texts /\ req \in [Writers -> Request]
  BY <1>1, NoNoteType, QuietType DEF Init, Texts
<1>3. ASSUME NEW w \in Writers, NEW n \in Notes PROVE copy[w][n].rev <= Len(log[n])
  <2>1. copy[w][n] = Unread /\ log[n] = <<>>
    BY DEF Init
  <2> QED BY <1>1, <2>1, NoNoteType
<1>4. Others
  <2>1. copy \in [Writers -> [Notes -> Seen]]
    BY NoNoteType DEF Init
  <2> QED BY <1>1, <1>3, <2>1 DEF Init, Others
<1>5. \A w \in Writers : req[w] = Quiet
  BY DEF Init
<1>6. UnderWay = {}
  BY <1>5, QuietType DEF UnderWay
<1> QED BY <1>2, <1>4, <1>5, <1>6, QuietType DEF Inv

LEMMA InvNext == Inv /\ [Next]_vars => Inv'
<1> SUFFICES ASSUME Inv, [Next]_vars PROVE Inv'
  OBVIOUS
<1>1. CASE UNCHANGED vars
  BY <1>1 DEF vars, folder, Inv, Texts, Others, UnderWay, Alone
<1>2. ASSUME NEW w \in Writers, NEW n \in Notes, Ask(w, n) PROVE Inv'
  BY <1>2, AskStep
<1>3. ASSUME NEW w \in Writers, Serve(w) PROVE Inv'
  BY <1>3, LookSaveStep, LookMetaStep, LookResolveStep, CompareStep, CheckStep,
     WriteStep, FillStep, AddStep, CommitStep, AnswerStep, CountStep DEF Serve
<1>4. ASSUME NEW w \in Writers, Retry(w) \/ Reload(w) \/ Dies(w) PROVE Inv'
  BY <1>4, RetryStep, ReloadStep, DiesStep
<1>5. ASSUME NEW n \in Notes, MacPush(n) PROVE Inv'
  BY <1>5, MacPushStep
<1> QED BY <1>1, <1>2, <1>3, <1>4, <1>5, PushStep DEF Next

LEMMA InvHolds == Spec => []Inv
BY InvInit, InvNext, PTL DEF Spec

(* The folder, the requests and what the writers were told keep their      *)
(* types, a request under way is about a note, and nobody was told of a    *)
(* version that does not exist: for every set of writers and notes,        *)
(* however their requests and the Mac's pushes overlap, and whoever dies.  *)
THEOREM Typing == Spec => []TypeOK
BY InvHolds, InvTypes, PTL

(* Whatever text a note's file comes to hold, with clash blocks side by    *)
(* side, nested or cut short: resolving it by both sides keeps every line  *)
(* of the owner in its order, and a whole block gives up exactly the side  *)
(* that was asked for (settle, notes_store.py:379-400).                    *)
THEOREM Settles == Spec => []SettleKeeps
<1>1. Inv => SettleKeeps
  <2> SUFFICES ASSUME Inv, NEW n \in Notes PROVE SettlesWell(file[n].body)
    BY DEF SettleKeeps
  <2> QED BY FileFacts, SettlesTexts
<1> QED BY <1>1, InvHolds, PTL

-----------------------------------------------------------------------------
(* A save that nothing crossed ends as the version its writer is told of.  *)
LEMMA OwnStep ==
  ASSUME Inv, NEW v \in Writers, Serve(v) \/ Retry(v) \/ Reload(v) \/ Dies(v) \/ \E n \in Notes : Ask(v, n)
  PROVE  \E x : req' = [req EXCEPT ![v] = x]
<1>1. ASSUME NEW n \in Notes, Ask(v, n) PROVE \E x : req' = [req EXCEPT ![v] = x]
  <2>1. \E op, r : Send(v, n, op, r)
    BY <1>1, ZenonT(40) DEF Ask, SendRead, SendCreate, SendSave, SendMeta, SendResolve, SendDelete
  <2> QED BY <2>1, ZenonT(40) DEF Send, Begun
<1>2. CASE Retry(v) \/ Reload(v) \/ Dies(v)
  BY <1>2 DEF Retry, Begun, Reload, Dies
<1>3. CASE LookSave(v) \/ LookMeta(v) \/ LookResolve(v) \/ Compare(v) \/ Check(v)
  BY <1>3 DEF LookSave, LookMeta, LookResolve, Look, NotFound, Told, Only, Compare, Check
<1>4. CASE Write(v) \/ Fill(v)
  BY <1>4 DEF Write, Fill, Puts
<1>5. CASE Add(v) \/ Commit(v) \/ Answer(v) \/ Count(v)
  BY <1>5 DEF Add, Commit, Git, Answer, Look, NotFound, Told, Only, Count
<1> QED BY <1>1, <1>2, <1>3, <1>4, <1>5 DEF Serve

LEMMA OnlyCountEnds ==
  ASSUME Inv, Next, NEW w \in Writers, req[w].pc = "count", req'[w].pc = "idle"
  PROVE  Count(w)
<1>1. req \in [Writers -> Request] /\ req'[w] # req[w]
  BY DEF Inv
<1>2. CASE PushBegins \/ PushFails \/ \E n \in Notes : MacPush(n)
  BY <1>1, <1>2 DEF PushBegins, PushFails, MacPush
<1>3. ASSUME NEW v \in Writers, Serve(v) \/ Retry(v) \/ Reload(v) \/ Dies(v) \/ \E n \in Notes : Ask(v, n)
      PROVE  Count(w)
  <2>1. v = w
    BY <1>1, <1>3, OwnStep
  <2>2. ~Retry(w) /\ ~Reload(w) /\ ~\E n \in Notes : Ask(w, n)
    BY DEF Retry, Reload, Ask, SendRead, SendCreate, SendSave, SendMeta, SendResolve, SendDelete, Send
  <2>3. ~Dies(w)
    <3> SUFFICES ASSUME Dies(w) PROVE FALSE
      OBVIOUS
    <3>1. req'[w] = Dropped(req[w])
      BY <1>1 DEF Dies
    <3> QED BY <1>1, <3>1, DroppedType
  <2>4. ~LookSave(w) /\ ~LookMeta(w) /\ ~LookResolve(w) /\ ~Compare(w) /\ ~Check(w)
    BY DEF LookSave, LookMeta, LookResolve, Look, Compare, Check
  <2>5. ~Write(w) /\ ~Fill(w) /\ ~Add(w) /\ ~Commit(w) /\ ~Answer(w)
    BY DEF Write, Fill, Add, Commit, Git, Answer, Look
  <2> QED BY <1>3, <2>1, <2>2, <2>3, <2>4, <2>5 DEF Serve
<1> QED BY <1>2, <1>3 DEF Next

(* Every save is a version when nothing got in its way: what its writer is *)
(* told at its end is the newest version, under that version's number and  *)
(* with the edit in it, for all numbers of writers, notes and overlaps,    *)
(* and after any others that died half way (notes_store.py:3-8, 338-375).  *)
THEOREM SavesAreVersions == Spec => SaveIsVersion
<1> DEFINE Ends == \A w \in Writers \ crossed : EndsAsVersion(w)
<1>1. Inv /\ [Next]_vars => [Ends]_vars
  <2> SUFFICES ASSUME Inv, Next, NEW w \in Writers \ crossed,
                      req[w].op \in {"create", "save"}, req[w].pc = "count", req'[w].pc = "idle"
               PROVE  LET n == req[w].id
                          seen == copy'[w][n]
                      IN  /\ seen.rev \in 1..Len(log[n]) /\ log[n][seen.rev] = seen.note
                          /\ Has(seen.note, req[w].edit)
    BY DEF EndsAsVersion
  <2> DEFINE r == req[w]
             n == r.id
             seen == [rev |-> Len(log[n]), note |-> r.note]
  <2>1. Count(w) /\ w \in UnderWay /\ r \in Request /\ n \in Notes /\ Texts /\ Others
    BY OnlyCountEnds, Now DEF UnderWay
  <2>2. Told(w, seen)
    <3>1. ~Only(w, Dropped(r))
      <4>1. Dropped(r).pc = "unanswered"
        BY <2>1, DroppedType
      <4>2. req \in [Writers -> Request]
        BY DEF Inv
      <4> QED BY <4>1, <4>2 DEF Only
    <3> QED BY <2>1, <3>1 DEF Count, Counted, Revision
  <2>3. copy'[w][n] = seen
    BY <2>1, <2>2 DEF Told, Others
  <2>4. Fresh(r, file, index, log)
    BY <2>1, Now
  <2>5. r.note = file[n] /\ Has(file[n], r.edit) /\ log[n] # <<>> /\ file[n] = log[n][Len(log[n])]
    BY <2>4 DEF Fresh, Mine
  <2>6. Len(log[n]) \in 1..Len(log[n])
    <3>1. log[n] \in Seq(Content)
      BY <2>1 DEF Texts
    <3> QED BY <2>5, <3>1
  <2> QED BY <2>3, <2>5, <2>6
<1>2. SaveIsVersion <=> [][Ends]_vars
  BY DEF SaveIsVersion
<1> HIDE DEF Ends
<1> QED BY <1>1, <1>2, InvHolds, PTL DEF Spec

-----------------------------------------------------------------------------
(* A request that nothing crossed is as good as single steps.              *)

(* The two modules speak of the same texts.                                *)
LEMMA SameText ==
  /\ Atomic!NoNote = NoNote /\ Atomic!Unread = Unread
  /\ \A note : Atomic!Exists(note) <=> Exists(note)
  /\ \A mine, theirs : Atomic!Block(mine, theirs) = Block(mine, theirs)
BY DEF Atomic!NoNote, NoNote, Atomic!Unread, Unread, Atomic!Exists, Exists, Atomic!Block, Block,
       Atomic!Opens, Opens, Atomic!Splits, Splits, Atomic!Closes, Closes

LEMMA SameSettle == \A body, keep : Atomic!Settle(body, keep) = Settle(body, keep)
BY DEF Atomic!Settle, Settle, Atomic!Settled, Settled, Atomic!SettleLine, SettleLine,
       Atomic!Opens, Opens, Atomic!Splits, Splits, Atomic!Closes, Closes

(* What is shown of files f while requests q are under way.                *)
Fillers(q, n) == {w \in Writers : q[w].pc = "fill" /\ q[w].id = n}
ShownOf(f, q) == [n \in Notes |-> IF Fillers(q, n) = {} THEN f[n] ELSE q[CHOOSE w \in Fillers(q, n) : TRUE].note]

LEMMA ShownOne ==
  ASSUME NEW f \in [Notes -> Content], NEW q, NEW w \in Writers, \A v \in Writers \ {w} : q[v].pc # "fill"
  PROVE  /\ q[w].pc # "fill" => ShownOf(f, q) = f
         /\ q[w].pc = "fill" => ShownOf(f, q) = [f EXCEPT ![q[w].id] = q[w].note]
<1>1. CASE q[w].pc # "fill"
  <2>1. \A n \in Notes : Fillers(q, n) = {}
    BY <1>1 DEF Fillers
  <2> QED BY <1>1, <2>1 DEF ShownOf
<1>2. CASE q[w].pc = "fill"
  <2>1. ASSUME NEW n \in Notes
        PROVE  ShownOf(f, q)[n] = IF n = q[w].id THEN q[w].note ELSE f[n]
    <3>1. CASE n = q[w].id
      <4>1. Fillers(q, n) = {w}
        BY <1>2, <3>1 DEF Fillers
      <4>2. (CHOOSE v \in {w} : TRUE) = w
        OBVIOUS
      <4> QED BY <3>1, <4>1, <4>2 DEF ShownOf
    <3>2. CASE n # q[w].id
      <4>1. Fillers(q, n) = {}
        BY <3>2 DEF Fillers
      <4> QED BY <3>2, <4>1 DEF ShownOf
    <3> QED BY <3>1, <3>2
  <2> DEFINE g == ShownOf(f, q)
             h == [f EXCEPT ![q[w].id] = q[w].note]
  <2>2. g = [n \in Notes |-> g[n]]
    BY DEF ShownOf
  <2>3. h = [n \in Notes |-> h[n]] /\ \A n \in Notes : h[n] = IF n = q[w].id THEN q[w].note ELSE f[n]
    OBVIOUS
  <2>4. \A n \in Notes : g[n] = h[n]
    BY <2>1, <2>3
  <2> HIDE DEF g, h
  <2>5. g = h
    BY <2>2, <2>3, <2>4
  <2> QED BY <1>2, <2>5 DEF g, h
<1> QED BY <1>1, <1>2

LEMMA ServeShows ==
  ASSUME Inv, Inv', NEW w \in UnderWay \ crossed, NEW x, req' = [req EXCEPT ![w] = x]
  PROVE  /\ req[w].pc # "fill" => Shown = file
         /\ req[w].pc = "fill" => Shown = [file EXCEPT ![req[w].id] = req[w].note]
         /\ x.pc # "fill" => Shown' = file'
         /\ x.pc = "fill" => Shown' = [file' EXCEPT ![x.id] = x.note]
<1>1. w \in Writers /\ Alone(w) /\ file \in [Notes -> Content] /\ req \in [Writers -> Request]
  BY DEF Inv, UnderWay, Texts
<1>2. file' \in [Notes -> Content]
  BY DEF Inv, Texts
<1>3. req'[w] = x /\ \A v \in Writers \ {w} : req'[v].pc # "fill"
  BY <1>1 DEF Alone
<1>4. Shown = ShownOf(file, req) /\ Shown' = ShownOf(file', req')
  BY DEF Shown, ShownOf, Filling, Fillers
<1>5. /\ req[w].pc # "fill" => ShownOf(file, req) = file
      /\ req[w].pc = "fill" => ShownOf(file, req) = [file EXCEPT ![req[w].id] = req[w].note]
  BY <1>1, ShownOne DEF Alone
<1>6. /\ req'[w].pc # "fill" => ShownOf(file', req') = file'
      /\ req'[w].pc = "fill" => ShownOf(file', req') = [file' EXCEPT ![req'[w].id] = req'[w].note]
  BY <1>1, <1>2, <1>3, ShownOne
<1> QED BY <1>3, <1>4, <1>5, <1>6

Quietly == UNCHANGED <<Shown, log, copy>>

LEMMA OnlyAtomic ==
  ASSUME Inv, Inv', NEW w \in UnderWay \ crossed, req[w].pc # "fill", NEW x, x.pc # "fill", Only(w, x)
  PROVE  Quietly
<1>1. req' = [req EXCEPT ![w] = x] /\ UNCHANGED <<file, log, copy>>
  BY DEF Only, folder
<1>2. Shown = file /\ Shown' = file'
  BY <1>1, ServeShows
<1> QED BY <1>1, <1>2 DEF Quietly

LEMMA ToldAtomic ==
  ASSUME Inv, Inv', NEW w \in UnderWay \ crossed, req[w].pc # "fill", NEW seen, Told(w, seen),
         seen = IF Exists(file[req[w].id]) THEN [rev |-> Len(log[req[w].id]), note |-> file[req[w].id]] ELSE Unread
  PROVE  Atomic!Tell(w)
<1>1. /\ req' = [req EXCEPT ![w] = Quiet] /\ copy' = [copy EXCEPT ![w][req[w].id] = seen]
      /\ UNCHANGED <<file, log>>
  BY DEF Told, folder
<1>2. Shown = file /\ Shown' = file'
  BY <1>1, ServeShows, QuietType
<1> QED BY <1>1, <1>2, SameText DEF Atomic!Tell

LEMMA LookAtomic ==
  ASSUME Inv, Inv', NEW w \in UnderWay \ crossed, NEW from, from # "fill", NEW to \in Pcs \ {"fill"}, NEW note,
         NEW part \in {"text", "pin"}, Look(w, from, to, note, part)
  PROVE  Atomic!Next \/ Quietly
<1>1. req[w].pc # "fill" /\ w \in Writers
  BY DEF Look, UnderWay
<1>2. CASE NotFound(w)
  <2>1. Atomic!Tell(w)
    BY <1>1, <1>2, ToldAtomic DEF NotFound
  <2> QED BY <1>1, <2>1 DEF Atomic!Next
<1>3. CASE Only(w, Holding(req[w], to, note, part))
  <2>1. Holding(req[w], to, note, part).pc = to
    BY <1>1, Now DEF Holding, Request
  <2> QED BY <1>1, <1>3, <2>1, OnlyAtomic
<1> QED BY <1>2, <1>3 DEF Look, Holding

LEMMA LooksAtomic ==
  ASSUME Inv, Inv', NEW w \in UnderWay \ crossed, LookSave(w) \/ LookMeta(w) \/ LookResolve(w) \/ Answer(w)
  PROVE  Atomic!Next \/ Quietly
<1>0. {"compare", "write", "count"} \subseteq Pcs \ {"fill"}
  BY DEF Pcs
<1>1. CASE LookSave(w)
  BY <1>0, <1>1, LookAtomic DEF LookSave
<1>2. CASE LookMeta(w)
  BY <1>0, <1>2, LookAtomic DEF LookMeta
<1>3. CASE LookResolve(w)
  BY <1>0, <1>3, LookAtomic DEF LookResolve
<1>4. CASE Look(w, "answer", "count", file[req[w].id], "text")
  BY <1>0, <1>4, LookAtomic
<1>5. CASE req[w].op = "delete" /\ req[w].pc = "answer" /\ Told(w, Unread)
  <2>1. Fresh(req[w], file, index, log) /\ w \in Writers
    BY Now DEF UnderWay
  <2>2. ~Exists(file[req[w].id])
    BY <1>5, <2>1 DEF Fresh
  <2>3. Atomic!Tell(w)
    BY <1>5, <2>2, ToldAtomic
  <2> QED BY <2>1, <2>3 DEF Atomic!Next
<1> QED BY <1>1, <1>2, <1>3, <1>4, <1>5 DEF Answer

LEMMA CompareAtomic ==
  ASSUME Inv, Inv', NEW w \in UnderWay \ crossed, Compare(w)
  PROVE  Quietly
<1> DEFINE r == req[w]
<1>1. r.pc = "compare" /\ \E note : Only(w, With(r, "write", note))
  BY DEF Compare, With
<1>2. PICK note : Only(w, With(r, "write", note))
  BY <1>1
<1>3. r \in Request
  BY Now DEF UnderWay
<1>4. With(r, "write", note).pc = "write"
  <2> HIDE DEF r
  <2> QED BY <1>3 DEF With, Request
<1> QED BY <1>1, <1>2, <1>4, OnlyAtomic

LEMMA CheckAtomic ==
  ASSUME Inv, Inv', NEW w \in UnderWay \ crossed, Check(w)
  PROVE  Atomic!Next \/ Quietly
<1> DEFINE r == req[w]
<1>1. r.pc = "check" /\ r \in Request /\ w \in Writers
  BY Now DEF Check, UnderWay
<1>2. CASE NotFound(w)
  <2>1. Atomic!Tell(w)
    BY <1>1, <1>2, ToldAtomic DEF NotFound
  <2> QED BY <1>1, <2>1 DEF Atomic!Next
<1>3. CASE Only(w, With(r, "write", NoNote))
  <2>1. With(r, "write", NoNote).pc = "write"
    <3> HIDE DEF r
    <3> QED BY <1>1 DEF With, Request
  <2> QED BY <1>1, <1>3, <2>1, OnlyAtomic
<1>4. CASE Only(w, Quiet)
  BY <1>1, <1>4, QuietType, OnlyAtomic
<1> QED BY <1>2, <1>3, <1>4 DEF Check, With

LEMMA CountAtomic ==
  ASSUME Inv, Inv', NEW w \in UnderWay \ crossed, Count(w)
  PROVE  Atomic!Next \/ Quietly
<1> DEFINE r == req[w]
<1>1. r.pc = "count" /\ r \in Request /\ w \in Writers /\ Fresh(r, file, index, log)
  BY Now DEF Count, UnderWay
<1>2. Exists(file[r.id]) /\ r.note = file[r.id]
  BY <1>1 DEF Fresh
<1>3. Told(w, [rev |-> Len(log[r.id]), note |-> r.note])
  BY <1>2 DEF Count, Counted, Revision
<1>4. Atomic!Tell(w)
  BY <1>1, <1>2, <1>3, ToldAtomic
<1> QED BY <1>1, <1>4 DEF Atomic!Next

(* What a write makes is one of the single steps.                          *)
LEMMA MakesAtomic ==
  ASSUME Inv, NEW w \in Writers, Makes(req[w], file[req[w].id], log[req[w].id]), req[w].pc # "idle",
         Shown = file, Shown' = [file EXCEPT ![req[w].id] = IF req[w].op = "delete" THEN NoNote ELSE req[w].note],
         UNCHANGED <<log, copy>>
  PROVE  Atomic!Next
<1> DEFINE r == req[w]
           n == r.id
           old == file[n]
<1>1. /\ r.exp = copy[w][n].rev /\ n \in Notes /\ Asking(r, copy[w]) /\ old \in Content
  BY Now, FileFacts
<1>2. CASE r.op = "create" /\ ~Exists(old) /\ r.note = [title |-> r.title, body |-> r.body, pin |-> "unpin"]
  <2>1. Atomic!Create(w)
    BY <1>2, SameText DEF Atomic!Create, Atomic!Becomes
  <2> QED BY <2>1 DEF Atomic!Next
<1>3. CASE /\ r.op = "save" /\ Exists(old)
           /\ r.note = [title |-> r.title, body |-> Merged(r, old, log[n]), pin |-> old.pin]
  <2>1. Merged(r, old, log[n])
          = IF Atomic!Knows(w, n) \/ r.body = old.body THEN r.body ELSE Atomic!Block(r.body, old.body)
    BY <1>1, SameText DEF Merged, Unknown, Atomic!Knows
  <2>2. Atomic!Save(w)
    BY <1>3, <2>1, SameText DEF Atomic!Save, Atomic!Becomes
  <2> QED BY <2>2, SMTT(40) DEF Atomic!Next
<1>4. CASE r.pin # "keep" /\ Exists(old) /\ r.note = [old EXCEPT !.pin = r.pin]
  <2>1. r.op \in {"create", "save", "meta"}
    BY <1>1, <1>4 DEF Asking
  <2>2. Atomic!Pin(w)
    BY <1>4, <2>1, SameText DEF Atomic!Pin, Atomic!Becomes
  <2> QED BY <2>2 DEF Atomic!Next
<1>5. CASE r.op = "resolve" /\ Exists(old) /\ r.note = [old EXCEPT !.body = Settle(old.body, r.keep)]
  <2>1. r.note = [old EXCEPT !.body = Atomic!Settle(old.body, r.keep)]
    BY <1>5, SameSettle
  <2>2. Atomic!Resolve(w)
    BY <1>5, <2>1, SameText DEF Atomic!Resolve, Atomic!Becomes
  <2> QED BY <2>2 DEF Atomic!Next
<1>6. CASE r.op = "delete" /\ Exists(old) /\ r.exp = Len(log[n])
  <2>1. Atomic!Delete(w)
    BY <1>1, <1>6, SameText DEF Atomic!Delete, Atomic!Becomes
  <2> QED BY <2>1 DEF Atomic!Next
<1> QED BY <1>2, <1>3, <1>4, <1>5, <1>6 DEF Makes

LEMMA WriteAtomic ==
  ASSUME Inv, Inv', NEW w \in UnderWay \ crossed, Write(w)
  PROVE  Atomic!Next
<1> DEFINE r == req[w]
           n == r.id
<1>1. /\ r.pc = "write" /\ r \in Request /\ w \in Writers /\ n \in Notes /\ Fresh(r, file, index, log)
      /\ file \in [Notes -> Content]
  BY Now DEF Write, UnderWay, Texts
<1>2. Makes(r, file[n], log[n])
  BY <1>1 DEF Fresh
<1>3. CASE r.op # "delete"
  <2> DEFINE x == [r EXCEPT !.pc = "fill"]
  <2>1. Puts(w, Blank, x)
    BY <1>3 DEF Write
  <2>2. x.pc = "fill" /\ x.id = n /\ x.note = r.note
    <3> HIDE DEF r
    <3> QED BY <1>1 DEF Request
  <2> HIDE DEF x
  <2>3. file' = [file EXCEPT ![n] = Blank] /\ req' = [req EXCEPT ![w] = x] /\ UNCHANGED <<log, copy>>
    BY <2>1, <2>2 DEF Puts
  <2>4. Shown = file /\ Shown' = [file' EXCEPT ![n] = r.note]
    BY <1>1, <2>2, <2>3, ServeShows
  <2>5. Shown' = [file EXCEPT ![n] = r.note]
    BY <1>1, <2>3, <2>4
  <2> QED BY <1>1, <1>2, <1>3, <2>3, <2>4, <2>5, MakesAtomic
<1>4. CASE r.op = "delete"
  <2>1. PICK x : Puts(w, NoNote, x) /\ (x = Dropped(r) \/ x = [r EXCEPT !.pc = "add"])
    BY <1>4 DEF Write
  <2>2. x.pc # "fill" /\ x.id = n
    <3>1. CASE x = Dropped(r)
      BY <1>1, <3>1, DroppedType DEF Same
    <3>2. CASE x = [r EXCEPT !.pc = "add"]
      <4> HIDE DEF r
      <4> QED BY <1>1, <3>2 DEF Request
    <3> QED BY <2>1, <3>1, <3>2
  <2>3. file' = [file EXCEPT ![n] = NoNote] /\ req' = [req EXCEPT ![w] = x] /\ UNCHANGED <<log, copy>>
    BY <2>1, <2>2 DEF Puts
  <2>4. Shown = file /\ Shown' = file'
    BY <1>1, <2>2, <2>3, ServeShows
  <2> QED BY <1>1, <1>2, <1>4, <2>3, <2>4, MakesAtomic
<1> QED BY <1>3, <1>4

LEMMA FillAtomic ==
  ASSUME Inv, Inv', NEW w \in UnderWay \ crossed, Fill(w)
  PROVE  Quietly
<1> DEFINE r == req[w]
           x == With(r, "add", NoNote)
<1>1. r.pc = "fill" /\ r \in Request /\ w \in Writers /\ Puts(w, r.note, x)
  BY Now DEF Fill, UnderWay, With
<1>2. x.pc = "add" /\ x.id = r.id
  <2> HIDE DEF r
  <2> QED BY <1>1 DEF With, Request
<1> HIDE DEF x
<1>3. /\ file' = [file EXCEPT ![r.id] = r.note] /\ req' = [req EXCEPT ![w] = x] /\ UNCHANGED <<log, copy>>
  BY <1>1, <1>2 DEF Puts
<1>4. Shown = [file EXCEPT ![r.id] = r.note] /\ Shown' = file'
  BY <1>1, <1>2, <1>3, ServeShows
<1> QED BY <1>3, <1>4 DEF Quietly

LEMMA AddAtomic ==
  ASSUME Inv, Inv', NEW w \in UnderWay \ crossed, Add(w)
  PROVE  Quietly
<1> DEFINE r == req[w]
           x == [r EXCEPT !.pc = "commit"]
<1>1. r.pc = "add" /\ r \in Request /\ req' = [req EXCEPT ![w] = x] /\ UNCHANGED <<file, log, copy>>
  BY Now DEF Add, Git, folder, UnderWay
<1>2. x.pc = "commit"
  <2> HIDE DEF r
  <2> QED BY <1>1 DEF Request
<1> HIDE DEF x
<1>3. Shown = file /\ Shown' = file'
  BY <1>1, <1>2, ServeShows
<1> QED BY <1>1, <1>3 DEF Quietly

LEMMA CommitAtomic ==
  ASSUME Inv, Inv', NEW w \in UnderWay \ crossed, Commit(w)
  PROVE  Atomic!Next \/ Quietly
<1> DEFINE r == req[w]
           to == IF r.pin # "keep" /\ r.part = "text" THEN "look at pin" ELSE "answer"
           x == [r EXCEPT !.pc = to]
<1>1. /\ r.pc = "commit" /\ r \in Request /\ req' = [req EXCEPT ![w] = x] /\ UNCHANGED <<file, copy>>
      /\ Fresh(r, file, index, log) /\ (log' = Committed \/ log' = log)
  BY Now DEF Commit, Git, folder, UnderWay
<1>2. to # "fill"
  OBVIOUS
<1> HIDE DEF to
<1>3. x.pc # "fill"
  <2> HIDE DEF r
  <2> QED BY <1>1, <1>2 DEF Request
<1> HIDE DEF x
<1>4. Shown = file /\ Shown' = file'
  BY <1>1, <1>3, ServeShows
<1>5. CASE log' = log
  BY <1>1, <1>4, <1>5 DEF Quietly
<1>6. CASE log' = Committed
  <2>1. index = file
    BY <1>1 DEF Fresh
  <2>2. \A n \in Notes : Atomic!Newest(n) = Newest(n)
    BY SameText DEF Atomic!Newest, Newest, Atomic!Last, Last
  <2>3. log' = [n \in Notes |-> IF Shown[n] = Atomic!Newest(n) THEN log[n] ELSE Append(log[n], Shown[n])]
    BY <1>4, <1>6, <2>1, <2>2 DEF Committed
  <2>4. Atomic!Version
    BY <1>1, <1>4, <2>3 DEF Atomic!Version
  <2> QED BY <2>4 DEF Atomic!Next
<1> QED BY <1>1, <1>5, <1>6

LEMMA ServeAtomic ==
  ASSUME Inv, NEW w \in Writers \ crossed, Serve(w)
  PROVE  Atomic!Next \/ Quietly
<1>1. w \in UnderWay \ crossed
  BY DEF Serve, LookSave, LookMeta, LookResolve, Look, Compare, Check, Write, Fill, Add, Commit, Git, Answer, Count,
         UnderWay
<1>2. Inv'
  BY InvNext DEF Next
<1> QED BY <1>1, <1>2, LooksAtomic, CompareAtomic, CheckAtomic, WriteAtomic, FillAtomic, AddAtomic, CommitAtomic,
           CountAtomic DEF Serve

(* Whatever overlaps, dies, is sent again, leaves a lock behind or leaves  *)
(* its work to the next one's commit: each step of a request that nothing  *)
(* crossed is a single step of NotesAtomic on what there is to see, or     *)
(* changes nothing of it (notes_store.py:240-411, 467-544).                *)
THEOREM UncrossedAsSingleSteps == Spec => UncrossedIsAtomic
<1> DEFINE Single == \A w \in Writers \ crossed : Serve(w) => Atomic!Next
<1>1. Init => Atomic!Init
  <2> SUFFICES ASSUME Init PROVE Atomic!Init
    OBVIOUS
  <2>1. \A w \in Writers : req[w].pc # "fill"
    BY QuietType DEF Init
  <2>2. Shown = [n \in Notes |-> NoNote]
    BY <2>1 DEF Init, Shown, Filling
  <2> QED BY <2>2, SameText DEF Init, Atomic!Init
<1>2. Inv /\ [Next]_vars => [Single]_<<Shown, log, copy>>
  <2> SUFFICES ASSUME Inv, ~Quietly, NEW w \in Writers \ crossed, Serve(w) PROVE Atomic!Next
    BY DEF Quietly
  <2> QED BY ServeAtomic
<1> QED BY <1>1, <1>2, InvHolds, PTL DEF Spec, UncrossedIsAtomic
=============================================================================
