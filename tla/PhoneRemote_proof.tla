--------------------------- MODULE PhoneRemote_proof ---------------------------
(***************************************************************************)
(* The phone's player for every number of commands, sessions and reports.  *)
(***************************************************************************)
EXTENDS PhoneRemote, FiniteSetTheorems, TLAPS

Upload == [step : {"idle", "read", "write"}, generation : 0..MaxSessions, sequence : 0..MaxReports,
           found : (0..MaxSessions) \X (0..MaxReports)]

ServiceTypes ==
  /\ generation \in 0..MaxSessions
  /\ phone \in {0, generation} /\ revision \in Nat /\ sequence \in 0..MaxReports /\ leased \in BOOLEAN
QueueTypes ==
  /\ status \in [CommandIds -> {"none", "queued"} \cup Final] /\ owner \in Commands
  /\ late \subseteq CommandIds /\ settled \subseteq CommandIds
SavingTypes ==
  /\ progress \in (0..MaxSessions) \X (0..MaxReports)
  /\ saving \in [Threads -> Upload]
AskingTypes == askedFor \in Commands /\ askedAt \in [CommandIds -> Nat]
PlayerTypes ==
  /\ open \in 0..MaxSessions /\ seen \subseteq CommandIds
  /\ done \in [CommandIds -> {"none", "applied", "rejected"}] /\ reports \in [Sessions -> 0..MaxReports]

LEMMA Types == TypeOK <=> ServiceTypes /\ QueueTypes /\ SavingTypes /\ AskingTypes /\ PlayerTypes
BY DEF TypeOK, ServiceTypes, QueueTypes, SavingTypes, AskingTypes, PlayerTypes, Upload

-----------------------------------------------------------------------------
(* Types.                                                                  *)
LEMMA InitTypes == Init => TypeOK
<1> SUFFICES ASSUME Init PROVE TypeOK OBVIOUS
<1>0. 0 \in 0..MaxSessions /\ 0 \in 0..MaxReports BY BoundsAssumption
<1>1. ServiceTypes BY <1>0 DEF Init, ServiceTypes
<1>2. QueueTypes BY <1>0 DEF Init, QueueTypes, Commands
<1>3. progress \in (0..MaxSessions) \X (0..MaxReports) BY <1>0 DEF Init
<1>4. Idle \in Upload BY <1>0 DEF Idle, Upload
<1>5. SavingTypes BY <1>3, <1>4 DEF Init, SavingTypes
<1>6. AskingTypes BY <1>0 DEF Init, AskingTypes, Commands
<1>7. PlayerTypes BY <1>0 DEF Init, PlayerTypes
<1>q. QED BY <1>1, <1>2, <1>5, <1>6, <1>7, Types

\* Each group of types after a step, from the types before.
LEMMA ServiceStep == ASSUME TypeOK, [Next]_vars PROVE ServiceTypes'
<1> USE DEF ServiceTypes
<1>1. ServiceTypes BY Types
<1>2. CASE Register BY <1>1, <1>2, BoundsAssumption DEF Register, NewGeneration
<1>3. ASSUME NEW s \in Sessions, NEW n \in 1..MaxReports, Heartbeat(s, n) PROVE ServiceTypes'
  BY <1>1, <1>3 DEF Heartbeat, database
<1>4. CASE LeaseEnds BY <1>1, <1>4 DEF LeaseEnds, database
<1>5. ASSUME NEW c \in CommandIds, Result(c) PROVE ServiceTypes'
  BY <1>1, <1>5 DEF Result, Counted, database
<1>6. CASE Restart
  <2>1. phone' = 0 /\ revision' = 0 /\ sequence' = 0 /\ generation' = generation BY <1>6 DEF Restart, database
  <2>2. leased' \in BOOLEAN BY <1>6 DEF Restart
  <2>q. QED BY <1>1, <2>1, <2>2, BoundsAssumption
<1>7. CASE UNCHANGED <<generation, known>> BY <1>1, <1>7 DEF known
<1>q. QED
  BY <1>2, <1>3, <1>4, <1>5, <1>6, <1>7
     DEF Next, vars, known, database, Poll, Report, PlayerEnds, Save, Read, Write, Ask, Command, TimePasses, CarryOut

LEMMA QueueStep == ASSUME TypeOK, [Next]_vars PROVE QueueTypes'
<1> USE DEF QueueTypes, Final, Commands
<1>1. QueueTypes /\ ServiceTypes /\ PlayerTypes BY Types
<1>2. ASSUME NEW c \in CommandIds, Command(c) PROVE QueueTypes'
  BY <1>1, <1>2 DEF Command, ServiceTypes
<1>3. ASSUME NEW c \in CommandIds, TimePasses(c) PROVE QueueTypes'
  BY <1>1, <1>3 DEF TimePasses
<1>4. ASSUME NEW c \in CommandIds, Result(c) PROVE QueueTypes'
  BY <1>1, <1>4 DEF Result, PlayerTypes
<1>5. CASE Poll BY <1>1, <1>5 DEF Poll, Expires
<1>6. CASE Restart BY <1>1, <1>6, BoundsAssumption DEF Restart
<1>7. CASE UNCHANGED queue BY <1>1, <1>7 DEF queue
<1>q. QED
  BY <1>2, <1>3, <1>4, <1>5, <1>6, <1>7
     DEF Next, vars, Register, Heartbeat, LeaseEnds, Report, PlayerEnds, Save, Read, Write, Ask, CarryOut

LEMMA SavingStep == ASSUME TypeOK, [Next]_vars PROVE SavingTypes'
<1> USE DEF SavingTypes, Upload
<1>1. SavingTypes /\ PlayerTypes BY Types
<1>2. ASSUME NEW t \in Threads, NEW s \in Sessions, NEW n \in 1..MaxReports, Save(t, s, n) PROVE SavingTypes'
  BY <1>1, <1>2, BoundsAssumption DEF Save, database, Sessions
<1>3. ASSUME NEW t \in Threads, Read(t) PROVE SavingTypes'
  BY <1>1, <1>3, BoundsAssumption DEF Read, Goes, Refused, Idle, database
<1>4. ASSUME NEW t \in Threads, Write(t) PROVE SavingTypes'
  BY <1>1, <1>4, BoundsAssumption DEF Write, Refused, Idle
<1>5. CASE Restart BY <1>1, <1>5, BoundsAssumption DEF Restart, Idle, database
<1>6. CASE UNCHANGED <<progress, saving>> BY <1>1, <1>6
<1>q. QED
  BY <1>2, <1>3, <1>4, <1>5, <1>6
     DEF Next, vars, database, Register, Heartbeat, LeaseEnds, Poll, Report, PlayerEnds, Ask, Command, TimePasses, CarryOut, Result

LEMMA AskingStep == ASSUME TypeOK, [Next]_vars PROVE AskingTypes'
<1> USE DEF AskingTypes, Commands
<1>1. AskingTypes /\ ServiceTypes BY Types
<1>2. ASSUME NEW c \in CommandIds, Ask(c) PROVE AskingTypes'
  BY <1>1, <1>2 DEF Ask, ServiceTypes
<1>3. CASE UNCHANGED asking BY <1>1, <1>3 DEF asking
<1>q. QED
  BY <1>2, <1>3
     DEF Next, vars, Register, Heartbeat, LeaseEnds, Poll, Report, PlayerEnds, Save, Read, Write, Command, TimePasses,
         CarryOut, Result, Restart

LEMMA PlayerStep == ASSUME TypeOK, [Next]_vars PROVE PlayerTypes'
<1> USE DEF PlayerTypes
<1>1. PlayerTypes /\ ServiceTypes BY Types
<1>2. CASE Register BY <1>1, <1>2, BoundsAssumption DEF Register, NewGeneration, ServiceTypes
<1>3. CASE Report BY <1>1, <1>3, BoundsAssumption DEF Report, Sessions
<1>4. ASSUME NEW c \in CommandIds, CarryOut(c) PROVE PlayerTypes'
  BY <1>1, <1>4 DEF CarryOut
<1>5. CASE Poll BY <1>1, <1>5 DEF Poll
<1>6. CASE PlayerEnds BY <1>1, <1>6, BoundsAssumption DEF PlayerEnds
<1>7. CASE UNCHANGED player BY <1>1, <1>7 DEF player
<1>q. QED
  BY <1>2, <1>3, <1>4, <1>5, <1>6, <1>7
     DEF Next, vars, Heartbeat, LeaseEnds, Save, Read, Write, Ask, Command, TimePasses, Result, Restart

LEMMA StepTypes == TypeOK /\ [Next]_vars => TypeOK'
BY ServiceStep, QueueStep, SavingStep, AskingStep, PlayerStep
   DEF TypeOK, ServiceTypes, QueueTypes, SavingTypes, AskingTypes, PlayerTypes, Upload, Commands, Sessions, Final

(* In every behaviour the database, the session, the queue and what threads *)
(* and phone have in hand keep their types, and a session the service knows *)
(* is always the newest generation of the database.                        *)
THEOREM Typing == Spec => []TypeOK
<1>1. QED BY InitTypes, StepTypes, PTL DEF Spec

-----------------------------------------------------------------------------
(* Whose a command is.                                                     *)

\* A command the service knows belongs to the session it was asked for; one
\* that it forgot, once settled, was asked for a session that is gone; and the
\* phone has in hand only what was asked of the session it plays in.
Belongs == \A c \in CommandIds :
  /\ askedFor[c] <= generation
  /\ status[c] # "none" => askedFor[c] # 0 /\ owner[c] = askedFor[c]
  /\ c \in settled => askedFor[c] # 0 /\ status[c] # "queued"
  /\ c \in settled /\ status[c] = "none" => askedFor[c] # phone
NeverForAnother == \A c \in seen : askedFor[c] = open /\ open # 0

Owned == Belongs /\ NeverForAnother

LEMMA InitOwned == Init => Owned
BY BoundsAssumption DEF Init, Owned, Belongs, NeverForAnother

LEMMA StepBelongs == ASSUME TypeOK, Belongs, [Next]_vars PROVE Belongs'
<1> USE DEF Belongs
<1>1. ServiceTypes /\ QueueTypes /\ AskingTypes /\ PlayerTypes BY Types
<1>2. CASE Register
  <2>1. phone' = generation + 1 /\ generation' = generation + 1 BY <1>2 DEF Register, NewGeneration
  <2>2. UNCHANGED <<status, owner, settled, askedFor>> BY <1>2 DEF Register, queue, asking
  <2>3. generation \in Nat /\ \A c \in CommandIds : askedFor[c] \in Nat
    BY <1>1, BoundsAssumption DEF ServiceTypes, AskingTypes, Commands
  <2>q. QED BY <2>1, <2>2, <2>3
<1>3. ASSUME NEW a \in CommandIds, Ask(a) PROVE Belongs'
  <2>1. phone # 0 /\ phone = generation BY <1>1, <1>3 DEF Ask, ServiceTypes
  <2>2. UNCHANGED <<generation, phone, status, owner, settled>> BY <1>3 DEF Ask, database, known, queue
  <2>3. /\ askedFor[a] = 0 /\ askedFor'[a] = phone
        /\ \A c \in CommandIds : c # a => askedFor'[c] = askedFor[c]
    BY <1>1, <1>3 DEF Ask, AskingTypes, Commands
  <2>4. generation \in Nat BY <1>1, BoundsAssumption DEF ServiceTypes
  <2>q. QED BY <2>1, <2>2, <2>3, <2>4
<1>4. ASSUME NEW a \in CommandIds, Command(a) PROVE Belongs'
  <2>1. askedFor[a] # 0 /\ askedFor[a] = phone /\ status[a] = "none" BY <1>4 DEF Command, NotStored
  <2>2. UNCHANGED <<generation, phone, askedFor, settled>> BY <1>4 DEF Command, database, known, asking
  <2>3. /\ status'[a] = "queued" /\ owner'[a] = phone
        /\ \A c \in CommandIds : c # a => status'[c] = status[c] /\ owner'[c] = owner[c]
    BY <1>1, <1>4 DEF Command, QueueTypes, Commands
  <2>q. QED BY <2>1, <2>2, <2>3
<1>5. ASSUME NEW a \in CommandIds, Result(a) PROVE Belongs'
  <2>1. UNCHANGED <<generation, phone, askedFor, owner>> /\ settled' = settled \cup {a}
    BY <1>5 DEF Result, database, asking
  <2>2. /\ status[a] = "queued" /\ status'[a] \in Final
        /\ \A c \in CommandIds : c # a => status'[c] = status[c]
    BY <1>1, <1>5 DEF Result, QueueTypes, PlayerTypes, Final
  <2>q. QED BY <2>1, <2>2 DEF Final
<1>6. CASE Poll
  <2>1. UNCHANGED <<generation, phone, askedFor, owner>> /\ settled' = settled \cup Expires
    BY <1>6 DEF Poll, database, asking, known
  <2>2. \A c \in CommandIds :
          /\ c \in Expires => status[c] = "queued" /\ status'[c] = "expired"
          /\ c \notin Expires => status'[c] = status[c]
    BY <1>6 DEF Poll, Expires
  <2>q. QED BY <2>1, <2>2
<1>7. CASE Restart
  <2>1. UNCHANGED <<generation, askedFor, settled>> /\ phone' = 0 BY <1>7 DEF Restart, database, asking
  <2>2. \A c \in CommandIds : status'[c] = "none" BY <1>7 DEF Restart
  <2>q. QED BY <2>1, <2>2
<1>8. CASE UNCHANGED <<generation, phone, status, owner, settled, askedFor>> BY <1>8
<1>q. QED
  BY <1>2, <1>3, <1>4, <1>5, <1>6, <1>7, <1>8
     DEF Next, vars, known, database, queue, asking, Heartbeat, LeaseEnds, Report, PlayerEnds, Save, Read, Write,
         TimePasses, CarryOut

LEMMA StepSeen == ASSUME TypeOK, Owned, [Next]_vars PROVE NeverForAnother'
<1> USE DEF Owned, NeverForAnother
<1>1. QueueTypes /\ AskingTypes BY Types
<1>2. CASE Register BY <1>2 DEF Register, asking
<1>3. ASSUME NEW a \in CommandIds, Ask(a) PROVE NeverForAnother'
  <2>1. a \notin seen BY <1>3 DEF Ask
  <2>2. \A c \in CommandIds : c # a => askedFor'[c] = askedFor[c] BY <1>1, <1>3 DEF Ask, AskingTypes, Commands
  <2>3. seen \subseteq CommandIds BY Types DEF PlayerTypes
  <2>4. UNCHANGED <<seen, open>> BY <1>3 DEF Ask, player
  <2>q. QED BY <2>1, <2>2, <2>3, <2>4
<1>4. CASE Poll
  <2>1. open # 0 /\ UNCHANGED <<open, askedFor, owner>> BY <1>4 DEF Poll, asking
  <2>2. CASE UNCHANGED seen BY <2>1, <2>2
  <2>3. CASE seen' = {c \in CommandIds : owner[c] = open /\ status'[c] = "queued" /\ done[c] = "none"}
    <3>1. \A c \in CommandIds : status'[c] = "queued" => status[c] = "queued" BY <1>4 DEF Poll
    <3>q. QED BY <2>1, <2>3, <3>1 DEF Belongs
  <2>q. QED BY <1>4, <2>2, <2>3 DEF Poll
<1>5. ASSUME NEW a \in CommandIds, CarryOut(a) PROVE NeverForAnother' BY <1>5 DEF CarryOut, asking
<1>6. CASE PlayerEnds BY <1>6 DEF PlayerEnds
<1>7. CASE UNCHANGED <<seen, open, askedFor>> BY <1>7
<1>q. QED
  BY <1>2, <1>3, <1>4, <1>5, <1>6, <1>7
     DEF Next, vars, player, asking, Heartbeat, LeaseEnds, Report, Save, Read, Write, Command, TimePasses, Result, Restart

(* The phone never has in hand a command asked for another session than the *)
(* one it plays in, though the queue keeps the commands of sessions that    *)
(* were replaced (server.py pending_phone).                                 *)
THEOREM Asked == Spec => []NeverForAnother
<1>1. Init => TypeOK /\ Owned BY InitTypes, InitOwned
<1>2. TypeOK /\ Owned /\ [Next]_vars => (TypeOK /\ Owned)' BY StepTypes, StepBelongs, StepSeen DEF Owned
<1>3. Owned => NeverForAnother BY DEF Owned
<1>q. QED BY <1>1, <1>2, <1>3, PTL DEF Spec

(* However its request and its result are repeated, delayed or lost, and    *)
(* whatever a restart forgets, a command that was settled once is never     *)
(* queued again and never changes its result.                               *)
THEOREM Settled == Spec => SettledForGood
<1>1. Init => TypeOK /\ Owned BY InitTypes, InitOwned
<1>2. TypeOK /\ Owned /\ [Next]_vars => (TypeOK /\ Owned)' BY StepTypes, StepBelongs, StepSeen DEF Owned
<1> DEFINE Stays == \A c \in settled : status'[c] # "queued" /\ status'[c] \in {status[c], "none"}
<1>3. TypeOK /\ Owned /\ [Next]_vars => [Stays]_vars
  <2> SUFFICES ASSUME TypeOK, Owned, Next PROVE Stays OBVIOUS
  <2>1. Belongs /\ QueueTypes /\ settled \subseteq CommandIds BY Types DEF Owned, QueueTypes
  <2>2. ASSUME NEW a \in CommandIds, Command(a) PROVE Stays
    <3>1. a \notin settled BY <2>1, <2>2 DEF Command, NotStored, Belongs
    <3>2. \A c \in CommandIds : c # a => status'[c] = status[c] BY <2>1, <2>2 DEF Command, QueueTypes
    <3>q. QED BY <2>1, <3>1, <3>2 DEF Belongs
  <2>3. ASSUME NEW a \in CommandIds, Result(a) PROVE Stays
    <3>1. a \notin settled BY <2>1, <2>3 DEF Result, Belongs
    <3>2. \A c \in CommandIds : c # a => status'[c] = status[c] BY <2>1, <2>3 DEF Result, QueueTypes
    <3>q. QED BY <2>1, <3>1, <3>2 DEF Belongs
  <2>4. CASE Poll
    <3>1. \A c \in CommandIds : status[c] # "queued" => status'[c] = status[c] BY <2>4 DEF Poll, Expires
    <3>q. QED BY <2>1, <3>1 DEF Belongs
  <2>5. CASE Restart
    <3>1. \A c \in CommandIds : status'[c] = "none" BY <2>5 DEF Restart
    <3>q. QED BY <2>1, <3>1
  <2>6. CASE UNCHANGED status BY <2>1, <2>6 DEF Belongs
  <2>q. QED
    BY <2>2, <2>3, <2>4, <2>5, <2>6
       DEF Next, queue, Register, Heartbeat, LeaseEnds, Report, PlayerEnds, Save, Read, Write, Ask, TimePasses, CarryOut
<1>q. QED BY <1>1, <1>2, <1>3, PTL DEF Spec, SettledForGood

-----------------------------------------------------------------------------
(* What the revision counts.                                               *)
Applied == {c \in CommandIds : status[c] = "applied" /\ owner[c] = phone}

LEMMA AppliedIsFinite == IsFiniteSet(Applied)
BY CommandIdsAssumption, FS_Subset DEF Applied

LEMMA StepCounts == ASSUME TypeOK, Owned, RevisionCounts, [Next]_vars PROVE RevisionCounts'
<1> SUFFICES ASSUME phone' # 0 PROVE revision' = Cardinality(Applied')
  BY DEF RevisionCounts, Applied
<1>1. ServiceTypes /\ QueueTypes /\ Belongs BY Types DEF Owned
<1>2. CASE Register
  <2>1. /\ phone' = generation + 1 /\ revision' = 0 /\ UNCHANGED <<status, owner>>
    BY <1>2 DEF Register, NewGeneration, queue
  <2>2. ASSUME NEW c \in CommandIds, status[c] = "applied" PROVE owner[c] # generation + 1
    <3>1. owner[c] <= generation BY <1>1, <2>2 DEF Belongs
    <3>2. owner[c] \in Nat /\ generation \in Nat
      BY <1>1, BoundsAssumption DEF QueueTypes, ServiceTypes, Commands
    <3>q. QED BY <3>1, <3>2
  <2>3. Applied' = {} BY <2>1, <2>2 DEF Applied
  <2>q. QED BY <2>1, <2>3, FS_EmptySet
<1>3. ASSUME NEW a \in CommandIds, Result(a) PROVE revision' = Cardinality(Applied')
  <2>1. UNCHANGED <<phone, owner>> BY <1>3 DEF Result
  <2>2. revision = Cardinality(Applied) BY <2>1 DEF RevisionCounts, Applied
  <2>3. \A c \in CommandIds : c # a => status'[c] = status[c] BY <1>1, <1>3 DEF Result, QueueTypes
  <2>4. status[a] = "queued" /\ owner[a] = phone BY <1>3 DEF Result
  <2>5. CASE status'[a] = "applied" /\ revision' = revision + 1
    <3>1. Applied' = Applied \cup {a} BY <2>1, <2>3, <2>4, <2>5 DEF Applied
    <3>2. a \notin Applied BY <2>4 DEF Applied
    <3>q. QED BY <2>2, <2>5, <3>1, <3>2, AppliedIsFinite, FS_AddElement
  <2>6. CASE status'[a] # "applied" /\ revision' = revision
    <3>1. Applied' = Applied BY <2>1, <2>3, <2>4, <2>6 DEF Applied
    <3>q. QED BY <2>2, <2>6, <3>1
  <2>q. QED BY <1>1, <1>3, <2>5, <2>6 DEF Result, Counted, QueueTypes
<1>4. CASE Restart BY <1>4 DEF Restart
<1>5. ASSUME UNCHANGED <<phone, revision>>,
             \A c \in CommandIds : status[c] = "applied" \/ status'[c] = "applied" =>
               status'[c] = status[c] /\ owner'[c] = owner[c]
      PROVE  revision' = Cardinality(Applied')
  <2>1. Applied' = Applied BY <1>5 DEF Applied
  <2>q. QED BY <1>5, <2>1 DEF RevisionCounts, Applied
<1>6. ASSUME NEW a \in CommandIds, Command(a) PROVE revision' = Cardinality(Applied')
  <2>1. UNCHANGED <<phone, revision>> BY <1>6 DEF Command, known
  <2>2. /\ status[a] = "none" /\ status'[a] = "queued"
        /\ \A c \in CommandIds : c # a => status'[c] = status[c] /\ owner'[c] = owner[c]
    BY <1>1, <1>6 DEF Command, NotStored, QueueTypes, Commands
  <2>q. QED BY <1>5, <2>1, <2>2
<1>7. CASE Poll
  <2>1. UNCHANGED <<phone, revision, owner>> BY <1>7 DEF Poll, known
  <2>2. \A c \in CommandIds : status'[c] = status[c] \/ (status[c] = "queued" /\ status'[c] = "expired")
    BY <1>7 DEF Poll, Expires
  <2>q. QED BY <1>5, <2>1, <2>2
<1>8. CASE UNCHANGED <<phone, revision, status, owner>> BY <1>5, <1>8
<1>q. QED
  BY <1>2, <1>3, <1>4, <1>6, <1>7, <1>8
     DEF Next, vars, known, queue, Heartbeat, LeaseEnds, Report, PlayerEnds, Save, Read, Write, Ask, TimePasses, CarryOut

(* With any number of commands, lost and repeated in any way, the revision  *)
(* of the player is the number of commands applied to its session.          *)
THEOREM Counts == Spec => []RevisionCounts
<1>1. Init => TypeOK /\ Owned /\ RevisionCounts BY InitTypes, InitOwned DEF Init, RevisionCounts
<1>2. TypeOK /\ Owned /\ RevisionCounts /\ [Next]_vars => (TypeOK /\ Owned /\ RevisionCounts)'
  BY StepTypes, StepBelongs, StepSeen, StepCounts DEF Owned
<1>q. QED BY <1>1, <1>2, PTL DEF Spec

-----------------------------------------------------------------------------
(* Progress.  An upload about to write is newer than what it found, though *)
(* not always than what is there by then.                                  *)
NewerThanFound(u) ==
  u.step = "write" =>
    \/ u.generation > u.found[1]
    \/ u.generation = u.found[1] /\ u.sequence > u.found[2]
Looked == \A t \in Threads : NewerThanFound(saving[t])

LEMMA StepLooked == ASSUME TypeOK, Looked, [Next]_vars PROVE Looked'
<1> USE DEF Looked, NewerThanFound
<1>1. SavingTypes BY Types
<1>2. ASSUME NEW t \in Threads, NEW s \in Sessions, NEW n \in 1..MaxReports, Save(t, s, n) PROVE Looked'
  <2>1. saving'[t].step = "read" BY <1>1, <1>2 DEF Save, SavingTypes
  <2>2. \A u \in Threads : u # t => saving'[u] = saving[u] BY <1>1, <1>2 DEF Save, SavingTypes
  <2>q. QED BY <2>1, <2>2
<1>3. ASSUME NEW t \in Threads, Read(t) PROVE Looked'
  <2>1. CASE Refused(t)
    <3>1. saving'[t].step = "idle" BY <1>1, <2>1 DEF Refused, Idle, SavingTypes
    <3>2. \A u \in Threads : u # t => saving'[u] = saving[u] BY <1>1, <2>1 DEF Refused, SavingTypes
    <3>q. QED BY <3>1, <3>2
  <2>2. CASE Newer(saving[t].generation, saving[t].sequence) /\ Goes(t)
    <3>1. /\ saving'[t].generation = saving[t].generation /\ saving'[t].sequence = saving[t].sequence
          /\ saving'[t].found = progress
      BY <1>1, <2>2 DEF Goes, SavingTypes, Upload
    <3>2. \A u \in Threads : u # t => saving'[u] = saving[u] BY <1>1, <2>2 DEF Goes, SavingTypes
    <3>3. NewerThanFound(saving'[t]) BY <2>2, <3>1 DEF Newer
    <3>q. QED BY <3>2, <3>3
  <2>q. QED BY <1>3, <2>1, <2>2 DEF Read
<1>4. ASSUME NEW t \in Threads, Write(t) PROVE Looked'
  <2>1. saving'[t].step = "idle" BY <1>1, <1>4 DEF Write, Refused, Idle, SavingTypes
  <2>2. \A u \in Threads : u # t => saving'[u] = saving[u] BY <1>1, <1>4 DEF Write, Refused, SavingTypes
  <2>q. QED BY <2>1, <2>2
<1>5. CASE Restart
  <2>1. \A t \in Threads : saving'[t].step = "idle" BY <1>5 DEF Restart, Idle
  <2>q. QED BY <2>1
<1>6. CASE UNCHANGED saving BY <1>6
<1>q. QED
  BY <1>2, <1>3, <1>4, <1>5, <1>6
     DEF Next, vars, database, Register, Heartbeat, LeaseEnds, Poll, Report, PlayerEnds, Ask, Command, TimePasses,
         CarryOut, Result

(* However many uploads are handled at once, and whatever sessions are       *)
(* registered between the look at the session, the reads and the write, the  *)
(* place saved goes back only in an upload that another one overtook after   *)
(* it had looked (save_progress).                                            *)
THEOREM Progress == Spec => ForwardUnlessOvertaken
<1> DEFINE A == progress' # progress => Forward \/ \E t \in Threads : Write(t) /\ Overtaken(t)
<1>1. Init => TypeOK /\ Looked
  <2>1. ASSUME Init PROVE Looked BY <2>1 DEF Init, Idle, Looked, NewerThanFound
  <2>q. QED BY <2>1, InitTypes
<1>2. TypeOK /\ Looked /\ [Next]_vars => (TypeOK /\ Looked)' BY StepTypes, StepLooked
<1>3. TypeOK /\ Looked /\ [Next]_vars => [A]_vars
  <2> SUFFICES ASSUME TypeOK, Looked, Next PROVE A OBVIOUS
  <2>1. ASSUME NEW t \in Threads, Write(t), ~Overtaken(t) PROVE Forward
    <3>1. saving[t].step = "write" /\ progress' = <<saving[t].generation, saving[t].sequence>>
      BY <2>1 DEF Write
    <3>2. NewerThanFound(saving[t]) BY DEF Looked
    <3>q. QED BY <2>1, <3>1, <3>2 DEF NewerThanFound, Overtaken, Forward
  <2>2. CASE UNCHANGED progress BY <2>2
  <2>q. QED
    BY <2>1, <2>2
       DEF Next, database, Register, Heartbeat, LeaseEnds, Poll, Report, PlayerEnds, Save, Read, Ask, Command,
           TimePasses, CarryOut, Result, Restart
<1>q. QED BY <1>1, <1>2, <1>3, PTL DEF Spec, ForwardUnlessOvertaken
=============================================================================
