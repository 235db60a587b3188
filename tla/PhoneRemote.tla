----------------------------- MODULE PhoneRemote -----------------------------
(***************************************************************************)
(* The player on the phone as the media service knows it                   *)
(* (src/media/server.py): the session a phone registers, its lease, the    *)
(* queue of commands for it and their results, and the place it has        *)
(* reached in what it plays.                                               *)
(*                                                                         *)
(* Each handler but save_progress does its work under the service's lock,  *)
(* so it is one step; save_progress takes the lock for its first look only *)
(* and then reads and writes the database.  The network may lose, repeat,  *)
(* delay and reorder every request, and lose every answer: a request that  *)
(* was ever sent may arrive at any time.  The service may be restarted: it *)
(* forgets the session and the commands, the database stays.  A session is *)
(* its generation; the random id beside it is drawn anew with each one.    *)
(* Left out: what commands ask for, volume, speed and the words of errors; *)
(* every session plays the same item.                                      *)
(***************************************************************************)
EXTENDS Naturals, FiniteSets

CONSTANTS
  CommandIds,   \* the ids of commands, each made for one command
  Threads,      \* the threads that may save progress at a time
  MaxSessions,  \* bound: sessions ever registered
  MaxReports    \* bound: reports of one session

ASSUME CommandIdsAssumption == IsFiniteSet(CommandIds)
ASSUME BoundsAssumption == MaxSessions \in Nat /\ MaxReports \in Nat

VARIABLES
  generation, \* phone_generation in the database
  phone,      \* self.phone: its generation, 0 when there is none
  revision,   \* its revision
  sequence,   \* its telemetrySequence
  leased,     \* leaseUntil is not over
  status,     \* self.commands: the status of each, "none" if unknown
  owner,      \* the session a command belongs to
  late,       \* the commands whose expiresAt is over
  progress,   \* the generation and the sequence of the progress saved
  saving,     \* what each thread of save_progress has in hand
  askedFor,   \* the session a command was asked for, 0 if it was not yet
  askedAt,    \* the revision whoever asked had seen
  open,       \* the session the phone plays in, 0 for none
  seen,       \* the commands it got and did not carry out yet
  done,       \* what it did with a command, "none" before
  reports,    \* how many reports it made in each session
  settled     \* history: the commands that were ever settled

known == <<phone, revision, sequence, leased>>
queue == <<status, owner, late, settled>>
database == <<generation, progress>>
asking == <<askedFor, askedAt>>
player == <<open, seen, done, reports>>
vars == <<database, known, queue, saving, asking, player>>

Sessions == 1..MaxSessions
Final == {"applied", "rejected", "expired"}
Idle == [step |-> "idle", generation |-> 0, sequence |-> 0, found |-> <<0, 0>>]

Init ==
  /\ generation = 0 /\ progress = <<0, 0>>
  /\ phone = 0 /\ revision = 0 /\ sequence = 0 /\ leased = FALSE
  /\ status = [c \in CommandIds |-> "none"] /\ owner = [c \in CommandIds |-> 0]
  /\ late = {} /\ settled = {}
  /\ saving = [t \in Threads |-> Idle]
  /\ askedFor = [c \in CommandIds |-> 0] /\ askedAt = [c \in CommandIds |-> 0]
  /\ open = 0 /\ seen = {} /\ done = [c \in CommandIds |-> "none"]
  /\ reports = [s \in Sessions |-> 0]

-----------------------------------------------------------------------------
(* The session.                                                            *)

\* The generation is read after it was counted; the mutant reads it before.
ReadBefore == generation
NewGeneration == generation + 1

\* register_phone: the answer reaches the phone, or is lost.  The commands of
\* the session before stay in the queue.
Register ==
  /\ generation < MaxSessions
  /\ generation' = generation + 1
  /\ phone' = NewGeneration /\ revision' = 0 /\ sequence' = 0 /\ leased' = TRUE
  /\ \/ open' = NewGeneration /\ seen' = {}
     \/ UNCHANGED <<open, seen>>
  /\ UNCHANGED <<progress, queue, saving, asking, done, reports>>

\* phone_heartbeat, of report n of session s.
Heartbeat(s, n) ==
  /\ n <= reports[s]
  /\ s = phone /\ n > sequence
  /\ sequence' = n /\ leased' = TRUE
  /\ UNCHANGED <<database, phone, revision, queue, saving, asking, player>>

LeaseEnds ==
  /\ leased
  /\ leased' = FALSE
  /\ UNCHANGED <<database, phone, revision, sequence, queue, saving, asking, player>>

-----------------------------------------------------------------------------
(* Commands.                                                               *)

\* Whoever asks has read the state, which names no session once its lease is over.
Ask(c) ==
  /\ askedFor[c] = 0 /\ phone # 0 /\ leased
  /\ askedFor' = [askedFor EXCEPT ![c] = phone]
  /\ askedAt' = [askedAt EXCEPT ![c] = revision]
  /\ UNCHANGED <<database, known, queue, saving, player>>

\* A command that is known is answered from what is stored; the mutant queues
\* it once more when it is settled.
NotQueued(c) == status[c] # "queued"
NotStored(c) == status[c] = "none"

\* command_phone.
Command(c) ==
  /\ askedFor[c] # 0
  /\ phone # 0 /\ leased
  /\ askedFor[c] = phone
  /\ NotStored(c)
  /\ askedAt[c] = revision
  /\ status' = [status EXCEPT ![c] = "queued"]
  /\ owner' = [owner EXCEPT ![c] = phone]
  /\ late' = late \ {c}
  /\ UNCHANGED <<database, known, settled, saving, asking, player>>

TimePasses(c) ==
  /\ status[c] = "queued" /\ c \notin late
  /\ late' = late \cup {c}
  /\ UNCHANGED <<database, known, status, owner, settled, saving, asking, player>>

\* pending_phone: what is late expires, whichever session it belongs to.  The
\* mutant looks after its own session only, and leaves its own for the result.
ExpiresOthers == {c \in late : status[c] = "queued" /\ owner[c] # phone}
Expires == {c \in late : status[c] = "queued"}

Poll ==
  /\ open # 0 /\ open = phone
  /\ status' = [c \in CommandIds |-> IF c \in Expires THEN "expired" ELSE status[c]]
  /\ settled' = settled \cup Expires
  /\ \/ seen' = {c \in CommandIds : owner[c] = open /\ status'[c] = "queued" /\ done[c] = "none"}
     \/ UNCHANGED seen
  /\ UNCHANGED <<database, known, owner, late, saving, asking, open, done, reports>>

\* ack_phone.  Only a result that is applied counts as a change; the mutant
\* counts each.
CountsEach(result) == revision + 1
Counted(result) == IF result = "applied" THEN revision + 1 ELSE revision

Result(c) ==
  /\ done[c] # "none"
  /\ status[c] = "queued" /\ owner[c] = phone
  /\ LET result == IF c \in late THEN "expired" ELSE done[c] IN
       /\ status' = [status EXCEPT ![c] = result]
       /\ revision' = Counted(result)
  /\ settled' = settled \cup {c}
  /\ UNCHANGED <<database, phone, sequence, leased, owner, late, saving, asking, player>>

-----------------------------------------------------------------------------
(* Progress, of report n of session s.                                     *)
Refused(t) == saving' = [saving EXCEPT ![t] = Idle]
Goes(t) == saving' = [saving EXCEPT ![t].step = "write", ![t].found = progress]

\* The look at self.phone, under the lock.
Save(t, s, n) ==
  /\ saving[t] = Idle
  /\ n \in 1..reports[s]
  /\ phone <= s
  /\ saving' = [saving EXCEPT ![t] = [step |-> "read", generation |-> s, sequence |-> n, found |-> <<0, 0>>]]
  /\ UNCHANGED <<database, known, queue, asking, player>>

\* A report is newer by its session, or by its place in it; the mutant looks at
\* the session only.
SameSession(g, n) == g >= progress[1]
Newer(g, n) == g > progress[1] \/ (g = progress[1] /\ n > progress[2])

\* The two reads of the database; nothing holds what they found until Write.
Read(t) ==
  /\ saving[t].step = "read"
  /\ IF saving[t].generation = generation /\ Newer(saving[t].generation, saving[t].sequence)
     THEN Goes(t)
     ELSE Refused(t)
  /\ UNCHANGED <<database, known, queue, asking, player>>

Write(t) ==
  /\ saving[t].step = "write"
  /\ progress' = <<saving[t].generation, saving[t].sequence>>
  /\ Refused(t)
  /\ UNCHANGED <<generation, known, queue, asking, player>>

-----------------------------------------------------------------------------
(* The phone, as the service knows it from its requests.                   *)
Report ==
  /\ open # 0 /\ reports[open] < MaxReports
  /\ reports' = [reports EXCEPT ![open] = @ + 1]
  /\ UNCHANGED <<database, known, queue, saving, asking, open, seen, done>>

CarryOut(c) ==
  /\ c \in seen
  /\ done' \in {[done EXCEPT ![c] = r] : r \in {"applied", "rejected"}}
  /\ seen' = seen \ {c}
  /\ UNCHANGED <<database, known, queue, saving, asking, open, reports>>

PlayerEnds ==
  /\ open # 0
  /\ open' = 0 /\ seen' = {}
  /\ UNCHANGED <<database, known, queue, saving, asking, done, reports>>

\* A restart of the service.
Restart ==
  /\ phone' = 0 /\ revision' = 0 /\ sequence' = 0 /\ leased' = FALSE
  /\ status' = [c \in CommandIds |-> "none"] /\ owner' = [c \in CommandIds |-> 0]
  /\ late' = {}
  /\ saving' = [t \in Threads |-> Idle]
  /\ UNCHANGED <<database, settled, asking, player>>

-----------------------------------------------------------------------------
Next ==
  \/ Register \/ LeaseEnds \/ Poll \/ Report \/ PlayerEnds \/ Restart
  \/ \E s \in Sessions, n \in 1..MaxReports : Heartbeat(s, n) \/ \E t \in Threads : Save(t, s, n)
  \/ \E t \in Threads : Read(t) \/ Write(t)
  \/ \E c \in CommandIds : Ask(c) \/ Command(c) \/ TimePasses(c) \/ CarryOut(c) \/ Result(c)

Spec == Init /\ [][Next]_vars

\* Time passes, and a phone that plays polls.
FairSpec ==
  /\ Spec
  /\ WF_vars(Poll)
  /\ \A c \in CommandIds : WF_vars(TimePasses(c))

-----------------------------------------------------------------------------
Commands == [CommandIds -> 0..MaxSessions]

TypeOK ==
  /\ generation \in 0..MaxSessions /\ progress \in (0..MaxSessions) \X (0..MaxReports)
  /\ phone \in {0, generation} /\ revision \in Nat /\ sequence \in 0..MaxReports /\ leased \in BOOLEAN
  /\ status \in [CommandIds -> {"none", "queued"} \cup Final] /\ owner \in Commands
  /\ late \subseteq CommandIds /\ settled \subseteq CommandIds
  /\ saving \in [Threads -> [step : {"idle", "read", "write"},
                             generation : 0..MaxSessions, sequence : 0..MaxReports,
                             found : (0..MaxSessions) \X (0..MaxReports)]]
  /\ askedFor \in Commands /\ askedAt \in [CommandIds -> Nat]
  /\ open \in 0..MaxSessions /\ seen \subseteq CommandIds
  /\ done \in [CommandIds -> {"none", "applied", "rejected"}] /\ reports \in [Sessions -> 0..MaxReports]

(* The revision of the player is the number of commands that were applied to  *)
(* its session, whatever was lost, repeated, late or forgotten, so whoever    *)
(* names the newest one has seen each of them (server.py:1590, 1627).         *)
RevisionCounts ==
  phone # 0 => revision = Cardinality({c \in CommandIds : status[c] = "applied" /\ owner[c] = phone})

(* A command that was settled once stays as it is, and is never queued again, *)
(* though its request and its result may come again and a restart forgets it  *)
(* (server.py:1585, 1615).                                                    *)
SettledForGood == [][\A c \in settled : status'[c] # "queued" /\ status'[c] \in {status[c], "none"}]_vars

(* A command does not stay queued while a phone goes on playing in the        *)
(* service's session: it is carried out or it expires (server.py:1604).       *)
CommandsEnd == \A c \in CommandIds : (status[c] = "queued") ~> (status[c] # "queued" \/ open = 0 \/ open # phone)

(* "The service rejects older records for the same or a replaced session."    *)
(* (docs/media-system-plan.md:109)  It does so but for one race: the place     *)
(* saved goes back only when another upload was saved between the upload's own *)
(* look at the database and its write (save_progress, server.py:715-719).      *)
Forward == progress'[1] > progress[1] \/ (progress'[1] = progress[1] /\ progress'[2] > progress[2])
Overtaken(t) == saving[t].found # progress
ForwardUnlessOvertaken ==
  [][progress' # progress => Forward \/ \E t \in Threads : Write(t) /\ Overtaken(t)]_vars
=============================================================================
