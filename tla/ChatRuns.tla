------------------------------- MODULE ChatRuns -------------------------------
(***************************************************************************)
(* The assistant's chat: POST /chat, /chat/stop, /reset and the            *)
(* conversation routes, over the run registry (in memory) and the          *)
(* conversation files (assist/{chat,conversations,main,stream}.go).        *)
(*                                                                         *)
(* A request is a goroutine.  convStore.change loads, alters and saves a   *)
(* conversation under one lock, and a rename puts the file in place, so    *)
(* each save is one step; between two of them anything may happen, and the *)
(* service may be restarted.  The four providers' loops are one loop here: *)
(* a call, the items of its reply in order, and again if it asked for      *)
(* tools.                                                                  *)
(***************************************************************************)
EXTENDS Naturals, Sequences, FiniteSets

CONSTANTS
  Sessions,     \* conversation ids
  MaxRequests,  \* bound: messages accepted in a behaviour
  MaxTurns,     \* maxTurns, 40 in the code
  MaxSteps,     \* maxToolSteps, 100 in the code
  Replies,      \* what one provider call may return: items and "call again"
  DisksFail     \* whether a save may fail

ASSUME BoundsAssumption == MaxTurns \in Nat \ {0} /\ MaxSteps \in Nat \ {0} /\ MaxRequests \in Nat

ASSUME ReplyAssumption == \A r \in Replies : r.items \in Seq({"thinking", "tool"}) /\ r.again \in BOOLEAN

ASSUME DiskAssumption == DisksFail \in BOOLEAN

VARIABLES
  saved,       \* conversations with a file
  transcript,  \* what a person sees of each
  history,     \* what the model is replayed
  running,     \* runRegistry.running: the request that holds it, 0 if none
  cancelled,   \* requests under way that were asked to stop
  accepted,    \* how many messages were accepted so far
  run,         \* the requests' goroutines, in the order of Claim
  deleted      \* history: conversations deleted and not written to since

files == <<saved, transcript, history>>
registry == <<running, accepted>>
vars == <<files, registry, cancelled, run, deleted>>

Requests == 1..MaxRequests

(* step counts the provider calls; words: answer text has arrived in this  *)
(* one; items and again are what its reply still asks for; text is the     *)
(* final turn: none yet, empty or words, and whether it is marked stopped. *)
Pc == {"none", "claimed", "loop", "asking", "items", "text", "reply", "finish", "done"}
Idle == [pc |-> "none", session |-> "", step |-> 0, words |-> FALSE, items |-> <<>>,
         again |-> FALSE, text |-> "none", stopped |-> FALSE]

Entry(r, kind) == [req |-> r, kind |-> kind]
Active(r) == run[r].pc \notin {"none", "done"}
InTool(r) == run[r].pc = "items" /\ run[r].items # <<>> /\ Head(run[r].items) = "tool"

Init ==
  /\ saved = {}
  /\ transcript = [s \in Sessions |-> <<>>]
  /\ history = [s \in Sessions |-> <<>>]
  /\ running = [s \in Sessions |-> 0]
  /\ cancelled = {}
  /\ accepted = 0
  /\ run = [r \in Requests |-> Idle]
  /\ deleted = {}

-----------------------------------------------------------------------------
(* The newest limit entries.                                               *)
OneTooMany(h, limit) ==
  IF Len(h) > limit + 1 THEN SubSeq(h, Len(h) - limit, Len(h)) ELSE h
Newest(h, limit) == IF Len(h) > limit THEN SubSeq(h, Len(h) - limit + 1, Len(h)) ELSE h

(* convStore.change with the transcript and the history it saves.  A       *)
(* conversation without a file is loaded as an empty one, so any change    *)
(* creates the file.                                                       *)
TrimsBoth(s, t, h) ==
  /\ saved' = saved \cup {s}
  /\ transcript' = [transcript EXCEPT ![s] = Newest(t, MaxTurns)]
  /\ history' = [history EXCEPT ![s] = h]
Change(s, t, h) ==
  /\ saved' = saved \cup {s}
  /\ transcript' = [transcript EXCEPT ![s] = t]
  /\ history' = [history EXCEPT ![s] = h]

Failed == DisksFail /\ UNCHANGED files

Users(l) == {i \in 1..Len(l) : l[i].kind = "user"}

(* The owner's messages behind entry i.                                    *)
Behind(l, i) == Cardinality({j \in Users(l) : j > i})

(* The history without its last n messages of the owner, and without what  *)
(* follows the first of them: entries with n messages behind them are kept.*)
DropEntries(h, n) == IF n > Len(h) THEN <<>> ELSE SubSeq(h, 1, Len(h) - n)
DropUsers(h, n) == SubSeq(h, 1, Cardinality({i \in 1..Len(h) : Behind(h, i) >= n}))

Goto(r, pc) == run' = [run EXCEPT ![r].pc = pc]

-----------------------------------------------------------------------------
NeverBusy(s) == FALSE
Busy(s) == running[s] # 0

OneStepMore(r) == run[r].step <= MaxSteps
StepsLeft(r) == run[r].step < MaxSteps

(* POST /chat: runRegistry.start.  A busy conversation answers 409 and     *)
(* changes nothing, like a message that cannot be decoded or has no key.   *)
Claim(s) ==
  /\ ~Busy(s)
  /\ accepted < MaxRequests
  /\ accepted' = accepted + 1
  /\ running' = [running EXCEPT ![s] = accepted']
  /\ run' = [run EXCEPT ![accepted'] = [Idle EXCEPT !.pc = "claimed", !.session = s]]
  /\ UNCHANGED <<files, cancelled, deleted>>

(* userTurn; when it fails the handler answers 400 and only finish runs.   *)
UserTurn(r) ==
  LET s == run[r].session IN
  /\ run[r].pc = "claimed"
  /\ \/ /\ Change(s, Append(transcript[s], Entry(r, "user")),
                     Newest(Append(history[s], Entry(r, "user")), MaxTurns))
        /\ deleted' = deleted \ {s}
        /\ Goto(r, "loop")
     \/ Failed /\ Goto(r, "finish") /\ UNCHANGED deleted
  /\ UNCHANGED <<registry, cancelled>>

(* runState.stop: the final turn is what had arrived.                      *)
StoppedText(r) ==
  run' = [run EXCEPT ![r] = [@ EXCEPT !.pc = "text", !.stopped = TRUE,
                                      !.text = IF run[r].words THEN "words" ELSE "empty"]]

Ceiling(r) ==
  /\ run[r].pc = "loop" /\ ~StepsLeft(r)
  /\ Goto(r, "text")
  /\ UNCHANGED <<files, registry, cancelled, deleted>>

SeeStop(r) ==
  /\ run[r].pc = "loop" /\ StepsLeft(r)
  /\ r \in cancelled
  /\ StoppedText(r)
  /\ UNCHANGED <<files, registry, cancelled, deleted>>

CountsAnew(r) ==
  /\ run[r].pc = "loop" /\ StepsLeft(r)
  /\ r \notin cancelled
  /\ run' = [run EXCEPT ![r] = [@ EXCEPT !.pc = "asking", !.step = 1, !.words = FALSE]]
  /\ UNCHANGED <<files, registry, cancelled, deleted>>
Ask(r) ==
  /\ run[r].pc = "loop" /\ StepsLeft(r)
  /\ r \notin cancelled
  /\ run' = [run EXCEPT ![r] = [@ EXCEPT !.pc = "asking", !.step = run[r].step + 1, !.words = FALSE]]
  /\ UNCHANGED <<files, registry, cancelled, deleted>>

(* The provider streams words of an answer.                                *)
Words(r) ==
  /\ run[r].pc = "asking" /\ ~run[r].words
  /\ run' = [run EXCEPT ![r].words = TRUE]
  /\ UNCHANGED <<files, registry, cancelled, deleted>>

(* The provider call ends: with a whole reply, even when the stop came     *)
(* meanwhile, or with an error, which a cancelled context is one of.       *)
Reply(r, reply) ==
  /\ run[r].pc = "asking"
  /\ run' = [run EXCEPT ![r] = [@ EXCEPT !.pc = "items", !.items = reply.items, !.again = reply.again]]
  /\ UNCHANGED <<files, registry, cancelled, deleted>>

CallFails(r) ==
  /\ run[r].pc = "asking"
  /\ IF r \in cancelled THEN StoppedText(r) ELSE Goto(r, "text")
  /\ UNCHANGED <<files, registry, cancelled, deleted>>

(* A thought of the reply, or a tool call once executeTool has returned,   *)
(* is saved at once; a save that fails is not looked at.                   *)
Item(r, item) ==
  LET s == run[r].session IN
  /\ run[r].pc = "items" /\ run[r].items # <<>> /\ Head(run[r].items) = item
  /\ run' = [run EXCEPT ![r].items = Tail(@)]
  /\ Change(s, Append(transcript[s], Entry(r, "step")), history[s]) \/ Failed
  /\ UNCHANGED <<registry, cancelled, deleted>>

(* The reply is used up: call again, or it was the answer.  When nothing   *)
(* was streamed the text may be empty, or one the runner made up, as for a *)
(* refusal.                                                                *)
EmitsText(r) ==
  LET s == run[r].session IN
  /\ run[r].pc = "items" /\ run[r].items = <<>> /\ ~run[r].again
  /\ run' = [run EXCEPT ![r] = [@ EXCEPT !.pc = "text", !.text = "words"]]
  /\ Change(s, Append(transcript[s], Entry(r, "text")), history[s])
  /\ UNCHANGED <<registry, cancelled, deleted>>
EndOfReply(r) ==
  /\ run[r].pc = "items" /\ run[r].items = <<>>
  /\ IF run[r].again
     THEN Goto(r, "loop")
     ELSE \E text \in IF run[r].words THEN {"words"} ELSE {"words", "empty"} :
            run' = [run EXCEPT ![r] = [@ EXCEPT !.pc = "text", !.text = text]]
  /\ UNCHANGED <<files, registry, cancelled, deleted>>

(* finishRun: the text turn is saved, and only then, by another change,    *)
(* the reply goes to the history.  A run that failed has no text turn.     *)
FreesEarly(r) ==
  /\ run[r].pc = "text" /\ run[r].text # "none"
  /\ Change(run[r].session, Append(transcript[run[r].session], Entry(r, "text")),
            history[run[r].session])
  /\ Goto(r, "reply")
  /\ running' = [running EXCEPT ![run[r].session] = 0]
  /\ UNCHANGED <<accepted, cancelled, deleted>>
SaveText(r) ==
  LET s == run[r].session IN
  /\ run[r].pc = "text"
  /\ \/ run[r].text = "none" /\ UNCHANGED files
     \/ run[r].text # "none" /\ Change(s, Append(transcript[s], Entry(r, "text")), history[s])
     \/ run[r].text # "none" /\ Failed
  /\ Goto(r, "reply")
  /\ UNCHANGED <<registry, cancelled, deleted>>

Answered(r) ==
  LET s == run[r].session IN
  /\ run[r].pc = "reply"
  /\ \/ run[r].text # "words" /\ UNCHANGED files
     \/ run[r].text = "words" /\ Change(s, transcript[s], Append(history[s], Entry(r, "model")))
     \/ run[r].text = "words" /\ Failed
  /\ Goto(r, "finish")
  /\ UNCHANGED <<registry, cancelled, deleted>>

(* The deferred finish() of the handler.                                   *)
Finish(r) ==
  /\ run[r].pc = "finish"
  /\ running' = [running EXCEPT ![run[r].session] = 0]
  /\ cancelled' = cancelled \ {r}
  /\ run' = [run EXCEPT ![r] = [Idle EXCEPT !.pc = "done", !.session = run[r].session]]
  /\ UNCHANGED <<files, accepted, deleted>>

-----------------------------------------------------------------------------
(* POST /chat/stop.  With no reply under way it answers stopped: false.    *)
Stop(s) ==
  /\ running[s] # 0
  /\ cancelled' = cancelled \cup {running[s]}
  /\ UNCHANGED <<files, registry, run, deleted>>

(* POST /conversations/<id>/rewind.  keep past the end cuts nothing, and   *)
(* saves all the same.                                                     *)
Rewind(s, keep) ==
  LET cut == SubSeq(transcript[s], keep + 1, Len(transcript[s])) IN
  /\ keep \in 0..Len(transcript[s])
  /\ Change(s, SubSeq(transcript[s], 1, keep), DropUsers(history[s], Cardinality(Users(cut))))
     \/ Failed
  /\ deleted' = IF saved' = saved THEN deleted ELSE deleted \ {s}
  /\ UNCHANGED <<registry, cancelled, run>>

(* POST /conversations/<id>: the title, the model and so on.               *)
Settings(s) ==
  /\ Change(s, transcript[s], history[s])
  /\ deleted' = deleted \ {s}
  /\ UNCHANGED <<registry, cancelled, run>>

(* DELETE /conversations/<id> and POST /reset.  A reply that is under way  *)
(* goes on.                                                                *)
Remove(s) ==
  /\ saved' = saved \ {s}
  /\ transcript' = [transcript EXCEPT ![s] = <<>>]
  /\ history' = [history EXCEPT ![s] = <<>>]
  /\ deleted' = deleted \cup {s}
  /\ UNCHANGED <<registry, cancelled, run>>

(* The service dies and is started again: the files are all it has.        *)
Restart ==
  /\ running' = [s \in Sessions |-> 0]
  /\ cancelled' = {}
  /\ run' = [r \in Requests |->
               IF Active(r) THEN [Idle EXCEPT !.pc = "done", !.session = run[r].session] ELSE run[r]]
  /\ UNCHANGED <<files, accepted, deleted>>

-----------------------------------------------------------------------------
(* What a request does by itself, the end of a tool apart.                 *)
Step(r) ==
  \/ UserTurn(r) \/ Ceiling(r) \/ SeeStop(r) \/ Ask(r)
  \/ CallFails(r) \/ \E reply \in Replies : Reply(r, reply)
  \/ Item(r, "thinking") \/ EndOfReply(r) \/ SaveText(r) \/ Answered(r) \/ Finish(r)

Owner(s) ==
  \/ Claim(s) \/ Stop(s) \/ Settings(s) \/ Remove(s)
  \/ \E keep \in 0..Len(transcript[s]) : Rewind(s, keep)

Next ==
  \/ \E r \in Requests : Step(r) \/ Words(r) \/ Item(r, "tool")
  \/ \E s \in Sessions : Owner(s)
  \/ Restart

Spec == Init /\ [][Next]_vars

(* Goroutines are scheduled, and every provider call has a deadline.  A    *)
(* tool has none: executeTool runs a shell command for as long as it takes.*)
FairSpec == Spec /\ \A r \in Requests : WF_vars(Step(r))

-----------------------------------------------------------------------------
RunRec == [pc : Pc, session : Sessions \cup {""}, step : 0..MaxSteps, words : BOOLEAN,
           items : Seq({"thinking", "tool"}), again : BOOLEAN,
           text : {"none", "empty", "words"}, stopped : BOOLEAN]
Conversation(kinds) == [Sessions -> Seq([req : Requests, kind : kinds])]

(* The files, the registry and the goroutines have their types, the        *)
(* registry names the request under way in each conversation, and only     *)
(* requests under way are asked to stop.                                   *)
TypeOK ==
  /\ saved \subseteq Sessions /\ deleted \subseteq Sessions
  /\ transcript \in Conversation({"user", "step", "text"})
  /\ history \in Conversation({"user", "model"})
  /\ running \in [Sessions -> {0} \cup Requests]
  /\ accepted \in 0..MaxRequests
  /\ run \in [Requests -> RunRec]
  /\ cancelled \subseteq {r \in Requests : Active(r)}

(* A request is under way exactly while the registry says so: a crash, a   *)
(* failed save or a model's error leaves no conversation claimed, and no   *)
(* reply runs on in one that is free.  chat.go:27-47.                      *)
ClaimedWhileActive == \A s \in Sessions, r \in Requests :
  running[s] = r <=> Active(r) /\ run[r].session = s

(* What the model is replayed are the newest of the owner's messages that  *)
(* are still shown, in the same order and with none left out: as many are  *)
(* behind each one here as there.  No rewind, in the middle of a reply or  *)
(* after the history was trimmed, makes the two part.                      *)
(* conversations.go:114-176.                                               *)
AskedLast(t, h) == \A i \in Users(h) : \E j \in Users(t) :
  t[j].req = h[i].req /\ Behind(t, j) = Behind(h, i)
ModelSeesTheNewest == \A s \in Sessions : AskedLast(transcript[s], history[s])

(* The history is trimmed when a message comes and grows by one answer     *)
(* before the next: maxTurns is a bound whatever fails.                    *)
HistoryBounded == \A s \in Sessions : Len(history[s]) <= MaxTurns + 1

(* No answer of the model stands before the message it answers, none stands*)
(* behind a later message than its own, and no message has two: two        *)
(* replies never interleave in what the model is replayed.                 *)
AnswersInPlace == \A s \in Sessions : \A i, j \in 1..Len(history[s]) : i < j =>
  \/ history[s][i].req < history[s][j].req
  \/ /\ history[s][i].req = history[s][j].req
     /\ history[s][i].kind = "user" /\ history[s][j].kind = "model"

(* A conversation the owner deleted stays deleted until the owner writes   *)
(* to it again (conversations.go:316: DELETE removes it).                  *)
RemovedStaysRemoved == deleted \cap saved = {}

(* A conversation that is answering is free again some day, unless a tool  *)
(* never returns: no reply outlives the ceiling on provider calls, and no  *)
(* error or stop leaves the conversation answering 409 for ever.           *)
EveryRunEnds == \A s \in Sessions :
  []<>(running[s] = 0) \/ <>[](running[s] # 0 /\ InTool(running[s]))

(* The conversation as the owner sees it, as module Dialogue promises it.  *)
PhaseOf(pc) ==
  IF pc = "claimed" THEN "claimed"
  ELSE IF pc \in {"reply", "finish"} THEN "told" ELSE "telling"
Phase == [s \in Sessions |-> IF running[s] = 0 THEN "closed" ELSE PhaseOf(run[running[s]].pc)]
Promise == INSTANCE Dialogue WITH
  log <- transcript,
  open <- running,
  phase <- Phase,
  asked <- accepted

(* Every step of the chat is a step of a dialogue or shows nothing of it.  *)
IsDialogue == Promise!Spec
RepliesInOrder == Promise!RepliesInOrder
=============================================================================
