-------------------------------- MODULE AppChat --------------------------------
(***************************************************************************)
(* Conversations in the phone app (src/assets/android-ui-mock): the list,  *)
(* the open conversation with its composer, the model that answers, forks, *)
(* and what other pages send to a conversation.                            *)
(*                                                                         *)
(* There is one draft, one attachment and one choice of model in the whole *)
(* app, whichever conversation is open.  A conversation holds references   *)
(* to its messages, which are changed in place.  Every tap is one step.    *)
(* Left out: titles, favourites, exports, the cards of what the assistant  *)
(* did, and of a message's words all but whether they were made anew.      *)
(***************************************************************************)
EXTENDS AppPlaces, FiniteSets, SequencesExt

CONSTANTS
  Models,       \* the models of MODELS
  Available,    \* those whose provider is set up
  EffortsOf,    \* the efforts of each model, the first one first
  Files,        \* what is added to a message
  None,         \* no file, no message picked, no model chosen yet
  MaxThreads,   \* bound: conversations
  MaxMessages,  \* bound: messages of one conversation
  Reach         \* bound: the places a person walks to

EffortSet(m) == ToSet(EffortsOf[m])
Efforts == UNION {EffortSet(m) : m \in Models}

ASSUME ModelsAssumption ==
  /\ Available \subseteq Models /\ Available # {} /\ None \notin Files
  /\ EffortsOf \in [Models -> Seq(STRING)] /\ \A m \in Models : EffortsOf[m] # <<>>
ASSUME BoundsAssumption ==
  MaxThreads \in Nat \ {0} /\ MaxMessages \in Nat \ (0..2) /\ Reach \subseteq Places \ {"conversation"}

VARIABLES
  place,      \* S.place
  sheet,      \* S.sheet: its type and its argument
  pi,         \* S.pi
  messages,   \* the messages of each conversation, by reference
  said,       \* what each message is: who speaks, and the words
  archived,   \* the archived ones
  made,       \* how many conversations there are; the ids are 1..made
  threadId,   \* S.threadId
  draft,      \* S.draft: something is written
  attachment, \* S.chatAttachment
  pickedMsg,  \* S.pickedMsg, None or an index
  chosen,     \* S.model and S.effort; S.defaultModel and S.defaultEffort
  modelDraft  \* S.modelDraft, <<>> when null

composing == <<draft, attachment>>
choosing == <<chosen, modelDraft>>
talking == <<messages, said, archived, made>>
vars == <<place, sheet, pi, talking, threadId, composing, pickedMsg, choosing>>

Ids == 1..MaxThreads
Scopes == {"chat", "default"}
Choice(m, e) == [model |-> m, effort |-> e]
ModelChoices == {Choice(m, e) : m \in Models, e \in Efforts}
Sheet(type, arg) == [type |-> type, arg |-> arg]
NoSheet == Sheet("none", None)
PiUp == pi = "online"
Here == messages[threadId]
Said(i) == said[Here[i]]

\* A message is named by the conversation it was made for and its place there.
Objects == Ids \X (1..MaxMessages)
Speakers == {"me", "thinking", "reply"}
Words == {"first", "anew"}
Message(who) == [who |-> who, words |-> "first"]
Unsaid == [who |-> "nobody", words |-> "first"]
Made(t, n) == [i \in 1..n |-> <<t, i>>]

\* The sample conversations; the second one is archived.
Init ==
  /\ place = "chat" /\ sheet = NoSheet /\ pi = "online"
  /\ messages = [t \in Ids |-> IF t = 1 THEN Made(1, 3) ELSE <<>>]
  /\ said = [o \in Objects |-> CASE o = <<1, 1>> -> Message("me")
                                 [] o = <<1, 2>> -> Message("thinking")
                                 [] o = <<1, 3>> -> Message("reply")
                                 [] OTHER -> Unsaid]
  /\ archived = {2} \cap Ids /\ made = IF MaxThreads > 1 THEN 2 ELSE 1
  /\ threadId = 1 /\ draft = FALSE /\ attachment = None /\ pickedMsg = None
  /\ \E m \in Available : chosen = [s \in Scopes |-> Choice(m, EffortsOf[m][1])]
  /\ modelDraft = <<>>

-----------------------------------------------------------------------------
\* go(); the mutant keeps the message picked.
GoPicked(p) == place' = p /\ sheet' = NoSheet /\ UNCHANGED pickedMsg
Arrive(p) == place' = p /\ sheet' = NoSheet /\ pickedMsg' = None

Show(s) == sheet' = s /\ UNCHANGED <<place, pickedMsg>>

Go(p) == Arrive(p) /\ UNCHANGED <<pi, talking, threadId, composing, choosing>>

Back ==
  /\ IF sheet # NoSheet THEN Show(NoSheet) /\ modelDraft' = <<>>
     ELSE BackTarget(place) # Nowhere /\ Arrive(BackTarget(place)) /\ UNCHANGED modelDraft
  /\ UNCHANGED <<pi, talking, threadId, composing, chosen>>

Offered ==
  {Sheet("item", x) : x \in IF place = "media" THEN Files ELSE {}}
  \cup {Sheet("to-chat", x) : x \in IF sheet.type = "item" THEN {sheet.arg} ELSE {}}
  \cup {Sheet("model", "default") : x \in IF place \in {"chat", "settings"} THEN {0} ELSE {}}
  \cup {Sheet("model", "chat") : x \in IF place = "conversation" THEN {0} ELSE {}}
  \cup {Sheet("chat-add", None) : x \in IF place = "conversation" THEN {0} ELSE {}}
  \cup {Sheet("fork", i) : i \in IF place = "conversation" /\ pickedMsg # None THEN {pickedMsg} ELSE {}}
Open(s) == Show(s) /\ modelDraft' = <<>> /\ UNCHANGED <<pi, talking, threadId, composing, chosen>>

-----------------------------------------------------------------------------
(* Which conversation is open.                                             *)
OpenThread(t) ==
  /\ place \in {"chat", "home", "search"}
  /\ threadId' = t
  /\ draft' = FALSE
  /\ Arrive("conversation")
  /\ UNCHANGED <<pi, talking, attachment, choosing>>

\* 'new-thread': an empty conversation that the default model answers.
Adds(file) ==
  /\ made < MaxThreads
  /\ made' = made + 1
  /\ threadId' = made + 1
  /\ draft' = FALSE
  /\ chosen' = [chosen EXCEPT !["chat"] = chosen["default"]]
  /\ attachment' = file
  /\ Arrive("conversation")
  /\ UNCHANGED <<pi, messages, said, archived, modelDraft>>
NewThread == place = "chat" /\ PiUp /\ Adds(attachment)

\* 'attach-chat': "Send to a conversation", an open one or a new one.
AttachTo(t) ==
  /\ sheet.type = "to-chat" /\ t \notin archived
  /\ threadId' = t
  /\ attachment' = sheet.arg
  /\ Arrive("conversation")
  /\ UNCHANGED <<pi, talking, draft, choosing>>
AttachToNew == sheet.type = "to-chat" /\ Adds(sheet.arg)

Archive ==
  /\ place = "conversation" /\ Here # <<>>
  /\ archived' = IF threadId \in archived THEN archived \ {threadId} ELSE archived \cup {threadId}
  /\ UNCHANGED <<place, sheet, pi, messages, said, made, threadId, composing, pickedMsg, choosing>>

-----------------------------------------------------------------------------
(* Writing and sending.                                                    *)
Type ==
  /\ place = "conversation"
  /\ draft' = ~draft
  /\ UNCHANGED <<place, sheet, pi, talking, threadId, attachment, pickedMsg, choosing>>

AddFile(x) ==
  /\ sheet.type = "chat-add"
  /\ attachment' = x
  /\ Show(NoSheet)
  /\ UNCHANGED <<pi, talking, threadId, draft, choosing>>

Detach ==
  /\ place = "conversation" /\ attachment # None
  /\ attachment' = None
  /\ UNCHANGED <<place, sheet, pi, talking, threadId, draft, pickedMsg, choosing>>

Room == Len(Here) + 2 <= MaxMessages

\* 'send-chat': the message and the answer to it; the picked one stays picked.
Says ==
  /\ LET mine == <<threadId, Len(Here) + 1>>
         answer == <<threadId, Len(Here) + 2>>
     IN  /\ messages' = [messages EXCEPT ![threadId] = @ \o <<mine, answer>>]
         /\ said' = [said EXCEPT ![mine] = Message("me"), ![answer] = Message("reply")]
  /\ draft' = FALSE /\ attachment' = None

SendChat ==
  /\ place = "conversation" /\ PiUp
  /\ (draft \/ attachment # None) /\ Room
  /\ Says
  /\ UNCHANGED <<place, sheet, pi, archived, made, threadId, pickedMsg, choosing>>

PickMsg(i) ==
  /\ place = "conversation" /\ Said(i).who # "thinking"
  /\ pickedMsg' = IF pickedMsg = i THEN None ELSE i
  /\ UNCHANGED <<place, sheet, pi, talking, threadId, composing, choosing>>

Picked(who) == place = "conversation" /\ pickedMsg # None /\ Said(pickedMsg).who = who

EditMsg ==
  /\ Picked("me")
  /\ draft' = TRUE /\ pickedMsg' = None
  /\ UNCHANGED <<place, sheet, pi, talking, threadId, attachment, choosing>>

\* The words of the reply are changed where they are.
Regenerate ==
  /\ Picked("reply")
  /\ said' = [said EXCEPT ![Here[pickedMsg]].words = "anew"]
  /\ pickedMsg' = None
  /\ UNCHANGED <<place, sheet, pi, messages, archived, made, threadId, composing, choosing>>

\* The messages up to the one the sheet names are cloned; the mutant takes
\* them along by reference.
SharedOver(i) == messages' = [messages EXCEPT ![made + 1] = SubSeq(Here, 1, i)] /\ UNCHANGED said
Cloned(i) ==
  /\ messages' = [messages EXCEPT ![made + 1] = Made(made + 1, i)]
  /\ said' = [o \in Objects |-> IF o[1] = made + 1 /\ o[2] <= i THEN Said(o[2]) ELSE said[o]]

Fork ==
  /\ sheet.type = "fork" /\ made < MaxThreads
  /\ Cloned(sheet.arg)
  /\ archived' = IF threadId \in archived THEN archived \cup {made + 1} ELSE archived
  /\ made' = made + 1 /\ threadId' = made + 1
  /\ Arrive("conversation")
  /\ UNCHANGED <<pi, composing, choosing>>

-----------------------------------------------------------------------------
(* The model and its effort.                                               *)
CurrentDraft(scope) == IF modelDraft = <<>> THEN chosen[scope] ELSE modelDraft[1]

\* Another model keeps the effort when it has it, or takes its first one.
KeepsEffort(m, e) == e
FittingEffort(m, e) ==
  IF e \in EffortSet(m) THEN e ELSE EffortsOf[m][1]

DraftModel(m) ==
  /\ sheet.type = "model" /\ m \in Available
  /\ modelDraft' = <<Choice(m, FittingEffort(m, CurrentDraft(sheet.arg).effort))>>
  /\ UNCHANGED <<place, sheet, pi, talking, threadId, composing, pickedMsg, chosen>>

DraftEffort(i) ==
  /\ sheet.type = "model"
  /\ LET d == CurrentDraft(sheet.arg) IN
       /\ i \in DOMAIN EffortsOf[d.model]
       /\ modelDraft' = <<Choice(d.model, EffortsOf[d.model][i])>>
  /\ UNCHANGED <<place, sheet, pi, talking, threadId, composing, pickedMsg, chosen>>

\* saveModel().
Saved == [chosen EXCEPT ![sheet.arg] = CurrentDraft(sheet.arg)]

SaveModel ==
  /\ sheet.type = "model"
  /\ chosen' = Saved
  /\ modelDraft' = <<>>
  /\ Show(NoSheet)
  /\ UNCHANGED <<pi, talking, threadId, composing>>

\* "Save and send" is offered when something is written, and sends at once.
SaveAndSend ==
  /\ sheet = Sheet("model", "chat") /\ draft /\ Room
  /\ chosen' = Saved
  /\ modelDraft' = <<>>
  /\ Says
  /\ Show(NoSheet)
  /\ UNCHANGED <<pi, archived, made, threadId>>

PiChanges == pi' = (IF PiUp THEN "away" ELSE "online") /\ UNCHANGED <<place, sheet, talking, threadId, composing, pickedMsg, choosing>>

Next ==
  \/ \E p \in Reach : Go(p)
  \/ \E s \in Offered : Open(s)
  \/ \E t \in 1..made : OpenThread(t) \/ AttachTo(t)
  \/ Back \/ NewThread \/ AttachToNew \/ Archive
  \/ \E x \in Files : AddFile(x)
  \/ \E i \in DOMAIN Here : PickMsg(i)
  \/ Type \/ Detach \/ SendChat \/ EditMsg \/ Regenerate \/ Fork
  \/ \E m \in Models : DraftModel(m) \/ \E i \in 1..Len(EffortsOf[m]) : DraftEffort(i)
  \/ SaveModel \/ SaveAndSend \/ PiChanges

Spec == Init /\ [][Next]_vars

-----------------------------------------------------------------------------
\* A model that is set up, with an effort it has.
Fitting == {c \in ModelChoices : c.model \in Available /\ c.effort \in EffortSet(c.model)}

TypeOK ==
  /\ place \in Places /\ pi \in {"online", "away"} /\ draft \in BOOLEAN
  /\ made \in Ids /\ threadId \in 1..made /\ archived \subseteq 1..made
  /\ messages \in [Ids -> Seq(Objects)]
  /\ said \in [Objects -> [who : Speakers \cup {"nobody"}, words : Words]]
  /\ attachment \in Files \cup {None}
  /\ chosen \in [Scopes -> Fitting] /\ modelDraft \in {<<>>} \cup {<<c>> : c \in Fitting}

(* The message that is picked, and the one a fork is cut at, is a message of  *)
(* the conversation that is open (app.js finds it by its index only).         *)
PickedIsHere ==
  /\ pickedMsg # None => place = "conversation" /\ pickedMsg \in DOMAIN Here /\ Said(pickedMsg).who # "thinking"
  /\ sheet.type = "fork" => place = "conversation" /\ sheet.arg \in DOMAIN Here

(* A conversation changes only while it is the open one, and only by growing  *)
(* or by making the reply that is picked anew: its other messages, and every  *)
(* message of the conversations it was forked from and that were forked from  *)
(* it, keep their words (app.js:285, 313).                                    *)
Shown(t) == [i \in DOMAIN messages[t] |-> said[messages[t][i]]]
Anew(old, new) ==
  /\ pickedMsg \in DOMAIN old /\ old[pickedMsg].who = "reply"
  /\ DOMAIN new = DOMAIN old
  /\ \A i \in DOMAIN old \ {pickedMsg} : new[i] = old[i]
OnlyTheOpenOneChanges ==
  [][\A t \in 1..made : Shown(t)' # Shown(t) =>
       /\ t = threadId /\ place = "conversation"
       /\ IsStrictPrefix(Shown(t), Shown(t)') \/ Anew(Shown(t), Shown(t)')]_vars
=============================================================================
