---------------------------- MODULE AppChat_proof ----------------------------
(***************************************************************************)
(* What AppChat promises for every set of models and files and every       *)
(* bound: the model that answers is one that is set up, the message picked *)
(* or forked at is one of the open conversation, and a conversation changes*)
(* only while it is open.                                                  *)
(*                                                                         *)
(* A sheet outlives the tap that opened it, so the invariant also says     *)
(* what an open sheet may name (Fits): a file, a scope of the choice of    *)
(* model, a message of the conversation that is open.  A conversation that *)
(* is not made yet has no message (Unmade), so that a new one starts       *)
(* empty.  And every conversation holds messages of its own only (Own):    *)
(* that is why a reply changed in place changes nowhere else.              *)
(***************************************************************************)
EXTENDS AppChat, SequenceTheorems, TLAPS

(* The conversations.                                                      *)
Sayings == [who : Speakers \cup {"nobody"}, words : Words]
Unmade == \A t \in Ids : t > made => messages[t] = <<>>
Own == \A t \in Ids : \A i \in DOMAIN messages[t] : messages[t][i] = <<t, i>>
Talking ==
  /\ made \in Ids /\ threadId \in 1..made /\ archived \subseteq 1..made
  /\ messages \in [Ids -> Seq(Objects)]
  /\ said \in [Objects -> Sayings]
  /\ Unmade
  /\ Own

Composing == draft \in BOOLEAN /\ attachment \in Files \cup {None}

Choosing ==
  chosen \in [Scopes -> Fitting] /\ modelDraft \in {<<>>} \cup {<<c>> : c \in Fitting}

(* A sheet, and what its argument names.                                   *)
Fits(s) ==
  /\ s.type \in {"item", "to-chat"} => s.arg \in Files
  /\ s.type = "model" => s.arg \in Scopes
  /\ s = Sheet("model", "chat") => place = "conversation"
  /\ s.type = "fork" => place = "conversation" /\ s.arg \in DOMAIN Here

(* What can be picked in the conversation.                                 *)
Pickable(i) == place = "conversation" /\ i \in DOMAIN Here /\ Said(i).who # "thinking"

(* What is on the screen.                                                  *)
Screen ==
  /\ place \in Places /\ pi \in {"online", "away"}
  /\ pickedMsg # None => Pickable(pickedMsg)
  /\ Fits(sheet)

IInv == Talking /\ Composing /\ Choosing /\ Screen

LEMMA InvTypeOK == IInv => TypeOK
BY DEF IInv, Talking, Composing, Choosing, Screen, Sayings, TypeOK

LEMMA InvPicked == IInv => PickedIsHere
BY DEF IInv, Screen, Pickable, Fits, PickedIsHere

-----------------------------------------------------------------------------
(* Back leads to a place, and never into a conversation.                   *)
LEMMA BackPlaces ==
  ASSUME NEW p \in Places, BackTarget(p) # Nowhere
  PROVE  BackTarget(p) \in Places
BY DEF BackTarget, Places, Pages, BarPlaces, Parent, FromOutside, Nowhere

LEMMA NamedPlaces == {"chat", "conversation"} \subseteq Places
BY DEF Places, Pages, BarPlaces, Parent

-----------------------------------------------------------------------------
(* The choice of model.                                                    *)
LEMMA HasEffort ==
  ASSUME NEW m \in Available, NEW i \in 1..Len(EffortsOf[m])
  PROVE  Choice(m, EffortsOf[m][i]) \in Fitting
<1>1. m \in Models /\ EffortsOf[m] \in Seq(STRING)
  BY ModelsAssumption
<1>2. EffortsOf[m][i] \in EffortSet(m)
  BY <1>1 DEF EffortSet, ToSet
<1> QED BY <1>1, <1>2 DEF Fitting, ModelChoices, Efforts, Choice

LEMMA FirstEffort ==
  ASSUME NEW m \in Available
  PROVE  Choice(m, EffortsOf[m][1]) \in Fitting
<1>1. EffortsOf[m] \in Seq(STRING) /\ EffortsOf[m] # <<>>
  BY ModelsAssumption
<1>2. 1 \in 1..Len(EffortsOf[m])
  BY <1>1
<1> QED BY <1>2, HasEffort

(* Whatever effort was chosen for another model, this one has what it is   *)
(* given.                                                                  *)
LEMMA FittingEffortFits ==
  ASSUME NEW m \in Available, NEW e
  PROVE  Choice(m, FittingEffort(m, e)) \in Fitting
<1>1. CASE e \in EffortSet(m)
  <2>1. PICK i \in DOMAIN EffortsOf[m] : e = EffortsOf[m][i]
    BY <1>1 DEF EffortSet, ToSet
  <2>2. EffortsOf[m] \in Seq(STRING)
    BY ModelsAssumption
  <2>3. i \in 1..Len(EffortsOf[m]) /\ FittingEffort(m, e) = EffortsOf[m][i]
    BY <1>1, <2>1, <2>2 DEF FittingEffort
  <2> QED BY <2>3, HasEffort
<1>2. CASE e \notin EffortSet(m)
  BY <1>2, FirstEffort DEF FittingEffort
<1> QED BY <1>1, <1>2

LEMMA DraftFits ==
  ASSUME Choosing, NEW scope \in Scopes
  PROVE  CurrentDraft(scope) \in Fitting
<1>1. CASE modelDraft = <<>>
  BY <1>1 DEF CurrentDraft, Choosing
<1>2. CASE modelDraft # <<>>
  <2>1. PICK c \in Fitting : modelDraft = <<c>>
    BY <1>2 DEF Choosing
  <2> QED BY <1>2, <2>1 DEF CurrentDraft
<1> QED BY <1>1, <1>2

LEMMA SavedFits ==
  ASSUME Choosing, sheet.arg \in Scopes
  PROVE  Saved \in [Scopes -> Fitting]
<1>1. CurrentDraft(sheet.arg) \in Fitting
  BY DraftFits
<1> QED BY <1>1 DEF Saved, Choosing

-----------------------------------------------------------------------------
(* What a step leaves alone, and what it may do to the screen.             *)
LEMMA TalkingSame == Talking /\ UNCHANGED <<talking, threadId>> => Talking'
BY DEF Talking, talking, Unmade, Own

LEMMA ComposingSame == Composing /\ UNCHANGED composing => Composing'
BY DEF Composing, composing

LEMMA ChoosingSame == Choosing /\ UNCHANGED choosing => Choosing'
BY DEF Choosing, choosing

(* The open conversation has what it had.                                  *)
HereKept == \A i \in DOMAIN Here : i \in DOMAIN Here' /\ Said(i)'.who = Said(i).who

LEMMA HereSame == UNCHANGED <<talking, threadId>> => HereKept
BY DEF HereKept, Said, Here, talking

LEMMA Arrives ==
  ASSUME Screen, NEW p \in Places, Arrive(p), pi' = pi
  PROVE  Screen'
BY DEF Screen, Arrive, Fits, NoSheet, Sheet

LEMMA NoSheetFits == Fits(NoSheet)
BY DEF Fits, NoSheet, Sheet

LEMMA Stays ==
  ASSUME Screen, place' = place, pi' \in {"online", "away"}, HereKept, Fits(sheet'),
         pickedMsg' # None => Pickable(pickedMsg')
  PROVE  Screen'
BY DEF Screen, HereKept, Pickable, Fits

(* Only the sheet closes.                                                  *)
LEMMA Closes ==
  ASSUME Screen, Show(NoSheet), pi' = pi, HereKept
  PROVE  Screen'
<1>1. Fits(sheet')
  BY NoSheetFits DEF Show
<1> QED BY <1>1, Stays DEF Show, Screen

LEMMA OfferedFits ==
  ASSUME IInv, NEW s \in Offered
  PROVE  Fits(s)
BY DEF Offered, Sheet, Fits, IInv, Screen, Pickable, Scopes

-----------------------------------------------------------------------------
(* Moving about, and opening and closing sheets.                           *)
LEMMA Walks ==
  ASSUME IInv,
         \/ \E p \in Reach : Go(p)
         \/ \E s \in Offered : Open(s)
         \/ Back \/ PiChanges
  PROVE  IInv'
<1> USE DEF IInv
<1>1. Talking' /\ Composing' /\ HereKept
  BY TalkingSame, ComposingSame, HereSame DEF Go, Open, Back, PiChanges
<1>2. Choosing'
  BY ChoosingSame DEF Go, Open, Back, PiChanges, Choosing, choosing
<1>3. ASSUME NEW p \in Reach, Go(p) PROVE Screen'
  BY <1>3, Arrives, BoundsAssumption DEF Go
<1>4. ASSUME NEW s \in Offered, Open(s) PROVE Screen'
  BY <1>1, <1>4, OfferedFits, Stays DEF Open, Show, Screen
<1>5. CASE Back
  <2>1. CASE Show(NoSheet)
    BY <1>1, <1>2, <1>5, <2>1, Closes DEF Back
  <2>2. CASE BackTarget(place) # Nowhere /\ Arrive(BackTarget(place))
    <3>1. BackTarget(place) \in Places
      BY <2>2, BackPlaces DEF Screen
    <3> QED BY <1>1, <1>2, <1>5, <2>2, <3>1, Arrives DEF Back
  <2> QED BY <1>5, <2>1, <2>2 DEF Back
<1>6. CASE PiChanges
  BY <1>1, <1>2, <1>6, Stays DEF PiChanges, Screen
<1> QED BY <1>1, <1>2, <1>3, <1>4, <1>5, <1>6

-----------------------------------------------------------------------------
(* Which conversation is open.                                             *)
LEMMA AddsKeeps ==
  ASSUME IInv, NEW x \in Files \cup {None}, Adds(x)
  PROVE  IInv'
<1> USE DEF IInv
<1>1. Talking'
  <2>1. made \in Nat /\ made + 1 \in Ids
    BY BoundsAssumption DEF Adds, Talking, Ids
  <2> QED BY <2>1 DEF Adds, Talking, Unmade, Own, Ids
<1>2. Composing'
  BY DEF Adds, Composing
<1>3. Choosing'
  BY DEF Adds, Choosing, Scopes
<1>4. Screen'
  BY Arrives, NamedPlaces DEF Adds
<1> QED BY <1>1, <1>2, <1>3, <1>4

LEMMA OpensThread ==
  ASSUME IInv,
         \/ \E t \in 1..made : OpenThread(t) \/ AttachTo(t)
         \/ NewThread \/ AttachToNew
  PROVE  IInv'
<1> USE DEF IInv
<1>1. ASSUME NEW t \in 1..made, OpenThread(t) \/ AttachTo(t) PROVE IInv'
  <2>1. Talking'
    BY <1>1 DEF OpenThread, AttachTo, talking, Talking, Unmade, Own
  <2>2. Composing'
    BY <1>1 DEF OpenThread, AttachTo, Composing, Screen, Fits
  <2>3. Choosing'
    BY <1>1, ChoosingSame DEF OpenThread, AttachTo
  <2>4. Screen'
    BY <1>1, Arrives, NamedPlaces DEF OpenThread, AttachTo
  <2> QED BY <2>1, <2>2, <2>3, <2>4
<1>2. CASE NewThread
  BY <1>2, AddsKeeps DEF NewThread, Composing
<1>3. CASE AttachToNew
  BY <1>3, AddsKeeps DEF AttachToNew, Screen, Fits
<1> QED BY <1>1, <1>2, <1>3

(* A fork is cut at a message of the open conversation.                    *)
LEMMA Forks ==
  ASSUME IInv, Fork
  PROVE  IInv'
<1> USE DEF IInv
<1> DEFINE n == sheet.arg
<1>1. made \in Nat /\ made + 1 \in Ids /\ threadId \in Ids /\ Here \in Seq(Objects)
  BY BoundsAssumption DEF Fork, Talking, Ids, Here
<1>2. n \in 1..Len(Here) /\ n \in Nat
  <2>1. n \in DOMAIN Here
    BY DEF Fork, Screen, Fits
  <2> QED BY <1>1, <2>1
<1>3. \A i \in 1..n : i \in 1..MaxMessages /\ Here[i] \in Objects
  <2> SUFFICES ASSUME NEW i \in 1..n PROVE i \in 1..MaxMessages /\ Here[i] \in Objects
    OBVIOUS
  <2>1. i \in 1..Len(Here) /\ i \in DOMAIN Here
    BY <1>1, <1>2
  <2>2. Here[i] \in Objects /\ Here[i] = <<threadId, i>>
    BY <1>1, <2>1 DEF Talking, Own, Here
  <2> QED BY <2>2 DEF Objects
<1>4. Cloned(n)
  BY DEF Fork
<1> HIDE DEF n
<1>5. Made(made + 1, n) \in Seq(Objects)
  <2>1. \A i \in 1..n : <<made + 1, i>> \in Objects
    BY <1>1, <1>3 DEF Objects
  <2> QED BY <1>2, <2>1 DEF Made
<1>7. messages' \in [Ids -> Seq(Objects)] /\ said' \in [Objects -> Sayings]
  <2>1. messages' \in [Ids -> Seq(Objects)]
    BY <1>4, <1>5 DEF Cloned, Talking
  <2>2. ASSUME NEW o \in Objects, o[2] <= n PROVE Said(o[2]) \in Sayings
    <3>1. o[2] \in 1..n
      BY <1>2, <2>2 DEF Objects
    <3> QED BY <1>3, <3>1 DEF Said, Talking
  <2> QED BY <1>4, <2>1, <2>2 DEF Cloned, Talking
<1>8. /\ \A t \in Ids : t > made + 1 => messages'[t] = <<>>
      /\ \A t \in Ids : \A i \in DOMAIN messages'[t] : messages'[t][i] = <<t, i>>
  <2>1. messages'[made + 1] = Made(made + 1, n)
    BY <1>1, <1>4 DEF Cloned, Talking
  <2>2. \A t \in Ids \ {made + 1} : messages'[t] = messages[t]
    BY <1>4 DEF Cloned, Talking
  <2>3. \A i \in DOMAIN Made(made + 1, n) : Made(made + 1, n)[i] = <<made + 1, i>>
    BY DEF Made
  <2> QED BY <1>1, <2>1, <2>2, <2>3 DEF Talking, Unmade, Own, Ids
<1>9. Talking'
  BY <1>1, <1>7, <1>8 DEF Fork, Talking, Unmade, Own, Ids
<1>6. Screen'
  BY Arrives, NamedPlaces DEF Fork
<1> QED BY <1>6, <1>9, ComposingSame, ChoosingSame DEF Fork

LEMMA Archives ==
  ASSUME IInv, Archive
  PROVE  IInv'
<1> USE DEF IInv
<1>1. Talking'
  BY DEF Archive, Talking, Unmade, Own
<1>2. Screen'
  BY Stays DEF Archive, Screen, HereKept, Said, Here
<1> QED BY <1>1, <1>2, ComposingSame, ChoosingSame DEF Archive

-----------------------------------------------------------------------------
(* Writing and sending.                                                    *)
LEMMA Composes ==
  ASSUME IInv,
         \/ \E x \in Files : AddFile(x)
         \/ \E i \in DOMAIN Here : PickMsg(i)
         \/ Type \/ Detach \/ EditMsg
  PROVE  IInv'
<1> USE DEF IInv
<1>1. Talking' /\ Choosing' /\ HereKept /\ pi' = pi /\ place' = place
  BY TalkingSame, ChoosingSame, HereSame
     DEF AddFile, PickMsg, Type, Detach, EditMsg, Show
<1>2. Composing'
  BY DEF AddFile, PickMsg, Type, Detach, EditMsg, Composing, composing
<1>3. Fits(sheet')
  BY NoSheetFits DEF AddFile, PickMsg, Type, Detach, EditMsg, Show, Screen
<1>4. pickedMsg' # None => Pickable(pickedMsg')
  BY DEF AddFile, PickMsg, Type, Detach, EditMsg, Show, Screen, Pickable
<1>5. Screen'
  BY <1>1, <1>3, <1>4, Stays DEF Screen
<1> QED BY <1>1, <1>2, <1>5

(* A reply is made anew where it is: only in the open conversation.        *)
LEMMA Regenerates ==
  ASSUME IInv, Regenerate
  PROVE  /\ IInv'
         /\ pickedMsg \in DOMAIN Here /\ Said(pickedMsg).who = "reply" /\ place = "conversation"
         /\ \A o \in Objects \ {<<threadId, pickedMsg>>} : said'[o] = said[o]
<1> USE DEF IInv
<1>1. pickedMsg \in DOMAIN Here /\ Said(pickedMsg).who = "reply" /\ place = "conversation"
  BY DEF Regenerate, Picked, Screen, Pickable
<1>2. threadId \in Ids /\ Here[pickedMsg] = <<threadId, pickedMsg>> /\ Here \in Seq(Objects)
  BY <1>1, BoundsAssumption DEF Talking, Own, Here, Ids
<1>3. Here[pickedMsg] \in Objects
  BY <1>1, <1>2
<1> DEFINE p == Here[pickedMsg]
<1>4. said' = [said EXCEPT ![p].words = "anew"] /\ p \in Objects
  BY <1>3 DEF Regenerate
<1> HIDE DEF p
<1>5. /\ said' \in [Objects -> Sayings]
      /\ \A o \in Objects : said'[o].who = said[o].who
      /\ \A o \in Objects \ {p} : said'[o] = said[o]
  BY <1>4 DEF Talking, Sayings, Words
<1>6. Talking'
  BY <1>5 DEF Regenerate, Talking, Unmade, Own
<1>7. HereKept
  <2>1. \A i \in DOMAIN Here : Here[i] \in Objects
    BY <1>2
  <2>2. Here' = Here
    BY DEF Regenerate, Here
  <2> QED BY <1>5, <2>1, <2>2 DEF HereKept, Said
<1>8. Screen'
  BY <1>7, Stays DEF Regenerate, Screen
<1>9. Composing' /\ Choosing'
  BY ComposingSame, ChoosingSame DEF Regenerate
<1> QED BY <1>1, <1>2, <1>5, <1>6, <1>8, <1>9 DEF p

(* What is said comes after what was there, in messages of its own.        *)
LEMMA SaysKeeps ==
  ASSUME Talking, Says, Room, UNCHANGED <<archived, made, threadId>>
  PROVE  /\ Talking' /\ Composing' /\ HereKept
         /\ \A t \in Ids \ {threadId} : messages'[t] = messages[t]
         /\ \A o \in Objects : o[1] # threadId => said'[o] = said[o]
         /\ \A i \in DOMAIN Here : Said(i)' = Said(i) /\ Here[i] \in Objects
         /\ Here' \in Seq(Objects) /\ Here \in Seq(Objects) /\ Len(Here') = Len(Here) + 2
<1> DEFINE a == <<threadId, Len(Here) + 1>>
           b == <<threadId, Len(Here) + 2>>
           r == Here \o <<a, b>>
<1>1. threadId \in Ids /\ made \in Nat /\ Here \in Seq(Objects) /\ Len(Here) \in Nat
  BY BoundsAssumption DEF Talking, Ids, Here
<1>2. a \in Objects /\ b \in Objects /\ a # b
  BY <1>1, BoundsAssumption DEF Room, Objects
<1>3. /\ messages' = [messages EXCEPT ![threadId] = r]
      /\ said' = [said EXCEPT ![a] = Message("me"), ![b] = Message("reply")]
  BY DEF Says, Here
<1>4. \A i \in DOMAIN Here : Here[i] = <<threadId, i>> /\ Here[i] \in Objects /\ Here[i] # a /\ Here[i] # b
  <2> SUFFICES ASSUME NEW i \in DOMAIN Here
               PROVE  Here[i] = <<threadId, i>> /\ Here[i] \in Objects /\ Here[i] # a /\ Here[i] # b
    OBVIOUS
  <2>1. i \in 1..Len(Here) /\ Here[i] \in Objects
    BY <1>1
  <2>2. Here[i] = <<threadId, i>>
    BY <1>1 DEF Talking, Own, Here
  <2> QED BY <1>1, <2>1, <2>2
<1>5. /\ r \in Seq(Objects) /\ Len(r) = Len(Here) + 2
      /\ \A i \in 1..Len(Here) : r[i] = Here[i]
      /\ r[Len(Here) + 1] = a /\ r[Len(Here) + 2] = b
  <2> HIDE DEF a, b
  <2> QED BY <1>1, <1>2
<1>6. \A i \in 1..Len(r) : r[i] = <<threadId, i>>
  <2> SUFFICES ASSUME NEW i \in 1..Len(r) PROVE r[i] = <<threadId, i>>
    OBVIOUS
  <2>1. CASE i \in 1..Len(Here)
    BY <1>1, <1>4, <1>5, <2>1
  <2>2. CASE i = Len(Here) + 1
    BY <1>5, <2>2
  <2>3. CASE i = Len(Here) + 2
    BY <1>5, <2>3
  <2>4. i <= Len(Here) + 2 /\ i \in Nat /\ i >= 1
    BY <1>1, <1>5
  <2> HIDE DEF r
  <2> QED BY <1>1, <2>1, <2>2, <2>3, <2>4
<1>7. Message("me") \in Sayings /\ Message("reply") \in Sayings
  BY DEF Message, Sayings, Speakers, Words
<1>8. \A o \in Objects : o[1] = threadId \/ (o # a /\ o # b)
  OBVIOUS
<1> HIDE DEF a, b, r
<1>9. /\ messages' \in [Ids -> Seq(Objects)]
      /\ \A t \in Ids \ {threadId} : messages'[t] = messages[t]
      /\ Here' = r
  BY <1>1, <1>3, <1>5 DEF Talking, Here
<1>10. /\ said' \in [Objects -> Sayings]
       /\ \A o \in Objects \ {a, b} : said'[o] = said[o]
  BY <1>2, <1>3, <1>7 DEF Talking
<1>11. /\ \A t \in Ids : t > made => messages'[t] = <<>>
       /\ \A t \in Ids : \A i \in DOMAIN messages'[t] : messages'[t][i] = <<t, i>>
  <2>1. \A i \in DOMAIN messages'[threadId] : messages'[threadId][i] = <<threadId, i>>
    <3>1. messages'[threadId] = r
      BY <1>9 DEF Here
    <3>2. DOMAIN r = 1..Len(r)
      BY <1>5
    <3> QED BY <1>6, <3>1, <3>2
  <2>2. threadId <= made /\ threadId \in Nat
    BY <1>1 DEF Talking, Ids
  <2> QED BY <1>1, <1>9, <2>1, <2>2 DEF Talking, Unmade, Own, Ids
<1>12. Talking'
  BY <1>9, <1>10, <1>11 DEF Talking, Unmade, Own
<1>13. Composing'
  BY DEF Says, Composing
<1>14. \A i \in DOMAIN Here : i \in DOMAIN Here' /\ Here'[i] = Here[i]
  BY <1>1, <1>5, <1>9
<1>15. \A i \in DOMAIN Here : Said(i)' = Said(i)
  BY <1>4, <1>10, <1>14 DEF Said
<1> QED BY <1>1, <1>4, <1>5, <1>8, <1>9, <1>10, <1>12, <1>13, <1>14, <1>15 DEF HereKept

LEMMA Sends ==
  ASSUME IInv, SendChat
  PROVE  IInv'
<1> USE DEF IInv
<1>1. Talking' /\ Composing' /\ HereKept
  BY SaysKeeps DEF SendChat
<1>2. Screen'
  BY <1>1, Stays DEF SendChat, Screen
<1> QED BY <1>1, <1>2, ChoosingSame DEF SendChat

-----------------------------------------------------------------------------
(* The model and its effort.                                               *)
LEMMA Drafts ==
  ASSUME IInv, NEW m \in Models, DraftModel(m) \/ \E i \in 1..Len(EffortsOf[m]) : DraftEffort(i)
  PROVE  IInv'
<1> USE DEF IInv
<1>1. /\ sheet.arg \in Scopes /\ UNCHANGED <<chosen, place, sheet, pi, pickedMsg>>
      /\ Talking' /\ Composing' /\ HereKept
  BY TalkingSame, ComposingSame, HereSame DEF DraftModel, DraftEffort, Screen, Fits
<1>2. \E c \in Fitting : modelDraft' = <<c>>
  <2>1. CASE DraftModel(m)
    BY <2>1, FittingEffortFits DEF DraftModel
  <2>2. ASSUME NEW i, DraftEffort(i)
        PROVE  \E c \in Fitting : modelDraft' = <<c>>
    <3> DEFINE d == CurrentDraft(sheet.arg)
    <3>1. d.model \in Available
      BY <1>1, DraftFits DEF Fitting
    <3>2. i \in DOMAIN EffortsOf[d.model] /\ modelDraft' = <<Choice(d.model, EffortsOf[d.model][i])>>
      BY <2>2 DEF DraftEffort
    <3> HIDE DEF d
    <3>3. i \in 1..Len(EffortsOf[d.model])
      BY <3>1, <3>2, ModelsAssumption
    <3> QED BY <3>1, <3>2, <3>3, HasEffort
  <2> QED BY <2>1, <2>2
<1>3. Choosing'
  BY <1>1, <1>2 DEF Choosing
<1>4. Screen'
  BY <1>1, Stays DEF Screen
<1> QED BY <1>1, <1>3, <1>4

LEMMA Saves ==
  ASSUME IInv, SaveModel \/ SaveAndSend
  PROVE  IInv'
<1> USE DEF IInv
<1>1. sheet.arg \in Scopes
  BY DEF SaveModel, SaveAndSend, Screen, Fits, Sheet, Scopes
<1>2. chosen' = Saved /\ modelDraft' = <<>> /\ Show(NoSheet) /\ pi' = pi
  BY DEF SaveModel, SaveAndSend
<1>3. Choosing'
  BY <1>1, <1>2, SavedFits DEF Choosing
<1>4. Talking' /\ Composing' /\ HereKept
  <2>1. CASE SaveModel
    BY <2>1, TalkingSame, ComposingSame, HereSame DEF SaveModel
  <2>2. CASE SaveAndSend
    BY <2>2, SaysKeeps DEF SaveAndSend
  <2> QED BY <2>1, <2>2
<1>5. Screen'
  BY <1>2, <1>4, Closes
<1> QED BY <1>3, <1>4, <1>5

-----------------------------------------------------------------------------
LEMMA InitIInv == Init => IInv
<1> SUFFICES ASSUME Init PROVE IInv
  OBVIOUS
<1> USE DEF Init
<1>1. Talking
  <2>1. 1 \in Ids /\ made \in Ids /\ made >= 1 /\ archived \subseteq 1..made /\ made \in Nat
    BY BoundsAssumption DEF Ids
  <2>2. \A i \in 1..3 : <<1, i>> \in Objects
    BY <2>1, BoundsAssumption DEF Objects
  <2>3. Made(1, 3) \in Seq(Objects) /\ \A i \in DOMAIN Made(1, 3) : Made(1, 3)[i] = <<1, i>>
    BY <2>2 DEF Made
  <2>4. messages \in [Ids -> Seq(Objects)]
    BY <2>3
  <2>5. \A w \in Speakers \cup {"nobody"} : [who |-> w, words |-> "first"] \in Sayings
    BY DEF Sayings, Words
  <2>6. \A o \in Objects : said[o] \in {Message("me"), Message("thinking"), Message("reply"), Unsaid}
    OBVIOUS
  <2>7. said \in [Objects -> Sayings]
    BY <2>5, <2>6 DEF Message, Unsaid, Speakers
  <2>8. Unmade /\ Own
    BY <2>1, <2>3 DEF Unmade, Own, Ids
  <2> QED BY <2>1, <2>4, <2>7, <2>8 DEF Talking, Ids
<1>2. Choosing
  BY FirstEffort DEF Choosing
<1>3. Screen
  BY NamedPlaces, NoSheetFits DEF Screen
<1> QED BY <1>1, <1>2, <1>3 DEF IInv, Composing

LEMMA NextIInv == IInv /\ [Next]_vars => IInv'
<1> SUFFICES ASSUME IInv, [Next]_vars PROVE IInv'
  OBVIOUS
<1>1. CASE UNCHANGED vars
  <2>1. Talking' /\ Composing' /\ Choosing' /\ HereKept
    BY <1>1, TalkingSame, ComposingSame, ChoosingSame, HereSame DEF vars, IInv
  <2>2. Screen'
    BY <1>1, <2>1, Stays DEF vars, IInv, Screen
  <2> QED BY <2>1, <2>2 DEF IInv
<1> QED BY <1>1, Walks, OpensThread, Forks, Archives, Composes, Regenerates, Sends,
       Drafts, Saves DEF Next

(* The inductive invariant: the conversations, the choice of model and     *)
(* what is open on the screen fit together after any taps.                 *)
THEOREM Invariant == Spec => []IInv
BY InitIInv, NextIInv, PTL DEF Spec

(* The model that answers, in the open conversation and by default, and    *)
(* the one that is being chosen, is set up and has its effort, through     *)
(* every change of model, draft and save (app.js, data.js).                *)
THEOREM Typing == Spec => []TypeOK
BY Invariant, InvTypeOK, PTL

(* The message picked, by its index, and the one a fork is cut at, are     *)
(* messages of the open conversation, whichever one was opened, forked or  *)
(* attached to since (app.js, sheets.js).                                  *)
THEOREM PickedStaysHere == Spec => []PickedIsHere
BY Invariant, InvPicked, PTL

-----------------------------------------------------------------------------
(* What a conversation shows.                                              *)
LEMMA ShownKept ==
  ASSUME IInv, NEW t \in 1..made, messages'[t] = messages[t],
         \A i \in DOMAIN messages[t] : said'[<<t, i>>] = said[<<t, i>>]
  PROVE  Shown(t)' = Shown(t)
<1>1. t \in Ids
  BY BoundsAssumption DEF IInv, Talking, Ids
<1>2. \A i \in DOMAIN messages[t] : messages[t][i] = <<t, i>>
  BY <1>1 DEF IInv, Talking, Own
<1> QED BY <1>2 DEF Shown

LEMMA Longer ==
  ASSUME NEW S, NEW s \in Seq(S), NEW r \in Seq(S), Len(r) > Len(s),
         \A i \in 1..Len(s) : r[i] = s[i]
  PROVE  IsStrictPrefix(s, r)
<1>1. DOMAIN s = 1..Len(s) /\ DOMAIN r = 1..Len(r) /\ Len(s) \in Nat /\ Len(r) \in Nat
  OBVIOUS
<1>2. /\ SubSeq(r, 1, Len(s)) \in Seq(S) /\ Len(SubSeq(r, 1, Len(s))) = Len(s)
      /\ \A i \in 1..Len(s) : SubSeq(r, 1, Len(s))[i] = r[i]
  BY <1>1
<1>3. SubSeq(r, 1, Len(s)) = s
  BY <1>1, <1>2, SeqEqual
<1>4. SubSeq(s, 1, Len(s)) = s
  OBVIOUS
<1> QED BY <1>1, <1>3, <1>4 DEF IsStrictPrefix, IsPrefix

LEMMA ShownGrows ==
  ASSUME IInv, Says, Room, UNCHANGED <<archived, made, threadId>>
  PROVE  /\ IsStrictPrefix(Shown(threadId), Shown(threadId)')
         /\ \A t \in 1..made : t # threadId => Shown(t)' = Shown(t)
<1>1. /\ Talking /\ Talking' /\ \A t \in Ids \ {threadId} : messages'[t] = messages[t]
      /\ \A o \in Objects : o[1] # threadId => said'[o] = said[o]
      /\ \A i \in DOMAIN Here : Said(i)' = Said(i) /\ Here[i] \in Objects
      /\ Here' \in Seq(Objects) /\ Here \in Seq(Objects) /\ Len(Here') = Len(Here) + 2
  BY SaysKeeps DEF IInv
<1>2. ASSUME NEW t \in 1..made, t # threadId PROVE Shown(t)' = Shown(t)
  <2>1. t \in Ids
    BY BoundsAssumption DEF IInv, Talking, Ids
  <2>2. \A i \in DOMAIN messages[t] : <<t, i>> \in Objects
    <3>1. messages[t] \in Seq(Objects)
      BY <2>1 DEF IInv, Talking
    <3>2. \A i \in DOMAIN messages[t] : messages[t][i] \in Objects /\ messages[t][i] = <<t, i>>
      BY <2>1, <3>1 DEF IInv, Talking, Own
    <3> QED BY <3>2
  <2> QED BY <1>1, <1>2, <2>1, <2>2, ShownKept
<1>3. IsStrictPrefix(Shown(threadId), Shown(threadId)')
  <2> DEFINE old == [i \in DOMAIN Here |-> Said(i)]
             new == [i \in DOMAIN Here' |-> Said(i)']
  <2>1. Shown(threadId) = old /\ Shown(threadId)' = new
    BY DEF Shown, Said, Here
  <2>2. \A i \in DOMAIN Here : Said(i) \in Sayings
    BY <1>1 DEF Talking, Said
  <2>3. \A i \in DOMAIN Here' : Said(i)' \in Sayings
    <3>1. \A i \in DOMAIN Here' : Here'[i] \in Objects
      BY <1>1
    <3> QED BY <1>1, <3>1 DEF Talking, Said
  <2>4. DOMAIN Here = 1..Len(Here) /\ DOMAIN Here' = 1..Len(Here') /\ Len(Here) \in Nat
    BY <1>1
  <2>5. old \in Seq(Sayings) /\ Len(old) = Len(Here)
    <3> HIDE DEF Said
    <3> QED BY <2>2, <2>4
  <2>6. new \in Seq(Sayings) /\ Len(new) = Len(Here) + 2
    <3>1. Len(Here') \in Nat
      BY <1>1
    <3> QED BY <1>1, <2>3, <2>4, <3>1
  <2>7. \A i \in 1..Len(old) : new[i] = old[i]
    BY <1>1, <2>4, <2>5
  <2> HIDE DEF old, new
  <2>8. Len(new) > Len(old)
    BY <2>4, <2>5, <2>6
  <2> QED BY <2>1, <2>5, <2>6, <2>7, <2>8, Longer
<1> QED BY <1>2, <1>3

(* A conversation changes only while it is open, by what is said in it or by *)
(* the reply picked, which is made anew where it is; no fork shares a message*)
(* with the conversation it was cut from, so neither reaches into the other  *)
(* (app.js:285, 313).                                                        *)
THEOREM OthersStay == Spec => OnlyTheOpenOneChanges
<1> DEFINE Change(t) ==
             /\ t = threadId /\ place = "conversation"
             /\ IsStrictPrefix(Shown(t), Shown(t)') \/ Anew(Shown(t), Shown(t)')
           Changes == \A t \in 1..made : Shown(t)' # Shown(t) => Change(t)
<1>1. IInv /\ [Next]_vars => [Changes]_vars
  <2> SUFFICES ASSUME IInv, Next, NEW t \in 1..made, Shown(t)' # Shown(t)
               PROVE  Change(t)
    OBVIOUS
  <2>1. made \in Ids /\ t \in Ids /\ t # made + 1
    BY BoundsAssumption DEF IInv, Talking, Ids
  <2>2. \A i \in DOMAIN messages[t] : <<t, i>> \in Objects /\ messages[t][i] = <<t, i>>
    <3>1. messages[t] \in Seq(Objects)
      BY <2>1 DEF IInv, Talking
    <3>2. \A i \in DOMAIN messages[t] : messages[t][i] \in Objects
      BY <3>1
    <3>3. \A i \in DOMAIN messages[t] : messages[t][i] = <<t, i>>
      BY <2>1 DEF IInv, Talking, Own
    <3> QED BY <3>2, <3>3
  <2>3. SendChat \/ SaveAndSend \/ Fork \/ Regenerate
    <3> SUFFICES ASSUME UNCHANGED <<messages, said>> PROVE FALSE
      BY DEF Next, Go, Open, OpenThread, AttachTo, Back, NewThread, AttachToNew, Adds, Archive,
             AddFile, PickMsg, Type, Detach, EditMsg, DraftModel, DraftEffort,
             SaveModel, PiChanges, talking
    <3> QED BY ShownKept
  <2>4. CASE Fork
    <3>1. messages'[t] = messages[t]
      BY <2>1, <2>4 DEF Fork, Cloned, IInv, Talking
    <3>2. \A i \in DOMAIN messages[t] : said'[<<t, i>>] = said[<<t, i>>]
      BY <2>1, <2>2, <2>4 DEF Fork, Cloned
    <3> QED BY <3>1, <3>2, ShownKept
  <2>5. CASE SendChat \/ SaveAndSend
    <3>1. place = "conversation" /\ Says /\ Room /\ UNCHANGED <<archived, made, threadId>>
      BY <2>5 DEF SendChat, SaveAndSend, IInv, Screen, Fits
    <3> QED BY <3>1, ShownGrows
  <2>6. CASE Regenerate
    <3>1. /\ pickedMsg \in DOMAIN Here /\ Said(pickedMsg).who = "reply" /\ place = "conversation"
          /\ \A o \in Objects \ {<<threadId, pickedMsg>>} : said'[o] = said[o]
      BY <2>6, Regenerates
    <3>2. messages' = messages
      BY <2>6 DEF Regenerate
    <3>3. \A i \in DOMAIN messages[t] : <<t, i>> # <<threadId, pickedMsg>> => said'[<<t, i>>] = said[<<t, i>>]
      BY <2>2, <3>1
    <3>4. t = threadId
      BY <3>2, <3>3, ShownKept
    <3>5. Anew(Shown(t), Shown(t)')
      BY <2>2, <3>1, <3>2, <3>3, <3>4 DEF Anew, Shown, Here, Said
    <3> QED BY <3>1, <3>4, <3>5
  <2> QED BY <2>3, <2>4, <2>5, <2>6
<1>2. [][Changes]_vars => OnlyTheOpenOneChanges
  BY PTL DEF OnlyTheOpenOneChanges
<1> QED BY <1>1, <1>2, Invariant, PTL DEF Spec
=============================================================================
