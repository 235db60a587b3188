------------------------------- MODULE AppPlayer -------------------------------
(***************************************************************************)
(* Playing things in the phone app (src/assets/android-ui-mock): one       *)
(* session per output, the surfaces that show it (mini row, panel, page,   *)
(* full screen, Android's notification, a card in a conversation), the     *)
(* sheets that ask, and the browser timers that finish what a tap began.   *)
(*                                                                         *)
(* A tap, a key and a timer are handled one after the other, so each is    *)
(* one step; between a tap and its timer anything may be tapped.  What a   *)
(* sheet or the panel lies over stays in the page and can be reached with  *)
(* the keyboard, so no surface hides the controls of another.  Left out:   *)
(* positions, volume, speed, favourites, and the words shown.              *)
(***************************************************************************)
EXTENDS AppPlaces, FiniteSets

CONSTANTS
  Videos,   \* what plays on either output
  Casts,    \* this phone's screen, or one of its apps: shown on the Pi only
  Stills,   \* a slideshow, the Pi camera, a note: shown on the Pi only
  NoTitle,  \* an output's session is null
  Unset,    \* a setting is not waiting
  Sources,  \* bound: where videos come from, of {"drive", "phone"}
  Reach,    \* bound: the places a person walks to
  Tuned,    \* bound: the outputs whose settings a person changes
  Steps     \* the settings that wait (rotate, loop) and how many values each has

ASSUME TitlesAssumption ==
  /\ Videos \cap (Casts \cup Stills) = {}
  /\ Casts \cap Stills = {}
  /\ NoTitle \notin Videos \cup Casts \cup Stills

ASSUME BoundsAssumption ==
  Sources \subseteq {"drive", "phone"} /\ Reach \subseteq Places /\ Tuned \subseteq {"pi", "phone"}

ASSUME StepsAssumption ==
  /\ DOMAIN Steps \subseteq {"rotate", "loop"}
  /\ \A k \in DOMAIN Steps : Steps[k] \in Nat \ {0}
  /\ Unset \notin Nat

VARIABLES
  place,    \* S.place
  sheet,    \* S.sheet, the one open sheet
  panel,    \* S.panel, the output whose panel is open
  shade,    \* S.shade, Android's notification is pulled down
  full,     \* S.full
  pi,       \* S.pi: "online", or "away" (offline, checking)
  title,    \* the title of each output's session
  source,   \* where it comes from: "drive", or "phone" for 'This phone'
  flags,    \* which of live, busy, paused and error hold
  value,    \* the setting that applies
  pending,  \* the setting that is "applying", Unset if none
  timers    \* the browser timers that are armed, each with what it will apply

surfaces == <<place, sheet, panel, shade, full>>
sessions == <<title, source, flags, value, pending>>
vars == <<surfaces, pi, sessions, timers>>

Outputs == {"pi", "phone"}
Nobody == "nobody"
PageOf(o) == IF o = "pi" THEN "piscreen" ELSE "phoneplayer"
Other(o) == IF o = "pi" THEN "phone" ELSE "pi"

Shows == Casts \cup Stills
Titles == Videos \cup Shows
Settings == DOMAIN Steps
Flags == {"live", "busy", "paused", "error"}

Sheet(type, o, t) == [type |-> type, output |-> o, title |-> t]
NoSheet == Sheet("none", Nobody, NoTitle)
Timer(o, key, v) == [output |-> o, key |-> key, value |-> v]

Playing(o) == title[o] # NoTitle
Live(o) == "live" \in flags[o]
PiUp == pi = "online"

\* S.source at the moment something without a source of its own starts.
SourcesOf(t) ==
  IF t \in Videos THEN Sources ELSE IF t \in Casts THEN {"phone"} ELSE {"drive"}

Init ==
  /\ place = "home" /\ sheet = NoSheet /\ panel = Nobody
  /\ shade = FALSE /\ full = FALSE /\ pi = "online"
  /\ title = [o \in Outputs |-> NoTitle]
  /\ source = [o \in Outputs |-> "drive"]
  /\ flags = [o \in Outputs |-> {}]
  /\ value = [o \in Outputs |-> [k \in Settings |-> 0]]
  /\ pending = [o \in Outputs |-> [k \in Settings |-> Unset]]
  /\ timers = {}

-----------------------------------------------------------------------------
(* Which surface shows a session, and what it offers.                      *)
Mini(o) == Playing(o) /\ place # PageOf(o) /\ panel # o
Panel(o) == Playing(o) /\ panel = o
Page(o) == Playing(o) /\ place = PageOf(o) /\ (o = "pi" => PiUp)
Notification(o) == Playing(o) /\ shade
FullScreen(o) == Playing(o) /\ o = "phone" /\ full
Card(o) == title[o] \in Videos /\ o = "pi" /\ place = "conversation"

PauseOffered(o) ==
  \/ (Mini(o) \/ Panel(o) \/ Page(o) \/ Notification(o)) /\ ~Live(o)
  \/ FullScreen(o)
  \/ Card(o)
  \/ Page(o) /\ "error" \in flags[o]  \* Try again

StopOffered(o) ==
  Mini(o) \/ Panel(o) \/ Page(o) \/ Notification(o) \/ FullScreen(o) \/ Card(o)

SettingOffered(o, k) == o \in Tuned /\ (Panel(o) \/ Page(o)) /\ ~(Live(o) /\ k = "loop")

\* The output a sheet's argument names; a cast's source is 'This phone'.
Names(s, o) ==
  \/ s.output = o
  \/ s.type = "replace" /\ s.title \in Casts /\ o = "phone"

-----------------------------------------------------------------------------
\* go(): a new place, with nothing open over it but the notification.
Arrive(p) ==
  /\ place' = p
  /\ sheet' = NoSheet
  /\ panel' = Nobody
  /\ full' = FALSE
  /\ UNCHANGED shade

Show(s) == sheet' = s /\ UNCHANGED <<place, panel, shade, full, pi, sessions, timers>>

\* clearPending(), for every output in gone; the mutant leaves the timers armed.
ClearedNothing(gone) == timers
Cleared(gone) == {t \in timers : t.output \notin gone}

\* start(): a new session on o, after the sessions of gone were set to null.
\* Loop starts at its default, Off.
Begin(o, t, src, live, gone) ==
  /\ Arrive(PageOf(o))
  /\ title' = [x \in Outputs |-> IF x = o THEN t ELSE IF x \in gone THEN NoTitle ELSE title[x]]
  /\ source' = [x \in Outputs |-> IF x = o THEN src ELSE IF x \in gone THEN "drive" ELSE source[x]]
  /\ flags' = [x \in Outputs |-> IF x = o THEN {"busy"} \cup live ELSE IF x \in gone THEN {} ELSE flags[x]]
  /\ value' = [x \in Outputs |-> IF x = o \/ x \in gone THEN [k \in Settings |-> 0] ELSE value[x]]
  /\ pending' = [x \in Outputs |-> IF x = o \/ x \in gone THEN [k \in Settings |-> Unset] ELSE pending[x]]
  /\ timers' = Cleared({o} \cup gone) \cup {Timer(o, "load", 0)}
  /\ UNCHANGED pi

\* What is shown on the Pi has no position; a video has one, wherever it is from.
LiveIf(t) == IF t \in Shows THEN {"live"} ELSE {}
Start(o, t, sources) == \E src \in sources : Begin(o, t, src, LiveIf(t), {})

\* play(): another title on the same output is asked about first; the mutant
\* does not ask.
PlayAtOnce(o, t, sources) == Start(o, t, sources)
PlayFrom(o, t, sources) ==
  \/ Playing(o) /\ title[o] # t /\ Show(Sheet("replace", o, t))
  \/ (Playing(o) => title[o] = t) /\ Start(o, t, sources)
Play(o, t) == PlayFrom(o, t, SourcesOf(t))

-----------------------------------------------------------------------------
(* Moving around.                                                          *)

\* A tap on a place, an address typed, or "Open the player".
Go(p) == Arrive(p) /\ UNCHANGED <<pi, sessions, timers>>

Back ==
  /\ \/ sheet # NoSheet /\ sheet' = NoSheet /\ UNCHANGED <<place, panel, shade, full>>
     \/ sheet = NoSheet /\ shade /\ shade' = FALSE /\ UNCHANGED <<place, sheet, panel, full>>
     \/ sheet = NoSheet /\ ~shade /\ full /\ full' = FALSE /\ UNCHANGED <<place, sheet, panel, shade>>
     \/ /\ sheet = NoSheet /\ ~shade /\ ~full /\ panel # Nobody
        /\ panel' = Nobody
        /\ UNCHANGED <<place, sheet, shade, full>>
     \/ /\ sheet = NoSheet /\ ~shade /\ ~full /\ panel = Nobody
        /\ BackTarget(place) # Nowhere
        /\ Arrive(BackTarget(place))
  /\ UNCHANGED <<pi, sessions, timers>>

\* The pages whose rows open the sheet of an item or of a played one.
Lists == {"media", "search", "share", "received", "conversation", "captures", "notes", "note", "pin"}

OpenItem(t) == place \in Lists /\ t \in Videos \cup Stills /\ Show(Sheet("item", Nobody, t))
OpenResume(t) == place \in {"home", "media"} /\ t \in Videos /\ Show(Sheet("resume", Nobody, t))
OpenShow(t) ==
  /\ place = "piscreen" /\ PiUp /\ ~Playing("pi") /\ t \in Shows
  /\ Show(Sheet("show", Nobody, t))
\* Volume, Speed and Skip length.
OpenAdjust(o) == (Mini(o) \/ Panel(o) \/ Page(o)) /\ Show(Sheet("adjust", o, NoTitle))
\* Move is offered for what the other output can play; the mutant always offers it.
MovesAnything(o) == Playing(o)
Movable(o) == Playing(o) /\ ~(o = "pi" /\ Live(o))
OpenMove(o) ==
  /\ place = PageOf(o) /\ Movable(o)
  /\ Show(Sheet("move", o, NoTitle))
CloseSheet == sheet # NoSheet /\ Show(NoSheet)

OpenPanel(o) == Mini(o) /\ panel' = o /\ UNCHANGED <<place, sheet, shade, full, pi, sessions, timers>>
ClosePanel == panel # Nobody /\ panel' = Nobody /\ UNCHANGED <<place, sheet, shade, full, pi, sessions, timers>>

FullOn ==
  /\ place = "phoneplayer" /\ Playing("phone")
  /\ full' = TRUE
  /\ UNCHANGED <<place, sheet, panel, shade, pi, sessions, timers>>
FullOff == FullScreen("phone") /\ full' = FALSE /\ UNCHANGED <<place, sheet, panel, shade, pi, sessions, timers>>

\* Android's notification, pulled down or let go.
Shade == shade' = ~shade /\ UNCHANGED <<place, sheet, panel, full, pi, sessions, timers>>

\* The Pi goes away or comes back.
PiChanges == pi' = (IF PiUp THEN "away" ELSE "online") /\ UNCHANGED <<surfaces, sessions, timers>>

-----------------------------------------------------------------------------
(* Starting, moving and stopping.                                          *)
Reachable(o) == o = "pi" => PiUp

\* A row of an item's sheet; with the same title it opens the player instead.
PlayRow(o, t) ==
  /\ sheet = Sheet("item", Nobody, t) \/ place = "incoming"
  /\ t \in Videos /\ title[o] # t /\ Reachable(o)
  /\ Play(o, t)

ShowRow(t) ==
  /\ sheet = Sheet("item", Nobody, t) /\ t \in Stills /\ PiUp
  /\ Play("pi", t)

\* Resume and Start over, from the
\* sheet or from Home's button: history names the drive it came from.
PlayResumed(o, t) ==
  /\ sheet = Sheet("resume", Nobody, t) \/ place = "home"
  /\ t \in Videos /\ Reachable(o)
  /\ PlayFrom(o, t, {"drive"})

\* The sheets of the Pi screen's page do not look at the Pi again.
ShowFromPage(t) == sheet = Sheet("show", Nobody, t) /\ Play("pi", t)

\* The Pi camera needs no sheet: from the Pi screen's page while nothing is
\* played there, and from its own page at any time.
ShowCamera(t) ==
  /\ place = "camera" \/ (place = "piscreen" /\ ~Playing("pi"))
  /\ PiUp /\ t \in Stills
  /\ Play("pi", t)

\* The card of something the assistant played before does not look at the Pi.
PlayFromCard(t) == place = "conversation" /\ t \in Videos /\ title["pi"] # t /\ Play("pi", t)

\* Where a resumed title comes from is part of the question; here it may also
\* be the source browsed by then.
PlayNow == sheet.type = "replace" /\ Start(sheet.output, sheet.title, SourcesOf(sheet.title))

\* The session carries on at the other output, where it is live if its source
\* is one of LIVE_SOURCES: 'This phone' is one.
MovePlayback ==
  \E from \in Outputs :
    /\ sheet = Sheet("move", from, NoTitle)
    /\ Reachable(Other(from))
    /\ Begin(Other(from), title[from], source[from],
             IF source[from] = "phone" THEN {"live"} ELSE LiveIf(title[from]), {from})

\* The surfaces that stop() leaves; the mutant keeps the sheet.
StopKeepsSheet(o) ==
  IF place = "phoneplayer" /\ o = "phone" THEN Arrive("media")
  ELSE /\ sheet' = sheet
       /\ panel' = (IF panel = o THEN Nobody ELSE panel)
       /\ full' = FALSE
       /\ UNCHANGED <<place, shade>>
StopSurfaces(o) ==
  IF place = "phoneplayer" /\ o = "phone" THEN Arrive("media")
  ELSE /\ sheet' = (IF Names(sheet, o) THEN NoSheet ELSE sheet)
       /\ panel' = (IF panel = o THEN Nobody ELSE panel)
       /\ full' = FALSE
       /\ UNCHANGED <<place, shade>>

Stop(o) ==
  /\ StopOffered(o)
  /\ StopSurfaces(o)
  /\ title' = [title EXCEPT ![o] = NoTitle]
  /\ source' = [source EXCEPT ![o] = "drive"]
  /\ flags' = [flags EXCEPT ![o] = {}]
  /\ value' = [value EXCEPT ![o] = [k \in Settings |-> 0]]
  /\ pending' = [pending EXCEPT ![o] = [k \in Settings |-> Unset]]
  /\ timers' = Cleared({o})
  /\ UNCHANGED pi

-----------------------------------------------------------------------------
(* Taps that a timer finishes, and the timers.                             *)
PauseStarts(o) ==
  /\ flags' = [flags EXCEPT ![o] = (@ \cup {"busy"}) \ {"error"}]
  /\ timers' = timers \cup {Timer(o, "pause", 0)}
  /\ UNCHANGED <<surfaces, pi, title, source, value, pending>>

\* Refused while something is under way.
Pause(o) == PauseOffered(o) /\ "busy" \notin flags[o] /\ PauseStarts(o)

Next1(k, v) == (v + 1) % Steps[k]
Chosen(o, k) == IF pending[o][k] = Unset THEN value[o][k] ELSE pending[o][k]

\* later(): the last tap waits, and only it; the mutant disarms what it armed.
LaterDisarmed(o, k, v) ==
  /\ pending' = [pending EXCEPT ![o][k] = v]
  /\ timers' = {t \in timers : ~(t.output = o /\ t.key = k)}
Later(o, k, v) ==
  /\ pending' = [pending EXCEPT ![o][k] = v]
  /\ timers' = {t \in timers : ~(t.output = o /\ t.key = k)} \cup {Timer(o, k, v)}
Change(o, k) ==
  /\ SettingOffered(o, k)
  /\ Later(o, k, Next1(k, Chosen(o, k)))
  /\ UNCHANGED <<surfaces, pi, title, source, flags, value>>

Loaded(o) ==
  /\ Timer(o, "load", 0) \in timers
  /\ flags' = [flags EXCEPT ![o] = @ \ {"busy"}]
  /\ timers' = timers \ {Timer(o, "load", 0)}
  /\ UNCHANGED <<surfaces, pi, title, source, value, pending>>

\* The Pi's answer to Pause or Resume, or none.
Answered(o) ==
  IF o = "pi" /\ ~PiUp THEN (flags[o] \ {"busy"}) \cup {"error"}
  ELSE IF "paused" \in flags[o] THEN flags[o] \ {"busy", "paused"}
  ELSE (flags[o] \ {"busy"}) \cup {"paused"}
PauseAnswered(o) ==
  /\ Timer(o, "pause", 0) \in timers
  /\ flags' = [flags EXCEPT ![o] = IF Playing(o) THEN Answered(o) ELSE @]
  /\ timers' = timers \ {Timer(o, "pause", 0)}
  /\ UNCHANGED <<surfaces, pi, title, source, value, pending>>

Applied(o, k, v) ==
  /\ Timer(o, k, v) \in timers
  /\ value' = IF Playing(o) THEN [value EXCEPT ![o][k] = v] ELSE value
  /\ pending' = IF Playing(o) THEN [pending EXCEPT ![o][k] = Unset] ELSE pending
  /\ timers' = timers \ {Timer(o, k, v)}
  /\ UNCHANGED <<surfaces, pi, title, source, flags>>

-----------------------------------------------------------------------------
Moves ==
  \/ \E p \in Reach : Go(p)
  \/ Back \/ CloseSheet \/ ClosePanel \/ FullOn \/ FullOff \/ Shade \/ PiChanges
  \/ \E t \in Titles : OpenItem(t) \/ OpenResume(t) \/ OpenShow(t)
  \/ \E o \in Outputs : OpenAdjust(o) \/ OpenMove(o) \/ OpenPanel(o)

Plays ==
  \/ \E o \in Outputs, t \in Titles : PlayRow(o, t) \/ PlayResumed(o, t)
  \/ \E t \in Titles : ShowRow(t) \/ ShowFromPage(t) \/ ShowCamera(t) \/ PlayFromCard(t)
  \/ PlayNow \/ MovePlayback
  \/ \E o \in Outputs : Stop(o) \/ Pause(o)
  \/ \E o \in Outputs, k \in Settings : Change(o, k)

Fires ==
  \/ \E o \in Outputs : Loaded(o) \/ PauseAnswered(o)
  \/ \E o \in Outputs, k \in Settings : \E v \in 0..Steps[k] - 1 : Applied(o, k, v)

Next == Moves \/ Plays \/ Fires
Spec == Init /\ [][Next]_vars

\* A browser runs every timer that stays armed; nobody has to tap anything.
FairSpec ==
  /\ Spec
  /\ \A o \in Outputs : WF_vars(Loaded(o)) /\ WF_vars(PauseAnswered(o))
  /\ \A o \in Outputs, k \in Settings : \A v \in 0..Steps[k] - 1 : WF_vars(Applied(o, k, v))

-----------------------------------------------------------------------------
TypeOK ==
  /\ place \in Places
  /\ sheet.output \in Outputs \cup {Nobody} /\ sheet.title \in Titles \cup {NoTitle}
  /\ panel \in Outputs \cup {Nobody}
  /\ shade \in BOOLEAN /\ full \in BOOLEAN /\ pi \in {"online", "away"}
  /\ title \in [Outputs -> Titles \cup {NoTitle}]
  /\ title["phone"] \notin Shows
  /\ source \in [Outputs -> {"drive", "phone"}]
  /\ flags \in [Outputs -> SUBSET Flags]
  /\ value \in [Outputs -> [Settings -> Nat]]
  /\ pending \in [Outputs -> [Settings -> Nat \cup {Unset}]]

(* What a page says is under way is exactly what a timer will finish: a       *)
(* session loads or waits for the Pi's answer, or shows a value "applying",   *)
(* if and only if the timer with that value is armed; and no timer outlives   *)
(* its session, whichever surface stopped, replaced or moved it (app.js       *)
(* clearPending, later; P-11 of the app model).                               *)
WaitsAreArmed ==
  /\ \A t \in timers : Playing(t.output)
  /\ \A o \in Outputs : "busy" \in flags[o] <=> \E key \in {"load", "pause"} : Timer(o, key, 0) \in timers
  /\ \A o \in Outputs, k \in Settings :
       {t \in timers : t.output = o /\ t.key = k}
         = IF pending[o][k] = Unset THEN {} ELSE {Timer(o, k, pending[o][k])}

(* Whatever is drawn over the page is about a session that exists: sheets     *)
(* that ask about an output, the panel and full screen go away with it        *)
(* (app.js stop, go), and a question to replace names another title.          *)
DrawnForSomething ==
  /\ sheet.type \in {"replace", "adjust", "move"} => Playing(sheet.output)
  /\ sheet.type = "replace" => title[sheet.output] # sheet.title
  /\ panel # Nobody => Playing(panel)
  /\ full => Playing("phone")

(* One title takes another's place only through the question that names both, *)
(* or through Move (app.js play, 'play-now', move).  Move names only what is  *)
(* moved: it does not ask about what the other output plays (README, 8).      *)
ReplacedWhenAsked ==
  [][\A o \in Outputs : Playing(o) /\ Playing(o)' /\ title'[o] # title[o] =>
       \/ sheet = Sheet("replace", o, title'[o])
       \/ sheet = Sheet("move", Other(o), NoTitle)]_vars

(* Loading and an answer waited for come to an end by themselves, and a value *)
(* that is "applying" is applied, or tapped again, or stopped with its        *)
(* session.                                                                   *)
WaitsEnd ==
  \A o \in Outputs :
    /\ ("busy" \in flags[o]) ~> ("busy" \notin flags[o])
    /\ \A k \in Settings : \A v \in 0..Steps[k] - 1 : (pending[o][k] = v) ~> (pending[o][k] # v)
=============================================================================
