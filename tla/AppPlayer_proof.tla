--------------------------- MODULE AppPlayer_proof ---------------------------
(***************************************************************************)
(* The player of the phone app for every set of titles, sources, settings  *)
(* and places a person may walk to.                                        *)
(***************************************************************************)
EXTENDS AppPlayer, TLAPS

SheetTypes == {"none", "item", "resume", "show", "adjust", "move", "replace"}
SheetSet == [type : SheetTypes, output : Outputs \cup {Nobody}, title : Titles \cup {NoTitle}]
TimerSet == [output : Outputs, key : {"load", "pause"} \cup Settings, value : Nat]
Armed(o, key, v) == Timer(o, key, v) \in timers

SurfaceTypes ==
  /\ place \in Places /\ panel \in Outputs \cup {Nobody}
  /\ shade \in BOOLEAN /\ full \in BOOLEAN
TitleTypes ==
  /\ title \in [Outputs -> Titles \cup {NoTitle}]
  /\ title["phone"] \notin Shows
  /\ source \in [Outputs -> {"drive", "phone"}]
FlagTypes == flags \in [Outputs -> SUBSET Flags]
SettingTypes ==
  /\ value \in [Outputs -> [Settings -> Nat]]
  /\ pending \in [Outputs -> [Settings -> Nat \cup {Unset}]]

\* What is shown on the Pi has no position.
ShowsAreLive == \A o \in Outputs : title[o] \in Shows => Live(o)

\* What a sheet asks about is there, and what it will do fits its output.
Fits(s) ==
  /\ s \in SheetSet
  /\ s.type \in {"replace", "adjust", "move"} => s.output \in Outputs /\ Playing(s.output)
  /\ s.type = "replace" => s.title \in Titles /\ title[s.output] # s.title
  /\ s.type = "replace" /\ s.output = "phone" => s.title \in Videos
  /\ s.type = "move" /\ s.output = "pi" => ~Live("pi")

Drawn ==
  /\ panel # Nobody => Playing(panel)
  /\ full => Playing("phone")

\* The timers, one by one.
Awaited ==
  /\ timers \subseteq TimerSet
  /\ \A t \in timers : Playing(t.output)
  /\ \A o \in Outputs : "busy" \in flags[o] <=> Armed(o, "load", 0) \/ Armed(o, "pause", 0)
  /\ \A o \in Outputs : ~(Armed(o, "load", 0) /\ Armed(o, "pause", 0))
  /\ \A o \in Outputs, k \in Settings, v \in Nat : Armed(o, k, v) <=> pending[o][k] = v

Surfaces == SurfaceTypes /\ pi \in {"online", "away"} /\ Fits(sheet) /\ Drawn
Playback == TitleTypes /\ FlagTypes /\ ShowsAreLive
IInv == Surfaces /\ Playback /\ SettingTypes /\ Awaited

-----------------------------------------------------------------------------
(* Sets of names.                                                          *)
LEMMA Names1 ==
  /\ Titles = Videos \cup Casts \cup Stills /\ NoTitle \notin Titles
  /\ \A t \in Videos : t \notin Shows
  /\ "load" \notin Settings /\ "pause" \notin Settings
  /\ \A v \in Nat : v # Unset
BY TitlesAssumption, StepsAssumption DEF Titles, Shows, Settings

LEMMA Parents == \A p \in Pages : Parent[p] \in Places
BY DEF Pages, Parent, Places, BarPlaces

LEMMA Targets == \A p \in Places : BackTarget(p) # Nowhere => BackTarget(p) \in Places
BY Parents DEF BackTarget, Places, BarPlaces

LEMMA PagesOf == \A o \in Outputs : PageOf(o) \in Places
BY DEF PageOf, Places, Pages, Parent, Outputs

LEMMA TimerFields ==
  ASSUME NEW o, NEW key, NEW v
  PROVE  Timer(o, key, v).output = o /\ Timer(o, key, v).key = key /\ Timer(o, key, v).value = v
BY DEF Timer

LEMMA TimerShape == \A t \in TimerSet : t = Timer(t.output, t.key, t.value)
BY DEF TimerSet, Timer

LEMMA TimerTyped ==
  ASSUME NEW o \in Outputs, NEW key \in {"load", "pause"} \cup Settings, NEW v \in Nat
  PROVE  Timer(o, key, v) \in TimerSet
BY DEF TimerSet, Timer

-----------------------------------------------------------------------------
(* What the invariant says of the runs' properties.                        *)
LEMMA Says == IInv => TypeOK /\ DrawnForSomething
BY DEF IInv, Surfaces, SurfaceTypes, Playback, TitleTypes, FlagTypes, SettingTypes, Drawn, Fits, SheetSet, TypeOK,
       DrawnForSomething

LEMMA SaysArmed == IInv => WaitsAreArmed
<1> SUFFICES ASSUME IInv PROVE WaitsAreArmed OBVIOUS
<1>1. Awaited /\ SettingTypes BY DEF IInv
<1>2. \A t \in timers : Playing(t.output) BY <1>1 DEF Awaited
<1>3. \A o \in Outputs : "busy" \in flags[o] <=> \E key \in {"load", "pause"} : Timer(o, key, 0) \in timers
  BY <1>1 DEF Awaited, Armed
<1>4. ASSUME NEW o \in Outputs, NEW k \in Settings
      PROVE  {t \in timers : t.output = o /\ t.key = k}
               = IF pending[o][k] = Unset THEN {} ELSE {Timer(o, k, pending[o][k])}
  <2>1. ASSUME NEW t \in timers, t.output = o, t.key = k PROVE pending[o][k] = t.value /\ t.value \in Nat /\ t = Timer(o, k, t.value)
    <3>1. t \in TimerSet BY <1>1 DEF Awaited
    <3>2. t = Timer(o, k, t.value) BY <2>1, <3>1, TimerShape
    <3>3. t.value \in Nat BY <3>1 DEF TimerSet
    <3>q. QED BY <1>1, <3>2, <3>3 DEF Awaited, Armed
  <2>2. CASE pending[o][k] = Unset BY <2>1, <2>2, Names1
  <2>3. CASE pending[o][k] # Unset
    <3>1. pending[o][k] \in Nat BY <1>1, <2>3 DEF SettingTypes
    <3>2. Timer(o, k, pending[o][k]) \in timers BY <1>1, <3>1 DEF Awaited, Armed
    <3>3. Timer(o, k, pending[o][k]).output = o /\ Timer(o, k, pending[o][k]).key = k BY TimerFields
    <3>q. QED BY <2>1, <2>3, <3>2, <3>3
  <2>q. QED BY <2>2, <2>3
<1>q. QED BY <1>2, <1>3, <1>4 DEF WaitsAreArmed

-----------------------------------------------------------------------------
(* Sheets that fit.                                                        *)
LEMMA SheetTyped ==
  ASSUME NEW type \in SheetTypes, NEW o \in Outputs \cup {Nobody}, NEW t \in Titles \cup {NoTitle}
  PROVE  /\ Sheet(type, o, t) \in SheetSet
         /\ Sheet(type, o, t).type = type /\ Sheet(type, o, t).output = o /\ Sheet(type, o, t).title = t
BY DEF Sheet, SheetSet

\* A sheet that asks about no output fits, whatever plays.
PlainTypes == {"none", "item", "resume", "show"}
LEMMA PlainFits ==
  ASSUME NEW type \in PlainTypes, NEW t \in Titles \cup {NoTitle}
  PROVE  Fits(Sheet(type, Nobody, t))
<1> DEFINE s == Sheet(type, Nobody, t)
<1>1. type \in SheetTypes BY DEF SheetTypes, PlainTypes
<1>2. s \in SheetSet /\ s.type = type BY <1>1, SheetTyped
<1>3. type # "replace" /\ type # "adjust" /\ type # "move" BY DEF PlainTypes
<1> HIDE DEF s
<1>4. Fits(s) BY <1>2, <1>3 DEF Fits
<1>q. QED BY <1>4 DEF s

LEMMA NoSheetFits == Fits(NoSheet)
BY PlainFits DEF PlainTypes, NoSheet

-----------------------------------------------------------------------------
LEMMA InitIInv == Init => IInv
<1> SUFFICES ASSUME Init PROVE IInv OBVIOUS
<1>1. Surfaces
  <2>1. Fits(sheet) BY NoSheetFits DEF Init
  <2>q. QED BY <2>1 DEF Init, Surfaces, SurfaceTypes, Drawn, Places, BarPlaces
<1>2. TitleTypes BY Names1 DEF Init, TitleTypes, Titles, Shows, Outputs
<1>3. FlagTypes BY DEF Init, FlagTypes
<1>4. ShowsAreLive BY Names1 DEF Init, ShowsAreLive, Titles, Shows
<1>5. SettingTypes BY DEF Init, SettingTypes
<1>6. Awaited
  <2>1. timers = {} BY DEF Init
  <2>2. \A o \in Outputs : "busy" \notin flags[o] BY DEF Init
  <2>3. \A o \in Outputs, k \in Settings, v \in Nat : pending[o][k] # v BY Names1 DEF Init
  <2>q. QED BY <2>1, <2>2, <2>3 DEF Awaited, Armed
<1>q. QED BY <1>1, <1>2, <1>3, <1>4, <1>5, <1>6 DEF IInv, Playback

-----------------------------------------------------------------------------
(* Moving around leaves what plays alone, and draws only what is there.    *)
Playings == <<title, source, flags, value, pending, timers>>
Navigates ==
  /\ UNCHANGED Playings
  /\ place' \in Places /\ shade' \in BOOLEAN /\ full' \in BOOLEAN /\ pi' \in {"online", "away"}
  /\ sheet' = sheet \/ Fits(sheet')
  /\ panel' \in {panel, Nobody} \/ (panel' \in Outputs /\ Playing(panel'))
  /\ full' = TRUE => full \/ Playing("phone")

LEMMA NavigatesKeeps == IInv /\ Navigates => IInv'
<1> SUFFICES ASSUME IInv, Navigates PROVE IInv' OBVIOUS
<1>1. UNCHANGED Playings BY DEF Navigates
<1>2. Playback' /\ SettingTypes'
  BY <1>1 DEF IInv, Playings, Playback, TitleTypes, FlagTypes, ShowsAreLive, SettingTypes, Live
<1>3. Awaited' BY <1>1 DEF IInv, Playings, Awaited, Armed, Playing
<1>4. SurfaceTypes' BY DEF IInv, Surfaces, SurfaceTypes, Navigates
<1>5. (Fits(sheet))' 
  <2>1. Fits(sheet') BY DEF IInv, Surfaces, Navigates
  <2>q. QED BY <1>1, <2>1 DEF Fits, Playing, Live, Playings
<1>6. Drawn' BY <1>1 DEF IInv, Surfaces, Drawn, Navigates, Playing, Playings
<1>q. QED BY <1>2, <1>3, <1>4, <1>5, <1>6 DEF IInv, Surfaces, Navigates

LEMMA ArriveNavigates ==
  ASSUME IInv, NEW p \in Places, Arrive(p), UNCHANGED <<pi, sessions, timers>>
  PROVE  Navigates
BY NoSheetFits DEF Arrive, Navigates, Playings, sessions, IInv, Surfaces, SurfaceTypes

LEMMA ShowNavigates == ASSUME IInv, NEW s, Fits(s), Show(s) PROVE Navigates
BY DEF Show, Navigates, Playings, sessions, IInv, Surfaces, SurfaceTypes

LEMMA BackNavigates == ASSUME IInv, Back PROVE Navigates
<1>1. CASE sheet # NoSheet /\ sheet' = NoSheet /\ UNCHANGED <<place, panel, shade, full>>
  BY <1>1, NoSheetFits DEF Back, Navigates, Playings, sessions, IInv, Surfaces, SurfaceTypes
<1>2. CASE shade' = FALSE /\ UNCHANGED <<place, sheet, panel, full>>
  BY <1>2 DEF Back, Navigates, Playings, sessions, IInv, Surfaces, SurfaceTypes
<1>3. CASE full' = FALSE /\ UNCHANGED <<place, sheet, panel, shade>>
  BY <1>3 DEF Back, Navigates, Playings, sessions, IInv, Surfaces, SurfaceTypes
<1>4. CASE panel' = Nobody /\ UNCHANGED <<place, sheet, shade, full>>
  BY <1>4 DEF Back, Navigates, Playings, sessions, IInv, Surfaces, SurfaceTypes
<1>5. CASE BackTarget(place) # Nowhere /\ Arrive(BackTarget(place))
  <2>1. BackTarget(place) \in Places BY <1>5, Targets DEF IInv, Surfaces, SurfaceTypes
  <2>q. QED BY <1>5, <2>1, ArriveNavigates DEF Back
<1>q. QED BY <1>1, <1>2, <1>3, <1>4, <1>5 DEF Back

LEMMA MovesKeep == ASSUME IInv, Moves PROVE Navigates
<1> USE DEF Playings, sessions
<1>1. ASSUME NEW p \in Reach, Go(p) PROVE Navigates
  BY <1>1, BoundsAssumption, ArriveNavigates DEF Go
<1>2. CASE Back BY <1>2, BackNavigates
<1>3. CASE CloseSheet BY <1>3, NoSheetFits, ShowNavigates DEF CloseSheet
<1>4. CASE ClosePanel BY <1>4 DEF ClosePanel, Navigates, IInv, Surfaces, SurfaceTypes
<1>5. CASE FullOn BY <1>5 DEF FullOn, Navigates, IInv, Surfaces, SurfaceTypes
<1>6. CASE FullOff BY <1>6 DEF FullOff, Navigates, IInv, Surfaces, SurfaceTypes
<1>7. CASE Shade BY <1>7 DEF Shade, Navigates, IInv, Surfaces, SurfaceTypes
<1>8. CASE PiChanges BY <1>8 DEF PiChanges, surfaces, Navigates, IInv, Surfaces, SurfaceTypes, PiUp
<1>9. ASSUME NEW t \in Titles, OpenItem(t) \/ OpenResume(t) \/ OpenShow(t) PROVE Navigates
  <2>1. \A type \in PlainTypes : Fits(Sheet(type, Nobody, t)) BY PlainFits
  <2>2. PICK type \in PlainTypes : Show(Sheet(type, Nobody, t))
    BY <1>9 DEF OpenItem, OpenResume, OpenShow, PlainTypes
  <2>q. QED BY <2>1, <2>2, ShowNavigates
<1>10. ASSUME NEW o \in Outputs, OpenAdjust(o) PROVE Navigates
  <2>1. Playing(o) BY <1>10 DEF OpenAdjust, Mini, Panel, Page
  <2>2. Fits(Sheet("adjust", o, NoTitle))
    <3> DEFINE s == Sheet("adjust", o, NoTitle)
    <3>1. s \in SheetSet /\ s.type = "adjust" /\ s.output = o BY SheetTyped DEF SheetTypes
    <3> HIDE DEF s
    <3>2. Fits(s) BY <2>1, <3>1 DEF Fits
    <3>q. QED BY <3>2 DEF s
  <2>q. QED BY <1>10, <2>2, ShowNavigates DEF OpenAdjust
<1>11. ASSUME NEW o \in Outputs, OpenMove(o) PROVE Navigates
  <2>1. Playing(o) /\ (o = "pi" => ~Live("pi")) BY <1>11 DEF OpenMove, Movable
  <2>2. Fits(Sheet("move", o, NoTitle))
    <3> DEFINE s == Sheet("move", o, NoTitle)
    <3>1. s \in SheetSet /\ s.type = "move" /\ s.output = o BY SheetTyped DEF SheetTypes
    <3> HIDE DEF s
    <3>2. Fits(s) BY <2>1, <3>1 DEF Fits
    <3>q. QED BY <3>2 DEF s
  <2>q. QED BY <1>11, <2>2, ShowNavigates DEF OpenMove
<1>12. ASSUME NEW o \in Outputs, OpenPanel(o) PROVE Navigates
  BY <1>12 DEF OpenPanel, Mini, Navigates, IInv, Surfaces, SurfaceTypes
<1>q. QED
  BY <1>1, <1>2, <1>3, <1>4, <1>5, <1>6, <1>7, <1>8, <1>9, <1>10, <1>11, <1>12 DEF Moves

-----------------------------------------------------------------------------
(* A session begins on o, and those of gone end.                           *)
LEMMA ClearedArms ==
  ASSUME NEW gone, NEW o, NEW key, NEW v
  PROVE  Timer(o, key, v) \in Cleared(gone) <=> Armed(o, key, v) /\ o \notin gone
BY TimerFields DEF Cleared, Armed

Starts(o, t, live) ==
  /\ t \in Titles /\ live \subseteq {"live"}
  /\ t \in Shows => live = {"live"} /\ o # "phone"

LEMMA BeginKeeps ==
  ASSUME IInv, NEW o \in Outputs, NEW t, NEW src \in {"drive", "phone"}, NEW live, NEW gone \in SUBSET Outputs,
         Starts(o, t, live), Begin(o, t, src, live, gone)
  PROVE  IInv'
<1>1. /\ \A x \in Outputs : title'[x] = IF x = o THEN t ELSE IF x \in gone THEN NoTitle ELSE title[x]
      /\ title' \in [Outputs -> Titles \cup {NoTitle}]
  BY DEF Begin, Starts, IInv, Playback, TitleTypes
<1>2. TitleTypes'
  <2>1. title'["phone"] \notin Shows
    BY <1>1, Names1 DEF IInv, Playback, TitleTypes, Starts, Outputs, Titles, Shows
  <2>2. source' \in [Outputs -> {"drive", "phone"}] BY DEF Begin, IInv, Playback, TitleTypes
  <2>q. QED BY <1>1, <2>1, <2>2 DEF TitleTypes
<1>3. /\ \A x \in Outputs : flags'[x] = IF x = o THEN {"busy"} \cup live ELSE IF x \in gone THEN {} ELSE flags[x]
      /\ flags' \in [Outputs -> SUBSET Flags]
  BY DEF Begin, Starts, IInv, Playback, FlagTypes, Flags
<1>4. ShowsAreLive'
  <2>1. NoTitle \notin Shows BY Names1 DEF Titles, Shows
  <2>q. QED BY <1>1, <1>3, <2>1 DEF ShowsAreLive, Live, Starts, IInv, Playback
<1>5. SettingTypes' BY DEF Begin, IInv, SettingTypes
<1>6. Surfaces'
  <2>1. sheet' = NoSheet /\ panel' = Nobody /\ full' = FALSE /\ place' = PageOf(o) /\ UNCHANGED <<shade, pi>>
    BY DEF Begin, Arrive
  <2>2. (Fits(sheet))'
    <3>1. NoSheet \in SheetSet /\ NoSheet.type = "none" BY SheetTyped DEF SheetTypes, NoSheet
    <3>2. sheet' \in SheetSet /\ sheet'.type = "none" BY <2>1, <3>1
    <3>q. QED BY <3>2 DEF Fits
  <2>3. Drawn' BY <2>1 DEF Drawn
  <2>q. QED BY <2>1, <2>2, <2>3, PagesOf DEF Surfaces, SurfaceTypes, IInv
<1>7. Awaited'
  <2>1. timers' = Cleared({o} \cup gone) \cup {Timer(o, "load", 0)} BY DEF Begin
  <2>2. \A x, key, v : Armed(x, key, v)' <=>
          (Armed(x, key, v) /\ x # o /\ x \notin gone) \/ (x = o /\ key = "load" /\ v = 0)
    <3> TAKE x, key, v
    <3>1. Timer(x, key, v) = Timer(o, "load", 0) <=> x = o /\ key = "load" /\ v = 0 BY TimerFields DEF Timer
    <3>2. Timer(x, key, v) \in Cleared({o} \cup gone) <=> Armed(x, key, v) /\ x # o /\ x \notin gone
      BY ClearedArms
    <3>q. QED BY <2>1, <3>1, <3>2 DEF Armed
  <2>3. Awaited BY DEF IInv
  <2>4. timers' \subseteq TimerSet
    <3>1. Timer(o, "load", 0) \in TimerSet BY TimerTyped
    <3>2. Cleared({o} \cup gone) \subseteq timers BY DEF Cleared
    <3>q. QED BY <2>1, <2>3, <3>1, <3>2 DEF Awaited
  <2>5. ASSUME NEW y \in timers' PROVE (title[y.output] # NoTitle)'
    <3>1. y \in TimerSet /\ y.output \in Outputs BY <2>4 DEF TimerSet
    <3>2. CASE y = Timer(o, "load", 0)
      BY <1>1, <3>2, TimerFields, Names1 DEF Starts
    <3>3. CASE y \in timers /\ y.output # o /\ y.output \notin gone
      BY <1>1, <2>3, <3>1, <3>3 DEF Awaited, Playing
    <3>q. QED BY <2>1, <3>2, <3>3 DEF Cleared
  <2>6. \A x \in Outputs : ("busy" \in flags[x])' <=> Armed(x, "load", 0)' \/ Armed(x, "pause", 0)'
    BY <1>3, <2>2, <2>3 DEF Awaited, Starts
  <2>7. \A x \in Outputs : ~(Armed(x, "load", 0)' /\ Armed(x, "pause", 0)') BY <2>2, <2>3 DEF Awaited
  <2>8. \A x \in Outputs, k \in Settings, v \in Nat : Armed(x, k, v)' <=> pending'[x][k] = v
    <3> TAKE x \in Outputs, k \in Settings, v \in Nat
    <3>1. CASE x = o \/ x \in gone
      <4>1. pending'[x][k] = Unset BY <3>1 DEF Begin
      <4>2. k # "load" BY Names1
      <4>q. QED BY <2>2, <3>1, <4>1, <4>2, Names1
    <3>2. CASE x # o /\ x \notin gone
      <4>1. pending'[x] = pending[x] BY <3>2 DEF Begin
      <4>q. QED BY <2>2, <2>3, <3>2, <4>1 DEF Awaited
    <3>q. QED BY <3>1, <3>2
  <2>q. QED BY <2>4, <2>5, <2>6, <2>7, <2>8 DEF Awaited, Playing
<1>q. QED BY <1>2, <1>3, <1>4, <1>5, <1>6, <1>7 DEF IInv, Playback, FlagTypes

LEMMA SourcesIn == \A t : SourcesOf(t) \subseteq {"drive", "phone"}
BY BoundsAssumption DEF SourcesOf

\* A title may start on o: what is shown on the Pi only starts there.
May(o, t) == t \in Titles /\ (t \in Shows => o = "pi")

LEMMA StartKeeps ==
  ASSUME IInv, NEW o \in Outputs, NEW t, May(o, t), NEW sources \in SUBSET {"drive", "phone"}, Start(o, t, sources)
  PROVE  IInv'
<1>1. PICK src \in sources : Begin(o, t, src, LiveIf(t), {}) BY DEF Start
<1>2. Starts(o, t, LiveIf(t)) BY DEF Starts, LiveIf, May
<1>3. src \in {"drive", "phone"} /\ {} \in SUBSET Outputs OBVIOUS
<1>q. QED BY <1>1, <1>2, <1>3, BeginKeeps

LEMMA AskKeeps ==
  ASSUME IInv, NEW o \in Outputs, NEW t, May(o, t), Playing(o), title[o] # t, Show(Sheet("replace", o, t))
  PROVE  IInv'
<1> DEFINE s == Sheet("replace", o, t)
<1>1. s \in SheetSet /\ s.type = "replace" /\ s.output = o /\ s.title = t BY SheetTyped DEF SheetTypes, May
<1>2. t \in Titles /\ (o = "phone" => t \in Videos) BY DEF May, Titles, Shows
<1>3. Show(s) OBVIOUS
<1> HIDE DEF s
<1>4. Fits(s) BY <1>1, <1>2 DEF Fits
<1>q. QED BY <1>3, <1>4, ShowNavigates, NavigatesKeeps

LEMMA PlayFromKeeps ==
  ASSUME IInv, NEW o \in Outputs, NEW t, May(o, t), NEW sources \in SUBSET {"drive", "phone"}, PlayFrom(o, t, sources)
  PROVE  IInv'
BY StartKeeps, AskKeeps DEF PlayFrom

LEMMA PlayKeeps == ASSUME IInv, NEW o \in Outputs, NEW t, May(o, t), Play(o, t) PROVE IInv'
BY SourcesIn, PlayFromKeeps DEF Play

LEMMA PlayNowKeeps == ASSUME IInv, PlayNow PROVE IInv'
<1>1. Fits(sheet) /\ sheet.type = "replace" BY DEF PlayNow, IInv, Surfaces
<1>2. sheet.output \in Outputs /\ sheet.title \in Titles BY <1>1 DEF Fits
<1>3. sheet.output = "phone" => sheet.title \in Videos BY <1>1 DEF Fits
<1>4. May(sheet.output, sheet.title) BY <1>2, <1>3, Names1 DEF May, Outputs
<1>q. QED BY <1>2, <1>4, SourcesIn, StartKeeps DEF PlayNow

LEMMA MoveKeeps == ASSUME IInv, MovePlayback PROVE IInv'
<1>1. PICK from \in Outputs :
        /\ sheet = Sheet("move", from, NoTitle)
        /\ Begin(Other(from), title[from], source[from],
                 IF source[from] = "phone" THEN {"live"} ELSE LiveIf(title[from]), {from})
  BY DEF MovePlayback
<1>2. sheet.type = "move" /\ sheet.output = from BY <1>1, SheetTyped DEF SheetTypes
<1>3. Fits(sheet) BY DEF IInv, Surfaces
<1>4. Playing(from) /\ (from = "pi" => ~Live("pi")) BY <1>2, <1>3 DEF Fits
<1>5. TitleTypes /\ ShowsAreLive BY DEF IInv, Playback
<1>6. title[from] \in Titles BY <1>4, <1>5 DEF TitleTypes, Playing
<1>7. title[from] \notin Shows BY <1>4, <1>5 DEF TitleTypes, ShowsAreLive, Outputs
<1>8. source[from] \in {"drive", "phone"} BY <1>5 DEF TitleTypes
<1>9. Other(from) \in Outputs /\ {from} \in SUBSET Outputs BY DEF Other, Outputs
<1> DEFINE live == IF source[from] = "phone" THEN {"live"} ELSE LiveIf(title[from])
<1>10. live \subseteq {"live"} BY DEF LiveIf
<1> HIDE DEF live
<1>11. Starts(Other(from), title[from], live) BY <1>6, <1>7, <1>10 DEF Starts
<1>q. QED BY <1>1, <1>8, <1>9, <1>11, BeginKeeps DEF live

-----------------------------------------------------------------------------
(* Taps that a timer finishes, and the timers.                             *)
LEMMA SurfacesStay ==
  ASSUME IInv, UNCHANGED <<surfaces, pi, title>>, \A o \in Outputs : Live(o)' <=> Live(o)
  PROVE  Surfaces' /\ (FlagTypes' /\ source' = source => Playback')
<1>1. UNCHANGED <<place, sheet, panel, shade, full>> BY DEF surfaces
<1>2. SurfaceTypes' BY <1>1 DEF IInv, Surfaces, SurfaceTypes
<1>3. Live("pi")' <=> Live("pi") BY DEF Outputs
<1>4. Fits(sheet) BY DEF IInv, Surfaces
<1>5. (Fits(sheet))' BY <1>1, <1>3, <1>4 DEF Fits, Playing
<1>6. Drawn' BY <1>1 DEF IInv, Surfaces, Drawn, Playing
<1>7. ShowsAreLive' BY DEF IInv, Playback, ShowsAreLive
<1>8. source' = source => TitleTypes' BY DEF IInv, Playback, TitleTypes
<1>q. QED BY <1>2, <1>5, <1>6, <1>7, <1>8 DEF Surfaces, Playback, IInv

LEMMA FlagsStay ==
  ASSUME IInv, UNCHANGED flags PROVE \A o \in Outputs : (Live(o)' <=> Live(o))
BY DEF Live

LEMMA TimerKeys == "load" # "pause" /\ \A k \in Settings : k # "load" /\ k # "pause"
BY Names1

LEMMA OfferedPlays ==
  ASSUME NEW o \in Outputs
  PROVE  /\ PauseOffered(o) => Playing(o)
         /\ StopOffered(o) => Playing(o)
         /\ \A k : SettingOffered(o, k) => Playing(o)
<1>1. Card(o) => Playing(o) BY Names1 DEF Card, Playing, Titles
<1>q. QED BY <1>1 DEF PauseOffered, StopOffered, SettingOffered, Mini, Panel, Page, Notification, FullScreen

LEMMA PauseKeeps == ASSUME IInv, NEW o \in Outputs, Pause(o) PROVE IInv'
<1>1. Playing(o) /\ "busy" \notin flags[o] BY OfferedPlays DEF Pause
<1>2. /\ flags' = [flags EXCEPT ![o] = (@ \cup {"busy"}) \ {"error"}]
      /\ timers' = timers \cup {Timer(o, "pause", 0)}
      /\ UNCHANGED <<surfaces, pi, title, source, value, pending>>
  BY DEF Pause, PauseStarts
<1>3. FlagTypes BY DEF IInv, Playback
<1>4. \A x \in Outputs : flags'[x] = IF x = o THEN (flags[o] \cup {"busy"}) \ {"error"} ELSE flags[x]
  BY <1>2, <1>3 DEF FlagTypes
<1>5. FlagTypes' BY <1>2, <1>3 DEF FlagTypes, Flags
<1>6. \A x \in Outputs : Live(x)' <=> Live(x) BY <1>4 DEF Live
<1>7. Surfaces' /\ Playback' BY <1>2, <1>5, <1>6, SurfacesStay
<1>8. SettingTypes' BY <1>2 DEF IInv, SettingTypes
<1>9. Awaited'
  <2>1. Awaited BY DEF IInv
  <2>2. \A x, key, v : Armed(x, key, v)' <=> Armed(x, key, v) \/ (x = o /\ key = "pause" /\ v = 0)
    <3> TAKE x, key, v
    <3>1. Timer(x, key, v) = Timer(o, "pause", 0) <=> x = o /\ key = "pause" /\ v = 0 BY TimerFields DEF Timer
    <3>q. QED BY <1>2, <3>1 DEF Armed
  <2>3. timers' \subseteq TimerSet
    <3>1. Timer(o, "pause", 0) \in TimerSet BY TimerTyped
    <3>q. QED BY <1>2, <2>1, <3>1 DEF Awaited
  <2>4. \A y \in timers' : Playing(y.output)' BY <1>1, <1>2, <2>1, TimerFields DEF Awaited, Playing
  <2>5. ~Armed(o, "load", 0) /\ ~Armed(o, "pause", 0) BY <1>1, <2>1 DEF Awaited
  <2>6. \A x \in Outputs : ("busy" \in flags[x])' <=> Armed(x, "load", 0)' \/ Armed(x, "pause", 0)'
    BY <1>4, <2>1, <2>2 DEF Awaited
  <2>7. \A x \in Outputs : ~(Armed(x, "load", 0)' /\ Armed(x, "pause", 0)') BY <2>1, <2>2, <2>5 DEF Awaited
  <2>8. \A x \in Outputs, k \in Settings, v \in Nat : Armed(x, k, v)' <=> pending'[x][k] = v
    BY <1>2, <2>1, <2>2, TimerKeys DEF Awaited
  <2>q. QED BY <2>3, <2>4, <2>6, <2>7, <2>8 DEF Awaited
<1>q. QED BY <1>7, <1>8, <1>9 DEF IInv

LEMMA Nexts == \A k \in Settings, v \in Nat : Next1(k, v) \in Nat
<1> TAKE k \in Settings, v \in Nat
<1>1. Steps[k] \in Nat \ {0} BY StepsAssumption DEF Settings
<1> DEFINE n == Steps[k]
<1>2. n \in Nat /\ n > 0 BY <1>1
<1> HIDE DEF n
<1>3. (v + 1) % n \in Nat BY <1>2
<1>q. QED BY <1>3 DEF Next1, n

LEMMA ChangeKeeps == ASSUME IInv, NEW o \in Outputs, NEW k \in Settings, Change(o, k) PROVE IInv'
<1>1. Playing(o) BY OfferedPlays DEF Change
<1>2. SettingTypes /\ Awaited BY DEF IInv
<1> DEFINE w == Next1(k, Chosen(o, k))
<1>3. w \in Nat
  <2>1. Chosen(o, k) \in Nat BY <1>2 DEF Chosen, SettingTypes
  <2>q. QED BY <2>1, Nexts
<1>4. /\ pending' = [pending EXCEPT ![o][k] = w]
      /\ timers' = {t \in timers : ~(t.output = o /\ t.key = k)} \cup {Timer(o, k, w)}
      /\ UNCHANGED <<surfaces, pi, title, source, flags, value>>
  BY DEF Change, Later
<1> HIDE DEF w
<1>5. /\ pending' \in [Outputs -> [Settings -> Nat \cup {Unset}]]
      /\ \A x \in Outputs, j \in Settings : pending'[x][j] = IF x = o /\ j = k THEN w ELSE pending[x][j]
  BY <1>2, <1>3, <1>4 DEF SettingTypes
<1>6. SettingTypes' BY <1>2, <1>4, <1>5 DEF SettingTypes
<1>7. Surfaces' /\ Playback'
  <2>1. FlagTypes' BY <1>4 DEF IInv, Playback, FlagTypes
  <2>2. \A x \in Outputs : Live(x)' <=> Live(x) BY <1>4, FlagsStay
  <2>q. QED BY <1>4, <2>1, <2>2, SurfacesStay
<1>8. Awaited'
  <2>1. \A x, key, v : Armed(x, key, v)' <=>
          (Armed(x, key, v) /\ ~(x = o /\ key = k)) \/ (x = o /\ key = k /\ v = w)
    <3> TAKE x, key, v
    <3>1. Timer(x, key, v) = Timer(o, k, w) <=> x = o /\ key = k /\ v = w BY TimerFields DEF Timer
    <3>2. Timer(x, key, v).output = x /\ Timer(x, key, v).key = key BY TimerFields
    <3>q. QED BY <1>4, <3>1, <3>2 DEF Armed
  <2>2. timers' \subseteq TimerSet
    <3>1. Timer(o, k, w) \in TimerSet BY <1>3, TimerTyped
    <3>q. QED BY <1>2, <1>4, <3>1 DEF Awaited
  <2>3. \A y \in timers' : Playing(y.output)' BY <1>1, <1>2, <1>4, TimerFields DEF Awaited, Playing
  <2>4. \A x \in Outputs : ("busy" \in flags[x])' <=> Armed(x, "load", 0)' \/ Armed(x, "pause", 0)'
    BY <1>2, <1>4, <2>1, TimerKeys DEF Awaited
  <2>5. \A x \in Outputs : ~(Armed(x, "load", 0)' /\ Armed(x, "pause", 0)') BY <1>2, <2>1, TimerKeys DEF Awaited
  <2>6. \A x \in Outputs, j \in Settings, v \in Nat : Armed(x, j, v)' <=> pending'[x][j] = v
    <3> TAKE x \in Outputs, j \in Settings, v \in Nat
    <3>1. Armed(x, j, v) <=> pending[x][j] = v BY <1>2 DEF Awaited
    <3>q. QED BY <1>5, <2>1, <3>1
  <2>q. QED BY <2>2, <2>3, <2>4, <2>5, <2>6 DEF Awaited
<1>q. QED BY <1>6, <1>7, <1>8 DEF IInv

\* One timer has run: what stays armed.
LEMMA RunLeaves ==
  ASSUME NEW o, NEW key, NEW v, timers' = timers \ {Timer(o, key, v)}
  PROVE  \A x, j, w : Armed(x, j, w)' <=> Armed(x, j, w) /\ ~(x = o /\ j = key /\ w = v)
<1> TAKE x, j, w
<1>1. Timer(x, j, w) = Timer(o, key, v) <=> x = o /\ j = key /\ w = v BY TimerFields DEF Timer
<1>q. QED BY <1>1 DEF Armed

\* The timer of a session's "busy" has run: its new flags are live as before
\* and no longer busy.
LEMMA BusyEnds ==
  ASSUME IInv, NEW o \in Outputs, NEW key \in {"load", "pause"}, NEW new \in SUBSET Flags,
         Armed(o, key, 0), "busy" \notin new, "live" \in new <=> Live(o),
         flags' = [flags EXCEPT ![o] = new],
         timers' = timers \ {Timer(o, key, 0)},
         UNCHANGED <<surfaces, pi, title, source, value, pending>>
  PROVE  IInv'
<1>1. FlagTypes /\ Awaited BY DEF IInv, Playback
<1>2. \A x \in Outputs : flags'[x] = IF x = o THEN new ELSE flags[x] BY <1>1 DEF FlagTypes
<1>3. FlagTypes' BY <1>1 DEF FlagTypes
<1>4. \A x \in Outputs : Live(x)' <=> Live(x) BY <1>2 DEF Live
<1>5. Surfaces' /\ Playback' BY <1>3, <1>4, SurfacesStay
<1>6. SettingTypes' BY DEF IInv, SettingTypes
<1>7. \A x, j, w : Armed(x, j, w)' <=> Armed(x, j, w) /\ ~(x = o /\ j = key /\ w = 0) BY RunLeaves
<1>8. Awaited'
  <2>1. timers' \subseteq TimerSet BY <1>1 DEF Awaited
  <2>2. \A y \in timers' : Playing(y.output)' BY <1>1 DEF Awaited, Playing
  <2>3. ~(Armed(o, "load", 0)' \/ Armed(o, "pause", 0)') BY <1>1, <1>7 DEF Awaited
  <2>4. \A x \in Outputs : ("busy" \in flags[x])' <=> Armed(x, "load", 0)' \/ Armed(x, "pause", 0)'
    BY <1>1, <1>2, <1>7, <2>3 DEF Awaited
  <2>5. \A x \in Outputs : ~(Armed(x, "load", 0)' /\ Armed(x, "pause", 0)') BY <1>1, <1>7 DEF Awaited
  <2>6. \A x \in Outputs, k \in Settings, v \in Nat : Armed(x, k, v)' <=> pending'[x][k] = v
    BY <1>1, <1>7, TimerKeys DEF Awaited
  <2>q. QED BY <2>1, <2>2, <2>4, <2>5, <2>6 DEF Awaited
<1>q. QED BY <1>5, <1>6, <1>8 DEF IInv

LEMMA LoadedKeeps == ASSUME IInv, NEW o \in Outputs, Loaded(o) PROVE IInv'
<1> DEFINE new == flags[o] \ {"busy"}
<1>1. new \in SUBSET Flags BY DEF IInv, Playback, FlagTypes
<1>2. "busy" \notin new /\ ("live" \in new <=> Live(o)) BY DEF Live
<1>3. Armed(o, "load", 0) BY DEF Loaded, Armed
<1>4. /\ flags' = [flags EXCEPT ![o] = new] /\ timers' = timers \ {Timer(o, "load", 0)}
      /\ UNCHANGED <<surfaces, pi, title, source, value, pending>>
  BY DEF Loaded
<1> HIDE DEF new
<1>q. QED BY <1>1, <1>2, <1>3, <1>4, BusyEnds

LEMMA AnsweredKeeps == ASSUME IInv, NEW o \in Outputs, PauseAnswered(o) PROVE IInv'
<1> DEFINE new == Answered(o)
<1>1. new \in SUBSET Flags BY DEF IInv, Playback, FlagTypes, Answered, Flags
<1>2. "busy" \notin new BY DEF Answered
<1>3. "live" \in new <=> Live(o) BY DEF Live, Answered
<1>4. Armed(o, "pause", 0) BY DEF PauseAnswered, Armed
<1>5. Playing(o)
  <2>1. Timer(o, "pause", 0).output = o BY TimerFields
  <2>q. QED BY <1>4, <2>1 DEF IInv, Awaited, Armed
<1>6. /\ flags' = [flags EXCEPT ![o] = new] /\ timers' = timers \ {Timer(o, "pause", 0)}
      /\ UNCHANGED <<surfaces, pi, title, source, value, pending>>
  BY <1>5 DEF PauseAnswered
<1> HIDE DEF new
<1>q. QED BY <1>1, <1>2, <1>3, <1>4, <1>6, BusyEnds

LEMMA AppliedKeeps == ASSUME IInv, NEW o \in Outputs, NEW k \in Settings, NEW v \in Nat, Applied(o, k, v) PROVE IInv'
<1>1. Armed(o, k, v) BY DEF Applied, Armed
<1>2. Awaited /\ SettingTypes BY DEF IInv
<1>3. Playing(o)
  <2>1. Timer(o, k, v).output = o BY TimerFields
  <2>q. QED BY <1>1, <1>2, <2>1 DEF Awaited, Armed
<1>4. pending[o][k] = v BY <1>1, <1>2 DEF Awaited
<1>5. /\ value' = [value EXCEPT ![o][k] = v]
      /\ pending' = [pending EXCEPT ![o][k] = Unset]
      /\ timers' = timers \ {Timer(o, k, v)}
      /\ UNCHANGED <<surfaces, pi, title, source, flags>>
  BY <1>3 DEF Applied
<1>6. SettingTypes' BY <1>2, <1>5 DEF SettingTypes
<1>7. \A x \in Outputs, j \in Settings : pending'[x][j] = IF x = o /\ j = k THEN Unset ELSE pending[x][j]
  BY <1>2, <1>5 DEF SettingTypes
<1>8. Surfaces' /\ Playback'
  <2>1. FlagTypes' BY <1>5 DEF IInv, Playback, FlagTypes
  <2>2. \A x \in Outputs : Live(x)' <=> Live(x) BY <1>5, FlagsStay
  <2>q. QED BY <1>5, <2>1, <2>2, SurfacesStay
<1>9. \A x, j, w : Armed(x, j, w)' <=> Armed(x, j, w) /\ ~(x = o /\ j = k /\ w = v) BY <1>5, RunLeaves
<1>10. Awaited'
  <2>1. timers' \subseteq TimerSet BY <1>2, <1>5 DEF Awaited
  <2>2. \A y \in timers' : Playing(y.output)' BY <1>2, <1>5 DEF Awaited, Playing
  <2>3. \A x \in Outputs : ("busy" \in flags[x])' <=> Armed(x, "load", 0)' \/ Armed(x, "pause", 0)'
    BY <1>2, <1>5, <1>9, TimerKeys DEF Awaited
  <2>4. \A x \in Outputs : ~(Armed(x, "load", 0)' /\ Armed(x, "pause", 0)') BY <1>2, <1>9 DEF Awaited
  <2>5. \A x \in Outputs, j \in Settings, w \in Nat : Armed(x, j, w)' <=> pending'[x][j] = w
    <3> TAKE x \in Outputs, j \in Settings, w \in Nat
    <3>1. Armed(x, j, w) <=> pending[x][j] = w BY <1>2 DEF Awaited
    <3>2. w # Unset BY Names1
    <3>q. QED BY <1>4, <1>7, <1>9, <3>1, <3>2
  <2>q. QED BY <2>1, <2>2, <2>3, <2>4, <2>5 DEF Awaited
<1>q. QED BY <1>6, <1>8, <1>10 DEF IInv

-----------------------------------------------------------------------------
(* Stop takes with it all that was about the session.                      *)
LEMMA StopSurfacesKeep ==
  ASSUME IInv, NEW o \in Outputs, StopSurfaces(o), UNCHANGED pi,
         title' = [title EXCEPT ![o] = NoTitle], flags' = [flags EXCEPT ![o] = {}]
  PROVE  Surfaces'
<1>1. SurfaceTypes /\ Fits(sheet) /\ Drawn /\ TitleTypes /\ FlagTypes BY DEF IInv, Surfaces, Playback
<1>2. \A x \in Outputs : x # o => title'[x] = title[x] /\ flags'[x] = flags[x]
  BY <1>1 DEF TitleTypes, FlagTypes
<1>3. "media" \in Places BY DEF Places, BarPlaces
<1>4. CASE sheet' = NoSheet /\ panel' = Nobody /\ full' = FALSE /\ place' = "media" /\ UNCHANGED shade
  <2>1. NoSheet \in SheetSet /\ NoSheet.type = "none" BY SheetTyped DEF SheetTypes, NoSheet
  <2>2. sheet' \in SheetSet /\ sheet'.type = "none" BY <1>4, <2>1
  <2>3. (Fits(sheet))' BY <2>2 DEF Fits
  <2>4. Drawn' BY <1>4 DEF Drawn
  <2>q. QED BY <1>1, <1>3, <1>4, <2>3, <2>4 DEF Surfaces, SurfaceTypes, IInv
<1>5. CASE /\ sheet' = (IF Names(sheet, o) THEN NoSheet ELSE sheet)
           /\ panel' = (IF panel = o THEN Nobody ELSE panel)
           /\ full' = FALSE
           /\ UNCHANGED <<place, shade>>
  <2>1. (Fits(sheet))'
    <3>1. CASE Names(sheet, o)
      <4>1. NoSheet \in SheetSet /\ NoSheet.type = "none" BY SheetTyped DEF SheetTypes, NoSheet
      <4>2. sheet' \in SheetSet /\ sheet'.type = "none" BY <1>5, <3>1, <4>1
      <4>q. QED BY <4>2 DEF Fits
    <3>2. CASE ~Names(sheet, o)
      <4>1. sheet' = sheet /\ sheet.output # o BY <1>5, <3>2 DEF Names
      <4>2. sheet.output \in Outputs => title'[sheet.output] = title[sheet.output] BY <1>2, <4>1
      <4>3. sheet.output = "pi" => (Live("pi")' <=> Live("pi")) BY <1>2, <4>1 DEF Live, Outputs
      <4>q. QED BY <1>1, <4>1, <4>2, <4>3 DEF Fits, Playing
    <3>q. QED BY <3>1, <3>2
  <2>2. SurfaceTypes' BY <1>1, <1>5 DEF SurfaceTypes
  <2>3. Drawn'
    <3>1. panel' # Nobody => panel' = panel /\ panel # o /\ panel \in Outputs BY <1>1, <1>5 DEF SurfaceTypes
    <3>q. QED BY <1>1, <1>2, <1>5, <3>1 DEF Drawn, Playing
  <2>q. QED BY <2>1, <2>2, <2>3 DEF Surfaces, IInv
<1>q. QED BY <1>4, <1>5 DEF StopSurfaces, Arrive

LEMMA StopKeeps == ASSUME IInv, NEW o \in Outputs, Stop(o) PROVE IInv'
<1>1. TitleTypes /\ FlagTypes /\ ShowsAreLive /\ SettingTypes /\ Awaited BY DEF IInv, Playback
<1>2. /\ title' = [title EXCEPT ![o] = NoTitle]
      /\ source' = [source EXCEPT ![o] = "drive"]
      /\ flags' = [flags EXCEPT ![o] = {}]
      /\ value' = [value EXCEPT ![o] = [k \in Settings |-> 0]]
      /\ pending' = [pending EXCEPT ![o] = [k \in Settings |-> Unset]]
      /\ timers' = Cleared({o})
      /\ UNCHANGED pi
  BY DEF Stop
<1>3. Surfaces' BY <1>2, StopSurfacesKeep DEF Stop
<1>4. \A x \in Outputs : title'[x] = IF x = o THEN NoTitle ELSE title[x] BY <1>1, <1>2 DEF TitleTypes
<1>5. \A x \in Outputs : flags'[x] = IF x = o THEN {} ELSE flags[x] BY <1>1, <1>2 DEF FlagTypes
<1>6. NoTitle \notin Shows BY Names1 DEF Titles, Shows
<1>7. TitleTypes'
  <2>1. title'["phone"] \notin Shows BY <1>1, <1>4, <1>6 DEF TitleTypes, Outputs
  <2>2. title' \in [Outputs -> Titles \cup {NoTitle}] BY <1>1, <1>2 DEF TitleTypes
  <2>3. source' \in [Outputs -> {"drive", "phone"}] BY <1>1, <1>2 DEF TitleTypes
  <2>q. QED BY <2>1, <2>2, <2>3 DEF TitleTypes
<1>8. FlagTypes' BY <1>1, <1>2 DEF FlagTypes
<1>9. ShowsAreLive' BY <1>1, <1>4, <1>5, <1>6 DEF ShowsAreLive, Live
<1>10. SettingTypes'
  <2>1. [k \in Settings |-> 0] \in [Settings -> Nat] OBVIOUS
  <2>2. [k \in Settings |-> Unset] \in [Settings -> Nat \cup {Unset}] OBVIOUS
  <2>q. QED BY <1>1, <1>2, <2>1, <2>2 DEF SettingTypes
<1>11. Awaited'
  <2>1. \A x, key, v : Armed(x, key, v)' <=> Armed(x, key, v) /\ x # o BY <1>2, ClearedArms DEF Armed
  <2>2. timers' \subseteq TimerSet BY <1>1, <1>2 DEF Awaited, Cleared
  <2>3. ASSUME NEW y \in timers' PROVE (title[y.output] # NoTitle)'
    <3>1. y \in timers /\ y.output # o BY <1>2 DEF Cleared
    <3>2. y.output \in Outputs BY <2>2 DEF TimerSet
    <3>q. QED BY <1>1, <1>4, <3>1, <3>2 DEF Awaited, Playing
  <2>4. \A x \in Outputs : ("busy" \in flags[x])' <=> Armed(x, "load", 0)' \/ Armed(x, "pause", 0)'
    BY <1>1, <1>5, <2>1 DEF Awaited
  <2>5. \A x \in Outputs : ~(Armed(x, "load", 0)' /\ Armed(x, "pause", 0)') BY <1>1, <2>1 DEF Awaited
  <2>6. \A x \in Outputs, k \in Settings, v \in Nat : Armed(x, k, v)' <=> pending'[x][k] = v
    <3> TAKE x \in Outputs, k \in Settings, v \in Nat
    <3>1. Armed(x, k, v) <=> pending[x][k] = v BY <1>1 DEF Awaited
    <3>2. v # Unset BY Names1
    <3>3. x = o => pending'[x][k] = Unset BY <1>1, <1>2 DEF SettingTypes
    <3>4. x # o => pending'[x] = pending[x] BY <1>1, <1>2 DEF SettingTypes
    <3>q. QED BY <2>1, <3>1, <3>2, <3>3, <3>4
  <2>q. QED BY <2>2, <2>3, <2>4, <2>5, <2>6 DEF Awaited, Playing
<1>q. QED BY <1>3, <1>7, <1>8, <1>9, <1>10, <1>11 DEF IInv, Playback

-----------------------------------------------------------------------------
LEMMA PlaysKeep == ASSUME IInv, Plays PROVE IInv'
<1>1. ASSUME NEW o \in Outputs, NEW t \in Titles, PlayRow(o, t) PROVE IInv'
  <2>1. May(o, t) BY <1>1, Names1 DEF PlayRow, May
  <2>q. QED BY <1>1, <2>1, PlayKeeps DEF PlayRow
<1>2. ASSUME NEW o \in Outputs, NEW t \in Titles, PlayResumed(o, t) PROVE IInv'
  <2>1. May(o, t) BY <1>2, Names1 DEF PlayResumed, May
  <2>2. {"drive"} \in SUBSET {"drive", "phone"} OBVIOUS
  <2>q. QED BY <1>2, <2>1, <2>2, PlayFromKeeps DEF PlayResumed
<1>3. ASSUME NEW t \in Titles, ShowRow(t) \/ ShowFromPage(t) \/ ShowCamera(t) \/ PlayFromCard(t) PROVE IInv'
  <2>1. Play("pi", t) BY <1>3 DEF ShowRow, ShowFromPage, ShowCamera, PlayFromCard
  <2>2. "pi" \in Outputs /\ May("pi", t) BY DEF May, Outputs
  <2>q. QED BY <2>1, <2>2, PlayKeeps
<1>4. ASSUME NEW o \in Outputs, NEW k \in Settings, Change(o, k) PROVE IInv' BY <1>4, ChangeKeeps
<1>5. ASSUME NEW o \in Outputs, Stop(o) \/ Pause(o) PROVE IInv' BY <1>5, StopKeeps, PauseKeeps
<1>q. QED BY <1>1, <1>2, <1>3, <1>4, <1>5, PlayNowKeeps, MoveKeeps DEF Plays

LEMMA StepIInv == IInv /\ [Next]_vars => IInv'
<1> SUFFICES ASSUME IInv, [Next]_vars PROVE IInv' OBVIOUS
<1>1. CASE Moves BY <1>1, MovesKeep, NavigatesKeeps
<1>2. CASE Plays BY <1>2, PlaysKeep
<1>3. CASE Fires
  <2>1. ASSUME NEW o \in Outputs, Loaded(o) \/ PauseAnswered(o) PROVE IInv' BY <2>1, LoadedKeeps, AnsweredKeeps
  <2>2. ASSUME NEW o \in Outputs, NEW k \in Settings, NEW v \in 0..Steps[k] - 1, Applied(o, k, v) PROVE IInv'
    <3>1. v \in Nat BY DEF Settings
    <3>q. QED BY <2>2, <3>1, AppliedKeeps
  <2>q. QED BY <1>3, <2>1, <2>2 DEF Fires
<1>4. CASE UNCHANGED vars
  <2>1. UNCHANGED <<surfaces, pi, title>> /\ UNCHANGED <<source, flags, value, pending, timers>>
    BY <1>4 DEF vars, sessions
  <2>2. FlagTypes' BY <2>1 DEF IInv, Playback, FlagTypes
  <2>3. \A o \in Outputs : Live(o)' <=> Live(o) BY <2>1 DEF Live
  <2>4. Surfaces' /\ Playback' BY <2>1, <2>2, <2>3, SurfacesStay
  <2>5. SettingTypes' BY <2>1 DEF IInv, SettingTypes
  <2>6. Awaited' BY <2>1 DEF IInv, Awaited, Armed, Playing
  <2>q. QED BY <2>4, <2>5, <2>6 DEF IInv
<1>q. QED BY <1>1, <1>2, <1>3, <1>4 DEF Next

\* Every reachable state has the invariant.
LEMMA Always == Spec => []IInv
BY InitIInv, StepIInv, PTL DEF Spec

(* The places, sheets, sessions and settings stay what they are declared to  *)
(* be, and nothing that only the Pi can show ever plays on the phone (app.js *)
(* play, move; P-11 of the app model).                                       *)
THEOREM Typing == Spec => []TypeOK
BY Always, Says, PTL

(* Sheets that ask about an output, the panel and full screen are only drawn *)
(* while there is a session to ask about (app.js stop, go, play).            *)
THEOREM Drawing == Spec => []DrawnForSomething
BY Always, Says, PTL

(* What a page says is under way is what an armed timer will finish, and no  *)
(* timer outlives its session (app.js start, stop, later, clearPending).     *)
THEOREM Waiting == Spec => []WaitsAreArmed
BY Always, SaysArmed, PTL

-----------------------------------------------------------------------------
(* How one title takes another's place.                                    *)
Asked ==
  \A o \in Outputs : Playing(o) /\ Playing(o)' /\ title'[o] # title[o] =>
    \/ sheet = Sheet("replace", o, title'[o])
    \/ sheet = Sheet("move", Other(o), NoTitle)

LEMMA TitlesStay == title' = title => Asked
BY DEF Asked

LEMMA BeginTitles ==
  ASSUME NEW o \in Outputs, NEW t, NEW src, NEW live, NEW gone, Begin(o, t, src, live, gone)
  PROVE  \A x \in Outputs : title'[x] = IF x = o THEN t ELSE IF x \in gone THEN NoTitle ELSE title[x]
BY DEF Begin

LEMMA StartTitles ==
  ASSUME NEW o \in Outputs, NEW t, NEW sources, Start(o, t, sources)
  PROVE  \A x \in Outputs : title'[x] = IF x = o THEN t ELSE title[x]
<1>1. PICK src \in sources : Begin(o, t, src, LiveIf(t), {}) BY DEF Start
<1>q. QED BY <1>1, BeginTitles

LEMMA PlayFromAsks == ASSUME NEW o \in Outputs, NEW t, NEW sources, PlayFrom(o, t, sources) PROVE Asked
<1>1. CASE Show(Sheet("replace", o, t)) BY <1>1, TitlesStay DEF Show, sessions
<1>2. CASE (Playing(o) => title[o] = t) /\ Start(o, t, sources)
  <2>1. \A x \in Outputs : title'[x] = IF x = o THEN t ELSE title[x] BY <1>2, StartTitles
  <2>q. QED BY <1>2, <2>1 DEF Asked, Playing
<1>q. QED BY <1>1, <1>2 DEF PlayFrom

LEMMA PlayNowAsks == ASSUME IInv, PlayNow PROVE Asked
<1>1. Fits(sheet) /\ sheet.type = "replace" BY DEF PlayNow, IInv, Surfaces
<1>2. sheet.output \in Outputs BY <1>1 DEF Fits
<1>3. sheet = Sheet("replace", sheet.output, sheet.title) BY <1>1 DEF Fits, SheetSet, Sheet
<1>4. \A x \in Outputs : title'[x] = IF x = sheet.output THEN sheet.title ELSE title[x]
  BY <1>2, StartTitles DEF PlayNow
<1>q. QED BY <1>3, <1>4 DEF Asked

LEMMA MoveAsks == MovePlayback => Asked
<1> SUFFICES ASSUME MovePlayback PROVE Asked OBVIOUS
<1>1. PICK from \in Outputs :
        /\ sheet = Sheet("move", from, NoTitle)
        /\ Begin(Other(from), title[from], source[from],
                 IF source[from] = "phone" THEN {"live"} ELSE LiveIf(title[from]), {from})
  BY DEF MovePlayback
<1>2. Other(from) \in Outputs /\ Other(Other(from)) = from BY DEF Other, Outputs
<1>3. \A x \in Outputs : x = from \/ x = Other(from) BY DEF Other, Outputs
<1>4. title'[from] = NoTitle
  <2>1. from # Other(from) BY DEF Other, Outputs
  <2>q. QED BY <1>1, <1>2, <2>1, BeginTitles
<1>q. QED BY <1>1, <1>2, <1>3, <1>4 DEF Asked, Playing

LEMMA StepAsks == IInv /\ [Next]_vars => [Asked]_vars
<1> SUFFICES ASSUME IInv, Next PROVE Asked OBVIOUS
<1>1. CASE Moves
  <2>1. Navigates BY <1>1, MovesKeep
  <2>q. QED BY <2>1, TitlesStay DEF Navigates, Playings
<1>2. CASE Plays
  <2>1. ASSUME NEW o \in Outputs, NEW t \in Titles, PlayRow(o, t) \/ PlayResumed(o, t) PROVE Asked
    BY <2>1, PlayFromAsks DEF PlayRow, Play, PlayResumed
  <2>2. ASSUME NEW t \in Titles, ShowRow(t) \/ ShowFromPage(t) \/ ShowCamera(t) \/ PlayFromCard(t) PROVE Asked
    <3>1. Play("pi", t) BY <2>2 DEF ShowRow, ShowFromPage, ShowCamera, PlayFromCard
    <3>q. QED BY <3>1, PlayFromAsks DEF Play, Outputs
  <2>3. ASSUME NEW o \in Outputs, Stop(o) PROVE Asked
    <3>1. title' = [title EXCEPT ![o] = NoTitle] BY <2>3 DEF Stop
    <3>2. title \in [Outputs -> Titles \cup {NoTitle}] BY DEF IInv, Playback, TitleTypes
    <3>q. QED BY <3>1, <3>2 DEF Asked, Playing
  <2>4. ASSUME NEW o \in Outputs, Pause(o) PROVE Asked BY <2>4, TitlesStay DEF Pause, PauseStarts
  <2>5. ASSUME NEW o \in Outputs, NEW k \in Settings, Change(o, k) PROVE Asked BY <2>5, TitlesStay DEF Change
  <2>q. QED BY <1>2, <2>1, <2>2, <2>3, <2>4, <2>5, PlayNowAsks, MoveAsks DEF Plays
<1>3. CASE Fires BY <1>3, TitlesStay DEF Fires, Loaded, PauseAnswered, Applied
<1>q. QED BY <1>1, <1>2, <1>3 DEF Next

(* One title takes another's place only through the question that names both *)
(* or through Move, whatever the surface it was started from (app.js play,   *)
(* 'play-now', move).                                                        *)
THEOREM Replacing == Spec => ReplacedWhenAsked
<1>1. IInv /\ [Next]_vars => [Asked]_vars BY StepAsks
<1>q. QED BY <1>1, Always, PTL DEF Spec, ReplacedWhenAsked, Asked

=============================================================================
