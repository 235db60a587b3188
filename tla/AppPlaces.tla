----------------------------- MODULE AppPlaces -----------------------------
(***************************************************************************)
(* The map of the phone app (src/assets/android-ui-mock/model.js): five    *)
(* places sit in the bottom bar, every other place is a page with exactly  *)
(* one parent, and Back, the path in the top bar and the highlight of the  *)
(* bar are all read from this map.  The ids are the program's, without     *)
(* their hyphens.                                                          *)
(***************************************************************************)
EXTENDS Naturals, Sequences

\* The places of kind 'bar'.
BarPlaces == {"home", "media", "share", "chat", "more"}

\* The places of kind 'page', each with its parent.
Parent ==
  [ search |-> "home",
    piscreen |-> "media", phoneplayer |-> "media",
    received |-> "share", incoming |-> "share",
    conversation |-> "chat",
    camera |-> "more", captures |-> "camera",
    notes |-> "more", note |-> "notes", pin |-> "notes",
    tools |-> "more", process |-> "tools", widgets |-> "tools",
    settings |-> "more", connection |-> "settings",
    guide |-> "more", help |-> "more", showcase |-> "more" ]

Pages == DOMAIN Parent
Places == BarPlaces \cup Pages

\* The one page that is entered from another app's share menu.
FromOutside == {"incoming"}

\* Where no place is meant: Back leaves the app.
Nowhere == "nowhere"

\* The path from the bar place down to p, both included.
PathTo[p \in Places] ==
  IF p \in BarPlaces THEN <<p>> ELSE Append(PathTo[Parent[p]], p)

\* The bar place that owns p, which the bottom bar highlights.
BarOf(p) == Head(PathTo[p])

\* Where Back goes from p with nothing open on top of it.
BackTarget(p) ==
  IF p \in FromOutside \cup {"home"} THEN Nowhere
  ELSE IF p \in Pages THEN Parent[p]
  ELSE "home"

\* How many times Back is pressed from p, with nothing open, until it leaves
\* the app.
Hops[p \in Places] ==
  IF BackTarget(p) = Nowhere THEN 1 ELSE 1 + Hops[BackTarget(p)]

\* What the program checks of its own map (check.js): nothing is deeper than
\* three levels, and Back reaches Home, which it leaves the app from.
ASSUME MapIsShallow ==
  \A p \in Places : Len(PathTo[p]) <= 3 /\ BarOf(p) \in BarPlaces /\ Hops[p] <= 4
============================================================================
