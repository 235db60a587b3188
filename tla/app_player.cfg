\* One video, a cast and a still on the two outputs, one setting that waits.
SPECIFICATION FairSpec
CONSTANTS
  Videos = {v}
  Casts = {c}
  Stills = {s}
  NoTitle = NoTitle
  Unset = Unset
  Sources = {"drive"}
  Reach = {"conversation", "camera"}
  Tuned = {"pi"}
  Steps <- TwoTurns
INVARIANTS TypeOK WaitsAreArmed DrawnForSomething
PROPERTIES ReplacedWhenAsked WaitsEnd
