\* Two saves of one note overlap.
SPECIFICATION Spec
CONSTANTS
  Notes = {"n"}
  Writers = {w1, w2}
  Asked = {"read", "create", "save"}
  MaxRequests = 4
  MaxOverlaps = 1
  MaxDeaths = 0
SYMMETRY Symmetry
INVARIANT NothingLost
CHECK_DEADLOCK FALSE
