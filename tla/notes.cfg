\* Two writers with copies of different age whose requests overlap with each
\* other and with the Mac's pushes, and one that dies between any two steps.
SPECIFICATION Spec
CONSTANTS
  Notes = {"n"}
  Writers = {w1, w2}
  Asked = {"read", "create", "save", "meta", "resolve", "delete"}
  MaxRequests = 4
  MaxOverlaps = 1
  MaxDeaths = 1
SYMMETRY Symmetry
INVARIANTS TypeOK SettleKeeps
PROPERTIES SaveIsVersion UncrossedIsAtomic
CHECK_DEADLOCK FALSE
