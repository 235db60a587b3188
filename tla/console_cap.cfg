\* Two terminals that both look before either writes.
SPECIFICATION Spec
CHECK_DEADLOCK FALSE
CONSTANTS
  None = None
  Names = {n1, n2}
  Ids = {i1, i2}
  Ports <- TwoPorts
  Terminals = {c1, c2}
  Hellos = {p1}
  Verbs <- OnlyInvite
  MaxOpen = 1
INVARIANTS AtMostMaxOpen
