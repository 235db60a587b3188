\* Two terminals racing on every verb, one tunnel at a time, one port, a cap of one.
SPECIFICATION Spec
CHECK_DEADLOCK FALSE
CONSTANTS
  None = None
  Names = {n1, n2}
  Ids = {i1, i2}
  Ports <- OnePort
  Terminals = {c1, c2}
  Hellos = {p1}
  Verbs <- AllVerbs
  MaxOpen = 1
SYMMETRY Interchangeable
INVARIANTS TypeOK PortsDistinct ConfigFollowsHosts LinesBelong
PROPERTIES RevokeClosesEverything
