\* A hello that was let in before the teardown and takes the lock after it.
SPECIFICATION Spec
CHECK_DEADLOCK FALSE
CONSTANTS
  None = None
  Names = {n1}
  Ids = {i1}
  Ports <- OnePort
  Terminals = {c1}
  Hellos = {p1, p2}
  Verbs <- InviteTeardown
  MaxOpen = 2
INVARIANTS TornDownStaysDown
