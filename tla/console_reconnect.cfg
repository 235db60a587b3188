\* One terminal, a target that reconnects: two relay-hello processes that
\* overlap, an invite that may be forgotten and minted again.
SPECIFICATION FairSpec
CHECK_DEADLOCK FALSE
CONSTANTS
  None = None
  Names = {n1}
  Ids = {i1, i2}
  Ports <- OnePort
  Terminals = {c1}
  Hellos = {p1, p2}
  Verbs <- AllButRevoke
  MaxOpen = 1
PROPERTIES OfflineOnlyByOwnBye ForgetSparesLive ByeFinishes
