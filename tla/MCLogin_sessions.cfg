CONSTANTS
  Nodes = {n1, n2}
  Conns = {c1, c2}
  Serial = FALSE
  Expires = TRUE
  RedisFails = TRUE
  RpcFails = TRUE
  Crashes = TRUE
  Nil = Nil
SPECIFICATION FairSpec
INVARIANTS OnePerNode NoOrphanRecord RegisteredHasReader
PROPERTIES ClosedUnregisters CleanedUp LockoutEnds
CHECK_DEADLOCK FALSE
