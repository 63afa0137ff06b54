CONSTANTS
  Clients = {c1, c2}
  Rpc = {r1}
  Gids = {g1, g2}
  Uid = u
  Nil = Nil
SPECIFICATION FairSpec
INVARIANTS TypeOK ClosedLeavesGroups RecordsAgree
PROPERTY CallsReturn
CHECK_DEADLOCK FALSE
