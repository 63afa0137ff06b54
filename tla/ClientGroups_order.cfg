CONSTANTS
  Clients = {c1}
  Rpc = {r1}
  Gids = {g1}
  Uid = u
  Nil = Nil
SPECIFICATION Spec
INVARIANT MembershipAgrees
CHECK_DEADLOCK FALSE
