CONSTANTS
  Nodes = {n1, n2}
  Conns = {c1, c2, c3, c4}
  Serial = TRUE
  Expires = FALSE
  RedisFails = FALSE
  RpcFails = FALSE
  Crashes = FALSE
  Nil = Nil
SPECIFICATION Spec
SYMMETRY Symmetry
INVARIANT OneConnection
CHECK_DEADLOCK FALSE
