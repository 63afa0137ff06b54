CONSTANTS
  Nodes = {n1, n2, n3}
  Reqs = {r1}
  MaxLogins = 2
  MaxList = 2
  Nil = Nil
SPECIFICATION Spec
SYMMETRY Symmetry
INVARIANTS TypeOK DirectAtMostOnce GroupOncePerStay AtMostOncePerNode
CHECK_DEADLOCK FALSE
