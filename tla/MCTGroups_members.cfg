CONSTANTS
  Threads = {t1, t2}
  Uids = {u1, u2}
  Gids = {i1}
  Groups = {g1, g2}
  GroupMsgChanMax = 1
  MaxMsgs = 2
  Nil = Nil
SPECIFICATION Spec
SYMMETRY Symmetry
INVARIANTS MembersReachable NoEmptyLeak InOrder
