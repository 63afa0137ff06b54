CONSTANTS
  Threads = {t1, t2}
  Uids = {u1}
  Gids = {i1}
  Groups = {g1, g2}
  GroupMsgChanMax = 1
  MaxMsgs = 1
  Nil = Nil
SPECIFICATION FairSpec
PROPERTIES ImplementsGroupService JoinReturns OutAndSendReturn ListenerEnds QueuedReachesMember
