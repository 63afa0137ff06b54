CONSTANTS
  Msgs = {1, 2, r}
  MaxMsgs = 2
  msgChanMaxLen = 1
  MaxWorker = 2
  ClientMsgChanMax = 1
  NetFails = TRUE
  WriteFails = TRUE
  ForeignClose = TRUE
  Nil = Nil
SPECIFICATION PushSpec
INVARIANTS QueueConserved OnlineHasWriter PushHasRoom TakenInOrder
PROPERTIES OvertakesFew PushReachesPeer  ReaderEnds
CHECK_DEADLOCK FALSE
