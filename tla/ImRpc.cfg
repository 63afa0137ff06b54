CONSTANTS
  Nil = Nil
  Nodes = {n1, n2}
  Changing = {n2}
  Callers = {c}
  Msgs <- MCMsgs
  Tgids <- MCTgids
  Uid <- MCUid
  MaxFaults = 1
  Codecs <- GeneratedCodecs
  Encode <- WriteStruct
  Decode <- ReadStruct
  Refused <- ReadFailed
  Versions <- LaterVersions
  Expected <- ExpectedArgs
  Equal <- StructsEqual
SPECIFICATION Spec
INVARIANTS HandlerGetsRequest FrameExact AnswerIsTrue
PROPERTIES ImplementsRpcService ReportsAll AllComeBack
CHECK_DEADLOCK FALSE
