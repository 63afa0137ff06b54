------------------------------ MODULE ApiCodec ------------------------------
(***************************************************************************)
(* The codec of kitex_gen/im/rpc/api.go: for every struct, the fields the  *)
(* switch of its Read knows and the fields its Write writes, in order.     *)
(* This codec measures nothing.                                            *)
(***************************************************************************)
EXTENDS Thrift

Request == Codec({Str(1)}, <<Str(1)>>, << >>)
Response == Codec({Str(1)}, <<Str(1)>>, << >>)
SendMsgReq == Codec({Str(1), Bin(2)}, <<Str(1), Bin(2)>>, << >>)
SendMsgRsp == Codec({I32(1)}, <<I32(1)>>, << >>)
SendMsgByTgidReq == Codec({Str(1), Str(2), Bin(3)}, <<Str(1), Str(2), Bin(3)>>, << >>)
UserIdReq == Codec({Str(1)}, <<Str(1)>>, << >>)
StopUserClientRsp == Codec({Bool(1)}, <<Bool(1)>>, << >>)
BytesRsp == Codec({Bin(1)}, <<Bin(1)>>, << >>)
JoinGroupReq == Codec({Str(1), Str(2)}, <<Str(1), Str(2)>>, << >>)
JoinGroupRes == Codec({Bool(1)}, <<Bool(1)>>, << >>)

ImRpcHelloArgs == Codec({Struct(1, "Request")}, <<Struct(1, "Request")>>, << >>)
ImRpcHelloResult == Codec({Struct(0, "Response")}, <<Optional(0, "Response")>>, << >>)
ImRpcSendMsgToUserArgs == Codec({Struct(1, "SendMsgReq")}, <<Struct(1, "SendMsgReq")>>, << >>)
ImRpcSendMsgToUserResult == Codec({Struct(0, "SendMsgRsp")}, <<Optional(0, "SendMsgRsp")>>, << >>)
ImRpcSendMsgToUserByTgidArgs ==
  Codec({Struct(1, "SendMsgByTgidReq")}, <<Struct(1, "SendMsgByTgidReq")>>, << >>)
ImRpcSendMsgToUserByTgidResult ==
  Codec({Struct(0, "SendMsgRsp")}, <<Optional(0, "SendMsgRsp")>>, << >>)
ImRpcStopUserClientArgs == Codec({Struct(1, "UserIdReq")}, <<Struct(1, "UserIdReq")>>, << >>)
ImRpcStopUserClientResult ==
  Codec({Struct(0, "StopUserClientRsp")}, <<Optional(0, "StopUserClientRsp")>>, << >>)
ImRpcGetSysInfoArgs == Codec({}, << >>, << >>)
ImRpcGetSysInfoResult == Codec({Struct(0, "BytesRsp")}, <<Optional(0, "BytesRsp")>>, << >>)
ImRpcJoinGroupArgs == Codec({Struct(1, "JoinGroupReq")}, <<Struct(1, "JoinGroupReq")>>, << >>)
ImRpcJoinGroupResult == Codec({Struct(0, "JoinGroupRes")}, <<Optional(0, "JoinGroupRes")>>, << >>)
ImRpcOutGroupArgs == Codec({Struct(1, "JoinGroupReq")}, <<Struct(1, "JoinGroupReq")>>, << >>)
ImRpcOutGroupResult == Codec({Struct(0, "JoinGroupRes")}, <<Optional(0, "JoinGroupRes")>>, << >>)

\* The structs by name.
Api ==
  [Request |-> Request, Response |-> Response, SendMsgReq |-> SendMsgReq,
   SendMsgRsp |-> SendMsgRsp, SendMsgByTgidReq |-> SendMsgByTgidReq, UserIdReq |-> UserIdReq,
   StopUserClientRsp |-> StopUserClientRsp, BytesRsp |-> BytesRsp,
   JoinGroupReq |-> JoinGroupReq, JoinGroupRes |-> JoinGroupRes,
   ImRpcHelloArgs |-> ImRpcHelloArgs, ImRpcHelloResult |-> ImRpcHelloResult,
   ImRpcSendMsgToUserArgs |-> ImRpcSendMsgToUserArgs,
   ImRpcSendMsgToUserResult |-> ImRpcSendMsgToUserResult,
   ImRpcSendMsgToUserByTgidArgs |-> ImRpcSendMsgToUserByTgidArgs,
   ImRpcSendMsgToUserByTgidResult |-> ImRpcSendMsgToUserByTgidResult,
   ImRpcStopUserClientArgs |-> ImRpcStopUserClientArgs,
   ImRpcStopUserClientResult |-> ImRpcStopUserClientResult,
   ImRpcGetSysInfoArgs |-> ImRpcGetSysInfoArgs, ImRpcGetSysInfoResult |-> ImRpcGetSysInfoResult,
   ImRpcJoinGroupArgs |-> ImRpcJoinGroupArgs, ImRpcJoinGroupResult |-> ImRpcJoinGroupResult,
   ImRpcOutGroupArgs |-> ImRpcOutGroupArgs, ImRpcOutGroupResult |-> ImRpcOutGroupResult]
=============================================================================
