-------------------------------- MODULE ImRpc --------------------------------
(***************************************************************************)
(* The RPCs between nodes: the functions of service/api/client, the        *)
(* generated client and server of imrpc.go, and the handlers of            *)
(* service/api/server, over connections that break and nodes that crash.   *)
(* Callers make one call each; a collector runs GetAllSysInfo, one RPC per *)
(* node under the read lock of the client table; a watcher changes the     *)
(* table.  The codecs that encode and decode every RPC are constants here: *)
(* RpcCodecs gives them as the generated code has them.                    *)
(*                                                                         *)
(* External: kitex moves the arguments and results.  Which codec a side    *)
(* uses is its choice; it delivers a message, a prefix of it when the      *)
(* connection breaks, or an exception; it neither repeats nor retries.     *)
(***************************************************************************)
EXTENDS Naturals, Sequences

CONSTANTS Nil,
          Nodes,      \* the addresses of the nodes
          Changing,   \* the nodes whose registrations come and go
          Callers,    \* goroutines that make one call
          Msgs,       \* the messages sent
          Tgids,      \* the group ids sent
          Uid,        \* the user
          MaxFaults   \* bound on broken connections, crashes and messages of another version

CONSTANTS Codecs,            \* the codecs a side may use
          Encode(_, _, _),   \* the message of a codec for a struct and its value
          Decode(_, _, _),   \* what a codec reads as a struct from a message, and where it stops
          Refused,           \* ... when it returns an error
          Versions(_),       \* a message as other versions of its sender write it, and how they differ
          Expected(_, _, _), \* the arguments a handler should see for a method's request
          Equal(_, _, _)     \* equality of a struct's values

Rpcs == Callers \cup Nodes    \* n \in Nodes: the RPC of GetAllSysInfo to n

VARIABLES clients,   \* the client table: the nodes with a client
          event,     \* the change onRegister or onUnregister waits to make, or Nil
          pc,        \* of every RPC's client side
          call,      \* the method, node and request of an RPC
          wire,      \* the encoded arguments under way, or Nil
          skew,      \* how the sender's version differs
          srv,       \* the RPC's server side
          arg,       \* the arguments of the running handler
          left,      \* cells the server's decoder left unread
          ran,       \* how often the handler ran, and its outcome
          back,      \* the encoded result under way, an exception, or Nil
          ret,       \* what the caller got
          dead,      \* crashed nodes
          faults,
          col,       \* the collector's place
          todo, sysList

rpcVars == <<call, wire, skew, srv, arg, left, ran, back, ret, faults>>
colVars == <<col, todo, sysList>>
vars == <<clients, event, pc, rpcVars, dead, colVars>>

-----------------------------------------------------------------------------
(* The service *)

Method(calls, args, result) == [calls |-> calls, args |-> args, result |-> result]

\* The generated client: the name each method calls, with which types.
kClient ==
  [Hello |-> Method("hello", "ImRpcHelloArgs", "ImRpcHelloResult"),
   SendMsgToUser |-> Method("SendMsgToUser", "ImRpcSendMsgToUserArgs", "ImRpcSendMsgToUserResult"),
   SendMsgToUserByTgid |-> Method("SendMsgToUserByTgid", "ImRpcSendMsgToUserByTgidArgs", "ImRpcSendMsgToUserByTgidResult"),
   StopUserClient |-> Method("StopUserClient", "ImRpcStopUserClientArgs", "ImRpcStopUserClientResult"),
   GetSysInfo |-> Method("GetSysInfo", "ImRpcGetSysInfoArgs", "ImRpcGetSysInfoResult"),
   JoinGroup |-> Method("JoinGroup", "ImRpcJoinGroupArgs", "ImRpcJoinGroupResult"),
   OutGroup |-> Method("OutGroup", "ImRpcOutGroupArgs", "ImRpcOutGroupResult")]

\* Mutant: OutGroup is served by the handler of JoinGroup.
serviceMethodsSwapped ==
  [hello |-> Method("Hello", "ImRpcHelloArgs", "ImRpcHelloResult"),
   SendMsgToUser |-> Method("SendMsgToUser", "ImRpcSendMsgToUserArgs", "ImRpcSendMsgToUserResult"),
   SendMsgToUserByTgid |-> Method("SendMsgToUserByTgid", "ImRpcSendMsgToUserByTgidArgs", "ImRpcSendMsgToUserByTgidResult"),
   StopUserClient |-> Method("StopUserClient", "ImRpcStopUserClientArgs", "ImRpcStopUserClientResult"),
   GetSysInfo |-> Method("GetSysInfo", "ImRpcGetSysInfoArgs", "ImRpcGetSysInfoResult"),
   JoinGroup |-> Method("JoinGroup", "ImRpcJoinGroupArgs", "ImRpcJoinGroupResult"),
   OutGroup |-> Method("JoinGroup", "ImRpcOutGroupArgs", "ImRpcOutGroupResult")]

\* The generated server: the handler that serves each name.
serviceMethods ==
  [hello |-> Method("Hello", "ImRpcHelloArgs", "ImRpcHelloResult"),
   SendMsgToUser |-> Method("SendMsgToUser", "ImRpcSendMsgToUserArgs", "ImRpcSendMsgToUserResult"),
   SendMsgToUserByTgid |-> Method("SendMsgToUserByTgid", "ImRpcSendMsgToUserByTgidArgs", "ImRpcSendMsgToUserByTgidResult"),
   StopUserClient |-> Method("StopUserClient", "ImRpcStopUserClientArgs", "ImRpcStopUserClientResult"),
   GetSysInfo |-> Method("GetSysInfo", "ImRpcGetSysInfoArgs", "ImRpcGetSysInfoResult"),
   JoinGroup |-> Method("JoinGroup", "ImRpcJoinGroupArgs", "ImRpcJoinGroupResult"),
   OutGroup |-> Method("OutGroup", "ImRpcOutGroupArgs", "ImRpcOutGroupResult")]

OK == 200
SysInfo == <<7>>     \* the JSON of a node's system information

\* The handlers: what they return when the operation they call succeeds or
\* not (Hello and StopUserClient do not look).  Nil stands for an error.
ImRpcImpl(h, ok) ==
  CASE h = "Hello" -> <<<<8>>>>
    [] h \in {"SendMsgToUser", "SendMsgToUserByTgid"} -> IF ok THEN <<OK>> ELSE Nil
    [] h = "StopUserClient" -> <<TRUE>>
    [] h \in {"JoinGroup", "OutGroup"} -> <<ok>>
    [] h = "GetSysInfo" -> IF ok THEN <<SysInfo>> ELSE Nil

\* realResult.Success = success
Success(success) == [i \in {0} |-> success]

\* What kitex sends for an error.
Exception == <<[cell |-> "exception"]>>

\* The requests the functions of service/api/client build; Hello is called with
\* the request of an application, which may be nil.
Requests ==
  [Hello |-> {Nil, <<Uid>>},
   SendMsgToUser |-> {<<Uid, m>> : m \in Msgs},
   SendMsgToUserByTgid |-> {<<Uid, t, m>> : t \in Tgids, m \in Msgs},
   StopUserClient |-> {<<Uid>>},
   GetSysInfo |-> {Nil},
   JoinGroup |-> {<<Uid, t>> : t \in Tgids},
   OutGroup |-> {<<Uid, t>> : t \in Tgids}]

\* _args.Req = req: GetSysInfo has no argument.
Args(m, q) == IF m = "GetSysInfo" THEN << >> ELSE <<q>>

\* Mutant: an answer is a success.
ReturnedBlind(m, success) == TRUE

\* The rest of a function of service/api/client once its RPC returned 'success'.
Returned(m, success) ==
  CASE m \in {"SendMsgToUser", "SendMsgToUserByTgid"} -> success[1] = OK
    [] m \in {"JoinGroup", "OutGroup"} -> success[1]
    [] m = "GetSysInfo" -> success[1] = SysInfo
    [] OTHER -> TRUE

-----------------------------------------------------------------------------
(* What the protocol needs of the codecs *)

ASSUME ImRpcAssumption ==
  /\ MaxFaults \in Nat /\ Changing \subseteq Nodes /\ Callers \cap Nodes = {}
  /\ Nil \notin [node : Nodes, op : {"put", "delete"}]
  /\ Nil \notin [res : BOOLEAN, err : {"none", "not found", "rpc", "panic", "json"}]

\* What a reader gets of a message when the connection breaks within it.
Prefixes(w) == {SubSeq(w, 1, k) : k \in 0 .. Len(w) - 1}

IsSequence(w) == Len(w) \in Nat /\ w = [i \in 1 .. Len(w) |-> w[i]]

\* Codec U reads all of message w, as a struct s, and refuses a part of it.
Readable(U, s, w) ==
  /\ w # Nil /\ IsSequence(w)
  /\ Decode(U, s, w) # Refused /\ Decode(U, s, w).at = Len(w) + 1
  /\ \A part \in Prefixes(w) : Decode(U, s, part) = Refused

\* The results of a method's handler.
Outcomes(m) == {ImRpcImpl(m, ok) : ok \in BOOLEAN}
Answers(m) == Outcomes(m) \ {Nil}

\* The answer tells the caller of m that the operation succeeded.
Yes(m, success) == m \in {"JoinGroup", "OutGroup"} => success[1]

\* A result's field that is not read keeps Go's zero value.
Unset == [Hello |-> << >>, SendMsgToUser |-> 0, SendMsgToUserByTgid |-> 0,
          StopUserClient |-> FALSE, GetSysInfo |-> Nil, JoinGroup |-> FALSE, OutGroup |-> FALSE]

\* Each codec reads what any codec writes, of any version: the arguments, ...
ASSUME ArgsAssumption ==
  \A T, U \in Codecs : \A m \in DOMAIN kClient : \A q \in Requests[m] :
    LET s == kClient[m].args
    IN \A v \in Versions(Encode(T, s, Args(m, q))) :
         /\ Readable(U, s, v[2])
         /\ Equal(s, Decode(U, s, v[2]).val, Expected(m, q, v[1]))

\* ... the results, ...
ASSUME ResultAssumption ==
  \A T, U \in Codecs : \A m \in DOMAIN kClient : \A a \in Answers(m) :
    LET s == kClient[m].result
    IN \A v \in Versions(Encode(T, s, Success(a))) :
         LET success == Decode(U, s, v[2]).val[0]
         IN /\ Readable(U, s, v[2]) /\ success # Nil
            /\ success[1] = IF v[1] = "retyped" THEN Unset[m] ELSE a[1]

\* ... and an exception is no result to any reader.
ASSUME ExceptionAssumption ==
  \A U \in Codecs : \A m \in DOMAIN kClient : \A w \in {Exception, << >>} :
    Decode(U, kClient[m].result, w) = Refused

-----------------------------------------------------------------------------
Fault == faults < MaxFaults /\ faults' = faults + 1

-----------------------------------------------------------------------------
Idle == [m |-> "none", node |-> Nil, req |-> Nil]

Init ==
  /\ clients \in {Nodes, Nodes \ Changing} /\ event = Nil
  /\ pc = [r \in Rpcs |-> "none"] /\ call = [r \in Rpcs |-> Idle]
  /\ wire = [r \in Rpcs |-> Nil] /\ back = [r \in Rpcs |-> Nil]
  /\ skew = [r \in Rpcs |-> <<"same", "same">>]
  /\ srv = [r \in Rpcs |-> "none"]
  /\ arg = [r \in Rpcs |-> Nil] /\ left = [r \in Rpcs |-> 0]
  /\ ran = [r \in Rpcs |-> << >>]
  /\ ret = [r \in Rpcs |-> Nil]
  /\ dead = {} /\ faults = 0
  /\ col = "idle" /\ todo = {} /\ sysList = {}

(* The table of clients *)

\* A watch event: the handler asks for the write lock.
Event(n, op) ==
  /\ event = Nil
  /\ event' = [node |-> n, op |-> op]
  /\ UNCHANGED <<clients, pc, rpcVars, dead, colVars>>

Locked == col = "loop"     \* GetAllSysInfo holds the read lock
RLockFree == event = Nil   \* a waiting writer keeps new readers out

\* Mutant: no lock is taken.
onRegisterUnlocked ==
  /\ event # Nil /\ event.op = "put"
  /\ clients' \in {clients, clients \cup {event.node}}
  /\ event' = Nil
  /\ UNCHANGED <<pc, rpcVars, dead, colVars>>

\* onRegister under the lock; NewClient may fail.
onRegister ==
  /\ event # Nil /\ event.op = "put" /\ ~Locked
  /\ clients' \in {clients, clients \cup {event.node}}
  /\ event' = Nil
  /\ UNCHANGED <<pc, rpcVars, dead, colVars>>

onUnregister ==
  /\ event # Nil /\ event.op = "delete" /\ ~Locked
  /\ clients' = clients \ {event.node}
  /\ event' = Nil
  /\ UNCHANGED <<pc, rpcVars, dead, colVars>>

-----------------------------------------------------------------------------
(* The client side of an RPC *)

\* An application calls a function of service/api/client.
Begin(c, m, n, q) ==
  /\ pc[c] = "none"
  /\ pc' = [pc EXCEPT ![c] = "lookup"]
  /\ call' = [call EXCEPT ![c] = [m |-> m, node |-> n, req |-> q]]
  /\ UNCHANGED <<clients, event, wire, skew, srv, arg, left, ran, back, ret, dead, faults, colVars>>

\* Mutant: every error says that the node is not known.
FailureConfused(why) == [res |-> FALSE, err |-> "not found"]

\* An error from a function of service/api/client.
Failure(why) == [res |-> FALSE, err |-> why]

GetClientByAddr(c) ==
  /\ pc[c] = "lookup" /\ RLockFree
  /\ IF call[c].node \in clients
     THEN pc' = [pc EXCEPT ![c] = "call"] /\ ret' = ret
     ELSE pc' = [pc EXCEPT ![c] = "done"] /\ ret' = [ret EXCEPT ![c] = Failure("not found")]
  /\ UNCHANGED <<clients, event, call, wire, skew, srv, arg, left, ran, back, dead, faults, colVars>>

\* A method of kClient up to the wait for the answer.
Call(r) ==
  /\ pc[r] = "call"
  /\ \E T \in Codecs : \E v \in Versions(Encode(T, kClient[call[r].m].args, Args(call[r].m, call[r].req))) :
       /\ wire' = [wire EXCEPT ![r] = v[2]]
       /\ skew' = [skew EXCEPT ![r][1] = v[1]]
       /\ IF v[1] = "same" THEN faults' = faults ELSE Fault
  /\ pc' = [pc EXCEPT ![r] = "wait"]
  /\ UNCHANGED <<clients, event, call, srv, arg, left, ran, back, ret, dead, colVars>>

\* What the caller gets for a result: an error, the panic of a getter on a nil
\* Success, an error of json.Unmarshal, or the result.
Answer(m, r) ==
  IF r = Refused THEN Failure("rpc")
  ELSE IF r.val[0] = Nil /\ m \notin {"Hello", "StopUserClient"} THEN Failure("panic")
  ELSE IF Returned(m, r.val[0]) \/ m # "GetSysInfo"
       THEN [res |-> Returned(m, r.val[0]), err |-> "none"]
       ELSE Failure("json")

\* The answer comes in; the rest of kClient's method and of its caller.
Return(r) ==
  /\ pc[r] = "wait" /\ back[r] # Nil
  /\ LET s == kClient[call[r].m].result
     IN \E T \in Codecs :
          ret' = [ret EXCEPT ![r] = Answer(call[r].m, Decode(T, s, back[r]))]
  /\ pc' = [pc EXCEPT ![r] = "done"]
  /\ back' = [back EXCEPT ![r] = Nil]
  /\ UNCHANGED <<clients, event, call, wire, skew, srv, arg, left, ran, dead, faults, colVars>>

\* The connection breaks: the caller gets an error, the server may go on.
Break(r) ==
  /\ pc[r] = "wait"
  /\ IF call[r].node \in dead THEN faults' = faults ELSE Fault
  /\ pc' = [pc EXCEPT ![r] = "done"]
  /\ ret' = [ret EXCEPT ![r] = Failure("rpc")]
  /\ back' = [back EXCEPT ![r] = Nil]
  /\ UNCHANGED <<clients, event, call, wire, skew, srv, arg, left, ran, dead, colVars>>

\* The connection breaks within a message: its reader gets a prefix.
Cut(r) ==
  /\ Fault
  /\ \/ /\ wire[r] # Nil
        /\ \E k \in 0..Len(wire[r]) - 1 : wire' = [wire EXCEPT ![r] = SubSeq(@, 1, k)]
        /\ back' = back
     \/ /\ back[r] # Nil
        /\ \E k \in 0..Len(back[r]) - 1 : back' = [back EXCEPT ![r] = SubSeq(@, 1, k)]
        /\ wire' = wire
  /\ UNCHANGED <<clients, event, pc, call, skew, srv, arg, left, ran, ret, dead, colVars>>

-----------------------------------------------------------------------------
(* The server side of an RPC *)

Reply(r, b) == back' = [back EXCEPT ![r] = IF pc[r] = "wait" THEN b ELSE Nil]

Handler(r) == serviceMethods[kClient[call[r].m].calls]

\* The method is looked up and its arguments are decoded.
Receive(r) ==
  /\ wire[r] # Nil /\ srv[r] = "none" /\ call[r].node \notin dead
  /\ wire' = [wire EXCEPT ![r] = Nil]
  /\ \E T \in Codecs :
       LET s == Handler(r).args
           d == Decode(T, s, wire[r])
       IN IF d = Refused
          THEN /\ srv' = [srv EXCEPT ![r] = "end"] /\ Reply(r, Exception)
               /\ UNCHANGED <<arg, left>>
          ELSE /\ srv' = [srv EXCEPT ![r] = "run"] /\ back' = back
               /\ arg' = [arg EXCEPT ![r] = d.val]
               /\ left' = [left EXCEPT ![r] = Len(wire[r]) + 1 - d.at]
  /\ UNCHANGED <<clients, event, pc, call, skew, ran, ret, dead, faults, colVars>>

\* The generated handler: an error of ImRpcImpl becomes an exception, its result
\* the Success of the answer.
Handle(r) ==
  /\ srv[r] = "run" /\ call[r].node \notin dead
  /\ \E ok \in BOOLEAN :
       LET success == ImRpcImpl(Handler(r).calls, ok)
       IN /\ ran' = [ran EXCEPT ![r] = Append(@, [by |-> Handler(r).calls, with |-> success])]
          /\ IF success = Nil
             THEN Reply(r, Exception) /\ UNCHANGED <<skew, faults>>
             ELSE \E T \in Codecs :
                    \E v \in Versions(Encode(T, Handler(r).result, Success(success))) :
                      /\ Reply(r, v[2]) /\ skew' = [skew EXCEPT ![r][2] = v[1]]
                      /\ IF v[1] = "same" THEN faults' = faults ELSE Fault
  /\ srv' = [srv EXCEPT ![r] = "end"]
  /\ arg' = [arg EXCEPT ![r] = Nil]
  /\ UNCHANGED <<clients, event, pc, call, wire, left, ret, dead, colVars>>

Crash(n) ==
  /\ Fault /\ n \notin dead
  /\ dead' = dead \cup {n}
  /\ UNCHANGED <<clients, event, pc, call, wire, skew, srv, arg, left, ran, back, ret, colVars>>

-----------------------------------------------------------------------------
(* GetAllSysInfo *)

Collect ==
  /\ col = "idle"
  /\ col' = "rlock"
  /\ UNCHANGED <<clients, event, pc, rpcVars, dead, todo, sysList>>

CollectRLock ==
  /\ col = "rlock" /\ RLockFree
  /\ col' = "loop" /\ todo' = clients
  /\ UNCHANGED <<clients, event, pc, rpcVars, dead, sysList>>

\* Mutant: the loop looks the client up again, under a second read lock.
CollectCallRelocked(n) ==
  /\ col = "loop" /\ n \in todo /\ RLockFree
  /\ \A k \in Nodes : pc[k] \in {"none", "done"}
  /\ pc' = [pc EXCEPT ![n] = "call"]
  /\ call' = [call EXCEPT ![n] = [m |-> "GetSysInfo", node |-> n, req |-> Nil]]
  /\ todo' = todo \ {n}
  /\ UNCHANGED <<clients, event, wire, skew, srv, arg, left, ran, back, ret, dead, faults, col, sysList>>

\* GetSysInfo for the loop's next client, once the RPC before it has returned.
CollectCall(n) ==
  /\ col = "loop" /\ n \in todo
  /\ \A k \in Nodes : pc[k] \in {"none", "done"}
  /\ pc' = [pc EXCEPT ![n] = "call"]
  /\ call' = [call EXCEPT ![n] = [m |-> "GetSysInfo", node |-> n, req |-> Nil]]
  /\ todo' = todo \ {n}
  /\ UNCHANGED <<clients, event, wire, skew, srv, arg, left, ran, back, ret, dead, faults, col, sysList>>

\* The loop is over: RUnlock, and an error if nothing was collected.
CollectEnd ==
  /\ col = "loop" /\ todo = {}
  /\ \A k \in Nodes : pc[k] \in {"none", "done"}
  /\ sysList' = {k \in Nodes : pc[k] = "done" /\ ret[k].err = "none"}
  /\ col' = IF sysList' = {} THEN "error" ELSE "end"
  /\ UNCHANGED <<clients, event, pc, rpcVars, dead, todo>>

-----------------------------------------------------------------------------
Collector == CollectRLock \/ (\E n \in Nodes : CollectCall(n)) \/ CollectEnd
Watcher == onRegister \/ onUnregister

Next ==
  \/ \E n \in Changing, op \in {"put", "delete"} : Event(n, op)
  \/ Watcher
  \/ \E c \in Callers, n \in Changing :
       \E m \in DOMAIN kClient \ {"GetSysInfo"} : \E q \in Requests[m] : Begin(c, m, n, q)
  \/ \E c \in Callers : GetClientByAddr(c)
  \/ \E r \in Rpcs : Call(r) \/ Return(r) \/ Receive(r) \/ Handle(r) \/ Break(r) \/ Cut(r)
  \/ \E n \in Nodes : Crash(n)
  \/ Collect \/ Collector

\* What Call, Return, Receive and Handle do to the places of an RPC; no other
\* step does it, but for a connection that breaks before an answer is read.
Calls(r) == pc[r] = "call" /\ pc' = [pc EXCEPT ![r] = "wait"]
Returns(r) == pc[r] = "wait" /\ (back[r] # Nil \/ call[r].node \in dead) /\ pc' = [pc EXCEPT ![r] = "done"]
Serves(r) ==
  /\ call[r].node \notin dead
  /\ \/ wire[r] # Nil /\ srv[r] = "none" /\ \E s \in {"run", "end"} : srv' = [srv EXCEPT ![r] = s]
     \/ srv[r] = "run" /\ srv' = [srv EXCEPT ![r] = "end"]

\* The goroutines run; a reader that waits for the table's lock gets it before
\* the next writer (sync.RWMutex); a connection to a crashed node breaks.
Fairness ==
  /\ WF_vars(Watcher)
  /\ \A c \in Callers : SF_vars(GetClientByAddr(c))
  /\ \A r \in Rpcs : WF_pc(Calls(r) \/ Returns(r)) /\ WF_srv(Serves(r))
  /\ SF_vars(Collector)

Spec == Init /\ [][Next]_vars /\ Fairness
-----------------------------------------------------------------------------

\* The variables have their types, and a function of service/api/client has returned
\* exactly when it has a result or an error.
TypeOK ==
  /\ clients \subseteq Nodes /\ dead \subseteq Nodes /\ faults \in 0..MaxFaults
  /\ event \in {Nil} \cup [node : Nodes, op : {"put", "delete"}]
  /\ pc \in [Rpcs -> {"none", "lookup", "call", "wait", "done"}]
  /\ srv \in [Rpcs -> {"none", "run", "end"}]
  /\ col \in {"idle", "rlock", "loop", "end", "error"}
  /\ todo \subseteq Nodes /\ sysList \subseteq Nodes
  /\ \A r \in Rpcs : (pc[r] = "done") <=> (ret[r] # Nil)

\* The handler of the method that was called runs with the request that was made,
\* whichever codecs the two sides use, whatever fields a later version added, and
\* never with a part of a request: a message that was cut off is refused.  The
\* server's reader stops exactly at the end of the message.
HandlerGetsRequest ==
  \A r \in Rpcs :
    /\ srv[r] = "run" =>
         /\ Handler(r).calls = call[r].m
         /\ Equal(Handler(r).args, arg[r], Expected(call[r].m, call[r].req, skew[r][1]))
    /\ left[r] = 0

\* A call that returns without an error was handled exactly once, and its result
\* is what the handler said; one that fails was handled at most once, and not at
\* all if the node was not in the table.  (An answer of another type is not
\* understood and counts as a no.)  The getters that the callers use on an answer
\* meet no nil pointer: an answer that could be read has its Success set.
AnswerIsTrue ==
  \A r \in Rpcs : pc[r] = "done" =>
    /\ Len(ran[r]) <= 1 /\ ret[r].err # "panic"
    /\ ret[r].err = "not found" => ran[r] = << >>
    /\ ret[r].err = "none" =>
         /\ ran[r] # << >> /\ ran[r][1].with # Nil
         /\ ret[r].res = Yes(call[r].m, ran[r][1].with)
              \/ (skew[r][2] = "retyped" /\ ~ret[r].res)

S == INSTANCE RpcService

\* The calls of service/api/client and of GetAllSysInfo do what RpcService promises:
\* a call is handled once at most, a yes is the handler's, and a call that was told
\* that its node is not found is never handled, though other calls are still served
\* after their callers have given up.
ImplementsRpcService == S!Spec

\* GetAllSysInfo asks every node of the table as it is when it returns, and
\* reports each one that answered: nothing changes the table under its loop, and
\* a node that fails hides no other.
ReportsAll ==
  [][ col = "loop" /\ col' # "loop" =>
        /\ clients = {n \in Nodes : pc[n] # "none"}
        /\ sysList' = {n \in clients : pc[n] = "done" /\ ret[n].res} ]_vars

\* Every call returns and every change that the watch reports gets into the table,
\* also while GetAllSysInfo holds the table's lock over its RPCs: provided that
\* nodes answer or their connections break.
AllComeBack ==
  /\ \A c \in Callers : pc[c] = "lookup" ~> pc[c] = "done"
  /\ event # Nil ~> event = Nil
=============================================================================
