---------------------------- MODULE ImRpcProofs -----------------------------
(***************************************************************************)
(* The RPCs between nodes, for any number of nodes, callers and faults,    *)
(* any requests and any codecs that read what they write: a handler gets   *)
(* the request that was made, the caller gets what the handler said, the   *)
(* calls implement RpcService, and GetAllSysInfo reports every node of     *)
(* the table that answered.                                                *)
(***************************************************************************)
EXTENDS ImRpc, TLAPS

\* Leaves that Zenon cannot do name SMT.
USE Zenon

Methods == DOMAIN kClient
Results == [res : BOOLEAN, err : {"none", "not found", "rpc", "panic", "json"}]

\* All or a part of a message v.
Parts(v) == {v} \cup Prefixes(v)

\* w is of the encoded request of RPC r.
Sent(r, w) ==
  \E T \in Codecs :
    \E v \in Versions(Encode(T, kClient[call[r].m].args, Args(call[r].m, call[r].req))) :
      skew[r][1] = v[1] /\ w \in Parts(v[2])

\* w is of an exception or of the encoded result of RPC r's handler, which ran.
Replied(r, w) ==
  \/ w \in {Exception, << >>}
  \/ /\ ran[r] # << >> /\ ran[r][1].with \in Answers(call[r].m)
     /\ \E T \in Codecs :
          \E v \in Versions(Encode(T, kClient[call[r].m].result, Success(ran[r][1].with))) :
            skew[r][2] = v[1] /\ w \in Parts(v[2])

\* A caller has the request of its method; GetAllSysInfo calls GetSysInfo.
CallOK(r) ==
  /\ IF pc[r] = "none" THEN call[r] = Idle
     ELSE call[r].m \in Methods /\ call[r].req \in Requests[call[r].m]
  /\ r \in Nodes => pc[r] # "lookup" /\ (pc[r] # "none" => call[r].m = "GetSysInfo")
  /\ pc[r] \in {"none", "lookup", "call"} => wire[r] = Nil /\ srv[r] = "none"

\* The server gets a request once, and its handler runs once at most.
ServerOK(r) ==
  /\ wire[r] # Nil => srv[r] = "none" /\ Sent(r, wire[r])
  /\ srv[r] # "end" => ran[r] = << >>
  /\ Len(ran[r]) <= 1
  /\ srv[r] = "run" =>
       Equal(kClient[call[r].m].args, arg[r], Expected(call[r].m, call[r].req, skew[r][1]))
  /\ left[r] = 0 /\ DOMAIN skew[r] = {1, 2}

\* An answer is for a caller that waits.
BackOK(r) == back[r] # Nil => pc[r] = "wait" /\ srv[r] = "end" /\ Replied(r, back[r])

\* What a caller may be told.
Told(m, x) ==
  /\ x \in Results /\ x.err \notin {"panic", "not found"}
  /\ x.res => x.err = "none"
  /\ m = "GetSysInfo" /\ x.err = "none" => x.res

\* The result x of method m says what its handler answered, a, or no if the field that
\* says so has another type.
Says(m, a, how, x) ==
  x.res = Yes(m, a) \/ (how = "retyped" /\ ~x.res)

\* The result x of RPC r is an error or what its handler, which ran, answered.
TrueOf(r, x) ==
  x.err = "none" =>
    /\ srv[r] = "end" /\ ran[r] # << >> /\ ran[r][1].with # Nil
    /\ Says(call[r].m, ran[r][1].with, skew[r][2], x)

\* What the caller was told is so, and no later step of the server changes it.
RetOK(r) ==
  IF pc[r] = "done"
  THEN /\ ret[r] \in Results /\ ret[r].err # "panic"
       /\ ret[r].err = "not found" => wire[r] = Nil /\ srv[r] = "none"
       /\ ret[r].err \notin {"not found", "rpc"} => srv[r] = "end"
       /\ call[r].m = "GetSysInfo" => (ret[r].res <=> ret[r].err = "none")
       /\ TrueOf(r, ret[r])
  ELSE ret[r] = Nil

RpcOK(r) == CallOK(r) /\ ServerOK(r) /\ BackOK(r) /\ RetOK(r)

\* Until its loop GetAllSysInfo has called nobody; in the loop the table is what it
\* has called and what it has still to call.
TableOK ==
  /\ clients \subseteq Nodes /\ dead \subseteq Nodes /\ faults \in 0 .. MaxFaults
  /\ event \in {Nil} \cup [node : Nodes, op : {"put", "delete"}]
  /\ col \in {"idle", "rlock", "loop", "end", "error"}
  /\ todo \subseteq Nodes /\ sysList \subseteq Nodes
  /\ col \in {"idle", "rlock"} => \A n \in Nodes : pc[n] = "none"
  /\ col = "loop" =>
       /\ clients = todo \cup {n \in Nodes : pc[n] # "none"}
       /\ \A n \in todo : pc[n] = "none"

\* Every RPC has its state.
Shape ==
  /\ pc \in [Rpcs -> {"none", "lookup", "call", "wait", "done"}]
  /\ srv \in [Rpcs -> {"none", "run", "end"}]
  /\ DOMAIN call = Rpcs /\ DOMAIN wire = Rpcs /\ DOMAIN skew = Rpcs /\ DOMAIN arg = Rpcs
  /\ DOMAIN left = Rpcs /\ DOMAIN ran = Rpcs /\ DOMAIN back = Rpcs /\ DOMAIN ret = Rpcs

\* The inductive invariant.
IInv == Shape /\ TableOK /\ \A r \in Rpcs : RpcOK(r)

-----------------------------------------------------------------------------
(* The service and its codecs *)

\* The server knows every method by the name its client calls, runs the handler
\* of that method, and decodes and encodes the client's structs.
LEMMA MethodsAgree ==
  ASSUME NEW m \in Methods
  PROVE  LET h == serviceMethods[kClient[m].calls]
         IN h.calls = m /\ h.args = kClient[m].args /\ h.result = kClient[m].result
<1>1. m \in {"Hello", "SendMsgToUser", "SendMsgToUserByTgid", "StopUserClient", "GetSysInfo",
             "JoinGroup", "OutGroup"}
  BY SMT DEF Methods, kClient
<1> QED
  BY SMT, <1>1 DEF kClient, serviceMethods, Method

\* What is left of a message after two breaks is a part of it.
LEMMA PartOfPart ==
  ASSUME NEW v, IsSequence(v), NEW w \in Parts(v), NEW k \in 0 .. Len(w) - 1
  PROVE  SubSeq(w, 1, k) \in Parts(v)
<1> DEFINE C == {v[i] : i \in 1 .. Len(v)}
<1>1. v \in Seq(C)
  BY SMT DEF IsSequence
<1>2. CASE w = v
  BY SMT, <1>1, <1>2 DEF Parts, Prefixes
<1>3. ASSUME NEW j \in 0 .. Len(v) - 1, w = SubSeq(v, 1, j)
      PROVE  SubSeq(w, 1, k) = SubSeq(v, 1, k) /\ k \in 0 .. Len(v) - 1
  <2>1. w \in Seq(C) /\ Len(w) = j
    BY SMT, <1>1, <1>3
  <2>2. k < j
    BY SMT, <2>1
  <2> QED
    BY SMT, <1>1, <1>3, <2>1, <2>2
<1> QED
  BY <1>2, <1>3 DEF Parts, Prefixes

\* A decoder that succeeds has read a whole message.
LEMMA WholeMessage ==
  ASSUME NEW U, NEW s, NEW v, Readable(U, s, v), NEW w \in Parts(v), Decode(U, s, w) # Refused
  PROVE  w = v
BY DEF Readable, Parts

\* The server's decoder gets the request, or nothing.
LEMMA RequestRead ==
  ASSUME NEW T \in Codecs, NEW U \in Codecs, NEW m \in Methods, NEW q \in Requests[m],
         NEW v \in Versions(Encode(T, kClient[m].args, Args(m, q))), NEW w \in Parts(v[2]),
         Decode(U, kClient[m].args, w) # Refused
  PROVE  /\ Decode(U, kClient[m].args, w).at = Len(w) + 1 /\ Len(w) \in Nat
         /\ Equal(kClient[m].args, Decode(U, kClient[m].args, w).val, Expected(m, q, v[1]))
<1>1. /\ Readable(U, kClient[m].args, v[2])
      /\ Equal(kClient[m].args, Decode(U, kClient[m].args, v[2]).val, Expected(m, q, v[1]))
  BY ArgsAssumption DEF Methods
<1>2. w = v[2]
  BY <1>1, WholeMessage
<1> QED
  BY <1>1, <1>2 DEF Readable, IsSequence

\* A broken connection is an error to the caller.
LEMMA FailureTold ==
  ASSUME NEW m
  PROVE  Told(m, Failure("rpc")) /\ Failure("rpc").err = "rpc"
BY SMT DEF Told, Failure, Results

\* An exception is an error to the caller.
LEMMA ExceptionRead ==
  ASSUME NEW U \in Codecs, NEW m \in Methods, NEW w \in {Exception, << >>}
  PROVE  LET x == Answer(m, Decode(U, kClient[m].result, w))
         IN Told(m, x) /\ x.err = "rpc"
<1>1. Answer(m, Decode(U, kClient[m].result, w)) = Failure("rpc")
  BY ExceptionAssumption DEF Answer, Methods
<1> QED
  BY SMT, <1>1 DEF Told, Failure, Results

\* The rest of a client's function gets from a result what the handler put there, or
\* a no from a result of another type.
LEMMA ReturnedIsTold ==
  ASSUME NEW m \in Methods, NEW a \in Answers(m), NEW how, NEW success,
         how = "retyped" => success[1] = Unset[m], how # "retyped" => success[1] = a[1]
  PROVE  /\ Returned(m, success) \in BOOLEAN
         /\ \/ Returned(m, success) = Yes(m, a)
            \/ how = "retyped" /\ ~Returned(m, success)
<1>0. PICK ok \in BOOLEAN : a = ImRpcImpl(m, ok) /\ a # Nil
  BY DEF Answers, Outcomes
<1>1. CASE m \in {"SendMsgToUser", "SendMsgToUserByTgid"}
  <2>1. a = <<OK>> /\ Unset[m] = 0
    <3>1. CASE m = "SendMsgToUser"
      BY SMT, <1>0, <3>1 DEF ImRpcImpl, Unset
    <3>2. CASE m = "SendMsgToUserByTgid"
      BY SMT, <1>0, <3>2 DEF ImRpcImpl, Unset
    <3> QED
      BY <1>1, <3>1, <3>2
  <2>2. Returned(m, success) = (success[1] = OK)
    <3>1. CASE m = "SendMsgToUser"
      BY SMT, <3>1 DEF Returned
    <3>2. CASE m = "SendMsgToUserByTgid"
      BY SMT, <3>2 DEF Returned
    <3> QED
      BY <1>1, <3>1, <3>2
  <2>3. Returned(m, success) \in BOOLEAN
    BY <2>2
  <2>4. OK # 0 /\ m \notin {"JoinGroup", "OutGroup"}
    BY SMT, <1>1 DEF OK
  <2>5. a[1] = OK
    BY SMT, <2>1
  <2>6. success[1] = OK \/ (how = "retyped" /\ success[1] # OK)
    BY <2>1, <2>4, <2>5
  <2> QED
    BY <2>2, <2>3, <2>4, <2>6 DEF Yes
<1>2. CASE m \in {"JoinGroup", "OutGroup"}
  <2>1. a = <<ok>> /\ Unset[m] = FALSE
    <3>1. CASE m = "JoinGroup"
      BY SMT, <1>0, <3>1 DEF ImRpcImpl, Unset
    <3>2. CASE m = "OutGroup"
      BY SMT, <1>0, <3>2 DEF ImRpcImpl, Unset
    <3> QED
      BY <1>2, <3>1, <3>2
  <2>2. Returned(m, success) = success[1]
    <3>1. CASE m = "JoinGroup"
      BY SMT, <3>1 DEF Returned
    <3>2. CASE m = "OutGroup"
      BY SMT, <3>2 DEF Returned
    <3> QED
      BY <1>2, <3>1, <3>2
  <2>3. a[1] = ok
    BY SMT, <2>1
  <2> QED
    BY <1>2, <2>1, <2>2, <2>3 DEF Yes
<1>3. CASE m = "GetSysInfo"
  <2>1. a = <<SysInfo>>
    BY SMT, <1>0, <1>3 DEF ImRpcImpl
  <2>2. Returned(m, success) = (success[1] = SysInfo)
    BY SMT, <1>3 DEF Returned
  <2>3. a[1] = SysInfo /\ m \notin {"JoinGroup", "OutGroup"}
    BY SMT, <1>3, <2>1
  <2>4. success[1] = SysInfo \/ (how = "retyped" /\ success[1] # SysInfo)
    BY <2>3
  <2> QED
    BY <2>2, <2>3, <2>4 DEF Yes
<1>4. CASE m \in {"Hello", "StopUserClient"}
  <2>1. Returned(m, success) = TRUE
    <3>1. CASE m = "Hello"
      BY SMT, <3>1 DEF Returned
    <3>2. CASE m = "StopUserClient"
      BY SMT, <3>2 DEF Returned
    <3> QED
      BY <1>4, <3>1, <3>2
  <2>2. m \notin {"JoinGroup", "OutGroup"}
    BY SMT, <1>4
  <2> QED
    BY <2>1, <2>2 DEF Yes
<1> QED
  BY SMT, <1>1, <1>2, <1>3, <1>4 DEF Methods, kClient

\* The caller of an RPC is told what its handler said, or of an error.
LEMMA ResultRead ==
  ASSUME NEW T \in Codecs, NEW U \in Codecs, NEW m \in Methods, NEW a \in Answers(m),
         NEW v \in Versions(Encode(T, kClient[m].result, Success(a))), NEW w \in Parts(v[2]),
         NEW x, x = Answer(m, Decode(U, kClient[m].result, w))
  PROVE  /\ Told(m, x)
         /\ x.err = "none" => Says(m, a, v[1], x)
<1> DEFINE d == Decode(U, kClient[m].result, w)
           success == d.val[0]
<1>1. CASE d = Refused
  <2>1. x = Failure("rpc")
    BY <1>1 DEF Answer
  <2> QED
    BY SMT, <2>1 DEF Told, Failure, Results
<1>2. CASE d # Refused
  <2>1. Readable(U, kClient[m].result, v[2])
    BY ResultAssumption DEF Methods
  <2>2. w = v[2]
    BY <1>2, <2>1, WholeMessage
  <2>3. success # Nil /\ success[1] = IF v[1] = "retyped" THEN Unset[m] ELSE a[1]
    BY SMT, <2>2, ResultAssumption DEF Methods
  <2>4. x = IF Returned(m, success) \/ m # "GetSysInfo"
            THEN [res |-> Returned(m, success), err |-> "none"]
            ELSE Failure("json")
    BY <1>2, <2>3 DEF Answer
  <2> HIDE DEF success
  <2>5. /\ Returned(m, success) \in BOOLEAN
        /\ \/ Returned(m, success) = Yes(m, a)
           \/ v[1] = "retyped" /\ ~Returned(m, success)
    <3>1. (v[1] = "retyped" => success[1] = Unset[m]) /\ (v[1] # "retyped" => success[1] = a[1])
      BY <2>3
    <3> QED
      BY SMT, <3>1, ReturnedIsTold
  <2>6. CASE Returned(m, success) \/ m # "GetSysInfo"
    <3>1. PICK b \in BOOLEAN : b = Returned(m, success)
      BY <2>5
    <3>2. x = [res |-> b, err |-> "none"]
      BY <2>4, <2>6, <3>1
    <3>3. x.res = b /\ x.err = "none" /\ x \in Results
      BY SMT, <3>2 DEF Results
    <3>4. Told(m, x)
      BY SMT, <2>6, <3>1, <3>3 DEF Told
    <3> QED
      BY <2>5, <3>1, <3>3, <3>4 DEF Says
  <2>7. CASE ~(Returned(m, success) \/ m # "GetSysInfo")
    <3>1. x = Failure("json")
      BY <2>4, <2>7
    <3> QED
      BY SMT, <3>1 DEF Told, Failure, Results
  <2> QED
    BY <2>6, <2>7
<1> QED
  BY <1>1, <1>2

-----------------------------------------------------------------------------
(* One RPC at a time *)

\* A step sets a variable f of the RPCs at r.
LEMMA Updated ==
  ASSUME NEW f, NEW g, NEW e, NEW r \in Rpcs, DOMAIN f = Rpcs, g = [f EXCEPT ![r] = e]
  PROVE  DOMAIN g = Rpcs /\ g[r] = e /\ \A s \in Rpcs \ {r} : g[s] = f[s]
BY SMT

LEMMA UpdatedIn ==
  ASSUME NEW P, NEW f \in [Rpcs -> P], NEW g, NEW e \in P, NEW r \in Rpcs, g = [f EXCEPT ![r] = e]
  PROVE  g \in [Rpcs -> P] /\ g[r] = e /\ \A s \in Rpcs \ {r} : g[s] = f[s]
BY SMT

LEMMA SkewUpdated ==
  ASSUME NEW r \in Rpcs, NEW i \in {1, 2}, NEW e, DOMAIN skew = Rpcs, DOMAIN skew[r] = {1, 2},
         skew' = [skew EXCEPT ![r][i] = e]
  PROVE  /\ DOMAIN skew' = Rpcs /\ \A s \in Rpcs \ {r} : skew'[s] = skew[s]
         /\ DOMAIN skew'[r] = {1, 2} /\ skew'[r][i] = e
         /\ \A j \in {1, 2} \ {i} : skew'[r][j] = skew[r][j]
BY SMT

\* A step leaves RPC r alone.
Same(r) ==
  /\ pc'[r] = pc[r] /\ call'[r] = call[r] /\ wire'[r] = wire[r] /\ skew'[r] = skew[r]
  /\ srv'[r] = srv[r] /\ arg'[r] = arg[r] /\ left'[r] = left[r] /\ ran'[r] = ran[r]
  /\ back'[r] = back[r] /\ ret'[r] = ret[r]

LEMMA OtherRpc ==
  ASSUME NEW r \in Rpcs, RpcOK(r), Same(r)
  PROVE  RpcOK(r)'
<1>1. CallOK(r)'
  BY DEF RpcOK, CallOK, Same
<1>2. ServerOK(r)'
  BY DEF RpcOK, ServerOK, Sent, Same
<1>3. BackOK(r)'
  BY DEF RpcOK, BackOK, Replied, Same
<1>4. RetOK(r)'
  BY DEF RpcOK, RetOK, TrueOf, Same
<1> QED
  BY <1>1, <1>2, <1>3, <1>4 DEF RpcOK

LEMMA StepAt ==
  ASSUME IInv, NEW r \in Rpcs, Shape', TableOK', \A s \in Rpcs \ {r} : Same(s), RpcOK(r)'
  PROVE  IInv'
<1>1. ASSUME NEW s \in Rpcs
      PROVE  RpcOK(s)'
  <2>1. CASE s = r
    BY <2>1
  <2>2. CASE s # r
    BY <2>2, OtherRpc DEF IInv
  <2> QED
    BY <2>1, <2>2
<1> QED
  BY <1>1 DEF IInv

\* A step that starts no RPC of GetAllSysInfo is not seen by it.
LEMMA TableStays ==
  ASSUME TableOK, UNCHANGED <<clients, event, dead, colVars>>, faults' \in 0 .. MaxFaults,
         \A n \in Nodes : (pc[n] = "none") <=> (pc'[n] = "none")
  PROVE  TableOK'
<1>1. clients' = clients /\ event' = event /\ dead' = dead /\ col' = col /\ todo' = todo /\ sysList' = sysList
  BY DEF colVars
<1>2. {n \in Nodes : pc[n] # "none"} = {n \in Nodes : pc'[n] # "none"}
  OBVIOUS
<1>3. col = "loop" => \A n \in todo : pc'[n] = "none"
  BY DEF TableOK
<1> QED
  BY <1>1, <1>2, <1>3 DEF TableOK

\* A fault is within its bound.
LEMMA FaultBounded ==
  ASSUME TableOK, faults' = faults \/ Fault
  PROVE  faults' \in 0 .. MaxFaults
<1>1. faults \in 0 .. MaxFaults /\ MaxFaults \in Nat
  BY ImRpcAssumption DEF TableOK
<1> QED
  BY SMT, <1>1 DEF Fault

-----------------------------------------------------------------------------
(* The client side *)

LEMMA BeginKeeps ==
  ASSUME IInv, NEW c \in Callers, NEW n \in Changing, NEW m \in Methods, NEW q \in Requests[m],
         Begin(c, m, n, q)
  PROVE  IInv'
<1>1. c \in Rpcs /\ c \notin Nodes
  BY ImRpcAssumption DEF Rpcs
<1>2. /\ pc[c] = "none" /\ pc' = [pc EXCEPT ![c] = "lookup"]
      /\ call' = [call EXCEPT ![c] = [m |-> m, node |-> n, req |-> q]]
      /\ UNCHANGED <<wire, skew, srv, arg, left, ran, back, ret>>
  BY DEF Begin
<1>0. Shape
  BY DEF IInv
<1>3. Shape'
  <2>1. pc \in [Rpcs -> {"none", "lookup", "call", "wait", "done"}] /\ DOMAIN call = Rpcs
    BY <1>0 DEF Shape
  <2>2. pc' \in [Rpcs -> {"none", "lookup", "call", "wait", "done"}] /\ DOMAIN call' = Rpcs
    BY SMT, <1>1, <1>2, <2>1
  <2> QED
    BY <1>0, <1>2, <2>2 DEF Shape
<1>4. TableOK'
  <2>1. \A k \in Nodes : pc'[k] = pc[k]
    BY SMT, <1>1, <1>2 DEF IInv, Shape
  <2>2. faults' \in 0 .. MaxFaults
    BY FaultBounded DEF Begin, IInv
  <2> QED
    BY <2>1, <2>2, TableStays DEF Begin, IInv
<1>5. \A s \in Rpcs \ {c} : Same(s)
  BY SMT, <1>2 DEF IInv, Shape, Same
<1>6. RpcOK(c)'
  <2>1. pc'[c] = "lookup" /\ call'[c].m = m /\ call'[c].req = q
    BY SMT, <1>1, <1>2 DEF IInv, Shape
  <2>2. CallOK(c) /\ ServerOK(c) /\ BackOK(c) /\ RetOK(c)
    BY <1>1 DEF IInv, RpcOK
  <2>3. wire[c] = Nil /\ srv[c] = "none" /\ back[c] = Nil /\ ret[c] = Nil
    BY <1>2, <2>2 DEF CallOK, BackOK, RetOK
  <2>4. CallOK(c)'
    BY <1>1, <1>2, <2>1, <2>3 DEF CallOK
  <2>5. ServerOK(c)'
    BY <1>2, <2>2, <2>3 DEF ServerOK
  <2>6. BackOK(c)' /\ RetOK(c)'
    BY <1>2, <2>1, <2>3 DEF BackOK, RetOK
  <2> QED
    BY <2>4, <2>5, <2>6 DEF RpcOK
<1> QED
  BY <1>1, <1>3, <1>4, <1>5, <1>6, StepAt

LEMMA LookupKeeps ==
  ASSUME IInv, NEW c \in Callers, GetClientByAddr(c)
  PROVE  IInv'
<1>1. c \in Rpcs /\ c \notin Nodes
  BY ImRpcAssumption DEF Rpcs
<1>2. /\ pc[c] = "lookup"
      /\ UNCHANGED <<clients, event, call, wire, skew, srv, arg, left, ran, back, dead, faults, colVars>>
  BY DEF GetClientByAddr
<1>3. PICK to \in {"call", "done"} :
        /\ pc' = [pc EXCEPT ![c] = to]
        /\ to = "call" => ret' = ret
        /\ to = "done" => ret' = [ret EXCEPT ![c] = Failure("not found")]
  BY DEF GetClientByAddr
<1>4. /\ DOMAIN ret' = Rpcs /\ \A s \in Rpcs \ {c} : ret'[s] = ret[s]
      /\ to = "done" => ret'[c] = Failure("not found")
  <2>1. CASE to = "call"
    BY <1>3, <2>1 DEF IInv, Shape
  <2>2. CASE to = "done"
    <3>1. DOMAIN ret = Rpcs /\ ret' = [ret EXCEPT ![c] = Failure("not found")]
      BY <1>3, <2>2 DEF IInv, Shape
    <3> QED
      BY <1>1, <3>1, Updated
  <2> QED
    BY <2>1, <2>2
<1>5. /\ pc' \in [Rpcs -> {"none", "lookup", "call", "wait", "done"}] /\ pc'[c] = to
      /\ \A s \in Rpcs \ {c} : pc'[s] = pc[s]
  <2>1. pc \in [Rpcs -> {"none", "lookup", "call", "wait", "done"}] /\ pc' = [pc EXCEPT ![c] = to]
    BY <1>3 DEF IInv, Shape
  <2> QED
    BY SMT, <1>1, <2>1
<1>9. Shape'
  BY <1>2, <1>4, <1>5 DEF IInv, Shape
<1>6. TableOK'
  <2>1. \A k \in Nodes : pc'[k] = pc[k]
    BY <1>1, <1>5 DEF Rpcs
  <2>2. faults' \in 0 .. MaxFaults
    BY <1>2, FaultBounded DEF IInv
  <2> QED
    BY <1>2, <2>1, <2>2, TableStays DEF IInv
<1>7. \A s \in Rpcs \ {c} : Same(s)
  BY <1>2, <1>4, <1>5 DEF Same
<1>8. RpcOK(c)'
  <2>1. pc'[c] = to /\ (to = "done" => ret'[c] = Failure("not found")) /\ (to = "call" => ret'[c] = ret[c])
    BY <1>3, <1>4, <1>5
  <2>2. CallOK(c) /\ ServerOK(c) /\ BackOK(c) /\ RetOK(c)
    BY <1>1 DEF IInv, RpcOK
  <2>3. wire[c] = Nil /\ srv[c] = "none" /\ back[c] = Nil /\ ret[c] = Nil
    BY <1>2, <2>2 DEF CallOK, BackOK, RetOK
  <2>4. CallOK(c)'
    BY <1>1, <1>2, <2>1, <2>2, <2>3 DEF CallOK
  <2>5. ServerOK(c)'
    BY <1>2, <2>2, <2>3 DEF ServerOK
  <2>6. BackOK(c)'
    BY <1>2, <2>3 DEF BackOK
  <2>7. RetOK(c)'
    <3> DEFINE x == Failure("not found")
    <3>1. x \in Results /\ x.err = "not found" /\ x.err \notin {"none", "panic"} /\ x.res = FALSE
      BY SMT DEF Failure, Results
    <3> QED
      BY <1>2, <2>1, <2>3, <3>1 DEF RetOK, TrueOf
  <2> QED
    BY <2>4, <2>5, <2>6, <2>7 DEF RpcOK
<1> QED
  BY <1>1, <1>6, <1>7, <1>8, <1>9, StepAt

LEMMA CallKeeps ==
  ASSUME IInv, NEW r \in Rpcs, Call(r)
  PROVE  IInv'
<1>0. Shape /\ TableOK /\ CallOK(r) /\ ServerOK(r) /\ BackOK(r) /\ RetOK(r)
  BY DEF IInv, RpcOK
<1>1. PICK T \in Codecs :
        \E v \in Versions(Encode(T, kClient[call[r].m].args, Args(call[r].m, call[r].req))) :
          /\ wire' = [wire EXCEPT ![r] = v[2]] /\ skew' = [skew EXCEPT ![r][1] = v[1]]
          /\ faults' = faults \/ Fault
  BY DEF Call
<1>2. PICK v \in Versions(Encode(T, kClient[call[r].m].args, Args(call[r].m, call[r].req))) :
        /\ wire' = [wire EXCEPT ![r] = v[2]] /\ skew' = [skew EXCEPT ![r][1] = v[1]]
        /\ faults' = faults \/ Fault
  BY <1>1
<1>3. /\ pc[r] = "call" /\ pc' = [pc EXCEPT ![r] = "wait"]
      /\ UNCHANGED <<clients, event, call, srv, arg, left, ran, back, ret, dead, colVars>>
  BY DEF Call
<1>4. DOMAIN wire' = Rpcs /\ wire'[r] = v[2] /\ \A s \in Rpcs \ {r} : wire'[s] = wire[s]
  BY <1>0, <1>2, Updated DEF Shape
<1>5. /\ DOMAIN skew' = Rpcs /\ \A s \in Rpcs \ {r} : skew'[s] = skew[s]
      /\ DOMAIN skew'[r] = {1, 2} /\ skew'[r][1] = v[1]
  BY <1>0, <1>2, SkewUpdated DEF Shape, ServerOK
<1>6. /\ pc' \in [Rpcs -> {"none", "lookup", "call", "wait", "done"}]
      /\ pc'[r] = "wait" /\ \A s \in Rpcs \ {r} : pc'[s] = pc[s]
  BY <1>0, <1>3, UpdatedIn DEF Shape
<1>7. Shape'
  BY <1>0, <1>3, <1>4, <1>5, <1>6 DEF Shape
<1>8. TableOK'
  <2>1. \A n \in Nodes : (pc[n] = "none") <=> (pc'[n] = "none")
    BY <1>3, <1>6 DEF Rpcs
  <2> QED
    BY <1>0, <1>2, <1>3, <2>1, FaultBounded, TableStays
<1>9. \A s \in Rpcs \ {r} : Same(s)
  BY <1>3, <1>4, <1>5, <1>6 DEF Same
<1>10. RpcOK(r)'
  <2>1. srv[r] = "none" /\ back[r] = Nil /\ ret[r] = Nil
    BY <1>0, <1>3 DEF CallOK, BackOK, RetOK
  <2>2. CallOK(r)'
    BY <1>0, <1>3, <1>6 DEF CallOK
  <2>3. Sent(r, wire[r])'
    BY <1>3, <1>4, <1>5 DEF Sent, Parts
  <2>4. ServerOK(r)'
    BY <1>0, <1>3, <1>5, <2>1, <2>3 DEF ServerOK
  <2>5. BackOK(r)' /\ RetOK(r)'
    BY <1>3, <1>6, <2>1 DEF BackOK, RetOK
  <2> QED
    BY <2>2, <2>4, <2>5 DEF RpcOK
<1> QED
  BY <1>7, <1>8, <1>9, <1>10, StepAt

\* A caller stops waiting with what it may be told of the handler's answer.
LEMMA EndKeeps ==
  ASSUME IInv, NEW r \in Rpcs, NEW x, pc[r] = "wait", pc' = [pc EXCEPT ![r] = "done"],
         ret' = [ret EXCEPT ![r] = x], back' = [back EXCEPT ![r] = Nil], faults' = faults \/ Fault,
         UNCHANGED <<clients, event, call, wire, skew, srv, arg, left, ran, dead, colVars>>,
         Told(call[r].m, x), TrueOf(r, x), x.err # "rpc" => srv[r] = "end"
  PROVE  IInv'
<1>0. Shape /\ TableOK /\ CallOK(r) /\ ServerOK(r) /\ BackOK(r) /\ RetOK(r)
  BY DEF IInv, RpcOK
<1>1. DOMAIN ret' = Rpcs /\ ret'[r] = x /\ \A s \in Rpcs \ {r} : ret'[s] = ret[s]
  BY <1>0, Updated DEF Shape
<1>2. DOMAIN back' = Rpcs /\ back'[r] = Nil /\ \A s \in Rpcs \ {r} : back'[s] = back[s]
  BY <1>0, Updated DEF Shape
<1>3. /\ pc' \in [Rpcs -> {"none", "lookup", "call", "wait", "done"}]
      /\ pc'[r] = "done" /\ \A s \in Rpcs \ {r} : pc'[s] = pc[s]
  BY <1>0, UpdatedIn DEF Shape
<1>4. Shape'
  BY <1>0, <1>1, <1>2, <1>3 DEF Shape
<1>5. TableOK'
  <2>1. \A n \in Nodes : (pc[n] = "none") <=> (pc'[n] = "none")
    BY <1>3 DEF Rpcs
  <2> QED
    BY <1>0, <2>1, FaultBounded, TableStays
<1>6. \A s \in Rpcs \ {r} : Same(s)
  BY <1>1, <1>2, <1>3 DEF Same
<1>7. RpcOK(r)'
  <2>1. CallOK(r)'
    BY <1>0, <1>3 DEF CallOK
  <2>2. ServerOK(r)'
    BY <1>0 DEF ServerOK, Sent
  <2>3. BackOK(r)'
    BY <1>2 DEF BackOK
  <2>4. RetOK(r)'
    BY <1>1, <1>3 DEF RetOK, Told, TrueOf
  <2> QED
    BY <2>1, <2>2, <2>3, <2>4 DEF RpcOK
<1> QED
  BY <1>4, <1>5, <1>6, <1>7, StepAt

\* What the answer that came in tells the caller.
LEMMA ReturnTold ==
  ASSUME IInv, NEW r \in Rpcs, Return(r)
  PROVE  \E x : ret' = [ret EXCEPT ![r] = x] /\ Told(call[r].m, x) /\ TrueOf(r, x) /\ srv[r] = "end"
<1> DEFINE m == call[r].m
<1>0. CallOK(r) /\ BackOK(r)
  BY DEF IInv, RpcOK
<1>1. pc[r] = "wait" /\ back[r] # Nil
  BY DEF Return
<1>2. PICK U \in Codecs :
        ret' = [ret EXCEPT ![r] = Answer(m, Decode(U, kClient[m].result, back[r]))]
  BY DEF Return
<1>3. m \in Methods
  BY <1>0, <1>1 DEF CallOK
<1>4. srv[r] = "end" /\ Replied(r, back[r])
  BY <1>0, <1>1 DEF BackOK
<1> DEFINE x == Answer(m, Decode(U, kClient[m].result, back[r]))
<1>5. Told(m, x) /\ TrueOf(r, x)
  <2>1. CASE back[r] \in {Exception, << >>}
    BY <1>3, <2>1, ExceptionRead DEF TrueOf
  <2>2. CASE back[r] \notin {Exception, << >>}
    <3> DEFINE a == ran[r][1].with
    <3>1. ran[r] # << >> /\ a \in Answers(m)
      BY <1>4, <2>2 DEF Replied
    <3>2. PICK T \in Codecs : \E v \in Versions(Encode(T, kClient[m].result, Success(a))) :
            skew[r][2] = v[1] /\ back[r] \in Parts(v[2])
      BY <1>4, <2>2 DEF Replied
    <3>3. PICK v \in Versions(Encode(T, kClient[m].result, Success(a))) :
            skew[r][2] = v[1] /\ back[r] \in Parts(v[2])
      BY <3>2
    <3>4. a # Nil
      BY <3>1 DEF Answers
    <3> HIDE DEF x, m, a
    <3>5. /\ Told(m, x)
          /\ x.err = "none" => Says(m, a, v[1], x)
      <4>1. x = Answer(m, Decode(U, kClient[m].result, back[r]))
        BY DEF x
      <4> QED
        BY <1>3, <3>1, <3>3, <4>1, ResultRead
    <3> QED
      BY <1>4, <3>1, <3>3, <3>4, <3>5 DEF TrueOf, a, m
  <2> QED
    BY <2>1, <2>2
<1> HIDE DEF x
<1>6. ret' = [ret EXCEPT ![r] = x]
  BY <1>2 DEF x
<1> QED
  BY <1>4, <1>5, <1>6

LEMMA ReturnKeeps ==
  ASSUME IInv, NEW r \in Rpcs, Return(r)
  PROVE  IInv'
<1>1. /\ pc[r] = "wait" /\ pc' = [pc EXCEPT ![r] = "done"] /\ back' = [back EXCEPT ![r] = Nil]
      /\ UNCHANGED <<clients, event, call, wire, skew, srv, arg, left, ran, dead, faults, colVars>>
  BY DEF Return
<1>2. PICK x : ret' = [ret EXCEPT ![r] = x] /\ Told(call[r].m, x) /\ TrueOf(r, x) /\ srv[r] = "end"
  BY ReturnTold
<1> QED
  BY <1>1, <1>2, EndKeeps

LEMMA BreakKeeps ==
  ASSUME IInv, NEW r \in Rpcs, Break(r)
  PROVE  IInv'
<1> DEFINE x == Failure("rpc")
<1>1. /\ pc[r] = "wait" /\ pc' = [pc EXCEPT ![r] = "done"] /\ (faults' = faults \/ Fault)
      /\ ret' = [ret EXCEPT ![r] = x] /\ back' = [back EXCEPT ![r] = Nil]
      /\ UNCHANGED <<clients, event, call, wire, skew, srv, arg, left, ran, dead, colVars>>
  BY DEF Break
<1>2. Told(call[r].m, x) /\ TrueOf(r, x) /\ x.err = "rpc"
  BY FailureTold DEF TrueOf
<1> HIDE DEF x
<1> QED
  BY <1>1, <1>2, EndKeeps

-----------------------------------------------------------------------------
(* The messages *)

\* A part of a request's or an answer's message is still one.
LEMMA SentPart ==
  ASSUME NEW r \in Rpcs, call[r].m \in Methods, call[r].req \in Requests[call[r].m],
         NEW w, Sent(r, w), NEW k \in 0 .. Len(w) - 1
  PROVE  Sent(r, SubSeq(w, 1, k))
<1> DEFINE m == call[r].m
           q == call[r].req
<1>1. PICK T \in Codecs : \E v \in Versions(Encode(T, kClient[m].args, Args(m, q))) :
        skew[r][1] = v[1] /\ w \in Parts(v[2])
  BY DEF Sent
<1>2. PICK v \in Versions(Encode(T, kClient[m].args, Args(m, q))) :
        skew[r][1] = v[1] /\ w \in Parts(v[2])
  BY <1>1
<1>3. IsSequence(v[2])
  BY ArgsAssumption DEF Readable, Methods
<1>4. SubSeq(w, 1, k) \in Parts(v[2])
  BY <1>2, <1>3, PartOfPart
<1> QED
  BY <1>2, <1>4 DEF Sent

LEMMA RepliedPart ==
  ASSUME NEW r \in Rpcs, call[r].m \in Methods, NEW w, Replied(r, w), NEW k \in 0 .. Len(w) - 1
  PROVE  Replied(r, SubSeq(w, 1, k))
<1> DEFINE m == call[r].m
           a == ran[r][1].with
<1>1. CASE w = Exception
  <2>1. SubSeq(w, 1, k) = << >>
    BY SMT, <1>1 DEF Exception
  <2> QED
    BY <2>1 DEF Replied
<1>2. CASE w = << >>
  BY SMT, <1>2
<1>3. CASE w \notin {Exception, << >>}
  <2>1. ran[r] # << >> /\ a \in Answers(m)
    BY <1>3 DEF Replied
  <2>2. PICK T \in Codecs : \E v \in Versions(Encode(T, kClient[m].result, Success(a))) :
          skew[r][2] = v[1] /\ w \in Parts(v[2])
    BY <1>3 DEF Replied
  <2>3. PICK v \in Versions(Encode(T, kClient[m].result, Success(a))) :
          skew[r][2] = v[1] /\ w \in Parts(v[2])
    BY <2>2
  <2>4. IsSequence(v[2])
    BY <2>1, ResultAssumption DEF Readable, Methods
  <2>5. SubSeq(w, 1, k) \in Parts(v[2])
    BY <2>3, <2>4, PartOfPart
  <2> QED
    BY <2>1, <2>3, <2>5 DEF Replied
<1> QED
  BY <1>1, <1>2, <1>3

LEMMA CutKeeps ==
  ASSUME IInv, NEW r \in Rpcs, Cut(r)
  PROVE  IInv'
<1>0. Shape /\ TableOK /\ CallOK(r) /\ ServerOK(r) /\ BackOK(r) /\ RetOK(r)
  BY DEF IInv, RpcOK
<1>1. Fault /\ UNCHANGED <<clients, event, pc, call, skew, srv, arg, left, ran, ret, dead, colVars>>
  BY DEF Cut
<1>2. TableOK'
  BY <1>0, <1>1, FaultBounded, TableStays
<1>3. CASE wire[r] # Nil /\ back' = back
           /\ \E k \in 0 .. Len(wire[r]) - 1 : wire' = [wire EXCEPT ![r] = SubSeq(@, 1, k)]
  <2>1. PICK k \in 0 .. Len(wire[r]) - 1 : wire' = [wire EXCEPT ![r] = SubSeq(wire[r], 1, k)]
    BY <1>3
  <2>2. /\ DOMAIN wire' = Rpcs /\ wire'[r] = SubSeq(wire[r], 1, k)
        /\ \A s \in Rpcs \ {r} : wire'[s] = wire[s]
    BY <1>0, <2>1, Updated DEF Shape
  <2>3. Shape'
    BY <1>0, <1>1, <1>3, <2>2 DEF Shape
  <2>4. \A s \in Rpcs \ {r} : Same(s)
    BY <1>1, <1>3, <2>2 DEF Same
  <2>5. RpcOK(r)'
    <3>1. /\ pc[r] \notin {"none", "lookup", "call"} /\ srv[r] = "none"
          /\ call[r].m \in Methods /\ call[r].req \in Requests[call[r].m] /\ Sent(r, wire[r])
      BY <1>0, <1>3 DEF CallOK, ServerOK
    <3>2. CallOK(r)'
      BY <1>0, <1>1, <3>1 DEF CallOK
    <3>3. Sent(r, SubSeq(wire[r], 1, k))
      BY <2>1, <3>1, SentPart
    <3>4. Sent(r, wire[r])'
      BY <1>1, <2>2, <3>3 DEF Sent
    <3>5. ServerOK(r)'
      BY <1>0, <1>1, <3>1, <3>4 DEF ServerOK
    <3>6. BackOK(r)'
      BY <1>0, <1>1, <1>3, <3>1 DEF BackOK
    <3>7. RetOK(r)'
      BY <1>0, <1>1, <1>3 DEF RetOK, TrueOf
    <3> QED
      BY <3>2, <3>5, <3>6, <3>7 DEF RpcOK
  <2> QED
    BY <1>2, <2>3, <2>4, <2>5, StepAt
<1>4. CASE back[r] # Nil /\ wire' = wire
           /\ \E k \in 0 .. Len(back[r]) - 1 : back' = [back EXCEPT ![r] = SubSeq(@, 1, k)]
  <2>1. PICK k \in 0 .. Len(back[r]) - 1 : back' = [back EXCEPT ![r] = SubSeq(back[r], 1, k)]
    BY <1>4
  <2>2. /\ DOMAIN back' = Rpcs /\ back'[r] = SubSeq(back[r], 1, k)
        /\ \A s \in Rpcs \ {r} : back'[s] = back[s]
    BY <1>0, <2>1, Updated DEF Shape
  <2>3. Shape'
    BY <1>0, <1>1, <1>4, <2>2 DEF Shape
  <2>4. \A s \in Rpcs \ {r} : Same(s)
    BY <1>1, <1>4, <2>2 DEF Same
  <2>5. RpcOK(r)'
    <3>1. pc[r] = "wait" /\ srv[r] = "end" /\ call[r].m \in Methods /\ Replied(r, back[r])
      BY <1>0, <1>4 DEF CallOK, BackOK
    <3>2. Replied(r, SubSeq(back[r], 1, k))
      BY <2>1, <3>1, RepliedPart
    <3>3. Replied(r, back[r])'
      BY <1>1, <2>2, <3>2 DEF Replied
    <3>4. BackOK(r)'
      BY <1>1, <3>1, <3>3 DEF BackOK
    <3>5. CallOK(r)' /\ ServerOK(r)'
      BY <1>0, <1>1, <1>4 DEF CallOK, ServerOK, Sent
    <3>6. RetOK(r)'
      BY <1>0, <1>1, <1>4 DEF RetOK, TrueOf
    <3> QED
      BY <3>4, <3>5, <3>6 DEF RpcOK
  <2> QED
    BY <1>2, <2>3, <2>4, <2>5, StepAt
<1> QED
  BY <1>3, <1>4 DEF Cut

-----------------------------------------------------------------------------
(* The server side *)

LEMMA ReceiveKeeps ==
  ASSUME IInv, NEW r \in Rpcs, Receive(r)
  PROVE  IInv'
<1> DEFINE m == call[r].m
<1>0. Shape /\ TableOK /\ CallOK(r) /\ ServerOK(r) /\ BackOK(r) /\ RetOK(r)
  BY DEF IInv, RpcOK
<1>1. /\ wire[r] # Nil /\ srv[r] = "none" /\ wire' = [wire EXCEPT ![r] = Nil]
      /\ UNCHANGED <<clients, event, pc, call, skew, ran, ret, dead, faults, colVars>>
  BY DEF Receive
<1>2. /\ pc[r] \notin {"none", "lookup", "call"} /\ m \in Methods /\ call[r].req \in Requests[m]
      /\ Sent(r, wire[r]) /\ back[r] = Nil
  BY <1>0, <1>1 DEF CallOK, ServerOK, BackOK
<1>3. Handler(r).args = kClient[m].args
  BY <1>2, MethodsAgree DEF Handler
<1>4. DOMAIN wire' = Rpcs /\ wire'[r] = Nil /\ \A s \in Rpcs \ {r} : wire'[s] = wire[s]
  BY <1>0, <1>1, Updated DEF Shape
<1>5. TableOK'
  BY <1>0, <1>1, FaultBounded, TableStays
<1>6. PICK U \in Codecs :
        LET d == Decode(U, kClient[m].args, wire[r])
        IN IF d = Refused
           THEN /\ srv' = [srv EXCEPT ![r] = "end"] /\ Reply(r, Exception)
                /\ UNCHANGED <<arg, left>>
           ELSE /\ srv' = [srv EXCEPT ![r] = "run"] /\ back' = back
                /\ arg' = [arg EXCEPT ![r] = d.val]
                /\ left' = [left EXCEPT ![r] = Len(wire[r]) + 1 - d.at]
  BY <1>3 DEF Receive
<1> DEFINE d == Decode(U, kClient[m].args, wire[r])
<1>7. RetOK(r) /\ pc[r] = "done" => ret[r].err \notin {"none", "not found"}
  BY <1>1 DEF RetOK, TrueOf
<1>8. CASE d = Refused
  <2> DEFINE b == IF pc[r] = "wait" THEN Exception ELSE Nil
  <2>1. /\ srv' = [srv EXCEPT ![r] = "end"] /\ back' = [back EXCEPT ![r] = b]
        /\ arg' = arg /\ left' = left
    BY <1>6, <1>8 DEF Reply
  <2> HIDE DEF b
  <2>2. DOMAIN back' = Rpcs /\ back'[r] = b /\ \A s \in Rpcs \ {r} : back'[s] = back[s]
    BY <1>0, <2>1, Updated DEF Shape
  <2>3. /\ srv' \in [Rpcs -> {"none", "run", "end"}]
        /\ srv'[r] = "end" /\ \A s \in Rpcs \ {r} : srv'[s] = srv[s]
    BY <1>0, <2>1, UpdatedIn DEF Shape
  <2>4. Shape'
    BY <1>0, <1>1, <1>4, <2>1, <2>2, <2>3 DEF Shape
  <2>5. \A s \in Rpcs \ {r} : Same(s)
    BY <1>1, <1>4, <2>1, <2>2, <2>3 DEF Same
  <2>6. CallOK(r)' /\ ServerOK(r)'
    BY <1>0, <1>1, <1>2, <1>4, <2>1, <2>3 DEF CallOK, ServerOK
  <2>7. BackOK(r)'
    BY <1>1, <2>2, <2>3 DEF BackOK, Replied, b
  <2>8. RetOK(r)'
    BY <1>0, <1>1, <1>7 DEF RetOK, TrueOf
  <2>9. RpcOK(r)'
    BY <2>6, <2>7, <2>8 DEF RpcOK
  <2> QED
    BY <1>5, <2>4, <2>5, <2>9, StepAt
<1>9. CASE d # Refused
  <2>1. /\ srv' = [srv EXCEPT ![r] = "run"] /\ back' = back /\ arg' = [arg EXCEPT ![r] = d.val]
        /\ left' = [left EXCEPT ![r] = Len(wire[r]) + 1 - d.at]
    BY <1>6, <1>9
  <2>2. /\ d.at = Len(wire[r]) + 1 /\ Len(wire[r]) \in Nat
        /\ Equal(kClient[m].args, d.val, Expected(m, call[r].req, skew[r][1]))
    <3>1. PICK T \in Codecs : \E v \in Versions(Encode(T, kClient[m].args, Args(m, call[r].req))) :
            skew[r][1] = v[1] /\ wire[r] \in Parts(v[2])
      BY <1>2 DEF Sent
    <3>2. PICK v \in Versions(Encode(T, kClient[m].args, Args(m, call[r].req))) :
            skew[r][1] = v[1] /\ wire[r] \in Parts(v[2])
      BY <3>1
    <3>3. /\ d.at = Len(wire[r]) + 1 /\ Len(wire[r]) \in Nat
          /\ Equal(kClient[m].args, d.val, Expected(m, call[r].req, v[1]))
      BY <1>2, <1>9, <3>2, RequestRead
    <3> QED
      BY <3>2, <3>3
  <2> HIDE DEF d
  <2>3. Len(wire[r]) + 1 - d.at = 0
    BY SMT, <2>2
  <2>4. DOMAIN left' = Rpcs /\ left'[r] = 0 /\ \A s \in Rpcs \ {r} : left'[s] = left[s]
    BY <1>0, <2>1, <2>3, Updated DEF Shape
  <2>5. DOMAIN arg' = Rpcs /\ arg'[r] = d.val /\ \A s \in Rpcs \ {r} : arg'[s] = arg[s]
    BY <1>0, <2>1, Updated DEF Shape
  <2>6. /\ srv' \in [Rpcs -> {"none", "run", "end"}]
        /\ srv'[r] = "run" /\ \A s \in Rpcs \ {r} : srv'[s] = srv[s]
    BY <1>0, <2>1, UpdatedIn DEF Shape
  <2>7. Shape'
    BY <1>0, <1>1, <1>4, <2>1, <2>4, <2>5, <2>6 DEF Shape
  <2>8. \A s \in Rpcs \ {r} : Same(s)
    BY <1>1, <1>4, <2>1, <2>4, <2>5, <2>6 DEF Same
  <2>9. CallOK(r)' /\ BackOK(r)'
    BY <1>0, <1>1, <1>2, <1>4, <2>1 DEF CallOK, BackOK
  <2>10. ServerOK(r)'
    BY <1>0, <1>1, <1>4, <2>2, <2>4, <2>5, <2>6 DEF ServerOK
  <2>11. RetOK(r)'
    BY <1>0, <1>1, <1>7 DEF RetOK, TrueOf
  <2>12. RpcOK(r)'
    BY <2>9, <2>10, <2>11 DEF RpcOK
  <2> QED
    BY <1>5, <2>7, <2>8, <2>12, StepAt
<1> QED
  BY <1>8, <1>9

LEMMA HandleKeeps ==
  ASSUME IInv, NEW r \in Rpcs, Handle(r)
  PROVE  IInv'
<1> DEFINE m == call[r].m
<1>0. Shape /\ TableOK /\ CallOK(r) /\ ServerOK(r) /\ BackOK(r) /\ RetOK(r)
  BY DEF IInv, RpcOK
<1>1. /\ srv[r] = "run" /\ srv' = [srv EXCEPT ![r] = "end"] /\ arg' = [arg EXCEPT ![r] = Nil]
      /\ UNCHANGED <<clients, event, pc, call, wire, left, ret, dead, colVars>>
  BY DEF Handle
<1>2. /\ pc[r] \notin {"none", "lookup", "call"} /\ m \in Methods /\ wire[r] = Nil
      /\ ran[r] = << >> /\ back[r] = Nil
  BY <1>0, <1>1 DEF CallOK, ServerOK, BackOK
<1>3. Handler(r).calls = m /\ Handler(r).result = kClient[m].result
  BY <1>2, MethodsAgree DEF Handler
<1>4. PICK ok \in BOOLEAN :
        LET success == ImRpcImpl(m, ok)
        IN /\ ran' = [ran EXCEPT ![r] = Append(ran[r], [by |-> m, with |-> success])]
           /\ IF success = Nil
              THEN Reply(r, Exception) /\ UNCHANGED <<skew, faults>>
              ELSE \E T \in Codecs :
                     \E v \in Versions(Encode(T, kClient[m].result, Success(success))) :
                       /\ Reply(r, v[2]) /\ skew' = [skew EXCEPT ![r][2] = v[1]]
                       /\ IF v[1] = "same" THEN faults' = faults ELSE Fault
  BY <1>3 DEF Handle
<1> DEFINE a == ImRpcImpl(m, ok)
<1>5. /\ DOMAIN ran' = Rpcs /\ ran'[r] = Append(ran[r], [by |-> m, with |-> a])
      /\ \A s \in Rpcs \ {r} : ran'[s] = ran[s]
  <2>1. ran' = [ran EXCEPT ![r] = Append(ran[r], [by |-> m, with |-> a])]
    BY <1>4
  <2> QED
    BY <1>0, <2>1, Updated DEF Shape
<1>6. DOMAIN arg' = Rpcs /\ arg'[r] = Nil /\ \A s \in Rpcs \ {r} : arg'[s] = arg[s]
  BY <1>0, <1>1, Updated DEF Shape
<1>7. /\ srv' \in [Rpcs -> {"none", "run", "end"}]
      /\ srv'[r] = "end" /\ \A s \in Rpcs \ {r} : srv'[s] = srv[s]
  BY <1>0, <1>1, UpdatedIn DEF Shape
\* What the two ways to answer have in common.
<1>8. ASSUME NEW b, Reply(r, b), faults' = faults \/ Fault,
             DOMAIN skew' = Rpcs, \A s \in Rpcs \ {r} : skew'[s] = skew[s], DOMAIN skew'[r] = {1, 2},
             Replied(r, b)'
      PROVE  IInv'
  <2> DEFINE c == IF pc[r] = "wait" THEN b ELSE Nil
  <2>1. DOMAIN back' = Rpcs /\ back'[r] = c /\ \A s \in Rpcs \ {r} : back'[s] = back[s]
    BY <1>0, <1>8, Updated DEF Shape, Reply
  <2>2. TableOK'
    BY <1>0, <1>1, <1>8, FaultBounded, TableStays
  <2>3. Shape'
    BY <1>0, <1>1, <1>5, <1>6, <1>7, <1>8, <2>1 DEF Shape
  <2>4. \A s \in Rpcs \ {r} : Same(s)
    BY <1>1, <1>5, <1>6, <1>7, <1>8, <2>1 DEF Same
  <2>5. CallOK(r)'
    BY <1>0, <1>1, <1>2 DEF CallOK
  <2>6. ServerOK(r)'
    <3>1. Len(ran'[r]) <= 1
      BY SMT, <1>2, <1>5
    <3> QED
      BY <1>0, <1>1, <1>2, <1>7, <1>8, <3>1 DEF ServerOK
  <2>7. BackOK(r)'
    BY <1>1, <1>7, <1>8, <2>1 DEF BackOK
  <2>8. RetOK(r)'
    BY <1>0, <1>1 DEF RetOK, TrueOf
  <2>9. RpcOK(r)'
    BY <2>5, <2>6, <2>7, <2>8 DEF RpcOK
  <2> QED
    BY <2>2, <2>3, <2>4, <2>9, StepAt
<1>9. CASE a = Nil
  <2>1. Reply(r, Exception) /\ skew' = skew /\ faults' = faults
    BY <1>4, <1>9
  <2>2. Replied(r, Exception)'
    BY DEF Replied
  <2> QED
    BY <1>0, <1>8, <2>1, <2>2 DEF Shape, ServerOK
<1>10. CASE a # Nil
  <2>1. PICK T \in Codecs : \E v \in Versions(Encode(T, kClient[m].result, Success(a))) :
          /\ Reply(r, v[2]) /\ skew' = [skew EXCEPT ![r][2] = v[1]]
          /\ faults' = faults \/ Fault
    BY <1>4, <1>10
  <2>2. PICK v \in Versions(Encode(T, kClient[m].result, Success(a))) :
          /\ Reply(r, v[2]) /\ skew' = [skew EXCEPT ![r][2] = v[1]]
          /\ faults' = faults \/ Fault
    BY <2>1
  <2>3. /\ DOMAIN skew' = Rpcs /\ \A s \in Rpcs \ {r} : skew'[s] = skew[s]
        /\ DOMAIN skew'[r] = {1, 2} /\ skew'[r][2] = v[1]
    BY <1>0, <2>2, SkewUpdated DEF Shape, ServerOK
  <2>4. ran'[r] # << >> /\ ran'[r][1].with = a
    BY SMT, <1>2, <1>5
  <2>5. a \in Answers(m)
    BY <1>10 DEF Answers, Outcomes
  <2>6. Replied(r, v[2])'
    BY <1>1, <2>3, <2>4, <2>5 DEF Replied, Parts
  <2> QED
    BY <1>8, <2>2, <2>3, <2>6
<1> QED
  BY <1>9, <1>10

-----------------------------------------------------------------------------
(* The table and GetAllSysInfo *)

LEMMA RpcsStay ==
  ASSUME IInv, UNCHANGED <<pc, call, wire, skew, srv, arg, left, ran, back, ret>>, TableOK'
  PROVE  IInv'
<1>1. Shape'
  BY DEF IInv, Shape
<1>2. ASSUME NEW r \in Rpcs
      PROVE  RpcOK(r)'
  BY OtherRpc DEF IInv, Same
<1> QED
  BY <1>1, <1>2 DEF IInv

LEMMA EventKeeps ==
  ASSUME IInv, NEW n \in Changing, NEW op \in {"put", "delete"}, Event(n, op)
  PROVE  IInv'
<1>1. event' \in [node : Nodes, op : {"put", "delete"}]
  BY ImRpcAssumption DEF Event
<1>2. TableOK'
  BY <1>1 DEF IInv, TableOK, Event, rpcVars, colVars
<1> QED
  BY <1>2, RpcsStay DEF Event, rpcVars

\* The watcher changes no table that GetAllSysInfo reads.
LEMMA WatcherKeeps ==
  ASSUME IInv, Watcher
  PROVE  IInv'
<1>1. TableOK
  BY DEF IInv
<1>2. event # Nil /\ ~Locked /\ event' = Nil /\ UNCHANGED <<pc, rpcVars, dead, colVars>>
  BY DEF Watcher, onRegister, onUnregister
<1>3. event.node \in Nodes
  <2>1. event \in [node : Nodes, op : {"put", "delete"}]
    BY <1>1, <1>2 DEF TableOK
  <2> QED
    BY SMT, <2>1
<1>4. clients' \subseteq Nodes
  BY <1>1, <1>3 DEF Watcher, onRegister, onUnregister, TableOK
<1>5. TableOK'
  BY <1>1, <1>2, <1>4 DEF TableOK, Locked, rpcVars, colVars
<1> QED
  BY <1>2, <1>5, RpcsStay DEF rpcVars

LEMMA CrashKeeps ==
  ASSUME IInv, NEW n \in Nodes, Crash(n)
  PROVE  IInv'
<1>1. faults' \in 0 .. MaxFaults
  BY FaultBounded DEF IInv, Crash
<1>2. TableOK'
  BY <1>1 DEF IInv, TableOK, Crash, colVars
<1> QED
  BY <1>2, RpcsStay DEF Crash

LEMMA CollectKeeps ==
  ASSUME IInv, Collect \/ CollectRLock
  PROVE  IInv'
<1>1. TableOK /\ UNCHANGED <<clients, event, pc, rpcVars, dead, sysList>>
  BY DEF IInv, Collect, CollectRLock
<1>2. CASE Collect
  BY <1>1, <1>2, RpcsStay DEF Collect, TableOK, rpcVars
<1>3. CASE CollectRLock
  <2>1. clients \subseteq Nodes /\ \A n \in Nodes : pc[n] = "none"
    BY <1>1, <1>3 DEF CollectRLock, TableOK
  <2>2. clients = clients \cup {n \in Nodes : pc[n] # "none"}
    BY <2>1
  <2>3. col' = "loop" /\ todo' = clients
    BY <1>3 DEF CollectRLock
  <2>4. TableOK'
    BY <1>1, <2>1, <2>2, <2>3 DEF TableOK, rpcVars
  <2> QED
    BY <1>1, <2>4, RpcsStay DEF rpcVars
<1> QED
  BY <1>2, <1>3

LEMMA CollectEndKeeps ==
  ASSUME IInv, CollectEnd
  PROVE  IInv'
<1>1. TableOK'
  BY DEF IInv, CollectEnd, TableOK, rpcVars
<1> QED
  BY <1>1, RpcsStay DEF CollectEnd, rpcVars

LEMMA CollectCallKeeps ==
  ASSUME IInv, NEW n \in Nodes, CollectCall(n)
  PROVE  IInv'
<1>0. Shape /\ TableOK /\ n \in Rpcs /\ CallOK(n) /\ ServerOK(n) /\ BackOK(n) /\ RetOK(n)
  BY DEF IInv, RpcOK, Rpcs
<1> DEFINE e == [m |-> "GetSysInfo", node |-> n, req |-> Nil]
<1>1. /\ col = "loop" /\ n \in todo /\ pc' = [pc EXCEPT ![n] = "call"]
      /\ call' = [call EXCEPT ![n] = e] /\ todo' = todo \ {n}
      /\ UNCHANGED <<clients, event, wire, skew, srv, arg, left, ran, back, ret, dead, faults, col, sysList>>
  BY DEF CollectCall
<1>2. pc[n] = "none"
  BY <1>0, <1>1 DEF TableOK
<1>3. /\ e.m = "GetSysInfo" /\ e.m \in Methods /\ e.req \in Requests[e.m]
  BY SMT DEF Methods, kClient, Requests
<1> HIDE DEF e
<1>4. DOMAIN call' = Rpcs /\ call'[n] = e /\ \A s \in Rpcs \ {n} : call'[s] = call[s]
  BY <1>0, <1>1, Updated DEF Shape
<1>5. /\ pc' \in [Rpcs -> {"none", "lookup", "call", "wait", "done"}]
      /\ pc'[n] = "call" /\ \A s \in Rpcs \ {n} : pc'[s] = pc[s]
  BY <1>0, <1>1, UpdatedIn DEF Shape
<1>6. Shape'
  BY <1>0, <1>1, <1>4, <1>5 DEF Shape
<1>7. TableOK'
  <2>1. \A k \in Nodes \ {n} : pc'[k] = pc[k]
    BY <1>5 DEF Rpcs
  <2>2. clients = todo \cup {k \in Nodes : pc[k] # "none"}
    BY <1>0, <1>1 DEF TableOK
  <2>3. clients' = todo' \cup {k \in Nodes : pc'[k] # "none"}
    BY <1>1, <1>2, <1>5, <2>1, <2>2
  <2>4. \A k \in todo' : pc'[k] = "none"
    BY <1>0, <1>1, <2>1 DEF TableOK
  <2> QED
    BY <1>0, <1>1, <2>3, <2>4 DEF TableOK
<1>8. \A s \in Rpcs \ {n} : Same(s)
  BY <1>1, <1>4, <1>5 DEF Same
<1>9. RpcOK(n)'
  <2>1. wire[n] = Nil /\ srv[n] = "none" /\ back[n] = Nil /\ ret[n] = Nil
    BY <1>0, <1>2 DEF CallOK, BackOK, RetOK
  <2>2. CallOK(n)'
    BY <1>1, <1>3, <1>4, <1>5, <2>1 DEF CallOK
  <2>3. ServerOK(n)'
    BY <1>0, <1>1, <2>1 DEF ServerOK
  <2>4. BackOK(n)' /\ RetOK(n)'
    BY <1>1, <1>5, <2>1 DEF BackOK, RetOK
  <2> QED
    BY <2>2, <2>3, <2>4 DEF RpcOK
<1> QED
  BY <1>0, <1>6, <1>7, <1>8, <1>9, StepAt

-----------------------------------------------------------------------------
(* The theorems *)

LEMMA InitOK ==
  ASSUME Init
  PROVE  IInv
<1>1. Shape
  <2>1. /\ pc \in [Rpcs -> {"none", "lookup", "call", "wait", "done"}]
        /\ srv \in [Rpcs -> {"none", "run", "end"}]
    BY SMT DEF Init
  <2>2. /\ DOMAIN call = Rpcs /\ DOMAIN wire = Rpcs /\ DOMAIN skew = Rpcs /\ DOMAIN arg = Rpcs
        /\ DOMAIN left = Rpcs /\ DOMAIN ran = Rpcs /\ DOMAIN back = Rpcs /\ DOMAIN ret = Rpcs
    BY DEF Init
  <2> QED
    BY <2>1, <2>2 DEF Shape
<1>2. TableOK
  <2>1. 0 \in 0 .. MaxFaults
    <3>1. MaxFaults \in Nat
      BY ImRpcAssumption
    <3> QED
      BY SMT, <3>1
  <2>2. \A n \in Nodes : pc[n] = "none"
    BY DEF Init, Rpcs
  <2> QED
    BY <2>1, <2>2, ImRpcAssumption DEF Init, TableOK
<1>3. ASSUME NEW r \in Rpcs
      PROVE  RpcOK(r)
  <2>1. /\ pc[r] = "none" /\ wire[r] = Nil /\ back[r] = Nil /\ srv[r] = "none" /\ left[r] = 0
        /\ ran[r] = << >> /\ ret[r] = Nil /\ call[r] = Idle /\ skew[r] = <<"same", "same">>
    BY DEF Init
  <2>2. Len(ran[r]) <= 1 /\ DOMAIN skew[r] = {1, 2}
    BY SMT, <2>1
  <2>3. CallOK(r)
    BY <2>1 DEF CallOK
  <2>4. ServerOK(r)
    BY <2>1, <2>2 DEF ServerOK
  <2>5. BackOK(r) /\ RetOK(r)
    BY <2>1 DEF BackOK, RetOK
  <2> QED
    BY <2>3, <2>4, <2>5 DEF RpcOK
<1> QED
  BY <1>1, <1>2, <1>3 DEF IInv

LEMMA NextKeeps ==
  ASSUME IInv, [Next]_vars
  PROVE  IInv'
<1>1. ASSUME NEW n \in Changing, NEW op \in {"put", "delete"}, Event(n, op)
      PROVE  IInv'
  BY <1>1, EventKeeps
<1>2. CASE Watcher
  BY <1>2, WatcherKeeps
<1>3. ASSUME NEW c \in Callers, NEW n \in Changing, NEW m \in DOMAIN kClient \ {"GetSysInfo"},
             NEW q \in Requests[m], Begin(c, m, n, q)
      PROVE  IInv'
  BY <1>3, BeginKeeps DEF Methods
<1>4. ASSUME NEW c \in Callers, GetClientByAddr(c)
      PROVE  IInv'
  BY <1>4, LookupKeeps
<1>5. ASSUME NEW r \in Rpcs, Call(r) \/ Return(r) \/ Receive(r) \/ Handle(r) \/ Break(r) \/ Cut(r)
      PROVE  IInv'
  BY <1>5, CallKeeps, ReturnKeeps, ReceiveKeeps, HandleKeeps, BreakKeeps, CutKeeps
<1>6. ASSUME NEW n \in Nodes, Crash(n)
      PROVE  IInv'
  BY <1>6, CrashKeeps
<1>7. CASE Collect
  BY <1>7, CollectKeeps
<1>8. CASE Collector
  BY <1>8, CollectKeeps, CollectCallKeeps, CollectEndKeeps DEF Collector
<1>9. CASE UNCHANGED vars
  <2>1. TableOK'
    BY <1>9 DEF IInv, TableOK, vars, rpcVars, colVars
  <2> QED
    BY <1>9, <2>1, RpcsStay DEF vars, rpcVars
<1> QED
  BY <1>1, <1>2, <1>3, <1>4, <1>5, <1>6, <1>7, <1>8, <1>9 DEF Next

\* Whatever nodes, callers and codecs there are, and however often connections break,
\* nodes crash and senders of another version call: every RPC is in a state that its
\* request, its handler's answer and the table account for.
THEOREM ImRpcInvariant == Spec => []IInv
<1>1. Init => IInv
  BY InitOK
<1>2. IInv /\ [Next]_vars => IInv'
  BY NextKeeps
<1> QED
  BY <1>1, <1>2, PTL DEF Spec

\* A function of service/api/client has returned exactly when it has a result or an
\* error, and the variables have their types.
THEOREM ImRpcTypes == Spec => []TypeOK
<1>1. IInv => TypeOK
  <2>1. ASSUME IInv, NEW r \in Rpcs
        PROVE  (pc[r] = "done") <=> (ret[r] # Nil)
    <3>1. RetOK(r)
      BY <2>1 DEF IInv, RpcOK
    <3>2. Nil \notin Results
      BY ImRpcAssumption DEF Results
    <3> QED
      BY <3>1, <3>2 DEF RetOK
  <2> QED
    BY <2>1 DEF IInv, TypeOK, Shape, TableOK
<1> QED
  BY <1>1, ImRpcInvariant, PTL

\* The generated client and server run the handler of the method that was called with
\* the request that was made, whichever codecs they use, and never with a part of it;
\* the server's reader stops at the end of the message.
THEOREM HandlersGetRequests == Spec => []HandlerGetsRequest
<1>1. IInv => HandlerGetsRequest
  <2>1. ASSUME IInv, NEW r \in Rpcs
        PROVE  /\ srv[r] = "run" =>
                    /\ Handler(r).calls = call[r].m
                    /\ Equal(Handler(r).args, arg[r], Expected(call[r].m, call[r].req, skew[r][1]))
               /\ left[r] = 0
    <3>1. CallOK(r) /\ ServerOK(r)
      BY <2>1 DEF IInv, RpcOK
    <3>2. ASSUME srv[r] = "run"
          PROVE  Handler(r).calls = call[r].m /\ Handler(r).args = kClient[call[r].m].args
      BY <3>1, <3>2, MethodsAgree DEF CallOK, Handler
    <3> QED
      BY <3>1, <3>2 DEF ServerOK
  <2> QED
    BY <2>1 DEF HandlerGetsRequest
<1> QED
  BY <1>1, ImRpcInvariant, PTL

\* What a function of service/api/client returns is true: without an error the handler
\* ran exactly once and said so, with one it ran at most once, and not at all if the
\* node was not in the table; the getters on an answer meet no nil pointer.
THEOREM AnswersAreTrue == Spec => []AnswerIsTrue
<1>1. IInv => AnswerIsTrue
  <2>1. ASSUME IInv, NEW r \in Rpcs, pc[r] = "done"
        PROVE  /\ Len(ran[r]) <= 1 /\ ret[r].err # "panic"
               /\ ret[r].err = "not found" => ran[r] = << >>
               /\ ret[r].err = "none" =>
                    /\ ran[r] # << >> /\ ran[r][1].with # Nil
                    /\ ret[r].res = Yes(call[r].m, ran[r][1].with)
                         \/ (skew[r][2] = "retyped" /\ ~ret[r].res)
    <3>1. ServerOK(r) /\ RetOK(r)
      BY <2>1 DEF IInv, RpcOK
    <3>2. TrueOf(r, ret[r]) /\ ret[r].err # "panic" /\ (ret[r].err = "not found" => srv[r] = "none")
      BY <2>1, <3>1 DEF RetOK
    <3>3. Len(ran[r]) <= 1 /\ (ret[r].err = "not found" => ran[r] = << >>)
      BY <3>1, <3>2 DEF ServerOK
    <3> QED
      BY <3>2, <3>3 DEF TrueOf, Says
  <2> QED
    BY <2>1 DEF AnswerIsTrue
<1> QED
  BY <1>1, ImRpcInvariant, PTL

-----------------------------------------------------------------------------
(* The promise to the callers *)

ServiceStep == [S!Next]_<<call, ran, ret>>

LEMMA CallIsMade ==
  ASSUME NEW r \in Rpcs, call[r].m \in Methods
  PROVE  call[r] # S!None
<1>1. S!None.m = "none"
  BY DEF S!None
<1>2. "none" \notin Methods
  BY SMT DEF Methods, kClient
<1> QED
  BY <1>1, <1>2

LEMMA InvokeImplements ==
  ASSUME IInv, NEW r \in Rpcs, pc[r] = "none", NEW m \in Methods, NEW n \in Nodes, NEW q \in Requests[m],
         call' = [call EXCEPT ![r] = [m |-> m, node |-> n, req |-> q]], UNCHANGED <<ran, ret>>
  PROVE  ServiceStep
<1>1. call[r] = S!None
  BY DEF IInv, RpcOK, CallOK, Idle, S!None
<1>2. m \in DOMAIN Requests
  BY SMT DEF Methods, kClient, Requests
<1>3. S!Invoke(r)
  BY <1>1, <1>2 DEF S!Invoke
<1> QED
  BY <1>3 DEF ServiceStep, S!Next

\* A caller that is told x gets no more than RpcService allows.
LEMMA EndImplements ==
  ASSUME IInv, NEW r \in Rpcs, NEW x, pc[r] \notin {"none", "done"}, ret' = [ret EXCEPT ![r] = x],
         UNCHANGED <<call, ran>>, x \in S!Results, x.err = "not found" => ran[r] = << >>,
         TrueOf(r, x), x.res => x.err = "none"
  PROVE  ServiceStep
<1>1. CallOK(r) /\ RetOK(r)
  BY DEF IInv, RpcOK
<1>2. ret[r] = Nil
  BY <1>1 DEF RetOK
<1>3. call[r] # S!None
  BY <1>1, CallIsMade DEF CallOK
<1>4. x.err = "none" => ran[r] # << >> /\ ran[r][1].with # Nil
  BY DEF TrueOf
<1>5. x.res => x.err = "none" /\ Yes(call[r].m, ran[r][1].with)
  BY DEF TrueOf, Says, S!Results
<1>6. S!Return(r)
  BY <1>2, <1>3, <1>4, <1>5 DEF S!Return
<1> QED
  BY <1>6 DEF ServiceStep, S!Next

LEMMA HandleImplements ==
  ASSUME IInv, NEW r \in Rpcs, Handle(r)
  PROVE  ServiceStep
<1> DEFINE m == call[r].m
<1>1. CallOK(r) /\ ServerOK(r) /\ RetOK(r)
  BY DEF IInv, RpcOK
<1>2. srv[r] = "run" /\ UNCHANGED <<call, ret>>
  BY DEF Handle
<1>3. m \in Methods /\ ran[r] = << >>
  BY <1>1, <1>2 DEF CallOK, ServerOK
<1>4. call[r] # S!None
  BY <1>3, CallIsMade
<1>5. ret[r] # Nil => ret[r].err = "rpc"
  BY <1>1, <1>2 DEF RetOK
<1>6. Handler(r).calls = m
  BY <1>3, MethodsAgree DEF Handler
<1>7. PICK ok \in BOOLEAN :
        ran' = [ran EXCEPT ![r] = Append(ran[r], [by |-> m, with |-> ImRpcImpl(m, ok)])]
  BY <1>6 DEF Handle
<1> DEFINE success == ImRpcImpl(m, ok)
           run == [by |-> m, with |-> success]
<1>8. success \in Outcomes(m)
  BY DEF Outcomes
<1>9. Append(<< >>, run) = <<run>>
  <2> HIDE DEF run
  <2> QED
    BY SMT
<1>10. ran' = [ran EXCEPT ![r] = <<run>>]
  BY <1>3, <1>7, <1>9
<1> HIDE DEF success
<1>11. S!Run(r)
  BY <1>2, <1>3, <1>4, <1>5, <1>8, <1>10 DEF S!Run
<1> QED
  BY <1>11 DEF ServiceStep, S!Next

LEMMA ResultIsOne ==
  ASSUME NEW x \in Results, x.err # "panic"
  PROVE  x \in S!Results
<1>1. x = [res |-> x.res, err |-> x.err]
  BY DEF Results
<1>2. x.res \in BOOLEAN /\ x.err \in {"none", "not found", "rpc", "panic", "json"}
  BY DEF Results
<1>3. x.err \in {"none", "not found", "rpc", "json"}
  BY <1>2
<1> QED
  BY <1>1, <1>2, <1>3 DEF S!Results

LEMMA ReturnImplements ==
  ASSUME IInv, NEW r \in Rpcs, Return(r)
  PROVE  ServiceStep
<1>1. pc[r] = "wait" /\ UNCHANGED <<call, ran>>
  BY DEF Return
<1>2. PICK x : ret' = [ret EXCEPT ![r] = x] /\ Told(call[r].m, x) /\ TrueOf(r, x) /\ srv[r] = "end"
  BY ReturnTold
<1>3. x \in S!Results /\ x.err # "not found" /\ (x.res => x.err = "none")
  <2>1. x \in Results /\ x.err # "panic"
    BY <1>2 DEF Told
  <2>2. x \in S!Results
    BY <2>1, ResultIsOne
  <2> QED
    BY <1>2, <2>2 DEF Told
<1> QED
  BY <1>1, <1>2, <1>3, EndImplements

LEMMA BreakImplements ==
  ASSUME IInv, NEW r \in Rpcs, Break(r)
  PROVE  ServiceStep
<1> DEFINE x == Failure("rpc")
<1>1. pc[r] = "wait" /\ UNCHANGED <<call, ran>> /\ ret' = [ret EXCEPT ![r] = x]
  BY DEF Break
<1>2. x \in S!Results /\ x.err = "rpc" /\ x.res = FALSE
  BY SMT DEF Failure, S!Results
<1> HIDE DEF x
<1>3. TrueOf(r, x)
  BY <1>2 DEF TrueOf
<1> QED
  BY <1>1, <1>2, <1>3, EndImplements

\* A caller that is told that the node is not in the table has made no request.
LEMMA LookupImplements ==
  ASSUME IInv, NEW c \in Callers, GetClientByAddr(c)
  PROVE  ServiceStep
<1> DEFINE x == Failure("not found")
<1>1. pc[c] = "lookup" /\ UNCHANGED <<call, ran>> /\ c \in Rpcs
  BY DEF GetClientByAddr, Rpcs
<1>2. CASE ret' = ret
  BY <1>1, <1>2 DEF ServiceStep
<1>3. CASE ret' = [ret EXCEPT ![c] = x]
  <2>1. x \in S!Results /\ x.err = "not found" /\ x.res = FALSE
    BY SMT DEF Failure, S!Results
  <2> HIDE DEF x
  <2>2. ran[c] = << >>
    BY <1>1 DEF IInv, RpcOK, CallOK, ServerOK
  <2>3. TrueOf(c, x)
    BY <2>1 DEF TrueOf
  <2> QED
    BY <1>1, <1>3, <2>1, <2>2, <2>3, EndImplements
<1> QED
  BY <1>2, <1>3 DEF GetClientByAddr

LEMMA CollectCallImplements ==
  ASSUME IInv, NEW n \in Nodes, CollectCall(n)
  PROVE  ServiceStep
<1>1. n \in Rpcs /\ pc[n] = "none"
  BY DEF IInv, TableOK, CollectCall, Rpcs
<1>2. "GetSysInfo" \in Methods /\ Nil \in Requests["GetSysInfo"]
  BY SMT DEF Methods, kClient, Requests
<1> QED
  BY <1>1, <1>2, InvokeImplements DEF CollectCall

\* The RPC layer does for every caller what RpcService promises: a call is handled
\* once at most, also when its connection breaks and its caller has given up, a yes
\* is its handler's yes, and a call to a node that was not found is never handled.
THEOREM RpcsImplementService == Spec => ImplementsRpcService
<1>1. Init => S!Init
  BY DEF Init, S!Init, Idle, S!None
<1>2. IInv /\ [Next]_vars => [S!Next]_<<call, ran, ret>>
  <2> SUFFICES ASSUME IInv, [Next]_vars PROVE ServiceStep
    BY DEF ServiceStep
  <2>1. ASSUME UNCHANGED <<call, ran, ret>> PROVE ServiceStep
    BY <2>1 DEF ServiceStep
  <2>2. ASSUME NEW c \in Callers, NEW n \in Changing, NEW m \in DOMAIN kClient \ {"GetSysInfo"},
               NEW q \in Requests[m], Begin(c, m, n, q)
        PROVE  ServiceStep
    <3>1. c \in Rpcs /\ n \in Nodes /\ m \in Methods
      BY ImRpcAssumption DEF Rpcs, Methods
    <3> QED
      BY <2>2, <3>1, InvokeImplements DEF Begin
  <2>3. ASSUME NEW c \in Callers, GetClientByAddr(c) PROVE ServiceStep
    BY <2>3, LookupImplements
  <2>4. ASSUME NEW r \in Rpcs, Return(r) \/ Handle(r) \/ Break(r) PROVE ServiceStep
    BY <2>4, ReturnImplements, HandleImplements, BreakImplements
  <2>5. ASSUME NEW r \in Rpcs, Call(r) \/ Receive(r) \/ Cut(r) PROVE ServiceStep
    BY <2>1, <2>5 DEF Call, Receive, Cut
  <2>6. CASE Collector
    BY <2>1, <2>6, CollectCallImplements DEF Collector, CollectRLock, CollectEnd, rpcVars
  <2>7. CASE Watcher \/ Collect \/ UNCHANGED vars
    BY <2>1, <2>7 DEF Watcher, onRegister, onUnregister, Collect, vars, rpcVars
  <2>8. ASSUME NEW n \in Nodes, Crash(n) PROVE ServiceStep
    BY <2>1, <2>8 DEF Crash
  <2>9. ASSUME NEW n \in Changing, NEW op \in {"put", "delete"}, Event(n, op) PROVE ServiceStep
    BY <2>1, <2>9 DEF Event, rpcVars
  <2> QED
    BY <2>2, <2>3, <2>4, <2>5, <2>6, <2>7, <2>8, <2>9 DEF Next
<1> QED
  BY <1>1, <1>2, ImRpcInvariant, PTL DEF Spec, ImplementsRpcService, S!Spec

\* What the loop of GetAllSysInfo leaves, by the end of it.
LEMMA LoopEnds ==
  ASSUME IInv, [Next]_vars, col = "loop", col' # "loop"
  PROVE  /\ clients = {n \in Nodes : pc[n] # "none"}
         /\ sysList' = {n \in clients : pc[n] = "done" /\ ret[n].res}
<1>1. CollectEnd
  BY DEF Next, vars, Event, Watcher, onRegister, onUnregister, Begin, GetClientByAddr, Call, Return,
         Break, Cut, Receive, Handle, Crash, Collect, Collector, CollectRLock, CollectCall, colVars
<1>2. clients = {n \in Nodes : pc[n] # "none"}
  BY <1>1 DEF IInv, TableOK, CollectEnd
<1>3. ASSUME NEW n \in Nodes, pc[n] = "done"
      PROVE  ret[n].err = "none" <=> ret[n].res
  <2>1. n \in Rpcs
    BY DEF Rpcs
  <2>2. CallOK(n) /\ RetOK(n)
    BY <2>1 DEF IInv, RpcOK
  <2>3. call[n].m = "GetSysInfo"
    BY <1>3, <2>2 DEF CallOK
  <2> QED
    BY <1>3, <2>2, <2>3 DEF RetOK
<1>4. sysList' = {n \in Nodes : pc[n] = "done" /\ ret[n].err = "none"}
  BY <1>1 DEF CollectEnd
<1> QED
  BY <1>2, <1>3, <1>4

\* GetAllSysInfo has asked exactly the nodes of the table as it is when it returns, and
\* reports exactly those that answered: its read lock keeps the watcher out of the
\* table, and a node that fails hides no other.
THEOREM SysInfoReportsAll == Spec => ReportsAll
<1>1. IInv /\ [Next]_vars =>
        [ col = "loop" /\ col' # "loop" =>
            /\ clients = {n \in Nodes : pc[n] # "none"}
            /\ sysList' = {n \in clients : pc[n] = "done" /\ ret[n].res} ]_vars
  BY LoopEnds
<1> QED
  BY <1>1, ImRpcInvariant, PTL DEF Spec, ReportsAll
=============================================================================
