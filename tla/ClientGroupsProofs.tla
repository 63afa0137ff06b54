------------------------- MODULE ClientGroupsProofs -------------------------
(***************************************************************************)
(* For any number of clients, RPCs and groups: the two records of a user's *)
(* membership agree whenever no call is running, and a user without a      *)
(* client is in no group, but for groups of which a join overlapped a      *)
(* leave or an OnClose.                                                    *)
(***************************************************************************)
EXTENDS ClientGroups, TLAPS

\* Leaves that Zenon cannot do name SMT.
USE Zenon

\* Where a goroutine is says which call it has with the group service.
OpOK(t) ==
  /\ pc[t] \in {"join", "out"} => ops[t] # Nil /\ ops[t].op = pc[t]
  /\ pc[t] = "outall" /\ ops[t] # Nil => ops[t].op = "out"
  /\ pc[t] \notin {"join", "out", "outall"} => ops[t] = Nil

\* A client's goroutine works on its client, which is registered from Connect to
\* DelClient. Its TGroup starts empty. OutAllTGroup holds the lock, so that what it
\* ranges over is TGroup itself, and later only a join that overlapped it adds to it.
ClientOK(c) ==
  /\ cl[c] = c
  /\ pc[c] # "idle"
  /\ pc[c] \in {"read", "join", "out", "outall", "delete"} <=> registered = c
  /\ pc[c] = "new" => TGroup[c] = {}
  /\ pc[c] = "outall" => TGroupLock[c] = c /\ todo[c] = TGroup[c]
  /\ pc[c] = "delete" => TGroup[c] \subseteq mixed

\* An RPC works on a client that was registered when it started.
RpcOK(t) ==
  /\ pc[t] \in {"idle", "join", "out"}
  /\ pc[t] # "idle" => cl[t] \in Clients /\ pc[cl[t]] # "new"

\* Unless the group is mixed: a join works on the registered client, whose OnClose
\* has not begun, and nobody leaves the group meanwhile; a leave that a client left
\* behind finds that its successor is not in the group.
CallOK(t) ==
  /\ pc[t] = "join" /\ ops[t].gid \notin mixed =>
       /\ cl[t] = registered /\ pc[cl[t]] \notin {"outall", "delete"}
       /\ \A u \in Threads : pc[u] = "out" => ops[u].gid # ops[t].gid
  /\ pc[t] = "out" /\ ops[t].gid \notin mixed /\ registered # Nil /\ cl[t] # registered =>
       ops[t].gid \notin TGroup[registered]

\* A call that took effect is still in effect when it returns.
EffectOK(t) ==
  ops[t] # Nil /\ ops[t].done /\ ops[t].gid \notin mixed =>
    IF ops[t].op = "out" THEN Uid \notin members[ops[t].gid] ELSE Uid \in members[ops[t].gid]

\* The two records differ only where a call that changed the one has still to
\* change the other.
GroupOK(g) ==
  g \notin mixed =>
    /\ Uid \in members[g] =>
         /\ registered # Nil
         /\ g \in TGroup[registered] \/ \E t \in Threads : pc[t] = "join" /\ ops[t].gid = g
    /\ registered # Nil /\ g \in TGroup[registered] /\ Uid \notin members[g] =>
         \E t \in Threads : /\ ops[t] # Nil /\ ops[t].op = "out" /\ ops[t].gid = g
                            /\ ops[t].done /\ cl[t] = registered

\* The inductive invariant.
IInv ==
  /\ TypeOK
  /\ \A t \in Threads : OpOK(t) /\ CallOK(t) /\ EffectOK(t)
  /\ \A c \in Clients : ClientOK(c)
  /\ \A t \in Rpc : RpcOK(t)
  /\ \A g \in Gids : GroupOK(g)

\* A call that takes effect is the same call, done.
LEMMA DoneOp ==
  ASSUME NEW o \in GS!Ops
  PROVE  /\ GS!Done(o) \in GS!Ops /\ GS!Done(o) # Nil /\ GS!Done(o).done
         /\ GS!Done(o).op = o.op /\ GS!Done(o).gid = o.gid
<1>1. /\ GS!Done(o).op = o.op /\ GS!Done(o).gid = o.gid /\ GS!Done(o).uid = o.uid
      /\ GS!Done(o).done = TRUE
  BY SMT DEF GS!Done
<1>2. GS!Done(o) \in GS!Ops
  BY SMT DEF GS!Ops, GS!Done
<1> QED
  BY <1>1, <1>2, ClientGroupsAssumption

\* A call of the group service.
LEMMA CallOp ==
  ASSUME TypeOK, NEW t \in Threads, NEW o, NEW g \in Gids, CallService(t, o, g)
  PROVE  /\ ops' \in [Threads -> GS!Ops \cup {Nil}]
         /\ ops[t] = Nil /\ ops'[t] # Nil
         /\ ops'[t].op = o /\ ops'[t].gid = g /\ ~ops'[t].done
         /\ \A u \in Threads : u # t => ops'[u] = ops[u]
         /\ UNCHANGED members
BY SMT, ClientGroupsAssumption DEF TypeOK, CallService, GS!Call, GS!Ops

\* Its return.
LEMMA ReturnOp ==
  ASSUME TypeOK, NEW t \in Threads, Returns(t)
  PROVE  /\ ops' \in [Threads -> GS!Ops \cup {Nil}]
         /\ ops[t] \in GS!Ops /\ ops[t].gid \in Gids
         /\ ops[t] # Nil /\ ops[t].done /\ ops'[t] = Nil
         /\ \A u \in Threads : u # t => ops'[u] = ops[u]
         /\ UNCHANGED members
BY SMT DEF TypeOK, Returns, GS!Return, GS!Ops

\* Every step keeps the variables in their types.
LEMMA TypeStep ==
  ASSUME TypeOK, [Next]_vars
  PROVE  TypeOK'
<1> USE DEF TypeOK
<1>1. ASSUME NEW t \in Threads, GS!Join(t) \/ GS!Out(t),
             UNCHANGED <<registered, TGroup, TGroupLock, todo, pc, cl, mixed>>
      PROVE  TypeOK'
  <2>1. ops[t] \in GS!Ops
    BY <1>1 DEF GS!Join, GS!Out, GS!Pending
  <2>2. ops' \in [Threads -> GS!Ops \cup {Nil}]
    BY <1>1, <2>1, DoneOp DEF GS!Join, GS!Out
  <2>3. ops[t].gid \in Gids /\ ops[t].uid = Uid
    BY SMT, <2>1 DEF GS!Ops
  <2>4. members' \in [Gids -> SUBSET {Uid}]
    BY SMT, <1>1, <2>3 DEF GS!Join, GS!Out
  <2> QED
    BY <1>1, <2>2, <2>4
<1>2. ASSUME NEW T \in SUBSET Threads, GS!OutAbsent(T),
             UNCHANGED <<registered, TGroup, TGroupLock, todo, pc, cl, mixed>>
      PROVE  TypeOK'
  <2>1. \A t \in T : ops[t] \in GS!Ops
    BY <1>2 DEF GS!OutAbsent, GS!Pending
  <2>2. ops' \in [Threads -> GS!Ops \cup {Nil}]
    BY <1>2, <2>1, DoneOp DEF GS!OutAbsent
  <2> QED
    BY <1>2, <2>2 DEF GS!OutAbsent
<1>3. ASSUME NEW t \in Threads, NEW g \in Gids, CallInTGroup(t, g) \/ CallOutTGroup(t, g)
      PROVE  TypeOK'
  <2>1. PICK o \in {"join", "out"} : StartGroupCall(t, o, g)
    BY <1>3 DEF CallInTGroup, CallOutTGroup
  <2>2. /\ CallService(t, o, g) /\ pc' = [pc EXCEPT ![t] = o]
        /\ UNCHANGED <<registered, TGroup, TGroupLock, todo>>
    BY <2>1 DEF StartGroupCall, Goto
  <2>3. ops' \in [Threads -> GS!Ops \cup {Nil}] /\ UNCHANGED members
    BY <2>2, CallOp
  <2>4. cl' \in [Threads -> Clients \cup {Nil}]
    BY <2>1 DEF StartGroupCall
  <2>5. pc' \in [Threads -> {"new", "read", "idle", "join", "out", "outall", "delete", "end"}]
    BY <2>2
  <2>6. mixed' \subseteq Gids
    BY <1>3 DEF CallInTGroup, CallOutTGroup
  <2> QED
    BY <2>2, <2>3, <2>4, <2>5, <2>6
<1>4. ASSUME NEW t \in Threads, InTGroup(t) \/ OutTGroup(t) PROVE TypeOK'
  <2>1. ops' \in [Threads -> GS!Ops \cup {Nil}] /\ ops[t].gid \in Gids /\ UNCHANGED members
    BY <1>4, ReturnOp DEF InTGroup, OutTGroup
  <2>2. TGroup' \in [Clients -> SUBSET Gids]
    BY SMT, <1>4, <2>1 DEF InTGroup, OutTGroup
  <2>3. pc' \in [Threads -> {"new", "read", "idle", "join", "out", "outall", "delete", "end"}]
    BY <1>4 DEF InTGroup, OutTGroup, Rest, Goto
  <2> QED
    BY <1>4, <2>1, <2>2, <2>3 DEF InTGroup, OutTGroup
<1>5. ASSUME NEW c \in Clients, Connect(c) \/ OutAllTGroup(c) \/ OutAllDone(c) \/ DelClient(c)
      PROVE  TypeOK'
  BY SMT, <1>5 DEF Connect, OutAllTGroup, OutAllDone, DelClient, Goto, Threads
<1>6. ASSUME NEW c \in Clients, CallOutAll(c) PROVE TypeOK'
  <2>1. PICK g \in todo[c] : CallService(c, "out", g)
    BY <1>6 DEF CallOutAll
  <2>2. g \in Gids /\ c \in Threads
    BY DEF Threads
  <2>3. ops' \in [Threads -> GS!Ops \cup {Nil}] /\ UNCHANGED members
    BY <2>1, <2>2, CallOp
  <2> QED
    BY <1>6, <2>3 DEF CallOutAll
<1>7. ASSUME NEW c \in Clients, OutAllNext(c) PROVE TypeOK'
  <2>1. ops' \in [Threads -> GS!Ops \cup {Nil}] /\ UNCHANGED members
    BY <1>7, ReturnOp DEF OutAllNext, Threads
  <2>2. TGroup' \in [Clients -> SUBSET Gids] /\ todo' \in [Clients -> SUBSET Gids]
    BY SMT, <1>7 DEF OutAllNext
  <2> QED
    BY <1>7, <2>1, <2>2 DEF OutAllNext
<1>8. CASE UNCHANGED vars
  BY <1>8 DEF vars
<1> QED
  BY <1>1, <1>2, <1>3, <1>4, <1>5, <1>6, <1>7, <1>8 DEF Next, ServiceStep, GroupCall, CloseStep

\* The variables keep their types: TGroup holds group ids, TGroupLock goroutines.
THEOREM ClientGroupsTypes == Spec => []TypeOK
<1>1. Init => TypeOK
  BY SMT DEF Init, GS!Init, TypeOK, Threads
<1> QED
  BY <1>1, TypeStep, PTL DEF Spec

\* The clients use the group service only as its contract GroupService allows,
\* which TGroups implements.
THEOREM ClientsUseGroupService == Spec => GS!Spec
<1>1. Init => GS!Init
  BY DEF Init
<1>2. [Next]_vars => [GS!Next]_<<members, ops>>
  <2> SUFFICES ASSUME [Next]_vars PROVE [GS!Next]_<<members, ops>>
    OBVIOUS
  <2>1. CASE ServiceStep
    BY <2>1 DEF ServiceStep, GS!Next
  <2>2. ASSUME NEW t \in Threads, GroupCall(t) PROVE [GS!Next]_<<members, ops>>
    BY <2>2 DEF GroupCall, CallInTGroup, CallOutTGroup, StartGroupCall, InTGroup, OutTGroup,
                CallService, Returns, GS!Next
  <2>3. ASSUME NEW c \in Clients, CallOutAll(c) \/ OutAllNext(c)
        PROVE  [GS!Next]_<<members, ops>>
    BY <2>3 DEF CallOutAll, OutAllNext, CallService, Returns, GS!Next, Threads
  <2>4. ASSUME NEW c \in Clients, Connect(c) \/ OutAllTGroup(c) \/ OutAllDone(c) \/ DelClient(c)
        PROVE  UNCHANGED <<members, ops>>
    BY <2>4 DEF Connect, OutAllTGroup, OutAllDone, DelClient
  <2>5. CASE UNCHANGED vars
    BY <2>5 DEF vars
  <2> QED
    BY <2>1, <2>2, <2>3, <2>4, <2>5 DEF Next, CloseStep
<1> QED
  BY <1>1, <1>2, PTL DEF Spec, GS!Spec

-----------------------------------------------------------------------------
(* The steps *)

\* The invariant without its types.
Links ==
  /\ \A t \in Threads : OpOK(t) /\ CallOK(t) /\ EffectOK(t)
  /\ \A c \in Clients : ClientOK(c)
  /\ \A t \in Rpc : RpcOK(t)
  /\ \A g \in Gids : GroupOK(g)

\* A call works on a client that has been registered.
LEMMA WorksOnClient ==
  ASSUME IInv, NEW t \in Threads, pc[t] \in {"join", "out"}
  PROVE  cl[t] \in Clients /\ pc[cl[t]] # "new"
<1>1. CASE t \in Clients
  BY <1>1 DEF IInv, ClientOK
<1>2. CASE t \in Rpc
  BY <1>2 DEF IInv, RpcOK
<1> QED
  BY <1>1, <1>2 DEF Threads

\* A new client is in no group, and no call works on it.
LEMMA ConnectKeeps ==
  ASSUME IInv, NEW c \in Clients,
         Connect(c)
  PROVE  Links'
<1> USE ClientGroupsAssumption DEF IInv, Threads
<1>1. /\ pc[c] = "new" /\ registered = Nil /\ registered' = c
      /\ pc'[c] = "read"
      /\ \A u \in Threads : u # c => pc'[u] = pc[u]
      /\ UNCHANGED <<members, ops, TGroup, TGroupLock, todo, cl, mixed>>
  BY DEF Connect, Goto, TypeOK
<1>2. ASSUME NEW u \in Threads PROVE OpOK(u)'
  BY <1>1 DEF OpOK
<1>3. ASSUME NEW u \in Threads PROVE CallOK(u)'
  BY SMT, <1>1 DEF CallOK, ClientOK, RpcOK
<1>4. ASSUME NEW u \in Threads PROVE EffectOK(u)'
  BY <1>1 DEF EffectOK
<1>5. ASSUME NEW d \in Clients PROVE ClientOK(d)'
  BY <1>1 DEF ClientOK
<1>6. ASSUME NEW u \in Rpc PROVE RpcOK(u)'
  BY <1>1 DEF RpcOK
<1>7. ASSUME NEW h \in Gids PROVE GroupOK(h)'
  BY <1>1 DEF ClientOK, GroupOK
<1> QED
  BY <1>2, <1>3, <1>4, <1>5, <1>6, <1>7 DEF Links

\* A join that is not mixed starts on the registered client, before its OnClose and
\* while nobody leaves the group.
LEMMA CallInTGroupKeeps ==
  ASSUME IInv, NEW t \in Threads, NEW g \in Gids,
         CallInTGroup(t, g)
  PROVE  Links'
<1> USE ClientGroupsAssumption DEF IInv, Threads
<1>1. StartGroupCall(t, "join", g)
  BY DEF CallInTGroup
<1>2. /\ pc[t] \in {"read", "idle"} /\ registered \in Clients /\ cl'[t] = registered
      /\ pc'[t] = "join"
      /\ \A u \in Threads : u # t => pc'[u] = pc[u]
      /\ \A u \in Threads : u # t => cl'[u] = cl[u]
      /\ UNCHANGED <<registered, TGroup, TGroupLock, todo>>
  BY SMT, <1>1 DEF StartGroupCall, Goto, TypeOK, ClientOK
<1>3. /\ ops[t] = Nil /\ ops'[t] # Nil
      /\ ops'[t].op = "join" /\ ops'[t].gid = g /\ ~ops'[t].done
      /\ \A u \in Threads : u # t => ops'[u] = ops[u]
      /\ UNCHANGED members
  BY <1>1, CallOp DEF StartGroupCall
<1>4. /\ mixed \subseteq mixed'
      /\ g \notin mixed' => /\ \A u \in Threads : pc[u] = "out" => ops[u].gid # g
                            /\ \A c \in Clients : pc[c] \notin {"outall", "delete"}
  BY DEF CallInTGroup, InCall, Closing
<1>5. ASSUME NEW u \in Threads PROVE OpOK(u)'
  BY SMT, <1>2, <1>3 DEF OpOK
<1>6. ASSUME NEW u \in Threads PROVE CallOK(u)'
  BY SMT, <1>2, <1>3, <1>4 DEF CallOK
<1>7. ASSUME NEW u \in Threads PROVE EffectOK(u)'
  BY <1>3, <1>4 DEF EffectOK
<1>8. ASSUME NEW d \in Clients PROVE ClientOK(d)'
  BY SMT, <1>2, <1>4 DEF ClientOK
<1>9. ASSUME NEW u \in Rpc PROVE RpcOK(u)'
  BY SMT, <1>2 DEF ClientOK, RpcOK, TypeOK
<1>10. ASSUME NEW h \in Gids PROVE GroupOK(h)'
  BY SMT, <1>2, <1>3, <1>4 DEF GroupOK
<1> QED
  BY <1>5, <1>6, <1>7, <1>8, <1>9, <1>10 DEF Links

\* A leave works on the registered client; one that is not mixed meets no join of
\* the group.
LEMMA CallOutTGroupKeeps ==
  ASSUME IInv, NEW t \in Threads, NEW g \in Gids,
         CallOutTGroup(t, g)
  PROVE  Links'
<1> USE ClientGroupsAssumption DEF IInv, Threads
<1>1. StartGroupCall(t, "out", g)
  BY DEF CallOutTGroup
<1>2. /\ pc[t] \in {"read", "idle"} /\ registered \in Clients /\ cl'[t] = registered
      /\ pc'[t] = "out"
      /\ \A u \in Threads : u # t => pc'[u] = pc[u]
      /\ \A u \in Threads : u # t => cl'[u] = cl[u]
      /\ UNCHANGED <<registered, TGroup, TGroupLock, todo>>
  BY SMT, <1>1 DEF StartGroupCall, Goto, TypeOK, ClientOK
<1>3. /\ ops[t] = Nil /\ ops'[t] # Nil
      /\ ops'[t].op = "out" /\ ops'[t].gid = g /\ ~ops'[t].done
      /\ \A u \in Threads : u # t => ops'[u] = ops[u]
      /\ UNCHANGED members
  BY <1>1, CallOp DEF StartGroupCall
<1>4. /\ mixed \subseteq mixed'
      /\ g \notin mixed' => \A u \in Threads : pc[u] = "join" => ops[u].gid # g
  BY DEF CallOutTGroup, InCall
<1>5. ASSUME NEW u \in Threads PROVE OpOK(u)'
  BY SMT, <1>2, <1>3 DEF OpOK
<1>6. ASSUME NEW u \in Threads PROVE CallOK(u)'
  BY SMT, <1>2, <1>3, <1>4 DEF CallOK
<1>7. ASSUME NEW u \in Threads PROVE EffectOK(u)'
  BY <1>3, <1>4 DEF EffectOK
<1>8. ASSUME NEW d \in Clients PROVE ClientOK(d)'
  BY SMT, <1>2, <1>4 DEF ClientOK
<1>9. ASSUME NEW u \in Rpc PROVE RpcOK(u)'
  BY SMT, <1>2 DEF ClientOK, RpcOK, TypeOK
<1>10. ASSUME NEW h \in Gids PROVE GroupOK(h)'
  BY SMT, <1>2, <1>3, <1>4 DEF GroupOK
<1> QED
  BY <1>5, <1>6, <1>7, <1>8, <1>9, <1>10 DEF Links

\* The join enters the group where the user is a member by now.
LEMMA InTGroupKeeps ==
  ASSUME IInv, NEW t \in Threads,
         InTGroup(t)
  PROVE  Links'
<1> USE ClientGroupsAssumption DEF IInv, Threads
<1>1. /\ ops[t] # Nil /\ ops[t].done /\ ops'[t] = Nil /\ ops[t].gid \in Gids
      /\ \A u \in Threads : u # t => ops'[u] = ops[u]
      /\ UNCHANGED members
  BY ReturnOp DEF InTGroup
<1>2. /\ pc[t] = "join" /\ cl[t] \in Clients
      /\ pc'[t] = IF t \in Clients THEN "read" ELSE "idle"
      /\ \A u \in Threads : u # t => pc'[u] = pc[u]
      /\ TGroupLock[cl[t]] = Nil
      /\ UNCHANGED <<registered, TGroupLock, todo, cl, mixed>>
  BY SMT DEF InTGroup, Rest, Goto, TypeOK, ClientOK, RpcOK
<1>3. /\ TGroup'[cl[t]] = TGroup[cl[t]] \cup {ops[t].gid}
      /\ \A d \in Clients : d # cl[t] => TGroup'[d] = TGroup[d]
  BY <1>2 DEF InTGroup, TypeOK
<1>4. ASSUME NEW u \in Threads PROVE OpOK(u)'
  BY SMT, <1>1, <1>2 DEF OpOK
<1>5. ASSUME NEW u \in Threads PROVE CallOK(u)'
  <2>1. pc'[t] \notin {"join", "out", "outall", "delete"}
    BY <1>2
  <2>2. ASSUME pc'[u] = "join", ops'[u].gid \notin mixed
        PROVE  /\ cl[u] = registered /\ pc'[cl[u]] \notin {"outall", "delete"}
               /\ \A v \in Threads : pc'[v] = "out" => ops'[v].gid # ops'[u].gid
    <3>1. u # t /\ pc[u] = "join" /\ ops'[u] = ops[u]
      BY <1>1, <1>2, <2>1, <2>2
    <3>2. cl[u] = registered /\ pc[cl[u]] \notin {"outall", "delete"}
      BY <2>2, <3>1 DEF CallOK
    <3>3. \A v \in Threads : pc'[v] = "out" => v # t /\ pc[v] = "out" /\ ops'[v] = ops[v]
      BY <1>1, <1>2, <2>1
    <3>4. pc'[cl[u]] \notin {"outall", "delete"}
      BY <1>2, <2>1, <3>1, <3>2, WorksOnClient
    <3> QED
      BY <2>2, <3>1, <3>2, <3>3, <3>4 DEF CallOK
  <2>3. ASSUME pc'[u] = "out", ops'[u].gid \notin mixed, registered # Nil, cl[u] # registered
        PROVE  ops'[u].gid \notin TGroup'[registered]
    <3>1. u # t /\ pc[u] = "out" /\ ops'[u] = ops[u] /\ registered \in Clients
      BY <1>1, <1>2, <2>1, <2>3 DEF TypeOK
    <3>2. ops[u].gid \notin TGroup[registered]
      BY <2>3, <3>1 DEF CallOK
    <3>3. ops[u].gid # ops[t].gid
      BY <1>2, <2>3, <3>1 DEF CallOK
    <3> QED
      BY <1>3, <3>1, <3>2, <3>3
  <2> QED
    BY <1>2, <2>2, <2>3 DEF CallOK
<1>6. ASSUME NEW u \in Threads PROVE EffectOK(u)'
  BY <1>1, <1>2 DEF EffectOK
<1>7. ASSUME NEW d \in Clients PROVE ClientOK(d)'
  <2>1. cl[d] = d /\ pc[d] # "idle" /\ pc'[d] # "idle"
    BY SMT, <1>2 DEF ClientOK
  <2>2. pc'[d] \in {"read", "join", "out", "outall", "delete"} <=> registered = d
    BY SMT, <1>2 DEF ClientOK
  <2>3. pc'[d] \in {"new", "outall", "delete"} => d # t /\ pc[d] = pc'[d]
    BY <1>2
  <2>4. pc[d] # "outall" \/ d # cl[t]
    BY <1>2 DEF ClientOK
  <2>5. pc[d] # "new" \/ d # cl[t]
    BY <1>2, WorksOnClient
  <2>6. pc[d] = "delete" /\ d = cl[t] => ops[t].gid \in mixed
    BY <1>2 DEF CallOK
  <2>7. /\ pc'[d] = "new" => TGroup'[d] = {}
        /\ pc'[d] = "outall" => TGroupLock[d] = d /\ todo[d] = TGroup'[d]
    <3>1. pc'[d] \in {"new", "outall"} => TGroup'[d] = TGroup[d]
      BY <1>3, <2>3, <2>4, <2>5
    <3> QED
      BY SMT, <2>3, <3>1 DEF ClientOK
  <2>8. pc'[d] = "delete" => TGroup'[d] \subseteq mixed
    <3> SUFFICES ASSUME pc'[d] = "delete" PROVE TGroup'[d] \subseteq mixed
      OBVIOUS
    <3>1. TGroup[d] \subseteq mixed
      BY <2>3 DEF ClientOK
    <3> QED
      BY <1>3, <2>3, <2>6, <3>1
  <2> QED
    BY <1>2, <2>1, <2>2, <2>7, <2>8 DEF ClientOK
<1>8. ASSUME NEW u \in Rpc PROVE RpcOK(u)'
  BY <1>2 DEF RpcOK
<1>9. ASSUME NEW h \in Gids PROVE GroupOK(h)'
  <2> SUFFICES ASSUME h \notin mixed PROVE GroupOK(h)'
    BY <1>2 DEF GroupOK
  <2>1. h = ops[t].gid => cl[t] = registered /\ Uid \in members[h]
    BY <1>1, <1>2 DEF OpOK, CallOK, EffectOK
  <2>2. registered # Nil => registered \in Clients
    BY DEF TypeOK
  <2>3. ASSUME Uid \in members[h]
        PROVE  /\ registered # Nil
               /\ \/ h \in TGroup'[registered]
                  \/ \E u \in Threads : pc'[u] = "join" /\ ops'[u].gid = h
    <3>1. registered # Nil
      BY <2>3 DEF GroupOK
    <3>2. CASE h = ops[t].gid
      BY <1>2, <1>3, <2>1, <3>1, <3>2
    <3>3. CASE h # ops[t].gid /\ h \in TGroup[registered]
      BY <1>3, <2>2, <3>1, <3>3
    <3>4. ASSUME h # ops[t].gid, NEW u \in Threads, pc[u] = "join", ops[u].gid = h
          PROVE  u # t /\ pc'[u] = "join" /\ ops'[u].gid = h
      BY <1>1, <1>2, <3>4
    <3> QED
      BY <2>3, <3>1, <3>2, <3>3, <3>4 DEF GroupOK
  <2>4. ASSUME registered # Nil, h \in TGroup'[registered], Uid \notin members[h]
        PROVE  \E u \in Threads : /\ ops'[u] # Nil /\ ops'[u].op = "out" /\ ops'[u].gid = h
                                  /\ ops'[u].done /\ cl[u] = registered
    <3>1. h # ops[t].gid /\ h \in TGroup[registered]
      BY <1>3, <2>1, <2>2, <2>4
    <3>2. PICK u \in Threads : /\ ops[u] # Nil /\ ops[u].op = "out" /\ ops[u].gid = h
                               /\ ops[u].done /\ cl[u] = registered
      BY <2>4, <3>1 DEF GroupOK
    <3> QED
      BY <1>1, <3>1, <3>2
  <2> QED
    BY <1>1, <1>2, <2>3, <2>4 DEF GroupOK
<1> QED
  BY <1>4, <1>5, <1>6, <1>7, <1>8, <1>9 DEF Links

\* The leave removes a group that the user is no member of any more.
LEMMA OutTGroupKeeps ==
  ASSUME IInv, NEW t \in Threads,
         OutTGroup(t)
  PROVE  Links'
<1> USE ClientGroupsAssumption DEF IInv, Threads
<1>1. /\ ops[t] # Nil /\ ops[t].done /\ ops'[t] = Nil /\ ops[t].gid \in Gids
      /\ \A u \in Threads : u # t => ops'[u] = ops[u]
      /\ UNCHANGED members
  BY ReturnOp DEF OutTGroup
<1>2. /\ pc[t] = "out" /\ cl[t] \in Clients
      /\ pc'[t] = IF t \in Clients THEN "read" ELSE "idle"
      /\ \A u \in Threads : u # t => pc'[u] = pc[u]
      /\ TGroupLock[cl[t]] = Nil
      /\ UNCHANGED <<registered, TGroupLock, todo, cl, mixed>>
  BY SMT DEF OutTGroup, Rest, Goto, TypeOK, ClientOK, RpcOK
<1>3. /\ TGroup'[cl[t]] = TGroup[cl[t]] \ {ops[t].gid}
      /\ \A d \in Clients : d # cl[t] => TGroup'[d] = TGroup[d]
  BY <1>2 DEF OutTGroup, TypeOK
<1>4. ASSUME NEW u \in Threads PROVE OpOK(u)'
  BY SMT, <1>1, <1>2 DEF OpOK
<1>5. ASSUME NEW u \in Threads PROVE CallOK(u)'
  <2>1. pc'[t] \notin {"join", "out", "outall", "delete"}
    BY <1>2
  <2>2. ASSUME pc'[u] = "join", ops'[u].gid \notin mixed
        PROVE  /\ cl[u] = registered /\ pc'[cl[u]] \notin {"outall", "delete"}
               /\ \A v \in Threads : pc'[v] = "out" => ops'[v].gid # ops'[u].gid
    <3>1. u # t /\ pc[u] = "join" /\ ops'[u] = ops[u]
      BY <1>1, <1>2, <2>1, <2>2
    <3>2. cl[u] = registered /\ pc[cl[u]] \notin {"outall", "delete"}
      BY <2>2, <3>1 DEF CallOK
    <3>3. \A v \in Threads : pc'[v] = "out" => v # t /\ pc[v] = "out" /\ ops'[v] = ops[v]
      BY <1>1, <1>2, <2>1
    <3>4. pc'[cl[u]] \notin {"outall", "delete"}
      BY <1>2, <2>1, <3>1, <3>2, WorksOnClient
    <3> QED
      BY <2>2, <3>1, <3>2, <3>3, <3>4 DEF CallOK
  <2>3. ASSUME pc'[u] = "out", ops'[u].gid \notin mixed, registered # Nil, cl[u] # registered
        PROVE  ops'[u].gid \notin TGroup'[registered]
    <3>1. u # t /\ pc[u] = "out" /\ ops'[u] = ops[u] /\ registered \in Clients
      BY <1>1, <1>2, <2>1, <2>3 DEF TypeOK
    <3>2. ops[u].gid \notin TGroup[registered]
      BY <2>3, <3>1 DEF CallOK
    <3> QED
      BY <1>3, <3>1, <3>2
  <2> QED
    BY <1>2, <2>2, <2>3 DEF CallOK
<1>6. ASSUME NEW u \in Threads PROVE EffectOK(u)'
  BY <1>1, <1>2 DEF EffectOK
<1>7. ASSUME NEW d \in Clients PROVE ClientOK(d)'
  BY SMT, <1>2, <1>3 DEF ClientOK
<1>8. ASSUME NEW u \in Rpc PROVE RpcOK(u)'
  BY <1>2 DEF RpcOK
<1>9. ASSUME NEW h \in Gids PROVE GroupOK(h)'
  <2> SUFFICES ASSUME h \notin mixed PROVE GroupOK(h)'
    BY <1>2 DEF GroupOK
  <2>1. h = ops[t].gid => Uid \notin members[h]
    BY <1>1, <1>2 DEF OpOK, EffectOK
  <2>2. registered # Nil => registered \in Clients
    BY DEF TypeOK
  <2>3. ASSUME NEW u \in Threads, pc[u] = "join", ops[u].gid = h
        PROVE  pc'[u] = "join" /\ ops'[u].gid = h
    BY <1>1, <1>2, <2>3
  <2>4. ASSUME Uid \in members[h]
        PROVE  /\ registered # Nil
               /\ \/ h \in TGroup'[registered]
                  \/ \E u \in Threads : pc'[u] = "join" /\ ops'[u].gid = h
    <3>1. registered # Nil /\ h # ops[t].gid
      BY <2>1, <2>4 DEF GroupOK
    <3>2. h \in TGroup[registered] => h \in TGroup'[registered]
      BY <1>3, <2>2, <3>1
    <3> QED
      BY <2>3, <2>4, <3>2 DEF GroupOK
  <2>5. ASSUME registered # Nil, h \in TGroup'[registered], Uid \notin members[h]
        PROVE  \E u \in Threads : /\ ops'[u] # Nil /\ ops'[u].op = "out" /\ ops'[u].gid = h
                                  /\ ops'[u].done /\ cl[u] = registered
    <3>1. h \in TGroup[registered]
      BY <1>3, <2>2, <2>5
    <3>2. PICK u \in Threads : /\ ops[u] # Nil /\ ops[u].op = "out" /\ ops[u].gid = h
                               /\ ops[u].done /\ cl[u] = registered
      <4>1. GroupOK(h)
        OBVIOUS
      <4> QED
        BY <2>5, <3>1, <4>1 DEF GroupOK
    <3>3. u # t
      BY <1>3, <2>5, <3>2
    <3> QED
      BY <1>1, <3>2, <3>3
  <2> QED
    BY <1>1, <1>2, <2>4, <2>5 DEF GroupOK
<1> QED
  BY <1>4, <1>5, <1>6, <1>7, <1>8, <1>9 DEF Links

\* OnClose begins: every join that is running is mixed from now on.
LEMMA OutAllTGroupKeeps ==
  ASSUME IInv, NEW c \in Clients,
         OutAllTGroup(c)
  PROVE  Links'
<1> USE ClientGroupsAssumption DEF IInv, Threads
<1>1. /\ pc[c] = "read" /\ pc'[c] = "outall"
      /\ TGroupLock'[c] = c /\ todo'[c] = TGroup[c]
      /\ \A d \in Clients : d # c => TGroupLock'[d] = TGroupLock[d] /\ todo'[d] = todo[d]
      /\ \A u \in Threads : u # c => pc'[u] = pc[u]
      /\ UNCHANGED <<members, ops, registered, TGroup, cl>>
  BY DEF OutAllTGroup, Goto, TypeOK
<1>2. /\ mixed \subseteq mixed'
      /\ \A u \in Threads : pc[u] = "join" => ops[u].gid \in mixed'
  <2>1. ASSUME NEW u \in Threads, pc[u] = "join" PROVE ops[u].gid \in Gids
    BY SMT, <2>1 DEF OpOK, TypeOK, GS!Ops
  <2> QED
    BY <2>1 DEF OutAllTGroup, InCall
<1>3. ASSUME NEW u \in Threads PROVE OpOK(u)'
  BY <1>1 DEF OpOK
<1>4. ASSUME NEW u \in Threads PROVE CallOK(u)'
  BY <1>1, <1>2 DEF CallOK
<1>5. ASSUME NEW u \in Threads PROVE EffectOK(u)'
  BY <1>1, <1>2 DEF EffectOK
<1>6. ASSUME NEW d \in Clients PROVE ClientOK(d)'
  BY SMT, <1>1, <1>2 DEF ClientOK
<1>7. ASSUME NEW u \in Rpc PROVE RpcOK(u)'
  BY <1>1 DEF RpcOK
<1>8. ASSUME NEW h \in Gids PROVE GroupOK(h)'
  BY SMT, <1>1, <1>2 DEF GroupOK
<1> QED
  BY <1>3, <1>4, <1>5, <1>6, <1>7, <1>8 DEF Links

\* OnClose leaves some group of its client.
LEMMA CallOutAllKeeps ==
  ASSUME IInv, NEW c \in Clients,
         CallOutAll(c)
  PROVE  Links'
<1> USE ClientGroupsAssumption DEF IInv, Threads
<1>1. pc[c] = "outall" /\ UNCHANGED <<registered, TGroup, TGroupLock, todo, pc, cl, mixed>>
  BY DEF CallOutAll
<1>2. PICK g \in todo[c] : CallService(c, "out", g)
  BY DEF CallOutAll
<1>3. /\ ops[c] = Nil /\ ops'[c] # Nil
      /\ ops'[c].op = "out" /\ ops'[c].gid = g /\ ~ops'[c].done
      /\ \A u \in Threads : u # c => ops'[u] = ops[u]
      /\ UNCHANGED members
  BY <1>2, CallOp DEF TypeOK
<1>4. ASSUME NEW u \in Threads PROVE OpOK(u)'
  BY <1>1, <1>3 DEF OpOK
<1>5. ASSUME NEW u \in Threads PROVE CallOK(u)'
  <2>1. \A v \in Threads : pc[v] \in {"join", "out"} => ops'[v] = ops[v]
    BY <1>1, <1>3
  <2> QED
    BY SMT, <1>1, <2>1 DEF CallOK
<1>6. ASSUME NEW u \in Threads PROVE EffectOK(u)'
  BY <1>1, <1>3 DEF EffectOK
<1>7. ASSUME NEW d \in Clients PROVE ClientOK(d)'
  BY <1>1 DEF ClientOK
<1>8. ASSUME NEW u \in Rpc PROVE RpcOK(u)'
  BY <1>1 DEF RpcOK
<1>9. ASSUME NEW h \in Gids PROVE GroupOK(h)'
  BY SMT, <1>1, <1>3 DEF GroupOK
<1> QED
  BY <1>4, <1>5, <1>6, <1>7, <1>8, <1>9 DEF Links

\* OnClose removes a group the user has left.
LEMMA OutAllNextKeeps ==
  ASSUME IInv, NEW c \in Clients,
         OutAllNext(c)
  PROVE  Links'
<1> USE ClientGroupsAssumption DEF IInv, Threads
<1>1. /\ ops[c] # Nil /\ ops[c].done /\ ops'[c] = Nil /\ ops[c].gid \in Gids
      /\ \A u \in Threads : u # c => ops'[u] = ops[u]
      /\ UNCHANGED members
  BY ReturnOp DEF OutAllNext
<1>2. /\ pc[c] = "outall" /\ UNCHANGED <<registered, TGroupLock, pc, cl, mixed>>
      /\ TGroup'[c] = TGroup[c] \ {ops[c].gid} /\ todo'[c] = todo[c] \ {ops[c].gid}
      /\ \A d \in Clients : d # c => TGroup'[d] = TGroup[d] /\ todo'[d] = todo[d]
  BY DEF OutAllNext, TypeOK
<1>3. ASSUME NEW u \in Threads PROVE OpOK(u)'
  BY SMT, <1>1, <1>2 DEF OpOK
<1>4. ASSUME NEW u \in Threads PROVE CallOK(u)'
  BY SMT, <1>1, <1>2 DEF CallOK, TypeOK
<1>5. ASSUME NEW u \in Threads PROVE EffectOK(u)'
  BY <1>1, <1>2 DEF EffectOK
<1>6. ASSUME NEW d \in Clients PROVE ClientOK(d)'
  <2>1. CASE d = c
    BY <1>2, <2>1 DEF ClientOK
  <2>2. CASE d # c
    <3>1. /\ TGroup'[d] = TGroup[d] /\ todo'[d] = todo[d]
          /\ UNCHANGED <<registered, pc, cl, TGroupLock, mixed>>
      BY <1>2, <2>2
    <3> QED
      BY SMT, <3>1 DEF ClientOK
  <2> QED
    BY <2>1, <2>2
<1>7. ASSUME NEW u \in Rpc PROVE RpcOK(u)'
  BY <1>2 DEF RpcOK
<1>8. ASSUME NEW h \in Gids PROVE GroupOK(h)'
  BY SMT, <1>1, <1>2 DEF OpOK, EffectOK, ClientOK, GroupOK
<1> QED
  BY <1>3, <1>4, <1>5, <1>6, <1>7, <1>8 DEF Links

\* OutAllTGroup ends with an empty TGroup.
LEMMA OutAllDoneKeeps ==
  ASSUME IInv, NEW c \in Clients,
         OutAllDone(c)
  PROVE  Links'
<1> USE ClientGroupsAssumption DEF IInv, Threads
<1>1. /\ pc[c] = "outall" /\ ops[c] = Nil /\ todo[c] = {}
      /\ pc'[c] = "delete"
      /\ \A d \in Clients : d # c => TGroupLock'[d] = TGroupLock[d]
      /\ \A u \in Threads : u # c => pc'[u] = pc[u]
      /\ UNCHANGED <<members, ops, registered, TGroup, todo, cl, mixed>>
  BY DEF OutAllDone, Goto, TypeOK
<1>2. ASSUME NEW u \in Threads PROVE OpOK(u)'
  BY <1>1 DEF OpOK
<1>3. ASSUME NEW u \in Threads PROVE CallOK(u)'
  BY SMT, <1>1 DEF CallOK, ClientOK
<1>4. ASSUME NEW u \in Threads PROVE EffectOK(u)'
  BY <1>1 DEF EffectOK
<1>5. ASSUME NEW d \in Clients PROVE ClientOK(d)'
  BY SMT, <1>1 DEF ClientOK
<1>6. ASSUME NEW u \in Rpc PROVE RpcOK(u)'
  BY <1>1 DEF RpcOK
<1>7. ASSUME NEW h \in Gids PROVE GroupOK(h)'
  BY SMT, <1>1 DEF GroupOK
<1> QED
  BY <1>2, <1>3, <1>4, <1>5, <1>6, <1>7 DEF Links

\* A client that is deleted leaves no membership behind.
LEMMA DelClientKeeps ==
  ASSUME IInv, NEW c \in Clients,
         DelClient(c)
  PROVE  Links'
<1> USE ClientGroupsAssumption DEF IInv, Threads
<1>1. /\ pc[c] = "delete" /\ registered = c /\ registered' = Nil
      /\ pc'[c] = "end"
      /\ \A u \in Threads : u # c => pc'[u] = pc[u]
      /\ UNCHANGED <<members, ops, TGroup, TGroupLock, todo, cl, mixed>>
  BY DEF DelClient, Goto, TypeOK, ClientOK
<1>2. ASSUME NEW u \in Threads PROVE OpOK(u)'
  BY <1>1 DEF OpOK
<1>3. ASSUME NEW u \in Threads PROVE CallOK(u)'
  BY SMT, <1>1 DEF CallOK, ClientOK
<1>4. ASSUME NEW u \in Threads PROVE EffectOK(u)'
  BY <1>1 DEF EffectOK
<1>5. ASSUME NEW d \in Clients PROVE ClientOK(d)'
  BY <1>1 DEF ClientOK
<1>6. ASSUME NEW u \in Rpc PROVE RpcOK(u)'
  BY <1>1 DEF RpcOK
<1>7. ASSUME NEW h \in Gids PROVE GroupOK(h)'
  BY SMT, <1>1 DEF CallOK, ClientOK, GroupOK
<1> QED
  BY <1>2, <1>3, <1>4, <1>5, <1>6, <1>7 DEF Links

\* A join takes effect; nobody who left the group is still on the way back.
LEMMA ServiceJoinKeeps ==
  ASSUME IInv, NEW t \in Threads,
         GS!Join(t), UNCHANGED <<registered, TGroup, TGroupLock, todo, pc, cl, mixed>>
  PROVE  Links'
<1> USE ClientGroupsAssumption DEF IInv, Threads
<1>1. ops[t] \in GS!Ops /\ ops[t] # Nil /\ ops[t].op = "join"
  BY DEF GS!Join, GS!Pending, TypeOK
<1>2. /\ ops'[t] # Nil /\ ops'[t].op = "join" /\ ops'[t].gid = ops[t].gid /\ ops'[t].done
      /\ \A u \in Threads : u # t => ops'[u] = ops[u]
  BY <1>1, DoneOp DEF GS!Join, TypeOK
<1>3. ops[t].gid \in Gids /\ ops[t].uid = Uid
  BY <1>1 DEF GS!Ops
<1>4. /\ members'[ops[t].gid] = members[ops[t].gid] \cup {Uid}
      /\ \A g \in Gids : g # ops[t].gid => members'[g] = members[g]
  BY <1>3 DEF GS!Join, TypeOK
<1>5. ASSUME NEW u \in Threads PROVE OpOK(u)'
  BY <1>1, <1>2 DEF OpOK
<1>6. ASSUME NEW u \in Threads PROVE CallOK(u)'
  BY SMT, <1>2 DEF CallOK
<1>7. ASSUME NEW u \in Threads PROVE EffectOK(u)'
  <2> SUFFICES ASSUME ops[u] # Nil, ops[u].done, ops[u].gid \notin mixed, u # t
               PROVE  EffectOK(u)'
    BY <1>1, <1>2, <1>4 DEF EffectOK
  <2>1. ops[u].op = "out" => ops[u].gid # ops[t].gid
    <3> SUFFICES ASSUME ops[u].op = "out", ops[u].gid = ops[t].gid PROVE FALSE
      OBVIOUS
    <3>1. pc[t] = "join" /\ pc[u] \in {"out", "outall"}
      BY <1>1 DEF OpOK
    <3>2. cl[t] = registered /\ pc[registered] # "outall" /\ pc[u] # "out"
      BY <3>1 DEF CallOK
    <3>3. u \in Clients /\ registered = u
      BY <3>1, <3>2 DEF ClientOK, RpcOK
    <3> QED
      BY <3>1, <3>2, <3>3
  <2>2. ops[u].gid \in Gids
    BY SMT DEF TypeOK, GS!Ops
  <2> QED
    BY SMT, <1>2, <1>4, <2>1, <2>2 DEF EffectOK
<1>8. ASSUME NEW d \in Clients PROVE ClientOK(d)'
  BY DEF ClientOK
<1>9. ASSUME NEW u \in Rpc PROVE RpcOK(u)'
  BY DEF RpcOK
<1>10. ASSUME NEW h \in Gids PROVE GroupOK(h)'
  BY SMT, <1>1, <1>2, <1>4 DEF OpOK, CallOK, ClientOK, RpcOK, GroupOK
<1> QED
  BY <1>5, <1>6, <1>7, <1>8, <1>9, <1>10 DEF Links

\* A leave takes effect; its goroutine, or nobody, has the group in TGroup.
LEMMA ServiceOutKeeps ==
  ASSUME IInv, NEW t \in Threads,
         GS!Out(t), UNCHANGED <<registered, TGroup, TGroupLock, todo, pc, cl, mixed>>
  PROVE  Links'
<1> USE ClientGroupsAssumption DEF IInv, Threads
<1>1. ops[t] \in GS!Ops /\ ops[t] # Nil /\ ops[t].op = "out"
  BY DEF GS!Out, GS!Pending, TypeOK
<1>2. /\ ops'[t] # Nil /\ ops'[t].op = "out" /\ ops'[t].gid = ops[t].gid /\ ops'[t].done
      /\ \A u \in Threads : u # t => ops'[u] = ops[u]
  BY <1>1, DoneOp DEF GS!Out, TypeOK
<1>3. ops[t].gid \in Gids /\ ops[t].uid = Uid
  BY <1>1 DEF GS!Ops
<1>4. /\ members'[ops[t].gid] = members[ops[t].gid] \ {Uid}
      /\ \A g \in Gids : g # ops[t].gid => members'[g] = members[g]
  BY <1>3 DEF GS!Out, TypeOK
<1>5. \A u \in Threads : pc[u] = "join" /\ ops[u].gid = ops[t].gid => ops[u].gid \in mixed
  BY SMT, <1>1 DEF OpOK, CallOK, ClientOK, RpcOK
<1>6. \A u \in Threads : ops[u] # Nil => ops[u].gid \in Gids
  BY DEF TypeOK, GS!Ops
<1>7. ASSUME NEW u \in Threads PROVE OpOK(u)'
  BY <1>1, <1>2 DEF OpOK
<1>8. ASSUME NEW u \in Threads PROVE CallOK(u)'
  BY SMT, <1>2 DEF CallOK
<1>9. ASSUME NEW u \in Threads PROVE EffectOK(u)'
  BY SMT, <1>2, <1>4, <1>5, <1>6 DEF OpOK, EffectOK
<1>10. ASSUME NEW d \in Clients PROVE ClientOK(d)'
  BY DEF ClientOK
<1>11. ASSUME NEW u \in Rpc PROVE RpcOK(u)'
  BY DEF RpcOK
<1>12. ASSUME NEW h \in Gids PROVE GroupOK(h)'
  BY SMT, <1>1, <1>2, <1>4 DEF OpOK, CallOK, ClientOK, RpcOK, GroupOK
<1> QED
  BY <1>7, <1>8, <1>9, <1>10, <1>11, <1>12 DEF Links

\* Leaves of a user who is in no such group take effect.
LEMMA ServiceOutAbsentKeeps ==
  ASSUME IInv, NEW T \in SUBSET Threads,
         GS!OutAbsent(T), UNCHANGED <<registered, TGroup, TGroupLock, todo, pc, cl, mixed>>
  PROVE  Links'
<1> USE ClientGroupsAssumption DEF IInv, Threads
<1>1. \A t \in T : /\ ops[t] \in GS!Ops /\ ops[t] # Nil /\ ops[t].op = "out"
                   /\ ops[t].uid \notin members[ops[t].gid]
  BY DEF GS!OutAbsent, GS!Pending, TypeOK
<1>2. \A t \in T : ops[t].uid = Uid
  BY <1>1 DEF GS!Ops
<1>3. /\ \A t \in T : /\ ops'[t] # Nil /\ ops'[t].op = "out" /\ ops'[t].gid = ops[t].gid
                      /\ ops'[t].done
      /\ \A t \in Threads : t \notin T => ops'[t] = ops[t]
      /\ UNCHANGED members
  BY <1>1, DoneOp DEF GS!OutAbsent
<1>4. ASSUME NEW u \in Threads PROVE OpOK(u)'
  BY <1>1, <1>3 DEF OpOK
<1>5. ASSUME NEW u \in Threads PROVE CallOK(u)'
  <2>1. \A v \in Threads : pc[v] \in {"join", "out"} => ops'[v].gid = ops[v].gid
    BY <1>3
  <2> QED
    BY SMT, <2>1 DEF CallOK
<1>6. ASSUME NEW u \in Threads PROVE EffectOK(u)'
  BY SMT, <1>1, <1>2, <1>3 DEF EffectOK
<1>7. ASSUME NEW d \in Clients PROVE ClientOK(d)'
  BY DEF ClientOK
<1>8. ASSUME NEW u \in Rpc PROVE RpcOK(u)'
  BY DEF RpcOK
<1>9. ASSUME NEW h \in Gids PROVE GroupOK(h)'
  BY SMT, <1>3 DEF GroupOK
<1> QED
  BY <1>4, <1>5, <1>6, <1>7, <1>8, <1>9 DEF Links

-----------------------------------------------------------------------------
\* The invariant holds in every state, however the calls overlap.
THEOREM ClientGroupsInvariant == Spec => []IInv
<1>1. Init => IInv
  <2> SUFFICES ASSUME Init PROVE IInv
    OBVIOUS
  <2> USE ClientGroupsAssumption DEF Init, GS!Init, Threads
  <2>1. TypeOK
    BY SMT DEF TypeOK
  <2>2. ASSUME NEW t \in Threads PROVE OpOK(t) /\ CallOK(t) /\ EffectOK(t)
    BY SMT DEF OpOK, CallOK, EffectOK
  <2>3. ASSUME NEW c \in Clients PROVE ClientOK(c)
    BY SMT DEF ClientOK
  <2>4. ASSUME NEW t \in Rpc PROVE RpcOK(t)
    BY SMT DEF RpcOK
  <2>5. ASSUME NEW g \in Gids PROVE GroupOK(g)
    BY SMT DEF GroupOK
  <2> QED
    BY <2>1, <2>2, <2>3, <2>4, <2>5 DEF IInv
<1>2. IInv /\ [Next]_vars => IInv'
  <2> SUFFICES ASSUME IInv, [Next]_vars PROVE Links'
    BY TypeStep DEF IInv, Links
  <2>1. CASE ServiceStep
    BY <2>1, ServiceJoinKeeps, ServiceOutKeeps, ServiceOutAbsentKeeps DEF ServiceStep
  <2>2. ASSUME NEW t \in Threads, GroupCall(t) PROVE Links'
    BY <2>2, CallInTGroupKeeps, CallOutTGroupKeeps, InTGroupKeeps, OutTGroupKeeps DEF GroupCall
  <2>3. ASSUME NEW c \in Clients, Connect(c) \/ OutAllTGroup(c) PROVE Links'
    BY <2>3, ConnectKeeps, OutAllTGroupKeeps
  <2>4. ASSUME NEW c \in Clients, CloseStep(c) PROVE Links'
    BY <2>4, CallOutAllKeeps, OutAllNextKeeps, OutAllDoneKeeps, DelClientKeeps DEF CloseStep
  <2>5. CASE UNCHANGED vars
    <3>1. ASSUME NEW t \in Threads PROVE OpOK(t)' /\ CallOK(t)' /\ EffectOK(t)'
      BY <2>5 DEF vars, IInv, OpOK, CallOK, EffectOK
    <3>2. ASSUME NEW c \in Clients PROVE ClientOK(c)'
      BY <2>5 DEF vars, IInv, ClientOK
    <3>3. ASSUME NEW t \in Rpc PROVE RpcOK(t)'
      BY <2>5 DEF vars, IInv, RpcOK
    <3>4. ASSUME NEW g \in Gids PROVE GroupOK(g)'
      BY <2>5 DEF vars, IInv, GroupOK
    <3> QED
      BY <3>1, <3>2, <3>3, <3>4 DEF Links
  <2> QED
    BY <2>1, <2>2, <2>3, <2>4, <2>5 DEF Next
<1> QED
  BY <1>1, <1>2, PTL DEF Spec

\* OnClose leaves no member behind: a user without a client and without a running
\* call is in no group, but for one of which a join overlapped a leave or an
\* OnClose.
THEOREM NoGhostMembers == Spec => []ClosedLeavesGroups
<1>1. IInv => ClosedLeavesGroups
  <2> SUFFICES ASSUME IInv, Quiet, registered = Nil, NEW g \in Gids \ mixed
               PROVE  members[g] = {}
    BY DEF ClosedLeavesGroups
  <2>1. Uid \notin members[g]
    BY DEF IInv, GroupOK
  <2>2. members[g] \subseteq {Uid}
    BY DEF IInv, TypeOK
  <2> QED
    BY <2>1, <2>2
<1> QED
  BY <1>1, ClientGroupsInvariant, PTL

\* Client.TGroup is the membership in the groups whenever no call is running, with
\* the same exception.
THEOREM MembershipsAgree == Spec => []RecordsAgree
<1>1. IInv => RecordsAgree
  <2> SUFFICES ASSUME IInv, Quiet, registered # Nil, NEW g \in Gids \ mixed
               PROVE  g \in TGroup[registered] <=> Uid \in members[g]
    BY DEF RecordsAgree
  <2>1. \A t \in Threads : ops[t] = Nil /\ pc[t] # "join"
    BY DEF IInv, OpOK, Quiet
  <2> QED
    BY <2>1 DEF IInv, GroupOK
<1> QED
  BY <1>1, ClientGroupsInvariant, PTL
=============================================================================
