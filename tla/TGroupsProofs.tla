--------------------------- MODULE TGroupsProofs ---------------------------
(***************************************************************************)
(* Temporary groups, for any number of threads, users, groups and objects: *)
(* every step keeps the types and the inductive invariant, from which      *)
(* follows that members stay reachable and empty groups go.                *)
(***************************************************************************)
EXTENDS TGroups, TLAPS

\* Leaves that Zenon cannot do name SMT.
USE Zenon

-----------------------------------------------------------------------------
(* Every step keeps the types. *)

\* Where a thread is tells the types of its call's arguments and its pointer.
LEMMA ThreadTypes ==
  ASSUME TypeOK, NEW t \in Threads, ThreadOK(t)
  PROVE  /\ pc[t] \in JoinPC \cup OutPC => call[t].gid \in Gids /\ call[t].uid \in Uids
         /\ pc[t] \in SendPC => call[t].gid \in Gids /\ call[t].uid \in Uids \cup {Nil}
         /\ pc[t] \in PtrPC => ptr[t] \in Groups
BY SMT DEF TypeOK, ThreadOK, Calls, NoCall, JoinPC, OutPC, SendPC, PtrPC

\* The calls of the group manager (UserJoinTGroup, UserOutTGroup,
\* SendMessageToTGroup) keep every variable in its type.
LEMMA ThreadStepType ==
  ASSUME IInv, NEW t \in Threads, ThreadStep(t) PROVE TypeOK'
<1> USE DEF IInv, TypeOK, tgVars, lsnVars, thrVars, hist, Goto,
        JoinPC, OutPC, SendPC, PtrPC, StateNormal, StateDeleted
<1>a. /\ pc[t] \in JoinPC \cup OutPC => call[t].gid \in Gids /\ call[t].uid \in Uids
      /\ pc[t] \in SendPC => call[t].gid \in Gids /\ call[t].uid \in Uids \cup {Nil}
      /\ pc[t] \in PtrPC => ptr[t] \in Groups
  BY ThreadTypes DEF Structure
<1>1. CASE JoinGetTGroup(t)
  BY <1>1, <1>a DEF JoinGetTGroup
<1>2. CASE JoinFoundTGroup(t)
  BY <1>a, <1>2 DEF JoinFoundTGroup
<1>3. ASSUME NEW g \in Groups, JoinNewTGroup(t, g) PROVE TypeOK'
  BY SMT, <1>a, <1>3 DEF JoinNewTGroup, StartListening
<1>4. CASE UserJoin(t)
  <2>1. Users[ptr[t]] \cup {call[t].uid} \in SUBSET Uids
    BY <1>a, <1>4 DEF UserJoin
  <2>2. Users' \in [Groups -> SUBSET Uids]
    BY ZenonT(40), <1>a, <1>4, <2>1 DEF UserJoin
  <2> QED BY <1>a, <1>4, <2>2 DEF UserJoin
<1>5. CASE OutGetTGroup(t)
  BY <1>a, <1>5 DEF OutGetTGroup
<1>6. CASE UserLeave(t)
  <2>1. Users[ptr[t]] \ {call[t].uid} \in SUBSET Uids
    BY <1>a, <1>6 DEF UserLeave
  <2>2. Users' \in [Groups -> SUBSET Uids]
    BY <1>a, <1>6, <2>1 DEF UserLeave
  <2>3. UNCHANGED <<TGroupMap, Gid, State, Send, lsn, cur, todo, call, accepted, inbox>>
    BY <1>6 DEF UserLeave
  <2>4. CASE Empty(Users'[ptr[t]])
    <3>1. /\ UsersLock' = [UsersLock EXCEPT ![ptr[t]] = t]
          /\ pc' = [pc EXCEPT ![t] = "out_delete"]
          /\ ptr' = ptr
      BY <1>6, <2>4 DEF UserLeave
    <3> QED BY <2>2, <2>3, <3>1
  <2>5. CASE ~Empty(Users'[ptr[t]])
    <3>1. /\ UsersLock' = UsersLock
          /\ pc' = [pc EXCEPT ![t] = "ret"]
          /\ ptr' = [ptr EXCEPT ![t] = Nil]
      BY <1>6, <2>5 DEF UserLeave
    <3> QED BY <2>2, <2>3, <3>1
  <2> QED BY <2>4, <2>5
<1>7. CASE LeaveDeleteTGroup(t)
  BY <1>a, <1>7 DEF LeaveDeleteTGroup, DeleteTGroup
<1>8. CASE LeaveCloseSend(t)
  BY <1>a, <1>8 DEF LeaveCloseSend, Unlock
<1>9. CASE SendGetTGroup(t)
  BY <1>a, <1>9 DEF SendGetTGroup
<1>10. CASE SendChanCheck(t)
  BY <1>a, <1>10 DEF SendChanCheck
<1>11. CASE SendChan(t)
  <2>2. CASE UNCHANGED <<Send, accepted>>
    BY <1>11, <2>2 DEF SendChan
  <2>3. CASE ~UNCHANGED <<Send, accepted>>
    <3>0. call[t].gid \in Gids /\ accepted' = [accepted EXCEPT ![call[t].gid] = @ + 1]
      BY <1>a, <1>11, <2>3 DEF SendChan
    <3>1. accepted' \in [Gids -> Nat]
      BY SMT, <3>0
    <3> DEFINE m == [gid |-> call[t].gid, n |-> accepted'[call[t].gid],
                     except |-> call[t].uid]
    <3>2. m \in Message
      BY <1>a, <1>11, <3>1 DEF SendChan, Message
    <3>3. Append(Send[ptr[t]], m) \in Seq(Message)
      BY SMT, <1>a, <1>11, <3>2 DEF SendChan
    <3>4. Send' = [Send EXCEPT ![ptr[t]] = Append(@, m)]
      BY <1>11, <2>3 DEF SendChan
    <3> HIDE DEF m
    <3>5. Send' \in [Groups -> Seq(Message)]
      BY <3>3, <3>4
    <3> QED BY <1>a, <1>11, <3>1, <3>5 DEF SendChan
  <2> QED BY <2>2, <2>3
<1> QED BY <1>1, <1>2, <1>3, <1>4, <1>5, <1>6, <1>7, <1>8, <1>9, <1>10, <1>11
        DEF ThreadStep

\* A listener goroutine (ListenSendChan, SendToUsers) keeps every variable in
\* its type, and holds a message whenever it delivers one.
LEMMA ListenerStepType ==
  ASSUME IInv, NEW g \in Groups, ListenerStep(g) PROVE TypeOK' /\ \A h \in Groups : ListenerOK(h)'
<1> USE DEF IInv, Structure, TypeOK, tgVars, lsnVars, thrVars, hist, ListenerOK
<1>1. CASE ListenReceive(g)
  <2>1. Head(Send[g]) \in Message /\ Tail(Send[g]) \in Seq(Message)
    BY SMT, <1>1 DEF ListenReceive
  <2> QED BY <1>1, <2>1 DEF ListenReceive, Received
<1>2. CASE SendToUsers(g)
  BY <1>2, ZenonT(40) DEF SendToUsers
<1>3. CASE SendToUsersDone(g)
  BY <1>3 DEF SendToUsersDone
<1>4. CASE ListenExit(g)
  BY <1>4 DEF ListenExit, DeleteTGroup
<1>5. ASSUME NEW u \in Uids, SendToUser(g, u) PROVE TypeOK' /\ \A h \in Groups : ListenerOK(h)'
  <2>1. todo[g] \ {u} \in SUBSET Uids /\ Append(inbox[u], cur[g]) \in Seq(Message)
    BY SMT, <1>5 DEF SendToUser
  <2>2. todo' \in [Groups -> SUBSET Uids] /\ inbox' \in [Uids -> Seq(Message)]
    BY <1>5, <2>1 DEF SendToUser
  <2> QED BY <1>5, <2>2 DEF SendToUser
<1> QED BY <1>1, <1>2, <1>3, <1>4, <1>5 DEF ListenerStep

\* Starting and leaving a call keeps every variable in its type.
LEMMA CallerStepType ==
  ASSUME IInv, NEW t \in Threads, CallerStep(t) PROVE TypeOK'
<1> USE DEF IInv, TypeOK, tgVars, lsnVars, thrVars, hist, Goto, JoinPC, OutPC, SendPC
<1>1. ASSUME NEW i \in Gids, NEW u \in Uids,
             CallUserJoinTGroup(t, i, u) \/ CallUserOutTGroup(t, i, u)
      PROVE  TypeOK'
  <2>1. /\ [op |-> "join", gid |-> i, uid |-> u] \in Calls
        /\ [op |-> "out", gid |-> i, uid |-> u] \in Calls
    BY DEF Calls
  <2>2. CASE CallUserJoinTGroup(t, i, u)
    BY <2>1, <2>2 DEF CallUserJoinTGroup, Start
  <2>3. CASE CallUserOutTGroup(t, i, u)
    BY <2>1, <2>3 DEF CallUserOutTGroup, Start
  <2> QED BY <1>1, <2>2, <2>3
<1>2. ASSUME NEW i \in Gids, NEW x \in Uids \cup {Nil}, CallSendMessageToTGroup(t, i, x)
      PROVE  TypeOK'
  <2>1. [op |-> "send", gid |-> i, uid |-> x] \in Calls
    BY DEF Calls
  <2> QED BY <1>2, <2>1 DEF CallSendMessageToTGroup, Start
<1>3. CASE Return(t)
  BY <1>3 DEF Return
<1> QED BY <1>1, <1>2, <1>3 DEF CallerStep

\* What the map and the threads point to.
RangeFacts ==
  /\ \A i \in Gids : TGroupMap[i] \in Groups \cup {Nil}
  /\ \A s \in Threads : ptr[s] \in Groups \cup {Nil}
  /\ \A s \in Threads : pc[s] \in PtrPC => ptr[s] \in Groups /\ call[s].gid \in Gids
  /\ \A g \in Groups : State[g] \in {StateNormal, StateDeleted}
  /\ StateNormal # StateDeleted
  /\ Nil \notin Groups /\ Nil \notin Threads

\* In every state of the invariant the manager's map and the threads' pointers
\* lead to objects of the pool.
LEMMA Ranges == IInv => RangeFacts
<1> SUFFICES ASSUME IInv PROVE RangeFacts
  OBVIOUS
<1>1. \A s \in Threads : pc[s] \in PtrPC => ptr[s] \in Groups /\ call[s].gid \in Gids
  BY ThreadTypes DEF IInv, Structure, PtrPC, JoinPC, OutPC, SendPC
<1> QED BY SMT, <1>1, TGroupsAssumption DEF IInv, RangeFacts, TypeOK, StateNormal, StateDeleted

-----------------------------------------------------------------------------
(* The steps of joins and leaves keep the structural part of the inductive   *)
(* invariant, one lemma per action.                                          *)

\* The two lookups of a join: GetTGroup, and the second one under the lock.
LEMMA JoinLookup ==
  ASSUME IInv, NEW t \in Threads, JoinGetTGroup(t) \/ JoinFoundTGroup(t)
  PROVE  Structure'
<1>r. RangeFacts BY Ranges
<1>th. \A s \in Threads : ThreadOK(s) BY DEF IInv, Structure
<1>tk. \A s \in Threads : TakedownOK(s) BY DEF IInv, Structure
<1>mp. \A i \in Gids : MapOK(i) BY DEF IInv, Structure
<1>lv. \A h \in Groups : LiveOK(h) BY DEF IInv, Structure
<1>ls. \A h \in Groups : ListenerOK(h) BY DEF IInv, Structure
<1>lk. \A h \in Groups, s \in Threads : LockOK(h, s) BY DEF IInv, Structure
<1>a. pc[t] \in {"join_get", "join_create"} /\ call[t].op = "join" /\ call[t].gid \in Gids
  BY <1>th, ThreadTypes DEF IInv, ThreadOK, JoinGetTGroup, JoinFoundTGroup, JoinPC
<1>b. /\ UNCHANGED <<TGroupMap, Gid, State, Users, UsersLock, lsn, cur, call>>
      /\ pc'[t] \in {"join_create", "join_user"}
      /\ ptr'[t] = TGroupMap[call[t].gid]
      /\ pc'[t] = "join_user" <=> ptr'[t] # Nil
      /\ \A s \in Threads \ {t} : pc'[s] = pc[s] /\ ptr'[s] = ptr[s]
  BY SMT DEF IInv, TypeOK, JoinGetTGroup, JoinFoundTGroup, Goto, tgVars, lsnVars, hist
<1>1. ASSUME NEW s \in Threads PROVE ThreadOK(s)'
  <2>1. CASE s = t
    BY SMT, <1>th, <1>mp, <1>a, <1>b, <2>1 DEF ThreadOK, MapOK, PtrPC, LockPC, JoinPC, OutPC, SendPC
  <2>2. CASE s # t
    BY SMT, <1>th, <1>b, <2>2 DEF ThreadOK
  <2> QED BY <2>1, <2>2
<1>2. ASSUME NEW s \in Threads PROVE TakedownOK(s)'
  BY SMT, <1>tk, <1>b DEF TakedownOK, LockPC
<1>3. ASSUME NEW i \in Gids PROVE MapOK(i)'
  BY <1>mp, <1>b DEF MapOK
<1>4. ASSUME NEW h \in Groups PROVE LiveOK(h)'
  BY SMT, <1>lv, <1>a, <1>b DEF LiveOK
<1>5. ASSUME NEW h \in Groups PROVE ListenerOK(h)'
  BY <1>ls, <1>b DEF ListenerOK
<1>6. ASSUME NEW h \in Groups, NEW s \in Threads PROVE LockOK(h, s)'
  BY SMT, <1>lk, <1>a, <1>b DEF LockOK, LockPC
<1>7. NoEmptyLeak'
  BY SMT, <1>a, <1>b DEF NoEmptyLeak, IInv, Structure
<1> QED BY <1>1, <1>2, <1>3, <1>4, <1>5, <1>6, <1>7 DEF Structure

\* GetOrCreateTGroup creates: the new object is nobody else's.
LEMMA JoinCreate ==
  ASSUME IInv, NEW t \in Threads, NEW g \in Groups, JoinNewTGroup(t, g)
  PROVE  Structure'
<1>r. RangeFacts BY Ranges
<1>th. \A s \in Threads : ThreadOK(s) BY DEF IInv, Structure
<1>tk. \A s \in Threads : TakedownOK(s) BY DEF IInv, Structure
<1>mp. \A i \in Gids : MapOK(i) BY DEF IInv, Structure
<1>lv. \A h \in Groups : LiveOK(h) BY DEF IInv, Structure
<1>ls. \A h \in Groups : ListenerOK(h) BY DEF IInv, Structure
<1>lk. \A h \in Groups, s \in Threads : LockOK(h, s) BY DEF IInv, Structure
<1>a. pc[t] = "join_create" /\ call[t].op = "join" /\ call[t].gid \in Gids
  BY <1>th, ThreadTypes DEF IInv, ThreadOK, JoinNewTGroup, JoinPC
<1>b. /\ \A i \in Gids : TGroupMap'[i] = IF i = call[t].gid THEN g ELSE TGroupMap[i]
      /\ \A i \in Gids : TGroupMap[i] # g
      /\ \A s \in Threads : ptr[s] # g
  BY <1>a DEF IInv, TypeOK, JoinNewTGroup, Unreferenced
<1>g. TGroupMap[call[t].gid] = Nil
  BY DEF JoinNewTGroup
<1>c. /\ Gid'[g] = call[t].gid /\ State'[g] = StateNormal /\ Users'[g] = {} /\ lsn'[g] = "recv"
      /\ \A h \in Groups \ {g} :
           Gid'[h] = Gid[h] /\ State'[h] = State[h] /\ Users'[h] = Users[h] /\ lsn'[h] = lsn[h]
      /\ UNCHANGED <<UsersLock, cur, call>>
  BY SMT DEF IInv, TypeOK, JoinNewTGroup, StartListening, hist
<1>d. /\ pc'[t] = "join_user" /\ ptr'[t] = g
      /\ \A s \in Threads \ {t} : pc'[s] = pc[s] /\ ptr'[s] = ptr[s]
  BY DEF IInv, TypeOK, JoinNewTGroup, Goto
<1>1. ASSUME NEW s \in Threads PROVE ThreadOK(s)'
  <2>1. CASE s = t
    BY <1>r, <1>a, <1>c, <1>d, <2>1 DEF ThreadOK, RangeFacts, PtrPC, LockPC, JoinPC, OutPC, SendPC
  <2>2. CASE s # t
    BY SMT, <1>r, <1>th, <1>b, <1>c, <1>d, <2>2 DEF ThreadOK, RangeFacts
  <2> QED BY <2>1, <2>2
<1>2. ASSUME NEW s \in Threads PROVE TakedownOK(s)'
  <2>1. CASE s = t
    BY <1>d, <2>1 DEF TakedownOK, LockPC
  <2>2. CASE s # t
    <3>1. pc'[s] = pc[s] /\ ptr'[s] = ptr[s] /\ ptr[s] # g /\ call' = call
      BY <1>b, <1>c, <1>d, <2>2
    <3>2. pc[s] \in LockPC =>
            /\ Users'[ptr[s]] = Users[ptr[s]]
            /\ TGroupMap'[call[s].gid] \in {g, TGroupMap[call[s].gid]}
      BY <1>r, <1>b, <1>c, <3>1 DEF RangeFacts, LockPC, PtrPC
    <3> QED BY <1>tk, <3>1, <3>2 DEF TakedownOK, LockPC
  <2> QED BY <2>1, <2>2
<1>3. ASSUME NEW i \in Gids PROVE MapOK(i)'
  <2>1. CASE i = call[t].gid
    BY <1>b, <1>c, <2>1 DEF MapOK
  <2>2. CASE i # call[t].gid
    BY SMT, <1>r, <1>mp, <1>b, <1>c, <2>2 DEF MapOK, RangeFacts
  <2> QED BY <2>1, <2>2
<1>4. ASSUME NEW h \in Groups PROVE LiveOK(h)'
  <2>1. CASE h = g
    BY <1>r, <1>a, <1>b, <1>c, <2>1 DEF LiveOK, RangeFacts
  <2>2. CASE h # g
    <3>1. CASE \E s \in Threads : pc[s] = "out_close" /\ ptr[s] = h
      BY SMT, <1>lv, <1>a, <1>c, <1>d, <2>2, <3>1 DEF LiveOK
    <3>2. CASE ~\E s \in Threads : pc[s] = "out_close" /\ ptr[s] = h
      <4>1. Gid[h] \in Gids /\ TGroupMap[Gid[h]] = h => TGroupMap'[Gid[h]] = h
        BY <1>r, <1>b, <2>2, <1>g DEF RangeFacts
      <4> QED BY SMT, <1>lv, <1>c, <2>2, <3>2, <4>1 DEF LiveOK
    <3> QED BY <3>1, <3>2
  <2> QED BY <2>1, <2>2
<1>5. ASSUME NEW h \in Groups PROVE ListenerOK(h)'
  BY <1>ls, <1>c DEF ListenerOK
<1>6. ASSUME NEW h \in Groups, NEW s \in Threads PROVE LockOK(h, s)'
  BY SMT, <1>lk, <1>a, <1>b, <1>c, <1>d DEF LockOK, LockPC
<1>7. NoEmptyLeak'
  <2> SUFFICES ASSUME NEW i \in Gids, (TGroupMap[i] # Nil /\ Users[TGroupMap[i]] = {})'
               PROVE  \E s \in Threads : (ptr[s] = TGroupMap[i] /\ pc[s] \in {"join_user", "out_delete"})'
    BY DEF NoEmptyLeak
  <2>1. CASE i = call[t].gid
    BY <1>b, <1>d, <2>1
  <2>2. CASE i # call[t].gid
    <3>1. TGroupMap[i] \in Groups \ {g} /\ Users[TGroupMap[i]] = {}
      BY SMT, <1>r, <1>b, <1>c, <2>2 DEF RangeFacts
    <3>2. PICK s \in Threads : ptr[s] = TGroupMap[i] /\ pc[s] \in {"join_user", "out_delete"}
      BY SMT, <1>r, <3>1 DEF IInv, Structure, NoEmptyLeak, RangeFacts
    <3> QED BY <1>a, <1>b, <1>d, <2>2, <3>2
  <2> QED BY <2>1, <2>2
<1> QED BY <1>1, <1>2, <1>3, <1>4, <1>5, <1>6, <1>7 DEF Structure

\* TGroup.UserJoin: it succeeds only in an object that is in the map.
LEMMA JoinUser ==
  ASSUME IInv, NEW t \in Threads, UserJoin(t)
  PROVE  Structure'
<1>r. RangeFacts BY Ranges
<1>th. \A s \in Threads : ThreadOK(s) BY DEF IInv, Structure
<1>tk. \A s \in Threads : TakedownOK(s) BY DEF IInv, Structure
<1>mp. \A i \in Gids : MapOK(i) BY DEF IInv, Structure
<1>lv. \A h \in Groups : LiveOK(h) BY DEF IInv, Structure
<1>ls. \A h \in Groups : ListenerOK(h) BY DEF IInv, Structure
<1>lk. \A h \in Groups, s \in Threads : LockOK(h, s) BY DEF IInv, Structure
<1>a. /\ pc[t] = "join_user" /\ call[t].op = "join" /\ ptr[t] \in Groups
      /\ UsersLock[ptr[t]] = Nil
  BY <1>r, <1>th DEF ThreadOK, UserJoin, WriteLockFree, RangeFacts, JoinPC, PtrPC
<1>b. /\ UNCHANGED <<TGroupMap, Gid, State, UsersLock, lsn, cur, call>>
      /\ ptr'[t] = Nil
      /\ \A s \in Threads \ {t} : pc'[s] = pc[s] /\ ptr'[s] = ptr[s]
  BY SMT DEF IInv, TypeOK, UserJoin, Goto, lsnVars, hist
<1>c. \/ State[ptr[t]] = StateDeleted /\ pc'[t] = "join_get" /\ Users' = Users
      \/ /\ State[ptr[t]] # StateDeleted /\ pc'[t] = "ret" /\ Users'[ptr[t]] # {}
         /\ \A h \in Groups \ {ptr[t]} : Users'[h] = Users[h]
  <2>1. CASE Refuses(ptr[t])
    BY <2>1 DEF IInv, TypeOK, UserJoin, Goto, Refuses
  <2>2. CASE ~Refuses(ptr[t])
    <3>1. Users' = [Users EXCEPT ![ptr[t]] = Users[ptr[t]] \cup {call[t].uid}] /\ pc'[t] = "ret"
      BY <2>2 DEF IInv, TypeOK, UserJoin, Goto
    <3>2. Users'[ptr[t]] = Users[ptr[t]] \cup {call[t].uid}
      BY <1>a, <3>1 DEF IInv, TypeOK
    <3> QED BY <1>a, <2>2, <3>1, <3>2 DEF IInv, TypeOK, Refuses
  <2> QED BY <2>1, <2>2
<1>1. ASSUME NEW s \in Threads PROVE ThreadOK(s)'
  BY SMT, <1>th, <1>a, <1>b, <1>c DEF ThreadOK, PtrPC, LockPC, JoinPC, OutPC, SendPC
<1>2. ASSUME NEW s \in Threads PROVE TakedownOK(s)'
  <2>1. CASE s = t
    BY <1>c, <2>1 DEF TakedownOK, LockPC
  <2>2. CASE s # t
    <3>1. pc[s] \in LockPC => ptr[s] # ptr[t] /\ ptr[s] \in Groups
      BY SMT, <1>r, <1>lk, <1>a DEF LockOK, RangeFacts, LockPC, PtrPC
    <3> QED BY SMT, <1>tk, <1>b, <1>c, <2>2, <3>1 DEF TakedownOK, LockPC
  <2> QED BY <2>1, <2>2
<1>3. ASSUME NEW i \in Gids PROVE MapOK(i)'
  BY <1>mp, <1>b DEF MapOK
<1>4. ASSUME NEW h \in Groups PROVE LiveOK(h)'
  <2>1. CASE h = ptr[t]
    BY SMT, <1>lv, <1>a, <1>b, <1>c, <2>1 DEF LiveOK
  <2>2. CASE h # ptr[t]
    BY SMT, <1>lv, <1>a, <1>b, <1>c, <2>2 DEF LiveOK
  <2> QED BY <2>1, <2>2
<1>5. ASSUME NEW h \in Groups PROVE ListenerOK(h)'
  BY <1>ls, <1>b DEF ListenerOK
<1>6. ASSUME NEW h \in Groups, NEW s \in Threads PROVE LockOK(h, s)'
  BY SMT, <1>r, <1>lk, <1>a, <1>b, <1>c DEF LockOK, LockPC, RangeFacts
<1>7. NoEmptyLeak'
  <2> SUFFICES ASSUME NEW i \in Gids, (TGroupMap[i] # Nil /\ Users[TGroupMap[i]] = {})'
               PROVE  \E s \in Threads : (ptr[s] = TGroupMap[i] /\ pc[s] \in {"join_user", "out_delete"})'
    BY DEF NoEmptyLeak
  <2>1. TGroupMap[i] \in Groups \ {ptr[t]} /\ Users[TGroupMap[i]] = {}
    BY SMT, <1>r, <1>mp, <1>b, <1>c DEF RangeFacts, MapOK
  <2>2. PICK s \in Threads : ptr[s] = TGroupMap[i] /\ pc[s] \in {"join_user", "out_delete"}
    BY SMT, <1>r, <2>1 DEF IInv, Structure, NoEmptyLeak, RangeFacts
  <2> QED BY <1>b, <2>1, <2>2
<1> QED BY <1>1, <1>2, <1>3, <1>4, <1>5, <1>6, <1>7 DEF Structure

\* TGroup.UserLeave: the lock is kept exactly when the group became empty.
LEMMA OutLeave ==
  ASSUME IInv, NEW t \in Threads, UserLeave(t)
  PROVE  Structure'
<1>r. RangeFacts BY Ranges
<1>th. \A s \in Threads : ThreadOK(s) BY DEF IInv, Structure
<1>tk. \A s \in Threads : TakedownOK(s) BY DEF IInv, Structure
<1>mp. \A i \in Gids : MapOK(i) BY DEF IInv, Structure
<1>lv. \A h \in Groups : LiveOK(h) BY DEF IInv, Structure
<1>ls. \A h \in Groups : ListenerOK(h) BY DEF IInv, Structure
<1>lk. \A h \in Groups, s \in Threads : LockOK(h, s) BY DEF IInv, Structure
<1>a. /\ pc[t] = "out_leave" /\ call[t].op = "out" /\ ptr[t] \in Groups
      /\ Gid[ptr[t]] = call[t].gid /\ UsersLock[ptr[t]] = Nil
  BY <1>r, <1>th DEF ThreadOK, UserLeave, WriteLockFree, RangeFacts, OutPC, PtrPC
<1>b. /\ UNCHANGED <<TGroupMap, Gid, State, lsn, cur, call>>
      /\ \A s \in Threads \ {t} : pc'[s] = pc[s] /\ ptr'[s] = ptr[s]
      /\ \A h \in Groups \ {ptr[t]} : Users'[h] = Users[h] /\ UsersLock'[h] = UsersLock[h]
      /\ Users[ptr[t]] = {} => Users'[ptr[t]] = {}
  BY SMT, <1>a DEF IInv, TypeOK, UserLeave, Goto, lsnVars, hist
<1>c. \/ /\ Users'[ptr[t]] = {} /\ UsersLock'[ptr[t]] = t
         /\ pc'[t] = "out_delete" /\ ptr'[t] = ptr[t]
      \/ /\ Users'[ptr[t]] # {} /\ UsersLock'[ptr[t]] = Nil
         /\ pc'[t] = "ret" /\ ptr'[t] = Nil
  BY SMT, <1>a DEF IInv, TypeOK, UserLeave, Goto, Empty
<1>d. \A s \in Threads : pc[s] \in LockPC => ptr[s] # ptr[t] /\ ptr[s] \in Groups
  BY SMT, <1>r, <1>lk, <1>a DEF LockOK, RangeFacts, LockPC, PtrPC
<1>1. ASSUME NEW s \in Threads PROVE ThreadOK(s)'
  BY SMT, <1>th, <1>a, <1>b, <1>c DEF ThreadOK, PtrPC, LockPC, JoinPC, OutPC, SendPC
<1>2. ASSUME NEW s \in Threads PROVE TakedownOK(s)'
  <2>1. CASE s = t
    BY <1>c, <2>1 DEF TakedownOK, LockPC
  <2>2. CASE s # t
    BY SMT, <1>tk, <1>b, <1>d, <2>2 DEF TakedownOK, LockPC
  <2> QED BY <2>1, <2>2
<1>3. ASSUME NEW i \in Gids PROVE MapOK(i)'
  BY <1>mp, <1>b DEF MapOK
<1>4. ASSUME NEW h \in Groups PROVE LiveOK(h)'
  BY SMT, <1>lv, <1>a, <1>b DEF LiveOK
<1>5. ASSUME NEW h \in Groups PROVE ListenerOK(h)'
  BY <1>ls, <1>b DEF ListenerOK
<1>6. ASSUME NEW h \in Groups, NEW s \in Threads PROVE LockOK(h, s)'
  <2>1. CASE h = ptr[t]
    BY SMT, <1>r, <1>a, <1>b, <1>c, <1>d, <2>1 DEF LockOK, LockPC, RangeFacts
  <2>2. CASE h # ptr[t]
    BY SMT, <1>r, <1>lk, <1>a, <1>b, <1>c, <2>2 DEF LockOK, LockPC, RangeFacts
  <2> QED BY <2>1, <2>2
<1>7. NoEmptyLeak'
  <2> SUFFICES ASSUME NEW i \in Gids, (TGroupMap[i] # Nil /\ Users[TGroupMap[i]] = {})'
               PROVE  \E s \in Threads : (ptr[s] = TGroupMap[i] /\ pc[s] \in {"join_user", "out_delete"})'
    BY DEF NoEmptyLeak
  <2>1. CASE TGroupMap[i] = ptr[t]
    BY <1>b, <1>c, <2>1
  <2>2. CASE TGroupMap[i] # ptr[t]
    <3>1. TGroupMap[i] \in Groups \ {ptr[t]} /\ Users[TGroupMap[i]] = {}
      BY <1>r, <1>b, <2>2 DEF RangeFacts
    <3>2. PICK s \in Threads : ptr[s] = TGroupMap[i] /\ pc[s] \in {"join_user", "out_delete"}
      BY <1>r, <3>1 DEF IInv, Structure, NoEmptyLeak, RangeFacts
    <3> QED BY <1>b, <2>2, <3>2
  <2> QED BY <2>1, <2>2
<1> QED BY <1>1, <1>2, <1>3, <1>4, <1>5, <1>6, <1>7 DEF Structure

\* TGroupManager.DeleteTGroup, called with the write lock held.
LEMMA OutDelete ==
  ASSUME IInv, NEW t \in Threads, LeaveDeleteTGroup(t)
  PROVE  Structure'
<1>r. RangeFacts BY Ranges
<1>th. \A s \in Threads : ThreadOK(s) BY DEF IInv, Structure
<1>tk. \A s \in Threads : TakedownOK(s) BY DEF IInv, Structure
<1>mp. \A i \in Gids : MapOK(i) BY DEF IInv, Structure
<1>lv. \A h \in Groups : LiveOK(h) BY DEF IInv, Structure
<1>ls. \A h \in Groups : ListenerOK(h) BY DEF IInv, Structure
<1>lk. \A h \in Groups, s \in Threads : LockOK(h, s) BY DEF IInv, Structure
<1>a. pc[t] = "out_delete" /\ ptr[t] \in Groups /\ call[t].gid \in Gids
  BY <1>r DEF LeaveDeleteTGroup, RangeFacts, PtrPC
<1>b. /\ UNCHANGED <<Gid, State, Users, UsersLock, lsn, cur, call, ptr>>
      /\ pc'[t] = "out_close"
      /\ \A s \in Threads \ {t} : pc'[s] = pc[s]
  BY DEF IInv, TypeOK, LeaveDeleteTGroup, Goto, lsnVars, hist
<1>c. \A i \in Gids :
        \/ TGroupMap[i] # ptr[t] /\ TGroupMap'[i] = TGroupMap[i]
        \/ TGroupMap[i] = ptr[t] /\ TGroupMap'[i] = Nil
  BY <1>r, <1>a, <1>mp DEF LeaveDeleteTGroup, DeleteTGroup, MapOK, RangeFacts
<1>1. ASSUME NEW s \in Threads PROVE ThreadOK(s)'
  <2>1. CASE s = t
    BY <1>th, <1>a, <1>b, <2>1 DEF ThreadOK, PtrPC, LockPC, JoinPC, OutPC, SendPC
  <2>2. CASE s # t
    BY <1>th, <1>b, <2>2 DEF ThreadOK
  <2> QED BY <2>1, <2>2
<1>2. ASSUME NEW s \in Threads PROVE TakedownOK(s)'
  <2>1. CASE s = t
    BY SMT, <1>r, <1>tk, <1>a, <1>b, <1>c, <2>1 DEF TakedownOK, LockPC, RangeFacts
  <2>2. CASE s # t
    <3>1. pc[s] = "out_close" => call[s].gid \in Gids /\ ptr[s] \in Groups
      BY <1>r DEF RangeFacts, PtrPC
    <3> QED BY SMT, <1>r, <1>tk, <1>b, <1>c, <2>2, <3>1 DEF TakedownOK, LockPC, RangeFacts
  <2> QED BY <2>1, <2>2
<1>3. ASSUME NEW i \in Gids PROVE MapOK(i)'
  BY <1>mp, <1>b, <1>c DEF MapOK
<1>4. ASSUME NEW h \in Groups PROVE LiveOK(h)'
  <2>1. CASE h = ptr[t]
    BY <1>lv, <1>b, <2>1 DEF LiveOK
  <2>2. CASE h # ptr[t]
    <3>1. Gid[h] \in Gids /\ TGroupMap[Gid[h]] = h => TGroupMap'[Gid[h]] = h
      BY <1>c, <2>2
    <3> QED BY SMT, <1>lv, <1>a, <1>b, <2>2, <3>1 DEF LiveOK
  <2> QED BY <2>1, <2>2
<1>5. ASSUME NEW h \in Groups PROVE ListenerOK(h)'
  BY <1>ls, <1>b DEF ListenerOK
<1>6. ASSUME NEW h \in Groups, NEW s \in Threads PROVE LockOK(h, s)'
  BY SMT, <1>lk, <1>a, <1>b DEF LockOK, LockPC
<1>7. NoEmptyLeak'
  <2> SUFFICES ASSUME NEW i \in Gids, (TGroupMap[i] # Nil /\ Users[TGroupMap[i]] = {})'
               PROVE  \E s \in Threads : (ptr[s] = TGroupMap[i] /\ pc[s] \in {"join_user", "out_delete"})'
    BY DEF NoEmptyLeak
  <2>1. TGroupMap[i] \in Groups \ {ptr[t]} /\ Users[TGroupMap[i]] = {} /\ TGroupMap'[i] = TGroupMap[i]
    BY <1>r, <1>b, <1>c DEF RangeFacts
  <2>2. PICK s \in Threads : ptr[s] = TGroupMap[i] /\ pc[s] \in {"join_user", "out_delete"}
    BY <1>r, <2>1 DEF IInv, Structure, NoEmptyLeak, RangeFacts
  <2> QED BY <1>b, <2>1, <2>2
<1> QED BY <1>1, <1>2, <1>3, <1>4, <1>5, <1>6, <1>7 DEF Structure

\* TGroup.CloseSend and the unlock: the object is in nobody's map any more.
LEMMA OutClose ==
  ASSUME IInv, NEW t \in Threads, LeaveCloseSend(t)
  PROVE  Structure'
<1>r. RangeFacts BY Ranges
<1>th. \A s \in Threads : ThreadOK(s) BY DEF IInv, Structure
<1>tk. \A s \in Threads : TakedownOK(s) BY DEF IInv, Structure
<1>mp. \A i \in Gids : MapOK(i) BY DEF IInv, Structure
<1>lv. \A h \in Groups : LiveOK(h) BY DEF IInv, Structure
<1>ls. \A h \in Groups : ListenerOK(h) BY DEF IInv, Structure
<1>lk. \A h \in Groups, s \in Threads : LockOK(h, s) BY DEF IInv, Structure
<1>a. /\ pc[t] = "out_close" /\ ptr[t] \in Groups /\ call[t].op = "out"
      /\ Gid[ptr[t]] = call[t].gid
  BY <1>r, <1>th DEF LeaveCloseSend, RangeFacts, ThreadOK, PtrPC, OutPC
<1>b. /\ UNCHANGED <<TGroupMap, Gid, Users, lsn, cur, call>>
      /\ pc'[t] = "ret" /\ ptr'[t] = Nil
      /\ \A s \in Threads \ {t} : pc'[s] = pc[s] /\ ptr'[s] = ptr[s]
  BY DEF IInv, TypeOK, LeaveCloseSend, Goto, lsnVars, hist
<1>c. /\ State'[ptr[t]] = StateDeleted /\ UsersLock'[ptr[t]] = Nil
      /\ \A h \in Groups \ {ptr[t]} : State'[h] = State[h] /\ UsersLock'[h] = UsersLock[h]
  BY <1>a DEF IInv, TypeOK, LeaveCloseSend, Unlock
<1>d. Users[ptr[t]] = {}
  BY <1>tk, <1>a DEF TakedownOK, LockPC
<1>f. \A i \in Gids : TGroupMap[i] # ptr[t]
  <2> SUFFICES ASSUME NEW i \in Gids, TGroupMap[i] = ptr[t] PROVE FALSE
    OBVIOUS
  <2>1. TGroupMap[i] # Nil
    BY <1>r, <1>a DEF RangeFacts
  <2>2. Gid[ptr[t]] = i
    BY <1>mp, <2>1 DEF MapOK
  <2>3. TGroupMap[call[t].gid] # ptr[t]
    BY <1>tk, <1>a DEF TakedownOK
  <2> QED
    BY <1>a, <2>2, <2>3
<1>1. ASSUME NEW s \in Threads PROVE ThreadOK(s)'
  BY SMT, <1>th, <1>a, <1>b DEF ThreadOK, PtrPC, LockPC, JoinPC, OutPC, SendPC
<1>2. ASSUME NEW s \in Threads PROVE TakedownOK(s)'
  BY <1>tk, <1>b, ZenonT(40) DEF TakedownOK, LockPC
<1>3. ASSUME NEW i \in Gids PROVE MapOK(i)'
  BY <1>r, <1>mp, <1>b, <1>c, <1>f DEF MapOK, RangeFacts
<1>4. ASSUME NEW h \in Groups PROVE LiveOK(h)'
  <2>1. CASE h = ptr[t]
    BY <1>r, <1>b, <1>c, <1>d, <2>1 DEF LiveOK, RangeFacts
  <2>2. CASE h # ptr[t]
    BY SMT, <1>lv, <1>a, <1>b, <1>c, <2>2 DEF LiveOK
  <2> QED BY <2>1, <2>2
<1>5. ASSUME NEW h \in Groups PROVE ListenerOK(h)'
  BY <1>ls, <1>b DEF ListenerOK
<1>6. ASSUME NEW h \in Groups, NEW s \in Threads PROVE LockOK(h, s)'
  <2>1. CASE h = ptr[t]
    BY SMT, <1>r, <1>lk, <1>a, <1>b, <1>c, <2>1 DEF LockOK, LockPC, RangeFacts
  <2>2. CASE h # ptr[t]
    BY SMT, <1>r, <1>lk, <1>a, <1>b, <1>c, <2>2 DEF LockOK, LockPC, RangeFacts
  <2> QED BY <2>1, <2>2
<1>7. NoEmptyLeak'
  <2> SUFFICES ASSUME NEW i \in Gids, (TGroupMap[i] # Nil /\ Users[TGroupMap[i]] = {})'
               PROVE  \E s \in Threads : (ptr[s] = TGroupMap[i] /\ pc[s] \in {"join_user", "out_delete"})'
    BY DEF NoEmptyLeak
  <2>1. PICK s \in Threads : ptr[s] = TGroupMap[i] /\ pc[s] \in {"join_user", "out_delete"}
    BY <1>b DEF IInv, Structure, NoEmptyLeak
  <2> QED BY <1>a, <1>b, <2>1
<1> QED BY <1>1, <1>2, <1>3, <1>4, <1>5, <1>6, <1>7 DEF Structure

-----------------------------------------------------------------------------
(* The other steps, and the theorems. *)

Elsewhere(l) == l \notin LockPC \cup {"join_user"}

\* A thread that neither holds a lock nor is about to join, before and after
\* its step, and leaves the objects alone, disturbs nothing.
LEMMA QuietThread ==
  ASSUME IInv, NEW t \in Threads,
         UNCHANGED <<TGroupMap, Gid, State, Users, UsersLock, lsn, cur>>,
         Elsewhere(pc[t]), Elsewhere(pc'[t]),
         \A s \in Threads \ {t} : pc'[s] = pc[s] /\ ptr'[s] = ptr[s] /\ call'[s] = call[s],
         pc'[t] = "idle" <=> call'[t].op = "none",
         pc'[t] \in JoinPC => call'[t].op = "join",
         pc'[t] \in OutPC => call'[t].op = "out",
         pc'[t] \in SendPC => call'[t].op = "send",
         pc'[t] \in PtrPC => ptr'[t] # Nil /\ Gid[ptr'[t]] = call'[t].gid,
         pc'[t] \notin PtrPC => ptr'[t] = Nil
  PROVE  Structure'
<1>th. \A s \in Threads : ThreadOK(s) BY DEF IInv, Structure
<1>tk. \A s \in Threads : TakedownOK(s) BY DEF IInv, Structure
<1>mp. \A i \in Gids : MapOK(i) BY DEF IInv, Structure
<1>lv. \A h \in Groups : LiveOK(h) BY DEF IInv, Structure
<1>ls. \A h \in Groups : ListenerOK(h) BY DEF IInv, Structure
<1>lk. \A h \in Groups, s \in Threads : LockOK(h, s) BY DEF IInv, Structure
<1>1. ASSUME NEW s \in Threads PROVE ThreadOK(s)'
  <2>1. CASE s = t BY <2>1 DEF ThreadOK
  <2>2. CASE s # t BY SMT, <1>th, <2>2 DEF ThreadOK
  <2> QED BY <2>1, <2>2
<1>2. ASSUME NEW s \in Threads PROVE TakedownOK(s)'
  BY <1>tk DEF TakedownOK, Elsewhere, LockPC
<1>3. ASSUME NEW i \in Gids PROVE MapOK(i)'
  BY <1>mp DEF MapOK
<1>4. ASSUME NEW h \in Groups PROVE LiveOK(h)'
  BY SMT, <1>lv DEF LiveOK, Elsewhere, LockPC
<1>5. ASSUME NEW h \in Groups PROVE ListenerOK(h)'
  BY <1>ls DEF ListenerOK
<1>6. ASSUME NEW h \in Groups, NEW s \in Threads PROVE LockOK(h, s)'
  BY SMT, <1>lk DEF LockOK, Elsewhere
<1>7. NoEmptyLeak'
  <2> SUFFICES ASSUME NEW i \in Gids, (TGroupMap[i] # Nil /\ Users[TGroupMap[i]] = {})'
               PROVE  \E s \in Threads : (ptr[s] = TGroupMap[i] /\ pc[s] \in {"join_user", "out_delete"})'
    BY DEF NoEmptyLeak
  <2>1. PICK s \in Threads : ptr[s] = TGroupMap[i] /\ pc[s] \in {"join_user", "out_delete"}
    BY DEF IInv, Structure, NoEmptyLeak
  <2> QED BY <2>1 DEF Elsewhere, LockPC
<1> QED BY <1>1, <1>2, <1>3, <1>4, <1>5, <1>6, <1>7 DEF Structure

\* The lookups of a leave and of a send, and SendChan.
LEMMA QuietSteps ==
  ASSUME IInv, NEW t \in Threads,
         OutGetTGroup(t) \/ SendGetTGroup(t) \/ SendChanCheck(t) \/ SendChan(t)
  PROVE  Structure'
<1> USE DEF IInv, JoinPC, OutPC, SendPC, PtrPC
<1>b. /\ pc[t] \in OutPC \cup SendPC => call[t].gid \in Gids
      /\ pc[t] \in OutPC => call[t].op = "out"
      /\ pc[t] \in SendPC => call[t].op = "send"
      /\ pc[t] \in PtrPC => ptr[t] # Nil /\ Gid[ptr[t]] = call[t].gid
  BY ThreadTypes DEF Structure, ThreadOK
<1>1. CASE OutGetTGroup(t)
  <2>1. /\ pc[t] = "out_get" /\ call' = call
        /\ ptr'[t] = TGroupMap[call[t].gid]
        /\ \/ ptr'[t] = Nil /\ pc'[t] = "ret"
           \/ ptr'[t] # Nil /\ pc'[t] = "out_leave" /\ Gid[ptr'[t]] = call[t].gid
        /\ \A s \in Threads \ {t} : pc'[s] = pc[s] /\ ptr'[s] = ptr[s]
        /\ UNCHANGED <<TGroupMap, Gid, State, Users, UsersLock, lsn, cur>>
    BY SMT, <1>b, <1>1 DEF OutGetTGroup, TypeOK, Structure, MapOK, Goto, tgVars, lsnVars
  <2> QED BY <1>b, <2>1, QuietThread DEF Elsewhere, LockPC
<1>2. CASE SendGetTGroup(t)
  <2>1. /\ pc[t] = "send_get" /\ call' = call
        /\ ptr'[t] = TGroupMap[call[t].gid]
        /\ \/ ptr'[t] = Nil /\ pc'[t] = "ret"
           \/ ptr'[t] # Nil /\ pc'[t] = "send_state" /\ Gid[ptr'[t]] = call[t].gid
        /\ \A s \in Threads \ {t} : pc'[s] = pc[s] /\ ptr'[s] = ptr[s]
        /\ UNCHANGED <<TGroupMap, Gid, State, Users, UsersLock, lsn, cur>>
    BY SMT, <1>b, <1>2 DEF SendGetTGroup, TypeOK, Structure, MapOK, Goto, tgVars, lsnVars
  <2> QED BY <1>b, <2>1, QuietThread DEF Elsewhere, LockPC
<1>3. CASE SendChanCheck(t)
  <2>1. /\ pc[t] = "send_state" /\ call' = call
        /\ \/ ptr'[t] = Nil /\ pc'[t] = "ret"
           \/ ptr'[t] = ptr[t] /\ pc'[t] = "send_push"
        /\ \A s \in Threads \ {t} : pc'[s] = pc[s] /\ ptr'[s] = ptr[s]
        /\ UNCHANGED <<TGroupMap, Gid, State, Users, UsersLock, lsn, cur>>
    BY SMT, <1>3 DEF SendChanCheck, TypeOK, Goto, tgVars, lsnVars
  <2> QED BY <1>b, <2>1, QuietThread DEF Elsewhere, LockPC
<1>4. CASE SendChan(t)
  <2>1. /\ pc[t] = "send_push" /\ call' = call /\ ptr'[t] = Nil /\ pc'[t] = "ret"
        /\ \A s \in Threads \ {t} : pc'[s] = pc[s] /\ ptr'[s] = ptr[s]
        /\ UNCHANGED <<TGroupMap, Gid, State, Users, UsersLock, lsn, cur>>
    BY ZenonT(40), <1>4 DEF SendChan, TypeOK, Goto, tgVars
  <2> QED BY <1>b, <2>1, QuietThread DEF Elsewhere, LockPC
<1> QED BY <1>1, <1>2, <1>3, <1>4

\* Calls and returns.
LEMMA CallerSteps ==
  ASSUME IInv, NEW t \in Threads, CallerStep(t)
  PROVE  Structure'
<1> USE DEF JoinPC, OutPC, SendPC, PtrPC, LockPC, Elsewhere
<1>1. ASSUME NEW c \in Calls, NEW l, Start(t, c, l),
             \/ c.op = "join" /\ l = "join_get"
             \/ c.op = "out" /\ l = "out_get"
             \/ c.op = "send" /\ l = "send_get"
      PROVE  Structure'
  <2>1. pc[t] = "idle" /\ ptr[t] = Nil
    BY <1>1 DEF Start, IInv, Structure, ThreadOK
  <2>2. /\ pc'[t] = l /\ call'[t] = c /\ ptr' = ptr
        /\ \A s \in Threads \ {t} : pc'[s] = pc[s] /\ call'[s] = call[s]
        /\ UNCHANGED <<TGroupMap, Gid, State, Users, UsersLock, lsn, cur>>
    BY <1>1 DEF Start, Goto, IInv, TypeOK, tgVars, lsnVars, hist
  <2> QED BY <1>1, <2>1, <2>2, QuietThread
<1>2. CASE Return(t)
  <2>1. pc[t] = "ret" /\ ptr[t] = Nil
    BY <1>2 DEF Return, IInv, Structure, ThreadOK
  <2>2. /\ pc'[t] = "idle" /\ call'[t].op = "none" /\ ptr' = ptr
        /\ \A s \in Threads \ {t} : pc'[s] = pc[s] /\ call'[s] = call[s]
        /\ UNCHANGED <<TGroupMap, Gid, State, Users, UsersLock, lsn, cur>>
    BY <1>2 DEF Return, Goto, IInv, TypeOK, tgVars, lsnVars, hist, NoCall
  <2> QED BY <2>1, <2>2, QuietThread
<1>3. ASSUME NEW i \in Gids, NEW u \in Uids,
             CallUserJoinTGroup(t, i, u) \/ CallUserOutTGroup(t, i, u)
      PROVE  Structure'
  <2>1. /\ [op |-> "join", gid |-> i, uid |-> u] \in Calls
        /\ [op |-> "out", gid |-> i, uid |-> u] \in Calls
    BY DEF Calls
  <2> QED BY <1>1, <1>3, <2>1 DEF CallUserJoinTGroup, CallUserOutTGroup
<1>4. ASSUME NEW i \in Gids, NEW x \in Uids \cup {Nil}, CallSendMessageToTGroup(t, i, x)
      PROVE  Structure'
  <2>1. [op |-> "send", gid |-> i, uid |-> x] \in Calls
    BY DEF Calls
  <2> QED BY <1>1, <1>4, <2>1 DEF CallSendMessageToTGroup
<1> QED BY <1>2, <1>3, <1>4 DEF CallerStep

\* The listeners: the deferred DeleteTGroup of ListenSendChan finds its object
\* gone from the map already.
LEMMA ListenerSteps ==
  ASSUME IInv, NEW g \in Groups, ListenerStep(g)
  PROVE  Structure'
<1>1. UNCHANGED <<TGroupMap, Gid, State, Users, UsersLock, pc, call, ptr>>
  <2>1. CASE ListenExit(g)
    <3>1. \A i \in Gids : TGroupMap[i] # g
      BY SMT, <2>1, Ranges, TGroupsAssumption
      DEF ListenExit, ClosedAndDrained, IInv, Structure, MapOK, RangeFacts
    <3>2. TGroupMap' = TGroupMap
      BY <2>1, <3>1 DEF ListenExit, DeleteTGroup, IInv, TypeOK
    <3> QED BY <2>1, <3>2 DEF ListenExit, thrVars
  <2>2. CASE ~ListenExit(g)
    BY <2>2 DEF ListenerStep, ListenReceive, SendToUsers, SendToUsersDone, SendToUser,
                tgVars, thrVars
  <2> QED BY <2>1, <2>2
<1>2. \A h \in Groups : ListenerOK(h)' BY ListenerStepType
<1>3. \A s \in Threads : ThreadOK(s)' /\ TakedownOK(s)'
  BY <1>1 DEF IInv, Structure, ThreadOK, TakedownOK
<1>4. \A i \in Gids : MapOK(i)'
  BY <1>1 DEF IInv, Structure, MapOK
<1>5. \A h \in Groups : LiveOK(h)' /\ \A s \in Threads : LockOK(h, s)'
  <2>1. \A h \in Groups : LiveOK(h) /\ \A s \in Threads : LockOK(h, s)
    BY DEF IInv, Structure
  <2>2. ASSUME NEW h \in Groups PROVE LiveOK(h)'
    BY <1>1, <2>1 DEF LiveOK
  <2>3. ASSUME NEW h \in Groups, NEW s \in Threads PROVE LockOK(h, s)'
    BY <1>1, <2>1 DEF LockOK
  <2> QED BY <2>2, <2>3
<1>6. NoEmptyLeak'
  BY <1>1 DEF IInv, Structure, NoEmptyLeak
<1> QED BY <1>2, <1>3, <1>4, <1>5, <1>6 DEF Structure

\* IInv is inductive: it holds initially and every step of the join, leave and
\* send calls and of the listeners keeps it.
THEOREM InductiveInvariant == Spec => []IInv
<1>1. Init => IInv
  <2> SUFFICES ASSUME Init PROVE IInv
    OBVIOUS
  <2>1. TypeOK
    BY SMT DEF Init, TypeOK, NoCall, JoinPC, OutPC, SendPC, StateDeleted
  <2>2. \A s \in Threads : ThreadOK(s) /\ TakedownOK(s)
    BY DEF Init, ThreadOK, TakedownOK, NoCall, JoinPC, OutPC, SendPC, PtrPC, LockPC
  <2>3. \A i \in Gids : MapOK(i)
    BY DEF Init, MapOK
  <2>4. \A g \in Groups : LiveOK(g) /\ ListenerOK(g)
    BY SMT DEF Init, LiveOK, ListenerOK, StateNormal, StateDeleted
  <2>5. \A g \in Groups, s \in Threads : LockOK(g, s)
    BY TGroupsAssumption DEF Init, LockOK, LockPC
  <2>6. NoEmptyLeak
    BY DEF Init, NoEmptyLeak
  <2> QED BY <2>1, <2>2, <2>3, <2>4, <2>5, <2>6 DEF IInv, Structure
<1>2. IInv /\ [Next]_vars => IInv'
  <2> SUFFICES ASSUME IInv, [Next]_vars PROVE IInv'
    OBVIOUS
  <2>1. ASSUME NEW t \in Threads, ThreadStep(t) PROVE IInv'
    <3>1. TypeOK' BY <2>1, ThreadStepType
    <3>2. Structure'
      BY <2>1, JoinLookup, JoinCreate, JoinUser, OutLeave, OutDelete, OutClose, QuietSteps
      DEF ThreadStep
    <3> QED BY <3>1, <3>2 DEF IInv
  <2>2. ASSUME NEW t \in Threads, CallerStep(t) PROVE IInv'
    BY <2>2, CallerStepType, CallerSteps DEF IInv
  <2>3. ASSUME NEW g \in Groups, ListenerStep(g) PROVE IInv'
    BY <2>3, ListenerStepType, ListenerSteps DEF IInv
  <2>4. CASE UNCHANGED vars
    <3>1. TypeOK' BY <2>4 DEF vars, IInv, TypeOK
    <3>2. \A s \in Threads : ThreadOK(s)' /\ TakedownOK(s)'
      BY <2>4 DEF vars, IInv, Structure, ThreadOK, TakedownOK
    <3>3. \A i \in Gids : MapOK(i)'
      BY <2>4 DEF vars, IInv, Structure, MapOK
    <3>4. \A h \in Groups : LiveOK(h)' /\ ListenerOK(h)'
      BY <2>4 DEF vars, IInv, Structure, LiveOK, ListenerOK
    <3>5. \A h \in Groups, s \in Threads : LockOK(h, s)'
      BY <2>4 DEF vars, IInv, Structure, LockOK
    <3>6. NoEmptyLeak'
      BY <2>4 DEF vars, IInv, Structure, NoEmptyLeak
    <3> QED BY <3>1, <3>2, <3>3, <3>4, <3>5, <3>6 DEF IInv, Structure
  <2> QED BY <2>1, <2>2, <2>3, <2>4 DEF Next
<1> QED BY <1>1, <1>2, PTL DEF Spec

\* Every variable keeps its type: no call or listener ever dereferences a nil
\* object or a missing message.
THEOREM TypeCorrect == Spec => []TypeOK
<1>1. IInv => TypeOK BY DEF IInv
<1> QED BY <1>1, InductiveInvariant, PTL

\* No user is ever left in an object the manager's map does not lead to:
\* UserJoin against UserLeave's deletion, for any number of goroutines.
THEOREM MembersStayReachable == Spec => []MembersReachable
<1>1. IInv => MembersReachable
  <2> SUFFICES ASSUME IInv, NEW g \in Groups, Users[g] # {}
               PROVE  TGroupMap[Gid[g]] = g /\ State[g] = StateNormal
    BY DEF MembersReachable
  <2>1. LiveOK(g) /\ \A t \in Threads : TakedownOK(t)
    BY DEF IInv, Structure
  <2>2. State[g] = StateNormal
    BY <2>1, Ranges DEF LiveOK, RangeFacts
  <2> QED BY <2>1, <2>2 DEF LiveOK, TakedownOK, LockPC
<1> QED BY <1>1, InductiveInvariant, PTL

\* An empty group stays in the map only while a goroutine is about to fill or
\* to delete it.
THEOREM EmptyGroupsGo == Spec => []NoEmptyLeak
<1>1. IInv => NoEmptyLeak BY DEF IInv, Structure
<1> QED BY <1>1, InductiveInvariant, PTL
=============================================================================
