------------------------- MODULE TGroupsGuarantees --------------------------
(***************************************************************************)
(* What the manager and the group objects promise, for any number of       *)
(* goroutines, users, group ids and objects and any capacity: to the       *)
(* callers, that joins and leaves are atomic (they implement               *)
(* GroupService); to a user, the messages of a group id in the order they  *)
(* were queued, also across the deletion and recreation of the group.      *)
(***************************************************************************)
EXTENDS TGroupsProofs

\* Leaves that Zenon cannot do name SMT.
USE Zenon

-----------------------------------------------------------------------------
(* The refinement of GroupService *)

\* A thread's call as the service sees it stays the same ...
LEMMA SameOp ==
  ASSUME NEW s \in Threads, call'[s] = call[s], TookEffect(s)' = TookEffect(s)
  PROVE  absOps'[s] = absOps[s]
BY DEF absOps

\* ... and a call that is none of the service's is nothing to it.
LEMMA NoOp ==
  ASSUME NEW s \in Threads, call[s].op \notin {"join", "out"}
  PROVE  absOps[s] = Nil
BY DEF absOps

\* A step that changes neither view is a stutter of the service.
LEMMA Stutters ==
  ASSUME \A s \in Threads : absOps'[s] = absOps[s],
         \A i \in Gids : absMembers'[i] = absMembers[i]
  PROVE  UNCHANGED <<absMembers, absOps>>
<1>1. absMembers' = absMembers
  BY DEF absMembers
<1>2. absOps' = absOps
  BY DEF absOps
<1> QED
  BY <1>1, <1>2

\* What the service sees of a call of its own.
LEMMA OpIs ==
  ASSUME TypeOK, NEW s \in Threads, call[s].op \in {"join", "out"}
  PROVE  /\ absOps[s] = [op |-> call[s].op, gid |-> call[s].gid, uid |-> call[s].uid,
                         done |-> TookEffect(s)]
         /\ absOps[s] # Nil /\ absOps[s].op = call[s].op
         /\ absOps[s].gid = call[s].gid /\ absOps[s].uid = call[s].uid
         /\ absOps[s].done = TookEffect(s)
<1>1. absOps[s] = [op |-> call[s].op, gid |-> call[s].gid, uid |-> call[s].uid,
                   done |-> TookEffect(s)]
  BY DEF absOps
<1>2. call[s].gid \in Gids /\ call[s].uid \in Uids /\ TookEffect(s) \in BOOLEAN
  BY SMT DEF TypeOK, Calls, NoCall, TookEffect
<1>3. absOps[s] \in GS!Ops
  BY SMT, <1>1, <1>2 DEF GS!Ops
<1> QED
  BY SMT, <1>1, <1>3, NilIsNoCall

\* A call takes effect when TookEffect turns true for it alone.
LEMMA TakesEffect ==
  ASSUME TypeOK, NEW t \in Threads, call[t].op \in {"join", "out"},
         \A s \in Threads : call'[s] = call[s],
         \A s \in Threads \ {t} : TookEffect(s)' = TookEffect(s),
         TookEffect(t)' = TRUE
  PROVE  absOps' = [absOps EXCEPT ![t] = GS!Done(@)]
<1>1. \A s \in Threads \ {t} : absOps'[s] = absOps[s]
  BY SameOp
<1>2. absOps'[t] = [op |-> call[t].op, gid |-> call[t].gid, uid |-> call[t].uid,
                    done |-> TRUE]
  BY DEF absOps
<1>3. absOps'[t] = GS!Done(absOps[t])
  BY <1>2, OpIs DEF GS!Done
<1> QED
  BY <1>1, <1>3 DEF absOps

-----------------------------------------------------------------------------
\* A step of the service, or none.
ServiceStep == [GS!Next]_<<absMembers, absOps>>

\* A thread that moves between places where its call has not taken effect, or
\* between places where it has, and changes no object, does nothing.
LEMMA QuietImplements ==
  ASSUME NEW t \in Threads, UNCHANGED <<TGroupMap, Users, call>>,
         \A s \in Threads \ {t} : pc'[s] = pc[s] /\ ptr'[s] = ptr[s],
         \/ call[t].op \notin {"join", "out"}
         \/ TookEffect(t)' = TookEffect(t)
  PROVE  ServiceStep
<1>1. \A i \in Gids : absMembers'[i] = absMembers[i]
  BY DEF absMembers
<1>2. \A s \in Threads \ {t} : absOps'[s] = absOps[s]
  BY SameOp DEF TookEffect
<1>3. absOps'[t] = absOps[t]
  BY SameOp DEF absOps
<1> QED
  BY <1>1, <1>2, <1>3, Stutters DEF ServiceStep

\* The lookups of a join, a join that has to start over, the close of a deleted
\* group, and a send take no effect for the service.
LEMMA LookupsImplement ==
  ASSUME IInv, NEW t \in Threads,
         \/ JoinGetTGroup(t) \/ JoinFoundTGroup(t)
         \/ UserJoin(t) /\ Refuses(ptr[t])
         \/ LeaveCloseSend(t)
         \/ SendGetTGroup(t) \/ SendChanCheck(t) \/ SendChan(t)
  PROVE  ServiceStep
<1> USE DEF IInv, TypeOK, Goto, tgVars, lsnVars, hist
<1>1. UNCHANGED <<TGroupMap, Users, call>>
  BY DEF JoinGetTGroup, JoinFoundTGroup, UserJoin, LeaveCloseSend, SendGetTGroup,
         SendChanCheck, SendChan
<1>2. \A s \in Threads \ {t} : pc'[s] = pc[s] /\ ptr'[s] = ptr[s]
  BY SMT DEF JoinGetTGroup, JoinFoundTGroup, UserJoin, LeaveCloseSend, SendGetTGroup,
         SendChanCheck, SendChan
<1>3. CASE SendGetTGroup(t) \/ SendChanCheck(t) \/ SendChan(t)
  <2>1. call[t].op = "send"
    BY <1>3 DEF Structure, ThreadOK, SendPC, SendGetTGroup, SendChanCheck, SendChan
  <2> QED
    BY <1>1, <1>2, <2>1, QuietImplements
<1>4. CASE JoinGetTGroup(t) \/ JoinFoundTGroup(t) \/ (UserJoin(t) /\ Refuses(ptr[t]))
  <2>1. pc[t] \in JoinPC /\ pc'[t] \in JoinPC
    BY <1>4 DEF JoinPC, JoinGetTGroup, JoinFoundTGroup, UserJoin
  <2>2. ~TookEffect(t) /\ ~TookEffect(t)'
    BY <2>1 DEF TookEffect, JoinPC
  <2> QED
    BY <1>1, <1>2, <2>2, QuietImplements DEF TookEffect
<1>5. CASE LeaveCloseSend(t)
  <2>1. pc[t] = "out_close" /\ pc'[t] = "ret"
    BY <1>5 DEF LeaveCloseSend
  <2> QED
    BY <1>1, <1>2, <2>1, QuietImplements DEF TookEffect
<1> QED
  BY <1>3, <1>4, <1>5

\* A new object has no users, and no leave holds it: the service sees nothing.
LEMMA CreateImplements ==
  ASSUME IInv, NEW t \in Threads, NEW g \in Groups, JoinNewTGroup(t, g)
  PROVE  ServiceStep
<1> USE DEF IInv, TypeOK, Goto, hist
<1>0. /\ pc[t] = "join_create" /\ pc'[t] = "join_user" /\ call' = call
      /\ call[t].gid \in Gids /\ TGroupMap[call[t].gid] = Nil
      /\ \A i \in Gids : TGroupMap[i] # g
      /\ \A s \in Threads : ptr[s] # g
      /\ \A i \in Gids : TGroupMap'[i] = IF i = call[t].gid THEN g ELSE TGroupMap[i]
      /\ \A h \in Groups : Users'[h] = IF h = g THEN {} ELSE Users[h]
      /\ \A s \in Threads \ {t} : pc'[s] = pc[s] /\ ptr'[s] = ptr[s]
  BY ThreadTypes DEF Structure, JoinNewTGroup, Unreferenced, JoinPC
<1>1. g # Nil
  BY SMT, TGroupsAssumption
<1>2. \A i \in Gids : absMembers'[i] = absMembers[i]
  BY SMT, <1>0, <1>1 DEF absMembers
<1>3. ASSUME NEW s \in Threads PROVE TookEffect(s)' = TookEffect(s)
  <2>1. pc[s] = "out_leave" => call[s].gid \in Gids /\ ptr[s] # Nil
    BY SMT, ThreadTypes, TGroupsAssumption DEF Structure, OutPC, PtrPC
  <2> QED
    BY SMT, <1>0, <2>1 DEF TookEffect
<1>4. \A s \in Threads : absOps'[s] = absOps[s]
  BY <1>0, <1>3, SameOp
<1> QED
  BY <1>2, <1>4, Stutters DEF ServiceStep

\* UserJoin takes effect: the object that accepts is the one in the map.
LEMMA JoinImplements ==
  ASSUME IInv, NEW t \in Threads, UserJoin(t), ~Refuses(ptr[t])
  PROVE  ServiceStep
<1> DEFINE g == ptr[t]
           i == call[t].gid
<1> USE DEF IInv, TypeOK, Goto
<1>0. /\ pc[t] = "join_user" /\ pc'[t] = "ret" /\ call[t].op = "join"
      /\ g \in Groups /\ g # Nil /\ i \in Gids /\ Gid[g] = i
      /\ UsersLock[g] = Nil /\ State[g] = StateNormal
      /\ UNCHANGED <<TGroupMap, call>>
      /\ \A h \in Groups : Users'[h] = IF h = g THEN Users[g] \cup {call[t].uid} ELSE Users[h]
      /\ \A s \in Threads \ {t} : pc'[s] = pc[s] /\ ptr'[s] = ptr[s]
  <2>1. pc[t] = "join_user" /\ UNCHANGED <<TGroupMap, call>> /\ pc'[t] = "ret"
        /\ UsersLock[g] = Nil /\ State[g] # StateDeleted
    BY DEF UserJoin, Refuses, WriteLockFree
  <2>2. /\ call[t].op = "join" /\ g \in Groups /\ g # Nil /\ i \in Gids /\ Gid[g] = i
    BY <2>1, ThreadTypes DEF Structure, ThreadOK, JoinPC, PtrPC
  <2>3. State[g] = StateNormal
    BY <2>1, <2>2, Ranges DEF RangeFacts
  <2>4. /\ \A h \in Groups : Users'[h] = IF h = g THEN Users[g] \cup {call[t].uid} ELSE Users[h]
        /\ \A s \in Threads \ {t} : pc'[s] = pc[s] /\ ptr'[s] = ptr[s]
    BY <2>2 DEF UserJoin
  <2> QED
    BY <2>1, <2>2, <2>3, <2>4
<1>1. TGroupMap[i] = g
  <2>1. \A s \in Threads : LockOK(g, s)
    BY <1>0 DEF Structure
  <2>2. LiveOK(g)
    BY <1>0 DEF Structure
  <2> QED
    BY SMT, <1>0, <2>1, <2>2, TGroupsAssumption DEF LockOK, LiveOK, LockPC
<1>2. \A j \in Gids : j # i => TGroupMap[j] # g
  BY SMT, <1>0 DEF Structure, MapOK
<1>3. \A j \in Gids : absMembers'[j] = IF j = i THEN absMembers[i] \cup {call[t].uid}
                                          ELSE absMembers[j]
  <2> SUFFICES ASSUME NEW j \in Gids
               PROVE  absMembers'[j] = IF j = i THEN absMembers[i] \cup {call[t].uid}
                                       ELSE absMembers[j]
    OBVIOUS
  <2>1. absMembers'[j] = IF TGroupMap[j] = Nil THEN {} ELSE Users'[TGroupMap[j]]
    BY <1>0 DEF absMembers
  <2>2. absMembers[j] = IF TGroupMap[j] = Nil THEN {} ELSE Users[TGroupMap[j]]
    BY DEF absMembers
  <2>3. TGroupMap[j] \in Groups \cup {Nil}
    OBVIOUS
  <2>4. CASE j = i
    <3>1. absMembers'[j] = Users'[g] /\ absMembers[j] = Users[g]
      BY <1>0, <1>1, <2>1, <2>2, <2>4
    <3>2. Users'[g] = Users[g] \cup {call[t].uid}
      BY <1>0
    <3> QED
      BY <2>4, <3>1, <3>2
  <2>5. CASE j # i
    <3>1. TGroupMap[j] = Nil \/ Users'[TGroupMap[j]] = Users[TGroupMap[j]]
      BY <1>0, <1>2, <2>3, <2>5
    <3> QED
      BY <2>1, <2>2, <2>5, <3>1
  <2> QED
    BY <2>4, <2>5
<1>t. TypeOK
  OBVIOUS
<1> HIDE DEF IInv, TypeOK
<1>4. ~TookEffect(t) /\ TookEffect(t)'
  BY <1>0 DEF TookEffect
<1>5. absOps' = [absOps EXCEPT ![t] = GS!Done(@)]
  <2>1. \A s \in Threads \ {t} : TookEffect(s)' = TookEffect(s)
    BY <1>0 DEF TookEffect
  <2>2. \A s \in Threads : call'[s] = call[s]
    BY <1>0
  <2>3. TookEffect(t)' = TRUE
    BY <1>0 DEF TookEffect
  <2> QED
    BY <1>0, <1>t, <2>1, <2>2, <2>3, TakesEffect
<1>6. absMembers' = [absMembers EXCEPT ![i] = @ \cup {call[t].uid}]
  BY ZenonT(40), <1>0, <1>3 DEF absMembers
<1>7. /\ absOps[t] # Nil /\ absOps[t].op = "join" /\ absOps[t].done = FALSE
      /\ absOps[t].gid = i /\ absOps[t].uid = call[t].uid
  BY <1>0, <1>t, <1>4, OpIs DEF TookEffect
<1>8. GS!Join(t)
  BY <1>5, <1>6, <1>7 DEF GS!Join, GS!Pending
<1> QED
  BY <1>8 DEF ServiceStep, GS!Next

\* A leave takes effect, or nothing happens to what the service sees: for a
\* leave that finds no group, and for UserLeave on the object in the map.
LEMMA OutImplements ==
  ASSUME IInv, NEW t \in Threads, call[t].op = "out", call[t].gid \in Gids,
         UNCHANGED <<TGroupMap, call>>,
         \A s \in Threads \ {t} : pc'[s] = pc[s] /\ ptr'[s] = ptr[s],
         ~TookEffect(t), TookEffect(t)',
         \A j \in Gids : absMembers'[j] = IF j = call[t].gid THEN absMembers[j] \ {call[t].uid}
                                           ELSE absMembers[j]
  PROVE  ServiceStep
<1> USE DEF IInv
<1>1. absOps' = [absOps EXCEPT ![t] = GS!Done(@)]
  BY SMT, TakesEffect DEF TookEffect
<1>2. absMembers' = [absMembers EXCEPT ![call[t].gid] = @ \ {call[t].uid}]
  <2> HIDE DEF IInv
  <2>1. /\ absMembers = [j \in Gids |-> absMembers[j]]
        /\ absMembers' = [j \in Gids |-> absMembers'[j]]
    BY DEF absMembers
  <2> QED
    BY <2>1
<1>3. /\ absOps[t] # Nil /\ absOps[t].op = "out" /\ absOps[t].done = FALSE
      /\ absOps[t].gid = call[t].gid /\ absOps[t].uid = call[t].uid
  BY OpIs DEF TookEffect
<1>4. GS!Out(t)
  BY <1>1, <1>2, <1>3 DEF GS!Out, GS!Pending
<1> QED
  BY <1>4 DEF ServiceStep, GS!Next

\* The lookup of a leave: without a group the leave is done, in effect.
LEMMA OutGetImplements ==
  ASSUME IInv, NEW t \in Threads, OutGetTGroup(t)
  PROVE  ServiceStep
<1> USE DEF IInv, TypeOK, Goto, tgVars
<1>0. /\ pc[t] = "out_get" /\ call[t].op = "out" /\ call[t].gid \in Gids
      /\ UNCHANGED <<TGroupMap, Users, call>>
      /\ ptr'[t] = TGroupMap[call[t].gid]
      /\ pc'[t] = IF TGroupMap[call[t].gid] = Nil THEN "ret" ELSE "out_leave"
      /\ \A s \in Threads \ {t} : pc'[s] = pc[s] /\ ptr'[s] = ptr[s]
  BY SMT, ThreadTypes DEF Structure, ThreadOK, OutGetTGroup, OutPC
<1>1. ~TookEffect(t)
  BY <1>0 DEF TookEffect
<1>2. CASE TGroupMap[call[t].gid] = Nil
  <2>1. TookEffect(t)'
    BY <1>0, <1>2 DEF TookEffect
  <2>2. \A j \in Gids : absMembers'[j] = IF j = call[t].gid THEN absMembers[j] \ {call[t].uid}
                                           ELSE absMembers[j]
    BY <1>0, <1>2 DEF absMembers
  <2> QED
    BY <1>0, <1>1, <2>1, <2>2, OutImplements
<1>3. CASE TGroupMap[call[t].gid] # Nil
  <2>1. ~TookEffect(t)'
    BY <1>0, <1>3 DEF TookEffect
  <2> QED
    BY <1>0, <1>1, <2>1, QuietImplements DEF TookEffect
<1> QED
  BY <1>2, <1>3

\* UserLeave takes effect on the object in the map; on another one, which is out
\* of the map and empty, the leave took effect when the map let go of it.
LEMMA LeaveImplements ==
  ASSUME IInv, NEW t \in Threads, UserLeave(t)
  PROVE  ServiceStep
<1> DEFINE g == ptr[t]
           i == call[t].gid
<1> USE DEF IInv, TypeOK, Goto
<1>0. /\ pc[t] = "out_leave" /\ pc'[t] \in {"out_delete", "ret"} /\ call[t].op = "out"
      /\ g \in Groups /\ g # Nil /\ i \in Gids /\ Gid[g] = i
      /\ UNCHANGED <<TGroupMap, call>>
      /\ \A h \in Groups : Users'[h] = IF h = g THEN Users[g] \ {call[t].uid} ELSE Users[h]
      /\ \A s \in Threads \ {t} : pc'[s] = pc[s] /\ ptr'[s] = ptr[s]
  <2>1. /\ pc[t] = "out_leave" /\ UNCHANGED <<TGroupMap, call>>
        /\ pc'[t] \in {"out_delete", "ret"}
        /\ \A s \in Threads \ {t} : pc'[s] = pc[s] /\ ptr'[s] = ptr[s]
    BY SMT DEF UserLeave
  <2>2. call[t].op = "out" /\ g \in Groups /\ g # Nil /\ i \in Gids /\ Gid[g] = i
    BY <2>1, ThreadTypes DEF Structure, ThreadOK, OutPC, PtrPC
  <2>3. \A h \in Groups : Users'[h] = IF h = g THEN Users[g] \ {call[t].uid} ELSE Users[h]
    BY <2>2 DEF UserLeave
  <2> QED
    BY <2>1, <2>2, <2>3
<1>1. \A j \in Gids : TGroupMap[j] = g => j = i
  BY SMT, <1>0 DEF Structure, MapOK
<1>2. TookEffect(t)'
  BY <1>0 DEF TookEffect
<1>3. ASSUME NEW j \in Gids
      PROVE  /\ absMembers'[j] = IF TGroupMap[j] = Nil THEN {} ELSE Users'[TGroupMap[j]]
             /\ absMembers[j] = IF TGroupMap[j] = Nil THEN {} ELSE Users[TGroupMap[j]]
             /\ TGroupMap[j] \in Groups \cup {Nil}
  BY <1>0 DEF absMembers
<1>3a. ASSUME NEW j \in Gids, TGroupMap[j] # g PROVE absMembers'[j] = absMembers[j]
  <2>1. CASE TGroupMap[j] = Nil
    BY <1>3, <2>1
  <2>2. CASE TGroupMap[j] \in Groups
    <3>1. Users'[TGroupMap[j]] = Users[TGroupMap[j]]
      BY <1>0, <1>3a, <2>2
    <3> QED
      BY <1>3, <3>1
  <2> QED
    BY <1>3, <2>1, <2>2
<1>4. CASE TGroupMap[i] = g
  <2>1. ~TookEffect(t)
    BY <1>0, <1>4 DEF TookEffect
  <2>2. absMembers'[i] = absMembers[i] \ {call[t].uid}
    <3>1. absMembers'[i] = Users'[g] /\ absMembers[i] = Users[g]
      BY SMT, <1>0, <1>3, <1>4
    <3>2. Users'[g] = Users[g] \ {call[t].uid}
      BY <1>0
    <3> QED
      BY <3>1, <3>2
  <2>3. ASSUME NEW j \in Gids, j # i PROVE absMembers'[j] = absMembers[j]
    BY <1>1, <1>3a, <2>3
  <2> QED
    BY <1>0, <1>2, <2>1, <2>2, <2>3, OutImplements
<1>5. CASE TGroupMap[i] # g
  <2>1. TookEffect(t)
    BY <1>0, <1>5 DEF TookEffect
  <2>2. ASSUME NEW j \in Gids PROVE absMembers'[j] = absMembers[j]
    BY <1>1, <1>3a, <1>5
  <2>3. ASSUME NEW s \in Threads PROVE TookEffect(s)' = TookEffect(s)
    BY <1>0, <1>2, <2>1 DEF TookEffect
  <2>4. \A s \in Threads : absOps'[s] = absOps[s]
    BY <1>0, <2>3, SameOp
  <2> QED
    BY <2>2, <2>4, Stutters DEF ServiceStep
<1> QED
  BY <1>4, <1>5

\* DeleteTGroup takes an empty group out of the map: all the leaves that still
\* hold the object take effect with it.
LEMMA DeleteImplements ==
  ASSUME IInv, NEW t \in Threads, LeaveDeleteTGroup(t)
  PROVE  ServiceStep
<1> DEFINE g == ptr[t]
           i == call[t].gid
           T == {s \in Threads : pc[s] = "out_leave" /\ TGroupMap[call[s].gid] = g
                                  /\ ptr[s] = g}
<1> USE DEF IInv, TypeOK, Goto
<1>0. /\ pc[t] = "out_delete" /\ pc'[t] = "out_close"
      /\ g \in Groups /\ g # Nil /\ i \in Gids /\ Gid[g] = i /\ Users[g] = {}
      /\ UNCHANGED <<Users, call, ptr>>
      /\ \A j \in Gids : TGroupMap'[j] = IF j = i /\ TGroupMap[j] = g THEN Nil ELSE TGroupMap[j]
      /\ \A s \in Threads \ {t} : pc'[s] = pc[s]
  <2>1. /\ pc[t] = "out_delete" /\ pc'[t] = "out_close" /\ UNCHANGED <<Users, call, ptr>>
        /\ \A s \in Threads \ {t} : pc'[s] = pc[s]
    BY DEF LeaveDeleteTGroup
  <2>2. g \in Groups /\ g # Nil /\ i \in Gids /\ Gid[g] = i /\ Users[g] = {}
    BY <2>1, ThreadTypes DEF Structure, ThreadOK, TakedownOK, OutPC, PtrPC, LockPC
  <2>3. \A j \in Gids : TGroupMap'[j] = IF j = i /\ TGroupMap[j] = g THEN Nil ELSE TGroupMap[j]
    BY <2>2 DEF LeaveDeleteTGroup, DeleteTGroup
  <2> QED
    BY <2>1, <2>2, <2>3
<1>1. ASSUME NEW j \in Gids PROVE absMembers'[j] = absMembers[j]
  BY <1>0 DEF absMembers
<1>2. ASSUME NEW s \in Threads, pc[s] = "out_leave"
      PROVE  /\ call[s].op = "out" /\ call[s].gid \in Gids
             /\ ptr[s] \in Groups /\ Gid[ptr[s]] = call[s].gid
  BY <1>2, ThreadTypes DEF Structure, ThreadOK, OutPC, PtrPC
<1>3. ASSUME NEW s \in Threads \ T PROVE absOps'[s] = absOps[s]
  <2>1. TookEffect(s)' = TookEffect(s)
    <3>1. CASE s = t
      BY <1>0, <3>1 DEF TookEffect
    <3>2. CASE s # t /\ pc[s] # "out_leave"
      BY <1>0, <3>2 DEF TookEffect
    <3>3. CASE s # t /\ pc[s] = "out_leave"
      <4>1. ptr[s] # Nil /\ call[s].gid \in Gids /\ ptr'[s] = ptr[s] /\ call'[s] = call[s]
            /\ pc'[s] = "out_leave"
        BY SMT, <1>0, <1>2, <3>3, TGroupsAssumption
      <4>2. TGroupMap'[call[s].gid] # ptr[s] <=> TGroupMap[call[s].gid] # ptr[s]
        BY <1>0, <3>3, <4>1
      <4> QED
        BY <3>3, <4>1, <4>2 DEF TookEffect
    <3> QED
      BY <3>1, <3>2, <3>3
  <2> QED
    BY <1>0, <2>1, SameOp
<1>4. ASSUME NEW s \in T
      PROVE  /\ absOps[s] # Nil /\ absOps[s].op = "out" /\ absOps[s].done = FALSE
             /\ absOps[s].gid \in Gids /\ absOps[s].uid \notin absMembers[absOps[s].gid]
             /\ absOps'[s] = GS!Done(absOps[s])
  <2>1. /\ call[s].op = "out" /\ call[s].gid = i /\ s # t /\ pc'[s] = "out_leave"
        /\ TGroupMap[i] = g
    BY <1>0, <1>2, ZenonT(40)
  <2>2. TookEffect(s) = FALSE
    BY <2>1 DEF TookEffect
  <2>3. TookEffect(s)' = TRUE
    BY <1>0, <2>1, TGroupsAssumption DEF TookEffect
  <2>4. /\ absOps[s] # Nil /\ absOps[s].op = "out" /\ absOps[s].done = FALSE
        /\ absOps[s].gid = i /\ absOps[s].uid = call[s].uid
    BY <2>1, <2>2, OpIs
  <2>5. absMembers[i] = {}
    BY <1>0, <2>1 DEF absMembers
  <2>6. absOps'[s] = [op |-> "out", gid |-> i, uid |-> call[s].uid, done |-> TRUE]
    BY <1>0, <2>1, <2>3 DEF absOps
  <2>7. absOps'[s] = GS!Done(absOps[s])
    BY <2>4, <2>6 DEF GS!Done
  <2> QED
    BY <1>0, <2>4, <2>5, <2>7
<1>5. GS!OutAbsent(T)
  <2>1. absOps' = [s \in Threads |-> IF s \in T THEN GS!Done(absOps[s]) ELSE absOps[s]]
    <3> HIDE DEF T
    <3> QED
      BY <1>3, <1>4 DEF absOps
  <2>2. absMembers' = absMembers
    BY <1>1 DEF absMembers
  <2> HIDE DEF T
  <2> QED
    BY <1>4, <2>1, <2>2 DEF GS!OutAbsent, GS!Pending
<1> QED
  BY <1>5 DEF ServiceStep, GS!Next

\* The listeners never change what the service sees: the deferred DeleteTGroup
\* finds its object out of the map.
LEMMA ListenerImplements ==
  ASSUME IInv, NEW g \in Groups, ListenerStep(g)
  PROVE  ServiceStep
<1>1. UNCHANGED <<TGroupMap, Users, pc, call, ptr>>
  <2>1. CASE ListenExit(g)
    <3>1. \A j \in Gids : TGroupMap[j] # g
      <4>1. State[g] = StateDeleted
        BY <2>1 DEF ListenExit, ClosedAndDrained
      <4>2. \A j \in Gids : MapOK(j)
        BY DEF IInv, Structure
      <4> QED
        BY SMT, <4>1, <4>2, TGroupsAssumption DEF MapOK, StateDeleted, StateNormal
    <3>2. TGroupMap' = TGroupMap
      BY <2>1, <3>1 DEF ListenExit, DeleteTGroup, IInv, TypeOK
    <3> QED
      BY <2>1, <3>2 DEF ListenExit, thrVars
  <2> QED
    BY <2>1 DEF ListenerStep, ListenReceive, SendToUsers, SendToUsersDone, SendToUser,
                tgVars, thrVars
<1>2. \A s \in Threads : absOps'[s] = absOps[s]
  BY <1>1, SameOp DEF TookEffect
<1>3. \A i \in Gids : absMembers'[i] = absMembers[i]
  BY <1>1 DEF absMembers
<1> QED
  BY <1>2, <1>3, Stutters DEF ServiceStep

\* Calls and returns are the service's; those of a send are nothing to it.
LEMMA CallerImplements ==
  ASSUME IInv, NEW t \in Threads, CallerStep(t)
  PROVE  ServiceStep
<1>t. /\ TypeOK /\ Structure
      /\ pc \in [Threads -> {"idle", "ret"} \cup JoinPC \cup OutPC \cup SendPC]
      /\ call \in [Threads -> Calls \cup {NoCall}]
  BY DEF IInv, TypeOK
<1> USE DEF Goto
<1>0. /\ UNCHANGED <<TGroupMap, Users, ptr>>
      /\ \A s \in Threads \ {t} : pc'[s] = pc[s] /\ call'[s] = call[s]
  BY <1>t DEF CallerStep, CallUserJoinTGroup, CallUserOutTGroup, CallSendMessageToTGroup,
         Start, Return, tgVars
<1>1. absMembers' = absMembers
  BY <1>0 DEF absMembers
<1>2. \A s \in Threads \ {t} : absOps'[s] = absOps[s]
  BY <1>0, SameOp DEF TookEffect
<1>3. ASSUME NEW i \in Gids, NEW u \in Uids,
             CallUserJoinTGroup(t, i, u) \/ CallUserOutTGroup(t, i, u)
      PROVE  ServiceStep
  <2>1. PICK o \in {"join", "out"} :
          /\ call'[t] = [op |-> o, gid |-> i, uid |-> u]
          /\ pc[t] = "idle" /\ pc'[t] \in {"join_get", "out_get"}
    BY <1>t, <1>3 DEF CallUserJoinTGroup, CallUserOutTGroup, Start
  <2>2. absOps[t] = Nil
    BY <1>t, <2>1, NoOp DEF Structure, ThreadOK
  <2>3. TookEffect(t)' = FALSE
    BY <2>1 DEF TookEffect
  <2>4. absOps'[t] = [op |-> o, gid |-> i, uid |-> u, done |-> FALSE]
    <3>0. \A r : r = [op |-> o, gid |-> i, uid |-> u] => r.op = o /\ r.gid = i /\ r.uid = u
      BY SMT
    <3>1. call'[t].op = o /\ call'[t].gid = i /\ call'[t].uid = u
      BY <2>1, <3>0, Zenon
    <3>2. absOps'[t] = [op |-> call'[t].op, gid |-> call'[t].gid, uid |-> call'[t].uid,
                        done |-> TookEffect(t)']
      BY <3>1 DEF absOps
    <3> QED
      BY <2>3, <3>1, <3>2
  <2>5. absOps'[t] \in GS!Ops /\ ~absOps'[t].done
    <3>1. [op |-> o, gid |-> i, uid |-> u, done |-> FALSE] \in GS!Ops
      BY DEF GS!Ops
    <3>2. [op |-> o, gid |-> i, uid |-> u, done |-> FALSE].done = FALSE
      OBVIOUS
    <3>3. absOps'[t] \in GS!Ops
      BY <2>4, <3>1, Zenon
    <3>4. absOps'[t].done = FALSE
      BY <2>4, <3>2, Zenon
    <3> QED
      BY <3>3, <3>4
  <2>6. absOps' = [absOps EXCEPT ![t] = absOps'[t]]
    BY ZenonT(40), <1>2 DEF absOps
  <2>7. GS!Call(t)
    BY <1>1, <2>2, <2>5, <2>6 DEF GS!Call
  <2> QED
    BY <2>7 DEF ServiceStep, GS!Next
<1>4. ASSUME NEW i \in Gids, NEW x \in Uids \cup {Nil}, CallSendMessageToTGroup(t, i, x)
      PROVE  ServiceStep
  <2>1. pc[t] = "idle" /\ call'[t].op = "send"
    BY <1>t, <1>4 DEF CallSendMessageToTGroup, Start
  <2>2. absOps[t] = Nil /\ absOps'[t] = Nil
    BY <1>t, <2>1 DEF Structure, ThreadOK, absOps
  <2> QED
    BY <1>1, <1>2, <2>2, Stutters DEF ServiceStep
<1>5. CASE Return(t)
  <2>1. pc[t] = "ret" /\ call'[t] = NoCall
    BY <1>t, <1>5 DEF Return
  <2>2. absOps'[t] = Nil
    <3>1. call'[t].op \notin {"join", "out"}
      BY SMT, <2>1 DEF NoCall
    <3> QED
      BY <3>1 DEF absOps
  <2>3. CASE call[t].op \in {"join", "out"}
    <3>1. absOps[t] # Nil /\ absOps[t].done = TRUE
      BY <1>t, <2>1, <2>3, OpIs DEF TookEffect
    <3>2. absOps' = [absOps EXCEPT ![t] = Nil]
      BY <1>2, <2>2 DEF absOps
    <3>3. GS!Return(t)
      BY <1>1, <3>1, <3>2 DEF GS!Return
    <3> QED
      BY <3>3 DEF ServiceStep, GS!Next
  <2>4. CASE call[t].op \notin {"join", "out"}
    <3>1. absOps[t] = Nil
      BY <2>4, NoOp
    <3> QED
      BY <1>1, <1>2, <2>2, <3>1, Stutters DEF ServiceStep
  <2> QED
    BY <2>3, <2>4
<1> QED
  BY <1>3, <1>4, <1>5 DEF CallerStep

-----------------------------------------------------------------------------
\* UserJoinTGroup and UserOutTGroup are atomic for their callers: every behaviour
\* of the manager, the objects, their locks and listeners is one of GroupService.
THEOREM GroupsImplementService == Spec => ImplementsGroupService
<1>1. Init => GS!Init
  BY SMT DEF Init, GS!Init, absMembers, absOps, NoCall
<1>2. IInv /\ [Next]_vars => [GS!Next]_<<absMembers, absOps>>
  <2> SUFFICES ASSUME IInv, [Next]_vars PROVE ServiceStep
    BY DEF ServiceStep
  <2>1. ASSUME NEW t \in Threads, ThreadStep(t) PROVE ServiceStep
    BY <2>1, LookupsImplement, CreateImplements, JoinImplements, OutGetImplements,
       LeaveImplements, DeleteImplements
    DEF ThreadStep
  <2>2. ASSUME NEW t \in Threads, CallerStep(t) PROVE ServiceStep
    BY <2>2, CallerImplements
  <2>3. ASSUME NEW g \in Groups, ListenerStep(g) PROVE ServiceStep
    BY <2>3, ListenerImplements
  <2>4. CASE UNCHANGED vars
    <3>1. \A s \in Threads : absOps'[s] = absOps[s]
      BY <2>4, SameOp DEF vars, TookEffect
    <3>2. \A i \in Gids : absMembers'[i] = absMembers[i]
      BY <2>4 DEF vars, absMembers
    <3> QED
      BY <3>1, <3>2, Stutters DEF ServiceStep
  <2> QED
    BY <2>1, <2>2, <2>3, <2>4 DEF Next
<1> QED
  BY <1>1, <1>2, InductiveInvariant, PTL DEF Spec, ImplementsGroupService, GS!Spec

-----------------------------------------------------------------------------
(* The order of messages *)

\* What a live object still has to hand over is numbered in order.
QueueOK(g) ==
  State[g] = StateNormal =>
    /\ \A j \in 1..Len(Send[g]) :
         Send[g][j].gid = Gid[g] /\ Send[g][j].n <= accepted[Gid[g]]
    /\ \A j, k \in 1..Len(Send[g]) : j < k => Send[g][j].n < Send[g][k].n
    /\ lsn[g] \in {"lock", "deliver"} =>
         /\ cur[g].gid = Gid[g] /\ cur[g].n <= accepted[Gid[g]]
         /\ \A j \in 1..Len(Send[g]) : cur[g].n < Send[g][j].n

\* Nobody takes a group down while its listener delivers.
DeliverOK(g) == lsn[g] = "deliver" => UsersLock[g] = Nil /\ State[g] = StateNormal

\* What the object in the map still has to hand over to a user is newer than
\* what the user has.
FreshOK(i, u) ==
  LET g == TGroupMap[i] IN
  g # Nil =>
    \A x \in 1..Len(inbox[u]) :
      inbox[u][x].gid = i =>
        /\ \A j \in 1..Len(Send[g]) : inbox[u][x].n < Send[g][j].n
        /\ lsn[g] = "lock" \/ (lsn[g] = "deliver" /\ u \in todo[g]) => inbox[u][x].n < cur[g].n

BoundOK(u) == \A x \in 1..Len(inbox[u]) : inbox[u][x].n <= accepted[inbox[u][x].gid]

OrderInv ==
  /\ \A g \in Groups : QueueOK(g) /\ DeliverOK(g)
  /\ \A i \in Gids, u \in Uids : FreshOK(i, u)
  /\ \A u \in Uids : BoundOK(u)
  /\ InOrder

\* What a step on another object than the one in the map leaves as it was.
LEMMA FreshStays ==
  ASSUME NEW i \in Gids, NEW u \in Uids, FreshOK(i, u), NEW g, g = TGroupMap[i],
         TGroupMap'[i] = g, inbox'[u] = inbox[u], Send'[g] = Send[g],
         lsn'[g] = lsn[g], cur'[g] = cur[g], todo'[g] = todo[g]
  PROVE  FreshOK(i, u)'
BY DEF FreshOK

\* A step that leaves the channels, the listeners and the users' messages alone,
\* and at most takes groups out of the map, keeps the order.
LEMMA QuietOrder ==
  ASSUME OrderInv, UNCHANGED <<Gid, Send, lsn, cur, todo, accepted, inbox>>,
         \A i \in Gids : TGroupMap'[i] \in {TGroupMap[i], Nil},
         \A g \in Groups : State'[g] = StateNormal => State[g] = StateNormal,
         \A g \in Groups : lsn[g] = "deliver" => UsersLock'[g] = UsersLock[g] /\ State'[g] = State[g]
  PROVE  OrderInv'
<1>1. ASSUME NEW g \in Groups PROVE QueueOK(g)'
  BY DEF OrderInv, QueueOK
<1>2. ASSUME NEW g \in Groups PROVE DeliverOK(g)'
  BY DEF OrderInv, DeliverOK
<1>3. ASSUME NEW i \in Gids, NEW u \in Uids PROVE FreshOK(i, u)'
  BY SMT DEF OrderInv, FreshOK
<1>4. ASSUME NEW u \in Uids PROVE BoundOK(u)'
  BY DEF OrderInv, BoundOK
<1>5. InOrder'
  BY DEF OrderInv, InOrder
<1> QED
  BY <1>1, <1>2, <1>3, <1>4, <1>5 DEF OrderInv

\* The threads' steps but for creation and SendChan are such steps: a deletion
\* holds the write lock, which a delivering listener excludes.
LEMMA ThreadsKeepOrder ==
  ASSUME IInv, OrderInv, NEW t \in Threads,
         ThreadStep(t) \/ CallerStep(t), ~SendChan(t), ~\E g \in Groups : JoinNewTGroup(t, g)
  PROVE  OrderInv'
<1> USE DEF IInv, TypeOK
<1>1. CASE CallerStep(t)
  BY <1>1, QuietOrder
  DEF CallerStep, CallUserJoinTGroup, CallUserOutTGroup, CallSendMessageToTGroup, Start,
      Return, tgVars, lsnVars, hist
<1>2. CASE JoinGetTGroup(t) \/ JoinFoundTGroup(t) \/ UserJoin(t) \/ OutGetTGroup(t)
           \/ SendGetTGroup(t) \/ SendChanCheck(t)
  BY <1>2, QuietOrder
  DEF JoinGetTGroup, JoinFoundTGroup, UserJoin, OutGetTGroup, SendGetTGroup, SendChanCheck,
      tgVars, lsnVars, hist
<1>3. CASE UserLeave(t)
  <2>1. ptr[t] \in Groups
    BY <1>3, ThreadTypes DEF UserLeave, Structure, OutPC, PtrPC
  <2>2. lsn[ptr[t]] # "deliver"
    BY <1>3 DEF UserLeave, WriteLockFree, ReadLocked
  <2>3. \A g \in Groups : lsn[g] = "deliver" => UsersLock'[g] = UsersLock[g]
    BY <1>3, <2>1, <2>2 DEF UserLeave
  <2> QED
    BY <1>3, <2>3, QuietOrder DEF UserLeave, lsnVars, hist
<1>4. CASE LeaveDeleteTGroup(t)
  <2>1. \A i \in Gids : TGroupMap'[i] \in {TGroupMap[i], Nil}
    BY <1>4 DEF LeaveDeleteTGroup, DeleteTGroup
  <2> QED
    BY <1>4, <2>1, QuietOrder DEF LeaveDeleteTGroup, lsnVars, hist
<1>5. CASE LeaveCloseSend(t)
  <2>1. ptr[t] \in Groups /\ pc[t] = "out_close"
    BY <1>5, ThreadTypes DEF LeaveCloseSend, Structure, OutPC, PtrPC
  <2>2. UsersLock[ptr[t]] = t
    BY <2>1 DEF Structure, LockOK, LockPC
  <2>3. lsn[ptr[t]] # "deliver"
    BY SMT, <2>1, <2>2, TGroupsAssumption DEF OrderInv, DeliverOK
  <2>4. \A g \in Groups : lsn[g] = "deliver" => UsersLock'[g] = UsersLock[g] /\ State'[g] = State[g]
    BY <1>5, <2>1, <2>3 DEF LeaveCloseSend, Unlock
  <2>5. \A g \in Groups : State'[g] = StateNormal => State[g] = StateNormal
    BY <1>5, <2>1 DEF LeaveCloseSend, StateNormal, StateDeleted
  <2> QED
    BY <1>5, <2>4, <2>5, QuietOrder DEF LeaveCloseSend, lsnVars, hist
<1> QED
  BY <1>1, <1>2, <1>3, <1>4, <1>5 DEF ThreadStep

\* A new object has nothing to hand over.
LEMMA CreationKeepsOrder ==
  ASSUME IInv, OrderInv, NEW t \in Threads, NEW g \in Groups, JoinNewTGroup(t, g)
  PROVE  OrderInv'
<1> USE DEF IInv, TypeOK
<1>0. /\ UNCHANGED <<UsersLock, cur, todo, accepted, inbox>>
      /\ Len(Send'[g]) = 0 /\ lsn'[g] = "recv"
      /\ \A h \in Groups \ {g} : /\ Gid'[h] = Gid[h] /\ State'[h] = State[h]
                                 /\ Send'[h] = Send[h] /\ lsn'[h] = lsn[h]
      /\ \A i \in Gids : TGroupMap'[i] \in {TGroupMap[i], g}
      /\ \A i \in Gids : TGroupMap[i] # g
  BY DEF JoinNewTGroup, Unreferenced, StartListening, hist
<1>1. ASSUME NEW h \in Groups PROVE QueueOK(h)' /\ DeliverOK(h)'
  <2>1. CASE h = g
    BY SMT, <1>0, <2>1 DEF QueueOK, DeliverOK
  <2>2. CASE h # g
    BY SMT, <1>0, <2>2 DEF OrderInv, QueueOK, DeliverOK
  <2> QED
    BY <2>1, <2>2
<1>2. ASSUME NEW i \in Gids, NEW u \in Uids PROVE FreshOK(i, u)'
  <2>1. CASE TGroupMap'[i] = g
    BY SMT, <1>0, <2>1 DEF FreshOK
  <2>2. CASE TGroupMap'[i] = TGroupMap[i]
    <3>1. FreshOK(i, u) /\ TGroupMap[i] # g /\ TGroupMap[i] \in Groups \cup {Nil}
      BY <1>0 DEF OrderInv
    <3>2. CASE TGroupMap[i] = Nil
      BY <2>2, <3>2 DEF FreshOK
    <3>3. CASE TGroupMap[i] \in Groups
      <4>1. Send'[TGroupMap[i]] = Send[TGroupMap[i]] /\ lsn'[TGroupMap[i]] = lsn[TGroupMap[i]]
        BY <1>0, <3>1, <3>3
      <4> HIDE DEF IInv, TypeOK
      <4> QED
        BY <1>0, <2>2, <3>1, <4>1, FreshStays
    <3> QED
      BY <3>1, <3>2, <3>3
  <2> QED
    BY <1>0, <2>1, <2>2
<1>3. ASSUME NEW u \in Uids PROVE BoundOK(u)'
  BY <1>0 DEF OrderInv, BoundOK
<1>4. InOrder'
  BY <1>0, ZenonT(40) DEF OrderInv, InOrder
<1> QED
  BY <1>1, <1>2, <1>3, <1>4 DEF OrderInv

\* The numbers that are compared are numbers.
NumberFacts ==
  /\ \A g \in Groups : Send[g] \in Seq(Message) /\ Len(Send[g]) \in Nat
  /\ \A g \in Groups : \A j \in 1..Len(Send[g]) : Send[g][j].n \in Nat
  /\ \A g \in Groups : lsn[g] \in {"lock", "deliver"} => cur[g] \in Message /\ cur[g].n \in Nat
  /\ \A u \in Uids : inbox[u] \in Seq(Message) /\ Len(inbox[u]) \in Nat
  /\ \A u \in Uids : \A x \in 1..Len(inbox[u]) : inbox[u][x].gid \in Gids /\ inbox[u][x].n \in Nat
  /\ \A i \in Gids : accepted[i] \in Nat
  /\ \A g \in Groups : State[g] = StateNormal => Gid[g] \in Gids

\* The messages queued by SendChan and handed over by SendToUsers carry a group
\* id and a number.
LEMMA Numbers == IInv => NumberFacts
<1> SUFFICES ASSUME IInv PROVE NumberFacts
  OBVIOUS
<1>1. ASSUME NEW s \in Seq(Message), NEW j \in 1..Len(s)
      PROVE  s[j].gid \in Gids /\ s[j].n \in Nat
  <2>1. s[j] \in Message
    BY SMT, <1>1
  <2> QED
    BY <2>1 DEF Message
<1>2. \A g \in Groups : Send[g] \in Seq(Message) /\ Len(Send[g]) \in Nat
  BY SMT DEF IInv, TypeOK
<1>3. \A u \in Uids : inbox[u] \in Seq(Message) /\ Len(inbox[u]) \in Nat
  BY SMT DEF IInv, TypeOK
<1>4. \A g \in Groups : lsn[g] \in {"lock", "deliver"} => cur[g] \in Message /\ cur[g].n \in Nat
  BY DEF IInv, Structure, ListenerOK, Message
<1>5. \A g \in Groups : State[g] = StateNormal => Gid[g] \in Gids
  <2> SUFFICES ASSUME NEW g \in Groups, State[g] = StateNormal PROVE Gid[g] \in Gids
    OBVIOUS
  <2>1. CASE \E t \in Threads : pc[t] = "out_close" /\ ptr[t] = g
    <3>1. PICK t \in Threads : pc[t] = "out_close" /\ ptr[t] = g
      BY <2>1
    <3>2. ThreadOK(t) /\ call[t].gid \in Gids
      BY <3>1, ThreadTypes DEF IInv, Structure, OutPC
    <3> QED
      BY <3>1, <3>2 DEF ThreadOK, PtrPC
  <2> QED
    BY <2>1 DEF IInv, Structure, LiveOK
<1> QED
  BY <1>1, <1>2, <1>3, <1>4, <1>5 DEF IInv, TypeOK, NumberFacts

\* SendChan numbers a message higher than all before it.
LEMMA SendChanKeepsOrder ==
  ASSUME IInv, OrderInv, NEW t \in Threads, SendChan(t)
  PROVE  OrderInv'
<1> DEFINE g == ptr[t]
           i == call[t].gid
           m == [gid |-> i, n |-> accepted[i] + 1, except |-> call[t].uid]
<1>n. NumberFacts
  BY Numbers
<1>a. g \in Groups /\ i \in Gids /\ Gid[g] = i
  BY ThreadTypes DEF IInv, SendChan, Structure, ThreadOK, SendPC, PtrPC
<1>b. UNCHANGED <<TGroupMap, Gid, State, UsersLock, lsn, cur, todo, inbox>>
  BY DEF SendChan, tgVars
<1>1. CASE UNCHANGED <<Send, accepted>>
  BY <1>1, <1>b, QuietOrder
<1>2. CASE State[g] = StateNormal /\ ~UNCHANGED <<Send, accepted>>
  <2>0. /\ accepted' = [accepted EXCEPT ![i] = @ + 1]
        /\ Send' = [Send EXCEPT ![g] =
             Append(@, [gid |-> i, n |-> accepted'[i], except |-> call[t].uid])]
    BY <1>2 DEF SendChan
  <2>1. /\ \A k \in Gids : accepted'[k] = IF k = i THEN accepted[i] + 1 ELSE accepted[k]
        /\ Send'[g] = Append(Send[g], m)
        /\ \A h \in Groups \ {g} : Send'[h] = Send[h]
    BY <1>a, <2>0 DEF IInv, TypeOK
  <2>2. \A k \in Gids : accepted[k] \in Nat /\ accepted'[k] \in Nat /\ accepted[k] <= accepted'[k]
    BY SMT, <1>n, <2>1 DEF NumberFacts
  <2>3. /\ Len(Send'[g]) = Len(Send[g]) + 1 /\ Len(Send[g]) \in Nat
        /\ \A j \in 1..Len(Send[g]) : Send'[g][j] = Send[g][j]
        /\ Send'[g][Len(Send[g]) + 1].gid = i
        /\ Send'[g][Len(Send[g]) + 1].n = accepted[i] + 1
    <3>1. Send[g] \in Seq(Message) /\ Len(Send[g]) \in Nat
      BY <1>a, <1>n DEF NumberFacts
    <3>2. m.gid = i /\ m.n = accepted[i] + 1
      OBVIOUS
    <3>3. m \in Message
      <4>1. pc[t] \in SendPC /\ TypeOK /\ ThreadOK(t)
        BY DEF IInv, Structure, SendChan, SendPC
      <4>2. call[t].uid \in Uids \cup {Nil}
        BY <4>1, ThreadTypes
      <4>3. accepted[i] + 1 \in Nat
        BY SMT, <1>a, <2>2
      <4> QED
        BY <1>a, <4>2, <4>3 DEF Message
    <3> HIDE DEF m
    <3> QED
      BY SMT, <2>1, <3>1, <3>2, <3>3
  <2>4. \A j \in 1..Len(Send'[g]) : j \in 1..Len(Send[g]) \/ j = Len(Send[g]) + 1
    BY SMT, <2>3
  <2> HIDE DEF m, g, i
  <2>5. ASSUME NEW h \in Groups PROVE QueueOK(h)'
    <3>0. QueueOK(h)
      BY DEF OrderInv
    <3>1. CASE h = g
      <4>0. /\ \A j \in 1..Len(Send[g]) : /\ Send[g][j].gid = i /\ Send[g][j].n <= accepted[i]
                                           /\ Send[g][j].n \in Nat
            /\ \A j, k \in 1..Len(Send[g]) : j < k => Send[g][j].n < Send[g][k].n
            /\ lsn[g] \in {"lock", "deliver"} =>
                 /\ cur[g].gid = i /\ cur[g].n <= accepted[i] /\ cur[g].n \in Nat
                 /\ \A j \in 1..Len(Send[g]) : cur[g].n < Send[g][j].n
            /\ accepted[i] \in Nat /\ accepted'[i] = accepted[i] + 1
        BY <1>2, <1>a, <1>n, <2>1, <3>0, <3>1 DEF QueueOK, NumberFacts
      <4>1. ASSUME NEW j \in 1..Len(Send'[g])
            PROVE  Send'[g][j].gid = Gid[g] /\ Send'[g][j].n <= accepted'[Gid[g]]
        <5>1. CASE j \in 1..Len(Send[g])
          <6>1. Send'[g][j] = Send[g][j] /\ Send[g][j].n <= accepted[i]
                /\ Send[g][j].n \in Nat /\ Send[g][j].gid = i
            BY <2>3, <4>0, <5>1
          <6> QED
            BY SMT, <1>a, <4>0, <6>1
        <5>2. CASE j = Len(Send[g]) + 1
          <6>1. Send'[g][j].gid = i /\ Send'[g][j].n = accepted[i] + 1
            BY <2>3, <5>2
          <6> QED
            BY SMT, <1>a, <4>0, <6>1
        <5> QED
          BY <2>4, <5>1, <5>2
      <4>2. ASSUME NEW j \in 1..Len(Send'[g]), NEW k \in 1..Len(Send'[g]), j < k
            PROVE  Send'[g][j].n < Send'[g][k].n
        <5>1. j \in 1..Len(Send[g])
          BY SMT, <2>3, <2>4, <4>2
        <5>2. CASE k \in 1..Len(Send[g])
          BY <2>3, <4>0, <4>2, <5>1, <5>2
        <5>3. CASE k = Len(Send[g]) + 1
          <6>1. Send'[g][j] = Send[g][j] /\ Send[g][j].n <= accepted[i] /\ Send[g][j].n \in Nat
            BY <2>3, <4>0, <5>1
          <6>2. Send'[g][k].n = accepted[i] + 1
            BY <2>3, <5>3
          <6> QED
            BY SMT, <4>0, <6>1, <6>2
        <5> QED
          BY <2>4, <5>2, <5>3
      <4>3. ASSUME lsn[g] \in {"lock", "deliver"}
            PROVE  /\ cur[g].gid = Gid[g] /\ cur[g].n <= accepted'[Gid[g]]
                   /\ \A j \in 1..Len(Send'[g]) : cur[g].n < Send'[g][j].n
        <5>1. cur[g].gid = i /\ cur[g].n <= accepted[i] /\ cur[g].n \in Nat
              /\ \A j \in 1..Len(Send[g]) : cur[g].n < Send[g][j].n
          BY <4>0, <4>3
        <5>2. ASSUME NEW j \in 1..Len(Send'[g]) PROVE cur[g].n < Send'[g][j].n
          <6>1. CASE j \in 1..Len(Send[g])
            BY <2>3, <5>1, <6>1
          <6>2. CASE j = Len(Send[g]) + 1
            <7>1. Send'[g][j].n = accepted[i] + 1
              BY <2>3, <6>2
            <7> QED
              BY SMT, <4>0, <5>1, <7>1
          <6> QED
            BY <2>4, <6>1, <6>2
        <5> QED
          BY SMT, <1>a, <4>0, <5>1, <5>2
      <4> QED
        BY <1>b, <3>1, <4>1, <4>2, <4>3 DEF QueueOK
    <3>2. CASE h # g
      <4>1. Send'[h] = Send[h]
        BY <2>1, <3>2
      <4> QED
        BY SMT, <1>b, <1>n, <2>2, <3>0, <4>1 DEF QueueOK, NumberFacts
    <3> QED
      BY <3>1, <3>2
  <2>6. ASSUME NEW u \in Uids PROVE BoundOK(u)'
    BY SMT, <1>b, <1>n, <2>2 DEF OrderInv, BoundOK, NumberFacts
  <2>7. ASSUME NEW k \in Gids, NEW u \in Uids PROVE FreshOK(k, u)'
    <3>1. FreshOK(k, u) /\ BoundOK(u)
      BY DEF OrderInv
    <3>2. CASE TGroupMap[k] = g
      <4>1. k = i /\ g # Nil
        BY <1>a, <3>2, TGroupsAssumption DEF IInv, Structure, MapOK
      <4>2. ASSUME NEW x \in 1..Len(inbox[u]), inbox[u][x].gid = k,
                   NEW j \in 1..Len(Send'[g])
            PROVE  inbox[u][x].n < Send'[g][j].n
        <5>1. CASE j \in 1..Len(Send[g])
          BY <2>3, <3>1, <3>2, <4>1, <4>2, <5>1 DEF FreshOK
        <5>2. CASE j = Len(Send[g]) + 1
          <6>1. inbox[u][x].n <= accepted[i] /\ inbox[u][x].n \in Nat /\ accepted[i] \in Nat
            BY <1>a, <1>n, <3>1, <4>1, <4>2 DEF BoundOK, NumberFacts
          <6> QED
            BY SMT, <2>3, <5>2, <6>1
        <5> QED
          BY <2>4, <5>1, <5>2
      <4> QED
        BY <1>b, <3>1, <3>2, <4>2 DEF FreshOK
    <3>3. CASE TGroupMap[k] # g
      <4>1. TGroupMap[k] \in Groups => Send'[TGroupMap[k]] = Send[TGroupMap[k]]
        BY <2>1, <3>3
      <4>2. TGroupMap[k] \in Groups \cup {Nil}
        BY DEF IInv, TypeOK
      <4> QED
        BY <1>b, <3>1, <4>1, <4>2 DEF FreshOK
    <3> QED
      BY <3>2, <3>3
  <2>8. InOrder' /\ \A h \in Groups : DeliverOK(h)'
    BY <1>b DEF OrderInv, InOrder, DeliverOK
  <2> QED
    BY <2>5, <2>6, <2>7, <2>8 DEF OrderInv
<1> QED
  BY <1>1, <1>2 DEF SendChan

\* The listener takes the oldest message.
LEMMA ReceiveKeepsOrder ==
  ASSUME IInv, OrderInv, NEW g \in Groups, ListenReceive(g)
  PROVE  OrderInv'
<1>n. NumberFacts
  BY Numbers
<1>a. /\ UNCHANGED <<TGroupMap, Gid, State, UsersLock, todo, accepted, inbox>>
      /\ lsn[g] = "recv" /\ Send[g] # << >>
      /\ cur'[g] = Head(Send[g]) /\ Send'[g] = Tail(Send[g]) /\ lsn'[g] = "lock"
      /\ \A h \in Groups \ {g} : cur'[h] = cur[h] /\ Send'[h] = Send[h] /\ lsn'[h] = lsn[h]
  BY DEF IInv, TypeOK, ListenReceive, Received, tgVars, hist
<1>b. /\ 1 \in 1..Len(Send[g]) /\ cur'[g] = Send[g][1]
      /\ Len(Send'[g]) = Len(Send[g]) - 1 /\ Len(Send[g]) \in Nat
      /\ \A j \in 1..Len(Send'[g]) : j + 1 \in 1..Len(Send[g]) /\ Send'[g][j] = Send[g][j + 1]
  BY SMT, <1>a, <1>n DEF NumberFacts
<1>1. ASSUME NEW h \in Groups PROVE QueueOK(h)' /\ DeliverOK(h)'
  <2>0. QueueOK(h) /\ DeliverOK(h)
    BY DEF OrderInv
  <2>1. CASE h = g
    <3>1. DeliverOK(g)'
      BY <1>a DEF DeliverOK
    <3>2. ASSUME State[g] = StateNormal
          PROVE  /\ \A j \in 1..Len(Send'[g]) :
                      Send'[g][j].gid = Gid[g] /\ Send'[g][j].n <= accepted[Gid[g]]
                 /\ cur'[g].gid = Gid[g] /\ cur'[g].n <= accepted[Gid[g]]
      BY SMT, <1>b, <2>0, <2>1, <3>2 DEF QueueOK
    <3>3. ASSUME State[g] = StateNormal,
                 NEW j \in 1..Len(Send'[g]), NEW k \in 1..Len(Send'[g]), j < k
          PROVE  Send'[g][j].n < Send'[g][k].n
      <4>1. j + 1 \in 1..Len(Send[g]) /\ k + 1 \in 1..Len(Send[g]) /\ j + 1 < k + 1
        BY SMT, <1>b, <3>3
      <4> QED
        BY <1>b, <2>0, <2>1, <3>3, <4>1 DEF QueueOK
    <3>4. ASSUME State[g] = StateNormal, NEW j \in 1..Len(Send'[g])
          PROVE  cur'[g].n < Send'[g][j].n
      <4>1. j + 1 \in 1..Len(Send[g]) /\ 1 < j + 1
        BY SMT, <1>b, <3>4
      <4> QED
        BY <1>b, <2>0, <2>1, <3>4, <4>1 DEF QueueOK
    <3> QED
      BY <1>a, <2>1, <3>1, <3>2, <3>3, <3>4 DEF QueueOK
  <2>2. CASE h # g
    BY <1>a, <2>0, <2>2 DEF QueueOK, DeliverOK
  <2> QED
    BY <2>1, <2>2
<1>2. ASSUME NEW i \in Gids, NEW u \in Uids PROVE FreshOK(i, u)'
  <2>0. FreshOK(i, u) /\ TGroupMap[i] \in Groups \cup {Nil}
    BY DEF OrderInv, IInv, TypeOK
  <2>1. CASE TGroupMap[i] = g
    <3>1. ASSUME NEW x \in 1..Len(inbox[u]), inbox[u][x].gid = i
          PROVE  /\ \A j \in 1..Len(Send'[g]) : inbox[u][x].n < Send'[g][j].n
                 /\ inbox[u][x].n < cur'[g].n
      <4>1. \A j \in 1..Len(Send[g]) : inbox[u][x].n < Send[g][j].n
        BY <2>0, <2>1, <3>1, TGroupsAssumption DEF FreshOK
      <4> QED
        BY <1>b, <4>1
    <3> QED
      BY <1>a, <2>1, <3>1 DEF FreshOK
  <2>2. CASE TGroupMap[i] # g
    BY <1>a, <2>0, <2>2 DEF FreshOK
  <2> QED
    BY <2>1, <2>2
<1>3. InOrder' /\ \A u \in Uids : BoundOK(u)'
  BY <1>a DEF OrderInv, InOrder, BoundOK
<1> QED
  BY <1>1, <1>2, <1>3 DEF OrderInv

\* A live group whose lock is free is in the map: nobody has taken it out.
LEMMA LiveUnlockedInMap ==
  ASSUME IInv, NEW g \in Groups, State[g] = StateNormal, UsersLock[g] = Nil
  PROVE  Gid[g] \in Gids /\ TGroupMap[Gid[g]] = g
<1>1. \A t \in Threads : ~(pc[t] = "out_close" /\ ptr[t] = g)
  BY TGroupsAssumption DEF IInv, Structure, LockOK, LockPC
<1> QED
  BY <1>1 DEF IInv, Structure, LiveOK

\* SendToUsers starts, ends, or drops the message of a deleted group, and the
\* listener of a deleted group ends: the messages stay as they are.
LEMMA ListenerKeepsOrder ==
  ASSUME IInv, OrderInv, NEW g \in Groups,
         SendToUsers(g) \/ SendToUsersDone(g) \/ ListenExit(g)
  PROVE  OrderInv'
<1>a. /\ UNCHANGED <<Gid, State, UsersLock, Send, accepted, inbox>>
      /\ \A h \in Groups \ {g} : cur'[h] = cur[h] /\ todo'[h] = todo[h] /\ lsn'[h] = lsn[h]
      /\ \A i \in Gids : TGroupMap'[i] \in {TGroupMap[i], Nil}
  BY SMT DEF IInv, TypeOK, SendToUsers, SendToUsersDone, ListenExit, DeleteTGroup, tgVars, hist
<1>b. \/ lsn'[g] \in {"recv", "none"}
      \/ /\ lsn[g] = "lock" /\ lsn'[g] = "deliver" /\ cur'[g] = cur[g]
         /\ UsersLock[g] = Nil /\ State[g] = StateNormal
  BY DEF IInv, TypeOK, SendToUsers, SendToUsersDone, ListenExit
<1>1. ASSUME NEW h \in Groups PROVE QueueOK(h)' /\ DeliverOK(h)'
  <2>0. QueueOK(h) /\ DeliverOK(h)
    BY DEF OrderInv
  <2>1. CASE h = g
    <3>1. CASE lsn'[g] \in {"recv", "none"}
      <4>1. lsn'[h] \notin {"lock", "deliver"}
        BY <2>1, <3>1
      <4>2. QueueOK(h)'
        BY <1>a, <2>0, <4>1 DEF QueueOK
      <4>3. DeliverOK(h)'
        BY <4>1 DEF DeliverOK
      <4> QED
        BY <4>2, <4>3
    <3>2. CASE /\ lsn[g] = "lock" /\ lsn'[g] = "deliver" /\ cur'[g] = cur[g]
               /\ UsersLock[g] = Nil /\ State[g] = StateNormal
      <4>1. QueueOK(h)'
        <5>1. /\ State'[h] = State[h] /\ Send'[h] = Send[h] /\ Gid'[h] = Gid[h]
              /\ cur'[h] = cur[h] /\ accepted' = accepted /\ lsn[h] = "lock"
          BY <1>a, <2>1, <3>2
        <5> QED
          BY <2>0, <5>1 DEF QueueOK
      <4>2. DeliverOK(h)'
        BY <1>a, <2>1, <3>2 DEF DeliverOK
      <4> QED
        BY <4>1, <4>2
    <3> QED
      BY <1>b, <3>1, <3>2
  <2>2. CASE h # g
    BY <1>a, <2>0, <2>2 DEF QueueOK, DeliverOK
  <2> QED
    BY <2>1, <2>2
<1>2. ASSUME NEW i \in Gids, NEW u \in Uids PROVE FreshOK(i, u)'
  <2>0. FreshOK(i, u) /\ TGroupMap[i] \in Groups \cup {Nil}
    BY DEF OrderInv, IInv, TypeOK
  <2>1. CASE TGroupMap'[i] = Nil
    BY <2>1 DEF FreshOK
  <2>2. CASE TGroupMap'[i] = TGroupMap[i] /\ TGroupMap[i] = g
    BY <1>a, <1>b, <2>0, <2>2 DEF FreshOK
  <2>3. CASE TGroupMap'[i] = TGroupMap[i] /\ TGroupMap[i] # g /\ TGroupMap[i] # Nil
    <3>1. TGroupMap[i] \in Groups \ {g}
      BY <2>0, <2>3
    <3>2. /\ cur'[TGroupMap[i]] = cur[TGroupMap[i]] /\ todo'[TGroupMap[i]] = todo[TGroupMap[i]]
          /\ lsn'[TGroupMap[i]] = lsn[TGroupMap[i]] /\ Send' = Send /\ inbox' = inbox
      BY <1>a, <3>1
    <3> QED
      BY <2>0, <2>3, <3>2, FreshStays
  <2> QED
    BY <1>a, <2>1, <2>2, <2>3
<1>3. InOrder' /\ \A u \in Uids : BoundOK(u)'
  BY <1>a DEF OrderInv, InOrder, BoundOK
<1> QED
  BY <1>1, <1>2, <1>3 DEF OrderInv

\* A round of SendToUsers: the message handed over is the newest of its group.
LEMMA DeliveryKeepsOrder ==
  ASSUME IInv, OrderInv, NEW g \in Groups, NEW u \in Uids, SendToUser(g, u)
  PROVE  OrderInv'
<1>n. NumberFacts
  BY Numbers
<1>a. /\ UNCHANGED <<TGroupMap, Gid, State, UsersLock, Send, lsn, cur, accepted>>
      /\ lsn[g] = "deliver" /\ u \in todo[g]
      /\ \A h \in Groups \ {g} : todo'[h] = todo[h]
      /\ todo'[g] = todo[g] \ {u}
      /\ \A v \in Uids \ {u} : inbox'[v] = inbox[v]
      /\ inbox'[u] = inbox[u] \/ inbox'[u] = Append(inbox[u], cur[g])
  BY DEF IInv, TypeOK, SendToUser, tgVars
<1>b. State[g] = StateNormal /\ UsersLock[g] = Nil /\ QueueOK(g)
  BY <1>a DEF OrderInv, DeliverOK
<1>c. Gid[g] \in Gids /\ TGroupMap[Gid[g]] = g /\ g # Nil
  BY <1>b, LiveUnlockedInMap, TGroupsAssumption
<1>d. /\ cur[g].gid = Gid[g] /\ cur[g].n <= accepted[Gid[g]] /\ cur[g].n \in Nat
      /\ \A j \in 1..Len(Send[g]) : cur[g].n < Send[g][j].n
      /\ \A x \in 1..Len(inbox[u]) : inbox[u][x].gid = Gid[g] => inbox[u][x].n < cur[g].n
  <2>1. FreshOK(Gid[g], u)
    BY <1>c DEF OrderInv
  <2> QED
    BY <1>a, <1>b, <1>c, <1>n, <2>1 DEF QueueOK, FreshOK, NumberFacts
<1>e. /\ Len(inbox[u]) \in Nat /\ Len(inbox'[u]) \in {Len(inbox[u]), Len(inbox[u]) + 1}
      /\ \A x \in 1..Len(inbox[u]) : inbox'[u][x] = inbox[u][x]
      /\ Len(inbox'[u]) = Len(inbox[u]) + 1 => inbox'[u][Len(inbox[u]) + 1] = cur[g]
  <2>1. inbox[u] \in Seq(Message) /\ cur[g] \in Message
    BY <1>a, <1>n DEF NumberFacts
  <2>2. CASE inbox'[u] = inbox[u]
    <3>1. Len(inbox[u]) \in Nat
      BY SMT, <2>1
    <3>2. Len(inbox'[u]) = Len(inbox[u])
      BY <2>2
    <3>3. Len(inbox'[u]) # Len(inbox[u]) + 1
      BY SMT, <3>1, <3>2
    <3> QED
      BY <2>2, <3>1, <3>2, <3>3
  <2>3. CASE inbox'[u] = Append(inbox[u], cur[g])
    BY SMT, <2>1, <2>3
  <2> QED
    BY <1>a, <2>2, <2>3
<1>f. ASSUME NEW x \in 1..Len(inbox'[u])
      PROVE  \/ x \in 1..Len(inbox[u]) /\ inbox'[u][x] = inbox[u][x]
             \/ x = Len(inbox[u]) + 1 /\ inbox'[u][x] = cur[g]
  <2>1. CASE x \in 1..Len(inbox[u])
    BY <1>e, <2>1
  <2>2. CASE x \notin 1..Len(inbox[u])
    <3>1. x = Len(inbox[u]) + 1 /\ Len(inbox'[u]) = Len(inbox[u]) + 1
      BY SMT, <1>e, <2>2
    <3> QED
      BY <1>e, <3>1
  <2> QED
    BY <2>1, <2>2
<1>1. ASSUME NEW h \in Groups PROVE QueueOK(h)' /\ DeliverOK(h)'
  <2>0. QueueOK(h) /\ DeliverOK(h)
    BY DEF OrderInv
  <2>1. QueueOK(h)'
    BY <1>a, <2>0 DEF QueueOK
  <2>2. DeliverOK(h)'
    BY <1>a, <2>0 DEF DeliverOK
  <2> QED
    BY <2>1, <2>2
<1>2. ASSUME NEW i \in Gids, NEW v \in Uids PROVE FreshOK(i, v)'
  <2>0. FreshOK(i, v) /\ TGroupMap[i] \in Groups \cup {Nil}
    BY DEF OrderInv, IInv, TypeOK
  <2>1. CASE v # u
    <3>1. inbox'[v] = inbox[v] /\ \A h \in Groups : v \in todo'[h] => v \in todo[h]
      BY <1>a, <2>1
    <3> QED
      BY <1>a, <2>0, <3>1 DEF FreshOK
  <2>2. CASE v = u
    <3> SUFFICES ASSUME TGroupMap[i] # Nil, NEW x \in 1..Len(inbox'[u]), inbox'[u][x].gid = i
                 PROVE  /\ \A j \in 1..Len(Send[TGroupMap[i]]) :
                             inbox'[u][x].n < Send[TGroupMap[i]][j].n
                        /\ \/ lsn[TGroupMap[i]] = "lock"
                           \/ lsn[TGroupMap[i]] = "deliver" /\ u \in todo'[TGroupMap[i]]
                           => inbox'[u][x].n < cur[TGroupMap[i]].n
      BY <1>a, <2>2 DEF FreshOK
    <3>1. CASE x \in 1..Len(inbox[u]) /\ inbox'[u][x] = inbox[u][x]
      <4>1. u \in todo'[TGroupMap[i]] => u \in todo[TGroupMap[i]]
        BY <1>a, <2>0
      <4> QED
        BY <2>0, <2>2, <3>1, <4>1 DEF FreshOK
    <3>2. CASE inbox'[u][x] = cur[g]
      <4>1. TGroupMap[i] = g
        BY <1>c, <1>d, <3>2
      <4>2. u \notin todo'[g] /\ lsn[g] # "lock"
        BY <1>a
      <4> QED
        BY <1>d, <3>2, <4>1, <4>2
    <3> QED
      BY <1>f, <3>1, <3>2
  <2> QED
    BY <2>1, <2>2
<1>3. ASSUME NEW v \in Uids PROVE BoundOK(v)'
  <2>0. BoundOK(v)
    BY DEF OrderInv
  <2>1. CASE v # u
    BY <1>a, <2>0, <2>1 DEF BoundOK
  <2>2. CASE v = u
    BY ZenonT(40), <1>a, <1>d, <1>f, <2>0, <2>2 DEF BoundOK
  <2> QED
    BY <2>1, <2>2
<1>4. InOrder'
  <2> SUFFICES ASSUME NEW v \in Uids, NEW j \in 1..Len(inbox'[v]), NEW k \in 1..Len(inbox'[v]),
                      j < k, inbox'[v][j].gid = inbox'[v][k].gid
               PROVE  inbox'[v][j].n < inbox'[v][k].n
    BY DEF InOrder
  <2>1. CASE v # u
    BY <1>a, <2>1 DEF OrderInv, InOrder
  <2>2. CASE v = u
    <3>1. j \in 1..Len(inbox[u]) /\ inbox'[u][j] = inbox[u][j]
      <4>1. j \in Nat /\ k \in Nat /\ 1 <= j /\ j < k /\ k <= Len(inbox[u]) + 1
        BY SMT, <1>e, <2>2
      <4>2. j \in 1..Len(inbox[u])
        BY SMT, <1>e, <4>1
      <4> QED
        BY <1>e, <4>2
    <3>2. CASE k \in 1..Len(inbox[u]) /\ inbox'[u][k] = inbox[u][k]
      BY <2>2, <3>1, <3>2 DEF OrderInv, InOrder
    <3>3. CASE inbox'[u][k] = cur[g]
      BY <1>d, <2>2, <3>1, <3>3
    <3> QED
      BY <1>f, <2>2, <3>2, <3>3
  <2> QED
    BY <2>1, <2>2
<1> QED
  BY <1>1, <1>2, <1>3, <1>4 DEF OrderInv

-----------------------------------------------------------------------------
\* SendChan's order reaches every user: what is handed over for a group id comes
\* in the order it was queued and never twice, whoever deletes and recreates the
\* group meanwhile.
THEOREM UsersSeeOrder == Spec => []InOrder
<1>1. Init => OrderInv
  <2> SUFFICES ASSUME Init PROVE OrderInv
    OBVIOUS
  <2>1. \A g \in Groups : QueueOK(g) /\ DeliverOK(g)
    BY SMT DEF Init, QueueOK, DeliverOK, StateNormal, StateDeleted
  <2>2. \A i \in Gids, u \in Uids : FreshOK(i, u)
    BY DEF Init, FreshOK
  <2>3. \A u \in Uids : Len(inbox[u]) = 0
    BY DEF Init
  <2> QED
    <3>1. \A u \in Uids : 1..Len(inbox[u]) = {}
      BY SMT, <2>3
    <3>2. InOrder /\ \A u \in Uids : BoundOK(u)
      BY <3>1 DEF BoundOK, InOrder
    <3> QED
      BY <2>1, <2>2, <3>2 DEF OrderInv
<1>2. IInv /\ OrderInv /\ [Next]_vars => OrderInv'
  <2> SUFFICES ASSUME IInv, OrderInv, [Next]_vars PROVE OrderInv'
    OBVIOUS
  <2>1. ASSUME NEW t \in Threads, ThreadStep(t) \/ CallerStep(t) PROVE OrderInv'
    BY <2>1, ThreadsKeepOrder, CreationKeepsOrder, SendChanKeepsOrder
  <2>2. ASSUME NEW g \in Groups, ListenerStep(g) PROVE OrderInv'
    BY <2>2, ReceiveKeepsOrder, ListenerKeepsOrder, DeliveryKeepsOrder DEF ListenerStep
  <2>3. CASE UNCHANGED vars
    BY <2>3, QuietOrder DEF vars
  <2> QED
    BY <2>1, <2>2, <2>3 DEF Next
<1>3. OrderInv => InOrder
  BY DEF OrderInv
<1> QED
  BY <1>1, <1>2, <1>3, InductiveInvariant, PTL DEF Spec
=============================================================================
