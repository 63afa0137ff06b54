------------------------------ MODULE TGroups ------------------------------
(***************************************************************************)
(* Temporary groups: service/ws/tgroup_manager.go and service/ws/tgroup.go.*)
(*                                                                         *)
(* A TGroup is a heap object with its own lock (UsersLock), its own        *)
(* bounded channel (Send) and its own goroutine (ListenSendChan).  The     *)
(* manager maps a group id to the current object under TGroupsLock.  The   *)
(* goroutines that join, leave or send are the Threads; each works on the  *)
(* object pointer it read from the map, which may be stale by then.        *)
(*                                                                         *)
(* Grain of atomicity: a critical section that takes no other lock is one  *)
(* action.  UserLeave, which takes TGroupsLock while it holds UsersLock,   *)
(* and SendToUsers, which calls out for every user under the read lock,    *)
(* are several.  TGroupsLock itself is only ever held inside one action.   *)
(***************************************************************************)
EXTENDS Naturals, Sequences

CONSTANTS
  Threads,          \* goroutines that call the manager
  Uids,             \* user ids
  Gids,             \* group ids
  Groups,           \* addresses of TGroup objects (garbage is reused)
  GroupMsgChanMax,  \* capacity of TGroup.Send
  MaxMsgs,          \* bound: messages accepted per group id
  Nil               \* Go's nil pointer and empty string

ASSUME TGroupsAssumption ==
  /\ GroupMsgChanMax \in Nat \ {0}
  /\ MaxMsgs \in Nat
  /\ Nil \notin Threads \cup Uids \cup Gids \cup Groups

VARIABLES
  TGroupMap,  \* TGroupManager.TGroups: group id -> object or Nil
  Gid,        \* TGroup.Gid
  State,      \* TGroup.State: 1 normal, 2 deleted (Send is closed with it)
  Users,      \* TGroup.Users
  UsersLock,  \* writer of TGroup.UsersLock, or Nil
  Send,       \* TGroup.Send, the queued messages
  lsn,        \* where the object's ListenSendChan goroutine is
  cur,        \* the message it holds
  todo,       \* users it has not served yet in SendToUsers
  pc,         \* where a thread is
  call,       \* the call it executes: operation, group id, user id
  ptr,        \* the object pointer it holds
  accepted,   \* history: messages queued so far for a group id
  inbox       \* history: what SendToUsers handed over for a user

tgVars == <<TGroupMap, Gid, State, Users, UsersLock>>
lsnVars == <<Send, lsn, cur, todo>>
thrVars == <<pc, call, ptr>>
hist == <<accepted, inbox>>
vars == <<TGroupMap, Gid, State, Users, UsersLock, Send, lsn, cur, todo,
          pc, call, ptr, accepted, inbox>>

Message == [gid : Gids, n : Nat, except : Uids \cup {Nil}]

NoCall == [op |-> "none", gid |-> Nil, uid |-> Nil]
Calls == [op : {"join", "out"}, gid : Gids, uid : Uids]
           \cup [op : {"send"}, gid : Gids, uid : Uids \cup {Nil}]

JoinPC == {"join_get", "join_create", "join_user"}
OutPC == {"out_get", "out_leave", "out_delete", "out_close"}
SendPC == {"send_get", "send_state", "send_push"}

Goto(t, l) == pc' = [pc EXCEPT ![t] = l]

\* TGroup.State
StateNormal == 1
StateDeleted == 2

\* The read lock is held by the object's own listener, and by nobody else.
ReadLocked(g) == lsn[g] = "deliver"
WriteLockFree(g) == UsersLock[g] = Nil /\ ~ReadLocked(g)

\* Nothing refers to the object: NewTGroup may get its memory.
Unreferenced(g) ==
  /\ lsn[g] = "none"
  /\ \A t \in Threads : ptr[t] # g
  /\ \A i \in Gids : TGroupMap[i] # g

Init ==
  /\ TGroupMap = [i \in Gids |-> Nil]
  /\ Gid = [g \in Groups |-> Nil]
  /\ State = [g \in Groups |-> StateDeleted]
  /\ Users = [g \in Groups |-> {}]
  /\ UsersLock = [g \in Groups |-> Nil]
  /\ Send = [g \in Groups |-> <<>>]
  /\ lsn = [g \in Groups |-> "none"]
  /\ cur = [g \in Groups |-> Nil]
  /\ todo = [g \in Groups |-> {}]
  /\ pc = [t \in Threads |-> "idle"]
  /\ call = [t \in Threads |-> NoCall]
  /\ ptr = [t \in Threads |-> Nil]
  /\ accepted = [i \in Gids |-> 0]
  /\ inbox = [u \in Uids |-> <<>>]

-----------------------------------------------------------------------------
(* Calls and returns *)

Start(t, c, l) ==
  /\ pc[t] = "idle"
  /\ call' = [call EXCEPT ![t] = c]
  /\ Goto(t, l)
  /\ UNCHANGED <<tgVars, lsnVars, ptr, hist>>

CallUserJoinTGroup(t, i, u) ==
  Start(t, [op |-> "join", gid |-> i, uid |-> u], "join_get")

CallUserOutTGroup(t, i, u) ==
  Start(t, [op |-> "out", gid |-> i, uid |-> u], "out_get")

CallSendMessageToTGroup(t, i, x) ==
  /\ accepted[i] < MaxMsgs
  /\ Start(t, [op |-> "send", gid |-> i, uid |-> x], "send_get")

Return(t) ==
  /\ pc[t] = "ret"
  /\ Goto(t, "idle")
  /\ call' = [call EXCEPT ![t] = NoCall]
  /\ UNCHANGED <<tgVars, lsnVars, ptr, hist>>

-----------------------------------------------------------------------------
(* UserJoinTGroup *)

\* GetOrCreateTGroup, first half: GetTGroup under the read lock.
JoinGetTGroup(t) ==
  /\ pc[t] = "join_get"
  /\ LET g == TGroupMap[call[t].gid] IN
       /\ ptr' = [ptr EXCEPT ![t] = g]
       /\ Goto(t, IF g = Nil THEN "join_create" ELSE "join_user")
  /\ UNCHANGED <<tgVars, lsnVars, call, hist>>

\* GetOrCreateTGroup, second half, when another thread created it meanwhile.
JoinFoundTGroup(t) ==
  /\ pc[t] = "join_create"
  /\ TGroupMap[call[t].gid] # Nil
  /\ ptr' = [ptr EXCEPT ![t] = TGroupMap[call[t].gid]]
  /\ Goto(t, "join_user")
  /\ UNCHANGED <<tgVars, lsnVars, call, hist>>

\* NewTGroup's go statement.  Mutant: it is missing.
NotListening(g) == lsn
StartListening(g) == [lsn EXCEPT ![g] = "recv"]

\* GetOrCreateTGroup, second half: NewTGroup starts the listener.
JoinNewTGroup(t, g) ==
  /\ pc[t] = "join_create"
  /\ TGroupMap[call[t].gid] = Nil
  /\ Unreferenced(g)
  /\ TGroupMap' = [TGroupMap EXCEPT ![call[t].gid] = g]
  /\ Gid' = [Gid EXCEPT ![g] = call[t].gid]
  /\ State' = [State EXCEPT ![g] = StateNormal]
  /\ Users' = [Users EXCEPT ![g] = {}]
  /\ Send' = [Send EXCEPT ![g] = <<>>]
  /\ lsn' = StartListening(g)
  /\ ptr' = [ptr EXCEPT ![t] = g]
  /\ Goto(t, "join_user")
  /\ UNCHANGED <<UsersLock, cur, todo, call, hist>>

\* UserJoin's test.  Mutant: there is none.
NeverRefuses(g) == FALSE
Refuses(g) == State[g] = StateDeleted

\* TGroup.UserJoin: a deleted object refuses, and UserJoinTGroup starts over.
UserJoin(t) ==
  LET g == ptr[t] IN
  /\ pc[t] = "join_user"
  /\ WriteLockFree(g)
  /\ ptr' = [ptr EXCEPT ![t] = Nil]
  /\ \/ /\ Refuses(g)
        /\ Goto(t, "join_get")
        /\ UNCHANGED Users
     \/ /\ ~Refuses(g)
        /\ Users' = [Users EXCEPT ![g] = @ \cup {call[t].uid}]
        /\ Goto(t, "ret")
  /\ UNCHANGED <<TGroupMap, Gid, State, UsersLock, lsnVars, call, hist>>

-----------------------------------------------------------------------------
(* UserOutTGroup *)

OutGetTGroup(t) ==
  /\ pc[t] = "out_get"
  /\ LET g == TGroupMap[call[t].gid] IN
       /\ ptr' = [ptr EXCEPT ![t] = g]
       /\ Goto(t, IF g = Nil THEN "ret" ELSE "out_leave")
  /\ UNCHANGED <<tgVars, lsnVars, call, hist>>

\* UserLeave's test for the last user.  Mutant: the group is never deleted.
NeverEmpty(us) == FALSE
Empty(us) == us = {}

\* TGroup.UserLeave, up to the test for the last user; the write lock is
\* kept when the group is to be deleted.
UserLeave(t) ==
  LET g == ptr[t] IN
  /\ pc[t] = "out_leave"
  /\ WriteLockFree(g)
  /\ Users' = [Users EXCEPT ![g] = @ \ {call[t].uid}]
  /\ \/ /\ Empty(Users'[g])
        /\ UsersLock' = [UsersLock EXCEPT ![g] = t]
        /\ Goto(t, "out_delete")
        /\ UNCHANGED ptr
     \/ /\ ~Empty(Users'[g])
        /\ ptr' = [ptr EXCEPT ![t] = Nil]
        /\ Goto(t, "ret")
        /\ UNCHANGED UsersLock
  /\ UNCHANGED <<TGroupMap, Gid, State, lsnVars, call, hist>>

\* Mutant of DeleteTGroup: deletes by group id, whichever object is there.
DeleteTGroupById(g) == TGroupMap' = [TGroupMap EXCEPT ![Gid[g]] = Nil]

\* TGroupManager.DeleteTGroup(g): only the current object is removed.
DeleteTGroup(g) ==
  TGroupMap' = [i \in Gids |->
                  IF i = Gid[g] /\ TGroupMap[i] = g THEN Nil ELSE TGroupMap[i]]

LeaveDeleteTGroup(t) ==
  /\ pc[t] = "out_delete"
  /\ DeleteTGroup(ptr[t])
  /\ Goto(t, "out_close")
  /\ UNCHANGED <<Gid, State, Users, UsersLock, lsnVars, call, ptr, hist>>

\* UserLeave's deferred unlock.  Mutant: it is missing.
StaysLocked(g) == UsersLock
Unlock(g) == [UsersLock EXCEPT ![g] = Nil]

\* TGroup.CloseSend, then the deferred unlock of UserLeave.  No step of another
\* goroutine can tell State = 2 from the close of Send that follows it, except
\* a send in between, which is the same as a send just before.
LeaveCloseSend(t) ==
  LET g == ptr[t] IN
  /\ pc[t] = "out_close"
  /\ State' = [State EXCEPT ![g] = StateDeleted]
  /\ UsersLock' = Unlock(g)
  /\ ptr' = [ptr EXCEPT ![t] = Nil]
  /\ Goto(t, "ret")
  /\ UNCHANGED <<TGroupMap, Gid, Users, lsnVars, call, hist>>

-----------------------------------------------------------------------------
(* SendMessageToTGroup *)

SendGetTGroup(t) ==
  /\ pc[t] = "send_get"
  /\ LET g == TGroupMap[call[t].gid] IN
       /\ ptr' = [ptr EXCEPT ![t] = g]
       /\ Goto(t, IF g = Nil THEN "ret" ELSE "send_state")
  /\ UNCHANGED <<tgVars, lsnVars, call, hist>>

\* TGroup.SendChan reads State without a lock: the read races with CloseSend
\* and may still return 1 when the group is already deleted.
SendChanCheck(t) ==
  /\ pc[t] = "send_state"
  /\ \/ /\ State[ptr[t]] = StateDeleted
        /\ ptr' = [ptr EXCEPT ![t] = Nil]
        /\ Goto(t, "ret")
     \/ /\ Goto(t, "send_push")
        /\ UNCHANGED ptr
  /\ UNCHANGED <<tgVars, lsnVars, call, hist>>

\* TGroup.SendChan sends: it waits while the channel is full, and a channel
\* that is closed, or closes while it waits, panics; the panic is recovered.
SendChan(t) ==
  LET g == ptr[t]
      i == call[t].gid IN
  /\ pc[t] = "send_push"
  /\ \/ /\ State[g] = StateDeleted
        /\ UNCHANGED <<Send, accepted>>
     \/ /\ State[g] = StateNormal
        /\ Len(Send[g]) < GroupMsgChanMax
        /\ accepted' = [accepted EXCEPT ![i] = @ + 1]
        /\ Send' = [Send EXCEPT ![g] =
             Append(@, [gid |-> i, n |-> accepted'[i], except |-> call[t].uid])]
  /\ ptr' = [ptr EXCEPT ![t] = Nil]
  /\ Goto(t, "ret")
  /\ UNCHANGED <<tgVars, lsn, cur, todo, call, inbox>>

-----------------------------------------------------------------------------
(* ListenSendChan, one goroutine per object *)

\* Receiving takes the message out of the channel.  Mutant: it stays there.
Peeked(g) == Send[g]
Received(g) == Tail(Send[g])

ListenReceive(g) ==
  /\ lsn[g] = "recv"
  /\ Send[g] # <<>>
  /\ cur' = [cur EXCEPT ![g] = Head(Send[g])]
  /\ Send' = [Send EXCEPT ![g] = Received(g)]
  /\ lsn' = [lsn EXCEPT ![g] = "lock"]
  /\ UNCHANGED <<tgVars, todo, thrVars, hist>>

\* SendToUsers takes the read lock; a deleted group's message is dropped.
SendToUsers(g) ==
  /\ lsn[g] = "lock"
  /\ UsersLock[g] = Nil
  /\ \/ /\ State[g] = StateDeleted
        /\ lsn' = [lsn EXCEPT ![g] = "recv"]
        /\ cur' = [cur EXCEPT ![g] = Nil]
        /\ UNCHANGED todo
     \/ /\ State[g] = StateNormal
        /\ lsn' = [lsn EXCEPT ![g] = "deliver"]
        /\ todo' = [todo EXCEPT ![g] = Users[g]]
        /\ UNCHANGED cur
  /\ UNCHANGED <<tgVars, Send, thrVars, hist>>

\* One round of the loop: the user's client, if any, is handed the message.
SendToUser(g, u) ==
  /\ lsn[g] = "deliver"
  /\ u \in todo[g]
  /\ todo' = [todo EXCEPT ![g] = @ \ {u}]
  /\ inbox' = IF u = cur[g].except THEN inbox
              ELSE [inbox EXCEPT ![u] = Append(@, cur[g])]
  /\ UNCHANGED <<tgVars, Send, lsn, cur, thrVars, accepted>>

SendToUsersDone(g) ==
  /\ lsn[g] = "deliver"
  /\ todo[g] = {}
  /\ lsn' = [lsn EXCEPT ![g] = "recv"]
  /\ cur' = [cur EXCEPT ![g] = Nil]
  /\ UNCHANGED <<tgVars, Send, todo, thrVars, hist>>

\* When the range loop ends.  Mutant: when the group id is gone from the map.
GidGone(g) == State[g] = StateDeleted /\ TGroupMap[Gid[g]] = Nil
ClosedAndDrained(g) == State[g] = StateDeleted /\ Send[g] = <<>>

\* The range loop ends on a closed, drained channel; the deferred
\* TGroup.DeleteTGroup runs without UsersLock.
ListenExit(g) ==
  /\ lsn[g] = "recv"
  /\ ClosedAndDrained(g)
  /\ DeleteTGroup(g)
  /\ lsn' = [lsn EXCEPT ![g] = "none"]
  /\ UNCHANGED <<Gid, State, Users, UsersLock, Send, cur, todo, thrVars, hist>>

-----------------------------------------------------------------------------
(* The calls' bodies and the listeners, without the callers. *)

ThreadStep(t) ==
  \/ JoinGetTGroup(t) \/ JoinFoundTGroup(t)
  \/ \E g \in Groups : JoinNewTGroup(t, g)
  \/ UserJoin(t)
  \/ OutGetTGroup(t) \/ UserLeave(t) \/ LeaveDeleteTGroup(t) \/ LeaveCloseSend(t)
  \/ SendGetTGroup(t) \/ SendChanCheck(t) \/ SendChan(t)

ListenerStep(g) ==
  \/ ListenReceive(g) \/ SendToUsers(g) \/ SendToUsersDone(g) \/ ListenExit(g)
  \/ \E u \in Uids : SendToUser(g, u)

CallerStep(t) ==
  \/ \E i \in Gids, u \in Uids : \/ CallUserJoinTGroup(t, i, u)
                                 \/ CallUserOutTGroup(t, i, u)
  \/ \E i \in Gids, x \in Uids \cup {Nil} : CallSendMessageToTGroup(t, i, x)
  \/ Return(t)

Next ==
  \/ \E t \in Threads : ThreadStep(t) \/ CallerStep(t)
  \/ \E g \in Groups : ListenerStep(g)

Spec == Init /\ [][Next]_vars

(***************************************************************************)
(* Goroutines are scheduled, and one that waits for a mutex or on a full   *)
(* channel is served in bounded time (sync.RWMutex does not starve,        *)
(* channel waiters are queued): strong fairness for every goroutine, which *)
(* has one next step at a time.  Nobody is obliged to make a call.         *)
(***************************************************************************)
Fairness ==
  /\ \A t \in Threads : SF_vars(ThreadStep(t) \/ Return(t))
  /\ \A g \in Groups : SF_vars(ListenerStep(g))

FairSpec == Spec /\ Fairness

-----------------------------------------------------------------------------
(* Properties *)

\* The variables have their types: TGroupMap, the fields of a TGroup, and the places
\* of the manager's callers and of ListenSendChan.
TypeOK ==
  /\ TGroupMap \in [Gids -> Groups \cup {Nil}]
  /\ Gid \in [Groups -> Gids \cup {Nil}]
  /\ State \in [Groups -> {1, 2}]
  /\ Users \in [Groups -> SUBSET Uids]
  /\ UsersLock \in [Groups -> Threads \cup {Nil}]
  /\ Send \in [Groups -> Seq(Message)]
  /\ lsn \in [Groups -> {"none", "recv", "lock", "deliver"}]
  /\ cur \in [Groups -> Message \cup {Nil}]
  /\ todo \in [Groups -> SUBSET Uids]
  /\ pc \in [Threads -> {"idle", "ret"} \cup JoinPC \cup OutPC \cup SendPC]
  /\ call \in [Threads -> Calls \cup {NoCall}]
  /\ ptr \in [Threads -> Groups \cup {Nil}]
  /\ accepted \in [Gids -> Nat]
  /\ inbox \in [Uids -> Seq(Message)]

\* A user who is in some TGroup object is in the one the manager's map leads
\* to, and that object is not deleted: UserJoin never leaves a user behind in
\* an object that UserLeave is taking down, and DeleteTGroup never removes a
\* successor of the object it is called for.
MembersReachable ==
  \A g \in Groups : Users[g] # {} => TGroupMap[Gid[g]] = g /\ State[g] = StateNormal

\* An empty group stays in the map only while a join is about to fill it or
\* the last leave is about to delete it: empty groups do not pile up.
NoEmptyLeak ==
  \A i \in Gids :
    TGroupMap[i] # Nil /\ Users[TGroupMap[i]] = {} =>
      \E t \in Threads : ptr[t] = TGroupMap[i] /\ pc[t] \in {"join_user", "out_delete"}

\* What a user is handed for one group id comes in the order in which
\* SendChan queued it and never twice, also when the group is deleted and
\* created again while the old object's listener is still draining.
InOrder ==
  \A u \in Uids : \A j, k \in 1..Len(inbox[u]) :
    j < k /\ inbox[u][j].gid = inbox[u][k].gid => inbox[u][j].n < inbox[u][k].n

(***************************************************************************)
(* Why the two invariants above hold: the inductive invariant.             *)
(***************************************************************************)
PtrPC == {"join_user", "out_leave", "out_delete", "out_close",
          "send_state", "send_push"}
LockPC == {"out_delete", "out_close"}

\* A thread's place tells which call it executes and whether it holds an
\* object; the object is one of the group id it works on.
ThreadOK(t) ==
  /\ pc[t] = "idle" <=> call[t].op = "none"
  /\ pc[t] \in JoinPC => call[t].op = "join"
  /\ pc[t] \in OutPC => call[t].op = "out"
  /\ pc[t] \in SendPC => call[t].op = "send"
  /\ pc[t] \in PtrPC => ptr[t] # Nil /\ Gid[ptr[t]] = call[t].gid
  /\ pc[t] \notin PtrPC => ptr[t] = Nil

\* The map leads to live objects, filed under their own group id.
MapOK(i) ==
  TGroupMap[i] # Nil =>
    Gid[TGroupMap[i]] = i /\ State[TGroupMap[i]] = StateNormal

\* UserLeave holds the write lock while it takes the group down, ...
LockOK(g, t) == UsersLock[g] = t <=> ptr[t] = g /\ pc[t] \in LockPC

\* ... the group is empty then, and out of the map when it is closed.
TakedownOK(t) ==
  /\ pc[t] \in LockPC => Users[ptr[t]] = {}
  /\ pc[t] = "out_close" => TGroupMap[call[t].gid] # ptr[t]

\* An object is in the map, or between removal and close, or deleted and empty.
LiveOK(g) ==
  /\ State[g] = StateNormal =>
       \/ Gid[g] \in Gids /\ TGroupMap[Gid[g]] = g
       \/ \E t \in Threads : pc[t] = "out_close" /\ ptr[t] = g
  /\ State[g] = StateDeleted => Users[g] = {}

\* The listener holds a message whenever it needs one.
ListenerOK(g) == lsn[g] \in {"lock", "deliver"} => cur[g] \in Message

Structure ==
  /\ \A t \in Threads : ThreadOK(t) /\ TakedownOK(t)
  /\ \A i \in Gids : MapOK(i)
  /\ \A g \in Groups : LiveOK(g) /\ ListenerOK(g) /\ \A t \in Threads : LockOK(g, t)
  /\ NoEmptyLeak

IInv == TypeOK /\ Structure

(***************************************************************************)
(* Progress, for a goroutine t, an object g and a user u.                  *)
(***************************************************************************)

\* A leave or a send comes back, whatever lock or room in Send it waits for,
\* also when the group is deleted under it (the panic of SendChan frees it).
OutOrSendReturns(t) == pc[t] \in OutPC \cup SendPC ~> pc[t] = "ret"

\* A join comes back once the others are quiet.  It may have to start over
\* as long as others keep deleting the group between its lookup and UserJoin.
LoneJoinReturns(t) ==
  <>[](\A s \in Threads \ {t} : pc[s] = "idle") => (pc[t] \in JoinPC ~> pc[t] = "ret")

\* The listener of a deleted group ends: CloseSend leaks no goroutine.
ListenerOfDeletedEnds(g) ==
  State[g] = StateDeleted ~> lsn[g] = "none" \/ State[g] = StateNormal

\* A message queued while a user is a member is handed over to that user,
\* unless the user leaves before its turn comes.
QueuedReaches(g, u) ==
  \A n \in 1..MaxMsgs :
    (\E j \in DOMAIN Send[g] : Send[g][j].n = n /\ Send[g][j].except # u)
      /\ u \in Users[g]
    ~> u \notin Users[g] \/ (\E j \in DOMAIN inbox[u] : inbox[u][j].n = n)

-----------------------------------------------------------------------------
(***************************************************************************)
(* Refinement of GroupService.  A join takes effect in UserJoin, a leave   *)
(* in UserLeave, in a lookup that finds no group, or, when another thread  *)
(* deletes the object between its lookup and its UserLeave, with that      *)
(* deletion.  Sends are no calls of the service.                           *)
(***************************************************************************)
absMembers ==
  [i \in Gids |-> IF TGroupMap[i] = Nil THEN {} ELSE Users[TGroupMap[i]]]

TookEffect(t) ==
  \/ pc[t] \in {"out_delete", "out_close", "ret"}
  \/ pc[t] = "out_leave" /\ TGroupMap[call[t].gid] # ptr[t]

absOps ==
  [t \in Threads |->
     IF call[t].op \notin {"join", "out"} THEN Nil
     ELSE [op |-> call[t].op, gid |-> call[t].gid, uid |-> call[t].uid,
           done |-> TookEffect(t)]]

GS == INSTANCE GroupService WITH members <- absMembers, ops <- absOps

ASSUME NilIsNoCall == Nil \notin GS!Ops

\* Every behaviour of the manager and the group objects is one of the group
\* service: joins and leaves are atomic for their callers in spite of stale
\* object pointers, deletion and recreation.
ImplementsGroupService == GS!Spec

=============================================================================
