---------------------------- MODULE ClientGroups ----------------------------
(***************************************************************************)
(* A user's clients and the temporary groups (service/ws/client.go): the   *)
(* membership is kept twice, per user in the groups and per client in      *)
(* Client.TGroup, and OnClose relies on the latter to leave the former.    *)
(* The groups are used through their contract GroupService, which TGroups  *)
(* implements; the clients are those of one user on one node, one          *)
(* registered at a time, as on a node where no two logins overlap (Login). *)
(***************************************************************************)
EXTENDS Naturals

CONSTANTS
  Clients,  \* Client objects; each stands for its ReadLoop goroutine, too
  Rpc,      \* goroutines serving JoinGroup and OutGroup of other nodes
  Gids,     \* group ids
  Uid,      \* the user
  Nil

Threads == Clients \cup Rpc

VARIABLES
  members, ops,  \* the group service
  registered,    \* ClientManager.Clients[uid]
  TGroup,        \* Client.TGroup
  TGroupLock,    \* goroutine holding Client.TGroupLock, or Nil
  todo,          \* what the range loop of OutAllTGroup has not visited yet
  pc,            \* where a goroutine is
  cl,            \* the client it works on
  mixed          \* history: the groups of which a join overlapped a leave or an OnClose

vars == <<members, ops, registered, TGroup, TGroupLock, todo, pc, cl, mixed>>

GS == INSTANCE GroupService WITH Uids <- {Uid}

ASSUME ClientGroupsAssumption ==
  /\ Clients \cap Rpc = {}
  /\ Nil \notin Clients \cup GS!Ops

Goto(t, l) == pc' = [pc EXCEPT ![t] = l]

Init ==
  /\ GS!Init
  /\ registered = Nil
  /\ TGroup = [c \in Clients |-> {}]
  /\ TGroupLock = [c \in Clients |-> Nil]
  /\ todo = [c \in Clients |-> {}]
  /\ pc = [t \in Threads |-> IF t \in Clients THEN "new" ELSE "idle"]
  /\ cl = [t \in Threads |-> IF t \in Clients THEN t ELSE Nil]
  /\ mixed = {}

\* A call of the group service, and its return.
CallService(t, o, g) ==
  GS!Call(t) /\ ops'[t] = [op |-> o, gid |-> g, uid |-> Uid, done |-> FALSE]

Returns(t) == ops[t] # Nil /\ GS!Return(t)

\* A login that uniqueLogin let through registers its client.
Connect(c) ==
  /\ pc[c] = "new" /\ registered = Nil
  /\ registered' = c
  /\ Goto(c, "read")
  /\ UNCHANGED <<members, ops, TGroup, TGroupLock, todo, cl, mixed>>

-----------------------------------------------------------------------------
(* InTGroup and OutTGroup, from a message handler on the connection itself   *)
(* or from JoinLockGroup / OutLockGroup, which look the client up.           *)

\* Some goroutine is in InTGroup ("join") or OutTGroup ("out") of the group.
InCall(o, g) == \E t \in Threads : pc[t] = o /\ ops[t].gid = g

Closing == \E c \in Clients : pc[c] \in {"outall", "delete"}

StartGroupCall(t, o, g) ==
  /\ \/ /\ t \in Clients /\ pc[t] = "read"
        /\ UNCHANGED cl
     \/ /\ t \in Rpc /\ pc[t] = "idle" /\ registered # Nil
        /\ cl' = [cl EXCEPT ![t] = registered]
  /\ CallService(t, o, g)
  /\ Goto(t, o)
  /\ UNCHANGED <<registered, TGroup, TGroupLock, todo>>

CallInTGroup(t, g) ==
  /\ StartGroupCall(t, "join", g)
  /\ mixed' = IF InCall("out", g) \/ Closing THEN mixed \cup {g} ELSE mixed

CallOutTGroup(t, g) ==
  /\ StartGroupCall(t, "out", g)
  /\ mixed' = IF InCall("join", g) THEN mixed \cup {g} ELSE mixed

Rest(t) == Goto(t, IF t \in Clients THEN "read" ELSE "idle")

\* Mutants: the client does not remember the group, or remembers the user.
InTGroupForgets(t) ==
  /\ pc[t] = "join" /\ Returns(t)
  /\ TGroupLock[cl[t]] = Nil
  /\ Rest(t)
  /\ UNCHANGED <<registered, TGroup, TGroupLock, todo, cl, mixed>>

InTGroupByUid(t) ==
  /\ pc[t] = "join" /\ Returns(t)
  /\ TGroupLock[cl[t]] = Nil
  /\ TGroup' = [TGroup EXCEPT ![cl[t]] = @ \cup {ops[t].uid}]
  /\ Rest(t)
  /\ UNCHANGED <<registered, TGroupLock, todo, cl, mixed>>

\* UserJoinTGroup has returned; the group is entered in Client.TGroup.
InTGroup(t) ==
  /\ pc[t] = "join" /\ Returns(t)
  /\ TGroupLock[cl[t]] = Nil
  /\ TGroup' = [TGroup EXCEPT ![cl[t]] = @ \cup {ops[t].gid}]
  /\ Rest(t)
  /\ UNCHANGED <<registered, TGroupLock, todo, cl, mixed>>

\* Mutant: the client still counts itself in.
OutTGroupForgets(t) ==
  /\ pc[t] = "out" /\ Returns(t)
  /\ TGroupLock[cl[t]] = Nil
  /\ Rest(t)
  /\ UNCHANGED <<registered, TGroup, TGroupLock, todo, cl, mixed>>

OutTGroup(t) ==
  /\ pc[t] = "out" /\ Returns(t)
  /\ TGroupLock[cl[t]] = Nil
  /\ TGroup' = [TGroup EXCEPT ![cl[t]] = @ \ {ops[t].gid}]
  /\ Rest(t)
  /\ UNCHANGED <<registered, TGroupLock, todo, cl, mixed>>

-----------------------------------------------------------------------------
(* Client.OnClose: OutAllTGroup under TGroupLock, then DelClient *)

OutAllTGroup(c) ==
  /\ pc[c] = "read" /\ TGroupLock[c] = Nil
  /\ TGroupLock' = [TGroupLock EXCEPT ![c] = c]
  /\ todo' = [todo EXCEPT ![c] = TGroup[c]]
  /\ mixed' = mixed \cup {g \in Gids : InCall("join", g)}
  /\ Goto(c, "outall")
  /\ UNCHANGED <<members, ops, registered, TGroup, cl>>

\* _outTGroup for the next group of the map, in Go's unspecified order.
CallOutAll(c) ==
  /\ pc[c] = "outall" /\ ops[c] = Nil
  /\ \E g \in todo[c] : CallService(c, "out", g)
  /\ UNCHANGED <<registered, TGroup, TGroupLock, todo, pc, cl, mixed>>

\* Mutant: OutTGroup in the place of _outTGroup, which takes the lock again.
OutAllLocks(c) ==
  /\ pc[c] = "outall" /\ Returns(c)
  /\ TGroupLock[c] = Nil
  /\ TGroup' = [TGroup EXCEPT ![c] = @ \ {ops[c].gid}]
  /\ todo' = [todo EXCEPT ![c] = @ \ {ops[c].gid}]
  /\ UNCHANGED <<registered, TGroupLock, pc, cl, mixed>>

OutAllNext(c) ==
  /\ pc[c] = "outall" /\ Returns(c)
  /\ TGroup' = [TGroup EXCEPT ![c] = @ \ {ops[c].gid}]
  /\ todo' = [todo EXCEPT ![c] = @ \ {ops[c].gid}]
  /\ UNCHANGED <<registered, TGroupLock, pc, cl, mixed>>

OutAllDone(c) ==
  /\ pc[c] = "outall" /\ ops[c] = Nil /\ todo[c] = {}
  /\ TGroupLock' = [TGroupLock EXCEPT ![c] = Nil]
  /\ Goto(c, "delete")
  /\ UNCHANGED <<members, ops, registered, TGroup, todo, cl, mixed>>

DelClient(c) ==
  /\ pc[c] = "delete"
  /\ registered' = Nil
  /\ Goto(c, "end")
  /\ UNCHANGED <<members, ops, TGroup, TGroupLock, todo, cl, mixed>>

-----------------------------------------------------------------------------
\* The group service lets a call take effect.
ServiceStep ==
  /\ \/ \E t \in Threads : GS!Join(t) \/ GS!Out(t)
     \/ \E T \in SUBSET Threads : GS!OutAbsent(T)
  /\ UNCHANGED <<registered, TGroup, TGroupLock, todo, pc, cl, mixed>>

GroupCall(t) ==
  \/ \E g \in Gids : CallInTGroup(t, g) \/ CallOutTGroup(t, g)
  \/ InTGroup(t) \/ OutTGroup(t)

CloseStep(c) == CallOutAll(c) \/ OutAllNext(c) \/ OutAllDone(c) \/ DelClient(c)

Next ==
  \/ ServiceStep
  \/ \E t \in Threads : GroupCall(t)
  \/ \E c \in Clients : Connect(c) \/ OutAllTGroup(c) \/ CloseStep(c)

Spec == Init /\ [][Next]_vars

\* UserOutTGroup takes effect, OnClose goes on, and a goroutine that waits for
\* TGroupLock gets it when it is free; a UserJoinTGroup may retry for ever, and
\* handlers and RPCs may do nothing.
FairSpec ==
  /\ Spec
  /\ \A t \in Threads : /\ WF_vars(GS!Out(t) /\ ServiceStep)
                        /\ WF_vars(InTGroup(t) \/ OutTGroup(t))
  /\ \A c \in Clients : WF_vars(CloseStep(c))

-----------------------------------------------------------------------------
(* Properties *)

\* The variables have their types: Client.TGroup holds group ids, TGroupLock is
\* held by a client's goroutine or by nobody.
TypeOK ==
  /\ members \in [Gids -> SUBSET {Uid}]
  /\ ops \in [Threads -> GS!Ops \cup {Nil}]
  /\ registered \in Clients \cup {Nil}
  /\ TGroup \in [Clients -> SUBSET Gids]
  /\ TGroupLock \in [Clients -> Clients \cup {Nil}]
  /\ todo \in [Clients -> SUBSET Gids]
  /\ pc \in [Threads -> {"new", "read", "idle", "join", "out", "outall", "delete", "end"}]
  /\ cl \in [Threads -> Clients \cup {Nil}]
  /\ mixed \subseteq Gids

\* No call is running.
Quiet == \A t \in Threads : pc[t] \in {"new", "read", "idle", "end"}

\* OutAllTGroup leaves all groups (client.go:111): once the user has no client and
\* no call is running, the user is in no group that would keep a member for ever.
NoGhostMember == Quiet /\ registered = Nil => \A g \in Gids : members[g] = {}

\* IsInTGroup tells whether the user is in the group (client.go:74): Client.TGroup
\* is the membership in the groups when no call is running.
MembershipAgrees ==
  Quiet /\ registered # Nil => \A g \in Gids : g \in TGroup[registered] <=> Uid \in members[g]

\* What the order of InTGroup, OutTGroup and OnClose does guarantee: a user without
\* a client is in no group, but for one of which a join overlapped a leave or an
\* OnClose, after any leaves that overlapped each other, an OnClose or the next
\* login.
ClosedLeavesGroups ==
  Quiet /\ registered = Nil => \A g \in Gids \ mixed : members[g] = {}

\* With the same exception Client.TGroup is the membership in the groups, also
\* after joins that overlapped each other and leaves left over by a predecessor.
RecordsAgree ==
  Quiet /\ registered # Nil =>
    \A g \in Gids \ mixed : g \in TGroup[registered] <=> Uid \in members[g]

\* Nobody waits for TGroupLock for ever: every OutTGroup and every OnClose comes
\* back, and every InTGroup that has joined, although OnClose holds the lock while
\* it calls the groups.
CallsReturn ==
  \A t \in Threads :
    pc[t] \in {"out", "outall"} \/ (pc[t] = "join" /\ ops[t].done)
      ~> pc[t] \in {"read", "idle", "end"}
=============================================================================
