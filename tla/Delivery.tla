------------------------------ MODULE Delivery ------------------------------
(***************************************************************************)
(* How a request for one user finds the user's clients in a cluster:       *)
(* RedisProxy, handleSubMsg, the RPC client and the RPC server             *)
(* (service/ws/redis_proxy.go, local_proxy.go, proxy_msg_queue.go,         *)
(* client_manager.go, cache.go, service/api).  Each lookup is a step of    *)
(* its own: the user may log out, in, or move between any two.             *)
(*                                                                         *)
(* Nothing is assumed of the user: there may be clients on several nodes,  *)
(* and the record need not name one of them (module Login tells when).     *)
(* Whether a client is in a group is left open (module ClientGroups).  A   *)
(* published message is handled once, late or never by each node (module   *)
(* ProxyQueue).                                                            *)
(***************************************************************************)
EXTENDS Naturals, FiniteSets

CONSTANTS
  Nodes,
  Reqs,       \* requests, each issued once
  MaxLogins,  \* bound: logins of the user
  MaxList,    \* bound: groups in a SubMsg.TgidList
  Nil

\* What a request is: a message to the user, a message to the user if in the
\* group, a join, a leave; a message to groups, a message for the user
\* published to all nodes (SubMsg.ToUid), and one for the user if in the groups
\* (ToUid with Tgid or TgidList).
Direct == {"user", "usertg", "join", "out"}
Published == {"group", "touid", "totg"}

\* A request is made entry by entry: one for each group that it names, in the
\* order of TgidList, or a single one.
Entries == 1 .. MaxList

ASSUME DeliveryAssumption ==
  /\ IsFiniteSet(Nodes) /\ MaxLogins \in Nat /\ MaxList \in Nat \ {0}
  /\ Nil \notin Nodes \cup Direct \cup Published

VARIABLES
  at,      \* the nodes whose ClientManager has a client of the user
  online,  \* the node in the user's Redis record, or Nil
  logins,  \* clients registered so far
  kind,    \* request -> what it is, or Nil before it is issued
  len,     \* request -> how many entries it has
  todo,    \* request -> the nodes that have still to handle it (pub/sub)
  pc,      \* <<request, node>> -> where the goroutine handling it there is
  entry,   \* <<request, node>> -> the entry this goroutine is at
  way,     \* <<request, entry, node>> -> where a copy that the node sent is going, or Nil
  copies,  \* history: <<request, entry>> -> how often it reached a client
  stays    \* history: request -> clients when it was issued, and registered since

userVars == <<at, online, logins>>
reqVars == <<kind, len, todo>>
vars == <<at, online, logins, kind, len, todo, pc, entry, way, copies, stays>>

Init ==
  /\ at = {} /\ online = Nil /\ logins = 0
  /\ kind = [r \in Reqs |-> Nil]
  /\ len = [r \in Reqs |-> 0]
  /\ todo = [r \in Reqs |-> {}]
  /\ pc = [x \in Reqs \X Nodes |-> "idle"]
  /\ entry = [x \in Reqs \X Nodes |-> 1]
  /\ way = [x \in Reqs \X Entries \X Nodes |-> Nil]
  /\ copies = [x \in Reqs \X Entries |-> 0]
  /\ stays = [r \in Reqs |-> 0]

-----------------------------------------------------------------------------
(* The user *)

\* A client is registered on node n, possibly in the place of another one.
AddClient(n) ==
  /\ logins < MaxLogins
  /\ at' = at \cup {n}
  /\ logins' = logins + 1
  /\ stays' = [r \in Reqs |-> stays[r] + 1]
  /\ UNCHANGED <<online, reqVars, pc, entry, way, copies>>

\* Client.OnClose
DelClient(n) ==
  /\ n \in at
  /\ at' = at \ {n}
  /\ UNCHANGED <<online, logins, reqVars, pc, entry, way, copies, stays>>

\* A login, which comes before its client, writes the record.
SetUserOnlineInfo(n) ==
  /\ online' = n
  /\ UNCHANGED <<at, logins, reqVars, pc, entry, way, copies, stays>>

\* Mutant: the record is emptied, not deleted.
EmptyUserOnlineInfo ==
  /\ online # Nil
  /\ online' = ""
  /\ UNCHANGED <<at, logins, reqVars, pc, entry, way, copies, stays>>

DelUserOnlineInfo ==
  /\ online # Nil
  /\ online' = Nil
  /\ UNCHANGED <<at, logins, reqVars, pc, entry, way, copies, stays>>

-----------------------------------------------------------------------------
(* Requests *)

Issue(r, k, e) ==
  /\ kind[r] = Nil
  /\ kind' = [kind EXCEPT ![r] = k]
  /\ len' = [len EXCEPT ![r] = e]
  /\ stays' = [stays EXCEPT ![r] = Cardinality(at)]

\* A RedisProxy call on node n: SendMsgToUser and SendResDataToUser, their
\* ...ByTgid forms, JoinGroup, OutGroup.
CallProxy(r, n, k) ==
  /\ k \in Direct
  /\ Issue(r, k, 1)
  /\ pc' = [pc EXCEPT ![<<r, n>>] = "entry"]
  /\ UNCHANGED <<userVars, todo, entry, way, copies>>

\* PublishGlobalMsg: SendResDataToGroup, or another service's SubMsg. Empty ids in
\* TgidList are skipped, so there may be no entry at all.
PublishGlobalMsg(r, k, e) ==
  /\ k \in Published /\ e \in 0 .. MaxList /\ (k = "touid" => e = 1)
  /\ Issue(r, k, e)
  /\ todo' = [todo EXCEPT ![r] = Nodes]
  /\ UNCHANGED <<userVars, pc, entry, way, copies>>

\* Mutant: the message is left to be handled again.
HandledAgain(r, n) == todo
Handled(r, n) == [todo EXCEPT ![r] = @ \ {n}]

\* handleSubMsg on node n begins with the first entry.
HandleSubMsg(r, n) ==
  /\ n \in todo[r]
  /\ todo' = Handled(r, n)
  /\ entry' = [entry EXCEPT ![<<r, n>>] = 1]
  /\ pc' = [pc EXCEPT ![<<r, n>>] = IF len[r] = 0 THEN "done" ELSE "entry"]
  /\ UNCHANGED <<userVars, kind, len, way, copies, stays>>

NextEntry(r, n) ==
  /\ entry' = [entry EXCEPT ![<<r, n>>] = @ + 1]
  /\ pc' = [pc EXCEPT ![<<r, n>>] = IF entry[<<r, n>>] < len[r] THEN "entry" ELSE "done"]

Send(r, n, d) == way' = [way EXCEPT ![<<r, entry[<<r, n>>], n>>] = d]

\* GetClient on node d, then the client or ErrUserOffline. What is for members of a
\* group does not reach a client that is not in it.
ToLocalUser(r, i, d) ==
  \/ /\ d \in at
     /\ copies' = [copies EXCEPT ![<<r, i>>] = @ + 1]
  \/ /\ d \notin at \/ kind[r] \in {"usertg", "group", "totg"}
     /\ UNCHANGED copies

\* sendResDataToGroup without ToUid: the group's channel on this node.
SendMessageToTGroup(r, n) ==
  /\ pc[<<r, n>>] = "entry" /\ kind[r] = "group"
  /\ Send(r, n, n)
  /\ NextEntry(r, n)
  /\ UNCHANGED <<userVars, reqVars, copies, stays>>

HasUser(n) == n \in at

\* RedisProxy: ClientM.HasUser decides between this node and the record.
RouteRequest(r, n) ==
  /\ pc[<<r, n>>] = "entry" /\ kind[r] # "group"
  /\ pc' = [pc EXCEPT ![<<r, n>>] = IF HasUser(n) THEN "local" ELSE "lookup"]
  /\ UNCHANGED <<userVars, reqVars, entry, way, copies, stays>>

\* The user was here: the client is looked up again.
SendLocal(r, n) ==
  /\ pc[<<r, n>>] = "local"
  /\ ToLocalUser(r, entry[<<r, n>>], n)
  /\ NextEntry(r, n)
  /\ UNCHANGED <<userVars, reqVars, way, stays>>

\* GetUserRpcServer: no record means an error, else the RPC is sent. The caller may
\* get an error and go on before the request is handled (module RpcService).
GetUserRpcServer(r, n) ==
  /\ pc[<<r, n>>] = "lookup"
  /\ IF online = Nil THEN UNCHANGED way ELSE Send(r, n, online)
  /\ NextEntry(r, n)
  /\ UNCHANGED <<userVars, reqVars, copies, stays>>

HandlerStep(r, n) ==
  SendMessageToTGroup(r, n) \/ RouteRequest(r, n) \/ SendLocal(r, n) \/ GetUserRpcServer(r, n)

\* Mutant: the RPC is made once more when no answer came.
RpcRetried(r, i, n) == way
Arrived(r, i, n) == [way EXCEPT ![<<r, i, n>>] = Nil]

\* The group's goroutine sends to its members, or the handler of the RPC on the
\* node it was sent to uses its local client.
Arrive(r, i, n) ==
  /\ way[<<r, i, n>>] # Nil
  /\ ToLocalUser(r, i, way[<<r, i, n>>])
  /\ way' = Arrived(r, i, n)
  /\ UNCHANGED <<userVars, reqVars, pc, entry, stays>>

\* There is no such group on the node, or it is deleted first; Redis did not give the
\* record; the node is unknown to GetClientByAddr, or cannot be reached.
Lose(r, i, n) ==
  /\ way[<<r, i, n>>] # Nil
  /\ way' = [way EXCEPT ![<<r, i, n>>] = Nil]
  /\ UNCHANGED <<userVars, reqVars, pc, entry, copies, stays>>

Next ==
  \/ DelUserOnlineInfo
  \/ \E n \in Nodes : AddClient(n) \/ DelClient(n) \/ SetUserOnlineInfo(n)
  \/ \E r \in Reqs, n \in Nodes :
       \/ \E k \in Direct : CallProxy(r, n, k)
       \/ HandleSubMsg(r, n) \/ HandlerStep(r, n)
       \/ \E i \in Entries : Arrive(r, i, n) \/ Lose(r, i, n)
  \/ \E r \in Reqs, k \in Published, e \in 0 .. MaxList : PublishGlobalMsg(r, k, e)

Spec == Init /\ [][Next]_vars

-----------------------------------------------------------------------------
(* Properties *)

\* The variables have their types: the online record names a node, and a request is
\* at one of the places of its routing in RedisProxy, going through its groups.
TypeOK ==
  /\ at \in SUBSET Nodes /\ online \in Nodes \cup {Nil} /\ logins \in 0 .. MaxLogins
  /\ kind \in [Reqs -> Direct \cup Published \cup {Nil}]
  /\ len \in [Reqs -> 0 .. MaxList]
  /\ todo \in [Reqs -> SUBSET Nodes]
  /\ pc \in [Reqs \X Nodes -> {"idle", "entry", "local", "lookup", "done"}]
  /\ entry \in [Reqs \X Nodes -> 1 .. MaxList + 1]
  /\ way \in [Reqs \X Entries \X Nodes -> Nodes \cup {Nil}]
  /\ copies \in [Reqs \X Entries -> Nat]
  /\ stays \in [Reqs -> Nat]

\* A call of the proxy reaches the user at most once, however many clients there
\* are and whichever way the user moves between HasUser, the record, the RPC and
\* the remote lookup.
DirectAtMostOnce ==
  \A r \in Reqs, i \in Entries : kind[r] \in Direct => copies[<<r, i>>] <= 1

\* For each group that a message is for, each of the user's clients gets it at most
\* once: a user with one client gets it twice only by moving, while it is on its
\* way, to a node that has not handled it yet.
GroupOncePerStay ==
  \A r \in Reqs, i \in Entries : kind[r] = "group" => copies[<<r, i>>] <= stays[r]

\* A message published for a user reaches them once per node and named group at
\* most: every node that handles it sends it on.
AtMostOncePerNode ==
  \A r \in Reqs, i \in Entries : copies[<<r, i>>] <= Cardinality(Nodes)
=============================================================================
