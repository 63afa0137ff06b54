------------------------------- MODULE Login -------------------------------
(***************************************************************************)
(* The life of the connections of ONE user across the nodes of a cluster:  *)
(* HandlerUp and uniqueLogin, the registration in each node's              *)
(* ClientManager, the online record in Redis, the ReadLoop callbacks, and  *)
(* Client.OnClose (service/ws handler_ws.go, client.go, client_manager.go, *)
(* cache.go, redis_proxy.go).  Different users share no key and no entry.  *)
(*                                                                         *)
(* A connection has one goroutine at a time: HandlerUp, then ReadLoop,     *)
(* which ends in Handler.OnClose.  Every access to a manager's map, to     *)
(* Redis and to a socket is a step of its own.                             *)
(***************************************************************************)
EXTENDS Naturals, FiniteSets

CONSTANTS
  Nodes,
  Conns,         \* connection attempts of the user
  Serial,        \* TRUE: a new attempt starts only when no login is running
  Expires,       \* TRUE: the time passes that Redis keeps a record
  RedisFails,    \* TRUE: GETSET, EXPIRE and DEL may return an error
  RpcFails,      \* TRUE: StopUserClient may not reach the other node
  Crashes,       \* TRUE: nodes may crash, and start again
  Nil

ASSUME LoginAssumption ==
  /\ Nil \notin Conns \cup Nodes
  /\ Serial \in BOOLEAN /\ Expires \in BOOLEAN
  /\ RedisFails \in BOOLEAN /\ RpcFails \in BOOLEAN /\ Crashes \in BOOLEAN

VARIABLES
  Clients,        \* node -> ClientManager.Clients[uid], a client or Nil
  ConnClientIdx,  \* the connections in the nodes' ConnClientIdx
  online,         \* the user's record in Redis: the login that wrote it, or Nil
  ttl,            \* whether the record has an expiry
  node,           \* connection -> its node
  sock,           \* connection -> "open" | "closed"
  State,          \* Client.State: "online" | "offline"
  once,           \* Client.closeOnce: "new" | "run" | "done"
  pc,             \* where the connection's goroutine is
  tgt,            \* the client it found in a manager
  old,            \* the record its GETSET returned
  lost,           \* history: the connections a node had before it crashed
  left,           \* history: connection -> the record its failed DEL left, or Nil
  overlap         \* history: the nodes where two logins of the user overlapped

regVars == <<Clients, ConnClientIdx>>
redisVars == <<online, ttl, left>>
placeVars == <<node, overlap>>
connVars == <<sock, State, once>>
vars == <<Clients, ConnClientIdx, online, ttl, node, sock, State, once, pc, tgt, old,
          lost, left, overlap>>

LoginPC == {"unique", "getset", "expire", "undo", "stop", "kick", "add", "addconn"}
OnClosePC == {"once", "delclient", "delconn", "delinfo", "closechan"}

Goto(c, l) == pc' = [pc EXCEPT ![c] = l]

Init ==
  /\ Clients = [n \in Nodes |-> Nil]
  /\ ConnClientIdx = {}
  /\ online = Nil /\ ttl = FALSE
  /\ node = [c \in Conns |-> Nil]
  /\ sock = [c \in Conns |-> "closed"]
  /\ State = [c \in Conns |-> "online"]
  /\ once = [c \in Conns |-> "new"]
  /\ pc = [c \in Conns |-> "none"]
  /\ tgt = [c \in Conns |-> Nil]
  /\ old = [c \in Conns |-> Nil]
  /\ lost = {}
  /\ left = [c \in Conns |-> Nil]
  /\ overlap = {}

-----------------------------------------------------------------------------
(* EXPIRE and DEL of the user's record, whichever login wrote it.  Their       *)
(* errors are ignored; a command that fails but was executed counts as done.   *)

\* The EXPIRE of GetSetUserOnlineInfo and ResetUserOnlineExpTime.
ResetUserOnlineExpTime ==
  /\ ttl' = (online # Nil) \/ (RedisFails /\ UNCHANGED ttl)
  /\ UNCHANGED <<online, left>>

\* DelUserOnlineInfo, called by the goroutine of connection c.
DelUserOnlineInfo(c) ==
  \/ online' = Nil /\ ttl' = FALSE /\ UNCHANGED left
  \/ RedisFails /\ left' = [left EXCEPT ![c] = online] /\ UNCHANGED <<online, ttl>>

-----------------------------------------------------------------------------
(* HandlerUp and uniqueLogin *)

Upgrade(c, n) ==
  /\ pc[c] = "none"
  /\ Serial => \A d \in Conns : pc[d] \notin LoginPC
  /\ node' = [node EXCEPT ![c] = n]
  /\ overlap' = IF \E d \in Conns : node[d] = n /\ pc[d] \in LoginPC
                THEN overlap \cup {n} ELSE overlap
  /\ sock' = [sock EXCEPT ![c] = "open"]
  /\ Goto(c, "unique")
  /\ UNCHANGED <<regVars, redisVars, State, once, tgt, old>>

\* HandlerUp's error path: the refused socket is closed and has no ReadLoop.
Reject(c) ==
  /\ sock' = [sock EXCEPT ![c] = "closed"]
  /\ Goto(c, "end")
  /\ tgt' = [tgt EXCEPT ![c] = Nil]
  /\ old' = [old EXCEPT ![c] = Nil]

\* Mutant: uniqueLogin relies on Redis alone.
UniqueLoginBlind(c) ==
  /\ pc[c] = "unique"
  /\ Goto(c, "getset")
  /\ UNCHANGED <<regVars, redisVars, connVars, placeVars, tgt, old>>

\* uniqueLogin looks for a client of the user on this node.
UniqueLogin(c) ==
  /\ pc[c] = "unique"
  /\ tgt' = [tgt EXCEPT ![c] = Clients[node[c]]]
  /\ Goto(c, IF Clients[node[c]] = Nil THEN "getset" ELSE "kick")
  /\ UNCHANGED <<regVars, redisVars, connVars, placeVars, old>>

\* Mutant: the record stays when GETSET fails.
GetSetGivesUp(c) ==
  /\ pc[c] = "getset"
  /\ \/ /\ online' = c
        /\ ttl' = FALSE
        /\ old' = [old EXCEPT ![c] = online]
        /\ Goto(c, "expire")
        /\ UNCHANGED <<left, sock, tgt>>
     \/ /\ RedisFails
        /\ Reject(c)
        /\ UNCHANGED redisVars
  /\ UNCHANGED <<regVars, State, once, placeVars>>

\* GetSetUserOnlineInfo: GETSET, which drops the key's expiry.  When it fails
\* it may have been executed all the same.
GetSet(c) ==
  /\ pc[c] = "getset"
  /\ \/ /\ online' = c
        /\ ttl' = FALSE
        /\ old' = [old EXCEPT ![c] = online]
        /\ Goto(c, "expire")
     \/ /\ RedisFails
        /\ Goto(c, "undo")
        /\ \/ online' = c /\ ttl' = FALSE
           \/ UNCHANGED <<online, ttl>>
        /\ UNCHANGED old
  /\ UNCHANGED <<regVars, left, connVars, placeVars, tgt>>

\* GetSetUserOnlineInfo after GETSET: EXPIRE, and the old record is decoded,
\* which cannot fail: it was encoded for an earlier GETSET.  Then uniqueLogin
\* accepts, or goes on to refuse.
SetExpire(c) ==
  /\ pc[c] = "expire"
  /\ ResetUserOnlineExpTime
  /\ Goto(c, IF old[c] = Nil THEN "add" ELSE "undo")
  /\ UNCHANGED <<regVars, connVars, placeVars, tgt, old>>

\* Mutant: a refused login leaves its own record behind.
UndoNothing(c) ==
  /\ pc[c] = "undo"
  /\ \/ old[c] # Nil /\ Goto(c, "stop") /\ UNCHANGED <<sock, tgt, old>>
     \/ old[c] = Nil /\ Reject(c)
  /\ UNCHANGED <<regVars, redisVars, State, once, placeVars>>

\* uniqueLogin's DelUserOnlineInfo on a failed or duplicate login.
Undo(c) ==
  /\ pc[c] = "undo"
  /\ DelUserOnlineInfo(c)
  /\ \/ old[c] # Nil /\ Goto(c, "stop") /\ UNCHANGED <<sock, tgt, old>>
     \/ old[c] = Nil /\ Reject(c)
  /\ UNCHANGED <<regVars, State, once, placeVars>>

\* Proxy.StopUserClient: StopClient on this node, or an RPC to the node of the
\* old record, which may fail.
StopUserClient(c) ==
  /\ pc[c] = "stop"
  /\ \/ /\ tgt' = [tgt EXCEPT ![c] = Clients[node[old[c]]]]
        /\ Goto(c, "kick")
        /\ UNCHANGED <<sock, old>>
     \/ /\ RpcFails /\ node[old[c]] # node[c]
        /\ Reject(c)
  /\ UNCHANGED <<regVars, redisVars, State, once, placeVars>>

\* Client.Close on the client found, if any: nothing when it is offline.
\* Then the new connection is refused.
Kick(c) ==
  LET d == tgt[c] IN
  /\ pc[c] = "kick"
  /\ IF d # Nil /\ State[d] = "online"
     THEN /\ State' = [State EXCEPT ![d] = "offline"]
          /\ sock' = [sock EXCEPT ![d] = "closed", ![c] = "closed"]
     ELSE /\ sock' = [sock EXCEPT ![c] = "closed"]
          /\ UNCHANGED State
  /\ Goto(c, "end")
  /\ tgt' = [tgt EXCEPT ![c] = Nil]
  /\ old' = [old EXCEPT ![c] = Nil]
  /\ UNCHANGED <<regVars, redisVars, once, placeVars>>

\* NewClient and ClientManager.OnConnect.
AddClient(c) ==
  /\ pc[c] = "add"
  /\ Clients' = [Clients EXCEPT ![node[c]] = c]
  /\ Goto(c, "addconn")
  /\ UNCHANGED <<ConnClientIdx, redisVars, connVars, placeVars, tgt, old>>

AddClientConn(c) ==
  /\ pc[c] = "addconn"
  /\ ConnClientIdx' = ConnClientIdx \cup {c}
  /\ Goto(c, "read")
  /\ UNCHANGED <<Clients, redisVars, connVars, placeVars, tgt, old>>

-----------------------------------------------------------------------------
(* The connection in use *)

\* Handler.OnPing: the heartbeat of the user's registered client prolongs the
\* record; a socket whose user has no client is closed.
OnPing(c) ==
  /\ pc[c] = "read" /\ sock[c] = "open"
  /\ IF Clients[node[c]] # Nil
     THEN ResetUserOnlineExpTime /\ UNCHANGED sock
     ELSE sock' = [sock EXCEPT ![c] = "closed"] /\ UNCHANGED redisVars
  /\ UNCHANGED <<regVars, State, once, placeVars, pc, tgt, old>>

\* Handler.OnMessage on a socket that has no client: it is closed.
OnMessageUnknown(c) ==
  /\ pc[c] = "read" /\ sock[c] = "open"
  /\ c \notin ConnClientIdx
  /\ sock' = [sock EXCEPT ![c] = "closed"]
  /\ UNCHANGED <<regVars, redisVars, State, once, placeVars, pc, tgt, old>>

\* The peer or the network closes the socket, or its read deadline passes.
SocketFails(c) ==
  /\ sock[c] = "open"
  /\ sock' = [sock EXCEPT ![c] = "closed"]
  /\ UNCHANGED <<regVars, redisVars, State, once, placeVars, pc, tgt, old>>

\* Client.Close from a full send channel, a failed write or CloseClient.
Close(c) ==
  /\ pc[c] \in {"addconn", "read"} \cup OnClosePC /\ State[c] = "online"
  /\ State' = [State EXCEPT ![c] = "offline"]
  /\ sock' = [sock EXCEPT ![c] = "closed"]
  /\ UNCHANGED <<regVars, redisVars, once, placeVars, pc, tgt, old>>

\* Redis drops the record: no heartbeat came, or its EXPIRE failed.
Expire ==
  /\ Expires
  /\ online # Nil /\ ttl
  /\ online' = Nil /\ ttl' = FALSE
  /\ UNCHANGED <<regVars, left, placeVars, connVars, pc, tgt, old, lost>>

-----------------------------------------------------------------------------
(* Handler.OnClose and Client.OnClose *)

\* ReadLoop ends and Handler.OnClose looks the client up by user id.
OnClose(c) ==
  /\ pc[c] = "read" /\ sock[c] = "closed"
  /\ tgt' = [tgt EXCEPT ![c] = Clients[node[c]]]
  /\ Goto(c, IF Clients[node[c]] = Nil THEN "end" ELSE "once")
  /\ UNCHANGED <<regVars, redisVars, connVars, placeVars, old>>

\* closeOnce.Do: the first caller runs the body, the others wait for its end.
OnceDo(c) ==
  LET d == tgt[c] IN
  /\ pc[c] = "once"
  /\ \/ /\ once[d] = "new"
        /\ once' = [once EXCEPT ![d] = "run"]
        /\ State' = [State EXCEPT ![d] = "offline"]
        /\ Goto(c, "delclient")
        /\ UNCHANGED tgt
     \/ /\ once[d] = "done"
        /\ Goto(c, "end")
        /\ tgt' = [tgt EXCEPT ![c] = Nil]
        /\ UNCHANGED <<once, State>>
  /\ UNCHANGED <<regVars, redisVars, sock, placeVars, old>>

\* Mutant: the client stays registered.
DelClientForgotten(c) ==
  /\ pc[c] = "delclient"
  /\ Goto(c, "delconn")
  /\ UNCHANGED <<regVars, redisVars, connVars, placeVars, tgt, old>>

\* ClientManager.DelClient removes the user's entry, whichever client it is.
DelClient(c) ==
  /\ pc[c] = "delclient"
  /\ Clients' = [Clients EXCEPT ![node[c]] = Nil]
  /\ Goto(c, "delconn")
  /\ UNCHANGED <<ConnClientIdx, redisVars, connVars, placeVars, tgt, old>>

\* Mutant: the index entry stays.
DelClientConnForgotten(c) ==
  /\ pc[c] = "delconn"
  /\ Goto(c, "delinfo")
  /\ UNCHANGED <<regVars, redisVars, connVars, placeVars, tgt, old>>

DelClientConn(c) ==
  /\ pc[c] = "delconn"
  /\ ConnClientIdx' = ConnClientIdx \ {tgt[c]}
  /\ Goto(c, "delinfo")
  /\ UNCHANGED <<Clients, redisVars, connVars, placeVars, tgt, old>>

DelInfo(c) ==
  /\ pc[c] = "delinfo"
  /\ DelUserOnlineInfo(c)
  /\ Goto(c, "closechan")
  /\ UNCHANGED <<regVars, connVars, placeVars, tgt, old>>

\* closeSendChan and the callback; closeOnce is done.
CloseSendChan(c) ==
  /\ pc[c] = "closechan"
  /\ once' = [once EXCEPT ![tgt[c]] = "done"]
  /\ Goto(c, "end")
  /\ tgt' = [tgt EXCEPT ![c] = Nil]
  /\ UNCHANGED <<regVars, redisVars, sock, State, placeVars, old>>

-----------------------------------------------------------------------------
\* The end of a node's process, by a crash or by CloseServer, which closes no
\* client: its memory and its sockets go, and nobody deletes the online record.
\* The node may serve again at once.
Crash(n) ==
  LET here == {c \in Conns : node[c] = n} IN
  /\ Crashes
  /\ Clients' = [Clients EXCEPT ![n] = Nil]
  /\ ConnClientIdx' = ConnClientIdx \ here
  /\ sock' = [c \in Conns |-> IF c \in here THEN "closed" ELSE sock[c]]
  /\ pc' = [c \in Conns |-> IF c \in here THEN "end" ELSE pc[c]]
  /\ tgt' = [c \in Conns |-> IF c \in here THEN Nil ELSE tgt[c]]
  /\ old' = [c \in Conns |-> IF c \in here THEN Nil ELSE old[c]]
  /\ lost' = lost \cup here
  /\ UNCHANGED <<redisVars, placeVars, State, once>>

LoginStep(c) ==
  \/ UniqueLogin(c) \/ GetSet(c) \/ SetExpire(c) \/ Undo(c) \/ StopUserClient(c)
  \/ Kick(c) \/ AddClient(c) \/ AddClientConn(c)

OnCloseStep(c) ==
  \/ OnClose(c) \/ OnceDo(c) \/ DelClient(c) \/ DelClientConn(c)
  \/ DelInfo(c) \/ CloseSendChan(c)

Environment(c) ==
  \/ \E n \in Nodes : Upgrade(c, n)
  \/ OnPing(c) \/ OnMessageUnknown(c) \/ SocketFails(c) \/ Close(c)

Next ==
  \/ Expire \/ (\E n \in Nodes : Crash(n))
  \/ \E c \in Conns : (LoginStep(c) \/ OnCloseStep(c) \/ Environment(c)) /\ UNCHANGED lost

Spec == Init /\ [][Next]_vars

\* Goroutines are scheduled; what the peer does and when Redis expires a key
\* is not up to the program.
FairSpec ==
  Spec /\ \A c \in Conns : WF_vars(LoginStep(c) /\ UNCHANGED lost) /\ WF_vars(OnCloseStep(c) /\ UNCHANGED lost)

-----------------------------------------------------------------------------
(* Properties *)

\* The variables have their types: ClientManager's indexes and the online record
\* refer to connections of the user.
TypeOK ==
  /\ Clients \in [Nodes -> Conns \cup {Nil}]
  /\ ConnClientIdx \subseteq Conns
  /\ online \in Conns \cup {Nil}
  /\ ttl \in BOOLEAN
  /\ node \in [Conns -> Nodes \cup {Nil}]
  /\ sock \in [Conns -> {"open", "closed"}]
  /\ State \in [Conns -> {"online", "offline"}]
  /\ once \in [Conns -> {"new", "run", "done"}]
  /\ pc \in [Conns -> {"none", "read", "end"} \cup LoginPC \cup OnClosePC]
  /\ tgt \in [Conns -> Conns \cup {Nil}]
  /\ old \in [Conns -> Conns \cup {Nil}]
  /\ lost \subseteq Conns
  /\ left \in [Conns -> Conns \cup {Nil}]
  /\ overlap \subseteq Nodes

\* A connection that is open and served.
Connected(c) == pc[c] = "read" /\ sock[c] = "open"

\* A user has at most one connection (README.md: one connection per uid at a
\* time): uniqueLogin, the managers' maps and the Redis record against closes.
OneConnection == \A c, d \in Conns : Connected(c) /\ Connected(d) => c = d

\* On one node, what Redis does: uniqueLogin's look into ClientManager and the
\* order of OnClose keep a user to one connection, as long as no two logins of
\* the user ran there at a time, which nothing in HandlerUp excludes.
OnePerNode ==
  \A c, d \in Conns :
    Connected(c) /\ Connected(d) /\ node[c] = node[d] /\ node[c] \notin overlap => c = d

\* A record that a crash or a failed DEL left in Redis.
Stale(r) == r \in lost \/ (r # Nil /\ \E d \in Conns : left[d] = r)

\* The user's online record never outlives its purpose: its login is still
\* running, or a client is registered on its node whose OnClose will delete
\* it, or such an OnClose is just before its DelUserOnlineInfo.  Only a crash
\* or a DEL that fails leaves a record behind.
NoOrphanRecord ==
  online # Nil =>
    \/ Stale(online)
    \/ pc[online] \in {"expire", "undo", "add"}
    \/ Clients[node[online]] # Nil
    \/ \E c \in Conns : node[c] = node[online] /\ pc[c] \in {"delconn", "delinfo"}

\* A registered client's goroutine has still to run Handler.OnClose: no entry
\* of ClientManager.Clients is left behind by a connection that is gone.
RegisteredHasReader ==
  \A n \in Nodes : Clients[n] # Nil =>
    pc[Clients[n]] \in {"addconn", "read", "once", "delclient"}

\* A client that was closed, by whomever, is unregistered: the user is not
\* locked out of the node by an entry nobody removes.
Unregisters(c) ==
  \A n \in Nodes : Clients[n] = c /\ sock[c] = "closed" ~> Clients[n] # c

\* When every connection is closed for good, no client of the user remains in
\* ClientManager, no record but one that a crash or a failed DEL left, and no
\* entry of ConnClientIdx but on a node where two logins overlapped: there the
\* client that was replaced in Clients keeps its entry.
CleanedUp ==
  <>[](\A c \in Conns : sock[c] = "closed") =>
    <>[]( /\ online = Nil \/ Stale(online)
          /\ \A n \in Nodes : Clients[n] = Nil
          /\ \A c \in ConnClientIdx : node[c] \in overlap )

\* The record a crash or a failed DEL left behind, even one without expiry, is
\* gone after the next login that asks Redis, also if its GETSET fails: it locks
\* the user out once, unless that login's own DEL fails or its node crashes.
EndsLockout(c) ==
  pc[c] = "getset" /\ Stale(online) ~> ~Stale(online) \/ c \in lost \/ left[c] # Nil

-----------------------------------------------------------------------------
(* The inductive invariant behind RegisteredHasReader and NoOrphanRecord *)

\* A login that has not registered its client yet.
Unborn(c) == pc[c] \in {"none"} \cup (LoginPC \ {"addconn"})

\* What a goroutine of OnClose knows of its target: it is a client of the same
\* node that was registered; it is no longer once DelClient ran; and it is the
\* connection itself unless another client took the connection's place.
TargetOK(c) ==
  pc[c] \in OnClosePC =>
    /\ tgt[c] # Nil
    /\ node[tgt[c]] = node[c]
    /\ ~Unborn(tgt[c])
    /\ pc[c] \in {"delconn", "delinfo", "closechan"} => \A n \in Nodes : Clients[n] # tgt[c]
    /\ tgt[c] # c => \A n \in Nodes : Clients[n] # c

ConnOK(c) ==
  /\ pc[c] # "none" => node[c] \in Nodes
  /\ pc[c] = "stop" => old[c] # Nil
  /\ old[c] # Nil => pc[old[c]] # "none"
  /\ once[c] = "done" => ~Unborn(c) /\ \A n \in Nodes : Clients[n] # c

RegisteredOK(n) ==
  Clients[n] # Nil =>
    /\ node[Clients[n]] = n
    /\ pc[Clients[n]] \in {"addconn", "read", "once", "delclient"}

IInv ==
  /\ TypeOK
  /\ \A c \in Conns : TargetOK(c)
  /\ \A c \in Conns : ConnOK(c)
  /\ \A n \in Nodes : RegisteredOK(n)
  /\ online # Nil => pc[online] # "none"
  /\ NoOrphanRecord
=============================================================================
