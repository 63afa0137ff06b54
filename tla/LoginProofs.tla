---------------------------- MODULE LoginProofs ----------------------------
(***************************************************************************)
(* For any number of nodes and connections: every registered client has a  *)
(* goroutine that will unregister it, and the user's online record always  *)
(* has somebody who will delete it, unless a node crashed or a DEL failed; *)
(* and a node on which no two logins overlapped serves one connection.     *)
(***************************************************************************)
EXTENDS Login, TLAPS

\* Leaves that Zenon cannot do name SMT.
USE Zenon

\* DelUserOnlineInfo keeps the record and what it leaves behind in their types.
LEMMA DelTypes ==
  ASSUME TypeOK, NEW c \in Conns, DelUserOnlineInfo(c)
  PROVE  /\ online' \in Conns \cup {Nil} /\ ttl' \in BOOLEAN
         /\ left' \in [Conns -> Conns \cup {Nil}]
<1>1. CASE online' = Nil /\ ttl' = FALSE /\ UNCHANGED left
  BY <1>1 DEF TypeOK
<1>2. CASE left' = [left EXCEPT ![c] = online] /\ UNCHANGED <<online, ttl>>
  BY <1>2 DEF TypeOK
<1> QED
  BY <1>1, <1>2 DEF DelUserOnlineInfo

\* After it the record is gone, or the failed DEL has left it behind.
LEMMA DelEnds ==
  ASSUME TypeOK, NEW c \in Conns, DelUserOnlineInfo(c)
  PROVE  /\ online' = online \/ online' = Nil
         /\ NoOrphanRecord'
<1>1. CASE online' = Nil
  BY <1>1 DEF NoOrphanRecord
<1>2. CASE left' = [left EXCEPT ![c] = online] /\ UNCHANGED online
  BY SMT, <1>2 DEF TypeOK, NoOrphanRecord, Stale
<1> QED
  BY <1>1, <1>2 DEF DelUserOnlineInfo

\* Every step keeps the variables in their types.
LEMMA TypeStep ==
  ASSUME TypeOK, \A c \in Conns : ConnOK(c) /\ TargetOK(c), [Next]_vars
  PROVE  TypeOK'
<1> USE LoginAssumption DEF TypeOK
<1>1. ASSUME NEW c \in Conns, LoginStep(c), UNCHANGED lost PROVE TypeOK'
  <2>0. node[c] \in Nodes \/ pc[c] = "none"
    BY DEF ConnOK
  <2>1. CASE UniqueLogin(c)
    BY <1>1, <2>1, <2>0 DEF UniqueLogin, Goto, regVars, redisVars, connVars, LoginPC,
                            placeVars
  <2>2. CASE GetSet(c)
    <3>1. pc' \in [Conns -> {"none", "read", "end"} \cup LoginPC \cup OnClosePC]
      BY SMT, <1>1, <2>2 DEF GetSet, Goto, LoginPC
    <3>2. old' \in [Conns -> Conns \cup {Nil}] /\ online' \in Conns \cup {Nil}
      BY SMT, <1>1, <2>2 DEF GetSet, redisVars, placeVars
    <3>3. ttl' \in BOOLEAN
      BY <1>1, <2>2 DEF GetSet, redisVars, placeVars
    <3> QED
      BY <1>1, <2>2, <3>1, <3>2, <3>3 DEF GetSet, regVars, connVars, placeVars
  <2>3. CASE SetExpire(c)
    BY <1>1, <2>3 DEF SetExpire, ResetUserOnlineExpTime, Goto, regVars, redisVars, connVars,
                      LoginPC, placeVars
  <2>4. CASE Undo(c)
    <3>1. pc' \in [Conns -> {"none", "read", "end"} \cup LoginPC \cup OnClosePC]
      BY SMT, <1>1, <2>4 DEF Undo, Reject, Goto, LoginPC
    <3>2. /\ sock' \in [Conns -> {"open", "closed"}]
          /\ old' \in [Conns -> Conns \cup {Nil}]
          /\ tgt' \in [Conns -> Conns \cup {Nil}]
      BY SMT, <1>1, <2>4 DEF Undo, Reject
    <3>3. DelUserOnlineInfo(c)
      BY <2>4 DEF Undo
    <3> QED
      BY <1>1, <2>4, <3>1, <3>2, <3>3, DelTypes DEF Undo, regVars, placeVars
  <2>5. CASE StopUserClient(c)
    <3>1. old[c] \in Conns /\ node[old[c]] \in Nodes
      BY <1>1, <2>5 DEF StopUserClient, ConnOK
    <3> QED
      BY SMT, <1>1, <2>5, <3>1 DEF StopUserClient, Reject, Goto, regVars, redisVars,
                                   connVars, LoginPC, placeVars
  <2>6. CASE Kick(c)
    BY SMT, <1>1, <2>6 DEF Kick, Goto, regVars, redisVars, connVars, LoginPC, placeVars
  <2>7. CASE AddClient(c)
    BY <1>1, <2>7, <2>0 DEF AddClient, Goto, regVars, redisVars, connVars, LoginPC,
                            placeVars
  <2>8. CASE AddClientConn(c)
    BY <1>1, <2>8 DEF AddClientConn, Goto, regVars, redisVars, connVars, LoginPC, placeVars
  <2> QED
    BY <1>1, <2>1, <2>2, <2>3, <2>4, <2>5, <2>6, <2>7, <2>8 DEF LoginStep
<1>2. ASSUME NEW c \in Conns, OnCloseStep(c), UNCHANGED lost PROVE TypeOK'
  <2>0. /\ node[c] \in Nodes \/ pc[c] = "none"
        /\ pc[c] \in OnClosePC => tgt[c] \in Conns
    BY SMT DEF ConnOK, TargetOK
  <2>1. CASE OnClose(c)
    BY <1>2, <2>1, <2>0 DEF OnClose, Goto, regVars, redisVars, connVars, OnClosePC,
                            placeVars
  <2>2. CASE OnceDo(c)
    BY SMT, <1>2, <2>2, <2>0 DEF OnceDo, Goto, regVars, redisVars, connVars, OnClosePC,
                                 placeVars
  <2>3. CASE DelClient(c)
    BY <1>2, <2>3, <2>0 DEF DelClient, Goto, regVars, redisVars, connVars, OnClosePC,
                            placeVars
  <2>4. CASE DelClientConn(c)
    BY <1>2, <2>4, <2>0 DEF DelClientConn, Goto, regVars, redisVars, connVars, OnClosePC,
                            placeVars
  <2>5. CASE DelInfo(c)
    BY <1>2, <2>5, <2>0, DelTypes DEF DelInfo, Goto, regVars, connVars, OnClosePC, placeVars
  <2>6. CASE CloseSendChan(c)
    BY <1>2, <2>6, <2>0 DEF CloseSendChan, Goto, regVars, redisVars, connVars, OnClosePC,
                            placeVars
  <2> QED
    BY <1>2, <2>1, <2>2, <2>3, <2>4, <2>5, <2>6 DEF OnCloseStep
<1>3. ASSUME NEW c \in Conns, Environment(c), UNCHANGED lost PROVE TypeOK'
  <2>1. ASSUME NEW n \in Nodes, Upgrade(c, n) PROVE TypeOK'
    BY <1>3, <2>1 DEF Upgrade, Goto, regVars, redisVars, LoginPC, placeVars
  <2>2. CASE OnPing(c)
    BY <1>3, <2>2 DEF OnPing, ResetUserOnlineExpTime, regVars, redisVars, placeVars
  <2>3. CASE OnMessageUnknown(c) \/ SocketFails(c) \/ Close(c)
    BY SMT, <1>3, <2>3 DEF OnMessageUnknown, SocketFails, Close, regVars, redisVars,
                           placeVars
  <2> QED
    BY <1>3, <2>1, <2>2, <2>3 DEF Environment
<1>4. CASE Expire
  BY <1>4 DEF Expire, regVars, connVars, placeVars
<1>5. CASE UNCHANGED vars
  BY <1>5 DEF vars
<1>6. ASSUME NEW n \in Nodes, Crash(n) PROVE TypeOK'
  <2>1. /\ sock' \in [Conns -> {"open", "closed"}]
        /\ pc' \in [Conns -> {"none", "read", "end"} \cup LoginPC \cup OnClosePC]
    BY <1>6 DEF Crash
  <2>2. tgt' \in [Conns -> Conns \cup {Nil}] /\ old' \in [Conns -> Conns \cup {Nil}]
    BY <1>6 DEF Crash
  <2> QED
    BY <1>6, <2>1, <2>2 DEF Crash, redisVars, placeVars
<1> QED
  BY <1>1, <1>2, <1>3, <1>4, <1>5, <1>6 DEF Next

\* The invariant without its types.
Links ==
  /\ \A c \in Conns : TargetOK(c) /\ ConnOK(c)
  /\ \A n \in Nodes : RegisteredOK(n)
  /\ online # Nil => pc[online] # "none"
  /\ NoOrphanRecord

\* Steps that touch only sockets, client states, expiry and ConnClientIdx.
LEMMA QuietStep ==
  ASSUME Links, UNCHANGED <<Clients, node, once, pc, tgt, old, lost, left>>,
         online' \in {online, Nil}
  PROVE  Links'
BY SMT DEF Links, TargetOK, ConnOK, RegisteredOK, NoOrphanRecord, Stale, Unborn

\* uniqueLogin's lookup only moves the login on.
LEMMA UniqueLoginKeeps ==
  ASSUME TypeOK, Links, NEW c \in Conns, UniqueLogin(c), UNCHANGED lost
  PROVE  Links'
<1> USE LoginAssumption DEF TypeOK, Links, UniqueLogin, regVars, redisVars, connVars, Goto,
                            placeVars
<1>1. ASSUME NEW d \in Conns PROVE TargetOK(d)'
  BY SMT DEF TargetOK, ConnOK, RegisteredOK, Unborn, OnClosePC, LoginPC
<1>2. ASSUME NEW d \in Conns PROVE ConnOK(d)'
  BY SMT DEF TargetOK, ConnOK, Unborn, OnClosePC, LoginPC
<1>3. ASSUME NEW n \in Nodes PROVE RegisteredOK(n)'
  BY SMT DEF TargetOK, ConnOK, RegisteredOK, OnClosePC
<1>4. (online # Nil => pc[online] # "none")' /\ NoOrphanRecord'
  BY SMT DEF ConnOK, NoOrphanRecord, Stale
<1> QED
  BY <1>1, <1>2, <1>3, <1>4

\* GETSET makes the login responsible for the record, failed or not.
LEMMA GetSetKeeps ==
  ASSUME TypeOK, Links, NEW c \in Conns, GetSet(c), UNCHANGED lost
  PROVE  Links'
<1> USE LoginAssumption DEF TypeOK, Links, GetSet, regVars, redisVars, connVars, Goto,
                            placeVars
<1>1. ASSUME NEW d \in Conns PROVE TargetOK(d)'
  BY SMT DEF TargetOK, ConnOK, RegisteredOK, Unborn, OnClosePC, LoginPC
<1>2. ASSUME NEW d \in Conns PROVE ConnOK(d)'
  BY SMT DEF TargetOK, ConnOK, Unborn, OnClosePC, LoginPC
<1>3. ASSUME NEW n \in Nodes PROVE RegisteredOK(n)'
  BY SMT DEF TargetOK, ConnOK, RegisteredOK, OnClosePC
<1>4. (online # Nil => pc[online] # "none")' /\ NoOrphanRecord'
  BY SMT DEF ConnOK, NoOrphanRecord, Stale
<1> QED
  BY <1>1, <1>2, <1>3, <1>4

\* EXPIRE leaves the record to a login that will register or undo.
LEMMA SetExpireKeeps ==
  ASSUME TypeOK, Links, NEW c \in Conns, SetExpire(c), UNCHANGED lost
  PROVE  Links'
<1> USE LoginAssumption DEF TypeOK, Links, SetExpire, ResetUserOnlineExpTime, regVars,
                            connVars, Goto, placeVars
<1>1. ASSUME NEW d \in Conns PROVE TargetOK(d)'
  BY SMT DEF TargetOK, ConnOK, RegisteredOK, Unborn, OnClosePC, LoginPC
<1>2. ASSUME NEW d \in Conns PROVE ConnOK(d)'
  BY SMT DEF TargetOK, ConnOK, Unborn, OnClosePC, LoginPC
<1>3. ASSUME NEW n \in Nodes PROVE RegisteredOK(n)'
  BY SMT DEF TargetOK, ConnOK, RegisteredOK, OnClosePC
<1>4. (online # Nil => pc[online] # "none")' /\ NoOrphanRecord'
  BY SMT DEF ConnOK, NoOrphanRecord, Stale
<1> QED
  BY <1>1, <1>2, <1>3, <1>4

\* DelUserOnlineInfo of a refused login: the record is gone, or left behind.
LEMMA UndoKeeps ==
  ASSUME TypeOK, Links, NEW c \in Conns, Undo(c), UNCHANGED lost
  PROVE  Links'
<1> USE LoginAssumption DEF TypeOK, Links, Undo, Reject, regVars, Goto, placeVars
<1>1. ASSUME NEW d \in Conns PROVE TargetOK(d)'
  BY SMT DEF TargetOK, ConnOK, RegisteredOK, Unborn, OnClosePC, LoginPC
<1>2. ASSUME NEW d \in Conns PROVE ConnOK(d)'
  BY SMT DEF TargetOK, ConnOK, Unborn, OnClosePC, LoginPC
<1>3. ASSUME NEW n \in Nodes PROVE RegisteredOK(n)'
  BY SMT DEF TargetOK, ConnOK, RegisteredOK, OnClosePC
<1>4. ASSUME NEW d \in Conns, pc[d] # "none" PROVE pc'[d] # "none"
  BY SMT, <1>4
<1>5. (online # Nil => pc[online] # "none")' /\ NoOrphanRecord'
  BY <1>4, DelEnds
<1> QED
  BY <1>1, <1>2, <1>3, <1>5

\* A refused login that stops the old client owns nothing any more.
LEMMA StopUserClientKeeps ==
  ASSUME TypeOK, Links, NEW c \in Conns, StopUserClient(c), UNCHANGED lost
  PROVE  Links'
<1> USE LoginAssumption DEF TypeOK, Links, StopUserClient, Reject, regVars, redisVars, Goto,
                            placeVars
<1>1. ASSUME NEW d \in Conns PROVE TargetOK(d)'
  BY SMT DEF TargetOK, ConnOK, RegisteredOK, Unborn, OnClosePC, LoginPC
<1>2. ASSUME NEW d \in Conns PROVE ConnOK(d)'
  BY SMT DEF TargetOK, ConnOK, Unborn, OnClosePC, LoginPC
<1>3. ASSUME NEW n \in Nodes PROVE RegisteredOK(n)'
  BY SMT DEF TargetOK, ConnOK, RegisteredOK, OnClosePC
<1>4. (online # Nil => pc[online] # "none")' /\ NoOrphanRecord'
  BY SMT DEF ConnOK, NoOrphanRecord, Stale
<1> QED
  BY <1>1, <1>2, <1>3, <1>4

\* Close on the old client leaves its registration to its own goroutine.
LEMMA KickKeeps ==
  ASSUME TypeOK, Links, NEW c \in Conns, Kick(c), UNCHANGED lost
  PROVE  Links'
<1> USE LoginAssumption DEF TypeOK, Links, Kick, regVars, redisVars, Goto, placeVars
<1>1. ASSUME NEW d \in Conns PROVE TargetOK(d)'
  BY SMT DEF TargetOK, ConnOK, RegisteredOK, Unborn, OnClosePC, LoginPC
<1>2. ASSUME NEW d \in Conns PROVE ConnOK(d)'
  BY SMT DEF TargetOK, ConnOK, Unborn, OnClosePC, LoginPC
<1>3. ASSUME NEW n \in Nodes PROVE RegisteredOK(n)'
  BY SMT DEF TargetOK, ConnOK, RegisteredOK, OnClosePC
<1>4. (online # Nil => pc[online] # "none")' /\ NoOrphanRecord'
  BY SMT DEF ConnOK, NoOrphanRecord, Stale
<1> QED
  BY <1>1, <1>2, <1>3, <1>4

\* The login becomes the registered client, which keeps the record.
LEMMA AddClientKeeps ==
  ASSUME TypeOK, Links, NEW c \in Conns, AddClient(c), UNCHANGED lost
  PROVE  Links'
<1> USE LoginAssumption DEF TypeOK, Links, AddClient, redisVars, connVars, Goto, placeVars
<1>1. ASSUME NEW d \in Conns PROVE TargetOK(d)'
  BY SMT DEF TargetOK, ConnOK, RegisteredOK, Unborn, OnClosePC, LoginPC
<1>2. ASSUME NEW d \in Conns PROVE ConnOK(d)'
  BY SMT DEF TargetOK, ConnOK, Unborn, OnClosePC, LoginPC
<1>3. ASSUME NEW n \in Nodes PROVE RegisteredOK(n)'
  BY SMT DEF TargetOK, ConnOK, RegisteredOK, OnClosePC
<1>4. (online # Nil => pc[online] # "none")' /\ NoOrphanRecord'
  BY SMT DEF ConnOK, NoOrphanRecord, Stale
<1> QED
  BY <1>1, <1>2, <1>3, <1>4

\* The registered client starts reading.
LEMMA AddClientConnKeeps ==
  ASSUME TypeOK, Links, NEW c \in Conns, AddClientConn(c), UNCHANGED lost
  PROVE  Links'
<1> USE LoginAssumption DEF TypeOK, Links, AddClientConn, redisVars, connVars, Goto,
                            placeVars
<1>1. ASSUME NEW d \in Conns PROVE TargetOK(d)'
  BY SMT DEF TargetOK, ConnOK, RegisteredOK, Unborn, OnClosePC, LoginPC
<1>2. ASSUME NEW d \in Conns PROVE ConnOK(d)'
  BY SMT DEF TargetOK, ConnOK, Unborn, OnClosePC, LoginPC
<1>3. ASSUME NEW n \in Nodes PROVE RegisteredOK(n)'
  BY SMT DEF TargetOK, ConnOK, RegisteredOK, OnClosePC
<1>4. (online # Nil => pc[online] # "none")' /\ NoOrphanRecord'
  BY SMT DEF ConnOK, NoOrphanRecord, Stale
<1> QED
  BY <1>1, <1>2, <1>3, <1>4

\* Handler.OnClose takes whichever client is registered as its target.
LEMMA OnCloseKeeps ==
  ASSUME TypeOK, Links, NEW c \in Conns, OnClose(c), UNCHANGED lost
  PROVE  Links'
<1> USE LoginAssumption DEF TypeOK, Links, OnClose, regVars, redisVars, connVars, Goto,
                            placeVars
<1>1. ASSUME NEW d \in Conns PROVE TargetOK(d)'
  BY SMT DEF TargetOK, ConnOK, RegisteredOK, Unborn, OnClosePC, LoginPC
<1>2. ASSUME NEW d \in Conns PROVE ConnOK(d)'
  BY SMT DEF TargetOK, ConnOK, Unborn, OnClosePC, LoginPC
<1>3. ASSUME NEW n \in Nodes PROVE RegisteredOK(n)'
  BY SMT DEF TargetOK, ConnOK, RegisteredOK, OnClosePC
<1>4. (online # Nil => pc[online] # "none")' /\ NoOrphanRecord'
  BY SMT DEF ConnOK, NoOrphanRecord, Stale
<1> QED
  BY <1>1, <1>2, <1>3, <1>4

\* A caller that finds closeOnce done leaves no registration behind.
LEMMA OnceDoKeeps ==
  ASSUME TypeOK, Links, NEW c \in Conns, OnceDo(c), UNCHANGED lost
  PROVE  Links'
<1> USE LoginAssumption DEF TypeOK, Links, OnceDo, regVars, redisVars, Goto, placeVars
<1>1. ASSUME NEW d \in Conns PROVE TargetOK(d)'
  BY SMT DEF TargetOK, ConnOK, RegisteredOK, Unborn, OnClosePC, LoginPC
<1>2. ASSUME NEW d \in Conns PROVE ConnOK(d)'
  BY SMT DEF TargetOK, ConnOK, Unborn, OnClosePC, LoginPC
<1>3. ASSUME NEW n \in Nodes PROVE RegisteredOK(n)'
  BY SMT DEF TargetOK, ConnOK, RegisteredOK, OnClosePC
<1>4. (online # Nil => pc[online] # "none")' /\ NoOrphanRecord'
  BY SMT DEF ConnOK, NoOrphanRecord, Stale
<1> QED
  BY <1>1, <1>2, <1>3, <1>4

\* DelClient hands the record over to the DelUserOnlineInfo to come.
LEMMA DelClientKeeps ==
  ASSUME TypeOK, Links, NEW c \in Conns, DelClient(c), UNCHANGED lost
  PROVE  Links'
<1> USE LoginAssumption DEF TypeOK, Links, DelClient, redisVars, connVars, Goto, placeVars
<1>1. ASSUME NEW d \in Conns PROVE TargetOK(d)'
  BY SMT DEF TargetOK, ConnOK, RegisteredOK, Unborn, OnClosePC, LoginPC
<1>2. ASSUME NEW d \in Conns PROVE ConnOK(d)'
  BY SMT DEF TargetOK, ConnOK, Unborn, OnClosePC, LoginPC
<1>3. ASSUME NEW n \in Nodes PROVE RegisteredOK(n)'
  BY SMT DEF TargetOK, ConnOK, RegisteredOK, OnClosePC
<1>4. (online # Nil => pc[online] # "none")' /\ NoOrphanRecord'
  BY SMT DEF ConnOK, NoOrphanRecord, Stale
<1> QED
  BY <1>1, <1>2, <1>3, <1>4

\* DelClientConn keeps that obligation.
LEMMA DelClientConnKeeps ==
  ASSUME TypeOK, Links, NEW c \in Conns, DelClientConn(c), UNCHANGED lost
  PROVE  Links'
<1> USE LoginAssumption DEF TypeOK, Links, DelClientConn, redisVars, connVars, Goto,
                            placeVars
<1>1. ASSUME NEW d \in Conns PROVE TargetOK(d)'
  BY SMT DEF TargetOK, ConnOK, RegisteredOK, Unborn, OnClosePC, LoginPC
<1>2. ASSUME NEW d \in Conns PROVE ConnOK(d)'
  BY SMT DEF TargetOK, ConnOK, Unborn, OnClosePC, LoginPC
<1>3. ASSUME NEW n \in Nodes PROVE RegisteredOK(n)'
  BY SMT DEF TargetOK, ConnOK, RegisteredOK, OnClosePC
<1>4. (online # Nil => pc[online] # "none")' /\ NoOrphanRecord'
  BY SMT DEF ConnOK, NoOrphanRecord, Stale
<1> QED
  BY <1>1, <1>2, <1>3, <1>4

\* DelUserOnlineInfo fulfils it, or the record counts as left behind.
LEMMA DelInfoKeeps ==
  ASSUME TypeOK, Links, NEW c \in Conns, DelInfo(c), UNCHANGED lost
  PROVE  Links'
<1> USE LoginAssumption DEF TypeOK, Links, DelInfo, regVars, connVars, Goto, placeVars
<1>1. ASSUME NEW d \in Conns PROVE TargetOK(d)'
  BY SMT DEF TargetOK, ConnOK, RegisteredOK, Unborn, OnClosePC, LoginPC
<1>2. ASSUME NEW d \in Conns PROVE ConnOK(d)'
  BY SMT DEF TargetOK, ConnOK, Unborn, OnClosePC, LoginPC
<1>3. ASSUME NEW n \in Nodes PROVE RegisteredOK(n)'
  BY SMT DEF TargetOK, ConnOK, RegisteredOK, OnClosePC
<1>4. ASSUME NEW d \in Conns, pc[d] # "none" PROVE pc'[d] # "none"
  BY SMT, <1>4
<1>5. (online # Nil => pc[online] # "none")' /\ NoOrphanRecord'
  BY <1>4, DelEnds
<1> QED
  BY <1>1, <1>2, <1>3, <1>5

\* closeOnce is done only when the target is unregistered.
LEMMA CloseSendChanKeeps ==
  ASSUME TypeOK, Links, NEW c \in Conns, CloseSendChan(c), UNCHANGED lost
  PROVE  Links'
<1> USE LoginAssumption DEF TypeOK, Links, CloseSendChan, regVars, redisVars, Goto,
                            placeVars
<1>1. ASSUME NEW d \in Conns PROVE TargetOK(d)'
  BY SMT DEF TargetOK, ConnOK, RegisteredOK, Unborn, OnClosePC, LoginPC
<1>2. ASSUME NEW d \in Conns PROVE ConnOK(d)'
  BY SMT DEF TargetOK, ConnOK, Unborn, OnClosePC, LoginPC
<1>3. ASSUME NEW n \in Nodes PROVE RegisteredOK(n)'
  BY SMT DEF TargetOK, ConnOK, RegisteredOK, OnClosePC
<1>4. (online # Nil => pc[online] # "none")' /\ NoOrphanRecord'
  BY SMT DEF ConnOK, NoOrphanRecord, Stale
<1> QED
  BY <1>1, <1>2, <1>3, <1>4

\* A new connection is nobody's client, target or record.
LEMMA UpgradeKeeps ==
  ASSUME TypeOK, Links, NEW c \in Conns, NEW m \in Nodes, Upgrade(c, m), UNCHANGED lost
  PROVE  Links'
<1> USE LoginAssumption DEF TypeOK, Links, Upgrade, regVars, redisVars, Goto, placeVars
<1>1. ASSUME NEW d \in Conns PROVE TargetOK(d)'
  BY SMT DEF TargetOK, ConnOK, Unborn, OnClosePC, LoginPC
<1>2. ASSUME NEW d \in Conns PROVE ConnOK(d)'
  BY SMT DEF ConnOK, Unborn, LoginPC
<1>3. ASSUME NEW n \in Nodes PROVE RegisteredOK(n)'
  BY SMT DEF RegisteredOK
<1>4. online # Nil => online # c
  OBVIOUS
<1>5. ASSUME NEW d \in Conns, d # c PROVE pc'[d] = pc[d] /\ node'[d] = node[d]
  BY <1>5
<1>6. (online # Nil => pc[online] # "none")'
  BY <1>4, <1>5
<1>7. NoOrphanRecord'
  BY SMT, <1>4, <1>5 DEF NoOrphanRecord, Stale
<1> QED
  BY <1>1, <1>2, <1>3, <1>6, <1>7

\* A crash ends all goroutines of the node at once, so that none of them waits
\* for another, and the records they were responsible for count as lost.
LEMMA CrashKeeps ==
  ASSUME TypeOK, Links, NEW m \in Nodes, Crash(m)
  PROVE  Links'
<1> USE LoginAssumption DEF TypeOK, Links, Crash, redisVars, placeVars
<1>0. /\ \A d \in Conns : node[d] # m =>
           pc'[d] = pc[d] /\ tgt'[d] = tgt[d] /\ old'[d] = old[d]
      /\ \A d \in Conns : node[d] = m => pc'[d] = "end" /\ old'[d] = Nil /\ d \in lost'
      /\ \A n \in Nodes : n # m => Clients'[n] = Clients[n]
      /\ Clients'[m] = Nil /\ lost \subseteq lost' /\ UNCHANGED <<node, once, online>>
  OBVIOUS
<1>1. ASSUME NEW d \in Conns PROVE TargetOK(d)'
  <2>1. CASE node[d] = m
    BY <1>0, <2>1 DEF TargetOK, OnClosePC
  <2>2. CASE node[d] # m
    <3> SUFFICES ASSUME pc[d] \in OnClosePC PROVE TargetOK(d)'
      BY <1>0, <2>2 DEF TargetOK
    <3>1. tgt[d] \in Conns /\ node[tgt[d]] = node[d]
      BY DEF TargetOK
    <3> QED
      BY SMT, <1>0, <2>2, <3>1 DEF TargetOK, Unborn
  <2> QED
    BY <2>1, <2>2
<1>2. ASSUME NEW d \in Conns PROVE ConnOK(d)'
  BY SMT, <1>0 DEF ConnOK, Unborn, LoginPC
<1>3. ASSUME NEW n \in Nodes PROVE RegisteredOK(n)'
  BY SMT, <1>0 DEF RegisteredOK
<1>4. (online # Nil => pc[online] # "none")'
  BY SMT, <1>0
<1>5. NoOrphanRecord'
  BY SMT, <1>0 DEF ConnOK, NoOrphanRecord, Stale
<1> QED
  BY <1>1, <1>2, <1>3, <1>4, <1>5

-----------------------------------------------------------------------------
\* The inductive invariant holds in every state: what uniqueLogin, the
\* registration and OnClose leave to one another is never dropped.
THEOREM LoginInvariant == Spec => []IInv
<1>1. Init => IInv
  <2> SUFFICES ASSUME Init PROVE IInv
    OBVIOUS
  <2> USE LoginAssumption DEF Init
  <2>1. TypeOK
    BY DEF TypeOK
  <2>2. ASSUME NEW c \in Conns PROVE TargetOK(c) /\ ConnOK(c)
    BY DEF TargetOK, ConnOK, OnClosePC
  <2>3. ASSUME NEW n \in Nodes PROVE RegisteredOK(n)
    BY DEF RegisteredOK
  <2> QED
    BY <2>1, <2>2, <2>3 DEF IInv, NoOrphanRecord, Stale
<1>2. IInv /\ [Next]_vars => IInv'
  <2> SUFFICES ASSUME IInv, [Next]_vars PROVE IInv'
    OBVIOUS
  <2>1. TypeOK /\ Links
    BY DEF IInv, Links
  <2>2. TypeOK'
    BY <2>1, TypeStep DEF Links
  <2>3. ASSUME NEW c \in Conns, LoginStep(c), UNCHANGED lost PROVE Links'
    BY <2>1, <2>3, UniqueLoginKeeps, GetSetKeeps, SetExpireKeeps, UndoKeeps,
       StopUserClientKeeps, KickKeeps, AddClientKeeps, AddClientConnKeeps
    DEF LoginStep
  <2>4. ASSUME NEW c \in Conns, OnCloseStep(c), UNCHANGED lost PROVE Links'
    BY <2>1, <2>4, OnCloseKeeps, OnceDoKeeps, DelClientKeeps, DelClientConnKeeps,
       DelInfoKeeps, CloseSendChanKeeps
    DEF OnCloseStep
  <2>5. ASSUME NEW c \in Conns, Environment(c), UNCHANGED lost PROVE Links'
    <3>1. CASE \E n \in Nodes : Upgrade(c, n)
      BY <2>1, <2>5, <3>1, UpgradeKeeps
    <3>2. CASE OnPing(c) \/ OnMessageUnknown(c) \/ SocketFails(c) \/ Close(c)
      <4>1. online' = online /\ UNCHANGED <<Clients, node, once, pc, tgt, old, lost, left>>
        BY <2>5, <3>2 DEF OnPing, ResetUserOnlineExpTime, OnMessageUnknown, SocketFails,
                          Close, regVars, redisVars, placeVars
      <4> QED
        BY <2>1, <4>1, QuietStep
    <3> QED
      BY <2>5, <3>1, <3>2 DEF Environment
  <2>6. ASSUME Expire PROVE Links'
    <3>1. online' = Nil /\ UNCHANGED <<Clients, node, once, pc, tgt, old, lost, left>>
      BY <2>6 DEF Expire, regVars, connVars, placeVars
    <3> QED
      BY <2>1, <3>1, QuietStep
  <2>7. ASSUME UNCHANGED vars PROVE Links'
    <3>1. online' = online /\ UNCHANGED <<Clients, node, once, pc, tgt, old, lost, left>>
      BY <2>7 DEF vars
    <3> QED
      BY <2>1, <3>1, QuietStep
  <2>8. ASSUME NEW n \in Nodes, Crash(n) PROVE Links'
    BY <2>1, <2>8, CrashKeeps
  <2>9. Links'
    BY <2>3, <2>4, <2>5, <2>6, <2>7, <2>8 DEF Next
  <2> QED
    BY <2>2, <2>9 DEF IInv, Links
<1> QED
  BY <1>1, <1>2, PTL DEF Spec

\* The maps and records hold values of their types.
THEOREM LoginTypes == Spec => []TypeOK
BY LoginInvariant, PTL DEF IInv

\* No entry of ClientManager.Clients is left behind by a connection that is
\* gone, on any node and with any number of overlapping logins.
THEOREM RegisteredClientsAreServed == Spec => []RegisteredHasReader
<1>1. IInv => RegisteredHasReader
  BY DEF IInv, RegisteredOK, RegisteredHasReader
<1> QED
  BY LoginInvariant, <1>1, PTL

\* The online record in Redis always has somebody who will delete it, unless a
\* crash ended its connection or a DEL of it failed.
THEOREM RecordsAreDeleted == Spec => []NoOrphanRecord
BY LoginInvariant, PTL DEF IInv

-----------------------------------------------------------------------------
(* One connection per user and node, where no two logins overlapped *)

\* A connection from its registration up to its DelClient.
Served(c) == pc[c] \in {"addconn", "read", "once", "delclient"}

\* A login that found nobody registered on its node.
Admitted(c) == pc[c] \in {"getset", "expire", "undo", "stop", "add"}

\* Where no two logins overlapped, served connections are the ones their nodes
\* have registered, so that OnClose finds its own client, and an admitted login
\* still has its node to itself.
AloneOK(c) ==
  node[c] \notin overlap =>
    /\ Served(c) => Clients[node[c]] = c
    /\ Admitted(c) => Clients[node[c]] = Nil
    /\ pc[c] \in OnClosePC => tgt[c] = c

OneLogin ==
  \A c, d \in Conns :
    /\ pc[c] \in LoginPC /\ pc[d] \in LoginPC
    /\ node[c] = node[d] /\ node[c] \notin overlap
    => c = d

AloneInv == OneLogin /\ \A c \in Conns : AloneOK(c)

\* A login holds the place of the only login until it ends.
LEMMA OneLoginStep ==
  ASSUME TypeOK, OneLogin, [Next]_vars
  PROVE  OneLogin'
<1> USE DEF TypeOK, OneLogin
<1>1. ASSUME NEW c \in Conns,
             pc[c] \in LoginPC, \A d \in Conns : d # c => pc'[d] = pc[d],
             UNCHANGED <<node, overlap>>
      PROVE  OneLogin'
  BY <1>1
<1>2. ASSUME NEW c \in Conns,
             pc'[c] \notin LoginPC, \A d \in Conns : d # c => pc'[d] = pc[d],
             UNCHANGED <<node, overlap>>
      PROVE  OneLogin'
  BY <1>2
<1>3. ASSUME NEW c \in Conns, LoginStep(c) PROVE OneLogin'
  <2>1. pc[c] \in LoginPC
    BY <1>3 DEF LoginStep, UniqueLogin, GetSet, SetExpire, Undo, StopUserClient, Kick,
                AddClient, AddClientConn, LoginPC
  <2>2. \A d \in Conns : d # c => pc'[d] = pc[d]
    BY SMT, <1>3 DEF LoginStep, UniqueLogin, GetSet, SetExpire, Undo, StopUserClient, Kick,
                AddClient, AddClientConn, Reject, Goto
  <2>3. UNCHANGED <<node, overlap>>
    BY <1>3 DEF LoginStep, UniqueLogin, GetSet, SetExpire, Undo, StopUserClient, Kick,
                AddClient, AddClientConn, placeVars
  <2> QED
    BY <1>1, <2>1, <2>2, <2>3
<1>4. ASSUME NEW c \in Conns, OnCloseStep(c) PROVE OneLogin'
  <2>1. pc'[c] \notin LoginPC /\ \A d \in Conns : d # c => pc'[d] = pc[d]
    BY SMT, <1>4 DEF OnCloseStep, OnClose, OnceDo, DelClient, DelClientConn,
                DelInfo, CloseSendChan, Goto, LoginPC
  <2>2. UNCHANGED <<node, overlap>>
    BY <1>4 DEF OnCloseStep, OnClose, OnceDo, DelClient, DelClientConn, DelInfo,
                CloseSendChan,
                placeVars
  <2> QED
    BY <1>2, <2>1, <2>2
<1>5. ASSUME NEW c \in Conns, NEW n \in Nodes, Upgrade(c, n) PROVE OneLogin'
  BY SMT, <1>5 DEF Upgrade, Goto, placeVars
<1>6. ASSUME NEW n \in Nodes, Crash(n) PROVE OneLogin'
  BY <1>6 DEF Crash, LoginPC, placeVars
<1>7. ASSUME UNCHANGED <<pc, node, overlap>> PROVE OneLogin'
  BY <1>7
<1>8. ASSUME NEW c \in Conns,
             OnPing(c) \/ OnMessageUnknown(c) \/ SocketFails(c) \/ Close(c) \/ Expire
      PROVE  UNCHANGED <<pc, node, overlap>>
  BY <1>8 DEF OnPing, OnMessageUnknown, SocketFails, Close, Expire, placeVars
<1>9. ASSUME Expire PROVE UNCHANGED <<pc, node, overlap>>
  BY <1>9 DEF Expire, placeVars
<1> QED
  BY <1>3, <1>4, <1>5, <1>6, <1>7, <1>8, <1>9 DEF Next, Environment, vars

\* Registrations and targets stay those of the served connections.
LEMMA AloneStep ==
  ASSUME TypeOK, Links, AloneInv, [Next]_vars, NEW d \in Conns
  PROVE  AloneOK(d)'
<1> USE LoginAssumption DEF AloneInv, AloneOK, Served, Admitted
<1>0. ASSUME NEW c \in Conns PROVE pc[c] # "none" => node[c] \in Nodes
  BY DEF Links, ConnOK
<1>1. ASSUME NEW c \in Conns, LoginStep(c) PROVE AloneOK(d)'
  <2> USE DEF OnClosePC, LoginPC, OneLogin, TypeOK
  <2>0. (pc[c] # "none" => node[c] \in Nodes) /\ (pc[d] # "none" => node[d] \in Nodes)
    BY <1>0
  <2>1. CASE UniqueLogin(c)
    BY SMT, <1>1, <2>1, <2>0 DEF UniqueLogin, Goto, regVars, redisVars, connVars, placeVars
  <2>2. CASE GetSet(c)
    BY SMT, <1>1, <2>2, <2>0 DEF GetSet, Goto, regVars, redisVars, connVars, placeVars
  <2>3. CASE SetExpire(c)
    BY SMT, <1>1, <2>3, <2>0 DEF SetExpire, Goto, regVars, connVars, placeVars
  <2>4. CASE Undo(c)
    BY SMT, <1>1, <2>4, <2>0 DEF Undo, Reject, Goto, regVars, placeVars
  <2>5. CASE StopUserClient(c)
    BY SMT, <1>1, <2>5, <2>0 DEF StopUserClient, Reject, Goto, regVars, placeVars
  <2>6. CASE Kick(c)
    BY SMT, <1>1, <2>6, <2>0 DEF Kick, Goto, regVars, placeVars
  <2>7. CASE AddClient(c)
    BY SMT, <1>1, <2>7, <2>0 DEF AddClient, Goto, placeVars
  <2>8. CASE AddClientConn(c)
    BY SMT, <1>1, <2>8, <2>0 DEF AddClientConn, Goto, placeVars
  <2> QED
    BY <1>1, <2>1, <2>2, <2>3, <2>4, <2>5, <2>6, <2>7, <2>8 DEF LoginStep
<1>2. ASSUME NEW c \in Conns, OnCloseStep(c) PROVE AloneOK(d)'
  <2> USE DEF OnClosePC, LoginPC, TypeOK
  <2>0. (pc[c] # "none" => node[c] \in Nodes) /\ (pc[d] # "none" => node[d] \in Nodes)
    BY <1>0
  <2>1. CASE OnClose(c)
    BY SMT, <1>2, <2>1, <2>0 DEF OnClose, Goto, regVars, placeVars
  <2>2. CASE OnceDo(c)
    BY SMT, <1>2, <2>2, <2>0 DEF OnceDo, Goto, regVars, placeVars
  <2>3. CASE DelClient(c)
    BY SMT, <1>2, <2>3, <2>0 DEF DelClient, Goto, placeVars
  <2>4. CASE DelClientConn(c)
    BY SMT, <1>2, <2>4, <2>0 DEF DelClientConn, Goto, placeVars
  <2>5. CASE DelInfo(c)
    BY SMT, <1>2, <2>5, <2>0 DEF DelInfo, Goto, regVars, placeVars
  <2>6. CASE CloseSendChan(c)
    BY SMT, <1>2, <2>6, <2>0 DEF CloseSendChan, Goto, regVars, placeVars
  <2> QED
    BY <1>2, <2>1, <2>2, <2>3, <2>4, <2>5, <2>6 DEF OnCloseStep
<1>3. ASSUME NEW c \in Conns, NEW n \in Nodes, Upgrade(c, n) PROVE AloneOK(d)'
  BY SMT, <1>3 DEF TypeOK, Upgrade, Goto, regVars, OnClosePC, placeVars
<1>4. ASSUME NEW n \in Nodes, Crash(n) PROVE AloneOK(d)'
  BY SMT, <1>0, <1>4 DEF TypeOK, Crash, OnClosePC, placeVars
<1>5. ASSUME UNCHANGED <<Clients, node, overlap, pc, tgt>> PROVE AloneOK(d)'
  BY <1>5
<1>6. ASSUME NEW c \in Conns,
             OnPing(c) \/ OnMessageUnknown(c) \/ SocketFails(c) \/ Close(c)
      PROVE  UNCHANGED <<Clients, node, overlap, pc, tgt>>
  BY <1>6 DEF OnPing, OnMessageUnknown, SocketFails, Close, regVars, placeVars
<1>7. ASSUME Expire PROVE UNCHANGED <<Clients, node, overlap, pc, tgt>>
  BY <1>7 DEF Expire, regVars, placeVars
<1> QED
  BY <1>1, <1>2, <1>3, <1>4, <1>5, <1>6, <1>7 DEF Next, Environment, vars

\* One connection per user and node, for any number of nodes and connections,
\* whatever Redis, the RPCs and crashes do, on every node where no login of the
\* user started while another was running: there uniqueLogin's look at
\* ClientManager is enough.
THEOREM ConnectionsOnePerNode == Spec => []OnePerNode
<1>1. Init => AloneInv
  BY SMT DEF Init, AloneInv, AloneOK, OneLogin, Served, Admitted, OnClosePC, LoginPC
<1>2. IInv /\ AloneInv /\ [Next]_vars => AloneInv'
  <2> SUFFICES ASSUME IInv, AloneInv, [Next]_vars PROVE AloneInv'
    OBVIOUS
  <2>1. TypeOK /\ Links
    BY DEF IInv, Links
  <2>2. OneLogin'
    BY <2>1, OneLoginStep DEF AloneInv
  <2>3. ASSUME NEW d \in Conns PROVE AloneOK(d)'
    BY <2>1, AloneStep
  <2> QED
    BY <2>2, <2>3 DEF AloneInv
<1>3. AloneInv => OnePerNode
  BY DEF AloneInv, AloneOK, Served, OnePerNode, Connected
<1> QED
  BY <1>1, <1>2, <1>3, LoginInvariant, PTL DEF Spec
=============================================================================
