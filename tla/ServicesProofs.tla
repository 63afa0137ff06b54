--------------------------- MODULE ServicesProofs ---------------------------
(***************************************************************************)
(* For any number of other nodes, any faults and any delay of the watch:   *)
(* a node that has handled all changes knows exactly the registered nodes, *)
(* but for those whose client could not be made.                           *)
(***************************************************************************)
EXTENDS Services, SequenceTheorems, FiniteSetTheorems, TLAPS

\* Leaves that Zenon cannot do name SMT.
USE Zenon

Keys == {Self} \cup Others

\* The registration's invariant: a process that is down has no listener, and
\* etcd has finitely many leases.
RegistryInv ==
  /\ TypeOK
  /\ cpc = "down" => lpc = "end"
  /\ IsFiniteSet(alive)

\* The watch will report on key k.
Pending(k) == \E i \in DOMAIN log : log[i].key = k

\* The last change of a key that the watch will report is how etcd has the key
\* now; a key that it will not report on is known as etcd has it.
KeyOK(k) ==
  /\ \A i \in DOMAIN log :
       log[i].key = k /\ (\A j \in DOMAIN log : log[j].key = k => j <= i) =>
         (log[i].type = "put" <=> k \in present)
  /\ dpc \in {"register", "watch"} /\ ~Pending(k) =>
       (k \in present <=> k \in kvs \cup clients \cup failed)

\* The watcher's invariant: nothing is known before the Get, all its keys are
\* registered before the watch, and changes wait only in between.
WatchInv ==
  /\ D!TypeOK
  /\ dpc = "get" => clients = {} /\ failed = {}
  /\ dpc = "watch" => kvs = {}
  /\ dpc \notin {"register", "watch"} => log = << >>
  /\ \A k \in Keys : KeyOK(k)

\* The composition's own part: etcd has the node's key while it is bound to a lease.
KeyPresent == key # 0 <=> Self \in present

-----------------------------------------------------------------------------
(* The registration *)

\* There is always an id that etcd and the node do not know.
LEMMA FreshLeaseIsNew ==
  ASSUME IsFiniteSet(alive)
  PROVE  FreshLease \in Nat \ {0} /\ FreshLease \notin alive
<1> DEFINE known == alive \cup {leaseID, new, key}
           ids == 1 .. Cardinality(known) + 1
<1>1. IsFiniteSet(known)
  <2>1. IsFiniteSet(alive \cup {leaseID})
    BY FS_AddElement
  <2>2. IsFiniteSet((alive \cup {leaseID}) \cup {new})
    BY <2>1, FS_AddElement
  <2>3. IsFiniteSet(((alive \cup {leaseID}) \cup {new}) \cup {key})
    BY <2>2, FS_AddElement
  <2>4. ((alive \cup {leaseID}) \cup {new}) \cup {key} = known
    OBVIOUS
  <2> QED
    BY <2>3, <2>4
<1>2. Cardinality(known) \in Nat
  BY <1>1, FS_CardinalityType
<1> HIDE DEF known
<1>3. Cardinality(ids) = Cardinality(known) + 1
  BY SMT, <1>2, FS_Interval
<1>4. \E l \in ids : l \notin known
  <2> SUFFICES ASSUME ids \subseteq known PROVE FALSE
    OBVIOUS
  <2>1. Cardinality(ids) <= Cardinality(known)
    BY <1>1, FS_Subset
  <2> QED
    BY SMT, <1>2, <1>3, <2>1
<1>5. FreshLease \in ids /\ FreshLease \notin known
  BY <1>4 DEF FreshLease, known
<1> QED
  BY SMT, <1>2, <1>5 DEF known

\* The values of status.
LEMMA StatusValues ==
  /\ 0 \in 0 .. 3 /\ 1 \in 0 .. 3 /\ 2 \in 0 .. 3 /\ 3 \in 0 .. 3 /\ 0 \in Nat
  /\ 0 # 1 /\ 0 # 2 /\ 0 # 3 /\ 1 # 2 /\ 1 # 3
BY SMT

\* putKeyWithLease's error leaves the registration well formed.
LEMMA FailsKeeps ==
  ASSUME TypeOK, cpc # "down", Fails
  PROVE  /\ status' \in 0 .. 3 /\ (status' = 0 <=> cpc' = "down") /\ (status' = 1 <=> cpc' = "start")
         /\ leaseID' \in Nat /\ new' \in Nat /\ kaOpen' \in BOOLEAN /\ cliOpen' \in BOOLEAN
         /\ lpc' \in {"check", "end"} /\ cpc' \in {cpc, "down"}
         /\ cpc' = "down" => lpc' = "end"
BY StatusValues DEF TypeOK, Fails, Down

\* Faults are counted up to their bound.
LEMMA FaultKeeps ==
  ASSUME TypeOK, Fault \/ RequestFails
  PROVE  faults' \in 0 .. MaxFaults
BY SMT, RegistryAssumption DEF TypeOK, Fault, RequestFails

\* Every step keeps the registration's invariant.
LEMMA RegistryStep ==
  ASSUME RegistryInv, [Next]_vars
  PROVE  RegistryInv'
<1> USE DEF RegistryInv
<1>1. CASE Start \/ Crash
  <2>1. faults' \in 0 .. MaxFaults
    BY <1>1, FaultKeeps DEF Start, Crash, TypeOK
  <2> QED
    BY <1>1, <2>1, StatusValues DEF Start, Crash, Down, TypeOK
<1>2. CASE RangeEnds \/ Check \/ Close \/ CloseClient \/ CloseEtcd
  BY <1>2, StatusValues
  DEF RangeEnds, Check, Close, CloseClient, CloseEtcd, serVars, etcdVars, TypeOK
<1>3. CASE Grant
  <2>1. CASE Fails /\ RequestFails /\ UNCHANGED <<key, alive>>
    <3>1. cpc # "down"
      BY <1>3 DEF Grant
    <3> QED
      BY <2>1, <3>1, FailsKeeps, FaultKeeps DEF TypeOK
  <2>2. CASE /\ cliOpen /\ new' = FreshLease /\ alive' = alive \cup {FreshLease} /\ lpc' = "put"
             /\ UNCHANGED <<status, leaseID, kaOpen, cpc, cliOpen, faults, key>>
    <3>1. new' \in Nat /\ alive' \subseteq Nat \ {0} /\ key' \in alive' \cup {0}
      BY <2>2, FreshLeaseIsNew DEF TypeOK
    <3>2. IsFiniteSet(alive')
      BY <2>2, FS_AddElement
    <3>3. cpc # "down"
      BY <1>3 DEF Grant
    <3> QED
      BY <2>2, <3>1, <3>2, <3>3 DEF TypeOK
  <2> QED
    BY <1>3, <2>1, <2>2 DEF Grant
<1>4. CASE Put
  <2>0. cpc # "down" /\ UNCHANGED alive
    BY <1>4 DEF Put
  <2>1. CASE Fails /\ UNCHANGED key /\ (RequestFails \/ UNCHANGED faults)
    <3>1. faults' \in 0 .. MaxFaults
      BY <2>1, FaultKeeps DEF TypeOK
    <3> QED
      BY <2>0, <2>1, <3>1, FailsKeeps DEF TypeOK
  <2>2. CASE new \in alive /\ key' = new /\ lpc' = "keep" /\ UNCHANGED <<serVars, cpc, cliOpen, faults>>
    BY <2>0, <2>2 DEF TypeOK, serVars
  <2> QED
    BY <1>4, <2>1, <2>2 DEF Put
<1>5. CASE KeepAlive
  <2>0. cpc # "down" /\ UNCHANGED <<key, alive>>
    BY <1>5 DEF KeepAlive
  <2>1. CASE Fails /\ RequestFails
    BY <2>0, <2>1, FailsKeeps, FaultKeeps DEF TypeOK
  <2>2. CASE /\ leaseID' = new /\ new' = 0 /\ kaOpen' = (new \in alive) /\ lpc' = "status"
             /\ UNCHANGED <<status, cpc, cliOpen, faults>>
    <3>1. kaOpen' \in BOOLEAN
      BY SMT, <2>2
    <3>2. /\ leaseID' = new /\ new' = 0 /\ lpc' = "status"
          /\ UNCHANGED <<status, cpc, cliOpen, faults>>
      BY <2>2
    <3> QED
      BY <2>0, <3>1, <3>2, StatusValues DEF TypeOK
  <2> QED
    BY <1>5, <2>1, <2>2 DEF KeepAlive
<1>6. CASE SetStatus
  BY <1>6, StatusValues DEF SetStatus, etcdVars, TypeOK
<1>7. CASE Revoke
  <2>1. faults' \in 0 .. MaxFaults
    BY <1>7, FaultKeeps DEF Revoke, TypeOK
  <2>2. IsFiniteSet(alive')
    BY <1>7, FS_RemoveElement DEF Revoke
  <2> QED
    BY <1>7, <2>1, <2>2, StatusValues DEF Revoke, TypeOK
<1>8. CASE KeepAliveEnds
  <2>1. faults' \in 0 .. MaxFaults
    BY <1>8, FaultKeeps DEF KeepAliveEnds
  <2> QED
    BY <1>8, <2>1 DEF KeepAliveEnds, etcdVars, TypeOK
<1>9. ASSUME NEW l \in alive, LeaseExpires(l) PROVE RegistryInv'
  <2>1. faults' \in 0 .. MaxFaults
    BY <1>9, FaultKeeps DEF LeaseExpires, TypeOK
  <2>2. IsFiniteSet(alive')
    BY <1>9, FS_RemoveElement DEF LeaseExpires
  <2> QED
    BY <1>9, <2>1, <2>2 DEF LeaseExpires, serVars, TypeOK
<1>10. CASE UNCHANGED vars
  BY <1>10 DEF vars, TypeOK
<1> QED
  BY <1>1, <1>2, <1>3, <1>4, <1>5, <1>6, <1>7, <1>8, <1>9, <1>10
  DEF Next, Process, ListenStep, CloseStep, Expiry

-----------------------------------------------------------------------------
(* The watch *)

Events == [type : {"put", "delete"}, key : Keys]

\* The indexes of the waiting changes, and their types.
LEMMA LogProperties ==
  ASSUME D!TypeOK
  PROVE  /\ log \in Seq(Events) /\ Len(log) \in Nat /\ DOMAIN log = 1 .. Len(log)
         /\ \A i \in DOMAIN log : log[i].key \in Keys /\ log[i].type \in {"put", "delete"}
<1>1. log \in Seq(Events)
  BY DEF D!TypeOK, Events, Keys
<1>2. Len(log) \in Nat /\ DOMAIN log = 1 .. Len(log)
  BY <1>1, LenProperties
<1>3. \A i \in DOMAIN log : log[i] \in Events
  BY <1>1, <1>2, ElementOfSeq
<1> QED
  BY SMT, <1>1, <1>2, <1>3 DEF Events

\* A change of a key while the watch will report it becomes the key's last change.
LEMMA LogChangeKeeps ==
  ASSUME WatchInv, NEW type \in {"put", "delete"}, NEW k \in Keys, D!Change(type, k),
         dpc \in {"register", "watch"}
  PROVE  WatchInv'
<1> DEFINE e == [type |-> type, key |-> k]
<1>1. /\ log' = Append(log, e) /\ UNCHANGED <<dpc, kvs, clients, failed>>
      /\ present' = IF type = "put" THEN present \cup {k} ELSE present \ {k}
  BY DEF D!Change
<1>2. /\ log \in Seq(Events) /\ Len(log) \in Nat /\ DOMAIN log = 1 .. Len(log)
      /\ \A i \in DOMAIN log : log[i].key \in Keys
  BY LogProperties DEF WatchInv
<1>3. e \in Events /\ e.type = type /\ e.key = k
  BY SMT DEF Events
<1> HIDE DEF e
<1>4. /\ log' \in Seq(Events) /\ Len(log') = Len(log) + 1
      /\ \A i \in 1 .. Len(log) : log'[i] = log[i]
      /\ log'[Len(log) + 1] = e
  BY SMT, <1>1, <1>2, <1>3, AppendProperties
<1>5. DOMAIN log' = 1 .. (Len(log) + 1)
  BY <1>4, LenProperties
<1>6. D!TypeOK'
  BY <1>1, <1>4 DEF WatchInv, D!TypeOK, Events, Keys
<1>7. ASSUME NEW h \in Keys PROVE KeyOK(h)'
  <2>1. CASE h = k
    <3>1. Len(log) + 1 \in DOMAIN log' /\ log'[Len(log) + 1].key = k
      BY SMT, <1>2, <1>3, <1>4, <1>5
    <3>2. \A i \in DOMAIN log' : i <= Len(log) + 1 /\ (Len(log) + 1 <= i => i = Len(log) + 1)
      BY SMT, <1>2, <1>5
    <3>3. type = "put" <=> k \in present'
      BY <1>1
    <3> QED
      BY <1>3, <1>4, <2>1, <3>1, <3>2, <3>3 DEF KeyOK, Pending
  <2>2. CASE h # k
    <3>1. h \in present' <=> h \in present
      BY <1>1, <2>2
    <3>2. \A i \in DOMAIN log' : i \in DOMAIN log \/ (i = Len(log) + 1 /\ log'[i].key # h)
      BY SMT, <1>2, <1>3, <1>4, <1>5, <2>2
    <3>3. \A i \in DOMAIN log : i \in DOMAIN log' /\ log'[i] = log[i]
      BY SMT, <1>2, <1>4, <1>5
    <3>4. Pending(h)' <=> Pending(h)
      BY <3>2, <3>3 DEF Pending
    <3>5. ASSUME NEW i \in DOMAIN log', log'[i].key = h,
                 \A j \in DOMAIN log' : log'[j].key = h => j <= i
          PROVE  log'[i].type = "put" <=> h \in present'
      <4>1. i \in DOMAIN log /\ log'[i] = log[i]
        BY <3>2, <3>3, <3>5
      <4>2. \A j \in DOMAIN log : log[j].key = h => j <= i
        BY <3>3, <3>5
      <4>3. KeyOK(h)
        BY <1>7 DEF WatchInv
      <4> QED
        BY <3>1, <3>5, <4>1, <4>2, <4>3 DEF KeyOK
    <3>6. dpc' \in {"register", "watch"} /\ ~Pending(h)' =>
            (h \in present' <=> h \in kvs' \cup clients' \cup failed')
      BY <1>1, <1>7, <3>1, <3>4 DEF WatchInv, KeyOK
    <3> QED
      BY <3>5, <3>6 DEF KeyOK
  <2> QED
    BY <2>1, <2>2
<1> QED
  BY <1>1, <1>6, <1>7 DEF WatchInv

\* A change at another time concerns nobody.
LEMMA ChangeKeeps ==
  ASSUME WatchInv, NEW type \in {"put", "delete"}, NEW k \in Keys, D!Change(type, k)
  PROVE  WatchInv'
<1>1. CASE dpc \notin {"register", "watch"}
  <2>1. /\ UNCHANGED <<log, dpc, kvs, clients, failed>> /\ log = << >>
        /\ present' = IF type = "put" THEN present \cup {k} ELSE present \ {k}
    BY <1>1 DEF D!Change, WatchInv
  <2>2. DOMAIN log' = {}
    BY SMT, <2>1
  <2>3. ASSUME NEW h \in Keys PROVE KeyOK(h)'
    BY <1>1, <2>1, <2>2 DEF KeyOK
  <2> QED
    BY <2>1, <2>3 DEF WatchInv, D!TypeOK, Keys
<1> QED
  BY <1>1, LogChangeKeeps

\* The Get takes all keys of the revision from which on changes are reported.
LEMMA GetKeeps ==
  ASSUME WatchInv, D!Get
  PROVE  WatchInv'
<1>1. /\ dpc = "get" /\ UNCHANGED <<log, present, clients, failed>>
      /\ (dpc' = "register" /\ kvs' = present) \/ (dpc' = "end" /\ UNCHANGED kvs)
  BY DEF D!Get
<1>2. log = << >> /\ clients = {} /\ failed = {}
  BY <1>1 DEF WatchInv
<1>3. DOMAIN log' = {}
  BY SMT, <1>1, <1>2
<1>4. ASSUME NEW h \in Keys PROVE KeyOK(h)'
  BY <1>1, <1>2, <1>3 DEF KeyOK, Pending
<1> QED
  BY <1>1, <1>2, <1>4 DEF WatchInv, D!TypeOK

\* onRegister makes a key known, or remembers the failure, and leaves others alone.
LEMMA OnRegisterKnows ==
  ASSUME NEW k, D!OnRegister(k)
  PROVE  /\ k \in clients' \cup failed'
         /\ clients' \cup failed' \subseteq (clients \cup failed) \cup {k}
         /\ \A h : h # k => (h \in clients' <=> h \in clients) /\ (h \in failed' <=> h \in failed)
BY DEF D!OnRegister

\* A key of the Get becomes known.
LEMMA RegisterKeeps ==
  ASSUME WatchInv, NEW k \in Keys, D!Register(k)
  PROVE  WatchInv'
<1>1. /\ dpc = "register" /\ k \in kvs /\ kvs' = kvs \ {k} /\ D!OnRegister(k)
      /\ UNCHANGED <<log, present, dpc>>
  BY DEF D!Register
<1>2. /\ k \in clients' \cup failed'
      /\ clients' \cup failed' \subseteq (clients \cup failed) \cup {k}
      /\ \A h : h # k => (h \in clients' <=> h \in clients) /\ (h \in failed' <=> h \in failed)
  BY <1>1, OnRegisterKnows
<1>3. ASSUME NEW h \in Keys PROVE KeyOK(h)'
  <2>1. h \in kvs' \cup clients' \cup failed' <=> h \in kvs \cup clients \cup failed
    BY <1>1, <1>2
  <2> QED
    BY <1>1, <2>1 DEF WatchInv, KeyOK, Pending
<1> QED
  BY <1>1, <1>2, <1>3 DEF WatchInv, D!TypeOK, Keys

\* The watch starts from the revision of the Get.
LEMMA StartWatchKeeps ==
  ASSUME WatchInv, D!StartWatch
  PROVE  WatchInv'
<1>1. /\ dpc = "register" /\ dpc' = "watch" /\ kvs = {}
      /\ UNCHANGED <<log, present, kvs, clients, failed>>
  BY DEF D!StartWatch, D!WatchFrom
<1>2. ASSUME NEW h \in Keys PROVE KeyOK(h)'
  BY <1>1 DEF WatchInv, KeyOK, Pending
<1> QED
  BY <1>1, <1>2 DEF WatchInv, D!TypeOK

\* The end of the watch.
LEMMA WatchClosedKeeps ==
  ASSUME WatchInv, D!WatchClosed
  PROVE  WatchInv'
<1>1. dpc' = "end" /\ log' = << >> /\ UNCHANGED <<present, kvs, clients, failed>>
  BY DEF D!WatchClosed
<1>2. DOMAIN log' = {} /\ log' \in Seq([type : {"put", "delete"}, key : Keys])
  BY SMT, <1>1
<1>3. ASSUME NEW h \in Keys PROVE KeyOK(h)'
  BY <1>1, <1>2 DEF KeyOK
<1> QED
  BY <1>1, <1>2, <1>3 DEF WatchInv, D!TypeOK, Keys

\* A reported change makes its key known as it was then; if no other change of the
\* key is waiting, that is how etcd has it.
LEMMA WatchEventKeeps ==
  ASSUME WatchInv, D!WatchEvent
  PROVE  WatchInv'
<1> DEFINE k == log[1].key
<1>1. /\ dpc = "watch" /\ log # << >> /\ log' = Tail(log) /\ UNCHANGED <<present, dpc, kvs>>
      /\ Head(log).type = "put" => D!OnRegister(Head(log).key)
      /\ Head(log).type # "put" => D!OnUnregister(Head(log).key)
  BY DEF D!WatchEvent
<1>2. /\ log \in Seq(Events) /\ Len(log) \in Nat /\ DOMAIN log = 1 .. Len(log)
      /\ \A i \in DOMAIN log : log[i].key \in Keys
  BY LogProperties DEF WatchInv
<1>3. /\ Head(log) = log[1] /\ Len(log) > 0 /\ Tail(log) \in Seq(Events)
      /\ Len(Tail(log)) = Len(log) - 1
      /\ \A i \in 1 .. Len(Tail(log)) : Tail(log)[i] = log[i + 1]
  BY SMT, <1>1, <1>2, HeadTailProperties, EmptySeq
<1>4. DOMAIN log' = 1 .. (Len(log) - 1)
  BY <1>1, <1>3, LenProperties
<1>5. \A i \in DOMAIN log' : i + 1 \in DOMAIN log /\ log'[i] = log[i + 1] /\ 1 <= i + 1
  BY SMT, <1>1, <1>2, <1>3, <1>4
<1>6. \A j \in DOMAIN log :
        \/ j = 1
        \/ \E i \in DOMAIN log' : j = i + 1 /\ log'[i] = log[j]
  <2> SUFFICES ASSUME NEW j \in DOMAIN log, j # 1
               PROVE  \E i \in DOMAIN log' : j = i + 1 /\ log'[i] = log[j]
    OBVIOUS
  <2>1. j - 1 \in DOMAIN log' /\ j = (j - 1) + 1
    BY SMT, <1>2, <1>4
  <2> QED
    BY <1>5, <2>1
<1>7. 1 \in DOMAIN log /\ k \in Keys
  BY SMT, <1>2, <1>3
<1>8. /\ log[1].type = "put" => k \in clients' \cup failed'
      /\ log[1].type # "put" => k \notin clients' \cup failed'
      /\ clients' \cup failed' \subseteq (clients \cup failed) \cup {k}
      /\ \A h : h # k => (h \in clients' <=> h \in clients) /\ (h \in failed' <=> h \in failed)
  <2>1. CASE log[1].type = "put"
    BY <1>1, <1>3, <2>1, OnRegisterKnows
  <2>2. CASE log[1].type # "put"
    BY <1>1, <1>3, <2>2 DEF D!OnUnregister
  <2> QED
    BY <2>1, <2>2
<1> HIDE DEF k
<1>9. ASSUME NEW h \in Keys PROVE KeyOK(h)'
  <2>1. ASSUME NEW i \in DOMAIN log', log'[i].key = h,
               \A j \in DOMAIN log' : log'[j].key = h => j <= i
        PROVE  log'[i].type = "put" <=> h \in present'
    <3>1. \A m \in DOMAIN log' : m <= i => m + 1 <= i + 1
      BY SMT, <1>2, <1>4
    <3>2. \A j \in DOMAIN log : log[j].key = h => j <= i + 1
      BY <1>5, <1>6, <2>1, <3>1
    <3> QED
      BY <1>1, <1>5, <1>9, <2>1, <3>2 DEF WatchInv, KeyOK
  <2>2. ASSUME ~Pending(h)', h = k
        PROVE  h \in present' <=> h \in kvs' \cup clients' \cup failed'
    <3>1. \A j \in DOMAIN log : log[j].key = h => j = 1
      BY <1>6, <2>2 DEF Pending
    <3>2. \A j \in DOMAIN log : log[j].key = h => j <= 1
      BY SMT, <3>1
    <3>3. log[1].type = "put" <=> h \in present
      <4>1. log[1].key = h /\ KeyOK(h)
        BY <1>9, <2>2 DEF WatchInv, k
      <4> QED
        BY <1>7, <3>2, <4>1 DEF KeyOK
    <3>4. kvs' = {}
      BY <1>1 DEF WatchInv
    <3> QED
      BY <1>1, <1>8, <2>2, <3>3, <3>4
  <2>3. ASSUME ~Pending(h)', h # k
        PROVE  h \in present' <=> h \in kvs' \cup clients' \cup failed'
    <3>1. ~Pending(h)
      BY <1>6, <2>3 DEF Pending, k
    <3> QED
      BY <1>1, <1>8, <1>9, <2>3, <3>1 DEF WatchInv, KeyOK
  <2> QED
    BY <2>1, <2>2, <2>3 DEF KeyOK
<1>10. D!TypeOK'
  BY <1>1, <1>3, <1>7, <1>8 DEF WatchInv, D!TypeOK, Events, Keys
<1> QED
  BY <1>1, <1>9, <1>10 DEF WatchInv

-----------------------------------------------------------------------------
(* The composition *)

\* For the registration, every step is one of Registry or none.
LEMMA ServicesStepIsRegistryStep ==
  ASSUME [NextServices]_allVars
  PROVE  [Next]_vars
BY DEF NextServices, Serve, ListenServer, CloseServer, OnShutdown, ExpireLease, LoseLease,
       OtherNode, Discover, EndWatch, Next, allVars

\* The watcher leaves the registration to Registry.
THEOREM ServicesDriveRegistry == FairServices => Spec
<1>1. InitServices => Init
  BY DEF InitServices
<1>2. [NextServices]_allVars => [Next]_vars
  BY ServicesStepIsRegistryStep
<1> QED
  BY <1>1, <1>2, PTL DEF FairServices, Spec

\* What a step is for the watcher: a change of a key, or a step of its own.
LEMMA ServicesStepIsWatchStep ==
  ASSUME [NextServices]_allVars
  PROVE  \/ \E type \in {"put", "delete"}, k \in Keys : D!Change(type, k)
         \/ D!DiscoveryStep \/ D!WatchClosed
         \/ UNCHANGED <<log, present, discoveryVars>>
<1>1. CASE Watched
  BY <1>1 DEF Watched, Keys
<1>2. CASE OtherNode
  BY <1>2 DEF OtherNode, Keys
<1>3. CASE Discover \/ EndWatch \/ UNCHANGED allVars
  BY <1>3 DEF Discover, EndWatch, allVars
<1> QED
  BY <1>1, <1>2, <1>3
  DEF NextServices, Serve, ListenServer, CloseServer, OnShutdown, ExpireLease, LoseLease

\* Every step keeps the watcher's invariant.
LEMMA WatchStep ==
  ASSUME WatchInv, [NextServices]_allVars
  PROVE  WatchInv'
<1>1. CASE D!DiscoveryStep
  BY <1>1, GetKeeps, StartWatchKeeps, WatchEventKeeps, RegisterKeeps DEF D!DiscoveryStep, Keys
<1>2. CASE UNCHANGED <<log, present, discoveryVars>>
  <2>1. UNCHANGED <<log, present, dpc, kvs, clients, failed>>
    BY <1>2 DEF discoveryVars
  <2>2. ASSUME NEW h \in Keys PROVE KeyOK(h)'
    BY <2>1 DEF WatchInv, KeyOK, Pending
  <2> QED
    BY <2>1, <2>2 DEF WatchInv, D!TypeOK
<1> QED
  BY <1>1, <1>2, ServicesStepIsWatchStep, ChangeKeeps, WatchClosedKeeps

\* The invariants of both sides hold in every state.
THEOREM ServicesInvariant == FairServices => [](RegistryInv /\ WatchInv)
<1>1. InitServices => RegistryInv
  <2>1. 0 \in 0 .. MaxFaults
    BY SMT, RegistryAssumption
  <2> QED
    BY <2>1, StatusValues, FS_EmptySet DEF InitServices, Init, RegistryInv, TypeOK
<1>2. InitServices => WatchInv
  <2> SUFFICES ASSUME InitServices PROVE WatchInv
    OBVIOUS
  <2>1. log = << >> /\ present = {} /\ dpc = "get" /\ kvs = {} /\ clients = {} /\ failed = {}
    BY DEF InitServices, D!Init
  <2>2. DOMAIN log = {} /\ log \in Seq([type : {"put", "delete"}, key : Keys])
    BY SMT, <2>1
  <2>3. ASSUME NEW h \in Keys PROVE KeyOK(h)
    BY <2>1, <2>2 DEF KeyOK
  <2> QED
    BY <2>1, <2>2, <2>3 DEF WatchInv, D!TypeOK, Keys
<1>3. RegistryInv /\ [NextServices]_allVars => RegistryInv'
  BY RegistryStep, ServicesStepIsRegistryStep
<1>4. WatchInv /\ [NextServices]_allVars => WatchInv'
  BY WatchStep
<1> QED
  BY <1>1, <1>2, <1>3, <1>4, PTL DEF FairServices

\* The variables of the registration and of the discovery keep their types.
THEOREM ServicesTypes == FairServices => []ServicesTypeOK
<1>1. RegistryInv /\ WatchInv => ServicesTypeOK
  BY DEF RegistryInv, WatchInv, ServicesTypeOK
<1> QED
  BY <1>1, ServicesInvariant, PTL

\* WatchService's comment, for any number of nodes and changes, wherever they fall:
\* no change between the Get and the watch, or during it, is missed.
THEOREM WatchMissesNothing == FairServices => []NoChangeMissed
<1>1. WatchInv => NoChangeMissed
  <2> SUFFICES ASSUME WatchInv, dpc = "watch", log = << >>
               PROVE  clients \subseteq present /\ present \subseteq clients \cup failed
    BY DEF NoChangeMissed, D!NoChangeMissed
  <2>1. DOMAIN log = {}
    BY SMT
  <2>2. \A k \in Keys : k \in present <=> k \in clients \cup failed
    BY <2>1 DEF WatchInv, KeyOK, Pending
  <2> QED
    BY <2>2 DEF WatchInv, D!TypeOK, Keys
<1> QED
  BY <1>1, ServicesInvariant, PTL

\* etcd lists the node's key exactly while it is bound to a lease, so that every
\* loss of a registration is an event the watch can report.
THEOREM KeyIsPresent == FairServices => []KeyPresent
<1>1. InitServices => KeyPresent
  BY DEF InitServices, Init, D!Init, KeyPresent
<1>2. KeyPresent /\ [NextServices]_allVars => KeyPresent'
  <2> SUFFICES ASSUME KeyPresent, [NextServices]_allVars PROVE KeyPresent'
    OBVIOUS
  <2>1. CASE Watched
    BY <2>1 DEF Watched, D!Change, KeyPresent
  <2>2. CASE OtherNode
    BY <2>2, ServicesAssumption DEF OtherNode, D!Change, KeyPresent, vars
  <2>3. CASE Discover \/ EndWatch \/ UNCHANGED allVars
    BY <2>3 DEF Discover, EndWatch, D!DiscoveryStep, D!Get, D!Register, D!StartWatch,
                D!WatchEvent, D!WatchClosed, KeyPresent, vars, allVars
  <2> QED
    BY <2>1, <2>2, <2>3
    DEF NextServices, Serve, ListenServer, CloseServer, OnShutdown, ExpireLease, LoseLease
<1> QED
  BY <1>1, <1>2, PTL DEF FairServices
=============================================================================
