------------------------------ MODULE Services ------------------------------
(***************************************************************************)
(* One node's registration (Registry) as another node sees it through etcd *)
(* (Discovery): server.InitServer and OnShutdown on the one side,          *)
(* client.InitClient on the other (service/api).  Every change of the      *)
(* node's key is an event of the watch; other nodes come and go as well.   *)
(***************************************************************************)
EXTENDS Registry, Sequences

CONSTANTS
  Self,         \* the key of the node whose registration is modelled
  Others,       \* the keys of other nodes
  MaxLog,       \* bound: other nodes change etcd while fewer changes wait for the watch
  ClientFails,  \* TRUE: imrpc.NewClient may fail
  WatchEnds     \* TRUE: the Get may fail, etcd may close the watch channel

ASSUME ServicesAssumption ==
  /\ Self \notin Others /\ MaxLog \in Nat
  /\ ClientFails \in BOOLEAN /\ WatchEnds \in BOOLEAN

VARIABLES log, present, dpc, kvs, clients, failed

D == INSTANCE Discovery WITH Keys <- {Self} \cup Others, pc <- dpc

discoveryVars == <<dpc, kvs, clients, failed>>
allVars == <<vars, log, present, discoveryVars>>

InitServices == Init /\ D!Init

\* What a step of the registration does to etcd is what the watch will see.
Watched ==
  IF key' = key THEN UNCHANGED <<log, present, discoveryVars>>
  ELSE D!Change(IF key' = 0 THEN "delete" ELSE "put", Self)

Serve == Process /\ Watched
ListenServer == ListenStep /\ Watched
CloseServer == Close /\ Watched
OnShutdown == CloseStep /\ Watched
ExpireLease == Expiry /\ Watched
LoseLease == KeepAliveEnds /\ Watched

OtherNode ==
  /\ Len(log) < MaxLog
  /\ \E k \in Others, type \in {"put", "delete"} : D!Change(type, k)
  /\ UNCHANGED vars

Discover == D!DiscoveryStep /\ UNCHANGED vars
EndWatch == D!WatchClosed /\ UNCHANGED vars

NextServices ==
  \/ Serve \/ ListenServer \/ CloseServer \/ OnShutdown \/ ExpireLease \/ LoseLease
  \/ OtherNode \/ Discover \/ EndWatch

\* The goroutines of both nodes are scheduled, leases expire; nobody has to
\* start or close the server, no lease has to be lost, no watch has to end.
FairServices ==
  /\ InitServices /\ [][NextServices]_allVars
  /\ WF_allVars(ListenServer) /\ WF_allVars(OnShutdown)
  /\ WF_allVars(ExpireLease) /\ WF_allVars(Discover)

-----------------------------------------------------------------------------
(* Properties *)

\* The variables of the registration (Registry) and of the discovery (Discovery)
\* have their types; status is 1 just while NewServiceRegister runs.
ServicesTypeOK == TypeOK /\ D!TypeOK

\* WatchService's comment: no change is missed.  A watcher that has handled all
\* changes knows exactly the registered nodes, but for those whose client could
\* not be made, however changes fell between its Get and its watch.
NoChangeMissed == D!NoChangeMissed

\* A node that is not being closed is found, again after every loss of its
\* lease and every failed attempt to register, unless the finder's watch has
\* ended or its client could not be made.
FoundAgain ==
  Self \notin clients /\ cpc = "open"
    ~> Self \in clients \/ Self \in failed \/ cpc # "open" \/ dpc = "end"

Gone == cpc \in {"closed", "down"}

\* After CloseServer, even if Revoke failed or the listener was registering the
\* node again at that moment, and after a crash, by the expiry of its lease, the
\* other node forgets this one until it is started again.
Forgotten == Gone ~> dpc = "end" \/ ~Gone \/ [](Gone => Self \notin clients)
=============================================================================
