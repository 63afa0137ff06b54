------------------------------ MODULE Registry ------------------------------
(***************************************************************************)
(* Service registration in etcd (pkg/etcd_registry/registry.go): a key     *)
(* bound to a lease, the goroutine ListenLeaseRespChan that registers      *)
(* again when the lease is lost, and Close, which runs in another          *)
(* goroutine.  Both use status and leaseID without a lock.  The process    *)
(* may crash and be started again.  etcd itself is external: leases, and   *)
(* the key that goes with its lease.                                       *)
(***************************************************************************)
EXTENDS Naturals, FiniteSets

CONSTANT MaxFaults   \* bound: failed requests, leases that are not kept alive, crashes

ASSUME RegistryAssumption == MaxFaults \in Nat

VARIABLES
  status,   \* 1 registering, 2 registered, 3 closed
  leaseID,  \* the lease of the last registration
  kaOpen,   \* whether keepAliveChan, which belongs to leaseID, is open
  new,      \* the lease putKeyWithLease is working with, its local variable, or 0
  lpc,      \* where NewServiceRegister or the listening goroutine is
  cpc,      \* where the process is: down, starting, open, or a place of Close
  key,      \* etcd: the lease the service's key is bound to, 0 without key
  alive,    \* etcd: the leases in force
  cliOpen,  \* whether the etcd client is open
  faults

serVars == <<status, leaseID, kaOpen, new>>
etcdVars == <<key, alive, cliOpen>>
vars == <<status, leaseID, kaOpen, new, lpc, cpc, key, alive, cliOpen, faults>>

Init ==
  /\ status = 0 /\ leaseID = 0 /\ kaOpen = FALSE /\ new = 0
  /\ lpc = "end" /\ cpc = "down"
  /\ key = 0 /\ alive = {} /\ cliOpen = FALSE
  /\ faults = 0

Fault == faults < MaxFaults /\ faults' = faults + 1

\* The end of the process: etcd hears nothing of it.
Down ==
  /\ lpc' = "end" /\ cpc' = "down"
  /\ status' = 0 /\ leaseID' = 0 /\ new' = 0
  /\ kaOpen' = FALSE /\ cliOpen' = FALSE

Crash ==
  /\ cpc # "down"
  /\ Fault /\ Down
  /\ UNCHANGED <<key, alive>>

\* InitServer calls NewServiceRegister.
Start ==
  /\ cpc = "down"
  /\ status' = 1 /\ cliOpen' = TRUE
  /\ lpc' = "grant" /\ cpc' = "start"
  /\ UNCHANGED <<leaseID, kaOpen, new, key, alive, faults>>

\* A request fails on a closed client, or for a reason of its own.
RequestFails ==
  IF cliOpen THEN Fault ELSE UNCHANGED faults

-----------------------------------------------------------------------------
(* ListenLeaseRespChan *)

\* The range loop ends with the channel.
RangeEnds ==
  /\ lpc = "range" /\ ~kaOpen
  /\ lpc' = "check"
  /\ UNCHANGED <<serVars, cpc, etcdVars, faults>>

\* Mutant: one lost lease and the listener gives up.
CheckOnce ==
  /\ lpc = "check"
  /\ lpc' = "end"
  /\ UNCHANGED <<serVars, cpc, etcdVars, faults>>

Check ==
  /\ lpc = "check"
  /\ lpc' = IF status = 3 THEN "end" ELSE "grant"
  /\ UNCHANGED <<serVars, cpc, etcdVars, faults>>

\* putKeyWithLease returns an error: InitServer panics, the listener pauses and
\* takes the next turn of its loop.
Fails ==
  IF status = 1 THEN Down
  ELSE lpc' = "check" /\ new' = 0 /\ UNCHANGED <<status, leaseID, kaOpen, cpc, cliOpen>>

\* The id of a new lease: any that nobody knows.
FreshLease ==
  LET known == alive \cup {leaseID, new, key}
  IN CHOOSE l \in 1 .. Cardinality(known) + 1 : l \notin known

\* putKeyWithLease
Grant ==
  /\ lpc = "grant"
  /\ \/ /\ cliOpen
        /\ new' = FreshLease
        /\ alive' = alive \cup {FreshLease}
        /\ lpc' = "put"
        /\ UNCHANGED <<status, leaseID, kaOpen, cpc, cliOpen, faults>>
     \/ RequestFails /\ Fails /\ UNCHANGED alive
  /\ UNCHANGED key

Put ==
  /\ lpc = "put"
  /\ \/ /\ cliOpen /\ new \in alive
        /\ key' = new
        /\ lpc' = "keep"
        /\ UNCHANGED <<serVars, cpc, cliOpen, faults>>
     \/ new \notin alive /\ cliOpen /\ Fails /\ UNCHANGED <<key, faults>>
     \/ RequestFails /\ Fails /\ UNCHANGED key
  /\ UNCHANGED alive

\* KeepAlive, then the new lease and its channel are stored.
KeepAlive ==
  /\ lpc = "keep"
  /\ \/ /\ cliOpen
        /\ leaseID' = new /\ new' = 0
        /\ kaOpen' = (new \in alive)
        /\ lpc' = "status"
        /\ UNCHANGED <<status, cpc, cliOpen, faults>>
     \/ RequestFails /\ Fails
  /\ UNCHANGED <<key, alive>>

\* Mutant: the registration does not count as done.
SetStatusForgotten ==
  /\ lpc = "status"
  /\ lpc' = "range"
  /\ cpc' = IF cpc = "start" THEN "open" ELSE cpc
  /\ UNCHANGED <<serVars, etcdVars, faults>>

\* The last assignment of putKeyWithLease; a goroutine listens, a new one after
\* a registration of the listener.
SetStatus ==
  /\ lpc = "status"
  /\ status' = 2
  /\ lpc' = "range"
  /\ cpc' = IF cpc = "start" THEN "open" ELSE cpc
  /\ UNCHANGED <<leaseID, kaOpen, new, etcdVars, faults>>

-----------------------------------------------------------------------------
(* Close *)

Close ==
  /\ cpc = "open"
  /\ status' = 3
  /\ cpc' = "revoke"
  /\ UNCHANGED <<leaseID, kaOpen, new, lpc, etcdVars, faults>>

\* Revoke leaseID; an error, such as an unknown lease, makes Close return.
Revoke ==
  /\ cpc = "revoke"
  /\ \/ /\ leaseID \in alive
        /\ alive' = alive \ {leaseID}
        /\ key' = IF key = leaseID THEN 0 ELSE key
        /\ kaOpen' = FALSE
        /\ cpc' = "client"
        /\ UNCHANGED faults
     \/ /\ leaseID \notin alive
        /\ cpc' = "failed"
        /\ UNCHANGED <<alive, key, kaOpen, faults>>
     \/ /\ RequestFails
        /\ cpc' = "failed"
        /\ UNCHANGED <<alive, key, kaOpen>>
  /\ UNCHANGED <<status, leaseID, new, lpc, cliOpen>>

CloseClient ==
  /\ cpc = "client"
  /\ cliOpen' = FALSE /\ kaOpen' = FALSE
  /\ cpc' = "closed"
  /\ UNCHANGED <<status, leaseID, new, lpc, key, alive, faults>>

\* Mutant: the etcd client stays open.
LeaveEtcd ==
  /\ cpc = "failed"
  /\ cpc' = "closed"
  /\ UNCHANGED <<serVars, lpc, etcdVars, faults>>

\* CloseServer goes on after a Close that failed, and closes the client of
\* etcd_client, which is the one the service was given (src/README.md).
CloseEtcd ==
  /\ cpc = "failed"
  /\ cliOpen' = FALSE /\ kaOpen' = FALSE
  /\ cpc' = "closed"
  /\ UNCHANGED <<status, leaseID, new, lpc, key, alive, faults>>

-----------------------------------------------------------------------------
(* etcd *)

\* Keeping leaseID alive fails: keepAliveChan is closed.
KeepAliveEnds ==
  /\ kaOpen /\ Fault
  /\ kaOpen' = FALSE
  /\ UNCHANGED <<status, leaseID, new, lpc, cpc, etcdVars>>

\* A lease nobody keeps alive expires, and the key with it.
LeaseExpires(l) ==
  /\ l \in alive
  /\ ~(kaOpen /\ l = leaseID)
  /\ alive' = alive \ {l}
  /\ key' = IF key = l THEN 0 ELSE key
  /\ IF lpc \in {"put", "keep"} /\ l = new
     THEN Fault
     ELSE UNCHANGED faults
  /\ UNCHANGED <<serVars, lpc, cpc, cliOpen>>

ListenStep == RangeEnds \/ Check \/ Grant \/ Put \/ KeepAlive \/ SetStatus
CloseStep == Revoke \/ CloseClient \/ CloseEtcd
Expiry == \E l \in alive : LeaseExpires(l)

Process == Start \/ Crash

Next == Process \/ ListenStep \/ Close \/ CloseStep \/ KeepAliveEnds \/ Expiry

Spec == Init /\ [][Next]_vars

\* Both goroutines are scheduled and etcd's leases expire; nobody has to start
\* the process or to call Close, and no lease has to be lost.
FairSpec == Spec /\ WF_vars(ListenStep) /\ WF_vars(CloseStep) /\ WF_vars(Expiry)

-----------------------------------------------------------------------------
(* Properties *)

\* The variables have their types; status is 1 just while NewServiceRegister runs.
TypeOK ==
  /\ status \in 0 .. 3 /\ (status = 0 <=> cpc = "down") /\ (status = 1 <=> cpc = "start")
  /\ leaseID \in Nat /\ new \in Nat /\ key \in alive \cup {0}
  /\ kaOpen \in BOOLEAN /\ cliOpen \in BOOLEAN
  /\ lpc \in {"range", "check", "grant", "put", "keep", "status", "end"}
  /\ cpc \in {"down", "start", "open", "revoke", "client", "closed", "failed"}
  /\ alive \subseteq Nat \ {0}
  /\ faults \in 0 .. MaxFaults

\* ListenLeaseRespChan's comment: it exits when the status is closed.
CloseEndsListener == cpc = "revoke" ~> lpc = "end"
=============================================================================
