----------------------------- MODULE Discovery -----------------------------
(***************************************************************************)
(* How a node learns of the others (pkg/etcd_registry/discovery.go and the *)
(* client table of service/api/client/client.go): a Get of the present     *)
(* keys, then a watch from the next revision on, both feeding the table    *)
(* GetClientByAddr reads.  A key is the service name and the address, its  *)
(* value the address, so a key never changes its value.  Services composes *)
(* this module with the registrations that change etcd.                    *)
(***************************************************************************)
EXTENDS Naturals, Sequences

CONSTANTS
  Keys,         \* the keys of the nodes' RPC services
  ClientFails,  \* TRUE: imrpc.NewClient may fail
  WatchEnds     \* TRUE: etcd may close the watch channel

VARIABLES
  log,      \* etcd: the changes under the prefix after the revision the node knows
  present,  \* etcd: the keys of the last revision
  pc,       \* WatchService: "get" | "register" | "watch" | "end"
  kvs,      \* the keys of the Get it has still to register
  clients,  \* the keys in the client table
  failed    \* history: keys whose NewClient failed

vars == <<log, present, pc, kvs, clients, failed>>

Init ==
  /\ log = << >> /\ present = {}
  /\ pc = "get" /\ kvs = {}
  /\ clients = {} /\ failed = {}

\* A node registers, registers again, or goes away.  Nobody asks for what happened
\* before the Get or after the end of the watch.
Change(type, k) ==
  /\ type = "delete" => k \in present
  /\ log' = IF pc \in {"register", "watch"} THEN Append(log, [type |-> type, key |-> k]) ELSE log
  /\ present' = IF type = "put" THEN present \cup {k} ELSE present \ {k}
  /\ UNCHANGED <<pc, kvs, clients, failed>>

\* onRegister: a known key with the same address is left alone.
OnRegister(k) ==
  \/ clients' = clients \cup {k} /\ failed' = failed \ {k}
  \/ /\ ClientFails /\ k \notin clients
     /\ failed' = failed \cup {k}
     /\ UNCHANGED clients

OnUnregister(k) == clients' = clients \ {k} /\ failed' = failed \ {k}

\* WatchService's Get; InitClient ignores its error and nobody watches.
Get ==
  /\ pc = "get"
  /\ \/ pc' = "register" /\ kvs' = present
     \/ WatchEnds /\ pc' = "end" /\ UNCHANGED kvs
  /\ UNCHANGED <<log, present, clients, failed>>

Register(k) ==
  /\ pc = "register" /\ k \in kvs
  /\ kvs' = kvs \ {k}
  /\ OnRegister(k)
  /\ UNCHANGED <<log, present, pc>>

\* Mutant: the watch starts from the present, as in the unused function watcher.
WatchNow == << >>

\* The changes a watch from the revision after that of the Get reports.
WatchFrom == log

StartWatch ==
  /\ pc = "register" /\ kvs = {}
  /\ pc' = "watch"
  /\ log' = WatchFrom
  /\ UNCHANGED <<present, kvs, clients, failed>>

\* watcherFromRevision handles the next change.
WatchEvent ==
  /\ pc = "watch" /\ log # << >>
  /\ LET ev == Head(log) IN
       IF ev.type = "put" THEN OnRegister(ev.key) ELSE OnUnregister(ev.key)
  /\ log' = Tail(log)
  /\ UNCHANGED <<present, pc, kvs>>

\* The watch channel is closed: the goroutine ends.
WatchClosed ==
  /\ WatchEnds /\ pc = "watch"
  /\ pc' = "end" /\ log' = << >>
  /\ UNCHANGED <<present, kvs, clients, failed>>

DiscoveryStep == Get \/ StartWatch \/ WatchEvent \/ \E k \in Keys : Register(k)

-----------------------------------------------------------------------------
(* Properties *)

\* The variables have their types: the client table and etcd hold keys of nodes.
TypeOK ==
  /\ log \in Seq([type : {"put", "delete"}, key : Keys])
  /\ present \subseteq Keys /\ kvs \subseteq Keys
  /\ clients \subseteq Keys /\ failed \subseteq Keys
  /\ pc \in {"get", "register", "watch", "end"}

\* WatchService's comment: no change is missed.  A watcher that has handled all
\* changes knows exactly the nodes that are registered, but for those whose
\* client could not be made, however changes fell between Get and watch.
NoChangeMissed ==
  pc = "watch" /\ log = << >> =>
    clients \subseteq present /\ present \subseteq clients \cup failed
=============================================================================
