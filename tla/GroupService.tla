---------------------------- MODULE GroupService ----------------------------
(***************************************************************************)
(* What the temporary groups promise their callers (TGroupManager's        *)
(* UserJoinTGroup and UserOutTGroup): a set of users per group id, and     *)
(* calls that each change that set in one instant between call and return, *)
(* as if objects, locks and retries did not exist.                         *)
(***************************************************************************)
EXTENDS Naturals

CONSTANTS Threads, Uids, Gids, Nil

VARIABLES
  members,  \* group id -> its users
  ops       \* thread -> its call, with done once it took effect, or Nil

Ops == [op : {"join", "out"}, gid : Gids, uid : Uids, done : BOOLEAN]

Init ==
  /\ members = [i \in Gids |-> {}]
  /\ ops = [t \in Threads |-> Nil]

Call(t) ==
  /\ ops[t] = Nil
  /\ \E o \in Ops : ~o.done /\ ops' = [ops EXCEPT ![t] = o]
  /\ UNCHANGED members

Done(o) == [op |-> o.op, gid |-> o.gid, uid |-> o.uid, done |-> TRUE]

Pending(t) == ops[t] # Nil /\ ~ops[t].done

\* UserJoinTGroup takes effect.
Join(t) ==
  /\ Pending(t) /\ ops[t].op = "join"
  /\ members' = [members EXCEPT ![ops[t].gid] = @ \cup {ops[t].uid}]
  /\ ops' = [ops EXCEPT ![t] = Done(@)]

\* UserOutTGroup takes effect.
Out(t) ==
  /\ Pending(t) /\ ops[t].op = "out"
  /\ members' = [members EXCEPT ![ops[t].gid] = @ \ {ops[t].uid}]
  /\ ops' = [ops EXCEPT ![t] = Done(@)]

\* Some leaves of users who are not in the group anyway take effect together.
OutAbsent(T) ==
  /\ \A t \in T : /\ Pending(t) /\ ops[t].op = "out"
                  /\ ops[t].uid \notin members[ops[t].gid]
  /\ ops' = [t \in Threads |-> IF t \in T THEN Done(ops[t]) ELSE ops[t]]
  /\ UNCHANGED members

Return(t) ==
  /\ ops[t] # Nil /\ ops[t].done
  /\ ops' = [ops EXCEPT ![t] = Nil]
  /\ UNCHANGED members

Next ==
  \/ \E T \in SUBSET Threads : OutAbsent(T)
  \/ \E t \in Threads : Call(t) \/ Join(t) \/ Out(t) \/ Return(t)

Spec == Init /\ [][Next]_<<members, ops>>
=============================================================================
