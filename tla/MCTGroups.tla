----------------------------- MODULE MCTGroups -----------------------------
(* The temporary groups with a few goroutines, users and objects. *)
EXTENDS TGroups, TLC

Symmetry == Permutations(Threads) \cup Permutations(Uids) \cup Permutations(Groups)

(***************************************************************************)
(* The specification does not tell one goroutine, object or user from      *)
(* another, so that what holds of one holds of all.                        *)
(***************************************************************************)
aThread == CHOOSE t \in Threads : TRUE
aGroup == CHOOSE g \in Groups : TRUE
aUser == CHOOSE u \in Uids : TRUE

\* UserOutTGroup and SendMessageToTGroup come back, whatever they wait for.
OutAndSendReturn == OutOrSendReturns(aThread)

\* UserJoinTGroup comes back once the other callers are quiet.
JoinReturns == LoneJoinReturns(aThread)

\* ListenSendChan of a deleted group ends.
ListenerEnds == ListenerOfDeletedEnds(aGroup)

\* SendToUsers hands a queued message to a member who stays.
QueuedReachesMember == QueuedReaches(aGroup, aUser)
=============================================================================
