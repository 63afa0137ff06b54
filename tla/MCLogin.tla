------------------------------ MODULE MCLogin ------------------------------
(***************************************************************************)
(* The connections of one user on small clusters.  The progress properties *)
(* are stated for one connection: Login does not tell connections apart,   *)
(* so it stands for all of them.                                           *)
(***************************************************************************)
EXTENDS Login, TLC

Symmetry == Permutations(Nodes) \cup Permutations(Conns)

aConn == CHOOSE c \in Conns : TRUE

\* A client that was closed, by whomever, is unregistered (OnClose, DelClient).
ClosedUnregisters == Unregisters(aConn)

\* A record that a crash or a failed DEL left behind locks the user out once: the
\* next login that reaches GETSET in uniqueLogin removes it, even if GETSET fails.
LockoutEnds == EndsLockout(aConn)
=============================================================================
