----------------------------- MODULE MCDelivery -----------------------------
(* Requests for one user on a small cluster. *)
EXTENDS Delivery, TLC

Symmetry == Permutations(Nodes) \cup Permutations(Reqs)
=============================================================================
