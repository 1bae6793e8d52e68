----------------------------- MODULE MCRequests -----------------------------
(* The symmetry of the users and of the threads of Requests, for TLC. *)
EXTENDS Requests, TLC

UserAndThreadSymmetry == Permutations(Users) \cup Permutations(Threads)
=============================================================================
