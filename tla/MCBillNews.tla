----------------------------- MODULE MCBillNews -----------------------------
(* The symmetry of the users and of the threads of BillNews, for TLC. *)
EXTENDS BillNews, TLC

UserAndThreadSymmetry == Permutations(Users) \cup Permutations(Threads)
=============================================================================
