----------------------------- MODULE MCAccounts -----------------------------
(* The symmetry of the threads and of the user names of Accounts, for TLC. *)
EXTENDS Accounts, TLC

ThreadAndNameSymmetry == Permutations(Threads) \cup Permutations(Names)
=============================================================================
