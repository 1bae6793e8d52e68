------------------------------ MODULE MCFriends ------------------------------
(* The symmetry of the users and of the threads of Friends, for TLC. *)
EXTENDS Friends, TLC

UserAndThreadSymmetry == Permutations(Users) \cup Permutations(Threads)
=============================================================================
