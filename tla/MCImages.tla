------------------------------ MODULE MCImages ------------------------------
(* The symmetry of the threads of Images and of its long images, for TLC. *)
EXTENDS Images, TLC

ThreadAndImageSymmetry == Permutations(Threads) \cup Permutations(Long)
=============================================================================
