---------------------------- MODULE MCConnections ----------------------------
(* The symmetry of the threads and of the connections of Connections, for TLC. *)
EXTENDS HandlerPaths, TLC

ThreadAndConnectionSymmetry == Permutations(Threads) \cup Permutations(Connections)
=============================================================================
