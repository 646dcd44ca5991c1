----------------------------- MODULE MCCncLocks -----------------------------
(* CncLocks with the stream's thread and a request's timer, or a cycle.     *)
EXTENDS CncLocks, TLC
TheRequests == <<"load", "unload">>
OneRequest == <<"load">>
TheUsed == {"cnc", "load"}
Symmetry == Permutations(Threads)
=============================================================================
