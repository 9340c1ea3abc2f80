----------------------------- MODULE MCRefCount -----------------------------
(* Three threads and two objects.                                           *)
EXTENDS RefCount, TLC

Symmetry == Permutations(Threads) \cup Permutations(Objects)
=============================================================================
