---------------------------- MODULE MCAllocator ----------------------------
(* Allocator for TLC.                                                       *)
EXTENDS Allocator, TLC

Symmetry == Permutations(Threads) \cup Permutations(Samples)
=============================================================================
