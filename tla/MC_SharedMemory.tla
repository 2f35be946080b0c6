-------------------------- MODULE MC_SharedMemory --------------------------
(* Model-checking instance of SharedMemory: two processes, one name.       *)
EXTENDS SharedMemory, TLC

CONSTANTS p1, p2, n1, none

MCProcs == {p1, p2}
MCNames == {n1}
MCSymmetry == Permutations(MCProcs)
=============================================================================
