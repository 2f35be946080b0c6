------------------------------ MODULE MC_Math ------------------------------
EXTENDS Math, TLC

(* Every power of two below 2^Width. *)
MCAlignments == {2^k : k \in 0..(Width - 1)}
=============================================================================
