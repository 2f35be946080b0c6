------------------------- MODULE MC_ShmListFreeBSD -------------------------
EXTENDS ShmListFreeBSD, TLC

CONSTANTS s1, s2, junk

MCSegs == {s1, s2}

(* A short and a long segment name, in bytes rounded to the alignment 2. *)
MCRecSize == s1 :> 2 @@ s2 :> 4
=============================================================================
