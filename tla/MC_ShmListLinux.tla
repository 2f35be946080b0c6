-------------------------- MODULE MC_ShmListLinux --------------------------
EXTENDS ShmListLinux, TLC

CONSTANTS s1, s2, null

MCSegs == {s1, s2}
=============================================================================
