---------------------------- MODULE MC_PortToUds ----------------------------
(* Small instances of the port directory: two processes, two entries,     *)
(* names of at most two letters.                                          *)
EXTENDS PortToUdsRefinement, TLC

CONSTANTS p1, p2

MCProcs == {p1, p2}

(* Names: a letter, a prefix-related pair, a full buffer, one too long.  *)
MCSetArgs == {<<"a">>, <<"a", "b">>, <<"a", "b", "a">>}
(* Names that fit the buffer.                                            *)
MCShortSetArgs == {<<"a">>, <<"a", "b">>}
MCQueryArgs == {<<"a", "b">>}

(* One writer per entry (the process that bound the port); any process   *)
(* may pass the out-of-range port.                                        *)
MCSingleWriters == [port \in 0 .. 2 |-> IF port = 0 THEN {p1} ELSE IF port = 1 THEN {p2} ELSE {p1, p2}]
MCAllWriters == [port \in 0 .. 2 |-> {p1, p2}]
====
