------------------------- MODULE PortToUdsRefinement -------------------------
(***************************************************************************)
(* PortToUds implements PortDirectory. A port's register is the buffer a  *)
(* reader copies, (counter - 1) % 2 of the entry; a process's pending set  *)
(* is its running set or reset.                                           *)
(***************************************************************************)
EXTENDS PortToUds

(* The set or reset p is running, as an abstract call. *)
PendingSet(p) ==
    IF pc[p] \in {"set_zero", "set_copy", "set_inc"}
      THEN {[port |-> op[p].port, name |-> op[p].name]}
      ELSE {}

Directory == INSTANCE PortDirectory WITH
    Ports <- Slots,
    Values <- SetArgs \cup {Empty},
    Nothing <- Empty,
    dir <- [s \in Slots |-> buf[s][ReadBuffer(counter[s])]],
    users <- objRefs,
    pending <- [p \in Procs |-> PendingSet(p)]

(* Every step of the directory code is a step of the abstract directory or *)
(* leaves it unchanged: what a reader of an entry gets changes only when a *)
(* set's fetch_add publishes its name, or when the last handle closes.     *)
DirectorySpec == Directory!Spec

=============================================================================
