---------------------------- MODULE PortDirectory ----------------------------
(***************************************************************************)
(* What the Windows port -> UDS name directory promises, without its       *)
(* buffers and counters: one register per port, holding the name a reader *)
(* gets. A set is invoked, then takes effect in one atomic step, or is    *)
(* abandoned by a panic. The directory lives while some process holds it  *)
(* and is empty again once the last holder lets go.                       *)
(***************************************************************************)
EXTENDS Naturals

CONSTANTS
    Procs,    \* the processes using the directory
    Ports,    \* the entries
    Values,   \* the names a register can hold
    Nothing   \* the name of an empty register

VARIABLES
    dir,      \* dir[port]: the name a reader of that entry gets
    users,    \* the number of holders
    pending   \* pending[p]: the set p has invoked and not finished, or {}

vars == <<dir, users, pending>>

Calls == [port : Ports, name : Values]

EmptyDir == [s \in Ports |-> Nothing]

Init ==
    /\ dir = EmptyDir
    /\ users = 0
    /\ pending = [p \in Procs |-> {}]

Attach ==
    /\ users' = users + 1
    /\ UNCHANGED <<dir, pending>>

(* The last holder's release destroys the directory. *)
Detach ==
    /\ users > 0
    /\ users' = users - 1
    /\ dir' = IF users = 1 THEN EmptyDir ELSE dir
    /\ UNCHANGED pending

Invoke(p, c) ==
    /\ users > 0
    /\ pending[p] = {}
    /\ pending' = [pending EXCEPT ![p] = {c}]
    /\ UNCHANGED <<dir, users>>

(* The set becomes visible to readers, all at once. *)
Commit(p) ==
    /\ \E c \in pending[p] : dir' = [dir EXCEPT ![c.port] = c.name]
    /\ pending' = [pending EXCEPT ![p] = {}]
    /\ UNCHANGED users

Abort(p) ==
    /\ pending[p] # {}
    /\ pending' = [pending EXCEPT ![p] = {}]
    /\ UNCHANGED <<dir, users>>

Next ==
    \/ Attach \/ Detach
    \/ \E p \in Procs : \/ \E c \in Calls : Invoke(p, c)
                        \/ Commit(p) \/ Abort(p)

Spec == Init /\ [][Next]_vars

=============================================================================
