------------------------------ MODULE PortToUds ------------------------------
(***************************************************************************)
(* The Windows port -> Unix-domain-socket name directory of                *)
(* elkodon_pal/posix/src/windows/win32_udp_port_to_uds_name.rs: a named    *)
(* file mapping shared by every process, holding init_check and an array   *)
(* of entries, each an ABA counter and two name buffers.                   *)
(*                                                                         *)
(* Every process p runs one call at a time; each atomic load, store or    *)
(* buffer copy of the code is one step.  The array has NSlots entries and *)
(* a port argument is a value of 0 .. NSlots (the u16 range of 65535      *)
(* entries); a name is a sequence of non-NUL letters, its buffer the      *)
(* bytes before the first NUL (a name of MaxLen letters fills the buffer  *)
(* and has no NUL).                                                       *)
(***************************************************************************)
EXTENDS Naturals, Sequences, FiniteSets

CONSTANTS
    Procs,           \* the processes that use the directory
    NSlots,          \* uds_names.len() (65535)
    MaxLen,          \* MAX_UDS_NAME_LEN (108)
    Letters,         \* the non-NUL bytes names are made of
    SetArgs,         \* names passed to set
    QueryArgs,       \* names passed to get_port
    PortArgs,        \* ports passed to set and reset
    Writers,         \* Writers[port]: the processes that call set(port, ..)
    AttachAfterInit, \* TRUE: processes attach only once the creator is done
    MaxCounter       \* bound on every aba_counter, so the model is finite

ASSUME NSlotsAssumption == NSlots \in Nat \ {0}
ASSUME MaxLenAssumption == MaxLen \in Nat \ {0}
ASSUME PortArgsAssumption == PortArgs \subseteq 0 .. NSlots
ASSUME WritersAssumption == Writers \in [PortArgs -> SUBSET Procs]
ASSUME MaxCounterAssumption == MaxCounter \in Nat
ASSUME ProcsAssumption == IsFiniteSet(Procs)
ASSUME ArgsAssumption == SetArgs \subseteq Seq(Letters) /\ QueryArgs \subseteq Seq(Letters)

VARIABLES
    objRefs,     \* number of open handles of the named file mapping
    initCheck,   \* init_check: "zero", "in_progress" or "initialized"
    counter,     \* counter[s]: aba_counter of entry s
    buf,         \* buf[s][b]: the name in buffer b of entry s
    registered,  \* registered[s]: name of the last set of entry s that returned
    pc,          \* pc[p]: where process p is
    hasMap,      \* hasMap[p]: p holds a PortToUds
    op           \* op[p]: arguments and locals of p's running call

vars == <<objRefs, initCheck, counter, buf, registered, pc, hasMap, op>>

Slots == 0 .. NSlots - 1
Empty == <<>>
Names == UNION {[1 .. k -> Letters] : k \in 0 .. MaxLen}
Op == [port : 0 .. NSlots, name : Seq(Letters), cur : Nat, idx : 0 .. NSlots,
       res : Names, created : BOOLEAN]
NoOp == [port |-> 0, name |-> Empty, cur |-> 0, idx |-> 0, res |-> Empty,
         created |-> FALSE]

(* The zero-filled mapping a fresh CreateFileMappingA returns.            *)
ZeroCounter == [s \in Slots |-> 0]
ZeroBuf == [s \in Slots |-> [b \in 0 .. 1 |-> Empty]]

(* (current - 1) % 2 on a u64: at current = 0 the subtraction wraps to     *)
(* 2^64 - 1 in a release build, which is odd.                             *)
ReadBuffer(cur) == IF cur = 0 THEN 1 ELSE (cur - 1) % 2

(* position of the first NUL, unwrap_or(0): a full buffer has none.        *)
Pos(entry) == IF Len(entry) < MaxLen THEN Len(entry) ELSE 0

Init ==
    /\ objRefs = 0
    /\ initCheck = "zero"
    /\ counter = ZeroCounter
    /\ buf = ZeroBuf
    /\ registered = [s \in Slots |-> Empty]
    /\ pc = [p \in Procs |-> "idle"]
    /\ hasMap = [p \in Procs |-> FALSE]
    /\ op = [p \in Procs |-> NoOp]

-----------------------------------------------------------------------------
(* Closing one handle of the mapping; the last close destroys the object  *)
(* and its contents.                                                      *)
CloseHandle ==
    IF objRefs = 1
    THEN /\ objRefs' = 0
         /\ initCheck' = "zero" /\ counter' = ZeroCounter /\ buf' = ZeroBuf
         /\ registered' = [s \in Slots |-> Empty]
    ELSE /\ objRefs' = objRefs - 1
         /\ UNCHANGED <<initCheck, counter, buf, registered>>

(* Returning from p's call.                                              *)
Finish(p) == pc' = [pc EXCEPT ![p] = "idle"] /\ op' = [op EXCEPT ![p] = NoOp]

(* PortToUds::new, CreateFileMappingA opening the object; the creator is *)
(* who finds none (GetLastError is not ERROR_ALREADY_EXISTS).  Its failure *)
(* returns None and changes nothing.  An attacher starts only after the   *)
(* creator's new returned when AttachAfterInit holds.                     *)
NewCreateMapping(p) ==
    /\ pc[p] = "idle" /\ ~hasMap[p]
    /\ objRefs = 0 \/ ~AttachAfterInit \/ initCheck = "initialized"
    /\ objRefs' = objRefs + 1
    /\ pc' = [pc EXCEPT ![p] = "new_map"]
    /\ op' = [op EXCEPT ![p].created = (objRefs = 0)]
    /\ UNCHANGED <<initCheck, counter, buf, registered, hasMap>>

(* Variant of NewVirtualAlloc whose VirtualAlloc failure returns without  *)
(* closing the handle (fault-injection for NoHandleLeak).                 *)
NewVirtualAllocLeaks(p) ==
    /\ pc[p] = "new_alloc"
    /\ \/ /\ Finish(p) /\ UNCHANGED <<objRefs, initCheck, counter, buf, registered, hasMap>>
       \/ /\ op[p].created
          /\ pc' = [pc EXCEPT ![p] = "init_cas"]
          /\ UNCHANGED <<objRefs, initCheck, counter, buf, registered, op, hasMap>>
       \/ /\ ~op[p].created
          /\ hasMap' = [hasMap EXCEPT ![p] = TRUE] /\ Finish(p)
          /\ UNCHANGED <<objRefs, initCheck, counter, buf, registered>>

(* MapViewOfFile, then VirtualAlloc(MEM_COMMIT): either failure closes    *)
(* the handle (and unmaps the view) and returns None.  On success the     *)
(* creator, and only the creator, runs initialize.                        *)
NewMapView(p) ==
    /\ pc[p] = "new_map"
    /\ \/ /\ CloseHandle /\ Finish(p)
       \/ /\ pc' = [pc EXCEPT ![p] = "new_alloc"]
          /\ UNCHANGED <<objRefs, initCheck, counter, buf, registered, op>>
    /\ UNCHANGED hasMap

NewVirtualAlloc(p) ==
    /\ pc[p] = "new_alloc"
    /\ \/ /\ CloseHandle /\ Finish(p) /\ UNCHANGED hasMap
       \/ /\ op[p].created
          /\ pc' = [pc EXCEPT ![p] = "init_cas"]
          /\ UNCHANGED <<objRefs, initCheck, counter, buf, registered, op, hasMap>>
       \/ /\ ~op[p].created
          /\ hasMap' = [hasMap EXCEPT ![p] = TRUE] /\ Finish(p)
          /\ UNCHANGED <<objRefs, initCheck, counter, buf, registered>>

(* PortToUdsNameMap::initialize: the load and compare_exchange succeed,   *)
(* for nobody else writes init_check (the Err arm's spin is unreachable). *)
InitCas(p) ==
    /\ pc[p] = "init_cas"
    /\ initCheck' = "in_progress"
    /\ pc' = [pc EXCEPT ![p] = "init_entry"]
    /\ op' = [op EXCEPT ![p].idx = 0]
    /\ UNCHANGED <<objRefs, counter, buf, registered, hasMap>>

(* Entry::initialize of entry idx; after the last, store IS_INITIALIZED.  *)
InitEntry(p) ==
    /\ pc[p] = "init_entry"
    /\ LET s == op[p].idx IN
       IF s < NSlots
       THEN /\ counter' = [counter EXCEPT ![s] = 1]
            /\ buf' = [buf EXCEPT ![s] = [b \in 0 .. 1 |-> Empty]]
            /\ op' = [op EXCEPT ![p].idx = s + 1]
            /\ UNCHANGED <<initCheck, pc, hasMap>>
       ELSE /\ initCheck' = "initialized"
            /\ hasMap' = [hasMap EXCEPT ![p] = TRUE] /\ Finish(p)
            /\ UNCHANGED <<counter, buf>>
    /\ UNCHANGED <<objRefs, registered>>

(* Drop for PortToUds: UnmapViewOfFile and CloseHandle.                  *)
Drop(p) ==
    /\ pc[p] = "idle" /\ hasMap[p]
    /\ CloseHandle
    /\ hasMap' = [hasMap EXCEPT ![p] = FALSE]
    /\ UNCHANGED <<pc, op>>

(* A panic (index out of bounds, slice too short) ends the call ...      *)
Panic(p) ==
    /\ pc' = [pc EXCEPT ![p] = "panicked"] /\ op' = [op EXCEPT ![p] = NoOp]
    /\ UNCHANGED <<objRefs, initCheck, counter, buf, registered, hasMap>>

(* ... and unwinding the thread drops its PortToUds.                     *)
Unwind(p) ==
    /\ pc[p] = "panicked"
    /\ CloseHandle
    /\ hasMap' = [hasMap EXCEPT ![p] = FALSE]
    /\ pc' = [pc EXCEPT ![p] = "idle"]
    /\ UNCHANGED op

-----------------------------------------------------------------------------
(* PortToUds::set / reset and Entry::set: index uds_names[port] (panics   *)
(* out of bounds), then load the counter.                                 *)
SetStart(p, port, name) ==
    /\ pc[p] = "idle" /\ hasMap[p]
    /\ p \in Writers[port]
    /\ \/ /\ port >= NSlots
          /\ Panic(p)
       \/ /\ port < NSlots /\ counter[port] < MaxCounter
          /\ pc' = [pc EXCEPT ![p] = "set_zero"]
          /\ op' = [op EXCEPT ![p] = [NoOp EXCEPT !.port = port, !.name = name,
                                                  !.cur = counter[port]]]
          /\ UNCHANGED <<objRefs, initCheck, counter, buf, registered, hasMap>>

(* Reset writes the all-zero buffer through set.                          *)
Reset(p, port) == SetStart(p, port, Empty)

(* Variant of SetZero without the slice bound check (fault-injection for *)
(* TypeOK).                                                               *)
SetZeroUnchecked(p) ==
    /\ pc[p] = "set_zero"
    /\ buf' = [buf EXCEPT ![op[p].port][op[p].cur % 2] = Empty]
    /\ pc' = [pc EXCEPT ![p] = "set_copy"]
    /\ UNCHANGED <<objRefs, initCheck, counter, registered, hasMap, op>>

(* Variant of SetCopy that writes the buffer readers use (fault-injection *)
(* for ReadableIsLastSet).                                                *)
SetCopyReadBuffer(p) ==
    /\ pc[p] = "set_copy"
    /\ buf' = [buf EXCEPT ![op[p].port][ReadBuffer(op[p].cur)] = op[p].name]
    /\ pc' = [pc EXCEPT ![p] = "set_inc"]
    /\ UNCHANGED <<objRefs, initCheck, counter, registered, hasMap, op>>

(* Zero buffer current % 2; copy_from_slice then panics when the name is *)
(* longer than the buffer, leaving that buffer zeroed.                   *)
SetZero(p) ==
    /\ pc[p] = "set_zero"
    /\ buf' = [buf EXCEPT ![op[p].port][op[p].cur % 2] = Empty]
    /\ \/ /\ Len(op[p].name) > MaxLen
          /\ pc' = [pc EXCEPT ![p] = "panicked"] /\ op' = [op EXCEPT ![p] = NoOp]
       \/ /\ Len(op[p].name) <= MaxLen
          /\ pc' = [pc EXCEPT ![p] = "set_copy"]
          /\ UNCHANGED op
    /\ UNCHANGED <<objRefs, initCheck, counter, registered, hasMap>>

SetCopy(p) ==
    /\ pc[p] = "set_copy"
    /\ buf' = [buf EXCEPT ![op[p].port][op[p].cur % 2] = op[p].name]
    /\ pc' = [pc EXCEPT ![p] = "set_inc"]
    /\ UNCHANGED <<objRefs, initCheck, counter, registered, hasMap, op>>

(* fetch_add(1, Release): the name becomes the entry's current one.       *)
SetInc(p) ==
    /\ pc[p] = "set_inc"
    /\ counter' = [counter EXCEPT ![op[p].port] = @ + 1]
    /\ registered' = [registered EXCEPT ![op[p].port] = op[p].name]
    /\ Finish(p)
    /\ UNCHANGED <<objRefs, initCheck, buf, hasMap>>

-----------------------------------------------------------------------------
(* The values a copy of buffer b of entry s can return: its content, or,  *)
(* while a writer copies a name into it (a data race), any prefix of that *)
(* name.                                                                  *)
Readable(s, b) ==
    {buf[s][b]} \cup
    UNION {{SubSeq(op[w].name, 1, k) : k \in 0 .. Len(op[w].name)} :
           w \in {w \in Procs : /\ pc[w] = "set_copy"
                               /\ op[w].port = s
                               /\ op[w].cur % 2 = b}}

(* PortToUds::get_port: a scan of every entry from idx 0.                 *)
GetPortStart(p, name) ==
    /\ pc[p] = "idle" /\ hasMap[p]
    /\ pc' = [pc EXCEPT ![p] = "gp_load"]
    /\ op' = [op EXCEPT ![p] = [NoOp EXCEPT !.name = name]]
    /\ UNCHANGED <<objRefs, initCheck, counter, buf, registered, hasMap>>

(* Entry::get of entry idx: load the counter once, before the loop.       *)
GetLoad(p) ==
    /\ pc[p] = "gp_load"
    /\ IF op[p].idx < NSlots
       THEN /\ pc' = [pc EXCEPT ![p] = "gp_read"]
            /\ op' = [op EXCEPT ![p].cur = counter[op[p].idx]]
       ELSE Finish(p)
    /\ UNCHANGED <<objRefs, initCheck, counter, buf, registered, hasMap>>

(* Variant of GetRead that copies buffer current % 2 (fault-injection for *)
(* GetSeesLastWritten).                                                   *)
GetReadCurrent(p) ==
    /\ pc[p] = "gp_read"
    /\ \E v \in Readable(op[p].idx, op[p].cur % 2) :
          op' = [op EXCEPT ![p].res = v]
    /\ pc' = [pc EXCEPT ![p] = "gp_check"]
    /\ UNCHANGED <<objRefs, initCheck, counter, buf, registered, hasMap>>

(* The loop body: copy buffer (current - 1) % 2 ...                      *)
GetRead(p) ==
    /\ pc[p] = "gp_read"
    /\ \E v \in Readable(op[p].idx, ReadBuffer(op[p].cur)) :
          op' = [op EXCEPT ![p].res = v]
    /\ pc' = [pc EXCEPT ![p] = "gp_check"]
    /\ UNCHANGED <<objRefs, initCheck, counter, buf, registered, hasMap>>

(* ... and leave it when the counter still equals the value loaded before *)
(* the loop; then compare the name before the first NUL with the query.  *)
GetCheck(p) ==
    /\ pc[p] = "gp_check"
    /\ LET o == op[p]
           pos == Pos(o.res) IN
       \/ /\ counter[o.idx] # o.cur
          /\ pc' = [pc EXCEPT ![p] = "gp_read"]
          /\ UNCHANGED op
       \/ /\ counter[o.idx] = o.cur
          /\ pos # 0 /\ pos <= Len(o.name)
          /\ o.res = SubSeq(o.name, 1, pos)
          /\ Finish(p)
       \/ /\ counter[o.idx] = o.cur
          /\ ~(pos # 0 /\ pos <= Len(o.name) /\ o.res = SubSeq(o.name, 1, pos))
          /\ pc' = [pc EXCEPT ![p] = "gp_load"]
          /\ op' = [op EXCEPT ![p].idx = o.idx + 1]
    /\ UNCHANGED <<objRefs, initCheck, counter, buf, registered, hasMap>>

-----------------------------------------------------------------------------
Step(p) ==
    \/ NewCreateMapping(p)
    \/ NewMapView(p)
    \/ NewVirtualAlloc(p)
    \/ InitCas(p)
    \/ InitEntry(p)
    \/ Drop(p)
    \/ Unwind(p)
    \/ \E port \in PortArgs, name \in SetArgs : SetStart(p, port, name)
    \/ \E port \in PortArgs : Reset(p, port)
    \/ SetZero(p)
    \/ SetCopy(p)
    \/ SetInc(p)
    \/ \E name \in QueryArgs : GetPortStart(p, name)
    \/ GetLoad(p)
    \/ GetRead(p)
    \/ GetCheck(p)

Next == \E p \in Procs : Step(p)

Spec == Init /\ [][Next]_vars

(* Threads are scheduled by the OS: a process that can take a step        *)
(* eventually takes one.                                                  *)
FairSpec == Spec /\ \A p \in Procs : WF_vars(Step(p))

-----------------------------------------------------------------------------
(* Every variable keeps to its type.                                      *)
TypeOK ==
    /\ objRefs \in Nat
    /\ initCheck \in {"zero", "in_progress", "initialized"}
    /\ counter \in [Slots -> Nat]
    /\ buf \in [Slots -> [0 .. 1 -> Names]]
    /\ registered \in [Slots -> Names]
    /\ pc \in [Procs -> {"idle", "new_map", "new_alloc", "init_cas", "init_entry",
                         "set_zero", "set_copy", "set_inc",
                         "gp_load", "gp_read", "gp_check", "panicked"}]
    /\ hasMap \in [Procs -> BOOLEAN]
    /\ op \in [Procs -> Op]

(* The processes that hold an open handle of the mapping: inside new, or *)
(* holding a PortToUds (a panicked thread until it unwinds).              *)
HandleHolders ==
    {p \in Procs : hasMap[p] \/ pc[p] \in {"new_map", "new_alloc", "init_cas", "init_entry"}}

(* No handle of the mapping leaks: every failure path of PortToUds::new   *)
(* closes what it opened, and drop closes it, so the object lives exactly *)
(* as long as some process holds it.                                      *)
NoHandleLeak == objRefs = Cardinality(HandleHolders)

(* The entries whose set is in progress.                                  *)
Writing == {op[w].port : w \in {w \in Procs : pc[w] \in {"set_zero", "set_copy", "set_inc"}}}

(* When no set of an entry is running, the buffer get reads, (counter-1)  *)
(* % 2, holds the name of the last set of that entry that returned: no    *)
(* returned set is lost, nor overwritten by initialisation.               *)
ReadableIsLastSet ==
    \A s \in Slots \ Writing : buf[s][ReadBuffer(counter[s])] = registered[s]

(* A get whose counter check succeeds returns the name of the last set   *)
(* that returned: a reader never returns a buffer a writer is filling.    *)
GetSeesLastWritten ==
    \A p \in Procs :
        pc[p] = "gp_check" /\ counter[op[p].idx] = op[p].cur
            => op[p].res = registered[op[p].idx]

(* get_port never passes over an entry whose buffer, read while the       *)
(* counter stayed put, holds exactly the queried name: every name set     *)
(* accepts can be found again.                                            *)
NoSkippedMatch ==
    [][\A p \in Procs :
         /\ pc[p] = "gp_check" /\ counter[op[p].idx] = op[p].cur
         /\ op[p].res = op[p].name /\ op[p].name # Empty
         => pc'[p] = "idle"]_vars

(* No call panics.                                                        *)
NoPanic == \A p \in Procs : pc[p] # "panicked"

(* Every get_port call returns: the scan of each entry ends.             *)
GetPortTerminates ==
    \A p \in Procs : pc[p] = "gp_read" ~> pc[p] = "idle"

(* get_port(name) returns a port only for the entry that holds exactly    *)
(* name (spec section 4.6: exact-match semantic).                         *)
GetPortExact ==
    [][\A p \in Procs :
         pc[p] = "gp_check" /\ pc'[p] = "idle" => op[p].res = op[p].name]_vars
====
