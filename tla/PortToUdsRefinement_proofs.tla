--------------------- MODULE PortToUdsRefinement_proofs ---------------------
(***************************************************************************)
(* Proof that the Windows port directory implements the abstract one of   *)
(* PortDirectory under the refinement mapping of PortToUdsRefinement, for *)
(* every number of processes, entries and names, when one process sets    *)
(* each entry and attachers wait for the creator (EnvAssumption).         *)
(***************************************************************************)
EXTENDS PortToUds_proofs

(* The images of the code's state under the refinement mapping.           *)
AbsDir == [s \in Slots |-> buf[s][ReadBuffer(counter[s])]]
AbsPending == [p \in Procs |-> PendingSet(p)]

USE NSlotsAssumption, MaxLenAssumption, PortArgsAssumption, WritersAssumption,
    MaxCounterAssumption, ProcsAssumption, ArgsAssumption

(* While some process holds a handle the object is alive.                 *)
LEMMA HoldersPositive ==
    ASSUME IInv, NEW p \in HandleHolders
    PROVE  objRefs > 0
<1>1. objRefs = Cardinality(HandleHolders) /\ objRefs \in Nat
    BY DEF IInv, NoHandleLeak, TypeOK
<1>2. Cardinality(HandleHolders) >= 1
    BY HoldersRemove
<1>3. QED
    BY <1>1, <1>2

-----------------------------------------------------------------------------
(* Steps that leave the abstract state alone *)

LEMMA AbsStutter ==
    ASSUME AbsDir' = AbsDir, objRefs' = objRefs, AbsPending' = AbsPending
    PROVE  UNCHANGED Directory!vars
BY DEF Directory!vars, AbsDir, AbsPending

(* A step that moves only p, outside the phases of set, and touches     *)
(* neither the handle count nor any entry.                                *)
LEMMA LocalStutter ==
    ASSUME TypeOK, NEW p \in Procs, NEW x, NEW r,
           pc' = [pc EXCEPT ![p] = x], op' = [op EXCEPT ![p] = r],
           x \notin SetPhases, pc[p] \notin SetPhases,
           UNCHANGED <<objRefs, counter, buf>>
    PROVE  UNCHANGED Directory!vars
<1>1. AbsDir' = AbsDir
    BY DEF AbsDir
<1>2. \A q \in Procs : PendingSet(q)' = PendingSet(q)
    BY DEF PendingSet, TypeOK, SetPhases
<1>3. QED
    BY <1>1, <1>2, AbsStutter DEF AbsPending

(* The zeroed object reads as the empty directory.                        *)
LEMMA ZeroDir ==
    ASSUME counter = ZeroCounter, buf = ZeroBuf
    PROVE  AbsDir = Directory!EmptyDir
<1>1. ReadBuffer(0) = 1
    BY DEF ReadBuffer
<1>2. QED
    BY <1>1 DEF AbsDir, ZeroCounter, ZeroBuf, Directory!EmptyDir

THEOREM InitRefines == Init => Directory!Init
<1> SUFFICES ASSUME Init PROVE Directory!Init
    OBVIOUS
<1>1. AbsDir = Directory!EmptyDir
    BY ZeroDir DEF Init
<1>2. AbsPending = [p \in Procs |-> {}]
    BY DEF Init, AbsPending, PendingSet
<1>3. QED
    BY <1>1, <1>2 DEF Directory!Init, AbsDir, AbsPending, Init

-----------------------------------------------------------------------------
(* Opening and closing handles *)

LEMMA NewCreateMappingRefines ==
    ASSUME IInv, NEW p \in Procs, NewCreateMapping(p)
    PROVE  Directory!Attach
<1>1. AbsDir' = AbsDir
    BY DEF NewCreateMapping, AbsDir
<1>2. AbsPending' = AbsPending
    <2>1. \A q \in Procs : PendingSet(q)' = PendingSet(q)
        BY DEF NewCreateMapping, PendingSet, IInv, TypeOK
    <2>2. QED
        BY <2>1 DEF AbsPending
<1>3. QED
    BY <1>1, <1>2 DEF Directory!Attach, NewCreateMapping, AbsDir, AbsPending

(* A holder outside set closes its handle and ends idle.                  *)
LEMMA CloseRefines ==
    ASSUME IInv, NEW p \in Procs, p \in HandleHolders, pc[p] \notin SetPhases,
           CloseHandle, NEW r,
           pc' = [pc EXCEPT ![p] = "idle"], op' = [op EXCEPT ![p] = r]
    PROVE  Directory!Detach
<1>1. objRefs > 0
    BY HoldersPositive
<1>2. AbsPending' = AbsPending
    <2>1. \A q \in Procs : PendingSet(q)' = PendingSet(q)
        BY DEF PendingSet, IInv, TypeOK, SetPhases
    <2>2. QED
        BY <2>1 DEF AbsPending
<1>3. CASE objRefs = 1
    <2>1. AbsDir' = Directory!EmptyDir
        <3>1. counter' = ZeroCounter /\ buf' = ZeroBuf
            BY <1>3 DEF CloseHandle
        <3>2. ReadBuffer(0) = 1
            BY DEF ReadBuffer
        <3>3. QED
            BY <3>1, <3>2 DEF AbsDir, ZeroCounter, ZeroBuf, Directory!EmptyDir
    <2>2. QED
        BY <1>2, <1>3, <2>1 DEF Directory!Detach, CloseHandle, AbsDir, AbsPending,
                                IInv, TypeOK
<1>4. CASE objRefs # 1
    <2>1. AbsDir' = AbsDir /\ objRefs' = objRefs - 1
        BY <1>4 DEF CloseHandle, AbsDir
    <2>2. QED
        BY <1>1, <1>2, <1>4, <2>1 DEF Directory!Detach, AbsDir, AbsPending
<1>5. QED
    BY <1>3, <1>4

LEMMA NewStepsRefine ==
    ASSUME IInv, NEW p \in Procs, NewMapView(p) \/ NewVirtualAlloc(p) \/ InitCas(p)
    PROVE  Directory!Detach \/ UNCHANGED Directory!vars
<1>1. p \in HandleHolders /\ pc[p] \notin SetPhases
    BY DEF NewMapView, NewVirtualAlloc, InitCas, HandleHolders, SetPhases
<1>2. TypeOK
    BY DEF IInv
<1>3. CASE pc[p] \in {"new_map", "new_alloc"} /\ CloseHandle /\ Finish(p)
    BY <1>1, <1>3, CloseRefines DEF Finish
<1>4. CASE NewMapView(p) /\ ~(CloseHandle /\ Finish(p))
    <2>1. pc' = [pc EXCEPT ![p] = "new_alloc"] /\ UNCHANGED <<objRefs, counter, buf, op>>
        BY <1>4 DEF NewMapView
    <2>2. op' = [op EXCEPT ![p] = op[p]]
        BY <1>2, <2>1 DEF TypeOK
    <2>3. QED
        BY <1>1, <1>2, <2>1, <2>2, LocalStutter DEF SetPhases
<1>5. CASE NewVirtualAlloc(p) /\ ~(CloseHandle /\ Finish(p))
    <2>1. CASE op[p].created /\ pc' = [pc EXCEPT ![p] = "init_cas"]
               /\ UNCHANGED <<objRefs, initCheck, counter, buf, registered, op, hasMap>>
        <3>1. op' = [op EXCEPT ![p] = op[p]]
            BY <1>2, <2>1 DEF TypeOK
        <3>2. QED
            BY <1>1, <1>2, <2>1, <3>1, LocalStutter DEF SetPhases
    <2>2. CASE ~op[p].created /\ hasMap' = [hasMap EXCEPT ![p] = TRUE] /\ Finish(p)
               /\ UNCHANGED <<objRefs, initCheck, counter, buf, registered>>
        BY <1>1, <1>2, <2>2, LocalStutter DEF Finish, SetPhases
    <2>3. QED
        BY <1>5, <2>1, <2>2 DEF NewVirtualAlloc
<1>6. CASE InitCas(p)
    BY <1>1, <1>2, <1>6, LocalStutter DEF InitCas, SetPhases
<1>7. QED
    BY <1>3, <1>4, <1>5, <1>6 DEF NewMapView, NewVirtualAlloc

LEMMA DropRefines ==
    ASSUME IInv, NEW p \in Procs, Drop(p) \/ Unwind(p)
    PROVE  Directory!Detach
<1>1. p \in HandleHolders /\ pc[p] \notin SetPhases
    BY DEF Drop, Unwind, HandleHolders, IInv, PhaseInv, SetPhases
<1>2. CASE Drop(p)
    <2>1. pc' = [pc EXCEPT ![p] = "idle"] /\ op' = [op EXCEPT ![p] = op[p]]
        BY <1>2 DEF Drop, IInv, TypeOK
    <2>2. QED
        BY <1>1, <1>2, <2>1, CloseRefines DEF Drop
<1>3. CASE Unwind(p)
    <2>1. op' = [op EXCEPT ![p] = op[p]]
        BY <1>3 DEF Unwind, IInv, TypeOK
    <2>2. QED
        BY <1>1, <1>3, <2>1, CloseRefines DEF Unwind
<1>4. QED
    BY <1>2, <1>3

-----------------------------------------------------------------------------
(* Initialisation and get_port *)

LEMMA InitEntryRefines ==
    ASSUME IInv, NEW p \in Procs, InitEntry(p)
    PROVE  UNCHANGED Directory!vars
<1>1. Creating(p) /\ pc[p] = "init_entry" /\ op[p] \in Op
    BY DEF InitEntry, IInv, PhaseInv, Creating, NewPhases, TypeOK
<1>2. \A t \in Slots : buf[t] = [b \in 0 .. 1 |-> Empty]
    BY <1>1 DEF IInv, PhaseInv
<1>3. AbsPending' = AbsPending
    <2>1. \A q \in Procs : PendingSet(q)' = PendingSet(q)
        BY <1>1 DEF InitEntry, Finish, PendingSet, IInv, TypeOK
    <2>2. QED
        BY <2>1 DEF AbsPending
<1>4. AbsDir' = AbsDir
    <2>1. CASE op[p].idx < NSlots
        <3> DEFINE s == op[p].idx
        <3>1. counter' = [counter EXCEPT ![s] = 1]
              /\ buf' = [buf EXCEPT ![s] = [b \in 0 .. 1 |-> Empty]]
            BY <2>1 DEF InitEntry
        <3>2. s \in Slots
            <4>1. op[p].idx \in 0 .. NSlots
                BY <1>1 DEF Op
            <4>2. QED
                BY <2>1, <4>1 DEF Slots
        <3>3. ReadBuffer(1) \in 0 .. 1
            BY ReadBufferFacts
        <3>4. \A t \in Slots : buf'[t][ReadBuffer(counter'[t])] = buf[t][ReadBuffer(counter[t])]
            <4>1. SUFFICES ASSUME NEW t \in Slots
                           PROVE  buf'[t][ReadBuffer(counter'[t])] = buf[t][ReadBuffer(counter[t])]
                OBVIOUS
            <4>2. ReadBuffer(counter[t]) \in 0 .. 1
                BY ReadBufferFacts DEF IInv, TypeOK
            <4>3. CASE t = s
                BY <1>2, <3>1, <3>2, <3>3, <4>2, <4>3 DEF IInv, TypeOK
            <4>4. CASE t # s
                BY <3>1, <4>4 DEF IInv, TypeOK
            <4>5. QED
                BY <4>3, <4>4
        <3>5. QED
            BY <3>4 DEF AbsDir
    <2>2. CASE ~(op[p].idx < NSlots)
        BY <2>2 DEF InitEntry, AbsDir
    <2>3. QED
        BY <2>1, <2>2
<1>5. QED
    BY <1>3, <1>4, AbsStutter DEF InitEntry

LEMMA GetPortRefines ==
    ASSUME IInv, NEW p \in Procs,
           \/ \E name \in QueryArgs : GetPortStart(p, name)
           \/ GetLoad(p) \/ GetRead(p) \/ GetCheck(p)
    PROVE  UNCHANGED Directory!vars
<1>1. UNCHANGED <<objRefs, counter, buf>> /\ pc[p] \notin SetPhases
      /\ pc'[p] \notin SetPhases
    BY DEF GetPortStart, GetLoad, GetRead, GetCheck, Finish, SetPhases, IInv, TypeOK
<1>2. \A q \in Procs \ {p} : pc'[q] = pc[q] /\ op'[q] = op[q]
    BY DEF GetPortStart, GetLoad, GetRead, GetCheck, Finish, IInv, TypeOK
<1>3. \A q \in Procs : PendingSet(q)' = PendingSet(q)
    BY <1>1, <1>2 DEF PendingSet, SetPhases
<1>4. QED
    BY <1>1, <1>3, AbsStutter DEF AbsDir, AbsPending

-----------------------------------------------------------------------------
(* set and reset *)

(* Writing buffer current % 2 of its entry leaves the buffer readers     *)
(* copy, (current - 1) % 2, alone: the entry's register does not change.  *)
LEMMA BufWriteKeepsDir ==
    ASSUME IInv, NEW p \in Procs, pc[p] \in SetPhases, NEW v,
           buf' = [buf EXCEPT ![op[p].port][op[p].cur % 2] = v],
           counter' = counter
    PROVE  AbsDir' = AbsDir
<1> DEFINE s == op[p].port
<1>1. s \in Slots /\ op[p].cur = counter[s] /\ op[p].cur \in Nat
    BY WriterFacts DEF WriterInv
<1>2. ReadBuffer(op[p].cur) # op[p].cur % 2 /\ ReadBuffer(op[p].cur) \in 0 .. 1
      /\ op[p].cur % 2 \in 0 .. 1
    BY <1>1, ReadBufferFacts
<1>3. buf[s] \in [0 .. 1 -> Names]
    BY <1>1 DEF IInv, TypeOK
<1>4. \A t \in Slots : buf'[t][ReadBuffer(counter'[t])] = buf[t][ReadBuffer(counter[t])]
    <2>1. SUFFICES ASSUME NEW t \in Slots
                   PROVE  buf'[t][ReadBuffer(counter'[t])] = buf[t][ReadBuffer(counter[t])]
        OBVIOUS
    <2>2. CASE t = s
        BY <1>1, <1>2, <1>3, <2>2 DEF IInv, TypeOK
    <2>3. CASE t # s
        BY <2>3 DEF IInv, TypeOK
    <2>4. QED
        BY <2>2, <2>3
<1>5. QED
    BY <1>4 DEF AbsDir

(* A step of a running set that keeps its phase in set and its locals.   *)
LEMMA SetPendingKept ==
    ASSUME TypeOK, NEW p \in Procs, pc[p] \in SetPhases,
           pc' = [pc EXCEPT ![p] = pc'[p]], pc'[p] \in SetPhases, op' = op
    PROVE  AbsPending' = AbsPending
<1>1. \A q \in Procs : PendingSet(q)' = PendingSet(q)
    BY DEF PendingSet, TypeOK, SetPhases
<1>2. QED
    BY <1>1 DEF AbsPending

LEMMA SetStartRefines ==
    ASSUME IInv, NEW p \in Procs, NEW port \in PortArgs,
           NEW name \in SetArgs \cup {Empty}, SetStart(p, port, name)
    PROVE  \/ \E c \in Directory!Calls : Directory!Invoke(p, c)
           \/ UNCHANGED Directory!vars
<1>1. hasMap[p] /\ pc[p] = "idle" /\ TypeOK
    BY DEF SetStart, IInv
<1>2. CASE Panic(p)
    BY <1>1, <1>2, LocalStutter DEF Panic, SetPhases
<1>3. CASE port < NSlots /\ counter[port] < MaxCounter
           /\ pc' = [pc EXCEPT ![p] = "set_zero"]
           /\ op' = [op EXCEPT ![p] = [NoOp EXCEPT !.port = port, !.name = name,
                                                   !.cur = counter[port]]]
           /\ UNCHANGED <<objRefs, initCheck, counter, buf, registered, hasMap>>
    <2> DEFINE c == [port |-> port, name |-> name]
    <2>1. port \in Slots
        BY <1>3 DEF Slots
    <2>2. c \in Directory!Calls
        BY <2>1 DEF Directory!Calls
    <2>3. objRefs > 0
        <3>1. p \in HandleHolders
            BY <1>1 DEF HandleHolders
        <3>2. QED
            BY <3>1, HoldersPositive
    <2>4. op'[p].port = port /\ op'[p].name = name
        BY <1>1, <1>3 DEF TypeOK, NoOp
    <2>5. PendingSet(p) = {} /\ PendingSet(p)' = {c}
        BY <1>1, <1>3, <2>4 DEF PendingSet, TypeOK
    <2>6. \A q \in Procs \ {p} : PendingSet(q)' = PendingSet(q)
        BY <1>1, <1>3 DEF PendingSet, TypeOK
    <2>7. AbsPending' = [AbsPending EXCEPT ![p] = {c}]
        BY <2>5, <2>6 DEF AbsPending
    <2>8. Directory!Invoke(p, c)
        BY <1>3, <2>3, <2>5, <2>7 DEF Directory!Invoke, AbsPending, AbsDir
    <2>9. QED
        BY <2>2, <2>8
<1>4. QED
    BY <1>2, <1>3 DEF SetStart

LEMMA SetZeroRefines ==
    ASSUME IInv, NEW p \in Procs, SetZero(p)
    PROVE  Directory!Abort(p) \/ UNCHANGED Directory!vars
<1>1. pc[p] = "set_zero" /\ TypeOK
    BY DEF SetZero, IInv
<1>2. AbsDir' = AbsDir
    BY <1>1, BufWriteKeepsDir DEF SetZero, SetPhases
<1>3. CASE Len(op[p].name) <= MaxLen
    <2>1. pc' = [pc EXCEPT ![p] = "set_copy"] /\ op' = op
        BY <1>3 DEF SetZero
    <2>2. AbsPending' = AbsPending
        BY <1>1, <2>1, SetPendingKept DEF SetPhases, TypeOK
    <2>3. QED
        BY <1>2, <2>2, AbsStutter DEF SetZero
<1>4. CASE Len(op[p].name) > MaxLen
    <2>1. pc' = [pc EXCEPT ![p] = "panicked"] /\ op' = [op EXCEPT ![p] = NoOp]
        BY <1>4 DEF SetZero
    <2>2. PendingSet(p) # {} /\ PendingSet(p)' = {}
        BY <1>1, <2>1 DEF PendingSet, TypeOK
    <2>3. \A q \in Procs \ {p} : PendingSet(q)' = PendingSet(q)
        BY <1>1, <2>1 DEF PendingSet, TypeOK
    <2>4. AbsPending' = [AbsPending EXCEPT ![p] = {}]
        BY <2>2, <2>3 DEF AbsPending
    <2>5. Directory!Abort(p)
        BY <1>2, <2>2, <2>4 DEF Directory!Abort, SetZero, AbsPending, AbsDir
    <2>6. QED
        BY <2>5
<1>5. QED
    BY <1>3, <1>4

LEMMA SetCopyRefines ==
    ASSUME IInv, NEW p \in Procs, SetCopy(p)
    PROVE  UNCHANGED Directory!vars
<1>1. pc[p] = "set_copy" /\ TypeOK
    BY DEF SetCopy, IInv
<1>2. AbsDir' = AbsDir
    BY <1>1, BufWriteKeepsDir DEF SetCopy, SetPhases
<1>3. AbsPending' = AbsPending
    BY <1>1, SetPendingKept DEF SetCopy, SetPhases, TypeOK
<1>4. QED
    BY <1>2, <1>3, AbsStutter DEF SetCopy

(* The fetch_add publishes the name: the buffer readers copy becomes the *)
(* one the set wrote.                                                     *)
LEMMA SetIncRefines ==
    ASSUME IInv, NEW p \in Procs, SetInc(p)
    PROVE  Directory!Commit(p)
<1> DEFINE s == op[p].port
           c == [port |-> s, name |-> op[p].name]
<1>1. pc[p] = "set_inc" /\ TypeOK
    BY DEF SetInc, IInv
<1>2. s \in Slots /\ op[p].cur = counter[s] /\ op[p].cur \in Nat
      /\ buf[s][op[p].cur % 2] = op[p].name
    BY <1>1, WriterFacts DEF WriterInv, SetPhases
<1>3. counter' = [counter EXCEPT ![s] = @ + 1] /\ UNCHANGED <<objRefs, buf>>
      /\ pc' = [pc EXCEPT ![p] = "idle"] /\ op' = [op EXCEPT ![p] = NoOp]
    BY DEF SetInc, Finish
<1>4. AbsDir' = [AbsDir EXCEPT ![s] = op[p].name]
    <2>1. ReadBuffer(counter'[s]) = op[p].cur % 2
        BY <1>1, <1>2, <1>3, ReadBufferFacts DEF TypeOK
    <2>2. \A t \in Slots \ {s} : counter'[t] = counter[t]
        BY <1>1, <1>3 DEF TypeOK
    <2>3. ASSUME NEW t \in Slots
          PROVE  AbsDir'[t] = [AbsDir EXCEPT ![s] = op[p].name][t]
        <3>1. CASE t = s
            BY <1>2, <1>3, <2>1, <3>1 DEF AbsDir
        <3>2. CASE t # s
            BY <1>3, <2>2, <3>2 DEF AbsDir
        <3>3. QED
            BY <3>1, <3>2
    <2>4. QED
        BY <2>3 DEF AbsDir
<1>5. PendingSet(p) = {c} /\ PendingSet(p)' = {}
    BY <1>1, <1>3 DEF PendingSet, TypeOK
<1>6. AbsPending' = [AbsPending EXCEPT ![p] = {}]
    <2>1. \A q \in Procs \ {p} : PendingSet(q)' = PendingSet(q)
        BY <1>1, <1>3 DEF PendingSet, TypeOK
    <2>2. QED
        BY <1>5, <2>1 DEF AbsPending
<1>7. AbsPending[p] = {c}
    BY <1>5 DEF AbsPending
<1>8. \E d \in AbsPending[p] : AbsDir' = [AbsDir EXCEPT ![d.port] = d.name]
    BY <1>4, <1>7
<1>9. QED
    BY <1>3, <1>6, <1>8 DEF Directory!Commit, AbsDir, AbsPending

-----------------------------------------------------------------------------
(* The refinement *)

(* Every step of the code, from a state of the inductive invariant, is a *)
(* step of the abstract directory or leaves its image unchanged.          *)
THEOREM StepRefines ==
    ASSUME IInv, [Next]_vars
    PROVE  [Directory!Next]_Directory!vars
<1>1. CASE UNCHANGED vars
    BY <1>1, AbsStutter DEF vars, AbsDir, AbsPending, PendingSet
<1>2. CASE Next
    <2>1. PICK p \in Procs : Step(p)
        BY <1>2 DEF Next
    <2>2. CASE NewCreateMapping(p)
        BY <2>2, NewCreateMappingRefines DEF Directory!Next
    <2>3. CASE NewMapView(p) \/ NewVirtualAlloc(p) \/ InitCas(p)
        BY <2>3, NewStepsRefine DEF Directory!Next
    <2>4. CASE InitEntry(p)
        BY <2>4, InitEntryRefines
    <2>5. CASE Drop(p) \/ Unwind(p)
        BY <2>5, DropRefines DEF Directory!Next
    <2>6. CASE \E port \in PortArgs, name \in SetArgs : SetStart(p, port, name)
        BY <2>6, SetStartRefines DEF Directory!Next
    <2>7. CASE \E port \in PortArgs : Reset(p, port)
        BY <2>7, SetStartRefines DEF Directory!Next, Reset
    <2>8. CASE SetZero(p)
        BY <2>8, SetZeroRefines DEF Directory!Next
    <2>9. CASE SetCopy(p)
        BY <2>9, SetCopyRefines
    <2>10. CASE SetInc(p)
        BY <2>10, SetIncRefines DEF Directory!Next
    <2>11. CASE \/ \E name \in QueryArgs : GetPortStart(p, name)
                \/ GetLoad(p) \/ GetRead(p) \/ GetCheck(p)
        BY <2>11, GetPortRefines
    <2>12. QED
        BY <2>1, <2>2, <2>3, <2>4, <2>5, <2>6, <2>7, <2>8, <2>9, <2>10, <2>11
           DEF Step
<1>3. QED
    BY <1>1, <1>2

(* PortToUds implements PortDirectory (DirectorySpec): with one writer   *)
(* per entry and attachers that wait for the creator, what a reader of   *)
(* an entry copies changes only when a set's fetch_add publishes its     *)
(* whole name, or when the last handle of the mapping closes.            *)
THEOREM Refinement ==
    ASSUME EnvAssumption
    PROVE  Spec => DirectorySpec
<1>1. Spec => []IInv
    BY AlwaysIInv
<1>2. IInv /\ [Next]_vars => [Directory!Next]_Directory!vars
    BY StepRefines
<1>3. QED
    BY <1>1, <1>2, InitRefines, PTL DEF Spec, DirectorySpec, Directory!Spec

=============================================================================
