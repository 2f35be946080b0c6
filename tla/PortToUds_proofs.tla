------------------------- MODULE PortToUds_proofs -------------------------
(***************************************************************************)
(* Proofs about the port directory, for every number of processes,        *)
(* entries, names and counter bounds: the type invariant, that no handle  *)
(* of the mapping leaks, and that under one writer per entry and          *)
(* attachers that start after initialisation the code implements the      *)
(* abstract directory of PortDirectory.                                   *)
(***************************************************************************)
EXTENDS PortToUdsRefinement, FiniteSetTheorems, SequenceTheorems, TLAPS

SetPhases == {"set_zero", "set_copy", "set_inc"}
NewPhases == {"new_map", "new_alloc", "init_cas", "init_entry"}
GetPhases == {"gp_load", "gp_read", "gp_check"}

(* The environment the spec assumes: one process sets each entry, and    *)
(* processes attach only once the creator's new has returned.            *)
SingleWriter == \A s \in PortArgs \cap Slots : \A p, q \in Writers[s] : p = q

(* p created the mapping and is still inside new.                         *)
Creating(p) == pc[p] \in NewPhases /\ op[p].created

(* A running set of p: its entry, its loaded counter, its argument, and, *)
(* once copied, its name in the buffer it writes.                         *)
WriterInv(p) ==
    LET s == op[p].port IN
    /\ s \in PortArgs \cap Slots /\ p \in Writers[s]
    /\ op[p].cur = counter[s]
    /\ op[p].name \in SetArgs \cup {Empty}
    /\ pc[p] \in {"set_copy", "set_inc"} => Len(op[p].name) <= MaxLen
    /\ pc[p] = "set_inc" => buf[s][op[p].cur % 2] = op[p].name

(* Where each process is, and what that says about its handle.           *)
PhaseInv(p) ==
    /\ pc[p] = "panicked" => hasMap[p]
    /\ pc[p] \in SetPhases \cup GetPhases => hasMap[p]
    /\ pc[p] \in NewPhases => ~hasMap[p]
    /\ pc[p] \in {"init_cas", "init_entry"} => op[p].created
    /\ pc[p] \in {"gp_read", "gp_check"} => op[p].idx < NSlots
    /\ pc[p] \in SetPhases => WriterInv(p)
    /\ Creating(p) =>
          /\ initCheck # "initialized"
          /\ \A s \in Slots : buf[s] = [b \in 0 .. 1 |-> Empty]
          /\ HandleHolders = {p}

(* The object without handles is the zeroed one a fresh mapping returns. *)
DeadInv ==
    objRefs = 0 => initCheck = "zero" /\ counter = ZeroCounter /\ buf = ZeroBuf

(* The environment of the spec, as one assumption. *)
EnvAssumption == AttachAfterInit = TRUE /\ SingleWriter

IInv ==
    /\ TypeOK
    /\ NoHandleLeak
    /\ DeadInv
    /\ \A p \in Procs : PhaseInv(p)

USE NSlotsAssumption, MaxLenAssumption, PortArgsAssumption, WritersAssumption,
    MaxCounterAssumption, ProcsAssumption, ArgsAssumption

-----------------------------------------------------------------------------
(* Lemmas about names, buffers and the handle count *)

(* A name fits a buffer exactly when it is a sequence of at most MaxLen  *)
(* letters.                                                               *)
LEMMA NamesSeq ==
    ASSUME NEW x
    PROVE  x \in Names <=> x \in Seq(Letters) /\ Len(x) <= MaxLen
<1>1. ASSUME x \in Names PROVE x \in Seq(Letters) /\ Len(x) <= MaxLen
    <2>1. PICK k \in 0 .. MaxLen : x \in [1 .. k -> Letters]
        BY <1>1 DEF Names
    <2>2. x \in Seq(Letters) /\ Len(x) = k
        BY <2>1
    <2>3. QED
        BY <2>2
<1>2. ASSUME x \in Seq(Letters), Len(x) <= MaxLen PROVE x \in Names
    <2>1. x \in [1 .. Len(x) -> Letters] /\ Len(x) \in 0 .. MaxLen
        BY <1>2
    <2>2. QED
        BY <2>1 DEF Names
<1>3. QED
    BY <1>1, <1>2

LEMMA EmptyNames == Empty \in Names
<1>1. Empty \in [1 .. 0 -> Letters] /\ 0 \in 0 .. MaxLen
    BY DEF Empty
<1>2. QED
    BY <1>1 DEF Names

(* A prefix of a name that fits is a name that fits.                      *)
LEMMA PrefixNames ==
    ASSUME NEW x \in Seq(Letters), Len(x) <= MaxLen, NEW k \in 0 .. Len(x)
    PROVE  SubSeq(x, 1, k) \in Names
<1>1. \A i \in 1 .. k : x[i] \in Letters
    OBVIOUS
<1>2. SubSeq(x, 1, k) \in Seq(Letters)
      /\ Len(SubSeq(x, 1, k)) = IF 1 <= k THEN k - 1 + 1 ELSE 0
    BY <1>1, SubSeqProperties
<1>3. Len(SubSeq(x, 1, k)) <= MaxLen
    BY <1>2
<1>4. QED
    BY <1>2, <1>3, NamesSeq

(* The buffer a reader copies is never the one a set with the same        *)
(* counter writes, and the increment makes the written one the read one.  *)
LEMMA ReadBufferFacts ==
    ASSUME NEW c \in Nat
    PROVE  /\ ReadBuffer(c) \in 0 .. 1
           /\ c % 2 \in 0 .. 1
           /\ ReadBuffer(c) # c % 2
           /\ ReadBuffer(c + 1) = c % 2
BY DEF ReadBuffer

(* The handle holders are a finite set of processes.                      *)
LEMMA HoldersFinite == IsFiniteSet(HandleHolders)
BY FS_Subset DEF HandleHolders

(* Closing the handle of a holder takes one from the count; the last    *)
(* holder is the only one.                                                *)
LEMMA HoldersRemove ==
    ASSUME NEW p \in HandleHolders
    PROVE  /\ Cardinality(HandleHolders \ {p}) = Cardinality(HandleHolders) - 1
           /\ Cardinality(HandleHolders) >= 1
           /\ Cardinality(HandleHolders) = 1 => HandleHolders = {p}
<1>1. IsFiniteSet(HandleHolders \ {p})
      /\ Cardinality(HandleHolders \ {p}) = Cardinality(HandleHolders) - 1
    BY HoldersFinite, FS_RemoveElement
<1>2. Cardinality(HandleHolders \ {p}) \in Nat /\ Cardinality(HandleHolders) \in Nat
    BY <1>1, HoldersFinite, FS_CardinalityType
<1>3. ASSUME Cardinality(HandleHolders) = 1 PROVE HandleHolders = {p}
    <2>1. HandleHolders \ {p} = {}
        BY <1>1, <1>3, FS_EmptySet
    <2>2. QED
        BY <2>1
<1>4. QED
    BY <1>1, <1>2, <1>3

(* Opening a handle adds one to the count.                                *)
LEMMA HoldersAdd ==
    ASSUME NEW p, p \notin HandleHolders
    PROVE  Cardinality(HandleHolders \cup {p}) = Cardinality(HandleHolders) + 1
BY HoldersFinite, FS_AddElement

-----------------------------------------------------------------------------
(* The locals of a call stay in Op under each update the code makes.     *)
LEMMA NoOpType ==
    ASSUME NEW n \in Seq(Letters)
    PROVE  NoOp \in Op /\ [NoOp EXCEPT !.name = n] \in Op
<1>1. Empty \in Names
    BY EmptyNames
<1>2. Empty \in Seq(Letters)
    BY EmptySeq DEF Empty
<1>3. 0 \in 0 .. NSlots
    OBVIOUS
<1>4. QED
    BY <1>1, <1>2, <1>3 DEF NoOp, Op

LEMMA OpUpdate ==
    ASSUME NEW o \in Op
    PROVE  /\ \A c \in Nat : [o EXCEPT !.cur = c] \in Op
           /\ \A i \in 0 .. NSlots : [o EXCEPT !.idx = i] \in Op
           /\ \A v \in Names : [o EXCEPT !.res = v] \in Op
           /\ \A b \in BOOLEAN : [o EXCEPT !.created = b] \in Op
           /\ \A s \in 0 .. NSlots : [o EXCEPT !.port = s] \in Op
           /\ \A n \in Seq(Letters) : [o EXCEPT !.name = n] \in Op
BY DEF Op

THEOREM InitIInv == Init => IInv
<1> SUFFICES ASSUME Init PROVE IInv
    OBVIOUS
<1>1. HandleHolders = {}
    BY DEF Init, HandleHolders
<1>2. NoOp \in Op
    BY EmptyNames DEF NoOp, Op, Empty
<1>3. TypeOK
    BY <1>2, EmptyNames DEF Init, TypeOK, ZeroCounter, ZeroBuf, Slots
<1>4. NoHandleLeak
    BY <1>1, FS_EmptySet DEF Init, NoHandleLeak
<1>5. QED
    BY <1>3, <1>4 DEF Init, IInv, DeadInv, PhaseInv, Creating, SetPhases, GetPhases, NewPhases

-----------------------------------------------------------------------------
(* The steps of get_port *)

(* A step that moves only p's pc and locals between idle and the phases  *)
(* of get_port, on a process holding the mapping.                        *)
LEMMA ReaderStepIInv ==
    ASSUME IInv, NEW p \in Procs, NEW x \in GetPhases \cup {"idle"}, NEW r \in Op,
           hasMap[p], pc[p] \in GetPhases \cup {"idle"},
           x \in {"gp_read", "gp_check"} => r.idx < NSlots,
           pc' = [pc EXCEPT ![p] = x], op' = [op EXCEPT ![p] = r],
           UNCHANGED <<objRefs, initCheck, counter, buf, registered, hasMap>>
    PROVE  IInv'
<1> USE DEF IInv
<1>1. HandleHolders' = HandleHolders
    BY DEF HandleHolders, TypeOK, GetPhases, NewPhases
<1>2. TypeOK'
    BY DEF TypeOK, GetPhases
<1>3. NoHandleLeak'
    BY <1>1 DEF NoHandleLeak
<1>4. DeadInv'
    BY DEF DeadInv
<1>5. ASSUME NEW q \in Procs PROVE PhaseInv(q)'
    <2>1. CASE q = p
        BY <2>1 DEF PhaseInv, TypeOK, GetPhases, SetPhases, NewPhases, Creating
    <2>2. CASE q # p
        <3>1. pc'[q] = pc[q] /\ op'[q] = op[q]
            BY <2>2 DEF TypeOK
        <3>2. PhaseInv(q)
            OBVIOUS
        <3>3. QED
            BY <3>1, <3>2, <1>1 DEF PhaseInv, WriterInv, Creating
    <2>3. QED
        BY <2>1, <2>2
<1>6. QED
    BY <1>2, <1>3, <1>4, <1>5

LEMMA GetPortIInv ==
    ASSUME IInv, NEW p \in Procs,
           \/ \E name \in QueryArgs : GetPortStart(p, name)
           \/ GetLoad(p) \/ GetRead(p) \/ GetCheck(p)
    PROVE  IInv'
<1> USE DEF IInv
<1>1. CASE \E name \in QueryArgs : GetPortStart(p, name)
    <2>1. PICK name \in QueryArgs : GetPortStart(p, name)
        BY <1>1
    <2>2. [NoOp EXCEPT !.name = name] \in Op
        BY NoOpType
    <2>3. QED
        BY <2>1, <2>2, ReaderStepIInv DEF GetPortStart, GetPhases
<1>2. CASE GetLoad(p)
    <2>1. pc[p] = "gp_load" /\ hasMap[p] /\ op[p] \in Op
        BY <1>2 DEF GetLoad, PhaseInv, GetPhases, TypeOK
    <2>2. CASE op[p].idx < NSlots
        <3>1. [op[p] EXCEPT !.cur = counter[op[p].idx]] \in Op
            <4>1. counter[op[p].idx] \in Nat
                BY <2>1, <2>2 DEF Op, TypeOK, Slots
            <4>2. QED
                BY <2>1, <4>1, OpUpdate
        <3>2. [op[p] EXCEPT !.cur = counter[op[p].idx]].idx < NSlots
            BY <2>1, <2>2 DEF Op
        <3>3. QED
            BY <1>2, <2>1, <2>2, <3>1, <3>2, ReaderStepIInv DEF GetLoad, GetPhases
    <2>3. CASE ~(op[p].idx < NSlots)
        <3>1. NoOp \in Op
            BY NoOpType, EmptySeq
        <3>2. QED
            BY <1>2, <2>1, <2>3, <3>1, ReaderStepIInv DEF GetLoad, Finish, GetPhases
    <2>4. QED
        BY <2>2, <2>3
<1>3. CASE GetRead(p)
    <2>1. pc[p] = "gp_read" /\ hasMap[p] /\ op[p] \in Op /\ op[p].idx < NSlots
        BY <1>3 DEF GetRead, PhaseInv, GetPhases, TypeOK
    <2>2. PICK v \in Readable(op[p].idx, ReadBuffer(op[p].cur)) :
             op' = [op EXCEPT ![p].res = v]
        BY <1>3 DEF GetRead
    <2>3. v \in Names
        <3>1. ReadBuffer(op[p].cur) \in 0 .. 1 /\ op[p].idx \in Slots
            <4>1. op[p].cur \in Nat /\ op[p].idx \in 0 .. NSlots
                BY <2>1 DEF Op
            <4>2. ReadBuffer(op[p].cur) \in 0 .. 1
                BY <4>1, ReadBufferFacts
            <4>3. op[p].idx \in Slots
                BY <2>1, <4>1 DEF Slots
            <4>4. QED
                BY <4>2, <4>3
        <3>2. CASE v = buf[op[p].idx][ReadBuffer(op[p].cur)]
            <4>1. buf[op[p].idx] \in [0 .. 1 -> Names]
                BY <3>1 DEF TypeOK
            <4>2. QED
                BY <3>1, <3>2, <4>1
        <3>3. CASE v # buf[op[p].idx][ReadBuffer(op[p].cur)]
            <4>1. PICK w \in Procs : pc[w] = "set_copy" /\ \E k \in 0 .. Len(op[w].name) :
                                                          v = SubSeq(op[w].name, 1, k)
                BY <2>2, <3>3 DEF Readable
            <4>2. op[w].name \in Seq(Letters) /\ Len(op[w].name) <= MaxLen
                BY <4>1 DEF PhaseInv, WriterInv, SetPhases, TypeOK, Op
            <4>3. QED
                BY <4>1, <4>2, PrefixNames
        <3>4. QED
            BY <3>2, <3>3
    <2>4. [op[p] EXCEPT !.res = v] \in Op /\ [op[p] EXCEPT !.res = v].idx < NSlots
        BY <2>1, <2>3, OpUpdate
    <2>5. QED
        BY <1>3, <2>1, <2>2, <2>4, ReaderStepIInv DEF GetRead, GetPhases, TypeOK
<1>4. CASE GetCheck(p)
    <2>1. pc[p] = "gp_check" /\ hasMap[p] /\ op[p] \in Op /\ op[p].idx < NSlots
        BY <1>4 DEF GetCheck, PhaseInv, GetPhases, TypeOK
    <2>2. NoOp \in Op
        BY NoOpType, EmptySeq
    <2>3. [op[p] EXCEPT !.idx = op[p].idx + 1] \in Op
        <3>1. op[p].idx + 1 \in 0 .. NSlots
            BY <2>1 DEF Op
        <3>2. QED
            BY <2>1, <3>1, OpUpdate
    <2>4. UNCHANGED <<objRefs, initCheck, counter, buf, registered, hasMap>>
        BY <1>4 DEF GetCheck
    <2>5. CASE pc' = [pc EXCEPT ![p] = "gp_read"] /\ op' = op
        <3>1. op' = [op EXCEPT ![p] = op[p]]
            BY <2>5 DEF TypeOK
        <3>2. QED
            BY <2>1, <2>4, <2>5, <3>1, ReaderStepIInv DEF GetPhases
    <2>6. CASE Finish(p)
        BY <2>1, <2>2, <2>4, <2>6, ReaderStepIInv, Zenon DEF Finish, GetPhases
    <2>7. CASE pc' = [pc EXCEPT ![p] = "gp_load"] /\ op' = [op EXCEPT ![p].idx = op[p].idx + 1]
        <3>1. op' = [op EXCEPT ![p] = [op[p] EXCEPT !.idx = op[p].idx + 1]]
            BY <2>7 DEF TypeOK
        <3>2. QED
            BY <2>1, <2>3, <2>4, <2>7, <3>1, ReaderStepIInv, Zenon DEF GetPhases
    <2>8. QED
        BY <1>4, <2>5, <2>6, <2>7 DEF GetCheck
<1>5. QED
    BY <1>1, <1>2, <1>3, <1>4

-----------------------------------------------------------------------------
(* The steps that close a handle *)

(* A holder p closes its handle and ends idle without the mapping: the   *)
(* failure paths of new, Drop and the unwinding after a panic.           *)
LEMMA CloseStepIInv ==
    ASSUME IInv, NEW p \in Procs, p \in HandleHolders, CloseHandle,
           NEW r \in Op,
           pc' = [pc EXCEPT ![p] = "idle"], op' = [op EXCEPT ![p] = r],
           hasMap' = [hasMap EXCEPT ![p] = FALSE]
    PROVE  IInv'
<1> USE DEF IInv
<1>1. HandleHolders' = HandleHolders \ {p}
    BY DEF HandleHolders, TypeOK
<1>2. objRefs = Cardinality(HandleHolders) /\ Cardinality(HandleHolders) >= 1
    BY HoldersRemove DEF NoHandleLeak
<1>3. TypeOK'
    <2>1. ZeroCounter \in [Slots -> Nat] /\ ZeroBuf \in [Slots -> [0 .. 1 -> Names]]
          /\ [s \in Slots |-> Empty] \in [Slots -> Names]
        BY EmptyNames DEF ZeroCounter, ZeroBuf
    <2>2. QED
        BY <1>2, <2>1 DEF TypeOK, CloseHandle
<1>4. NoHandleLeak'
    BY <1>1, <1>2, HoldersRemove DEF NoHandleLeak, CloseHandle
<1>5. DeadInv'
    BY <1>2 DEF DeadInv, CloseHandle
<1>6. PhaseInv(p)'
    BY DEF PhaseInv, TypeOK, Creating, SetPhases, GetPhases, NewPhases
<1>7. ASSUME NEW q \in Procs, q # p PROVE PhaseInv(q)'
    <2>1. pc'[q] = pc[q] /\ op'[q] = op[q] /\ hasMap'[q] = hasMap[q]
        BY <1>7 DEF TypeOK
    <2>2. ~Creating(q)
        BY <1>7 DEF PhaseInv
    <2>3. ~Creating(q)'
        BY <2>1, <2>2 DEF Creating
    <2>4. CASE objRefs = 1
        <3>1. q \notin HandleHolders
            BY <1>2, <1>7, <2>4, HoldersRemove
        <3>2. pc[q] \notin SetPhases \cup GetPhases \cup NewPhases /\ pc[q] # "panicked"
            BY <3>1 DEF PhaseInv, HandleHolders, NewPhases
        <3>3. QED
            BY <2>1, <2>3, <3>2 DEF PhaseInv, SetPhases, GetPhases, NewPhases
    <2>5. CASE objRefs # 1
        <3>1. UNCHANGED <<initCheck, counter, buf>>
            BY <2>5 DEF CloseHandle
        <3>2. QED
            BY <2>1, <2>3, <3>1 DEF PhaseInv, WriterInv
    <2>6. QED
        BY <2>4, <2>5
<1>8. QED
    BY <1>3, <1>4, <1>5, <1>6, <1>7

-----------------------------------------------------------------------------
(* The steps of new *)

(* No process other than a creator inside new holds a handle.            *)
LEMMA CreatorAlone ==
    ASSUME IInv, NEW q \in Procs, Creating(q), NEW p \in HandleHolders
    PROVE  p = q
BY DEF IInv, PhaseInv

LEMMA NewCreateMappingIInv ==
    ASSUME IInv, EnvAssumption, NEW p \in Procs, NewCreateMapping(p)
    PROVE  IInv'
<1> USE DEF IInv
<1>1. pc[p] = "idle" /\ ~hasMap[p] /\ p \notin HandleHolders
    BY DEF NewCreateMapping, HandleHolders
<1>2. HandleHolders' = HandleHolders \cup {p}
    BY DEF NewCreateMapping, HandleHolders, TypeOK
<1>3. TypeOK'
    <2>1. [op[p] EXCEPT !.created = (objRefs = 0)] \in Op
        BY OpUpdate DEF TypeOK
    <2>2. op' = [op EXCEPT ![p] = [op[p] EXCEPT !.created = (objRefs = 0)]]
        BY DEF NewCreateMapping, TypeOK
    <2>3. QED
        BY <2>1, <2>2 DEF NewCreateMapping, TypeOK
<1>4. NoHandleLeak'
    BY <1>1, <1>2, HoldersAdd DEF NewCreateMapping, NoHandleLeak
<1>5. DeadInv'
    BY DEF NewCreateMapping, DeadInv, TypeOK
<1>6. PhaseInv(p)'
    <2>1. CASE objRefs = 0
        <3>1. HandleHolders = {}
            BY <2>1, HoldersFinite, FS_EmptySet DEF NoHandleLeak
        <3>2. initCheck = "zero" /\ buf = ZeroBuf
            BY <2>1 DEF DeadInv
        <3>3. QED
            BY <1>2, <3>1, <3>2 DEF NewCreateMapping, PhaseInv, Creating, NewPhases,
                                   SetPhases, GetPhases, ZeroBuf, TypeOK
    <2>2. CASE objRefs # 0
        BY <2>2 DEF NewCreateMapping, PhaseInv, Creating, NewPhases, SetPhases,
                    GetPhases, TypeOK
    <2>3. QED
        BY <2>1, <2>2
<1>7. ASSUME NEW q \in Procs, q # p PROVE PhaseInv(q)'
    <2>1. pc'[q] = pc[q] /\ op'[q] = op[q] /\ hasMap'[q] = hasMap[q]
        BY <1>7 DEF NewCreateMapping, TypeOK
    <2>2. ~Creating(q)
        <3>1. SUFFICES ASSUME Creating(q) PROVE FALSE
            OBVIOUS
        <3>2. HandleHolders = {q} /\ initCheck # "initialized"
            BY <3>1 DEF PhaseInv
        <3>3. objRefs = 1
            BY <3>2, FS_Singleton DEF NoHandleLeak
        <3>4. QED
            BY <3>2, <3>3 DEF NewCreateMapping, EnvAssumption
    <2>3. QED
        BY <2>1, <2>2 DEF NewCreateMapping, PhaseInv, WriterInv, Creating
<1>8. QED
    BY <1>3, <1>4, <1>5, <1>6, <1>7

LEMMA NewMapViewIInv ==
    ASSUME IInv, NEW p \in Procs, NewMapView(p)
    PROVE  IInv'
<1> USE DEF IInv
<1>1. p \in HandleHolders /\ ~hasMap[p] /\ op[p] \in Op
    BY DEF NewMapView, HandleHolders, PhaseInv, NewPhases, TypeOK
<1>2. CASE CloseHandle /\ Finish(p) /\ UNCHANGED hasMap
    <2>1. hasMap' = [hasMap EXCEPT ![p] = FALSE]
        BY <1>1, <1>2 DEF TypeOK
    <2>2. QED
        BY <1>1, <1>2, <2>1, NoOpType, EmptySeq, CloseStepIInv, Zenon DEF Finish
<1>3. CASE pc' = [pc EXCEPT ![p] = "new_alloc"]
           /\ UNCHANGED <<objRefs, initCheck, counter, buf, registered, op, hasMap>>
    <2>1. HandleHolders' = HandleHolders
        BY <1>3 DEF NewMapView, HandleHolders, TypeOK, NewPhases
    <2>2. TypeOK' /\ NoHandleLeak' /\ DeadInv'
        BY <1>3, <2>1 DEF TypeOK, NoHandleLeak, DeadInv
    <2>3. PhaseInv(p)'
        BY <1>3, <2>1 DEF NewMapView, PhaseInv, Creating, NewPhases, SetPhases, GetPhases
    <2>4. ASSUME NEW q \in Procs, q # p PROVE PhaseInv(q)'
        BY <1>3, <2>1, <2>4 DEF PhaseInv, WriterInv, Creating, TypeOK
    <2>5. QED
        BY <2>2, <2>3, <2>4
<1>4. QED
    BY <1>2, <1>3 DEF NewMapView

(* While the creator is inside new, every other process is idle without  *)
(* the mapping.                                                           *)
LEMMA OthersIdle ==
    ASSUME IInv, NEW p \in Procs, Creating(p), NEW q \in Procs, q # p
    PROVE  pc[q] = "idle" /\ ~hasMap[q]
<1>1. q \notin HandleHolders
    BY DEF IInv, PhaseInv
<1>2. ~hasMap[q] /\ pc[q] \notin NewPhases
    BY <1>1 DEF HandleHolders, NewPhases
<1>3. QED
    BY <1>2 DEF IInv, PhaseInv, TypeOK, NewPhases, SetPhases, GetPhases

LEMMA NewVirtualAllocIInv ==
    ASSUME IInv, NEW p \in Procs, NewVirtualAlloc(p)
    PROVE  IInv'
<1> USE DEF IInv
<1>1. p \in HandleHolders /\ ~hasMap[p] /\ op[p] \in Op
    BY DEF NewVirtualAlloc, HandleHolders, PhaseInv, NewPhases, TypeOK
<1>2. CASE CloseHandle /\ Finish(p) /\ UNCHANGED hasMap
    <2>1. hasMap' = [hasMap EXCEPT ![p] = FALSE]
        BY <1>1, <1>2 DEF TypeOK
    <2>2. QED
        BY <1>1, <1>2, <2>1, NoOpType, EmptySeq, CloseStepIInv, Zenon DEF Finish
<1>3. CASE op[p].created /\ pc' = [pc EXCEPT ![p] = "init_cas"]
           /\ UNCHANGED <<objRefs, initCheck, counter, buf, registered, op, hasMap>>
    <2>1. HandleHolders' = HandleHolders
        BY <1>3 DEF NewVirtualAlloc, HandleHolders, TypeOK, NewPhases
    <2>2. TypeOK' /\ NoHandleLeak' /\ DeadInv'
        BY <1>3, <2>1 DEF TypeOK, NoHandleLeak, DeadInv
    <2>3. PhaseInv(p)'
        BY <1>3, <2>1 DEF NewVirtualAlloc, PhaseInv, Creating, NewPhases, SetPhases, GetPhases
    <2>4. ASSUME NEW q \in Procs, q # p PROVE PhaseInv(q)'
        BY <1>3, <2>1, <2>4 DEF PhaseInv, WriterInv, Creating, TypeOK
    <2>5. QED
        BY <2>2, <2>3, <2>4
<1>4. CASE ~op[p].created /\ hasMap' = [hasMap EXCEPT ![p] = TRUE] /\ Finish(p)
           /\ UNCHANGED <<objRefs, initCheck, counter, buf, registered>>
    <2>1. HandleHolders' = HandleHolders
        BY <1>1, <1>4 DEF HandleHolders, TypeOK, Finish
    <2>2. TypeOK'
        BY <1>4, NoOpType, EmptySeq DEF TypeOK, Finish
    <2>3. NoHandleLeak' /\ DeadInv'
        BY <1>4, <2>1 DEF NoHandleLeak, DeadInv
    <2>4. PhaseInv(p)'
        BY <1>4 DEF PhaseInv, Creating, NewPhases, SetPhases, GetPhases, Finish, TypeOK
    <2>5. ASSUME NEW q \in Procs, q # p PROVE PhaseInv(q)'
        <3>1. ~Creating(q)
            BY <1>1, <2>5, CreatorAlone
        <3>2. pc'[q] = pc[q] /\ op'[q] = op[q] /\ hasMap'[q] = hasMap[q]
            BY <1>4, <2>5 DEF Finish, TypeOK
        <3>3. QED
            BY <1>4, <2>1, <3>1, <3>2 DEF PhaseInv, WriterInv, Creating
    <2>6. QED
        BY <2>2, <2>3, <2>4, <2>5
<1>5. QED
    BY <1>2, <1>3, <1>4 DEF NewVirtualAlloc

LEMMA InitCasIInv ==
    ASSUME IInv, NEW p \in Procs, InitCas(p)
    PROVE  IInv'
<1> USE DEF IInv
<1>1. Creating(p) /\ p \in HandleHolders /\ op[p] \in Op
    BY DEF InitCas, PhaseInv, Creating, NewPhases, HandleHolders, TypeOK
<1>2. HandleHolders' = HandleHolders
    BY DEF InitCas, HandleHolders, TypeOK
<1>3. op' = [op EXCEPT ![p] = [op[p] EXCEPT !.idx = 0]]
      /\ [op[p] EXCEPT !.idx = 0] \in Op
    <2>1. op' = [op EXCEPT ![p] = [op[p] EXCEPT !.idx = 0]]
        BY DEF InitCas, TypeOK
    <2>2. [op[p] EXCEPT !.idx = 0] \in Op
        <3>1. 0 \in 0 .. NSlots
            OBVIOUS
        <3>2. QED
            BY <1>1, <3>1, OpUpdate
    <2>3. QED
        BY <2>1, <2>2
<1>4. TypeOK'
    BY <1>3 DEF InitCas, TypeOK
<1>5. NoHandleLeak' /\ DeadInv'
    <2>1. objRefs >= 1
        BY <1>1, HoldersRemove DEF NoHandleLeak
    <2>2. QED
        BY <1>2, <2>1 DEF InitCas, NoHandleLeak, DeadInv
<1>6. PhaseInv(p)'
    BY <1>1, <1>2, <1>3 DEF InitCas, PhaseInv, Creating, NewPhases, SetPhases, GetPhases
<1>7. ASSUME NEW q \in Procs, q # p PROVE PhaseInv(q)'
    <2>1. pc[q] = "idle" /\ ~hasMap[q]
        BY <1>1, <1>7, OthersIdle
    <2>2. pc'[q] = pc[q] /\ hasMap'[q] = hasMap[q]
        BY <1>7 DEF InitCas, TypeOK
    <2>3. QED
        BY <2>1, <2>2 DEF PhaseInv, Creating, SetPhases, GetPhases, NewPhases
<1>8. QED
    BY <1>4, <1>5, <1>6, <1>7

LEMMA InitEntryIInv ==
    ASSUME IInv, NEW p \in Procs, InitEntry(p)
    PROVE  IInv'
<1> USE DEF IInv
<1>1. Creating(p) /\ p \in HandleHolders /\ op[p] \in Op /\ pc[p] = "init_entry"
    BY DEF InitEntry, PhaseInv, Creating, NewPhases, HandleHolders, TypeOK
<1>2. objRefs >= 1
    BY <1>1, HoldersRemove DEF NoHandleLeak
<1>3. ASSUME NEW q \in Procs, q # p PROVE pc[q] = "idle" /\ ~hasMap[q]
    BY <1>1, <1>3, OthersIdle
<1> DEFINE s == op[p].idx
<1>4. CASE s < NSlots
    <2>1. s \in Slots /\ s + 1 \in 0 .. NSlots
        BY <1>1, <1>4 DEF Op, Slots
    <2>2. op' = [op EXCEPT ![p] = [op[p] EXCEPT !.idx = s + 1]]
          /\ [op[p] EXCEPT !.idx = s + 1] \in Op
        <3>1. op' = [op EXCEPT ![p] = [op[p] EXCEPT !.idx = s + 1]]
            BY <1>4 DEF InitEntry, TypeOK
        <3>2. [op[p] EXCEPT !.idx = s + 1] \in Op
            BY <1>1, <2>1, OpUpdate
        <3>3. QED
            BY <3>1, <3>2
    <2>3. counter' = [counter EXCEPT ![s] = 1]
          /\ buf' = [buf EXCEPT ![s] = [b \in 0 .. 1 |-> Empty]]
          /\ UNCHANGED <<objRefs, initCheck, registered, pc, hasMap>>
        BY <1>4 DEF InitEntry
    <2>4. HandleHolders' = HandleHolders
        BY <2>3 DEF HandleHolders
    <2>5. TypeOK'
        BY <2>1, <2>2, <2>3, EmptyNames DEF TypeOK
    <2>6. NoHandleLeak' /\ DeadInv'
        BY <1>2, <2>3, <2>4 DEF NoHandleLeak, DeadInv
    <2>7. PhaseInv(p)'
        <3>1. \A t \in Slots : buf'[t] = [b \in 0 .. 1 |-> Empty]
            BY <1>1, <2>3 DEF PhaseInv, TypeOK
        <3>2. QED
            BY <1>1, <2>2, <2>3, <2>4, <3>1 DEF PhaseInv, Creating, NewPhases,
                                              SetPhases, GetPhases
    <2>8. ASSUME NEW q \in Procs, q # p PROVE PhaseInv(q)'
        <3>1. pc'[q] = "idle" /\ ~hasMap'[q]
            BY <1>3, <2>3, <2>8
        <3>2. QED
            BY <3>1 DEF PhaseInv, Creating, SetPhases, GetPhases, NewPhases
    <2>9. QED
        BY <2>5, <2>6, <2>7, <2>8
<1>5. CASE ~(s < NSlots)
    <2>1. initCheck' = "initialized" /\ hasMap' = [hasMap EXCEPT ![p] = TRUE]
          /\ Finish(p) /\ UNCHANGED <<objRefs, counter, buf, registered>>
        BY <1>5 DEF InitEntry
    <2>2. HandleHolders' = HandleHolders
        BY <1>1, <2>1 DEF HandleHolders, TypeOK, Finish
    <2>3. TypeOK'
        BY <2>1, NoOpType, EmptySeq DEF TypeOK, Finish
    <2>4. NoHandleLeak' /\ DeadInv'
        BY <1>2, <2>1, <2>2 DEF NoHandleLeak, DeadInv
    <2>5. PhaseInv(p)'
        BY <2>1 DEF PhaseInv, Creating, NewPhases, SetPhases, GetPhases, Finish, TypeOK
    <2>6. ASSUME NEW q \in Procs, q # p PROVE PhaseInv(q)'
        <3>1. pc'[q] = "idle" /\ ~hasMap'[q]
            BY <1>3, <2>1, <2>6 DEF Finish, TypeOK
        <3>2. QED
            BY <3>1 DEF PhaseInv, Creating, SetPhases, GetPhases, NewPhases
    <2>7. QED
        BY <2>3, <2>4, <2>5, <2>6
<1>6. QED
    BY <1>4, <1>5

LEMMA DropIInv ==
    ASSUME IInv, NEW p \in Procs, Drop(p) \/ Unwind(p)
    PROVE  IInv'
<1>1. CASE Drop(p)
    <2>1. p \in HandleHolders /\ op[p] \in Op /\ pc' = [pc EXCEPT ![p] = "idle"]
          /\ op' = [op EXCEPT ![p] = op[p]]
        BY <1>1 DEF Drop, HandleHolders, IInv, TypeOK
    <2>2. QED
        BY <1>1, <2>1, CloseStepIInv DEF Drop
<1>2. CASE Unwind(p)
    <2>1. p \in HandleHolders /\ op[p] \in Op /\ op' = [op EXCEPT ![p] = op[p]]
        BY <1>2 DEF Unwind, HandleHolders, IInv, PhaseInv, TypeOK
    <2>2. QED
        BY <1>2, <2>1, CloseStepIInv DEF Unwind
<1>3. QED
    BY <1>1, <1>2

-----------------------------------------------------------------------------
(* The steps of set *)

(* Two running sets write different entries: one writer per entry.       *)
LEMMA OtherWriter ==
    ASSUME IInv, SingleWriter, NEW p \in Procs, NEW q \in Procs, q # p,
           pc[p] \in SetPhases, pc[q] \in SetPhases
    PROVE  op[q].port # op[p].port
<1>1. op[p].port \in PortArgs \cap Slots /\ p \in Writers[op[p].port]
    BY DEF IInv, PhaseInv, WriterInv
<1>2. q \in Writers[op[q].port]
    BY DEF IInv, PhaseInv, WriterInv
<1>3. QED
    BY <1>1, <1>2 DEF SingleWriter

(* A step of a holder p between idle and the phases of set (or to the    *)
(* panic) that leaves the entries of the other running sets alone.       *)
LEMMA WriterStepIInv ==
    ASSUME IInv, NEW p \in Procs, hasMap[p], pc[p] \in SetPhases \cup {"idle"},
           NEW x \in SetPhases \cup {"idle", "panicked"}, NEW r \in Op,
           pc' = [pc EXCEPT ![p] = x], op' = [op EXCEPT ![p] = r],
           UNCHANGED <<objRefs, initCheck, hasMap>>,
           counter' \in [Slots -> Nat], buf' \in [Slots -> [0 .. 1 -> Names]],
           registered' \in [Slots -> Names],
           x \in SetPhases => WriterInv(p)',
           \A q \in Procs \ {p} : pc[q] \in SetPhases =>
               /\ counter'[op[q].port] = counter[op[q].port]
               /\ buf'[op[q].port] = buf[op[q].port]
    PROVE  IInv'
<1> USE DEF IInv
<1>1. p \in HandleHolders
    BY DEF HandleHolders
<1>2. HandleHolders' = HandleHolders
    BY DEF HandleHolders, TypeOK, SetPhases, NewPhases
<1>3. TypeOK'
    BY DEF TypeOK, SetPhases
<1>4. NoHandleLeak' /\ DeadInv'
    <2>1. objRefs >= 1
        BY <1>1, HoldersRemove DEF NoHandleLeak
    <2>2. QED
        BY <1>2, <2>1 DEF NoHandleLeak, DeadInv
<1>5. PhaseInv(p)'
    BY DEF PhaseInv, Creating, TypeOK, SetPhases, GetPhases, NewPhases
<1>6. ASSUME NEW q \in Procs, q # p PROVE PhaseInv(q)'
    <2>1. pc'[q] = pc[q] /\ op'[q] = op[q] /\ hasMap'[q] = hasMap[q]
        BY <1>6 DEF TypeOK
    <2>2. ~Creating(q)
        BY <1>1, <1>6, CreatorAlone
    <2>3. pc[q] \in SetPhases => WriterInv(q)'
        <3>1. SUFFICES ASSUME pc[q] \in SetPhases PROVE WriterInv(q)'
            OBVIOUS
        <3>2. WriterInv(q)
            BY <3>1 DEF PhaseInv
        <3>3. counter'[op[q].port] = counter[op[q].port] /\ buf'[op[q].port] = buf[op[q].port]
            BY <1>6, <3>1
        <3>4. QED
            BY <2>1, <3>2, <3>3 DEF WriterInv
    <2>4. QED
        BY <2>1, <2>2, <2>3 DEF PhaseInv, Creating
<1>7. QED
    BY <1>3, <1>4, <1>5, <1>6

LEMMA SetStartIInv ==
    ASSUME IInv, NEW p \in Procs, NEW port \in PortArgs,
           NEW name \in SetArgs \cup {Empty}, SetStart(p, port, name)
    PROVE  IInv'
<1>1. hasMap[p] /\ pc[p] = "idle" /\ p \in Writers[port] /\ port \in 0 .. NSlots
    BY DEF SetStart
<1>2. NoOp \in Op
    BY NoOpType, EmptySeq
<1>3. CASE Panic(p)
    <2>1. pc' = [pc EXCEPT ![p] = "panicked"] /\ op' = [op EXCEPT ![p] = NoOp]
          /\ UNCHANGED <<objRefs, initCheck, counter, buf, registered, hasMap>>
        BY <1>3 DEF Panic
    <2>2. counter' \in [Slots -> Nat] /\ buf' \in [Slots -> [0 .. 1 -> Names]]
          /\ registered' \in [Slots -> Names]
        BY <2>1 DEF IInv, TypeOK
    <2>3. "panicked" \in SetPhases \cup {"idle", "panicked"} /\ "panicked" \notin SetPhases
        BY DEF SetPhases
    <2>4. \A q \in Procs \ {p} : pc[q] \in SetPhases =>
               /\ counter'[op[q].port] = counter[op[q].port]
               /\ buf'[op[q].port] = buf[op[q].port]
        BY <2>1
    <2>5. pc[p] \in SetPhases \cup {"idle"}
        BY <1>1
    <2>6. QED
        BY <1>1, <1>2, <2>1, <2>2, <2>3, <2>4, <2>5, WriterStepIInv, Zenon
<1>4. CASE port < NSlots /\ counter[port] < MaxCounter
           /\ pc' = [pc EXCEPT ![p] = "set_zero"]
           /\ op' = [op EXCEPT ![p] = [NoOp EXCEPT !.port = port, !.name = name,
                                                   !.cur = counter[port]]]
           /\ UNCHANGED <<objRefs, initCheck, counter, buf, registered, hasMap>>
    <2> DEFINE r == [NoOp EXCEPT !.port = port, !.name = name, !.cur = counter[port]]
    <2>1. port \in Slots /\ counter[port] \in Nat
        BY <1>1, <1>4 DEF Slots, IInv, TypeOK
    <2>2. name \in Seq(Letters)
        <3>1. Empty \in Seq(Letters)
            BY EmptySeq DEF Empty
        <3>2. QED
            BY <3>1, ArgsAssumption
    <2>3. r \in Op
        <3>1. [NoOp EXCEPT !.port = port] \in Op
            BY <1>1, <1>2, OpUpdate
        <3>2. [[NoOp EXCEPT !.port = port] EXCEPT !.name = name] \in Op
            BY <2>2, <3>1, OpUpdate
        <3>3. QED
            BY <2>1, <3>2, OpUpdate
    <2>4. op'[p] = r
        BY <1>4 DEF IInv, TypeOK
    <2>5. WriterInv(p)'
        BY <1>1, <1>4, <2>1, <2>4 DEF WriterInv, IInv, TypeOK
    <2>6. QED
        BY <1>1, <1>4, <2>3, <2>5, WriterStepIInv DEF IInv, TypeOK, SetPhases
<1>5. QED
    BY <1>3, <1>4 DEF SetStart

(* What a running set of p knows of its entry.                           *)
LEMMA WriterFacts ==
    ASSUME IInv, NEW p \in Procs, pc[p] \in SetPhases
    PROVE  /\ hasMap[p] /\ op[p] \in Op
           /\ op[p].port \in Slots /\ op[p].cur \in Nat
           /\ op[p].cur % 2 \in 0 .. 1
           /\ op[p].name \in Seq(Letters)
           /\ WriterInv(p)
<1>1. hasMap[p] /\ op[p] \in Op /\ WriterInv(p)
    BY DEF IInv, PhaseInv, TypeOK
<1>2. op[p].port \in Slots /\ op[p].cur \in Nat /\ op[p].name \in Seq(Letters)
    BY <1>1 DEF WriterInv, Op
<1>3. QED
    BY <1>1, <1>2, ReadBufferFacts

LEMMA SetZeroIInv ==
    ASSUME IInv, SingleWriter, NEW p \in Procs, SetZero(p)
    PROVE  IInv'
<1> DEFINE s == op[p].port
           b == op[p].cur % 2
<1>1. pc[p] = "set_zero"
    BY DEF SetZero
<1>2. hasMap[p] /\ op[p] \in Op /\ s \in Slots /\ b \in 0 .. 1 /\ WriterInv(p)
    BY <1>1, WriterFacts DEF SetPhases
<1>3. buf' = [buf EXCEPT ![s][b] = Empty]
      /\ UNCHANGED <<objRefs, initCheck, counter, registered, hasMap>>
    BY DEF SetZero
<1>4. counter' \in [Slots -> Nat] /\ buf' \in [Slots -> [0 .. 1 -> Names]]
      /\ registered' \in [Slots -> Names]
    BY <1>2, <1>3, EmptyNames DEF IInv, TypeOK
<1>5. \A q \in Procs \ {p} : pc[q] \in SetPhases =>
          /\ counter'[op[q].port] = counter[op[q].port]
          /\ buf'[op[q].port] = buf[op[q].port]
    BY <1>1, <1>3, OtherWriter DEF SetPhases
<1>6. CASE Len(op[p].name) > MaxLen
    <2>1. pc' = [pc EXCEPT ![p] = "panicked"] /\ op' = [op EXCEPT ![p] = NoOp]
        BY <1>6 DEF SetZero
    <2>2. "panicked" \in SetPhases \cup {"idle", "panicked"} /\ "panicked" \notin SetPhases
        BY DEF SetPhases
    <2>3. QED
        BY <1>1, <1>2, <1>3, <1>4, <1>5, <2>1, <2>2, NoOpType, EmptySeq,
           WriterStepIInv, Zenon DEF SetPhases
<1>7. CASE Len(op[p].name) <= MaxLen
    <2>1. pc' = [pc EXCEPT ![p] = "set_copy"] /\ op' = op
        BY <1>7 DEF SetZero
    <2>2. op' = [op EXCEPT ![p] = op[p]]
        BY <2>1 DEF IInv, TypeOK
    <2>3. WriterInv(p)'
        BY <1>2, <1>3, <1>7, <2>1 DEF WriterInv, IInv, TypeOK
    <2>4. QED
        BY <1>1, <1>2, <1>3, <1>4, <1>5, <2>1, <2>2, <2>3, WriterStepIInv, Zenon
           DEF SetPhases
<1>8. QED
    BY <1>6, <1>7

LEMMA SetCopyIInv ==
    ASSUME IInv, SingleWriter, NEW p \in Procs, SetCopy(p)
    PROVE  IInv'
<1> DEFINE s == op[p].port
           b == op[p].cur % 2
<1>1. pc[p] = "set_copy"
    BY DEF SetCopy
<1>2. hasMap[p] /\ op[p] \in Op /\ s \in Slots /\ b \in 0 .. 1 /\ WriterInv(p)
      /\ op[p].name \in Seq(Letters)
    BY <1>1, WriterFacts DEF SetPhases
<1>3. op[p].name \in Names
    BY <1>1, <1>2, NamesSeq DEF WriterInv
<1>4. buf' = [buf EXCEPT ![s][b] = op[p].name]
      /\ pc' = [pc EXCEPT ![p] = "set_inc"]
      /\ UNCHANGED <<objRefs, initCheck, counter, registered, hasMap, op>>
    BY DEF SetCopy
<1>5. counter' \in [Slots -> Nat] /\ buf' \in [Slots -> [0 .. 1 -> Names]]
      /\ registered' \in [Slots -> Names]
    BY <1>2, <1>3, <1>4 DEF IInv, TypeOK
<1>6. \A q \in Procs \ {p} : pc[q] \in SetPhases =>
          /\ counter'[op[q].port] = counter[op[q].port]
          /\ buf'[op[q].port] = buf[op[q].port]
    BY <1>1, <1>4, OtherWriter DEF SetPhases
<1>7. op' = [op EXCEPT ![p] = op[p]]
    BY <1>4 DEF IInv, TypeOK
<1>8. WriterInv(p)'
    BY <1>1, <1>2, <1>4 DEF WriterInv, IInv, TypeOK
<1>9. QED
    BY <1>1, <1>2, <1>4, <1>5, <1>6, <1>7, <1>8, WriterStepIInv, Zenon DEF SetPhases

LEMMA SetIncIInv ==
    ASSUME IInv, SingleWriter, NEW p \in Procs, SetInc(p)
    PROVE  IInv'
<1> DEFINE s == op[p].port
<1>1. pc[p] = "set_inc"
    BY DEF SetInc
<1>2. hasMap[p] /\ op[p] \in Op /\ s \in Slots /\ WriterInv(p)
      /\ op[p].name \in Seq(Letters)
    BY <1>1, WriterFacts DEF SetPhases
<1>3. op[p].name \in Names
    BY <1>1, <1>2, NamesSeq DEF WriterInv
<1>4. counter' = [counter EXCEPT ![s] = @ + 1]
      /\ registered' = [registered EXCEPT ![s] = op[p].name]
      /\ Finish(p) /\ UNCHANGED <<objRefs, initCheck, buf, hasMap>>
    BY DEF SetInc
<1>5. counter' \in [Slots -> Nat] /\ buf' \in [Slots -> [0 .. 1 -> Names]]
      /\ registered' \in [Slots -> Names]
    BY <1>2, <1>3, <1>4 DEF IInv, TypeOK
<1>6. \A q \in Procs \ {p} : pc[q] \in SetPhases =>
          /\ counter'[op[q].port] = counter[op[q].port]
          /\ buf'[op[q].port] = buf[op[q].port]
    BY <1>1, <1>4, OtherWriter DEF SetPhases
<1>7. pc' = [pc EXCEPT ![p] = "idle"] /\ op' = [op EXCEPT ![p] = NoOp]
    BY <1>4 DEF Finish
<1>8. QED
    BY <1>1, <1>2, <1>5, <1>6, <1>7, <1>4, NoOpType, EmptySeq, WriterStepIInv, Zenon
       DEF SetPhases

-----------------------------------------------------------------------------
(* The inductive invariant and what it gives *)

THEOREM StepIInv ==
    ASSUME EnvAssumption, IInv, [Next]_vars
    PROVE  IInv'
<1>1. SingleWriter
    BY DEF EnvAssumption
<1>2. CASE UNCHANGED vars
    BY <1>2 DEF vars, IInv, TypeOK, NoHandleLeak, HandleHolders, DeadInv, PhaseInv,
               WriterInv, Creating
<1>3. CASE Next
    <2>1. PICK p \in Procs : Step(p)
        BY <1>3 DEF Next
    <2>2. CASE NewCreateMapping(p)
        BY <2>2, NewCreateMappingIInv
    <2>3. CASE NewMapView(p)
        BY <2>3, NewMapViewIInv
    <2>4. CASE NewVirtualAlloc(p)
        BY <2>4, NewVirtualAllocIInv
    <2>5. CASE InitCas(p)
        BY <2>5, InitCasIInv
    <2>6. CASE InitEntry(p)
        BY <2>6, InitEntryIInv
    <2>7. CASE Drop(p) \/ Unwind(p)
        BY <2>7, DropIInv
    <2>8. CASE \E port \in PortArgs, name \in SetArgs : SetStart(p, port, name)
        BY <2>8, SetStartIInv
    <2>9. CASE \E port \in PortArgs : Reset(p, port)
        BY <2>9, SetStartIInv DEF Reset
    <2>10. CASE SetZero(p)
        BY <1>1, <2>10, SetZeroIInv
    <2>11. CASE SetCopy(p)
        BY <1>1, <2>11, SetCopyIInv
    <2>12. CASE SetInc(p)
        BY <1>1, <2>12, SetIncIInv
    <2>13. CASE \/ \E name \in QueryArgs : GetPortStart(p, name)
                \/ GetLoad(p) \/ GetRead(p) \/ GetCheck(p)
        BY <2>13, GetPortIInv
    <2>14. QED
        BY <2>1, <2>2, <2>3, <2>4, <2>5, <2>6, <2>7, <2>8, <2>9, <2>10, <2>11,
           <2>12, <2>13 DEF Step
<1>4. QED
    BY <1>2, <1>3

(* Under one writer per entry and attachers that wait for the creator,   *)
(* every reachable state satisfies the inductive invariant.               *)
THEOREM AlwaysIInv ==
    ASSUME EnvAssumption
    PROVE  Spec => []IInv
BY InitIInv, StepIInv, PTL DEF Spec

(* Every variable keeps its type (TypeOK), in every reachable state.      *)
THEOREM TypeCorrect ==
    ASSUME EnvAssumption
    PROVE  Spec => []TypeOK
BY AlwaysIInv, PTL DEF IInv

(* PortToUds::new and drop close every handle they open: the object's    *)
(* handle count is the number of processes holding it (NoHandleLeak).    *)
THEOREM HandlesNeverLeak ==
    ASSUME EnvAssumption
    PROVE  Spec => []NoHandleLeak
BY AlwaysIInv, PTL DEF IInv

=============================================================================
