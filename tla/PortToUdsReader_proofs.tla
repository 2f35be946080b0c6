---------------------- MODULE PortToUdsReader_proofs ----------------------
(***************************************************************************)
(* Proofs about what get_port reads in the port directory: with one       *)
(* writer per entry and attachers that wait for the creator, the buffer a *)
(* reader copies holds the name of the last set that returned, and a get  *)
(* whose counter check succeeds returns exactly that name.                *)
(***************************************************************************)
EXTENDS PortToUdsRefinement_proofs

USE NSlotsAssumption, MaxLenAssumption, PortArgsAssumption, WritersAssumption,
    MaxCounterAssumption, ProcsAssumption, ArgsAssumption

(* The buffer readers copy, (counter - 1) % 2, holds the name of the last *)
(* set of every entry that returned, whether or not a set is running.     *)
LastSet == \A s \in Slots : AbsDir[s] = registered[s]

(* A get of p past its counter load saw a counter no larger than the      *)
(* current one, and one that checks an unchanged counter copied the last *)
(* set's name.                                                            *)
ReaderInv(p) ==
    pc[p] \in {"gp_read", "gp_check"} =>
        /\ op[p].cur <= counter[op[p].idx]
        /\ pc[p] = "gp_check" /\ counter[op[p].idx] = op[p].cur
               => op[p].res = registered[op[p].idx]

ReaderAll == \A p \in Procs : ReaderInv(p)

-----------------------------------------------------------------------------
(* The last set's name is the one readers copy *)

(* A step that keeps the readers' buffers and the last sets keeps LastSet. *)
LEMMA LastSetKept ==
    ASSUME LastSet, AbsDir' = AbsDir, registered' = registered
    PROVE  LastSet'
BY DEF LastSet

(* A step that leaves the abstract directory alone keeps what readers copy. *)
LEMMA DirKept ==
    ASSUME UNCHANGED Directory!vars
    PROVE  AbsDir' = AbsDir
BY DEF Directory!vars, AbsDir

(* The close of a handle: the last one empties both the mapping and the   *)
(* record of the last sets.                                               *)
LEMMA LastSetClose ==
    ASSUME LastSet, Directory!Detach, CloseHandle
    PROVE  LastSet'
<1>1. CASE objRefs = 1
    <2>1. AbsDir' = [s \in Slots |-> Empty]
        BY <1>1 DEF Directory!Detach, Directory!EmptyDir, AbsDir
    <2>2. registered' = [s \in Slots |-> Empty]
        BY <1>1 DEF CloseHandle
    <2>3. QED
        BY <2>1, <2>2 DEF LastSet
<1>2. CASE objRefs # 1
    <2>1. AbsDir' = AbsDir
        BY <1>2 DEF Directory!Detach, AbsDir
    <2>2. registered' = registered
        BY <1>2 DEF CloseHandle
    <2>3. QED
        BY <2>1, <2>2, LastSetKept
<1>3. QED
    BY <1>1, <1>2

(* The fetch_add publishes the name the set records as its last one.     *)
LEMMA LastSetInc ==
    ASSUME IInv, LastSet, NEW p \in Procs, SetInc(p)
    PROVE  LastSet'
<1> DEFINE s == op[p].port
<1>1. Directory!Commit(p)
    BY SetIncRefines
<1>2. AbsDir' = [AbsDir EXCEPT ![s] = op[p].name]
    <2>1. PendingSet(p) = {[port |-> s, name |-> op[p].name]}
        BY DEF SetInc, PendingSet
    <2>2. PICK c \in AbsPending[p] : AbsDir' = [AbsDir EXCEPT ![c.port] = c.name]
        BY <1>1 DEF Directory!Commit, AbsPending, AbsDir
    <2>3. c = [port |-> s, name |-> op[p].name]
        BY <2>1 DEF AbsPending
    <2>4. QED
        BY <2>2, <2>3
<1>3. registered' = [registered EXCEPT ![s] = op[p].name]
    BY DEF SetInc
<1>4. s \in Slots
    BY WriterFacts DEF SetInc, SetPhases
<1>5. QED
    BY <1>2, <1>3, <1>4 DEF LastSet, AbsDir, IInv, TypeOK

(* Every step of the code but a set's fetch_add is an abstract step other *)
(* than a commit, and either closes a handle or keeps the last sets and   *)
(* the handle count: it keeps LastSet.                                    *)
LEMMA LastSetNoCommit ==
    ASSUME IInv, LastSet, NEW p \in Procs,
           \/ Directory!Attach \/ Directory!Detach
           \/ \E c \in Directory!Calls : Directory!Invoke(p, c)
           \/ Directory!Abort(p) \/ UNCHANGED Directory!vars,
           CloseHandle \/ (registered' = registered /\ objRefs' # objRefs - 1)
    PROVE  LastSet'
<1>1. objRefs \in Nat
    BY DEF IInv, TypeOK
<1>2. CASE Directory!Detach /\ CloseHandle
    BY <1>2, LastSetClose
<1>3. CASE Directory!Detach /\ ~CloseHandle
    BY <1>1, <1>3 DEF Directory!Detach
<1>4. CASE ~Directory!Detach
    <2>1. AbsDir' = AbsDir /\ (objRefs' = objRefs \/ objRefs' = objRefs + 1)
        BY <1>4 DEF Directory!Attach, Directory!Invoke, Directory!Abort,
                    Directory!vars, AbsDir
    <2>2. registered' = registered
        BY <1>1, <2>1 DEF CloseHandle
    <2>3. QED
        BY <2>1, <2>2, LastSetKept
<1>5. QED
    BY <1>2, <1>3, <1>4

(* Every step of the code, and every stutter, keeps LastSet.             *)
LEMMA LastSetStep ==
    ASSUME IInv, LastSet, [Next]_vars
    PROVE  LastSet'
<1>1. CASE UNCHANGED vars
    BY <1>1 DEF vars, LastSet, AbsDir
<1>2. CASE Next
    <2>1. PICK p \in Procs : Step(p)
        BY <1>2 DEF Next
    <2>2. CASE NewCreateMapping(p)
        <3>1. Directory!Attach
            BY <2>2, NewCreateMappingRefines
        <3>2. registered' = registered /\ objRefs' # objRefs - 1
            <4>1. objRefs \in Nat /\ objRefs' = objRefs + 1 /\ registered' = registered
                BY <2>2 DEF NewCreateMapping, IInv, TypeOK
            <4>2. QED
                BY <4>1
        <3>3. QED
            BY <3>1, <3>2, LastSetNoCommit
    <2>3. CASE NewMapView(p) \/ NewVirtualAlloc(p) \/ InitCas(p)
        <3>1. CloseHandle \/ (registered' = registered /\ objRefs' = objRefs)
            BY <2>3 DEF NewMapView, NewVirtualAlloc, InitCas
        <3>2. objRefs \in Nat
            BY DEF IInv, TypeOK
        <3>3. QED
            BY <2>3, <3>1, <3>2, NewStepsRefine, LastSetNoCommit
    <2>4. CASE InitEntry(p)
        <3>1. registered' = registered /\ objRefs' = objRefs /\ objRefs \in Nat
            BY <2>4 DEF InitEntry, IInv, TypeOK
        <3>2. QED
            BY <2>4, <3>1, InitEntryRefines, LastSetNoCommit
    <2>5. CASE Drop(p) \/ Unwind(p)
        BY <2>5, DropRefines, LastSetNoCommit DEF Drop, Unwind
    <2>6. CASE \/ \E port \in PortArgs, name \in SetArgs : SetStart(p, port, name)
               \/ \E port \in PortArgs : Reset(p, port)
        <3>1. PICK port \in PortArgs, name \in SetArgs \cup {Empty} : SetStart(p, port, name)
            BY <2>6 DEF Reset
        <3>2. registered' = registered /\ objRefs' = objRefs /\ objRefs \in Nat
            BY <3>1 DEF SetStart, Panic, IInv, TypeOK
        <3>3. QED
            BY <3>1, <3>2, SetStartRefines, LastSetNoCommit
    <2>7. CASE SetZero(p) \/ SetCopy(p)
        <3>1. registered' = registered /\ objRefs' = objRefs /\ objRefs \in Nat
            BY <2>7 DEF SetZero, SetCopy, IInv, TypeOK
        <3>2. QED
            BY <2>7, <3>1, SetZeroRefines, SetCopyRefines, LastSetNoCommit
    <2>8. CASE SetInc(p)
        BY <2>8, LastSetInc
    <2>9. CASE \/ \E name \in QueryArgs : GetPortStart(p, name)
               \/ GetLoad(p) \/ GetRead(p) \/ GetCheck(p)
        <3>1. registered' = registered /\ objRefs' = objRefs /\ objRefs \in Nat
            BY <2>9 DEF GetPortStart, GetLoad, GetRead, GetCheck, IInv, TypeOK
        <3>2. QED
            BY <2>9, <3>1, GetPortRefines, LastSetNoCommit
    <2>10. QED
        BY <2>1, <2>2, <2>3, <2>4, <2>5, <2>6, <2>7, <2>8, <2>9 DEF Step
<1>3. QED
    BY <1>1, <1>2 DEF Next

(* Initially every buffer and every last set is empty.                   *)
LEMMA LastSetInit ==
    ASSUME Init
    PROVE  LastSet
<1>1. AbsDir = Directory!EmptyDir
    BY ZeroDir DEF Init
<1>2. QED
    BY <1>1 DEF Init, LastSet, Directory!EmptyDir

-----------------------------------------------------------------------------
(* What a get reads *)

(* A get past its counter load reads an entry of the array.             *)
LEMMA ReaderIdx ==
    ASSUME IInv, NEW q \in Procs, pc[q] \in {"gp_read", "gp_check"}
    PROVE  /\ op[q].idx \in Slots /\ op[q].cur \in Nat
           /\ counter[op[q].idx] \in Nat
<1>1. PhaseInv(q) /\ op[q] \in Op
    BY DEF IInv, TypeOK
<1>2. op[q].idx < NSlots /\ op[q].idx \in 0 .. NSlots /\ op[q].cur \in Nat
    BY <1>1 DEF PhaseInv, GetPhases, Op
<1>3. op[q].idx \in Slots
    BY <1>2 DEF Slots
<1>4. QED
    BY <1>2, <1>3 DEF IInv, TypeOK

(* A step of a that keeps every other process's locals, never lowers the *)
(* counter a running get of another process loaded, and keeps that       *)
(* entry's last set while its counter stays put, keeps ReaderAll once it  *)
(* keeps ReaderInv(a).                                                    *)
LEMMA ReaderFrame ==
    ASSUME IInv, IInv', ReaderAll, NEW a \in Procs, ReaderInv(a)',
           \A q \in Procs \ {a} : pc'[q] = pc[q] /\ op'[q] = op[q],
           \A q \in Procs \ {a} : pc[q] \in {"gp_read", "gp_check"} =>
               /\ counter[op[q].idx] <= counter'[op[q].idx]
               /\ counter'[op[q].idx] = counter[op[q].idx]
                      => registered'[op[q].idx] = registered[op[q].idx]
    PROVE  ReaderAll'
<1> SUFFICES ASSUME NEW q \in Procs, q # a, pc'[q] \in {"gp_read", "gp_check"}
             PROVE  ReaderInv(q)'
    BY DEF ReaderAll, ReaderInv
<1>1. pc[q] \in {"gp_read", "gp_check"} /\ pc'[q] = pc[q] /\ op'[q] = op[q]
    OBVIOUS
<1>2. op[q].idx \in Slots /\ op[q].cur \in Nat /\ counter[op[q].idx] \in Nat
    BY <1>1, ReaderIdx
<1>3. counter'[op[q].idx] \in Nat
    BY <1>2 DEF IInv, TypeOK
<1>4. op[q].cur <= counter[op[q].idx]
    BY <1>1 DEF ReaderAll, ReaderInv
<1>5. op[q].cur <= counter'[op[q].idx]
    BY <1>1, <1>2, <1>3, <1>4
<1>6. ASSUME pc[q] = "gp_check", counter'[op[q].idx] = op[q].cur
      PROVE  op[q].res = registered'[op[q].idx]
    <2>1. counter[op[q].idx] = op[q].cur
        BY <1>1, <1>2, <1>3, <1>4, <1>6
    <2>2. op[q].res = registered[op[q].idx]
        BY <1>1, <1>6, <2>1 DEF ReaderAll, ReaderInv
    <2>3. QED
        BY <1>1, <1>6, <2>1, <2>2
<1>7. QED
    BY <1>1, <1>5, <1>6 DEF ReaderInv

(* A step of a that keeps every counter and every last set and leaves a   *)
(* outside the read and the check keeps ReaderAll.                        *)
LEMMA ReaderQuiet ==
    ASSUME IInv, IInv', ReaderAll, NEW a \in Procs, NEW x, NEW r,
           pc' = [pc EXCEPT ![a] = x], op' = [op EXCEPT ![a] = r],
           x \notin {"gp_read", "gp_check"},
           counter' = counter, registered' = registered
    PROVE  ReaderAll'
<1>1. ReaderInv(a)'
    BY DEF ReaderInv, IInv, TypeOK
<1>2. \A q \in Procs \ {a} : pc'[q] = pc[q] /\ op'[q] = op[q]
    BY DEF IInv, TypeOK
<1>3. \A q \in Procs \ {a} : pc[q] \in {"gp_read", "gp_check"} =>
          /\ counter[op[q].idx] <= counter'[op[q].idx]
          /\ counter'[op[q].idx] = counter[op[q].idx]
                 => registered'[op[q].idx] = registered[op[q].idx]
    BY ReaderIdx
<1>4. QED
    BY <1>1, <1>2, <1>3, ReaderFrame

(* The last close of the mapping: no other process is inside a get.      *)
LEMMA ReaderLastClose ==
    ASSUME IInv, IInv', ReaderAll, NEW a \in HandleHolders, objRefs = 1,
           NEW x, NEW r, pc' = [pc EXCEPT ![a] = x], op' = [op EXCEPT ![a] = r],
           x \notin {"gp_read", "gp_check"}
    PROVE  ReaderAll'
<1>1. HandleHolders = {a}
    BY HoldersRemove DEF IInv, NoHandleLeak
<1>2. \A q \in Procs \ {a} : pc[q] \notin {"gp_read", "gp_check"}
    BY <1>1 DEF IInv, PhaseInv, GetPhases, HandleHolders
<1>3. ReaderInv(a)'
    BY DEF ReaderInv, IInv, TypeOK
<1>4. \A q \in Procs \ {a} : pc'[q] = pc[q] /\ op'[q] = op[q]
    BY DEF IInv, TypeOK
<1>5. \A q \in Procs \ {a} : pc[q] \in {"gp_read", "gp_check"} =>
          /\ counter[op[q].idx] <= counter'[op[q].idx]
          /\ counter'[op[q].idx] = counter[op[q].idx]
                 => registered'[op[q].idx] = registered[op[q].idx]
    BY <1>2
<1>6. a \in Procs
    BY DEF HandleHolders
<1>7. QED
    BY <1>3, <1>4, <1>5, <1>6, ReaderFrame

(* Closing a handle outside a get keeps ReaderAll.                        *)
LEMMA ReaderClose ==
    ASSUME IInv, IInv', ReaderAll, NEW a \in HandleHolders, CloseHandle,
           NEW x, NEW r, pc' = [pc EXCEPT ![a] = x], op' = [op EXCEPT ![a] = r],
           x \notin {"gp_read", "gp_check"}
    PROVE  ReaderAll'
<1>1. CASE objRefs = 1
    BY <1>1, ReaderLastClose
<1>2. CASE objRefs # 1
    <2>1. counter' = counter /\ registered' = registered
        BY <1>2 DEF CloseHandle
    <2>2. a \in Procs
        BY DEF HandleHolders
    <2>3. QED
        BY <2>1, <2>2, ReaderQuiet
<1>3. QED
    BY <1>1, <1>2

(* The fetch_add of a set raises its entry's counter, so a get of that    *)
(* entry that loaded the old counter will find it changed.               *)
LEMMA ReaderSetInc ==
    ASSUME IInv, IInv', ReaderAll, NEW a \in Procs, SetInc(a)
    PROVE  ReaderAll'
<1> DEFINE s == op[a].port
<1>1. s \in Slots /\ counter[s] \in Nat
    BY WriterFacts DEF SetInc, SetPhases, IInv, TypeOK
<1>2. counter' = [counter EXCEPT ![s] = @ + 1]
      /\ registered' = [registered EXCEPT ![s] = op[a].name]
      /\ pc' = [pc EXCEPT ![a] = "idle"] /\ op' = [op EXCEPT ![a] = NoOp]
    BY DEF SetInc, Finish
<1>3. ReaderInv(a)'
    BY <1>2 DEF ReaderInv, IInv, TypeOK
<1>4. \A q \in Procs \ {a} : pc'[q] = pc[q] /\ op'[q] = op[q]
    BY <1>2 DEF IInv, TypeOK
<1>5. ASSUME NEW q \in Procs \ {a}, pc[q] \in {"gp_read", "gp_check"}
      PROVE  /\ counter[op[q].idx] <= counter'[op[q].idx]
             /\ counter'[op[q].idx] = counter[op[q].idx]
                    => registered'[op[q].idx] = registered[op[q].idx]
    <2>1. op[q].idx \in Slots /\ counter[op[q].idx] \in Nat
        BY <1>5, ReaderIdx
    <2>2. CASE op[q].idx = s
        BY <1>1, <1>2, <2>1, <2>2 DEF IInv, TypeOK
    <2>3. CASE op[q].idx # s
        BY <1>2, <2>1, <2>3 DEF IInv, TypeOK
    <2>4. QED
        BY <2>2, <2>3
<1>6. QED
    BY <1>3, <1>4, <1>5, ReaderFrame

(* The creator initialises the entries while no other process holds the  *)
(* mapping.                                                               *)
LEMMA ReaderInitEntry ==
    ASSUME IInv, IInv', ReaderAll, NEW a \in Procs, InitEntry(a)
    PROVE  ReaderAll'
<1>1. Creating(a) /\ pc[a] = "init_entry"
    BY DEF InitEntry, IInv, PhaseInv, Creating, NewPhases, TypeOK
<1>2. \A q \in Procs \ {a} : pc[q] = "idle"
    BY <1>1, OthersIdle
<1>3. pc'[a] \in {"init_entry", "idle"}
    BY DEF InitEntry, Finish, IInv, TypeOK
<1>4. ReaderInv(a)'
    BY <1>3 DEF ReaderInv
<1>5. \A q \in Procs \ {a} : pc'[q] = pc[q] /\ op'[q] = op[q]
    BY DEF InitEntry, Finish, IInv, TypeOK
<1>6. QED
    BY <1>2, <1>4, <1>5, ReaderFrame

(* A step of a that keeps every counter, every last set and the locals of *)
(* every other process keeps ReaderAll once it keeps ReaderInv(a).        *)
LEMMA ReaderOwn ==
    ASSUME IInv, IInv', ReaderAll, NEW a \in Procs, ReaderInv(a)',
           \A q \in Procs \ {a} : pc'[q] = pc[q] /\ op'[q] = op[q],
           counter' = counter, registered' = registered
    PROVE  ReaderAll'
<1>1. \A q \in Procs \ {a} : pc[q] \in {"gp_read", "gp_check"} =>
          /\ counter[op[q].idx] <= counter'[op[q].idx]
          /\ counter'[op[q].idx] = counter[op[q].idx]
                 => registered'[op[q].idx] = registered[op[q].idx]
    BY ReaderIdx
<1>2. QED
    BY <1>1, ReaderFrame

(* The copy of buffer (current - 1) % 2: while the counter still equals  *)
(* the one loaded, no set writes that buffer, and it holds the last set.  *)
LEMMA ReaderGetRead ==
    ASSUME IInv, IInv', LastSet, ReaderAll, NEW a \in Procs, GetRead(a)
    PROVE  ReaderAll'
<1> DEFINE s == op[a].idx
           c == op[a].cur
<1>1. pc[a] = "gp_read" /\ op[a] \in Op
    BY DEF GetRead, IInv, TypeOK
<1>2. s \in Slots /\ c \in Nat /\ counter[s] \in Nat /\ c <= counter[s]
    BY <1>1, ReaderIdx DEF ReaderAll, ReaderInv
<1>3. PICK v \in Readable(s, ReadBuffer(c)) : op' = [op EXCEPT ![a].res = v]
    BY DEF GetRead
<1>4. UNCHANGED <<counter, registered>> /\ pc' = [pc EXCEPT ![a] = "gp_check"]
    BY DEF GetRead
<1>5. op'[a].idx = s /\ op'[a].cur = c /\ op'[a].res = v /\ pc'[a] = "gp_check"
    BY <1>1, <1>3, <1>4 DEF IInv, TypeOK
<1>6. ASSUME counter[s] = c PROVE v = registered[s]
    <2>1. ASSUME NEW w \in Procs, pc[w] = "set_copy", op[w].port = s
          PROVE  op[w].cur % 2 # ReadBuffer(c)
        <3>1. op[w].cur = counter[s]
            BY <2>1 DEF IInv, PhaseInv, WriterInv, SetPhases
        <3>2. QED
            BY <1>2, <1>6, <3>1, ReadBufferFacts
    <2>2. v = buf[s][ReadBuffer(c)]
        BY <1>3, <2>1 DEF Readable
    <2>3. buf[s][ReadBuffer(counter[s])] = registered[s]
        BY <1>2 DEF LastSet, AbsDir
    <2>4. QED
        BY <1>6, <2>2, <2>3
<1>7. ReaderInv(a)'
    BY <1>2, <1>4, <1>5, <1>6 DEF ReaderInv
<1>8. \A q \in Procs \ {a} : pc'[q] = pc[q] /\ op'[q] = op[q]
    BY <1>3, <1>4 DEF IInv, TypeOK
<1>9. QED
    BY <1>4, <1>7, <1>8, ReaderOwn

(* The load of the counter before the loop.                               *)
LEMMA ReaderGetLoad ==
    ASSUME IInv, IInv', ReaderAll, NEW a \in Procs, GetLoad(a)
    PROVE  ReaderAll'
<1> DEFINE s == op[a].idx
<1>1. op[a] \in Op /\ UNCHANGED <<counter, registered>>
    BY DEF GetLoad, IInv, TypeOK
<1>2. CASE s < NSlots
    <2>1. pc' = [pc EXCEPT ![a] = "gp_read"] /\ op' = [op EXCEPT ![a].cur = counter[s]]
        BY <1>2 DEF GetLoad
    <2>2. s \in Slots
        BY <1>1, <1>2 DEF Op, Slots
    <2>3. counter[s] \in Nat
        BY <2>2 DEF IInv, TypeOK
    <2>4. op'[a].idx = s /\ op'[a].cur = counter[s] /\ pc'[a] = "gp_read"
        BY <1>1, <2>1 DEF IInv, TypeOK
    <2>5. ReaderInv(a)'
        BY <1>1, <2>3, <2>4 DEF ReaderInv
    <2>6. \A q \in Procs \ {a} : pc'[q] = pc[q] /\ op'[q] = op[q]
        BY <2>1 DEF IInv, TypeOK
    <2>7. QED
        BY <1>1, <2>5, <2>6, ReaderOwn
<1>3. CASE ~(s < NSlots)
    BY <1>1, <1>3, ReaderQuiet DEF GetLoad, Finish
<1>4. QED
    BY <1>2, <1>3

(* The counter check: a changed counter sends the get back to the copy.  *)
LEMMA ReaderGetCheck ==
    ASSUME IInv, IInv', ReaderAll, NEW a \in Procs, GetCheck(a)
    PROVE  ReaderAll'
<1> DEFINE s == op[a].idx
<1>1. pc[a] = "gp_check" /\ UNCHANGED <<counter, registered>>
    BY DEF GetCheck
<1>2. CASE counter[s] # op[a].cur /\ pc' = [pc EXCEPT ![a] = "gp_read"]
           /\ UNCHANGED op
    <2>1. op[a].cur <= counter[s]
        BY <1>1 DEF ReaderAll, ReaderInv
    <2>2. ReaderInv(a)'
        BY <1>1, <1>2, <2>1 DEF ReaderInv, IInv, TypeOK
    <2>3. \A q \in Procs \ {a} : pc'[q] = pc[q] /\ op'[q] = op[q]
        BY <1>2 DEF IInv, TypeOK
    <2>4. QED
        BY <1>1, <2>2, <2>3, ReaderOwn
<1>3. CASE Finish(a)
    BY <1>1, <1>3, ReaderQuiet DEF Finish
<1>4. CASE pc' = [pc EXCEPT ![a] = "gp_load"]
           /\ op' = [op EXCEPT ![a].idx = op[a].idx + 1]
    <2>1. op' = [op EXCEPT ![a] = [op[a] EXCEPT !.idx = op[a].idx + 1]]
        BY <1>4
    <2>2. "gp_load" \notin {"gp_read", "gp_check"} /\ counter' = counter
          /\ registered' = registered /\ pc' = [pc EXCEPT ![a] = "gp_load"]
        BY <1>1, <1>4
    <2>3. QED
        BY <2>1, <2>2, ReaderQuiet, Zenon
<1>5. QED
    BY <1>2, <1>3, <1>4 DEF GetCheck

(* A step of a that leaves it outside the read and the check and changes *)
(* no counter, no last set and no other process's locals.                 *)
LEMMA ReaderQuietStep ==
    ASSUME IInv, IInv', ReaderAll, NEW a \in Procs,
           pc'[a] \notin {"gp_read", "gp_check"},
           \A q \in Procs \ {a} : pc'[q] = pc[q] /\ op'[q] = op[q],
           counter' = counter, registered' = registered
    PROVE  ReaderAll'
<1>1. ReaderInv(a)'
    BY DEF ReaderInv
<1>2. QED
    BY <1>1, ReaderOwn

(* Every step of the code, and every stutter, keeps ReaderAll.           *)
LEMMA ReaderStep ==
    ASSUME IInv, IInv', LastSet, ReaderAll, [Next]_vars
    PROVE  ReaderAll'
<1>1. CASE UNCHANGED vars
    BY <1>1 DEF vars, ReaderAll, ReaderInv
<1>2. CASE Next
    <2>1. PICK p \in Procs : Step(p)
        BY <1>2 DEF Next
    <2>2. TypeOK /\ PhaseInv(p)
        BY DEF IInv
    <2>3. CASE \/ NewCreateMapping(p) \/ InitCas(p) \/ SetCopy(p) \/ SetZero(p)
               \/ \E port \in PortArgs, name \in SetArgs : SetStart(p, port, name)
               \/ \E port \in PortArgs : Reset(p, port)
               \/ \E name \in QueryArgs : GetPortStart(p, name)
        <3>1. pc'[p] \notin {"gp_read", "gp_check"}
              /\ counter' = counter /\ registered' = registered
            BY <2>2, <2>3 DEF NewCreateMapping, InitCas, SetCopy, SetZero, SetStart,
                              Reset, Panic, GetPortStart, TypeOK
        <3>2. \A q \in Procs \ {p} : pc'[q] = pc[q] /\ op'[q] = op[q]
            BY <2>2, <2>3 DEF NewCreateMapping, InitCas, SetCopy, SetZero, SetStart,
                              Reset, Panic, GetPortStart, TypeOK
        <3>3. QED
            BY <3>1, <3>2, ReaderQuietStep
    <2>4. CASE NewMapView(p) \/ NewVirtualAlloc(p)
        <3>1. p \in HandleHolders
            BY <2>4 DEF NewMapView, NewVirtualAlloc, HandleHolders
        <3>2. CASE CloseHandle /\ Finish(p)
            <4>1. pc' = [pc EXCEPT ![p] = "idle"] /\ op' = [op EXCEPT ![p] = NoOp]
                  /\ "idle" \notin {"gp_read", "gp_check"}
                BY <3>2 DEF Finish
            <4>2. QED
                BY <3>1, <3>2, <4>1, ReaderClose, Zenon
        <3>3. CASE ~(CloseHandle /\ Finish(p))
            <4>1. pc'[p] \notin {"gp_read", "gp_check"}
                  /\ counter' = counter /\ registered' = registered
                BY <2>2, <2>4, <3>3 DEF NewMapView, NewVirtualAlloc, Finish, TypeOK
            <4>2. \A q \in Procs \ {p} : pc'[q] = pc[q] /\ op'[q] = op[q]
                BY <2>2, <2>4, <3>3 DEF NewMapView, NewVirtualAlloc, Finish, TypeOK
            <4>3. QED
                BY <4>1, <4>2, ReaderQuietStep
        <3>4. QED
            BY <3>2, <3>3
    <2>5. CASE InitEntry(p)
        BY <2>5, ReaderInitEntry
    <2>6. CASE Drop(p) \/ Unwind(p)
        <3>1. p \in HandleHolders /\ CloseHandle
            BY <2>2, <2>6 DEF Drop, Unwind, HandleHolders, PhaseInv
        <3>2. pc' = [pc EXCEPT ![p] = "idle"] /\ op' = [op EXCEPT ![p] = op[p]]
            BY <2>2, <2>6 DEF Drop, Unwind, TypeOK
        <3>3. QED
            BY <3>1, <3>2, ReaderClose
    <2>7. CASE SetInc(p)
        BY <2>7, ReaderSetInc
    <2>8. CASE GetLoad(p)
        BY <2>8, ReaderGetLoad
    <2>9. CASE GetRead(p)
        BY <2>9, ReaderGetRead
    <2>10. CASE GetCheck(p)
        BY <2>10, ReaderGetCheck
    <2>11. QED
        BY <2>1, <2>3, <2>4, <2>5, <2>6, <2>7, <2>8, <2>9, <2>10 DEF Step
<1>3. QED
    BY <1>1, <1>2 DEF Next

-----------------------------------------------------------------------------
(* The theorems *)

(* The invariant both theorems rest on.                                   *)
ReadInv == IInv /\ LastSet /\ ReaderAll

THEOREM InitReadInv == Init => ReadInv
<1> SUFFICES ASSUME Init PROVE ReadInv
    OBVIOUS
<1>1. ReaderAll
    BY DEF Init, ReaderAll, ReaderInv
<1>2. QED
    BY <1>1, InitIInv, LastSetInit DEF ReadInv

THEOREM StepReadInv ==
    ASSUME EnvAssumption, ReadInv, [Next]_vars
    PROVE  ReadInv'
<1>1. IInv'
    BY StepIInv DEF ReadInv
<1>2. LastSet'
    BY LastSetStep DEF ReadInv
<1>3. ReaderAll'
    BY <1>1, ReaderStep DEF ReadInv
<1>4. QED
    BY <1>1, <1>2, <1>3 DEF ReadInv

THEOREM AlwaysReadInv ==
    ASSUME EnvAssumption
    PROVE  Spec => []ReadInv
BY InitReadInv, StepReadInv, PTL DEF Spec

(* With one writer per entry and attachers that wait for the creator,     *)
(* the buffer get_port copies of an entry that no set is writing holds    *)
(* the name of the last set that returned, for every number of processes, *)
(* entries and names: set's zero-then-copy into buffer current % 2 and    *)
(* its fetch_add never lose a returned set, and initialisation never      *)
(* overwrites one.                                                        *)
THEOREM ReadableIsLastSetSafety ==
    ASSUME EnvAssumption
    PROVE  Spec => []ReadableIsLastSet
<1>1. ReadInv => ReadableIsLastSet
    BY DEF ReadInv, LastSet, AbsDir, ReadableIsLastSet
<1>2. QED
    BY <1>1, AlwaysReadInv, PTL

(* Under the same environment, a get whose counter check finds the       *)
(* counter it loaded before the loop returns the name of the last set of *)
(* that entry: the ABA counter keeps a reader from returning a buffer a   *)
(* writer is filling, however sets and gets interleave.                   *)
THEOREM GetSeesLastWrittenSafety ==
    ASSUME EnvAssumption
    PROVE  Spec => []GetSeesLastWritten
<1>1. ReadInv => GetSeesLastWritten
    BY DEF ReadInv, ReaderAll, ReaderInv, GetSeesLastWritten
<1>2. QED
    BY <1>1, AlwaysReadInv, PTL

=============================================================================
