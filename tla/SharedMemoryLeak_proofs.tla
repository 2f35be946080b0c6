---------------------- MODULE SharedMemoryLeak_proofs ----------------------
(***************************************************************************)
(* Proofs that no builder call of SharedMemory leaves a mapping behind    *)
(* when no base address is enforced (sm_base_address_leak shows the leak  *)
(* otherwise), and that create() unlinks the segment it created when it   *)
(* fails after its SharedMemory value was built (sm_create_orphan shows   *)
(* the orphan a failure before that point leaves).                       *)
(***************************************************************************)
EXTENDS SharedMemory_proofs

(* The builder setting under which no mapping leaks: no enforced base    *)
(* address.                                                              *)
Settings == EnforceChoices = {FALSE}

(* What a running call remembers of its configuration: no base address is *)
(* enforced, a create call has a configured size, only a create call      *)
(* creates, and a call that created its segment is past its shm_create.  *)
CallInv(q) ==
    /\ ~call[q].enforce
    /\ call[q].op = "create" => call[q].size \in ConfigSizes
    /\ pc[q] \in {"shm_create", "map", "truncate", "lock_and_zero"}
           => call[q].op = "create"
    /\ call[q].created => pc[q] \in {"map", "truncate", "lock_and_zero"}

LeakInv == NoLeakedMapping /\ \A q \in Procs : CallInv(q)


USE ProcsAssumption, NamesAssumption, ConfigSizesAssumption,
    CreationModesAssumption, EnforceChoicesAssumption, MaxInodesAssumption,
    NoProcAssumption

(* The part of LeakInv that the call x, y, the handle h and the mapping  *)
(* count m of one process must satisfy.                                  *)
LeakPart(x, y, h, m) ==
    /\ m = (IF h.inode # NoInode THEN 1 ELSE 0) + (IF x \in Mapped THEN 1 ELSE 0)
    /\ ~y.enforce
    /\ y.op = "create" => y.size \in ConfigSizes
    /\ x \in {"shm_create", "map", "truncate", "lock_and_zero"} => y.op = "create"
    /\ y.created => x \in {"map", "truncate", "lock_and_zero"}

(* A step of p that sets its phase, call, handle and mapping count and    *)
(* leaves the other processes alone keeps LeakInv when p's part holds.   *)
LEMMA LeakFrame ==
    ASSUME IInv, LeakInv, NEW p \in Procs, NEW x, NEW y, NEW h, NEW m,
           pc' = [pc EXCEPT ![p] = x], call' = [call EXCEPT ![p] = y],
           handle' = [handle EXCEPT ![p] = h], mappings' = [mappings EXCEPT ![p] = m],
           LeakPart(x, y, h, m)
    PROVE  LeakInv'
<1> SUFFICES ASSUME NEW q \in Procs
             PROVE  /\ mappings'[q] = (IF Holds(q)' THEN 1 ELSE 0)
                                      + (IF pc'[q] \in Mapped THEN 1 ELSE 0)
                    /\ CallInv(q)'
    BY DEF LeakInv, NoLeakedMapping
<1>1. CASE q = p
    <2>1. pc'[q] = x /\ call'[q] = y /\ handle'[q] = h /\ mappings'[q] = m
        BY <1>1 DEF IInv, TypeOK
    <2>2. QED
        BY <2>1 DEF LeakPart, CallInv, Holds
<1>2. CASE q # p
    <2>1. pc'[q] = pc[q] /\ call'[q] = call[q] /\ handle'[q] = handle[q]
          /\ mappings'[q] = mappings[q]
        BY <1>2 DEF IInv, TypeOK
    <2>2. QED
        BY <2>1 DEF LeakInv, NoLeakedMapping, CallInv, Holds
<1>3. QED
    BY <1>1, <1>2

(* The facts about an idle process with no handle, about to start a call. *)
LEMMA IdleFree ==
    ASSUME IInv, LeakInv, NEW p \in Procs, pc[p] = "idle", ~Holds(p)
    PROVE  /\ mappings[p] = 0 /\ handle[p].inode = NoInode
           /\ LeakPart("idle", call[p], handle[p], mappings[p])
<1>1. mappings[p] = 0
    BY DEF LeakInv, NoLeakedMapping, Mapped
<1>2. QED
    BY <1>1 DEF LeakInv, CallInv, LeakPart, Holds, Mapped

(* A step that changes no phase, call, handle or mapping count.          *)
LEMMA LeakKeep ==
    ASSUME LeakInv, UNCHANGED <<pc, call, handle, mappings>>
    PROVE  LeakInv'
BY DEF LeakInv, NoLeakedMapping, CallInv, Holds

(* A call that fails returns to idle with its mappings unchanged; before  *)
(* it the process held nothing and had mapped nothing.                     *)
LEMMA LeakFail ==
    ASSUME IInv, LeakInv, NEW p \in Procs, Fail(p), UNCHANGED <<handle, mappings>>,
           ~Holds(p), pc[p] \notin Mapped
    PROVE  LeakInv'
<1>1. mappings[p] = 0 /\ handle[p].inode = NoInode
    BY DEF LeakInv, NoLeakedMapping, Holds
<1>2. LeakPart("idle", NoCall, handle[p], mappings[p])
    BY <1>1 DEF LeakPart, NoCall, Mapped
<1>3. handle' = [handle EXCEPT ![p] = handle[p]]
      /\ mappings' = [mappings EXCEPT ![p] = mappings[p]]
    BY DEF IInv, TypeOK
<1>4. pc' = [pc EXCEPT ![p] = "idle"] /\ call' = [call EXCEPT ![p] = NoCall]
    BY DEF Fail
<1>5. QED
    BY <1>2, <1>3, <1>4, LeakFrame, ZenonT(60)

(* open's shm_open: ENOENT, or an open call on the segment found.        *)
LEMMA LeakOpenExisting ==
    ASSUME Settings, IInv, LeakInv, NEW p \in Procs, NEW n \in Names,
           NEW e \in EnforceChoices, OpenExisting(p, n, e)
    PROVE  LeakInv'
<1>1. CASE shmName[n] = NoInode
    BY <1>1, LeakKeep DEF OpenExisting
<1>2. CASE shmName[n] # NoInode
    <2> DEFINE y == [NoCall EXCEPT !.op = "open", !.name = n, !.enforce = e,
                                   !.inode = shmName[n]]
    <2>1. pc[p] = "idle" /\ ~Holds(p)
        BY DEF OpenExisting
    <2>2. mappings[p] = 0 /\ handle[p].inode = NoInode
        BY <2>1, IdleFree
    <2>3. ~y.enforce /\ y.op = "open" /\ ~y.created
        BY DEF Settings, NoCall
    <2>4. LeakPart("open_map", y, handle[p], mappings[p])
        BY <2>2, <2>3 DEF LeakPart, Mapped
    <2>5. pc' = [pc EXCEPT ![p] = "open_map"] /\ call' = [call EXCEPT ![p] = y]
          /\ handle' = [handle EXCEPT ![p] = handle[p]]
          /\ mappings' = [mappings EXCEPT ![p] = mappings[p]]
        BY <1>2 DEF OpenExisting, IInv, TypeOK
    <2>6. QED
        BY <2>4, <2>5, LeakFrame
<1>3. QED
    BY <1>1, <1>2

(* open's mmap: a failure maps nothing, a success is the handle's region. *)
LEMMA LeakOpenMap ==
    ASSUME IInv, LeakInv, NEW p \in Procs, OpenMap(p)
    PROVE  LeakInv'
<1> DEFINE c == call[p]
<1>1. pc[p] = "open_map" /\ ~Holds(p) /\ c.inode \in Inodes /\ ~c.enforce
    BY DEF OpenMap, IInv, ProcInv, Busy, LeakInv, CallInv
<1>2. mappings[p] = 0 /\ mappings[p] \in Nat
    BY <1>1 DEF LeakInv, NoLeakedMapping, Mapped, IInv, TypeOK
<1>3. CASE Fail(p) /\ UNCHANGED <<handle, mappings>>
    BY <1>1, <1>3, LeakFail DEF Mapped
<1>4. CASE ~(Fail(p) /\ UNCHANGED <<handle, mappings>>)
    <2> DEFINE h == [name |-> c.name, inode |-> c.inode, size |-> segSize[c.inode],
                     owning |-> FALSE, acquired |-> FALSE]
    <2>1. mappings' = [mappings EXCEPT ![p] = 1]
          /\ handle' = [handle EXCEPT ![p] = h] /\ Fail(p)
        BY <1>1, <1>2, <1>4 DEF OpenMap, Return
    <2>2. LeakPart("idle", NoCall, h, 1)
        BY <1>1 DEF LeakPart, NoCall, Mapped, NoInode, Inodes
    <2>3. QED
        BY <2>1, <2>2, LeakFrame DEF Fail
<1>5. QED
    BY <1>3, <1>4

(* shm_create for a create call: EEXIST fails, success goes on to mmap.   *)
LEMMA LeakShmCreate ==
    ASSUME IInv, LeakInv, NEW p \in Procs, NEW c \in Call,
           pc[p] \in {"idle", "shm_create"}, ~Holds(p),
           ~c.enforce, c.op = "create", c.size \in ConfigSizes,
           ShmCreate(p, c), UNCHANGED <<handle, mappings>>
    PROVE  LeakInv'
<1>1. CASE shmName[c.name] # NoInode
    BY <1>1, LeakFail DEF ShmCreate, Mapped
<1>2. CASE shmName[c.name] = NoInode
    <2> DEFINE i == CHOOSE i \in Inodes : Free(i)
               y == [c EXCEPT !.created = TRUE, !.inode = i]
    <2>1. pc' = [pc EXCEPT ![p] = "map"] /\ call' = [call EXCEPT ![p] = y]
        BY <1>2 DEF ShmCreate
    <2>2. mappings[p] = 0 /\ handle[p].inode = NoInode
        BY DEF LeakInv, NoLeakedMapping, Mapped, Holds
    <2>3. ~y.enforce /\ y.op = "create" /\ y.size \in ConfigSizes
        BY DEF Call
    <2>4. LeakPart("map", y, handle[p], mappings[p])
        BY <2>2, <2>3 DEF LeakPart, Mapped
    <2>5. handle' = [handle EXCEPT ![p] = handle[p]]
          /\ mappings' = [mappings EXCEPT ![p] = mappings[p]]
        BY DEF IInv, TypeOK
    <2>6. QED
        BY <2>1, <2>4, <2>5, LeakFrame, ZenonT(60)
<1>3. QED
    BY <1>1, <1>2

(* create()'s first system call, for each creation mode.                  *)
LEMMA LeakCreate ==
    ASSUME Settings, IInv, LeakInv, NEW p \in Procs, NEW n \in Names,
           NEW md \in CreationModes, NEW s \in ConfigSizes, NEW o \in BOOLEAN,
           NEW e \in EnforceChoices, NEW l \in BOOLEAN, NEW z \in BOOLEAN,
           Create(p, n, md, s, o, e, l, z)
    PROVE  LeakInv'
<1> DEFINE c == [NoCall EXCEPT !.op = "create", !.name = n, !.mode = md,
                   !.size = s, !.owning = o, !.enforce = e,
                   !.locked = l, !.zero = z]
<1>1. c \in Call
    BY NoCallType DEF Call
<1>2. ~c.enforce /\ c.op = "create" /\ c.size \in ConfigSizes /\ ~c.created
    BY DEF Settings, NoCall
<1>3. pc[p] = "idle" /\ ~Holds(p) /\ UNCHANGED <<handle, mappings>>
    BY DEF Create
<1>4. mappings[p] = 0 /\ handle[p].inode = NoInode
    BY <1>3, IdleFree
<1>5. handle' = [handle EXCEPT ![p] = handle[p]]
      /\ mappings' = [mappings EXCEPT ![p] = mappings[p]]
    BY <1>3 DEF IInv, TypeOK
<1>6. CASE md = "CreateExclusive" /\ ShmCreate(p, c)
    BY <1>1, <1>2, <1>3, <1>6, LeakShmCreate
<1>7. CASE pc' = [pc EXCEPT ![p] = "shm_create"] /\ call' = [call EXCEPT ![p] = c]
    <2>1. LeakPart("shm_create", c, handle[p], mappings[p])
        BY <1>2, <1>4 DEF LeakPart, Mapped
    <2>2. QED
        BY <1>5, <1>7, <2>1, LeakFrame, ZenonT(60)
<1>8. CASE OpenOrCreateFound(p, c)
    <2> DEFINE y == [c EXCEPT !.owning = FALSE, !.inode = shmName[c.name]]
    <2>1. pc' = [pc EXCEPT ![p] = "map"] /\ call' = [call EXCEPT ![p] = y]
        BY <1>8 DEF OpenOrCreateFound
    <2>2. ~y.enforce /\ y.op = "create" /\ y.size \in ConfigSizes /\ ~y.created
        BY <1>1, <1>2 DEF Call
    <2>3. LeakPart("map", y, handle[p], mappings[p])
        BY <1>4, <2>2 DEF LeakPart, Mapped
    <2>4. QED
        BY <1>5, <2>1, <2>3, LeakFrame, ZenonT(60)
<1>9. QED
    BY <1>6, <1>7, <1>8 DEF Create

(* The shm_create of PurgeAndCreate and of OpenOrCreate after ENOENT.     *)
LEMMA LeakShmCreateStep ==
    ASSUME IInv, LeakInv, NEW p \in Procs, ShmCreateStep(p)
    PROVE  LeakInv'
<1>1. pc[p] = "shm_create" /\ ~Holds(p) /\ call[p] \in Call
    BY DEF ShmCreateStep, IInv, ProcInv, Busy, TypeOK
<1>2. ~call[p].enforce /\ call[p].op = "create" /\ call[p].size \in ConfigSizes
    BY <1>1 DEF LeakInv, CallInv
<1>3. QED
    BY <1>1, <1>2, LeakShmCreate DEF ShmCreateStep

(* A call past its mmap that fails drops its SharedMemory value: munmap.   *)
LEMMA LeakDropCall ==
    ASSUME IInv, LeakInv, NEW p \in Procs, pc[p] \in Mapped, NEW o, NEW n,
           DropShm(p, o, n), Fail(p), UNCHANGED handle
    PROVE  LeakInv'
<1>1. ~Holds(p) /\ mappings[p] = 1
    BY DEF IInv, ProcInv, Busy, Mapped, LeakInv, NoLeakedMapping
<1>2. mappings' = [mappings EXCEPT ![p] = 0]
    BY <1>1 DEF DropShm
<1>3. LeakPart("idle", NoCall, handle[p], 0)
    BY <1>1 DEF LeakPart, NoCall, Mapped, Holds
<1>4. handle' = [handle EXCEPT ![p] = handle[p]]
      /\ pc' = [pc EXCEPT ![p] = "idle"] /\ call' = [call EXCEPT ![p] = NoCall]
    BY DEF Fail, IInv, TypeOK
<1>5. QED
    BY <1>2, <1>3, <1>4, LeakFrame, ZenonT(60)

(* A call past its mmap returns the handle that owns the mapped region.   *)
LEMMA LeakReturn ==
    ASSUME IInv, LeakInv, NEW p \in Procs, pc[p] \in Mapped, NEW h,
           h.inode \in Inodes, Return(p, h), UNCHANGED mappings
    PROVE  LeakInv'
<1>1. ~Holds(p) /\ mappings[p] = 1
    BY DEF IInv, ProcInv, Busy, Mapped, LeakInv, NoLeakedMapping
<1>2. LeakPart("idle", NoCall, h, 1)
    BY DEF LeakPart, NoCall, Mapped, NoInode, Inodes
<1>3. mappings' = [mappings EXCEPT ![p] = 1]
      /\ pc' = [pc EXCEPT ![p] = "idle"] /\ call' = [call EXCEPT ![p] = NoCall]
      /\ handle' = [handle EXCEPT ![p] = h]
    BY <1>1 DEF Return, Fail, IInv, TypeOK
<1>4. QED
    BY <1>2, <1>3, LeakFrame, ZenonT(60)

(* A step of a call that keeps its call record and its mapping and moves *)
(* it to a later phase where it has mapped.                               *)
LEMMA LeakAdvance ==
    ASSUME IInv, LeakInv, NEW p \in Procs, NEW x \in Mapped,
           pc[p] \in {"map", "truncate"}, ~Holds(p),
           pc' = [pc EXCEPT ![p] = x], UNCHANGED <<call, handle>>,
           mappings' = [mappings EXCEPT ![p] = 1],
           call[p].created => x \in {"truncate", "lock_and_zero"}
    PROVE  LeakInv'
<1>1. handle[p].inode = NoInode /\ call[p].op = "create" /\ ~call[p].enforce
      /\ call[p].size \in ConfigSizes
    BY DEF Holds, LeakInv, CallInv
<1>2. LeakPart(x, call[p], handle[p], 1)
    BY <1>1 DEF LeakPart, Mapped
<1>3. call' = [call EXCEPT ![p] = call[p]] /\ handle' = [handle EXCEPT ![p] = handle[p]]
    BY DEF IInv, TypeOK
<1>4. QED
    BY <1>2, <1>3, LeakFrame, ZenonT(60)

(* create()'s mmap: a failure maps nothing and, without an enforced base *)
(* address, a success moves on with the region mapped.                   *)
LEMMA LeakMap ==
    ASSUME IInv, LeakInv, NEW p \in Procs, Map(p)
    PROVE  LeakInv'
<1>1. pc[p] = "map" /\ ~Holds(p) /\ ~call[p].enforce /\ mappings[p] = 0
    BY DEF Map, IInv, ProcInv, Busy, LeakInv, CallInv, NoLeakedMapping, Mapped
<1>2. CASE Fail(p) /\ UNCHANGED mappings
    BY <1>1, <1>2, LeakFail DEF Map, Mapped
<1>3. CASE ~(Fail(p) /\ UNCHANGED mappings)
    <2> DEFINE x == IF call[p].created THEN "truncate" ELSE "verify_size"
    <2>1. pc' = [pc EXCEPT ![p] = x] /\ UNCHANGED <<call, handle>>
          /\ mappings' = [mappings EXCEPT ![p] = 1]
        BY <1>1, <1>3 DEF Map
    <2>2. x \in Mapped /\ (call[p].created => x \in {"truncate", "lock_and_zero"})
        BY DEF Mapped
    <2>3. QED
        BY <1>1, <2>1, <2>2, LeakAdvance
<1>4. QED
    BY <1>2, <1>3

(* The size check of an opened segment, ftruncate and the lock-and-zero   *)
(* step: each failure drops the value, each success returns or moves on.  *)
LEMMA LeakVerifyOpenedSize ==
    ASSUME IInv, LeakInv, NEW p \in Procs, VerifyOpenedSize(p)
    PROVE  LeakInv'
<1>1. pc[p] \in Mapped /\ call[p].inode \in Inodes
    BY DEF VerifyOpenedSize, Mapped, IInv, ProcInv, Busy
<1>2. CASE DropShm(p, call[p].owning, call[p].name) /\ Fail(p) /\ UNCHANGED handle
    BY <1>1, <1>2, LeakDropCall
<1>3. CASE ~(DropShm(p, call[p].owning, call[p].name) /\ Fail(p) /\ UNCHANGED handle)
    BY <1>1, <1>3, LeakReturn DEF VerifyOpenedSize
<1>4. QED
    BY <1>2, <1>3

LEMMA LeakTruncate ==
    ASSUME IInv, LeakInv, NEW p \in Procs, Truncate(p)
    PROVE  LeakInv'
<1>1. pc[p] = "truncate" /\ ~Holds(p) /\ mappings[p] = 1 /\ UNCHANGED handle
    BY DEF Truncate, IInv, ProcInv, Busy, LeakInv, NoLeakedMapping, Mapped
<1>2. CASE DropShm(p, call[p].owning, call[p].name) /\ Fail(p)
    BY <1>1, <1>2, LeakDropCall DEF Mapped
<1>3. CASE ~(DropShm(p, call[p].owning, call[p].name) /\ Fail(p))
    <2>1. pc' = [pc EXCEPT ![p] = "lock_and_zero"] /\ UNCHANGED <<call, mappings>>
        BY <1>3 DEF Truncate
    <2>2. mappings' = [mappings EXCEPT ![p] = 1]
        BY <1>1, <2>1 DEF IInv, TypeOK
    <2>3. "lock_and_zero" \in Mapped
        BY DEF Mapped
    <2>4. QED
        BY <1>1, <2>1, <2>2, <2>3, LeakAdvance
<1>4. QED
    BY <1>2, <1>3

LEMMA LeakLockAndZero ==
    ASSUME IInv, LeakInv, NEW p \in Procs, LockAndZero(p)
    PROVE  LeakInv'
<1>1. pc[p] \in Mapped /\ call[p].inode \in Inodes
    BY DEF LockAndZero, Mapped, IInv, ProcInv, Busy
<1>2. CASE DropShm(p, call[p].owning, call[p].name) /\ Fail(p) /\ UNCHANGED handle
    BY <1>1, <1>2, LeakDropCall
<1>3. CASE ~(DropShm(p, call[p].owning, call[p].name) /\ Fail(p) /\ UNCHANGED handle)
    BY <1>1, <1>3, LeakReturn DEF LockAndZero
<1>4. QED
    BY <1>2, <1>3

(* Drop of a handle unmaps its region.                                     *)
LEMMA LeakDrop ==
    ASSUME IInv, LeakInv, NEW p \in Procs, Drop(p)
    PROVE  LeakInv'
<1>1. pc[p] = "idle" /\ Holds(p) /\ mappings[p] = 1
    BY DEF Drop, LeakInv, NoLeakedMapping, Mapped
<1>2. mappings' = [mappings EXCEPT ![p] = 0] /\ handle' = [handle EXCEPT ![p] = NoHandle]
    BY <1>1 DEF Drop, DropShm
<1>3. pc' = [pc EXCEPT ![p] = "idle"] /\ call' = [call EXCEPT ![p] = call[p]]
    BY <1>1 DEF Drop, IInv, TypeOK
<1>4. LeakPart("idle", call[p], NoHandle, 0)
    BY <1>1 DEF LeakPart, LeakInv, CallInv, NoHandle, Mapped
<1>5. QED
    BY <1>2, <1>3, <1>4, LeakFrame, ZenonT(60)

(* acquire_ownership and release_ownership keep the handle's inode.       *)
LEMMA LeakOwnership ==
    ASSUME IInv, LeakInv, NEW p \in Procs, AcquireOwnership(p) \/ ReleaseOwnership(p)
    PROVE  LeakInv'
<1>1. handle[p] \in Handle /\ UNCHANGED <<pc, call, mappings>>
    BY HoldsHandle DEF AcquireOwnership, ReleaseOwnership, IInv
<1>2. \A q \in Procs : handle'[q].inode = handle[q].inode
    BY <1>1 DEF AcquireOwnership, ReleaseOwnership, Handle, IInv, TypeOK
<1>3. QED
    BY <1>1, <1>2 DEF LeakInv, NoLeakedMapping, CallInv, Holds

(* Every step of the system keeps the count, under the settings.          *)
LEMMA LeakStep ==
    ASSUME Settings, IInv, LeakInv, [Next]_vars
    PROVE  LeakInv'
<1>1. CASE UNCHANGED vars
    BY <1>1, LeakKeep DEF vars
<1>2. ASSUME NEW p \in Procs, NEW n \in Names, Remove(p, n)
      PROVE  LeakInv'
    BY <1>2, LeakKeep DEF Remove
<1>3. ASSUME NEW p \in Procs,
             \/ \E n \in Names, e \in EnforceChoices : OpenExisting(p, n, e)
             \/ OpenMap(p)
             \/ \E n \in Names, m \in CreationModes, s \in ConfigSizes,
                   o \in BOOLEAN, e \in EnforceChoices, l \in BOOLEAN, z \in BOOLEAN :
                   Create(p, n, m, s, o, e, l, z)
             \/ ShmCreateStep(p)
             \/ Map(p)
             \/ VerifyOpenedSize(p)
             \/ Truncate(p)
             \/ LockAndZero(p)
             \/ Drop(p)
             \/ AcquireOwnership(p)
             \/ ReleaseOwnership(p)
      PROVE  LeakInv'
    BY <1>3, LeakOpenExisting, LeakOpenMap, LeakCreate, LeakShmCreateStep,
       LeakMap, LeakVerifyOpenedSize, LeakTruncate, LeakLockAndZero,
       LeakDrop, LeakOwnership
<1>4. QED
    BY <1>1, <1>2, <1>3 DEF Next

(* Initially no process is in a call, holds a handle or maps a region.    *)
LEMMA LeakInit ==
    ASSUME Init
    PROVE  LeakInv
BY DEF Init, LeakInv, NoLeakedMapping, CallInv, Holds, NoHandle, NoCall, Mapped, NoInode

(* Every region a process maps is unmapped again: the number of mappings  *)
(* of a process is the number of SharedMemory handles it holds plus one   *)
(* while a builder call has mmap-ed a region it has not yet returned, so  *)
(* each error path of create() and open() munmaps what it mapped, and a  *)
(* failing mmap maps nothing.  This holds for every number of processes, *)
(* names, inodes and sizes when no base address is enforced (the run      *)
(* sm_base_address_leak shows the leak of an enforced base mismatch).     *)
THEOREM NoLeakedMappingSafety ==
    ASSUME Settings
    PROVE  Spec => []NoLeakedMapping
<1>1. Init => IInv /\ LeakInv
    BY InitIInv, LeakInit
<1>2. IInv /\ LeakInv /\ [Next]_vars => (IInv /\ LeakInv)'
    BY StepIInv, LeakStep
<1>3. LeakInv => NoLeakedMapping
    BY DEF LeakInv
<1>4. QED
    BY <1>1, <1>2, <1>3, PTL DEF Spec

-----------------------------------------------------------------------------
(* The roll-back of a create() that fails after its value was built.      *)
RollsBack(p) ==
    /\ pc[p] \in {"truncate", "lock_and_zero"}
    /\ call[p].created /\ call[p].owning
    /\ pc'[p] = "idle" /\ ~Holds(p)'
    => shmName'[call[p].name] # call[p].inode

(* The actions of one process q of Next.                                  *)
ProcStep(q) ==
    \/ \E n \in Names, e \in EnforceChoices : OpenExisting(q, n, e)
    \/ OpenMap(q)
    \/ \E n \in Names, m \in CreationModes, s \in ConfigSizes,
          o \in BOOLEAN, e \in EnforceChoices, l \in BOOLEAN, z \in BOOLEAN :
          Create(q, n, m, s, o, e, l, z)
    \/ ShmCreateStep(q)
    \/ Map(q)
    \/ VerifyOpenedSize(q)
    \/ Truncate(q)
    \/ LockAndZero(q)
    \/ Drop(q)
    \/ AcquireOwnership(q)
    \/ ReleaseOwnership(q)
    \/ \E n \in Names : Remove(q, n)

(* A step of one process leaves the program counter of every other one.   *)
LEMMA PcOthers ==
    ASSUME IInv, NEW q \in Procs, NEW p \in Procs, p # q, ProcStep(q)
    PROVE  pc'[p] = pc[p]
<1> USE DEF IInv, TypeOK
<1>1. CASE \E n \in Names, e \in EnforceChoices : OpenExisting(q, n, e)
    BY <1>1 DEF OpenExisting
<1>2. CASE OpenMap(q)
    BY <1>2 DEF OpenMap, Fail, Return
<1>3. CASE \E n \in Names, m \in CreationModes, s \in ConfigSizes,
             o \in BOOLEAN, e \in EnforceChoices, l \in BOOLEAN, z \in BOOLEAN :
             Create(q, n, m, s, o, e, l, z)
    BY <1>3 DEF Create, ShmCreate, OpenOrCreateFound, Fail
<1>4. CASE ShmCreateStep(q)
    BY <1>4 DEF ShmCreateStep, ShmCreate, Fail
<1>5. CASE Map(q)
    BY <1>5 DEF Map, Fail
<1>6. CASE VerifyOpenedSize(q)
    BY <1>6 DEF VerifyOpenedSize, Fail, Return
<1>7. CASE Truncate(q)
    BY <1>7 DEF Truncate, Fail
<1>8. CASE LockAndZero(q)
    BY <1>8 DEF LockAndZero, Fail, Return
<1>9. CASE Drop(q) \/ AcquireOwnership(q) \/ ReleaseOwnership(q)
      \/ \E n \in Names : Remove(q, n)
    BY <1>9 DEF Drop, AcquireOwnership, ReleaseOwnership, Remove
<1>10. QED
    BY <1>1, <1>2, <1>3, <1>4, <1>5, <1>6, <1>7, <1>8, <1>9 DEF ProcStep

(* A step of a process whose create() call is past its mmap, made the     *)
(* segment and asked for ownership: a failing ftruncate, mlock or zeroing *)
(* drops the value, which unlinks the name, and success returns the       *)
(* handle.                                                                *)
LEMMA RollOwn ==
    ASSUME IInv, NEW p \in Procs, ProcStep(p),
           pc[p] \in {"truncate", "lock_and_zero"},
           call[p].owning, pc'[p] = "idle", ~Holds(p)'
    PROVE  shmName'[call[p].name] # call[p].inode
<1> DEFINE c == call[p]
<1>1. c.name \in Names /\ c.inode \in Inodes /\ c \in Call
    BY DEF IInv, ProcInv, Busy, TypeOK, Call
<1>2. CASE Truncate(p)
    <2>1. CASE DropShm(p, c.owning, c.name) /\ Fail(p)
        BY <1>1, <2>1 DEF DropShm, Unlink, IInv, TypeOK, NoInode, Inodes
    <2>2. CASE ~(DropShm(p, c.owning, c.name) /\ Fail(p))
        BY <1>2, <2>2 DEF Truncate, IInv, TypeOK
    <2>3. QED
        BY <2>1, <2>2
<1>3. CASE LockAndZero(p)
    <2>1. CASE DropShm(p, c.owning, c.name) /\ Fail(p)
        BY <1>1, <2>1 DEF DropShm, Unlink, IInv, TypeOK, NoInode, Inodes
    <2>2. CASE ~(DropShm(p, c.owning, c.name) /\ Fail(p))
        <3>1. Return(p, [name |-> c.name, inode |-> c.inode, size |-> c.size,
                         owning |-> c.owning, acquired |-> FALSE])
            BY <1>3, <2>2 DEF LockAndZero
        <3>2. handle'[p].inode = c.inode
            BY <3>1 DEF Return, IInv, TypeOK
        <3>3. QED
            BY <1>1, <3>2 DEF Holds, NoInode, Inodes
    <2>3. QED
        BY <2>1, <2>2
<1>4. QED
    <2>1. ~\E n \in Names, e \in EnforceChoices : OpenExisting(p, n, e)
        BY DEF OpenExisting
    <2>2. ASSUME NEW n \in Names, NEW m \in CreationModes, NEW s \in ConfigSizes,
                 NEW o \in BOOLEAN, NEW e \in EnforceChoices, NEW l \in BOOLEAN,
                 NEW z \in BOOLEAN, Create(p, n, m, s, o, e, l, z)
          PROVE  FALSE
        <3>1. pc[p] = "idle"
            BY <2>2 DEF Create
        <3>2. QED
            BY <3>1
    <2>3. ~(OpenMap(p) \/ ShmCreateStep(p) \/ Map(p) \/ VerifyOpenedSize(p)
            \/ Drop(p) \/ AcquireOwnership(p) \/ ReleaseOwnership(p)
            \/ \E n \in Names : Remove(p, n))
        BY DEF OpenMap, ShmCreateStep, Map, VerifyOpenedSize, Drop,
               AcquireOwnership, ReleaseOwnership, Remove
    <2>4. QED
        BY <1>2, <1>3, <2>1, <2>2, <2>3 DEF ProcStep

(* Every step rolls back a create() that fails after its value was built. *)
LEMMA RollStep ==
    ASSUME IInv, [Next]_vars
    PROVE  [\A p \in Procs : RollsBack(p)]_vars
<1>1. CASE UNCHANGED vars
    BY <1>1
<1>2. CASE Next
    <2>1. PICK q \in Procs : ProcStep(q)
        BY <1>2 DEF Next, ProcStep
    <2>2. ASSUME NEW p \in Procs PROVE RollsBack(p)
        <3>1. SUFFICES ASSUME pc[p] \in {"truncate", "lock_and_zero"},
                              call[p].created, call[p].owning,
                              pc'[p] = "idle", ~Holds(p)'
                       PROVE  shmName'[call[p].name] # call[p].inode
            BY DEF RollsBack
        <3>2. CASE p = q
            BY <2>1, <3>1, <3>2, RollOwn
        <3>3. CASE p # q
            <4>1. pc'[p] = pc[p]
                BY <2>1, <3>3, PcOthers
            <4>2. QED
                BY <3>1, <4>1
        <3>4. QED
            BY <3>2, <3>3
    <2>3. QED
        BY <2>2
<1>3. QED
    BY <1>1, <1>2

(* When create() fails after its SharedMemory value was built, in a call  *)
(* that created the segment and asked for ownership, the name no longer   *)
(* refers to that segment: a failing ftruncate, mlock or zeroing drops    *)
(* the value, whose Drop unlinks the name, whatever the other processes   *)
(* do meanwhile.  Proved for every number of processes, names, inodes and *)
(* sizes, with or without enforced base addresses.                        *)
THEOREM CreatedValueRollsBackSafety == Spec => CreatedValueRollsBack
<1>1. Init => IInv
    BY InitIInv
<1>2. IInv /\ [Next]_vars => IInv'
    BY StepIInv
<1>3. IInv /\ [Next]_vars => [\A p \in Procs : RollsBack(p)]_vars
    BY RollStep
<1>4. QED
    BY <1>1, <1>2, <1>3, PTL DEF Spec, CreatedValueRollsBack, RollsBack

=============================================================================
