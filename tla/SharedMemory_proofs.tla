------------------------- MODULE SharedMemory_proofs -------------------------
(***************************************************************************)
(* Proofs about the shared memory life cycle of module SharedMemory.       *)
(***************************************************************************)
EXTENDS SharedMemory, TLAPS

(* The facts about one process q that, with TypeOK, make the size of     *)
(* every handle provably equal to the size of its segment.                *)

(* Every region mapped by a call or a handle of q is counted in           *)
(* mappings[q], so the munmap of a drop never takes it below zero.        *)
Counted(q) ==
    mappings[q] >= (IF Holds(q) THEN 1 ELSE 0) + (IF pc[q] \in Mapped THEN 1 ELSE 0)

(* A process inside a builder call holds no handle (create and open need  *)
(* a free handle slot), and past its first system call its call has a     *)
(* descriptor for some inode.                                             *)
Busy(q) ==
    /\ pc[q] # "idle" => ~Holds(q)
    /\ pc[q] \notin {"idle", "shm_create"} => call[q].inode \in Inodes

(* truncate and lock_and_zero are only reached by a call that created     *)
(* the segment, and a call that has mapped has a positive size.           *)
Phases(q) ==
    /\ pc[q] \in {"truncate", "lock_and_zero"} => call[q].created
    /\ pc[q] \in Mapped => call[q].size > 0

(* A call that created its inode is recorded as its creator; before its   *)
(* ftruncate the inode has size 0, after it the configured size.          *)
Creating(q) ==
    call[q].created /\ pc[q] \in {"map", "truncate", "lock_and_zero"} =>
        /\ segCreator[call[q].inode] = q
        /\ pc[q] \in {"map", "truncate"} => segSize[call[q].inode] = 0
        /\ pc[q] = "lock_and_zero" => segSize[call[q].inode] = call[q].size

(* The handle of q has a positive size equal to the size of its inode.    *)
HandleSize(q) ==
    Holds(q) => /\ handle[q].size = segSize[handle[q].inode]
                /\ handle[q].size > 0

ProcInv(q) == Counted(q) /\ Busy(q) /\ Phases(q) /\ Creating(q) /\ HandleSize(q)

(* The inductive invariant.                                               *)
IInv == TypeOK /\ \A q \in Procs : ProcInv(q)
-----------------------------------------------------------------------------
(* The assumptions on the constants, used throughout.                     *)
USE ProcsAssumption, NamesAssumption, ConfigSizesAssumption,
    CreationModesAssumption, EnforceChoicesAssumption, MaxInodesAssumption,
    NoProcAssumption

(* The empty call record is a call record. *)
LEMMA NoCallType == NoCall \in Call
BY DEF NoCall, Call, AnyName, NoInode

(* A record built from a name, an inode, a size and two flags is a handle. *)
LEMMA HandleType ==
    ASSUME NEW n \in Names, NEW i \in Inodes, NEW s \in Nat,
           NEW o \in BOOLEAN, NEW a \in BOOLEAN
    PROVE  [name |-> n, inode |-> i, size |-> s, owning |-> o, acquired |-> a]
               \in Handle
BY DEF Handle

(* A process that holds a handle holds a handle record, not NoHandle. *)
LEMMA HoldsHandle ==
    ASSUME TypeOK, NEW q \in Procs, Holds(q)
    PROVE  handle[q] \in Handle
BY DEF TypeOK, Holds, NoHandle, NoInode, Handle, Inodes

(* A process that holds no handle has NoHandle in its slot. *)
LEMMA NotHolds ==
    ASSUME TypeOK, NEW q \in Procs, ~Holds(q)
    PROVE  handle[q] = NoHandle
BY DEF TypeOK, Holds, NoHandle, NoInode, Handle, Inodes

(* The shm_open of SharedMemoryBuilder::open (ENOENT or a descriptor)
   preserves the invariant. *)
LEMMA OpenExistingIInv ==
    ASSUME IInv, NEW p \in Procs, NEW n \in Names, NEW e \in EnforceChoices,
           OpenExisting(p, n, e)
    PROVE  IInv'
<1> USE DEF IInv, TypeOK
<1>1. TypeOK'
  <2>1. [NoCall EXCEPT !.op = "open", !.name = n, !.enforce = e,
                       !.inode = shmName[n]] \in Call
    BY NoCallType DEF Call
  <2>2. QED BY <2>1 DEF OpenExisting, PCs
<1>2. ASSUME NEW q \in Procs PROVE ProcInv(q)'
  <2>1. CASE q = p
    <3>1. CASE shmName[n] = NoInode
      BY <2>1, <3>1 DEF OpenExisting, ProcInv, Counted, Busy, Phases, Creating,
         HandleSize, Holds
    <3>2. CASE shmName[n] # NoInode
      <4>1. shmName[n] \in Inodes
        BY <3>2 DEF NoInode, Inodes
      <4>0. /\ pc' = [pc EXCEPT ![p] = "open_map"]
            /\ call' = [call EXCEPT ![p] = [NoCall EXCEPT !.op = "open",
                        !.name = n, !.enforce = e, !.inode = shmName[n]]]
            /\ handle' = handle /\ mappings' = mappings
        BY <3>2 DEF OpenExisting
      <4>2. pc'[p] = "open_map" /\ call'[p].inode = shmName[n] /\ ~call'[p].created
            /\ handle' = handle /\ mappings' = mappings
        BY <4>0 DEF NoCall
      <4>3. ~Holds(p)
        BY <4>1, <3>2 DEF OpenExisting
      <4>4. QED BY <2>1, <4>1, <4>2, <4>3 DEF ProcInv, Counted, Busy, Phases, Creating,
         HandleSize, Holds, Mapped
    <3>3. QED BY <3>1, <3>2
  <2>2. CASE q # p
    BY <2>2 DEF OpenExisting, ProcInv, Counted, Busy, Phases, Creating,
       HandleSize, Holds
  <2>3. QED BY <2>1, <2>2
<1>3. QED BY <1>1, <1>2

(* The mmap step of open, with its EINVAL, EMFILE and base-address
   failures, preserves the invariant. *)
LEMMA OpenMapIInv ==
    ASSUME IInv, NEW p \in Procs, OpenMap(p)
    PROVE  IInv'
<1> USE DEF IInv, TypeOK
<1> DEFINE c == call[p]
           h == [name |-> c.name, inode |-> c.inode, size |-> segSize[c.inode],
                 owning |-> FALSE, acquired |-> FALSE]
<1>0. c.inode \in Inodes /\ c \in Call /\ ~Holds(p)
  BY DEF OpenMap, ProcInv, Busy
<1>1. TypeOK'
  <2>1. h \in Handle
    BY <1>0, HandleType DEF Call
  <2>2. mappings' \in [Procs -> Nat]
    BY DEF OpenMap, Fail, Return
  <2>3. handle' \in [Procs -> Handle \cup {NoHandle}]
    BY <2>1 DEF OpenMap, Fail, Return
  <2>4. pc' \in [Procs -> PCs] /\ call' \in [Procs -> Call]
    BY NoCallType DEF OpenMap, Fail, Return, PCs
  <2>5. QED BY <2>2, <2>3, <2>4 DEF OpenMap
<1>2. ASSUME NEW q \in Procs PROVE ProcInv(q)'
  <2>1. CASE q = p
    <3>1. pc'[p] = "idle" /\ call'[p] = NoCall /\ segSize' = segSize
      BY DEF OpenMap, Fail, Return
    <3>2. CASE Fail(p) /\ UNCHANGED <<mappings, handle>>
      <4>1. handle' = handle /\ mappings' = mappings
        BY <3>2
      <4>2. QED BY <2>1, <1>0, <3>1, <4>1 DEF ProcInv, Counted, Busy,
         Phases, Creating, HandleSize, Holds, Mapped, NoCall
    <3>3. CASE ~(Fail(p) /\ UNCHANGED <<mappings, handle>>)
      <4>0. segSize[c.inode] > 0
        BY <3>3 DEF OpenMap
      <4>1. mappings'[p] = mappings[p] + 1
        BY <3>3 DEF OpenMap
      <4>2. handle'[p] = h \/ handle' = handle
        BY <3>3 DEF OpenMap, Fail, Return
      <4>3. QED BY <2>1, <1>0, <3>1, <4>0, <4>1, <4>2 DEF ProcInv, Counted, Busy,
         Phases, Creating, HandleSize, Holds, Mapped, NoCall
    <3>4. QED BY <3>2, <3>3
  <2>2. CASE q # p
    BY <2>2 DEF OpenMap, Fail, Return, ProcInv, Counted, Busy, Phases, Creating,
       HandleSize, Holds
  <2>3. QED BY <2>1, <2>2
<1>3. QED BY <1>1, <1>2

(* The shm_open(O_CREAT|O_EXCL) of create, with its EEXIST failure and the
   fresh inode it binds, preserves the invariant. *)
LEMMA ShmCreateIInv ==
    ASSUME IInv, NEW p \in Procs, NEW c \in Call, ~Holds(p),
           ShmCreate(p, c), UNCHANGED <<mappings, handle>>
    PROVE  IInv'
<1> USE DEF IInv, TypeOK
<1>1. CASE shmName[c.name] # NoInode
  <2>1. /\ pc' = [pc EXCEPT ![p] = "idle"] /\ call' = [call EXCEPT ![p] = NoCall]
        /\ UNCHANGED <<shmName, segSize, segCreator>>
    BY <1>1 DEF ShmCreate, Fail
  <2>2. TypeOK'
    BY <2>1, NoCallType DEF PCs
  <2>3. ASSUME NEW q \in Procs PROVE ProcInv(q)'
    BY <2>1 DEF ProcInv, Counted, Busy, Phases, Creating, HandleSize, Holds, NoCall, Mapped
  <2>4. QED BY <2>2, <2>3
<1>2. CASE shmName[c.name] = NoInode
  <2> DEFINE i == CHOOSE i \in Inodes : Free(i)
  <2>1. i \in Inodes /\ Free(i)
    BY <1>2 DEF ShmCreate
  <2>2. /\ shmName' = [shmName EXCEPT ![c.name] = i]
        /\ segSize' = [segSize EXCEPT ![i] = 0]
        /\ segCreator' = [segCreator EXCEPT ![i] = p]
        /\ pc' = [pc EXCEPT ![p] = "map"]
        /\ call' = [call EXCEPT ![p] = [c EXCEPT !.created = TRUE, !.inode = i]]
    BY <1>2 DEF ShmCreate
  <2>3. [c EXCEPT !.created = TRUE, !.inode = i] \in Call
    BY <2>1 DEF Call
  <2>4. TypeOK'
    BY <2>1, <2>2, <2>3 DEF PCs, Call, Inodes, NoInode
  <2>5. ProcInv(p)'
    BY <2>1, <2>2, <2>3 DEF ProcInv, Counted, Busy, Phases, Creating, HandleSize, Holds, Mapped
  <2>6. ASSUME NEW q \in Procs, q # p PROVE ProcInv(q)'
    <3>1. handle[q].inode # i /\ call[q].inode # i
      BY <2>1 DEF Free
    <3>2. Holds(q) => handle[q].inode \in Inodes
      BY HoldsHandle DEF Handle
    <3>3. QED BY <2>2, <2>6, <3>1, <3>2 DEF ProcInv, Counted, Busy, Phases, Creating, HandleSize, Holds
  <2>7. QED BY <2>4, <2>5, <2>6
<1>3. QED BY <1>1, <1>2

(* The start of SharedMemoryBuilder::create in each creation mode preserves
   the invariant. *)
LEMMA CreateIInv ==
    ASSUME IInv, NEW p \in Procs, NEW n \in Names, NEW m \in CreationModes,
           NEW sz \in ConfigSizes, NEW o \in BOOLEAN, NEW e \in EnforceChoices,
           NEW l \in BOOLEAN, NEW z \in BOOLEAN,
           Create(p, n, m, sz, o, e, l, z)
    PROVE  IInv'
<1> USE DEF IInv, TypeOK
<1> DEFINE c == [NoCall EXCEPT !.op = "create", !.name = n, !.mode = m,
                   !.size = sz, !.owning = o, !.enforce = e,
                   !.locked = l, !.zero = z]
<1>0. c \in Call /\ ~c.created /\ pc[p] = "idle" /\ ~Holds(p)
  BY NoCallType DEF Call, NoCall, Create
<1>1. CASE m = "CreateExclusive"
  BY <1>0, <1>1, ShmCreateIInv DEF Create
<1>2. CASE m = "PurgeAndCreate"
  <2>1. /\ pc' = [pc EXCEPT ![p] = "shm_create"] /\ call' = [call EXCEPT ![p] = c]
        /\ shmName' = [shmName EXCEPT ![n] = NoInode]
        /\ UNCHANGED <<segSize, segCreator, mappings, handle>>
    BY <1>2 DEF Create, Unlink
  <2>2. TypeOK'
    BY <1>0, <2>1 DEF PCs, Inodes, NoInode
  <2>3. ASSUME NEW q \in Procs PROVE ProcInv(q)'
    BY <1>0, <2>1 DEF ProcInv, Counted, Busy, Phases, Creating, HandleSize, Holds, Mapped
  <2>4. QED BY <2>2, <2>3
<1>3. CASE m = "OpenOrCreate" /\ shmName[n] # NoInode
  <2>1. /\ pc' = [pc EXCEPT ![p] = "map"]
        /\ call' = [call EXCEPT ![p] = [c EXCEPT !.owning = FALSE, !.inode = shmName[n]]]
        /\ UNCHANGED <<shmName, segSize, segCreator, mappings, handle>>
    BY <1>3 DEF Create, OpenOrCreateFound
  <2>2. shmName[n] \in Inodes
    BY <1>3 DEF Inodes, NoInode
  <2>3. [c EXCEPT !.owning = FALSE, !.inode = shmName[n]] \in Call
    BY <1>0, <2>2 DEF Call
  <2>4. TypeOK'
    BY <2>1, <2>3 DEF PCs
  <2>5. ASSUME NEW q \in Procs PROVE ProcInv(q)'
    BY <1>0, <2>1, <2>2 DEF ProcInv, Counted, Busy, Phases, Creating, HandleSize, Holds, Mapped
  <2>6. QED BY <2>4, <2>5
<1>4. CASE m = "OpenOrCreate" /\ shmName[n] = NoInode
  <2>1. /\ pc' = [pc EXCEPT ![p] = "shm_create"] /\ call' = [call EXCEPT ![p] = c]
        /\ UNCHANGED <<shmName, segSize, segCreator, mappings, handle>>
    BY <1>4 DEF Create, OpenOrCreateFound
  <2>2. TypeOK'
    BY <1>0, <2>1 DEF PCs
  <2>3. ASSUME NEW q \in Procs PROVE ProcInv(q)'
    BY <1>0, <2>1 DEF ProcInv, Counted, Busy, Phases, Creating, HandleSize, Holds, Mapped
  <2>4. QED BY <2>2, <2>3
<1>5. QED BY <1>1, <1>2, <1>3, <1>4 DEF Create

(* The shm_open(O_CREAT|O_EXCL) that PurgeAndCreate and OpenOrCreate reach
   after their first step preserves the invariant. *)
LEMMA ShmCreateStepIInv ==
    ASSUME IInv, NEW p \in Procs, ShmCreateStep(p)
    PROVE  IInv'
<1>1. call[p] \in Call /\ ~Holds(p)
  BY DEF IInv, TypeOK, ShmCreateStep, ProcInv, Busy
<1>2. QED BY <1>1, ShmCreateIInv DEF ShmCreateStep

(* The mmap step of create (size zero, mapping limit, base address)
   preserves the invariant. *)
LEMMA MapIInv ==
    ASSUME IInv, NEW p \in Procs, Map(p)
    PROVE  IInv'
<1> USE DEF IInv, TypeOK
<1> DEFINE c == call[p]
<1>0. /\ c \in Call /\ c.inode \in Inodes /\ ~Holds(p) /\ pc[p] = "map"
      /\ c.created => segCreator[c.inode] = p /\ segSize[c.inode] = 0
  BY DEF Map, ProcInv, Busy, Creating
<1>1. UNCHANGED <<shmName, segSize, segCreator, handle>>
  BY DEF Map
<1>2. CASE Fail(p) /\ UNCHANGED mappings
  <2>1. pc' = [pc EXCEPT ![p] = "idle"] /\ call' = [call EXCEPT ![p] = NoCall]
        /\ mappings' = mappings
    BY <1>2 DEF Fail
  <2>2. TypeOK'
    BY <1>1, <2>1, NoCallType DEF PCs
  <2>3. ASSUME NEW q \in Procs PROVE ProcInv(q)'
    BY <1>0, <1>1, <2>1 DEF ProcInv, Counted, Busy, Phases, Creating, HandleSize, Holds, Mapped, NoCall
  <2>4. QED BY <2>2, <2>3
<1>3. CASE ~(Fail(p) /\ UNCHANGED mappings)
  <2>0. c.size > 0
    BY <1>3 DEF Map
  <2>1. mappings' = [mappings EXCEPT ![p] = @ + 1]
    BY <1>3 DEF Map
  <2>2. \/ pc' = [pc EXCEPT ![p] = "idle"] /\ call' = [call EXCEPT ![p] = NoCall]
        \/ /\ pc' = [pc EXCEPT ![p] = IF c.created THEN "truncate" ELSE "verify_size"]
           /\ call' = call
    BY <1>3 DEF Map, Fail
  <2>3. TypeOK'
    BY <1>1, <2>1, <2>2, NoCallType DEF PCs
  <2>4. ASSUME NEW q \in Procs PROVE ProcInv(q)'
    BY <1>0, <1>1, <2>0, <2>1, <2>2 DEF ProcInv, Counted, Busy, Phases, Creating, HandleSize, Holds, Mapped, NoCall
  <2>5. QED BY <2>3, <2>4
<1>4. QED BY <1>2, <1>3

(* The drop of the SharedMemory value of a call at a mapped pc, followed  *)
(* by the error return, preserves the invariant.                          *)
LEMMA DropShmFailIInv ==
    ASSUME IInv, NEW p \in Procs, pc[p] \in Mapped,
           DropShm(p, call[p].owning, call[p].name), Fail(p),
           UNCHANGED <<segSize, segCreator, handle>>
    PROVE  IInv'
<1> USE DEF IInv, TypeOK
<1>0. ~Holds(p) /\ mappings[p] >= 1 /\ call[p] \in Call
  BY DEF ProcInv, Busy, Counted, Mapped, Holds
<1>1. mappings' = [mappings EXCEPT ![p] = @ - 1]
      /\ pc' = [pc EXCEPT ![p] = "idle"] /\ call' = [call EXCEPT ![p] = NoCall]
  BY DEF DropShm, Fail
<1>2. shmName' \in [Names -> Inodes \cup {NoInode}]
  BY <1>0 DEF DropShm, Unlink, Call
<1>3. TypeOK'
  BY <1>0, <1>1, <1>2, NoCallType DEF PCs
<1>4. ASSUME NEW q \in Procs PROVE ProcInv(q)'
  BY <1>0, <1>1 DEF ProcInv, Counted, Busy, Phases, Creating, HandleSize, Holds, Mapped, NoCall
<1>5. QED BY <1>3, <1>4

(* Returning the handle h from a call at a mapped pc.                     *)
LEMMA ReturnIInv ==
    ASSUME IInv, NEW p \in Procs, pc[p] \in Mapped, NEW h \in Handle,
           h.size = segSize[h.inode], h.size > 0,
           Return(p, h), UNCHANGED <<shmName, segSize, segCreator, mappings>>
    PROVE  IInv'
<1> USE DEF IInv, TypeOK
<1>0. ~Holds(p) /\ mappings[p] >= 1
  BY DEF ProcInv, Busy, Counted, Mapped, Holds
<1>1. handle' = [handle EXCEPT ![p] = h]
      /\ pc' = [pc EXCEPT ![p] = "idle"] /\ call' = [call EXCEPT ![p] = NoCall]
  BY DEF Return, Fail
<1>2. TypeOK'
  BY <1>1, NoCallType DEF PCs
<1>3. ASSUME NEW q \in Procs PROVE ProcInv(q)'
  BY <1>0, <1>1 DEF ProcInv, Counted, Busy, Phases, Creating, HandleSize, Holds, Mapped, NoCall
<1>4. QED BY <1>2, <1>3

(* The fstat size check of an OpenOrCreate that found the segment
   preserves the invariant. *)
LEMMA VerifyOpenedSizeIInv ==
    ASSUME IInv, NEW p \in Procs, VerifyOpenedSize(p)
    PROVE  IInv'
<1> DEFINE c == call[p]
           h == [name |-> c.name, inode |-> c.inode, size |-> c.size,
                 owning |-> c.owning, acquired |-> FALSE]
<1>0. pc[p] \in Mapped /\ c \in Call /\ c.inode \in Inodes /\ c.size > 0
  BY DEF VerifyOpenedSize, Mapped, IInv, TypeOK, ProcInv, Busy, Phases
<1>1. CASE segSize[c.inode] # c.size
  BY <1>0, <1>1, DropShmFailIInv DEF VerifyOpenedSize
<1>2. CASE segSize[c.inode] = c.size
  <2>1. h \in Handle
    BY <1>0, HandleType DEF Call
  <2>2. QED BY <1>0, <1>2, <2>1, ReturnIInv DEF VerifyOpenedSize
<1>3. QED BY <1>1, <1>2

(* ftruncate of the created segment preserves the invariant: no other
   process holds a handle on, or is creating, the inode being resized. *)
LEMMA TruncateIInv ==
    ASSUME IInv, NEW p \in Procs, Truncate(p)
    PROVE  IInv'
<1> DEFINE c == call[p]
<1>0. /\ pc[p] \in Mapped /\ c \in Call /\ c.inode \in Inodes /\ c.created
      /\ ~Holds(p) /\ segCreator[c.inode] = p /\ segSize[c.inode] = 0
  BY DEF Truncate, Mapped, IInv, TypeOK, ProcInv, Busy, Phases, Creating
<1>1. CASE DropShm(p, c.owning, c.name) /\ Fail(p) /\ UNCHANGED segSize
  BY <1>0, <1>1, DropShmFailIInv DEF Truncate
<1>2. CASE /\ segSize' = [segSize EXCEPT ![c.inode] = c.size]
           /\ pc' = [pc EXCEPT ![p] = "lock_and_zero"]
           /\ UNCHANGED <<shmName, mappings, call>>
  <2> USE DEF IInv, TypeOK
  <2>0. UNCHANGED <<segCreator, handle>>
    BY DEF Truncate
  <2>1. TypeOK'
    BY <1>0, <1>2, <2>0 DEF PCs, Call
  <2>2. ProcInv(p)'
    BY <1>0, <1>2, <2>0 DEF ProcInv, Counted, Busy, Phases, Creating, HandleSize, Holds, Mapped
  <2>3. ASSUME NEW q \in Procs, q # p PROVE ProcInv(q)'
    <3>1. Holds(q) => handle[q].inode # c.inode
      BY <1>0, HoldsHandle DEF ProcInv, HandleSize, Handle
    <3>2. call[q].created /\ pc[q] \in {"map", "truncate", "lock_and_zero"}
            => call[q].inode # c.inode
      BY <1>0, <2>3 DEF ProcInv, Creating
    <3>3. Holds(q) => handle[q].inode \in Inodes
      BY HoldsHandle DEF Handle
    <3>4. QED BY <1>2, <2>0, <2>3, <3>1, <3>2, <3>3 DEF ProcInv, Counted, Busy,
          Phases, Creating, HandleSize, Holds
  <2>4. QED BY <2>1, <2>2, <2>3
<1>3. QED BY <1>1, <1>2 DEF Truncate

(* mlock and the zeroing of the memory, and the return of the handle,
   preserve the invariant. *)
LEMMA LockAndZeroIInv ==
    ASSUME IInv, NEW p \in Procs, LockAndZero(p)
    PROVE  IInv'
<1> DEFINE c == call[p]
           h == [name |-> c.name, inode |-> c.inode, size |-> c.size,
                 owning |-> c.owning, acquired |-> FALSE]
<1>0. /\ pc[p] \in Mapped /\ c \in Call /\ c.inode \in Inodes /\ c.size > 0
      /\ segSize[c.inode] = c.size
  BY DEF LockAndZero, Mapped, IInv, TypeOK, ProcInv, Busy, Phases, Creating
<1>1. CASE DropShm(p, c.owning, c.name) /\ Fail(p) /\ UNCHANGED handle
  BY <1>0, <1>1, DropShmFailIInv DEF LockAndZero
<1>2. CASE Return(p, h) /\ UNCHANGED <<shmName, mappings>>
  <2>1. h \in Handle
    BY <1>0, HandleType DEF Call
  <2>2. QED BY <1>0, <1>2, <2>1, ReturnIInv DEF LockAndZero
<1>3. QED BY <1>1, <1>2 DEF LockAndZero

(* Drop for SharedMemory (munmap, and shm_unlink when owning) preserves
   the invariant. *)
LEMMA DropIInv ==
    ASSUME IInv, NEW p \in Procs, Drop(p)
    PROVE  IInv'
<1> USE DEF IInv, TypeOK
<1>0. Holds(p) /\ handle[p] \in Handle /\ pc[p] = "idle" /\ mappings[p] >= 1
  BY HoldsHandle DEF Drop, ProcInv, Counted, Mapped
<1>1. mappings' = [mappings EXCEPT ![p] = @ - 1]
      /\ handle' = [handle EXCEPT ![p] = NoHandle]
      /\ UNCHANGED <<segSize, segCreator, pc, call>>
  BY DEF Drop, DropShm
<1>2. shmName' \in [Names -> Inodes \cup {NoInode}]
  BY <1>0 DEF Drop, DropShm, Unlink, Handle
<1>3. TypeOK'
  BY <1>0, <1>1, <1>2
<1>4. ASSUME NEW q \in Procs PROVE ProcInv(q)'
  BY <1>0, <1>1 DEF ProcInv, Counted, Busy, Phases, Creating, HandleSize, Holds, Mapped, NoHandle, NoInode
<1>5. QED BY <1>3, <1>4

(* acquire_ownership and release_ownership preserve the invariant. *)
LEMMA OwnershipIInv ==
    ASSUME IInv, NEW p \in Procs, AcquireOwnership(p) \/ ReleaseOwnership(p)
    PROVE  IInv'
<1> USE DEF IInv, TypeOK
<1>0. handle[p] \in Handle /\ pc[p] = "idle"
  BY HoldsHandle DEF AcquireOwnership, ReleaseOwnership
<1>1. \/ handle' = [handle EXCEPT ![p] = [handle[p] EXCEPT !.owning = TRUE, !.acquired = TRUE]]
      \/ handle' = [handle EXCEPT ![p] = [handle[p] EXCEPT !.owning = FALSE]]
  BY DEF AcquireOwnership, ReleaseOwnership
<1>2. UNCHANGED <<shmName, segSize, segCreator, mappings, pc, call>>
  BY DEF AcquireOwnership, ReleaseOwnership
<1>3. /\ [handle[p] EXCEPT !.owning = TRUE, !.acquired = TRUE] \in Handle
      /\ [handle[p] EXCEPT !.owning = FALSE] \in Handle
  BY <1>0 DEF Handle
<1>4. TypeOK'
  BY <1>1, <1>2, <1>3
<1>5. \A q \in Procs : /\ handle'[q].inode = handle[q].inode
                      /\ handle'[q].size = handle[q].size
  <2>1. handle[p] \in [name : Names, inode : Inodes, size : Nat, owning : BOOLEAN, acquired : BOOLEAN]
    BY <1>0 DEF Handle
  <2>2. ASSUME NEW q \in Procs
        PROVE  /\ handle'[q].inode = handle[q].inode
               /\ handle'[q].size = handle[q].size
    <3>1. CASE q = p
      <4> DEFINE r == handle[p]
      <4>1. CASE handle' = [handle EXCEPT ![p] = [r EXCEPT !.owning = TRUE, !.acquired = TRUE]]
        <5>1. handle'[p] = [r EXCEPT !.owning = TRUE, !.acquired = TRUE]
          BY <4>1
        <5>2. QED BY <5>1, <2>1, <3>1
      <4>2. CASE handle' = [handle EXCEPT ![p] = [r EXCEPT !.owning = FALSE]]
        <5>1. handle'[p] = [r EXCEPT !.owning = FALSE]
          BY <4>2
        <5>2. QED BY <5>1, <2>1, <3>1
      <4>3. QED BY <1>1, <4>1, <4>2
    <3>2. CASE q # p
      BY <1>1, <3>2
    <3>3. QED BY <3>1, <3>2
  <2>3. QED BY <2>2
<1>6. ASSUME NEW q \in Procs PROVE ProcInv(q)'
  BY <1>2, <1>5 DEF ProcInv, Counted, Busy, Phases, Creating, HandleSize, Holds
<1>7. QED BY <1>4, <1>6

(* SharedMemory::remove (shm_unlink by name) preserves the invariant. *)
LEMMA RemoveIInv ==
    ASSUME IInv, NEW p \in Procs, NEW n \in Names, Remove(p, n)
    PROVE  IInv'
<1> USE DEF IInv, TypeOK
<1>1. shmName' = [shmName EXCEPT ![n] = NoInode]
      /\ UNCHANGED <<segSize, segCreator, mappings, handle, pc, call>>
  BY DEF Remove, Unlink
<1>2. TypeOK'
  BY <1>1 DEF Inodes, NoInode
<1>3. ASSUME NEW q \in Procs PROVE ProcInv(q)'
  BY <1>1 DEF ProcInv, Counted, Busy, Phases, Creating, HandleSize, Holds
<1>4. QED BY <1>2, <1>3
-----------------------------------------------------------------------------
(* The initial state, no name bound and no process in a call or holding a *)
(* handle, satisfies the inductive invariant.                             *)
THEOREM InitIInv == Init => IInv
<1> SUFFICES ASSUME Init PROVE IInv
  OBVIOUS
<1>1. TypeOK
  BY NoCallType DEF Init, TypeOK, PCs
<1>2. ASSUME NEW q \in Procs PROVE ProcInv(q)
  BY DEF Init, ProcInv, Counted, Busy, Phases, Creating, HandleSize, Holds,
         NoHandle, NoCall, Mapped
<1>3. QED BY <1>1, <1>2 DEF IInv

(* Every step of any process, and every stutter, preserves the inductive  *)
(* invariant.                                                             *)
THEOREM StepIInv == IInv /\ [Next]_vars => IInv'
<1> SUFFICES ASSUME IInv, [Next]_vars PROVE IInv'
  OBVIOUS
<1>1. CASE UNCHANGED vars
  BY <1>1 DEF vars, IInv, TypeOK, ProcInv, Counted, Busy, Phases, Creating,
         HandleSize, Holds
<1>2. ASSUME NEW p \in Procs,
             \/ \E n \in Names, e \in EnforceChoices : OpenExisting(p, n, e)
             \/ OpenMap(p)
             \/ \E n \in Names, m \in CreationModes, s \in ConfigSizes,
                   o \in BOOLEAN, e \in EnforceChoices, l \in BOOLEAN, z \in BOOLEAN :
                   Create(p, n, m, s, o, e, l, z)
             \/ ShmCreateStep(p)
             \/ Map(p)
             \/ VerifyOpenedSize(p)
             \/ Truncate(p)
             \/ LockAndZero(p)
             \/ Drop(p)
             \/ AcquireOwnership(p)
             \/ ReleaseOwnership(p)
             \/ \E n \in Names : Remove(p, n)
      PROVE  IInv'
  BY <1>2, OpenExistingIInv, OpenMapIInv, CreateIInv, ShmCreateStepIInv, MapIInv,
     VerifyOpenedSizeIInv, TruncateIInv, LockAndZeroIInv, DropIInv,
     OwnershipIInv, RemoveIInv
<1>3. QED BY <1>1, <1>2 DEF Next

(* Every state the specification reaches satisfies the inductive          *)
(* invariant.                                                             *)
THEOREM AlwaysIInv == Spec => []IInv
BY InitIInv, StepIInv, PTL DEF Spec

(* Type correctness: every variable of the shared memory life cycle keeps *)
(* to its type, for every number of processes, names, inodes and sizes.   *)
THEOREM TypeCorrect == Spec => []TypeOK
<1>1. IInv => TypeOK
  BY DEF IInv
<1>2. QED BY <1>1, AlwaysIInv, PTL

(* The size every SharedMemory handle reports is the size of the segment  *)
(* its descriptor refers to, however create, open, OpenOrCreate, purge,   *)
(* remove and drop of several processes interleave.                       *)
THEOREM HandleSizeSafety == Spec => []HandleSizeMatchesSegment
<1>1. IInv => HandleSizeMatchesSegment
  BY DEF IInv, ProcInv, HandleSize, HandleSizeMatchesSegment
<1>2. QED BY <1>1, AlwaysIInv, PTL

-----------------------------------------------------------------------------
(* Ownership *)

(* A call past its shm_open owns only what it created: opened segments   *)
(* have has_ownership forced to false (OpenOrCreate) or never set (open). *)
OwnerInv(q) ==
    /\ pc[q] \in {"map", "truncate", "lock_and_zero"} /\ call[q].owning
           => call[q].created
    /\ pc[q] = "verify_size" => ~call[q].owning
    /\ Holds(q) /\ handle[q].owning /\ ~handle[q].acquired
           => segCreator[handle[q].inode] = q

OwnerAll == \A q \in Procs : OwnerInv(q)

(* A step of p that keeps every creator and sets p's phase to x, its call *)
(* to y and its handle to h keeps OwnerAll when y and h keep p's part.    *)
LEMMA OwnerFrame ==
    ASSUME IInv, OwnerAll, NEW p \in Procs, NEW x, NEW y, NEW h,
           segCreator' = segCreator,
           pc' = [pc EXCEPT ![p] = x], call' = [call EXCEPT ![p] = y],
           handle' = [handle EXCEPT ![p] = h],
           x \in {"map", "truncate", "lock_and_zero"} /\ y.owning => y.created,
           x = "verify_size" => ~y.owning,
           h.inode # NoInode /\ h.owning /\ ~h.acquired => segCreator[h.inode] = p
    PROVE  OwnerAll'
<1> SUFFICES ASSUME NEW q \in Procs PROVE OwnerInv(q)'
    BY DEF OwnerAll
<1>1. CASE q = p
    <2>1. pc'[q] = x /\ call'[q] = y /\ handle'[q] = h
        BY <1>1 DEF IInv, TypeOK
    <2>2. QED
        BY <1>1, <2>1 DEF OwnerInv, Holds
<1>2. CASE q # p
    <2>1. pc'[q] = pc[q] /\ call'[q] = call[q] /\ handle'[q] = handle[q]
        BY <1>2 DEF IInv, TypeOK
    <2>2. OwnerInv(q)
        BY DEF OwnerAll
    <2>3. QED
        BY <2>1, <2>2 DEF OwnerInv, Holds
<1>3. QED
    BY <1>1, <1>2

(* The same step with p's handle left alone.                              *)
LEMMA OwnerKeepHandle ==
    ASSUME IInv, OwnerAll, NEW p \in Procs, NEW x, NEW y,
           segCreator' = segCreator, handle' = handle,
           pc' = [pc EXCEPT ![p] = x], call' = [call EXCEPT ![p] = y],
           x \in {"map", "truncate", "lock_and_zero"} /\ y.owning => y.created,
           x = "verify_size" => ~y.owning
    PROVE  OwnerAll'
<1>1. handle' = [handle EXCEPT ![p] = handle[p]]
    BY DEF IInv, TypeOK
<1>2. handle[p].inode # NoInode /\ handle[p].owning /\ ~handle[p].acquired
          => segCreator[handle[p].inode] = p
    BY DEF OwnerAll, OwnerInv, Holds
<1>3. QED
    BY <1>1, <1>2, OwnerFrame

(* A failing builder call: p returns to idle with no call and no handle.  *)
LEMMA OwnerFail ==
    ASSUME IInv, OwnerAll, NEW p \in Procs, Fail(p),
           segCreator' = segCreator, handle' = handle
    PROVE  OwnerAll'
BY OwnerKeepHandle DEF Fail

(* shm_create binds a free inode, which no handle refers to, to p.       *)
LEMMA OwnerShmCreate ==
    ASSUME IInv, OwnerAll, NEW p \in Procs, NEW c \in Call,
           ShmCreate(p, c), handle' = handle
    PROVE  OwnerAll'
<1>1. CASE shmName[c.name] # NoInode
    BY <1>1, OwnerFail DEF ShmCreate
<1>2. CASE shmName[c.name] = NoInode
    <2> DEFINE i == CHOOSE i \in Inodes : Free(i)
    <2>1. i \in Inodes /\ Free(i)
        BY <1>2 DEF ShmCreate
    <2>2. segCreator' = [segCreator EXCEPT ![i] = p]
          /\ pc' = [pc EXCEPT ![p] = "map"]
          /\ call' = [call EXCEPT ![p] = [c EXCEPT !.created = TRUE, !.inode = i]]
        BY <1>2 DEF ShmCreate
    <2>3. \A q \in Procs : segCreator'[handle[q].inode] = segCreator[handle[q].inode]
        <3>1. \A q \in Procs : handle[q].inode # i
            BY <2>1 DEF Free
        <3>2. QED
            BY <2>2, <3>1 DEF IInv, TypeOK
    <2>4. SUFFICES ASSUME NEW q \in Procs PROVE OwnerInv(q)'
        BY DEF OwnerAll
    <2>5. CASE q = p
        <3>1. pc'[q] = "map" /\ call'[q].created
            BY <2>2, <2>5 DEF IInv, TypeOK
        <3>2. Holds(q) /\ handle[q].owning /\ ~handle[q].acquired
                  => segCreator[handle[q].inode] = q
            BY DEF OwnerAll, OwnerInv
        <3>3. QED
            BY <2>3, <3>1, <3>2 DEF OwnerInv, Holds
    <2>6. CASE q # p
        <3>1. pc'[q] = pc[q] /\ call'[q] = call[q]
            BY <2>2, <2>6 DEF IInv, TypeOK
        <3>2. OwnerInv(q)
            BY DEF OwnerAll
        <3>3. QED
            BY <2>3, <3>1, <3>2 DEF OwnerInv, Holds
    <2>7. QED
        BY <2>5, <2>6
<1>3. QED
    BY <1>1, <1>2

(* open's shm_open keeps p idle or moves it to open_map.                  *)
LEMMA OwnerOpenExisting ==
    ASSUME IInv, OwnerAll, NEW p \in Procs, NEW n \in Names, NEW e \in EnforceChoices,
           OpenExisting(p, n, e)
    PROVE  OwnerAll'
<1>1. CASE shmName[n] = NoInode
    <2>1. pc' = [pc EXCEPT ![p] = "idle"] /\ call' = [call EXCEPT ![p] = call[p]]
        BY <1>1 DEF OpenExisting, IInv, TypeOK
    <2>2. QED
        BY <2>1, OwnerKeepHandle DEF OpenExisting
<1>2. CASE shmName[n] # NoInode
    BY <1>2, OwnerKeepHandle DEF OpenExisting
<1>3. QED
    BY <1>1, <1>2

(* open's mmap returns a handle that does not own the segment.            *)
LEMMA OwnerOpenMap ==
    ASSUME IInv, OwnerAll, NEW p \in Procs, OpenMap(p)
    PROVE  OwnerAll'
<1>1. CASE Fail(p) /\ handle' = handle
    BY <1>1, OwnerFail DEF OpenMap
<1>2. CASE ~(Fail(p) /\ handle' = handle)
    <2> DEFINE h == [name |-> call[p].name, inode |-> call[p].inode,
                     size |-> segSize[call[p].inode], owning |-> FALSE,
                     acquired |-> FALSE]
    <2>1. handle' = [handle EXCEPT ![p] = h] /\ Fail(p)
        BY <1>2 DEF OpenMap, Return
    <2>2. QED
        BY <2>1, OwnerFrame DEF Fail, OpenMap
<1>3. QED
    BY <1>1, <1>2

(* create(): CreateExclusive creates, PurgeAndCreate and OpenOrCreate     *)
(* after ENOENT move to shm_create, and OpenOrCreate that finds the       *)
(* segment drops the requested ownership.                                 *)
LEMMA OwnerCreate ==
    ASSUME IInv, OwnerAll, NEW p \in Procs, NEW n \in Names,
           NEW m \in CreationModes, NEW s \in ConfigSizes, NEW o \in BOOLEAN,
           NEW e \in EnforceChoices, NEW l \in BOOLEAN, NEW z \in BOOLEAN,
           Create(p, n, m, s, o, e, l, z)
    PROVE  OwnerAll'
<1> DEFINE c == [NoCall EXCEPT !.op = "create", !.name = n, !.mode = m,
                   !.size = s, !.owning = o, !.enforce = e,
                   !.locked = l, !.zero = z]
<1>1. c \in Call
    BY NoCallType DEF Call
<1>2. handle' = handle
    BY DEF Create
<1>3. CASE m = "CreateExclusive" /\ ShmCreate(p, c)
    BY <1>1, <1>2, <1>3, OwnerShmCreate
<1>4. CASE /\ pc' = [pc EXCEPT ![p] = "shm_create"]
           /\ call' = [call EXCEPT ![p] = c]
           /\ segCreator' = segCreator
    BY <1>2, <1>4, OwnerKeepHandle
<1>5. CASE OpenOrCreateFound(p, c) /\ segCreator' = segCreator
    <2>1. call' = [call EXCEPT ![p] = [c EXCEPT !.owning = FALSE,
                                              !.inode = shmName[c.name]]]
          /\ pc' = [pc EXCEPT ![p] = "map"]
        BY <1>5 DEF OpenOrCreateFound
    <2>2. [c EXCEPT !.owning = FALSE, !.inode = shmName[c.name]].owning = FALSE
        BY <1>1 DEF Call
    <2>3. QED
        BY <1>2, <1>5, <2>1, <2>2, OwnerKeepHandle
<1>6. QED
    BY <1>3, <1>4, <1>5 DEF Create

(* The shm_create of PurgeAndCreate and of OpenOrCreate after ENOENT.     *)
LEMMA OwnerShmCreateStep ==
    ASSUME IInv, OwnerAll, NEW p \in Procs, ShmCreateStep(p)
    PROVE  OwnerAll'
<1>1. call[p] \in Call
    BY DEF IInv, TypeOK
<1>2. QED
    BY <1>1, OwnerShmCreate DEF ShmCreateStep

(* mmap goes on to ftruncate for a created segment and to the size check  *)
(* for an opened one, which then does not own it.                         *)
LEMMA OwnerMap ==
    ASSUME IInv, OwnerAll, NEW p \in Procs, Map(p)
    PROVE  OwnerAll'
<1>1. segCreator' = segCreator /\ handle' = handle
    BY DEF Map
<1>2. CASE Fail(p)
    BY <1>1, <1>2, OwnerFail
<1>3. CASE ~Fail(p)
    <2> DEFINE x == IF call[p].created THEN "truncate" ELSE "verify_size"
    <2>1. pc' = [pc EXCEPT ![p] = x] /\ call' = [call EXCEPT ![p] = call[p]]
        BY <1>3 DEF Map, IInv, TypeOK
    <2>2. pc[p] = "map"
        BY DEF Map
    <2>3. call[p].owning => call[p].created
        BY <2>2 DEF OwnerAll, OwnerInv
    <2>4. QED
        BY <1>1, <2>1, <2>3, OwnerKeepHandle
<1>4. QED
    BY <1>2, <1>3

(* The size check of an opened segment returns a handle that does not own *)
(* it.                                                                    *)
LEMMA OwnerVerifyOpenedSize ==
    ASSUME IInv, OwnerAll, NEW p \in Procs, VerifyOpenedSize(p)
    PROVE  OwnerAll'
<1>1. segCreator' = segCreator
    BY DEF VerifyOpenedSize
<1>2. ~call[p].owning
    BY DEF VerifyOpenedSize, OwnerAll, OwnerInv
<1>3. CASE Fail(p) /\ handle' = handle
    BY <1>1, <1>3, OwnerFail
<1>4. CASE ~(Fail(p) /\ handle' = handle)
    <2> DEFINE c == call[p]
               h == [name |-> c.name, inode |-> c.inode, size |-> c.size,
                     owning |-> c.owning, acquired |-> FALSE]
    <2>1. handle' = [handle EXCEPT ![p] = h] /\ Fail(p)
        BY <1>4 DEF VerifyOpenedSize, Return
    <2>2. QED
        BY <1>1, <1>2, <2>1, OwnerFrame DEF Fail
<1>5. QED
    BY <1>3, <1>4

(* ftruncate fails back to idle or goes on to lock_and_zero.              *)
LEMMA OwnerTruncate ==
    ASSUME IInv, OwnerAll, NEW p \in Procs, Truncate(p)
    PROVE  OwnerAll'
<1>1. segCreator' = segCreator /\ handle' = handle
    BY DEF Truncate
<1>2. CASE Fail(p)
    BY <1>1, <1>2, OwnerFail
<1>3. CASE ~Fail(p)
    <2>1. pc' = [pc EXCEPT ![p] = "lock_and_zero"]
          /\ call' = [call EXCEPT ![p] = call[p]]
        BY <1>3 DEF Truncate, IInv, TypeOK
    <2>2. call[p].owning => call[p].created
        BY DEF Truncate, OwnerAll, OwnerInv
    <2>3. QED
        BY <1>1, <2>1, <2>2, OwnerKeepHandle
<1>4. QED
    BY <1>2, <1>3

(* The last step of create() returns a handle that owns the segment only *)
(* when the call created it, so p is its creator.                         *)
LEMMA OwnerLockAndZero ==
    ASSUME IInv, OwnerAll, NEW p \in Procs, LockAndZero(p)
    PROVE  OwnerAll'
<1>1. segCreator' = segCreator
    BY DEF LockAndZero
<1>2. call[p].owning => segCreator[call[p].inode] = p
    <2>1. pc[p] = "lock_and_zero"
        BY DEF LockAndZero
    <2>2. call[p].owning => call[p].created
        BY <2>1 DEF OwnerAll, OwnerInv
    <2>3. call[p].created => segCreator[call[p].inode] = p
        BY <2>1 DEF IInv, ProcInv, Creating
    <2>4. QED
        BY <2>2, <2>3
<1>3. CASE Fail(p) /\ handle' = handle
    BY <1>1, <1>3, OwnerFail
<1>4. CASE ~(Fail(p) /\ handle' = handle)
    <2> DEFINE c == call[p]
               h == [name |-> c.name, inode |-> c.inode, size |-> c.size,
                     owning |-> c.owning, acquired |-> FALSE]
    <2>1. handle' = [handle EXCEPT ![p] = h] /\ Fail(p)
        BY <1>4 DEF LockAndZero, Return
    <2>2. QED
        BY <1>1, <1>2, <2>1, OwnerFrame DEF Fail
<1>5. QED
    BY <1>3, <1>4

(* Drop leaves p with no handle.                                          *)
LEMMA OwnerDrop ==
    ASSUME IInv, OwnerAll, NEW p \in Procs, Drop(p)
    PROVE  OwnerAll'
<1>1. pc' = [pc EXCEPT ![p] = "idle"] /\ call' = [call EXCEPT ![p] = call[p]]
      /\ handle' = [handle EXCEPT ![p] = NoHandle] /\ segCreator' = segCreator
    BY DEF Drop, IInv, TypeOK
<1>2. QED
    BY <1>1, OwnerFrame DEF NoHandle

(* acquire_ownership marks the handle acquired; release_ownership clears  *)
(* its ownership.                                                         *)
LEMMA OwnerOwnership ==
    ASSUME IInv, OwnerAll, NEW p \in Procs, AcquireOwnership(p) \/ ReleaseOwnership(p)
    PROVE  OwnerAll'
<1>1. handle[p] \in Handle /\ pc[p] = "idle"
    BY HoldsHandle DEF AcquireOwnership, ReleaseOwnership, IInv
<1>2. pc' = [pc EXCEPT ![p] = "idle"] /\ call' = [call EXCEPT ![p] = call[p]]
      /\ segCreator' = segCreator
    BY <1>1 DEF AcquireOwnership, ReleaseOwnership, IInv, TypeOK
<1>3. CASE AcquireOwnership(p)
    <2>1. [handle[p] EXCEPT !.owning = TRUE, !.acquired = TRUE].acquired
        BY <1>1 DEF Handle
    <2>2. handle' = [handle EXCEPT ![p] = [handle[p] EXCEPT !.owning = TRUE,
                                                           !.acquired = TRUE]]
        BY <1>3 DEF AcquireOwnership
    <2>3. QED
        BY <1>2, <2>1, <2>2, OwnerFrame
<1>4. CASE ReleaseOwnership(p)
    <2>1. ~[handle[p] EXCEPT !.owning = FALSE].owning
        BY <1>1 DEF Handle
    <2>2. QED
        BY <1>2, <1>4, <2>1, OwnerFrame DEF ReleaseOwnership
<1>5. QED
    BY <1>3, <1>4

(* Every step of any process, and every stutter, keeps OwnerAll.          *)
LEMMA OwnerStep ==
    ASSUME IInv, OwnerAll, [Next]_vars
    PROVE  OwnerAll'
<1>1. CASE UNCHANGED vars
    BY <1>1 DEF vars, OwnerAll, OwnerInv, Holds
<1>2. ASSUME NEW p \in Procs, NEW n \in Names, Remove(p, n)
      PROVE  OwnerAll'
    BY <1>2 DEF Remove, OwnerAll, OwnerInv, Holds
<1>3. ASSUME NEW p \in Procs,
             \/ \E n \in Names, e \in EnforceChoices : OpenExisting(p, n, e)
             \/ OpenMap(p)
             \/ \E n \in Names, m \in CreationModes, s \in ConfigSizes,
                   o \in BOOLEAN, e \in EnforceChoices, l \in BOOLEAN, z \in BOOLEAN :
                   Create(p, n, m, s, o, e, l, z)
             \/ ShmCreateStep(p)
             \/ Map(p)
             \/ VerifyOpenedSize(p)
             \/ Truncate(p)
             \/ LockAndZero(p)
             \/ Drop(p)
             \/ AcquireOwnership(p)
             \/ ReleaseOwnership(p)
      PROVE  OwnerAll'
    BY <1>3, OwnerOpenExisting, OwnerOpenMap, OwnerCreate, OwnerShmCreateStep,
       OwnerMap, OwnerVerifyOpenedSize, OwnerTruncate, OwnerLockAndZero,
       OwnerDrop, OwnerOwnership
<1>4. QED
    BY <1>1, <1>2, <1>3 DEF Next

(* No process is in a call or holds a handle initially.                   *)
LEMMA OwnerInit ==
    ASSUME Init
    PROVE  OwnerAll
BY DEF Init, OwnerAll, OwnerInv, Holds, NoHandle, NoInode

(* A SharedMemory handle that will shm_unlink its name on drop belongs to *)
(* the process whose shm_create made the segment, unless ownership was    *)
(* taken with acquire_ownership: OpenOrCreate that finds the segment and  *)
(* open never hand out ownership, for every number of processes, names,   *)
(* inodes and sizes.                                                      *)
THEOREM OwnerIsCreatorSafety == Spec => []OwnerIsCreator
<1>1. Init => IInv /\ OwnerAll
    BY InitIInv, OwnerInit
<1>2. IInv /\ OwnerAll /\ [Next]_vars => (IInv /\ OwnerAll)'
    BY StepIInv, OwnerStep
<1>3. OwnerAll => OwnerIsCreator
    BY DEF OwnerAll, OwnerInv, OwnerIsCreator
<1>4. QED
    BY <1>1, <1>2, <1>3, PTL DEF Spec

=============================================================================
