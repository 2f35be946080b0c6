---------------------------- MODULE SharedMemory ----------------------------
(***************************************************************************)
(* The life cycle of named POSIX shared memory segments, as implemented by *)
(* SharedMemoryBuilder / SharedMemoryCreationBuilder / SharedMemory in     *)
(* src/elkodon_bb/posix/src/shared_memory.rs.                              *)
(*                                                                         *)
(* The operating system keeps a name table (/dev/shm) binding a name to a  *)
(* segment (an inode).  A segment outlives its name: shm_unlink only       *)
(* removes the binding, a mapping of the segment stays valid.  Every       *)
(* process runs at most one builder call at a time; each system call of a  *)
(* call (shm_open, shm_unlink, mmap, ftruncate+fstat) is one atomic step,  *)
(* the purely local work around it is folded into the step it follows.     *)
(* A process holds at most one SharedMemory handle.                        *)
(***************************************************************************)
EXTENDS Naturals, FiniteSets

CONSTANTS
    Procs,          \* processes using the builder
    Names,          \* file names of segments
    ConfigSizes,    \* sizes a creator may configure with .size(..)
    CreationModes,  \* creation modes a creator may choose
    EnforceChoices, \* whether .enforce_base_address(..) is used
    MaxInodes,      \* number of inodes the OS can have in use at once
    NoProc          \* creator of an inode that was never created

ASSUME ProcsAssumption == Procs # {}
ASSUME NamesAssumption == Names # {}
ASSUME ConfigSizesAssumption == ConfigSizes \subseteq Nat
ASSUME CreationModesAssumption ==
    CreationModes \subseteq {"CreateExclusive", "PurgeAndCreate", "OpenOrCreate"}
ASSUME EnforceChoicesAssumption == EnforceChoices \subseteq BOOLEAN
ASSUME MaxInodesAssumption == MaxInodes \in Nat
ASSUME NoProcAssumption == NoProc \notin Procs

VARIABLES
    shmName,    \* name table of the OS: name -> inode, 0 when unbound
    segSize,    \* size of each inode (set by ftruncate)
    segCreator, \* the process whose shm_create made the inode
    mappings,   \* number of regions each process has mapped
    handle,     \* the SharedMemory handle a process holds
    pc,         \* where a process is inside a builder call
    call        \* the configuration and progress of that call

vars == <<shmName, segSize, segCreator, mappings, handle, pc, call>>

Inodes == 1 .. MaxInodes
NoInode == 0
AnyName == CHOOSE n \in Names : TRUE

(* The SharedMemory struct: name, inode of its file descriptor, size and   *)
(* has_ownership.  "acquired" records that acquire_ownership was called.  *)
Handle == [name : Names, inode : Inodes, size : Nat,
           owning : BOOLEAN, acquired : BOOLEAN]
NoHandle == [name |-> AnyName, inode |-> NoInode, size |-> 0,
             owning |-> FALSE, acquired |-> FALSE]
Holds(p) == handle[p].inode # NoInode

(* The builder's configuration while a call is in progress; "inode" is    *)
(* the segment its file descriptor refers to, "created" is shm_created.   *)
Call == [op : {"none", "open", "create"}, name : Names,
         mode : CreationModes \cup {"none"}, size : Nat, owning : BOOLEAN,
         enforce : BOOLEAN, locked : BOOLEAN, zero : BOOLEAN,
         created : BOOLEAN, inode : Inodes \cup {NoInode}]
NoCall == [op |-> "none", name |-> AnyName, mode |-> "none", size |-> 0,
           owning |-> FALSE, enforce |-> FALSE, locked |-> FALSE,
           zero |-> FALSE, created |-> FALSE, inode |-> NoInode]

PCs == {"idle", "open_map", "shm_create", "map", "verify_size",
        "truncate", "lock_and_zero"}

(* pc values at which the call has mapped the segment and owns the region *)
Mapped == {"verify_size", "truncate", "lock_and_zero"}

Init ==
    /\ shmName = [n \in Names |-> NoInode]
    /\ segSize = [i \in Inodes |-> 0]
    /\ segCreator = [i \in Inodes |-> NoProc]
    /\ mappings = [p \in Procs |-> 0]
    /\ handle = [p \in Procs |-> NoHandle]
    /\ pc = [p \in Procs |-> "idle"]
    /\ call = [p \in Procs |-> NoCall]

-----------------------------------------------------------------------------
(* Returning from a builder call: with an error, or with the handle h.    *)
Fail(p) ==
    /\ pc' = [pc EXCEPT ![p] = "idle"]
    /\ call' = [call EXCEPT ![p] = NoCall]

Return(p, h) ==
    /\ handle' = [handle EXCEPT ![p] = h]
    /\ Fail(p)

(* shm_unlink of a name: removes whatever segment the name is bound to.   *)
Unlink(n) == shmName' = [shmName EXCEPT ![n] = NoInode]

(* Variant of DropShm that forgets the munmap (fault-injection for       *)
(* NoLeakedMapping).                                                      *)
DropShmKeepsMapping(p, owning, n) ==
    /\ UNCHANGED mappings
    /\ IF owning THEN Unlink(n) ELSE UNCHANGED shmName

(* Drop of a SharedMemory value of process p that maps a region and has   *)
(* the given ownership and name: munmap, then shm_unlink when owning (a   *)
(* DoesNotExist from shm_unlink is only logged).                          *)
DropShm(p, owning, n) ==
    /\ mappings' = [mappings EXCEPT ![p] = @ - 1]
    /\ IF owning THEN Unlink(n) ELSE UNCHANGED shmName

(* An inode is in use while a name, a handle or a call refers to it; the  *)
(* OS hands out a free one for a new segment (a region leaked by a failed *)
(* call is not tracked by inode: nothing reads it again).                *)
Free(i) ==
    /\ \A n \in Names : shmName[n] # i
    /\ \A q \in Procs : handle[q].inode # i /\ call[q].inode # i

(* shm_create: shm_open with O_CREAT | O_EXCL for the call c.  EEXIST is  *)
(* AlreadyExist; on success the call continues with the mmap.             *)
ShmCreate(p, c) ==
    \/ /\ shmName[c.name] # NoInode
       /\ Fail(p)
       /\ UNCHANGED <<shmName, segSize, segCreator>>
    \/ /\ shmName[c.name] = NoInode
       /\ \E i \in Inodes : Free(i)
       /\ LET i == CHOOSE i \in Inodes : Free(i) IN
          /\ shmName' = [shmName EXCEPT ![c.name] = i]
          /\ segSize' = [segSize EXCEPT ![i] = 0]
          /\ segCreator' = [segCreator EXCEPT ![i] = p]
          /\ pc' = [pc EXCEPT ![p] = "map"]
          /\ call' = [call EXCEPT ![p] = [c EXCEPT !.created = TRUE,
                                                   !.inode = i]]

-----------------------------------------------------------------------------
(* open_existing / try_open_existing: shm_open without O_CREAT.           *)
OpenExisting(p, n, enforce) ==
    /\ pc[p] = "idle"
    /\ ~Holds(p)
    /\ \/ /\ shmName[n] = NoInode            \* ENOENT: DoesNotExist
          /\ UNCHANGED <<pc, call>>
       \/ /\ shmName[n] # NoInode
          /\ pc' = [pc EXCEPT ![p] = "open_map"]
          /\ call' = [call EXCEPT ![p] = [NoCall EXCEPT !.op = "open",
                        !.name = n, !.enforce = enforce, !.inode = shmName[n]]]
    /\ UNCHANGED <<shmName, segSize, segCreator, mappings, handle>>

(* mmap fails with EINVAL for a size of 0; EAGAIN (mlockall), EMFILE (the *)
(* process's other mappings, which the model does not count) and unknown *)
(* errnos can fail it at any size, so failure is always a possible        *)
(* outcome and success needs a size that is not 0.                       *)

(* open(): fstat for the size, mmap of that size, the base address check. *)
(* A mismatch at an enforced base address returns without munmap.         *)
OpenMap(p) ==
    LET c == call[p]
        s == segSize[c.inode]
    IN
    /\ pc[p] = "open_map"
    /\ \/ /\ Fail(p)                              \* mmap fails
          /\ UNCHANGED <<mappings, handle>>
       \/ /\ s > 0
          /\ mappings' = [mappings EXCEPT ![p] = @ + 1]
          /\ \E atEnforced \in BOOLEAN :
               IF c.enforce /\ ~atEnforced
               THEN Fail(p) /\ UNCHANGED handle
               ELSE Return(p, [name |-> c.name, inode |-> c.inode, size |-> s,
                               owning |-> FALSE, acquired |-> FALSE])
    /\ UNCHANGED <<shmName, segSize, segCreator>>

-----------------------------------------------------------------------------
(* Variant of OpenOrCreateFound that keeps the requested ownership       *)
(* (fault-injection for OwnerIsCreator).                                  *)
OpenOrCreateFoundKeepsOwnership(p, c) ==
    /\ shmName[c.name] # NoInode
    /\ pc' = [pc EXCEPT ![p] = "map"]
    /\ call' = [call EXCEPT ![p] = [c EXCEPT !.inode = shmName[c.name]]]

(* OpenOrCreate whose quiet shm_open found the segment: the call goes on   *)
(* with the opened descriptor, shm_created is false and has_ownership is  *)
(* forced to false.                                                       *)
OpenOrCreateFound(p, c) ==
    /\ shmName[c.name] # NoInode
    /\ pc' = [pc EXCEPT ![p] = "map"]
    /\ call' = [call EXCEPT ![p] = [c EXCEPT !.owning = FALSE,
                                             !.inode = shmName[c.name]]]

(* create(): the first system call of each creation mode.  PurgeAndCreate *)
(* unlinks quietly and then creates exclusively; OpenOrCreate opens       *)
(* quietly, and if the segment exists forces has_ownership to false.      *)
Create(p, n, mode, size, owning, enforce, locked, zero) ==
    LET c == [NoCall EXCEPT !.op = "create", !.name = n, !.mode = mode,
                !.size = size, !.owning = owning, !.enforce = enforce,
                !.locked = locked, !.zero = zero]
    IN
    /\ pc[p] = "idle"
    /\ ~Holds(p)
    /\ \/ /\ mode = "CreateExclusive"
          /\ ShmCreate(p, c)
       \/ /\ mode = "PurgeAndCreate"
          /\ Unlink(n)
          /\ pc' = [pc EXCEPT ![p] = "shm_create"]
          /\ call' = [call EXCEPT ![p] = c]
          /\ UNCHANGED <<segSize, segCreator>>
       \/ /\ mode = "OpenOrCreate"
          /\ OpenOrCreateFound(p, c)
          /\ UNCHANGED <<shmName, segSize, segCreator>>
       \/ /\ mode = "OpenOrCreate"
          /\ shmName[n] = NoInode
          /\ pc' = [pc EXCEPT ![p] = "shm_create"]
          /\ call' = [call EXCEPT ![p] = c]
          /\ UNCHANGED <<shmName, segSize, segCreator>>
    /\ UNCHANGED <<mappings, handle>>

(* The shm_create of PurgeAndCreate and of OpenOrCreate after ENOENT.     *)
ShmCreateStep(p) ==
    /\ pc[p] = "shm_create"
    /\ ShmCreate(p, call[p])
    /\ UNCHANGED <<mappings, handle>>

(* mmap of the configured size, then the base address check.  Neither     *)
(* failure unmaps or removes what the call has opened or created: the     *)
(* SharedMemory value that would clean up is only built afterwards.       *)
Map(p) ==
    LET c == call[p] IN
    /\ pc[p] = "map"
    /\ \/ /\ Fail(p)                              \* mmap fails
          /\ UNCHANGED mappings
       \/ /\ c.size > 0
          /\ mappings' = [mappings EXCEPT ![p] = @ + 1]
          /\ \E atEnforced \in BOOLEAN :
               IF c.enforce /\ ~atEnforced
               THEN Fail(p)
               ELSE /\ pc' = [pc EXCEPT ![p] = IF c.created THEN "truncate"
                                                          ELSE "verify_size"]
                    /\ UNCHANGED call
    /\ UNCHANGED <<shmName, segSize, segCreator, handle>>

(* Variant of VerifyOpenedSize without the size comparison              *)
(* (fault-injection for HandleSizeMatchesSegment).                        *)
VerifyOpenedSizeSkipped(p) ==
    LET c == call[p] IN
    /\ pc[p] = "verify_size"
    /\ Return(p, [name |-> c.name, inode |-> c.inode, size |-> c.size,
                   owning |-> c.owning, acquired |-> FALSE])
    /\ UNCHANGED <<shmName, mappings, segSize, segCreator>>

(* The segment was opened, not created: fstat must report the configured  *)
(* size, else SizeDoesNotFit and the SharedMemory value is dropped.       *)
VerifyOpenedSize(p) ==
    LET c == call[p] IN
    /\ pc[p] = "verify_size"
    /\ \/ /\ segSize[c.inode] # c.size
          /\ DropShm(p, c.owning, c.name)
          /\ Fail(p)
          /\ UNCHANGED handle
       \/ /\ segSize[c.inode] = c.size
          /\ Return(p, [name |-> c.name, inode |-> c.inode, size |-> c.size,
                         owning |-> c.owning, acquired |-> FALSE])
          /\ UNCHANGED <<shmName, mappings>>
    /\ UNCHANGED <<segSize, segCreator>>

(* Variant of Truncate whose failure path only unmaps and does not drop   *)
(* the SharedMemory value (fault-injection for CreatedValueRollsBack).    *)
TruncateNoRollback(p) ==
    LET c == call[p] IN
    /\ pc[p] = "truncate"
    /\ \/ /\ mappings' = [mappings EXCEPT ![p] = @ - 1]
          /\ Fail(p)
          /\ UNCHANGED <<shmName, segSize>>
       \/ /\ segSize' = [segSize EXCEPT ![c.inode] = c.size]
          /\ pc' = [pc EXCEPT ![p] = "lock_and_zero"]
          /\ UNCHANGED <<shmName, mappings, call>>
    /\ UNCHANGED <<segCreator, handle>>

(* ftruncate to the configured size followed by the fstat check.  A       *)
(* failing ftruncate drops the SharedMemory value (munmap, shm_unlink).   *)
(* Only the creator truncates an inode, so the fstat that follows reads   *)
(* the size just set and its SizeDoesNotFit branch cannot be taken.       *)
Truncate(p) ==
    LET c == call[p] IN
    /\ pc[p] = "truncate"
    /\ \/ /\ DropShm(p, c.owning, c.name)          \* FileTruncateError
          /\ Fail(p)
          /\ UNCHANGED segSize
       \/ /\ segSize' = [segSize EXCEPT ![c.inode] = c.size]
          /\ pc' = [pc EXCEPT ![p] = "lock_and_zero"]
          /\ UNCHANGED <<shmName, mappings, call>>
    /\ UNCHANGED <<segCreator, handle>>

(* The optional memory lock and the optional zeroing of the memory; a     *)
(* failing mlock or a SIGBUS while zeroing (InsufficientMemory) drops the *)
(* SharedMemory value.                                                    *)
LockAndZero(p) ==
    LET c == call[p] IN
    /\ pc[p] = "lock_and_zero"
    /\ \/ /\ c.locked \/ c.zero
          /\ DropShm(p, c.owning, c.name)
          /\ Fail(p)
          /\ UNCHANGED handle
       \/ /\ Return(p, [name |-> c.name, inode |-> c.inode, size |-> c.size,
                         owning |-> c.owning, acquired |-> FALSE])
          /\ UNCHANGED <<shmName, mappings>>
    /\ UNCHANGED <<segSize, segCreator>>

-----------------------------------------------------------------------------
(* Variant of Drop without the check that a handle is held, as a double  *)
(* drop would be (fault-injection for TypeOK).                            *)
DropTwice(p) ==
    /\ pc[p] = "idle"
    /\ DropShm(p, handle[p].owning, handle[p].name)
    /\ handle' = [handle EXCEPT ![p] = NoHandle]
    /\ UNCHANGED <<segSize, segCreator, pc, call>>

(* Drop of a held handle: munmap, and shm_unlink by name when owning.     *)
Drop(p) ==
    /\ pc[p] = "idle"
    /\ Holds(p)
    /\ DropShm(p, handle[p].owning, handle[p].name)
    /\ handle' = [handle EXCEPT ![p] = NoHandle]
    /\ UNCHANGED <<segSize, segCreator, pc, call>>

AcquireOwnership(p) ==
    /\ pc[p] = "idle"
    /\ Holds(p)
    /\ handle' = [handle EXCEPT ![p].owning = TRUE, ![p].acquired = TRUE]
    /\ UNCHANGED <<shmName, segSize, segCreator, mappings, pc, call>>

ReleaseOwnership(p) ==
    /\ pc[p] = "idle"
    /\ Holds(p)
    /\ handle' = [handle EXCEPT ![p].owning = FALSE]
    /\ UNCHANGED <<shmName, segSize, segCreator, mappings, pc, call>>

(* SharedMemory::remove: shm_unlink by name; ENOENT is DoesNotExist.      *)
Remove(p, n) ==
    /\ pc[p] = "idle"
    /\ Unlink(n)
    /\ UNCHANGED <<segSize, segCreator, mappings, handle, pc, call>>

-----------------------------------------------------------------------------
Next ==
    \E p \in Procs :
       \/ \E n \in Names, e \in EnforceChoices : OpenExisting(p, n, e)
       \/ OpenMap(p)
       \/ \E n \in Names, m \in CreationModes, s \in ConfigSizes,
             o \in BOOLEAN, e \in EnforceChoices, l \in BOOLEAN, z \in BOOLEAN :
             Create(p, n, m, s, o, e, l, z)
       \/ ShmCreateStep(p)
       \/ Map(p)
       \/ VerifyOpenedSize(p)
       \/ Truncate(p)
       \/ LockAndZero(p)
       \/ Drop(p)
       \/ AcquireOwnership(p)
       \/ ReleaseOwnership(p)
       \/ \E n \in Names : Remove(p, n)

Spec == Init /\ [][Next]_vars

-----------------------------------------------------------------------------
(* Every variable keeps to its type.                                      *)
TypeOK ==
    /\ shmName \in [Names -> Inodes \cup {NoInode}]
    /\ segSize \in [Inodes -> Nat]
    /\ segCreator \in [Inodes -> Procs \cup {NoProc}]
    /\ mappings \in [Procs -> Nat]
    /\ handle \in [Procs -> Handle \cup {NoHandle}]
    /\ pc \in [Procs -> PCs]
    /\ call \in [Procs -> Call]

(* The size a SharedMemory handle reports (shm.size(), as_slice) is the   *)
(* size of the segment its descriptor refers to, whatever other processes *)
(* creating, purging or opening the same name do meanwhile: an opener     *)
(* that maps a segment its creator has not yet truncated must not return. *)
HandleSizeMatchesSegment ==
    \A p \in Procs : Holds(p) => handle[p].size = segSize[handle[p].inode]

(* A handle owns (will shm_unlink on drop) only a segment its own process *)
(* created, unless acquire_ownership was called on it: OpenOrCreate that  *)
(* finds the segment must not take the creator's ownership.               *)
OwnerIsCreator ==
    \A p \in Procs :
        Holds(p) /\ handle[p].owning /\ ~handle[p].acquired
            => segCreator[handle[p].inode] = p

(* Every region a process has mapped belongs to the handle it holds or to *)
(* the call it is running: no builder call returns and leaves a mapping   *)
(* behind, and dropping a handle unmaps it.                               *)
NoLeakedMapping ==
    \A p \in Procs :
        mappings[p] = (IF Holds(p) THEN 1 ELSE 0)
                      + (IF pc[p] \in Mapped THEN 1 ELSE 0)

(* When create() returns an error after it created the segment itself and *)
(* ownership was requested, the name no longer refers to that segment:    *)
(* a failed creation leaves no segment behind under its name.             *)
CreateFailureRollsBack ==
    [][\A p \in Procs :
         /\ call[p].op = "create" /\ call[p].created /\ call[p].owning
         /\ pc'[p] = "idle" /\ ~Holds(p)'
         => shmName'[call[p].name] # call[p].inode]_vars

(* When create() fails after its SharedMemory value was built (ftruncate, *)
(* mlock or zeroing fails) in a call that created its segment with       *)
(* ownership, dropping the value unlinks the name: the new segment does   *)
(* not outlive the failed call under its name.  Failures before the value *)
(* exists are CreateFailureRollsBack's case.                             *)
CreatedValueRollsBack ==
    [][\A p \in Procs :
         /\ pc[p] \in {"truncate", "lock_and_zero"}
         /\ call[p].created /\ call[p].owning
         /\ pc'[p] = "idle" /\ ~Holds(p)'
         => shmName'[call[p].name] # call[p].inode]_vars

(* At most one live handle that owns a given name (spec section 3: the     *)
(* ownership can be transferred but never duplicated), ownership taken    *)
(* with acquire_ownership aside.                                          *)
UniqueOwnerPerName ==
    \A p, q \in Procs :
        /\ p # q /\ Holds(p) /\ Holds(q)
        /\ handle[p].name = handle[q].name
        /\ handle[p].owning /\ ~handle[p].acquired
        => ~(handle[q].owning /\ ~handle[q].acquired)

=============================================================================
