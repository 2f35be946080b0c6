# TLA+ models of the elkodon shared memory layer

This directory holds TLA+ models of the shared memory code under `src/`, with TLC
configurations that model-check them and TLAPS proofs about them. The sections
below cover:

- the parts of the system;
- which module models which part, and how;
- what each run checks;
- what is proved;
- what is left out.

## The system

| Part | Source | What it does |
|---|---|---|
| SharedMemory life cycle | `elkodon_bb/posix/src/shared_memory.rs` | A builder opens or creates a named POSIX segment (`shm_open`, `shm_open(O_CREAT\|O_EXCL)`), maps it (`mmap`), checks an optional enforced base address, and for a created segment `ftruncate`s, re-reads the size (`fstat`), optionally `mlock`s and zeroes it. A `SharedMemory` handle unmaps on drop and, when it owns the segment, `shm_unlink`s it by name. `acquire_ownership`/`release_ownership` flip ownership; `remove` unlinks a name. |
| Windows port -> UDS name directory | `elkodon_pal/posix/src/windows/win32_udp_port_to_uds_name.rs` | A named file mapping shared by all processes: `init_check` and 65535 entries, each an ABA counter and two 108-byte buffers. The creator of the mapping initialises it; `set`/`reset` write a slot through the dual-buffer protocol; `get_port` scans every slot with `Entry::get`. |
| `shm_list` | `elkodon_pal/posix/src/linux/mman.rs`, `freebsd/mman.rs` | Linux scans `/dev/shm`. FreeBSD sizes a sysctl, allocates 4/3 of that, fetches the list and walks `kinfo_file` records. |
| math helpers | `elkodon_bb/elementary/src/math.rs` | `align`, `log2_of_power_of_2`, `round_to_pow2` |
| scope guard | tests only (`elkodon_bb/elementary/tests/scope_guard_tests.rs`) | Runs `on_init`; on success it runs `on_drop` exactly once. |
| PAL wrappers | `freebsd/socket.rs`, `macos/*`, `windows/stat.rs`, `build.rs` | Forwarding to the OS and struct conversion. |

How the parts interact:

- The life cycle calls the PAL's `shm_open`/`mmap`/`munmap`/`shm_unlink`.
- Several processes, or several handles in one process, act on the same name concurrently. The OS name table is the only state they share.
- On Windows, the port directory is one mapping that every process attaches to. Its processes share its memory without locks.

## Modules

### `SharedMemory` (with `MC_SharedMemory`, `SharedMemory_proofs`, `SharedMemoryLeak_proofs`)

**State.** The OS and the processes are modelled as follows:

- **OS objects.**
  - `shmName`: the name table, name -> inode or 0.
  - `segSize`: the size of each inode.
  - `segCreator`: the process whose `shm_create` made the inode.
- **Per-process state.**
  - `mappings`: the number of mapped regions.
  - `handle`: the `SharedMemory` held (name, inode, size, `has_ownership`, and whether `acquire_ownership` was used).
  - `pc`: where the process is inside a builder call.
  - `call`: the builder configuration plus `shm_created` and the inode of the call's descriptor.
- Inodes come from `1..MaxInodes`. A new segment takes a free inode, one that no name, handle or call refers to, as the OS would reuse it.
- Unlinking removes only the name. A mapping or descriptor outlives it.

**Actions.** Each system call of a builder call is one atomic step. Other processes can run between any two of them.

| Action | Code |
|---|---|
| `OpenExisting`, `OpenMap` | `SharedMemoryBuilder::open` (shm_open, fstat + mmap, base address check) |
| `Create` | the `creation_mode` match of `create`. CreateExclusive goes straight to `ShmCreate`. PurgeAndCreate unlinks first. OpenOrCreate opens (and forces `has_ownership = false`) or falls through to `ShmCreateStep` on ENOENT. |
| `Map` | mmap and the base address check. Both failures return before the `SharedMemory` value exists, so nothing is cleaned up. |
| `VerifyOpenedSize` | the fstat comparison of the opened-not-created path. On mismatch the built value is dropped. |
| `Truncate`, `LockAndZero` | ftruncate, the fstat re-check, mlock and memset. Every failure drops the built value (`DropShm`: munmap, and unlink when owning). |
| `Drop`, `AcquireOwnership`, `ReleaseOwnership`, `Remove` | the handle operations |

How failures are modelled:

- Failures the code handles but that depend on the OS (ftruncate, mlock, the signal during zeroing, whether mmap honours the base address) are nondeterministic choices.
- `mmap` (in `Map` and `OpenMap`) may always fail. It fails with EINVAL for size 0. EAGAIN (under `mlockall`), EMFILE and unknown errnos (lines 574-581) can fail it at any size. The model does not count a process's mappings outside the builder, so EMFILE is possible at any call. Success needs a size that is not 0.
- A process holds at most one `SharedMemory` handle and starts a builder call only when it holds none (`~Holds(p)`). The code allows a process many values; the model keeps one, because every property relates one handle to the calls of other processes.
- `fstat` after a successful `ftruncate` returns the truncated size, so that branch is unreachable in the model. The comment in `Truncate` says why.

### `PortToUds` (with `MC_PortToUds`)

**State.**

- **The named mapping object.**
  - `objRefs`: the number of open handles. The object dies with the last one and comes back zeroed.
  - `initCheck`: the `init_check` word.
  - `counter`: the ABA counter of each entry.
  - `buf`: the two buffers of each entry. A name is a sequence of non-NUL letters; a name of `MaxLen` letters fills its buffer and has no NUL.
- **Per process.**
  - `pc`, `hasMap`.
  - `op`: the arguments and locals of the running call (port, name, loaded counter, scan index, copied buffer).
- **Ghost.** `registered[s]` is the name of the last `set` of entry `s` that returned.

**Actions.** One step per atomic access of the code:

- **`PortToUds::new`.** `NewCreateMapping`, `NewMapView`, `NewVirtualAlloc`. The creator is the process that found no object. Each failure closes what was opened.
- **`initialize`.** `InitCas`, then `InitEntry` once per entry.
- **`set`/`reset`.** `SetStart` (bounds check, then counter load), `SetZero`, `SetCopy`, `SetInc`.
- **`get_port`.** `GetPortStart`, then per entry `GetLoad` (the single counter load), `GetRead` and `GetCheck` (the counter comparison, then the prefix comparison against the query).
- **Handle operations.** `Drop`, plus `Panic`/`Unwind`: the panic ends the call, and unwinding drops the handle.

**Data races.**

- A read of a buffer while a writer copies into it is undefined behaviour in the code. The model lets that read return any prefix of the name being copied (`Readable`).
- `(current - 1) % 2` at counter 0 is computed as the release build does, with u64 wrap-around (`ReadBuffer`).

**Constants.**

- `Writers` says which processes call `set` on which port. The spec assumes one producer per slot.
- `AttachAfterInit` says whether other processes start only after the creator's `new` returned.

Both describe the environment, not the code. The runs use both values.

### `PortDirectory` and `PortToUdsRefinement` (with `PortToUds_proofs`, `PortToUdsRefinement_proofs`)

`PortDirectory` is what the directory promises, without buffers or counters:

- `dir[port]`: one register per entry, the name a reader gets;
- `users`: the number of holders; the last `Detach` empties every register;
- `pending[p]`: the set `p` has invoked. `Commit(p)` makes it visible in one step, and `Abort(p)` drops it (a panic).

`PortToUdsRefinement` maps `PortToUds` onto it:

| Abstract | Concrete |
|---|---|
| `dir[s]` | `buf[s][ReadBuffer(counter[s])]`, the buffer `Entry::get` copies |
| `users` | `objRefs` |
| `pending[p]` | `p`'s running `set`/`reset` (pc in `set_zero`, `set_copy`, `set_inc`) |

The mapping uses the buffers, not the ghost `registered`. The property `DirectorySpec` therefore says something about the code: `SetZero` and `SetCopy` must write the buffer readers do not use, `SetInc` is the only step that changes what a reader gets, and `InitEntry` never changes it. `MC_PortToUds` extends `PortToUdsRefinement`, so every `PortToUds` run can check it.

The refinement holds only under the environment the spec assumes. It fails with two writers per entry and with attachers that start during initialisation. Those are the same two hazards `ReadableIsLastSet` shows.

### `ShmListFreeBSD` (with `MC_ShmListFreeBSD`, `ShmListFreeBSD_proofs`)

One caller runs `shm_list` while other processes create and unlink segments (`CreateSeg`, `UnlinkSeg`).

**State.**

- `live`: the kernel's table.
- `pc`, `len`, `off` (`temp - buffer`), `result`.
- `written`: the segments whose `kinfo_file` records the second sysctl wrote.
- `starts`: the byte offset of each of those records in the buffer. `starts[Len(written) + 1]` is the end of the last record.
- Ghosts: `seen` (segments live at some time during the call), `always` (live during all of it), `failed`.

Sizes are in bytes. A record of segment `s` has `RecSize[s]` bytes, a multiple of the alignment, as the kernel pads it.

**Actions.** One step per system call or loop turn:

- `NameToMib`;
- `SizingSysctl`, which sets `len` to the bytes needed now;
- `Malloc`: `len * 4 / 3`, then malloc; malloc can fail;
- `Fetch`: ENOMEM when the list has outgrown `len`. Otherwise the kernel writes the records one after the other from the start of the buffer (`Layouts`): record `k + 1` starts where record `k` ends. The layout is kernel state. The walk never reads `starts`; it only tests whether `temp` is at a record start (`RecordStart`);
- `WalkRecord`, one turn of the loop;
- `ListReturn`.

**The walk.** It never compares `temp` with what the kernel wrote:

- At a record start, `WalkRecord` pushes the name and advances by `Align(kf_structsize, RecAlign)`.
- Anywhere else the bytes are uninitialised. The read gives a zero (the loop breaks) or a `JunkSizes` size, and then pushes the name `Junk`.
- A read that extends past the `len` bytes of the allocation is undefined behaviour. The model stops the call there (`pc = "overrun"`).

### `ShmListLinux` (with `MC_ShmListLinux`, `ShmListLinux_proofs`)

The same environment, and the `opendir`/`readdir` loop of `linux/mman.rs`.

- `returned` is the directory stream's state.
- One `readdir` call returns either:
  - an entry not returned yet that existed during the scan, `.` and `..` included;
  - or null, once every entry that existed throughout has been returned. This is the POSIX guarantee for entries added or removed during a scan.

### `Math` (with `MC_Math`)

- `Align`, `Log2OfPowerOf2` and `RoundToPow2` translate `math.rs` on words of `Width` bits.
  - Release-build wrap-around is `Wrap`, and `>>` is `ShiftRight`.
  - The loop of `log2_of_power_of_2` is the first `i` with `value >> i = 1`.
- The state is one input `(value, alignment)`, and every input is an initial state, so a run checks every input.
- The properties compare each helper with a reference definition: the least multiple, `floor(log2)` and the next power of two.
- TLC's integers are 32-bit, so the runs use `Width = 10`. The helpers' control does not depend on the width: `round_to_pow2`'s shifts by 16 and 32 are no-ops below those widths.

## Runs

All runs use model values for processes and names. Symmetry is used only for the interchangeable processes of `SharedMemory`.

| Run | Checks | Result |
|---|---|---|
| `sm_lifecycle` (`SharedMemory.cfg`) | `TypeOK`, `HandleSizeMatchesSegment`, `OwnerIsCreator`, `NoLeakedMapping`, `CreatedValueRollsBack` | pass |
| `sm_create_orphan` | `CreateFailureRollsBack` | violated: any mmap failure after shm_create (EINVAL for size 0, or EAGAIN/EMFILE/unknown at any size) leaves the segment under its name |
| `sm_base_address_leak` | `NoLeakedMapping` with enforced base addresses | violated: open and create return with the region mapped |
| `sm_purge_duplicate_owner` | `UniqueOwnerPerName` | violated: remove/PurgeAndCreate, then create, gives two owners of one name |
| `port_directory` (`PortToUds.cfg`) | `TypeOK`, `NoHandleLeak`, `ReadableIsLastSet`, `GetSeesLastWritten`, `DirectorySpec` | pass |
| `port_attach_race` | `ReadableIsLastSet` with `AttachAfterInit = FALSE` | violated: an attacher's set is wiped by the creator's initialisation |
| `port_get_livelock` | `GetPortTerminates` under weak fairness | violated: `Entry::get` never leaves its loop after one overlapping set |
| `port_65535_panic` | `NoPanic` | violated: `set(65535, ..)` indexes past the array |
| `shm_list_freebsd` (`ShmListFreeBSD.cfg`) | `WalkReturnsWritten` | pass |
| `shm_list_freebsd_overrun` | `NoOverrun` | violated: with no segments (`malloc(0)`) or records that fill the buffer, the walk reads past the allocation |
| `shm_list_linux` (`ShmListLinux.cfg`) | `TypeOK`, `ListComplete` | pass |
| `math` (`Math.cfg`) | `AlignIsNextMultiple`, `Log2Exact`, `RoundIsNextPow2` | pass |

### Further checks

Each of these configurations checks one property that TLC finds violated. They are not among the project's runs: two restate open questions that spec section 9 already records, and the others are edge cases of the findings above or of one helper. Run one with, for example, `tlc -config ShmListFreeBSD_ListSound.cfg MC_ShmListFreeBSD`.

| Config (module) | Property | What TLC finds |
|---|---|---|
| `ShmListFreeBSD_ListSound.cfg` (`MC_ShmListFreeBSD`) | `ListSound` | the walk returns names read from the uninitialised tail of the buffer |
| `ShmListFreeBSD_ListComplete.cfg` (`MC_ShmListFreeBSD`) | `ListComplete` | a segment created between the two sysctl calls beyond the 4/3 slack gives ENOMEM, and the list comes back empty |
| `ShmListLinux_Dots.cfg` (`MC_ShmListLinux`) | `ListSound` | `.` and `..` are returned (spec section 9, question 2) |
| `PortToUds_Prefix.cfg` (`MC_PortToUds`) | `GetPortExact` | `get_port` returns the entry of a strict prefix (spec section 9) |
| `PortToUds_FullName.cfg` (`MC_PortToUds`) | `NoSkippedMatch` | a 108-byte name has no NUL, and `get_port` skips its entry |
| `Math_AlignCorrect.cfg` (`MC_Math`) | `AlignCorrect` | `align(513, 512)` wraps to 0 on 10-bit words |
| `Math_RoundIsPow2.cfg` (`MC_Math`) | `RoundIsPow2` | `round_to_pow2(0)` is 0 |

### Bounds

**`sm_lifecycle`: 2 processes, 1 name, sizes {1, 2}, 3 inodes.**

- One name is where the races are: all the properties relate processes acting on the same name.
- Three inodes allow a purged segment and its replacement to coexist with a third creation.
- `mmap` may fail at every call, so every failure path of `create` and `open` is taken.
- Sizes 1 and 2 let an opener's size check fail.
- The run has about 350,000 distinct states.

**`shm_list_freebsd`: segments `s1` and `s2` with records of 2 and 4 bytes, alignment 2, junk sizes 1 and 3.**

- With no segment, `len` is 0.
- With `{s1}` the records fill the buffer exactly (2 * 4 / 3 = 2).
- With `{s2}` a tail of 1 byte is left, and with both a tail of 2.
- Creating `s2` between the calls overflows the slack of `{s1}`.
- Junk size 1 is not aligned, so `Align` rounds it.

**`shm_list_linux`: two segments.** One can stay live while the other is created or unlinked during the scan.

**`math`: every 10-bit value with every power-of-two alignment, 10,240 states.** This covers zero, the top of the range and every power of two.

**`port_directory`: 2 processes, 2 entries plus the out-of-range port, names over {a, b} with `MaxLen = 2`, counters up to 3.**

- Two entries let a `get_port` scan skip one entry and match another.
- The names are a short name, a full-buffer name and a too-long name.
- A counter of 3 gives each entry two sets after initialisation: enough for a reader to overlap a writer and for the buffers to swap roles.

### Fairness

`Spec` has no fairness, and every safety run uses it.

`PortToUds!FairSpec` adds weak fairness on each process's steps. The OS schedules threads, so a runnable thread eventually runs. Only the livelock run uses it, and the violation it finds does not depend on starving anyone: the reader keeps taking its own steps.

## What is proved

`SharedMemory_proofs` proves these for every value of the constants, from the ASSUMEs of `SharedMemory` (non-empty process and name sets, natural bounds, `NoProc` not a process):

- `TypeCorrect`: `Spec => []TypeOK`.
- `HandleSizeSafety`: `Spec => []HandleSizeMatchesSegment`.
- `OwnerIsCreatorSafety`: `Spec => []OwnerIsCreator`.

The first two are not inductive by themselves. A step of process `p` can change `segSize` through `Truncate`, and then another process's handle could change size. The strengthening `IInv` is `TypeOK` plus, for each process `q`, `ProcInv(q)`:

- **`Counted`**: `mappings[q]` counts the handle's region and the call's region. A drop therefore never underflows.
- **`Busy`**: a process inside a call holds no handle, and past its first system call its descriptor names an inode.
- **`Phases`**: only created calls truncate, and mapped calls have a non-zero size.
- **`Creating`**: a creating call is the `segCreator` of its inode, which stays at size 0 until its own `Truncate`.
- **`HandleSize`**: a handle's size equals its segment's and is non-zero.

`Truncate` preserves `HandleSize` for other processes for two reasons:

1. Two creating calls cannot share an inode, because each is that inode's `segCreator`.
2. No handle can point at the inode being truncated, because that inode has size 0 while handles have non-zero sizes.

`OwnerIsCreator` is not inductive either: a `LockAndZero` step turns the call's `owning` flag into the handle's, so the calls must be covered as well. `OwnerAll` adds, for each process, `OwnerInv(q)`:

- in `map`, `truncate` and `lock_and_zero`, a call that owns created its segment;
- in `verify_size` (an opened segment) the call does not own;
- the statement of `OwnerIsCreator` for `q`'s handle.

`IInv /\ OwnerAll` is inductive, and `Creating` supplies `segCreator[call[q].inode] = q` at `LockAndZero`. `ShmCreate` changes `segCreator` only on a `Free` inode, which no handle refers to. Most actions go through one frame lemma, `OwnerFrame`: a step that sets `p`'s phase, call and handle keeps `OwnerAll` when those keep `p`'s part. `IInv` and `OwnerAll` were checked as invariants with TLC on the `sm_lifecycle` instance before they were proved.

How the proof is laid out:

- There is one lemma per action (`…IInv`), split on `q = p` and `q # p`. The lemmas about call records and handles are shared.
- `StepIInv` combines the per-action lemmas.
- `AlwaysIInv` is `InitIInv` plus `StepIInv` by PTL.

`IInv` was model-checked as an invariant before it was proved.

`SharedMemoryLeak_proofs` proves two more results for `SharedMemory`:

- `NoLeakedMappingSafety`: `Settings => (Spec => []NoLeakedMapping)`, where `Settings` is the one condition of the `sm_lifecycle` run it needs: no base address is enforced (`EnforceChoices = {FALSE}`). It holds for every size, and whichever `mmap` calls fail. The hypothesis is what the code needs: `sm_base_address_leak` shows that a base address mismatch returns without `munmap`.
- `CreatedValueRollsBackSafety`: `Spec => CreatedValueRollsBack`, an action property, with no hypothesis. A create that made its segment with ownership, and fails at `ftruncate`, `mlock` or zeroing, leaves the name no longer bound to that segment. This is all the code guarantees: a failure before the value is built (`mmap` at line 286, the base address check at line 290) orphans the segment. The general `CreateFailureRollsBack` is therefore not proved; `sm_create_orphan` shows it violated.

The inductive invariant is `IInv /\ LeakInv`. `LeakInv` is `NoLeakedMapping` plus, for each process, `CallInv(q)`:

- the call never enforces an address;
- a create call's size is a configured size;
- phases `shm_create` to `lock_and_zero` belong to create calls;
- a call whose `shm_open` created the segment is between `map` and `lock_and_zero`.

Most actions go through the frame lemma `LeakFrame`. Failures after the `mmap` go through `LeakDropCall`, and successful returns through `LeakReturn`.

For the action property, only `IInv` is needed. `PcOthers` shows that a step of one process leaves every other process's program counter unchanged, so a call at `truncate` or `lock_and_zero` can only be ended by its own process's step. `RollOwn` covers those steps:

- A failing `Truncate` or `LockAndZero` runs `DropShm` with `owning`, which unlinks the name.
- A success returns a handle.

`LeakInv` was checked with TLC on the `sm_lifecycle` instance before it was proved.

`ShmListLinux_proofs` proves `ScanComplete`: `Spec => []ListComplete`, and `TypeCorrect`: `Spec => []TypeOK`, for every set of segment names. A scan that opened `/dev/shm` lists every segment that stayed live through the call.

`ListComplete` is not inductive, because the `readdir` loop must be tied to the vector. The strengthening `IInv` adds:

- `TypeOK`;
- before `opendir` returns, the vector is empty and nothing has failed;
- during the loop, the stream's returned entries are exactly the vector's names (`Listed`).

Then the step on which `readdir` returns null happens only once every entry live throughout is in `returned`, and so in the vector. The lemma `AppendListed` gives the names of `Append(result, e)`.

`PortToUds_proofs` and `PortToUdsRefinement_proofs` prove these for the Windows directory. They hold for every number of processes, entries, names and counter bounds. Their assumption `EnvAssumption` is the environment the spec assumes:

- one process sets each entry (`SingleWriter`);
- attachers start only after the creator's `new` returned (`AttachAfterInit`).

The theorems:

- `TypeCorrect`: `Spec => []TypeOK`.
- `HandlesNeverLeak`: `Spec => []NoHandleLeak`.
- `Refinement`: `Spec => DirectorySpec`. `PortToUds` implements `PortDirectory` under the mapping of `PortToUdsRefinement`.

The inductive invariant `IInv` is `TypeOK`, `NoHandleLeak`, `DeadInv` and, for each process, `PhaseInv`:

- **`DeadInv`**: an object without handles is the zeroed one.
- **Phases**: a process in `set`, `get_port` or a panic holds the mapping, and one inside `new` does not.
- **`WriterInv`**: a running set knows its entry. That means its port is in range, it is the entry's one writer, its loaded counter is still the entry's counter, its argument is a call of the abstract spec, and once copied its name is in buffer `current % 2`.
- **`Creating`**: while the creator is inside `new`, it is the only holder, every buffer is empty and `init_check` is not yet initialised.

`NoHandleLeak` alone is not inductive. A new attacher would break it if a creator were still initialising. `Creating` and `AttachAfterInit` rule that out.

The refinement proof maps every action as follows:

| Code step | Abstract step |
|---|---|
| `SetStart` | `Invoke` |
| `SetInc` | `Commit` |
| the SetZero panic | `Abort` |
| `CreateFileMappingA` | `Attach` |
| every close | `Detach` |
| everything else | a stutter |

Two facts carry it:

- **Writes never touch the buffer readers copy.** Because of `WriterInv`, `SetZero` and `SetCopy` write buffer `current % 2`, and readers copy `(current - 1) % 2`.
- **`fetch_add` publishes exactly the written name.** It turns the written buffer into the one readers copy: `ReadBuffer(c + 1) = c % 2`.

`InitEntry` is a stutter because `Creating` keeps every buffer empty. The handle-count lemmas use `FS_AddElement` and `FS_RemoveElement`. `IInv` was checked with TLC on the `port_directory` instance before it was proved.

`PortToUdsReader_proofs` proves two more theorems under the same `EnvAssumption`:

- `ReadableIsLastSetSafety`: `Spec => []ReadableIsLastSet`.
- `GetSeesLastWrittenSafety`: `Spec => []GetSeesLastWritten`.

Its inductive invariant is `ReadInv == IInv /\ LastSet /\ ReaderAll`.

- **`LastSet`** says that for every entry the abstract directory (the buffer readers copy, under the refinement mapping) equals `registered`, the name of the last `set` that returned. It holds for entries being written as well, because a writer writes the other buffer. It therefore implies `ReadableIsLastSet`. Its step lemmas reuse the refinement's `SetIncRefines`: the `fetch_add` publishes exactly the name the `set` registers.
- **`ReaderInv`** covers a `get_port` between its load and its check:
  - the loaded counter never exceeds the entry's counter;
  - if the counter is unchanged at the check, the copied name is `registered`.

Counters only grow while a reader holds the mapping. The last close cannot happen under a reader, and `InitEntry` runs only while its creator is the one holder. No `set` writes the buffer a reader copies while the counter is still the reader's loaded value. The invariants were checked with TLC on `port_directory` before they were proved.

`ShmListFreeBSD_proofs` proves `WalkReturnsWrittenSafety`: `Spec => []WalkReturnsWritten`. It holds for every set of segment names, every alignment and header length, and all record sizes that are multiples of the alignment and at least a header long (the module's ASSUMEs). The record sizes are what the kernel pads `kinfo_file` to.

The inductive invariant `WalkInv` is `TypeOK` plus two conditions:

- before the second sysctl, nothing has been written or pushed;
- during and after the walk, one of two cases holds:
  - **`Scanning`**: the first `Len(result)` records have been pushed in order, and `temp` is at the start of the next record;
  - **`Past`**: every record has been pushed, and `temp` is at or past the end of the last one.

In `Scanning`, the loop test reads a record start, so the loop cannot break. The name pushed is that record's, because record starts strictly increase and `temp` can therefore match only one of them. `AlignRecord` shows that the aligned `kf_structsize` moves `temp` exactly to the next start. In `Past`, no record starts at or after the end of the last one, so whatever the loop reads there comes after the records.

Strict increase (`StartsIncrease`) needs induction over the record index. It is proved by taking the least counterexample. The lemma `NatMin` gets that least element from `WFMin` and `NatLessThanWellFounded` of `WellFoundedInduction`. These are closed theorems, so the provers can use them where the induction theorems with an operator parameter fail. `SetToSeqType` shows that `SetToSeq(live)` is a sequence of the live segments, from `FS_CardinalityType`. `WalkInv` was checked with TLC on the `shm_list_freebsd` instance before it was proved.

What stays with TLC:

- **Liveness** (`GetPortTerminates`), because TLAPS does not handle ENABLED or fairness.
- **Sums over sets.** `ListBytes` (the sizing sysctl's byte count) is a `MapThenSumSet` fold. Facts about it need the fold's recursion equation, and no installed prover can instantiate the library theorems that give it (they take an operator parameter). No theorem depends on `len`.
- **The environment's failures.** With two writers or early attachers, the refinement fails. The violation runs show it.
- **The helpers of `Math`.** They use `Bitwise`, which is out of the provers' reach.
- **`NoLeakedMapping` with enforced base addresses, and `CreateFailureRollsBack`.** Both fail (the findings), so neither is proved as stated. `NoLeakedMapping` is proved under `Settings`, and the `>=` form `Counted` without it. The part of the rollback that the code does guarantee is proved as `CreatedValueRollsBack`.

## Not modelled

- **PAL wrappers.** They only forward to the OS.
- **Error variants.** Variants that differ only in the errno they report (EACCES, ENAMETOOLONG, ENFILE, unknown) behave like a failure that changes nothing.
- **Memory orderings.** The model is sequentially consistent. `init_check`'s Relaxed ordering would matter only to attachers, and they never read it.
- **The scope guard.** Only its tests are in the repository, so it is still not modelled.
- **What the kernel and libc do**, beyond what the code relies on: the order of the kernel's records and of `readdir`, and the contents of uninitialised memory, are left nondeterministic.
- **Names of 256 bytes or more in FreeBSD `shm_list`.** Names are model values. `strncpy` leaves such a name without a NUL, and what `FileName::from_c_str` then does is outside this repository.

## Plan

1. `ScopeGuard`, modelled from spec section 4.7.
