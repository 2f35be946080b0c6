-------------------------- MODULE ShmListFreeBSD --------------------------
(***************************************************************************)
(* FreeBSD shm_list (elkodon_pal/posix/src/freebsd/mman.rs): one caller    *)
(* lists the POSIX segments through the kern.ipc.posix_shm_list sysctl     *)
(* while other processes create and unlink segments.                       *)
(*                                                                         *)
(* Sizes are in bytes. The kernel writes one kinfo_file record per live    *)
(* segment, of RecSize[s] bytes (already a multiple of the alignment).     *)
(* The walk reads HeaderLen bytes of a record (kf_structsize up to         *)
(* kf_path[0]) before it decides to stop. Memory the kernel did not write  *)
(* is uninitialised: reading it gives any kf_structsize, zero or a         *)
(* JunkSizes value, and a record read there carries the name Junk.         *)
(***************************************************************************)
EXTENDS Naturals, Sequences, SequencesExt, FiniteSetsExt

CONSTANTS
    Segs,        \* segment names
    RecSize,     \* RecSize[s]: bytes of the kinfo_file record of s
    RecAlign,    \* core::mem::align_of::<kinfo_file>()
    HeaderLen,   \* bytes the loop test reads from a record start
    JunkSizes,   \* non-zero kf_structsize values uninitialised memory holds
    Junk         \* the name copied out of an uninitialised record

ASSUME RecAlignAssumption == RecAlign \in Nat \ {0}
ASSUME HeaderLenAssumption == HeaderLen \in Nat \ {0}
ASSUME RecSizeAssumption ==
    RecSize \in [Segs -> {n \in Nat : n >= HeaderLen /\ n % RecAlign = 0}]
ASSUME JunkAssumption == JunkSizes \subseteq Nat \ {0} /\ Junk \notin Segs

VARIABLES
    live,      \* the kernel's segment table
    pc,        \* where the caller is in shm_list
    len,       \* the local len: sized byte count, then the buffer size
    written,   \* the segments whose records the second sysctl wrote, in order
    starts,    \* starts[k]: byte offset of the k-th record the sysctl wrote
    off,       \* temp - buffer during the walk
    result,    \* the returned vector
    seen,      \* ghost: segments live at some time during the call
    always,    \* ghost: segments live during the whole call
    failed     \* ghost: a call failed for a reason other than ENOMEM

vars == <<live, pc, len, written, starts, off, result, seen, always, failed>>

PCs == {"idle", "nametomib", "sizing", "malloc", "fetch", "walk",
        "done", "overrun"}

(* A rounding that pads a size that is already aligned: a mutant. *)
AlignAlwaysPads(value, alignment) == value + alignment - (value % alignment)

(* The align closure of shm_list. *)
Align(value, alignment) ==
    IF value % alignment = 0 THEN value
    ELSE value + alignment - (value % alignment)

(* Bytes the kernel needs for the records of a set of segments. *)
ListBytes(S) == MapThenSumSet(LAMBDA s : RecSize[s], S)

(* The layouts of a buffer of n bytes into which the kernel writes the     *)
(* records of the segments w one after the other: record k starts where    *)
(* record k - 1 ends, and starts[Len(w) + 1] is the end of the last one.   *)
Layouts(w, n) ==
    {t \in [1..(Len(w) + 1) -> 0..n] :
        /\ t[1] = 0
        /\ \A k \in 1..Len(w) : t[k + 1] = t[k] + RecSize[w[k]]}

(* Byte offset of the k-th record the second sysctl wrote. *)
RecordStart(k) == starts[k]

Init ==
    /\ live = {}
    /\ pc = "idle"
    /\ len = 0
    /\ written = <<>>
    /\ starts = <<0>>
    /\ off = 0
    /\ result = <<>>
    /\ seen = {}
    /\ always = {}
    /\ failed = FALSE

(* Another process's shm_open(O_CREAT) or shm_unlink. *)
CreateSeg(s) ==
    /\ s \notin live
    /\ live' = live \cup {s}
    /\ seen' = IF pc = "idle" THEN seen ELSE seen \cup {s}
    /\ UNCHANGED <<pc, len, written, starts, off, result, always, failed>>

UnlinkSeg(s) ==
    /\ s \in live
    /\ live' = live \ {s}
    /\ always' = always \ {s}
    /\ UNCHANGED <<pc, len, written, starts, off, result, seen, failed>>

(* Every early return hands back the empty vector. *)
ReturnEmpty(isFailure) ==
    /\ pc' = "done"
    /\ result' = <<>>
    /\ failed' = isFailure

ListStart ==
    /\ pc = "idle"
    /\ pc' = "nametomib"
    /\ seen' = live
    /\ always' = live
    /\ result' = <<>>
    /\ written' = <<>>
    /\ starts' = <<0>>
    /\ len' = 0
    /\ off' = 0
    /\ failed' = FALSE
    /\ UNCHANGED live

(* sysctlnametomib: -1 returns the empty vector. *)
NameToMib ==
    /\ pc = "nametomib"
    /\ \/ pc' = "sizing" /\ UNCHANGED <<result, failed>>
       \/ ReturnEmpty(TRUE)
    /\ UNCHANGED <<live, len, written, starts, off, seen, always>>

(* The sizing sysctl with a null buffer sets len to the bytes needed now. *)
SizingSysctl ==
    /\ pc = "sizing"
    /\ \/ /\ pc' = "malloc"
          /\ len' = ListBytes(live)
          /\ UNCHANGED <<result, failed>>
       \/ ReturnEmpty(TRUE) /\ UNCHANGED len
    /\ UNCHANGED <<live, written, starts, off, seen, always>>

(* len = len * 4 / 3, then malloc(len); a null pointer returns. *)
Malloc ==
    /\ pc = "malloc"
    /\ len' = (len * 4) \div 3
    /\ \/ pc' = "fetch" /\ UNCHANGED <<result, failed>>
       \/ ReturnEmpty(TRUE)
    /\ UNCHANGED <<live, written, starts, off, seen, always>>

(* The second sysctl: the records of the segments live now, written one  *)
(* after the other from the start of the buffer, or ENOMEM when they do  *)
(* not fit into len bytes; then free and return.                         *)
Fetch ==
    /\ pc = "fetch"
    /\ IF ListBytes(live) <= len
         THEN /\ pc' = "walk"
              /\ written' = SetToSeq(live)
              /\ starts' \in Layouts(written', len)
              /\ off' = 0
              /\ UNCHANGED <<result, failed>>
         ELSE ReturnEmpty(FALSE) /\ UNCHANGED <<written, starts, off>>
    /\ UNCHANGED <<live, len, seen, always>>

(* One turn of the walk loop. A read that extends past the len bytes of  *)
(* the allocation is undefined behaviour and ends the model of the call. *)
(* At the start of a written record the test passes, the name is pushed  *)
(* and temp advances by the aligned kf_structsize. Anywhere else the     *)
(* bytes are uninitialised: the loop breaks, then free, or it pushes     *)
(* Junk and advances by the aligned junk size.                           *)
WalkRecord ==
    /\ pc = "walk"
    /\ IF off + HeaderLen > len
         THEN pc' = "overrun" /\ UNCHANGED <<off, result>>
       ELSE IF \E k \in 1..Len(written) : RecordStart(k) = off
         THEN LET k == CHOOSE k \in 1..Len(written) : RecordStart(k) = off
              IN /\ result' = Append(result, written[k])
                 /\ off' = off + Align(RecSize[written[k]], RecAlign)
                 /\ UNCHANGED pc
       ELSE \/ pc' = "done" /\ UNCHANGED <<off, result>>
            \/ \E v \in JunkSizes :
                  /\ result' = Append(result, Junk)
                  /\ off' = off + Align(v, RecAlign)
                  /\ UNCHANGED pc
    /\ UNCHANGED <<live, len, written, starts, seen, always, failed>>

(* The caller takes the vector; the next call may start. *)
ListReturn ==
    /\ pc = "done"
    /\ pc' = "idle"
    /\ UNCHANGED <<live, len, written, starts, off, result, seen, always, failed>>

Next ==
    \/ \E s \in Segs : CreateSeg(s) \/ UnlinkSeg(s)
    \/ ListStart \/ NameToMib \/ SizingSysctl \/ Malloc \/ Fetch
    \/ WalkRecord \/ ListReturn

Spec == Init /\ [][Next]_vars

-----------------------------------------------------------------------------
(* Properties *)

(* The walk hands back every record the second sysctl wrote, in the      *)
(* kernel's order, before anything it reads from the uninitialised      *)
(* rest: the align closure must step from record to record exactly.      *)
WalkReturnsWritten ==
    pc = "done" => IsPrefix(written, result)

(* Spec 4.5: shm_list returns segment names, each live at some time      *)
(* during the call (the record walk never yields anything else).         *)
ListSound ==
    pc = "done" => ToSet(result) \subseteq seen

(* The walk never reads past the end of the buffer malloc returned.      *)
NoOverrun == pc # "overrun"

(* Spec 4.5: every segment that stays live during the whole call is      *)
(* listed, unless a system call failed; the 4/3 slack is there for       *)
(* segments created between the two sysctl calls.                        *)
ListComplete ==
    (pc = "done" /\ ~failed) => always \subseteq ToSet(result)

=============================================================================
