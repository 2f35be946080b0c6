--------------------------- MODULE ShmListLinux ---------------------------
(***************************************************************************)
(* Linux shm_list (elkodon_pal/posix/src/linux/mman.rs): one caller scans *)
(* /dev/shm with opendir/readdir while other processes create and unlink  *)
(* segments. readdir follows POSIX: every entry that exists from opendir  *)
(* to the end of the scan is returned once, "." and ".." included; an     *)
(* entry created or removed during the scan may or may not be returned.   *)
(***************************************************************************)
EXTENDS Naturals, Sequences

CONSTANTS
    Segs,     \* segment names, the files of /dev/shm
    NoEntry   \* the null dirent pointer

Dots == {".", ".."}

ASSUME NoEntryAssumption == NoEntry \notin Segs \cup Dots

VARIABLES
    live,      \* the files of /dev/shm
    pc,        \* where the caller is in shm_list
    returned,  \* the directory stream: entries readdir has returned
    result,    \* the returned vector
    seen,      \* ghost: segments live at some time during the call
    always,    \* ghost: segments live during the whole call
    failed     \* ghost: opendir failed

vars == <<live, pc, returned, result, seen, always, failed>>

(* The names in the vector. *)
Listed == {result[i] : i \in 1..Len(result)}

Init ==
    /\ live = {}
    /\ pc = "idle"
    /\ returned = {}
    /\ result = <<>>
    /\ seen = {}
    /\ always = {}
    /\ failed = FALSE

(* Another process's shm_open(O_CREAT) or shm_unlink. *)
CreateSeg(s) ==
    /\ s \notin live
    /\ live' = live \cup {s}
    /\ seen' = IF pc = "idle" THEN seen ELSE seen \cup {s}
    /\ UNCHANGED <<pc, returned, result, always, failed>>

UnlinkSeg(s) ==
    /\ s \in live
    /\ live' = live \ {s}
    /\ always' = always \ {s}
    /\ UNCHANGED <<pc, returned, result, seen, failed>>

ListStart ==
    /\ pc = "idle"
    /\ pc' = "opendir"
    /\ seen' = live
    /\ always' = live
    /\ result' = <<>>
    /\ failed' = FALSE
    /\ UNCHANGED <<live, returned>>

(* opendir("/dev/shm/"): a null DIR returns the empty vector. *)
Opendir ==
    /\ pc = "opendir"
    /\ \/ /\ pc' = "readdir"
          /\ returned' = {}
          /\ UNCHANGED failed
       \/ /\ pc' = "done"
          /\ failed' = TRUE
          /\ UNCHANGED returned
    /\ UNCHANGED <<live, result, seen, always>>

(* What one readdir call may return: an entry not returned yet that      *)
(* existed during the scan, or null once every entry that existed        *)
(* throughout has been returned.                                         *)
ReaddirResults ==
    ((Dots \cup seen) \ returned)
    \cup (IF Dots \cup always \subseteq returned THEN {NoEntry} ELSE {})

(* Mutant: the loop pushes d_name before its null check. *)
ReaddirPushFirst ==
    /\ pc = "readdir"
    /\ \E e \in ReaddirResults :
          /\ result' = Append(result, e)
          /\ IF e = NoEntry
               THEN pc' = "done" /\ UNCHANGED returned
               ELSE returned' = returned \cup {e} /\ UNCHANGED pc
    /\ UNCHANGED <<live, seen, always, failed>>

(* Mutant: a filter for "." and ".." that breaks instead of skipping. *)
ReaddirStopsAtDot ==
    /\ pc = "readdir"
    /\ \E e \in ReaddirResults :
          IF e \in Dots \cup {NoEntry}
            THEN pc' = "done" /\ UNCHANGED <<returned, result>>
            ELSE /\ returned' = returned \cup {e}
                 /\ result' = Append(result, e)
                 /\ UNCHANGED pc
    /\ UNCHANGED <<live, seen, always, failed>>

(* One turn of the loop: readdir, break and closedir on null, else push  *)
(* d_name.                                                               *)
Readdir ==
    /\ pc = "readdir"
    /\ \E e \in ReaddirResults :
          IF e = NoEntry
            THEN pc' = "done" /\ UNCHANGED <<returned, result>>
            ELSE /\ returned' = returned \cup {e}
                 /\ result' = Append(result, e)
                 /\ UNCHANGED pc
    /\ UNCHANGED <<live, seen, always, failed>>

(* The caller takes the vector; the next call may start. *)
ListReturn ==
    /\ pc = "done"
    /\ pc' = "idle"
    /\ UNCHANGED <<live, returned, result, seen, always, failed>>

Next ==
    \/ \E s \in Segs : CreateSeg(s) \/ UnlinkSeg(s)
    \/ ListStart \/ Opendir \/ Readdir \/ ListReturn

Spec == Init /\ [][Next]_vars

-----------------------------------------------------------------------------
(* Properties *)

TypeOK ==
    /\ live \subseteq Segs
    /\ pc \in {"idle", "opendir", "readdir", "done"}
    /\ returned \subseteq Segs \cup Dots
    /\ result \in Seq(Segs \cup Dots)
    /\ seen \subseteq Segs /\ always \subseteq seen
    /\ failed \in BOOLEAN

(* Spec 4.5: every segment that stays live during the whole scan is      *)
(* listed unless opendir failed, however creations and unlinks of other  *)
(* segments interleave with the readdir loop.                            *)
ListComplete ==
    (pc = "done" /\ ~failed) => always \subseteq Listed

(* Spec 4.5: shm_list returns segment names, each live at some time      *)
(* during the call.                                                      *)
ListSound ==
    pc = "done" => Listed \subseteq seen

=============================================================================
