------------------------ MODULE ShmListLinux_proofs ------------------------
(***************************************************************************)
(* Proofs about the Linux shm_list scan: for every set of segment names,   *)
(* a scan that opened /dev/shm lists every segment that stayed live        *)
(* during the whole call.                                                  *)
(***************************************************************************)
EXTENDS ShmListLinux, SequenceTheorems, TLAPS

USE NoEntryAssumption

(* The scan keeps its directory stream and its vector in step: readdir   *)
(* has returned exactly the names pushed, and a call that gets past       *)
(* opendir has not failed.                                                *)
IInv ==
    /\ TypeOK
    /\ pc = "opendir" => result = <<>> /\ ~failed
    /\ pc = "readdir" => returned = Listed /\ ~failed
    /\ ListComplete

(* Pushing e adds exactly e to the names of a vector. *)
LEMMA AppendListed ==
    ASSUME NEW S, NEW s \in Seq(S), NEW e
    PROVE  {Append(s, e)[i] : i \in 1..Len(Append(s, e))}
             = {s[i] : i \in 1..Len(s)} \cup {e}
BY AppendProperties

THEOREM InitIInv == Init => IInv
<1> SUFFICES ASSUME Init PROVE IInv
    OBVIOUS
<1>1. result \in Seq(Segs \cup Dots) /\ Listed = {}
    BY DEF Init, Listed
<1>2. TypeOK
    BY <1>1 DEF Init, TypeOK
<1>3. QED
    BY <1>1, <1>2 DEF Init, IInv, ListComplete

LEMMA EnvIInv ==
    ASSUME IInv, NEW s \in Segs, CreateSeg(s) \/ UnlinkSeg(s)
    PROVE  IInv'
BY DEF IInv, TypeOK, ListComplete, Listed, CreateSeg, UnlinkSeg

LEMMA ReaddirIInv ==
    ASSUME IInv, Readdir
    PROVE  IInv'
<1> USE DEF IInv
<1>1. PICK e \in ReaddirResults :
          IF e = NoEntry
            THEN pc' = "done" /\ UNCHANGED <<returned, result>>
            ELSE /\ returned' = returned \cup {e}
                 /\ result' = Append(result, e)
                 /\ UNCHANGED pc
    BY DEF Readdir
<1>2. pc = "readdir" /\ returned = Listed /\ ~failed /\ TypeOK
    BY DEF Readdir
<1>3. UNCHANGED <<live, seen, always, failed>>
    BY DEF Readdir
<1>4. CASE e = NoEntry
    <2>1. Dots \cup always \subseteq returned
        BY <1>1, <1>2, <1>4, NoEntryAssumption DEF ReaddirResults, TypeOK
    <2>2. pc' = "done" /\ UNCHANGED <<returned, result>>
        BY <1>1, <1>4
    <2>3. TypeOK'
        BY <1>2, <1>3, <2>2 DEF TypeOK
    <2>4. ListComplete'
        BY <1>2, <1>3, <2>1, <2>2 DEF ListComplete, Listed
    <2>5. QED
        BY <2>2, <2>3, <2>4
<1>5. CASE e # NoEntry
    <2>1. e \in Segs \cup Dots
        BY <1>1, <1>2, <1>5 DEF ReaddirResults, TypeOK
    <2>2. Listed' = Listed \cup {e}
        BY <1>1, <1>2, <1>5, AppendListed DEF TypeOK, Listed
    <2>3. result' \in Seq(Segs \cup Dots)
        BY <1>1, <1>2, <1>5, <2>1 DEF TypeOK
    <2>4. QED
        BY <1>1, <1>2, <1>3, <1>5, <2>1, <2>2, <2>3 DEF TypeOK, ListComplete
<1>6. QED
    BY <1>4, <1>5

THEOREM StepIInv == IInv /\ [Next]_vars => IInv'
<1> SUFFICES ASSUME IInv, [Next]_vars PROVE IInv'
    OBVIOUS
<1>1. CASE \E s \in Segs : CreateSeg(s) \/ UnlinkSeg(s)
    BY <1>1, EnvIInv
<1>2. CASE ListStart
    <2>1. result' = <<>> /\ pc' = "opendir" /\ ~failed'
        BY <1>2 DEF ListStart
    <2>2. result' \in Seq(Segs \cup Dots)
        BY <2>1
    <2>3. QED
        BY <1>2, <2>1, <2>2 DEF ListStart, IInv, TypeOK, ListComplete
<1>3. CASE Opendir
    <2>1. pc = "opendir" /\ result = <<>> /\ ~failed /\ TypeOK
        BY <1>3 DEF Opendir, IInv
    <2>2. Listed = {}
        BY <2>1 DEF Listed
    <2>3. UNCHANGED <<live, result, seen, always>>
        BY <1>3 DEF Opendir
    <2>4. CASE pc' = "readdir" /\ returned' = {} /\ UNCHANGED failed
        BY <2>1, <2>2, <2>3, <2>4 DEF IInv, TypeOK, ListComplete, Listed
    <2>5. CASE pc' = "done" /\ failed' = TRUE /\ UNCHANGED returned
        BY <2>1, <2>3, <2>5 DEF IInv, TypeOK, ListComplete, Listed
    <2>6. QED
        BY <1>3, <2>4, <2>5 DEF Opendir
<1>4. CASE Readdir
    BY <1>4, ReaddirIInv
<1>5. CASE ListReturn
    BY <1>5 DEF ListReturn, IInv, TypeOK, ListComplete, Listed
<1>6. CASE UNCHANGED vars
    BY <1>6 DEF vars, IInv, TypeOK, ListComplete, Listed
<1>7. QED
    BY <1>1, <1>2, <1>3, <1>4, <1>5, <1>6 DEF Next

THEOREM AlwaysIInv == Spec => []IInv
BY InitIInv, StepIInv, PTL DEF Spec

(* Every scan that opened /dev/shm lists every segment that stayed live  *)
(* through the whole call, whatever creations and unlinks interleave     *)
(* with its readdir loop (ListComplete, for every set of names).         *)
THEOREM ScanComplete == Spec => []ListComplete
BY AlwaysIInv, PTL DEF IInv

(* Every variable of the Linux shm_list model keeps its type: the result  *)
(* is a vector of segment names and directory dots, and the readdir       *)
(* stream's returned set only holds entries of /dev/shm.                  *)
THEOREM TypeCorrect == Spec => []TypeOK
BY AlwaysIInv, PTL DEF IInv
=============================================================================
