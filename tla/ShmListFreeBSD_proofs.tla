----------------------- MODULE ShmListFreeBSD_proofs -----------------------
(***************************************************************************)
(* Proofs about the FreeBSD shm_list model: the record walk hands back    *)
(* the records the second sysctl wrote, in order, before anything it     *)
(* reads from the uninitialised rest of the buffer.                       *)
(***************************************************************************)
EXTENDS ShmListFreeBSD, FiniteSetTheorems, WellFoundedInduction, TLAPS

(* A layout of the records of w: each record starts where the previous    *)
(* one ends (the constraint Layouts puts on the second sysctl's buffer,   *)
(* without its bound).                                                    *)
Contiguous(w, t) ==
    /\ t \in [1..(Len(w) + 1) -> Nat]
    /\ t[1] = 0
    /\ \A k \in 1..Len(w) : t[k + 1] = t[k] + RecSize[w[k]]

TypeOK ==
    /\ live \subseteq Segs /\ IsFiniteSet(live)
    /\ pc \in PCs
    /\ off \in Nat
    /\ written \in Seq(Segs)
    /\ result \in Seq(Segs \cup {Junk})
    /\ Contiguous(written, starts)

(* The walk has pushed the first Len(result) records and temp points at   *)
(* the start of the next one.                                             *)
Scanning ==
    /\ Len(result) < Len(written)
    /\ \A i \in 1..Len(result) : result[i] = written[i]
    /\ off = starts[Len(result) + 1]
    /\ pc # "done"

(* The walk has pushed every record and temp is at or past their end.    *)
Past ==
    /\ Len(written) <= Len(result)
    /\ \A i \in 1..Len(written) : result[i] = written[i]
    /\ off >= starts[Len(written) + 1]

(* The inductive invariant.                                               *)
WalkInv ==
    /\ TypeOK
    /\ pc \in {"nametomib", "sizing", "malloc", "fetch"} =>
          written = <<>> /\ result = <<>> /\ off = 0
    /\ pc \in {"walk", "overrun", "done"} => Scanning \/ Past
-----------------------------------------------------------------------------
USE RecAlignAssumption, HeaderLenAssumption, RecSizeAssumption, JunkAssumption

(* A non-empty set of naturals has a least element: the well-foundedness *)
(* of < on Nat, the induction principle the walk's lemmas rest on.        *)
LEMMA NatMin ==
    ASSUME NEW S \in SUBSET Nat, S # {}
    PROVE  \E m \in S : \A y \in S : m <= y
<1>1. PICK m \in S : \A y \in S : ~(<<y, m>> \in OpToRel(<, Nat))
    BY NatLessThanWellFounded, WFMin, Zenon
<1>2. \A y \in S : ~(y < m)
    BY <1>1, Zenon DEF OpToRel
<1>3. QED
    BY <1>2

(* Every record is at least one header long.                              *)
LEMMA RecSizePositive ==
    ASSUME NEW s \in Segs
    PROVE  RecSize[s] \in Nat /\ RecSize[s] >= 1
BY DEF HeaderLenAssumption

(* Every offset of a layout is a byte count.                             *)
LEMMA ContiguousNat ==
    ASSUME NEW w \in Seq(Segs), NEW t, Contiguous(w, t), NEW k \in 1..(Len(w) + 1)
    PROVE  t[k] \in Nat
BY DEF Contiguous

(* The records of a contiguous layout start at strictly increasing        *)
(* offsets: temp can meet the start of a record only once.                *)
LEMMA StartsIncrease ==
    ASSUME NEW w \in Seq(Segs), NEW t, Contiguous(w, t),
           NEW j \in 1..(Len(w) + 1), NEW k \in 1..(Len(w) + 1), j < k
    PROVE  t[j] < t[k]
<1> DEFINE Bad == {m \in (j + 1)..(Len(w) + 1) : t[m] <= t[j]}
<1>0. t[j] \in Nat /\ t[k] \in Nat
    BY DEF Contiguous
<1>1. SUFFICES ASSUME Bad # {} PROVE FALSE
    BY <1>0 DEF Bad
<1>2. Bad \in SUBSET Nat
    BY DEF Bad
<1>3. PICK m \in Bad : \A y \in Bad : m <= y
    BY <1>1, <1>2, NatMin
<1>4. m - 1 \in j..Len(w) /\ t[m] <= t[j] /\ w[m - 1] \in Segs
    BY <1>3 DEF Bad
<1>5. t[m] = t[m - 1] + RecSize[w[m - 1]] /\ t[m - 1] \in Nat
    <2>1. m - 1 \in 1..Len(w) /\ (m - 1) + 1 = m
        BY <1>4
    <2>2. t[(m - 1) + 1] = t[m - 1] + RecSize[w[m - 1]]
        BY <2>1, Zenon DEF Contiguous
    <2>3. m - 1 \in 1..(Len(w) + 1)
        BY <2>1
    <2>4. t[m - 1] \in Nat
        BY <2>3 DEF Contiguous
    <2>5. QED
        BY <2>1, <2>2, <2>4
<1>6. RecSize[w[m - 1]] \in Nat /\ RecSize[w[m - 1]] >= 1
    <2>1. RecSize[w[m - 1]] \in {n \in Nat : n >= HeaderLen /\ n % RecAlign = 0}
        BY <1>4
    <2>2. QED
        BY <2>1
<1>7. CASE m - 1 = j
    BY <1>4, <1>5, <1>6, <1>7
<1>8. CASE m - 1 # j
    <2>1. m - 1 \notin Bad
        BY <1>3, <1>4
    <2>2. t[m - 1] > t[j]
        <3>1. m - 1 \in (j + 1)..(Len(w) + 1)
            BY <1>4, <1>8
        <3>2. ~(t[m - 1] <= t[j])
            BY <2>1, <3>1 DEF Bad
        <3>3. QED
            BY <1>0, <1>5, <3>2
    <2>3. QED
        BY <1>0, <1>4, <1>5, <1>6, <2>2
<1>9. QED
    BY <1>7, <1>8

(* The align closure leaves a record size alone: kf_structsize is already *)
(* a multiple of the alignment of kinfo_file.                             *)
LEMMA AlignRecord ==
    ASSUME NEW s \in Segs
    PROVE  Align(RecSize[s], RecAlign) = RecSize[s]
BY DEF Align

(* The aligned size of uninitialised memory moves temp forward.           *)
LEMMA AlignJunk ==
    ASSUME NEW v \in JunkSizes
    PROVE  Align(v, RecAlign) \in Nat
<1>1. v \in Nat /\ RecAlign \in Nat \ {0}
    OBVIOUS
<1>2. v % RecAlign \in 0..(RecAlign - 1)
    BY <1>1
<1>3. QED
    BY <1>1, <1>2 DEF Align

(* SetToSeq of a finite set is a sequence of its elements, one entry per *)
(* element.                                                               *)
LEMMA SetToSeqType ==
    ASSUME NEW S, IsFiniteSet(S)
    PROVE  /\ SetToSeq(S) \in Seq(S)
           /\ Len(SetToSeq(S)) = Cardinality(S)
<1>1. Cardinality(S) \in Nat /\ ExistsBijection(1..Cardinality(S), S)
    BY FS_CardinalityType
<1>2. \E f \in [1..Cardinality(S) -> S] : IsInjective(f)
    BY <1>1 DEF ExistsBijection, Bijection, Injection, IsInjective
<1>3. SetToSeq(S) \in [1..Cardinality(S) -> S]
    BY <1>2 DEF SetToSeq
<1>4. QED
    BY <1>1, <1>3

-----------------------------------------------------------------------------
(* The empty list of records has the one-entry layout <<0>>.             *)
LEMMA EmptyLayout == Contiguous(<<>>, <<0>>)
BY DEF Contiguous

LEMMA InitWalkInv ==
    ASSUME Init
    PROVE  WalkInv
<1>1. IsFiniteSet(live)
    BY FS_EmptySet DEF Init
<1>2. QED
    BY <1>1, EmptyLayout DEF Init, WalkInv, TypeOK, PCs

(* Creations and unlinks by other processes change only the segment table *)
(* and the ghost sets.                                                    *)
LEMMA EnvWalkInv ==
    ASSUME WalkInv, NEW s \in Segs, CreateSeg(s) \/ UnlinkSeg(s)
    PROVE  WalkInv'
<1>1. IsFiniteSet(live')
    <2>1. CASE CreateSeg(s)
        BY <2>1, FS_AddElement DEF CreateSeg, WalkInv, TypeOK
    <2>2. CASE UnlinkSeg(s)
        BY <2>2, FS_RemoveElement DEF UnlinkSeg, WalkInv, TypeOK
    <2>3. QED
        BY <2>1, <2>2
<1>2. live' \subseteq Segs
    BY DEF CreateSeg, UnlinkSeg, WalkInv, TypeOK
<1>3. UNCHANGED <<pc, written, starts, off, result>>
    BY DEF CreateSeg, UnlinkSeg
<1>4. QED
    BY <1>1, <1>2, <1>3 DEF WalkInv, TypeOK, Scanning, Past

(* The steps of shm_list before the walk.                                *)
LEMMA ListStartWalkInv ==
    ASSUME WalkInv, ListStart
    PROVE  WalkInv'
BY EmptyLayout DEF ListStart, WalkInv, TypeOK, PCs

LEMMA SysctlFrame ==
    ASSUME WalkInv, pc \in {"nametomib", "sizing", "malloc"},
           UNCHANGED <<live, written, starts, off>>,
           \/ pc' \in {"sizing", "malloc", "fetch"} /\ UNCHANGED result
           \/ pc' = "done" /\ result' = <<>>
    PROVE  WalkInv'
<1>1. written = <<>> /\ result = <<>> /\ off = 0 /\ TypeOK
    BY DEF WalkInv
<1>2. TypeOK'
    <2>1. pc' \in PCs
        BY DEF PCs
    <2>2. QED
        BY <1>1, <2>1 DEF TypeOK, Contiguous
<1>3. CASE pc' \in {"sizing", "malloc", "fetch"} /\ UNCHANGED result
    BY <1>1, <1>2, <1>3 DEF WalkInv
<1>4. CASE pc' = "done" /\ result' = <<>>
    <2>1. Past'
        BY <1>1, <1>4 DEF Past, TypeOK, Contiguous
    <2>2. QED
        BY <1>1, <1>2, <1>4, <2>1 DEF WalkInv
<1>5. QED
    BY <1>3, <1>4

LEMMA SysctlWalkInv ==
    ASSUME WalkInv, NameToMib \/ SizingSysctl \/ Malloc
    PROVE  WalkInv'
<1>1. CASE NameToMib
    <2>1. \/ pc' \in {"sizing", "malloc", "fetch"} /\ UNCHANGED result
          \/ pc' = "done" /\ result' = <<>>
        BY <1>1 DEF NameToMib, ReturnEmpty
    <2>2. QED
        BY <1>1, <2>1, SysctlFrame DEF NameToMib
<1>2. CASE SizingSysctl
    <2>1. \/ pc' \in {"sizing", "malloc", "fetch"} /\ UNCHANGED result
          \/ pc' = "done" /\ result' = <<>>
        BY <1>2 DEF SizingSysctl, ReturnEmpty
    <2>2. QED
        BY <1>2, <2>1, SysctlFrame DEF SizingSysctl
<1>3. CASE Malloc
    <2>1. \/ pc' \in {"sizing", "malloc", "fetch"} /\ UNCHANGED result
          \/ pc' = "done" /\ result' = <<>>
        BY <1>3 DEF Malloc, ReturnEmpty
    <2>2. QED
        BY <1>3, <2>1, SysctlFrame DEF Malloc
<1>4. QED
    BY <1>1, <1>2, <1>3

(* The second sysctl: ENOMEM returns the empty vector, success starts the *)
(* walk at the first record of a contiguous layout.                       *)
LEMMA FetchWalkInv ==
    ASSUME WalkInv, Fetch
    PROVE  WalkInv'
<1>1. pc = "fetch" /\ written = <<>> /\ result = <<>> /\ off = 0 /\ TypeOK
    BY DEF Fetch, WalkInv
<1>2. CASE ListBytes(live) <= len
    <2>1. written' = SetToSeq(live) /\ starts' \in Layouts(written', len)
          /\ off' = 0 /\ pc' = "walk" /\ UNCHANGED <<live, result>>
        BY <1>2 DEF Fetch
    <2>2. written' \in Seq(Segs)
        <3>1. SetToSeq(live) \in Seq(live)
            BY <1>1, SetToSeqType DEF TypeOK
        <3>2. QED
            BY <1>1, <2>1, <3>1 DEF TypeOK
    <2>3. Contiguous(written', starts')
        BY <2>1, <2>2 DEF Layouts, Contiguous
    <2>4. Scanning' \/ Past'
        BY <1>1, <2>1, <2>2, <2>3 DEF Scanning, Past, Contiguous
    <2>5. QED
        BY <1>1, <2>1, <2>2, <2>3, <2>4 DEF WalkInv, TypeOK, PCs
<1>3. CASE ~(ListBytes(live) <= len)
    <2>1. pc' = "done" /\ result' = <<>> /\ UNCHANGED <<live, written, starts, off>>
        BY <1>3 DEF Fetch, ReturnEmpty
    <2>2. QED
        BY <1>1, <2>1 DEF WalkInv, TypeOK, PCs, Past, Contiguous
<1>4. QED
    BY <1>2, <1>3

LEMMA ListReturnWalkInv ==
    ASSUME WalkInv, ListReturn
    PROVE  WalkInv'
BY DEF ListReturn, WalkInv, TypeOK, PCs

(* Pushing one more element keeps the agreement of the earlier ones.      *)
LEMMA AppendAgrees ==
    ASSUME NEW S, NEW r \in Seq(S), NEW x \in S, NEW w, NEW m \in 0..Len(r),
           \A i \in 1..m : r[i] = w[i]
    PROVE  /\ Append(r, x) \in Seq(S)
           /\ Len(Append(r, x)) = Len(r) + 1
           /\ \A i \in 1..m : Append(r, x)[i] = w[i]
           /\ Append(r, x)[Len(r) + 1] = x
OBVIOUS

(* One turn of the walk loop, temp at the start of the next record: the   *)
(* test passes there, the record's name is pushed, and the aligned        *)
(* kf_structsize moves temp to the start of the record after it.         *)
LEMMA WalkAtRecord ==
    ASSUME WalkInv, WalkRecord, ~(off + HeaderLen > len), Scanning
    PROVE  WalkInv'
<1> DEFINE n == Len(written)
           r == Len(result)
<1>1. TypeOK /\ UNCHANGED <<live, written, starts>> /\ pc = "walk"
    BY DEF WalkInv, WalkRecord
<1>2. n \in Nat /\ r \in Nat /\ r + 1 \in 1..n /\ starts[r + 1] = off
    BY <1>1 DEF TypeOK, Scanning
<1>3. \A k \in 1..n : RecordStart(k) = off => k = r + 1
    <2>1. SUFFICES ASSUME NEW k \in 1..n, RecordStart(k) = off, k # r + 1
                   PROVE  FALSE
        OBVIOUS
    <2>2. starts[k] = starts[r + 1]
        BY <1>2, <2>1 DEF RecordStart
    <2>3. /\ written \in Seq(Segs) /\ Contiguous(written, starts)
          /\ k \in 1..(n + 1) /\ r + 1 \in 1..(n + 1)
        BY <1>1, <1>2 DEF TypeOK
    <2>4. CASE k < r + 1
        <3>1. starts[k] < starts[r + 1]
            BY <2>3, <2>4, StartsIncrease, Zenon
        <3>2. QED
            BY <2>2, <2>3, <3>1, ContiguousNat
    <2>5. CASE r + 1 < k
        <3>1. starts[r + 1] < starts[k]
            BY <2>3, <2>5, StartsIncrease, Zenon
        <3>2. QED
            BY <2>2, <2>3, <3>1, ContiguousNat
    <2>6. QED
        BY <1>2, <2>1, <2>4, <2>5
<1>4. (CHOOSE k \in 1..n : RecordStart(k) = off) = r + 1
    <2>1. \E k \in 1..n : RecordStart(k) = off
        BY <1>2 DEF RecordStart
    <2>2. QED
        BY <2>1, <1>3
<1>5. /\ result' = Append(result, written[r + 1])
      /\ off' = off + Align(RecSize[written[r + 1]], RecAlign)
      /\ pc' = "walk"
    <2>1. \E k \in 1..n : RecordStart(k) = off
        BY <1>2 DEF RecordStart
    <2>2. QED
        BY <1>1, <1>4, <2>1 DEF WalkRecord
<1>6. written[r + 1] \in Segs
    BY <1>1, <1>2 DEF TypeOK
<1>7. off' = starts[r + 2]
    <2>1. starts[r + 2] = starts[r + 1] + RecSize[written[r + 1]]
        <3>1. starts[(r + 1) + 1] = starts[r + 1] + RecSize[written[r + 1]]
            BY <1>1, <1>2, Zenon DEF TypeOK, Contiguous
        <3>2. QED
            BY <1>2, <3>1
    <2>2. Align(RecSize[written[r + 1]], RecAlign) = RecSize[written[r + 1]]
        BY <1>6, AlignRecord
    <2>3. QED
        BY <1>2, <1>5, <2>1, <2>2
<1>8. /\ result' \in Seq(Segs \cup {Junk})
      /\ Len(result') = r + 1
      /\ \A i \in 1..(r + 1) : result'[i] = written[i]
    <2>1. \A i \in 1..r : result[i] = written[i]
        BY DEF Scanning
    <2>2. QED
        BY <1>1, <1>2, <1>5, <1>6, <2>1, AppendAgrees DEF TypeOK
<1>9. TypeOK'
    <2>1. starts[r + 2] \in Nat
        <3>1. r + 2 \in 1..(n + 1)
            BY <1>2
        <3>2. QED
            BY <1>1, <3>1, ContiguousNat DEF TypeOK
    <2>2. QED
        BY <1>1, <1>5, <1>7, <1>8, <2>1 DEF TypeOK, PCs
<1>10. Scanning' \/ Past'
    <2>1. CASE r + 1 < n
        BY <1>1, <1>5, <1>7, <1>8, <2>1 DEF Scanning
    <2>2. CASE r + 1 = n
        <3>1. r + 2 = n + 1 /\ starts[n + 1] \in Nat
            <4>1. r + 2 = n + 1 /\ n + 1 \in 1..(n + 1)
                BY <1>2, <2>2
            <4>2. QED
                BY <1>1, <4>1, ContiguousNat DEF TypeOK
        <3>2. off' >= starts'[Len(written') + 1]
            BY <1>1, <1>7, <3>1
        <3>3. Len(written') <= Len(result')
              /\ \A i \in 1..Len(written') : result'[i] = written'[i]
            BY <1>1, <1>8, <2>2
        <3>4. QED
            BY <3>2, <3>3 DEF Past
    <2>3. QED
        BY <1>2, <2>1, <2>2
<1>11. QED
    BY <1>5, <1>9, <1>10 DEF WalkInv

(* One turn of the walk loop once every record is pushed: temp is at or   *)
(* past the end of the last record, so no record starts there; the loop   *)
(* breaks, or pushes the name of uninitialised memory after the records.  *)
LEMMA WalkPastRecords ==
    ASSUME WalkInv, WalkRecord, ~(off + HeaderLen > len), Past
    PROVE  WalkInv'
<1> DEFINE n == Len(written)
<1>1. TypeOK /\ UNCHANGED <<live, written, starts>> /\ pc = "walk"
    BY DEF WalkInv, WalkRecord
<1>2. n \in Nat /\ starts[n + 1] \in Nat /\ off >= starts[n + 1] /\ off \in Nat
    <2>1. n \in Nat /\ n + 1 \in 1..(n + 1)
        BY <1>1 DEF TypeOK
    <2>2. starts[n + 1] \in Nat
        BY <1>1, <2>1, ContiguousNat DEF TypeOK
    <2>3. QED
        BY <1>1, <2>1, <2>2 DEF Past, TypeOK
<1>3. ~\E k \in 1..n : RecordStart(k) = off
    <2>1. SUFFICES ASSUME NEW k \in 1..n, starts[k] = off PROVE FALSE
        BY DEF RecordStart
    <2>2. k \in 1..(n + 1) /\ n + 1 \in 1..(n + 1) /\ k < n + 1
        BY <1>2
    <2>3. starts[k] < starts[n + 1]
        BY <1>1, <2>2, StartsIncrease, Zenon DEF TypeOK
    <2>4. QED
        BY <1>2, <2>1, <2>3
<1>4. \/ pc' = "done" /\ UNCHANGED <<off, result>>
      \/ \E v \in JunkSizes : /\ result' = Append(result, Junk)
                              /\ off' = off + Align(v, RecAlign)
                              /\ pc' = pc
    BY <1>1, <1>3 DEF WalkRecord
<1>5. CASE pc' = "done" /\ UNCHANGED <<off, result>>
    <2>1. TypeOK'
        BY <1>1, <1>5 DEF TypeOK, PCs
    <2>2. QED
        BY <1>1, <1>5, <2>1 DEF WalkInv, Past
<1>6. CASE \E v \in JunkSizes : /\ result' = Append(result, Junk)
                                /\ off' = off + Align(v, RecAlign)
                                /\ pc' = pc
    <2>1. PICK v \in JunkSizes : /\ result' = Append(result, Junk)
                                 /\ off' = off + Align(v, RecAlign)
                                 /\ pc' = pc
        BY <1>6
    <2>2. off' \in Nat /\ off' >= off
        BY <1>1, <2>1, AlignJunk DEF TypeOK
    <2>3. /\ result' \in Seq(Segs \cup {Junk})
          /\ Len(result') = Len(result) + 1
          /\ \A i \in 1..n : result'[i] = written[i]
        <3>1. n \in 0..Len(result) /\ \A i \in 1..n : result[i] = written[i]
            BY <1>1 DEF Past, TypeOK
        <3>2. QED
            BY <1>1, <2>1, <3>1, AppendAgrees DEF TypeOK
    <2>4. Past'
        BY <1>1, <1>2, <2>2, <2>3 DEF Past, TypeOK
    <2>5. TypeOK'
        BY <1>1, <2>1, <2>2, <2>3 DEF TypeOK
    <2>6. QED
        BY <2>1, <2>4, <2>5, <1>1 DEF WalkInv
<1>7. QED
    BY <1>4, <1>5, <1>6

(* A header read past the end of the allocation ends the model of the     *)
(* call; what the walk has pushed is kept.                                *)
LEMMA WalkOverrun ==
    ASSUME WalkInv, WalkRecord, off + HeaderLen > len
    PROVE  WalkInv'
<1>1. pc' = "overrun" /\ UNCHANGED <<live, written, starts, off, result>>
    BY DEF WalkRecord
<1>2. Scanning \/ Past
    BY DEF WalkInv, WalkRecord
<1>3. QED
    BY <1>1, <1>2 DEF WalkInv, TypeOK, PCs, Scanning, Past

LEMMA WalkRecordWalkInv ==
    ASSUME WalkInv, WalkRecord
    PROVE  WalkInv'
<1>1. Scanning \/ Past
    BY DEF WalkInv, WalkRecord
<1>2. QED
    BY <1>1, WalkAtRecord, WalkPastRecords, WalkOverrun

-----------------------------------------------------------------------------
LEMMA StepWalkInv ==
    ASSUME WalkInv, [Next]_vars
    PROVE  WalkInv'
<1>1. CASE \E s \in Segs : CreateSeg(s) \/ UnlinkSeg(s)
    BY <1>1, EnvWalkInv
<1>2. CASE ListStart
    BY <1>2, ListStartWalkInv
<1>3. CASE NameToMib \/ SizingSysctl \/ Malloc
    BY <1>3, SysctlWalkInv
<1>4. CASE Fetch
    BY <1>4, FetchWalkInv
<1>5. CASE WalkRecord
    BY <1>5, WalkRecordWalkInv
<1>6. CASE ListReturn
    BY <1>6, ListReturnWalkInv
<1>7. CASE UNCHANGED vars
    BY <1>7 DEF vars, WalkInv, TypeOK, Scanning, Past, Contiguous
<1>8. QED
    BY <1>1, <1>2, <1>3, <1>4, <1>5, <1>6, <1>7 DEF Next

(* A finished walk has pushed every record the second sysctl wrote.       *)
LEMMA DoneIsPrefix ==
    ASSUME WalkInv, pc = "done"
    PROVE  IsPrefix(written, result)
<1>1. Past /\ TypeOK
    BY DEF WalkInv, Scanning
<1>2. Len(written) <= Len(result) /\ \A i \in 1..Len(written) : result[i] = written[i]
    BY <1>1 DEF Past
<1>3. SubSeq(written, 1, Len(written)) = SubSeq(result, 1, Len(written))
    BY <1>1, <1>2 DEF TypeOK
<1>4. QED
    BY <1>2, <1>3 DEF IsPrefix

(* The FreeBSD shm_list walk hands back every record the second sysctl    *)
(* wrote, in the kernel's order, before anything it reads from the        *)
(* uninitialised rest of the buffer: the align closure steps temp from    *)
(* record to record exactly, for every set of segment names, record sizes *)
(* that are multiples of the alignment, and interleaving of creations and *)
(* unlinks with the call.                                                 *)
THEOREM WalkReturnsWrittenSafety == Spec => []WalkReturnsWritten
<1>1. Init => WalkInv
    BY InitWalkInv
<1>2. WalkInv /\ [Next]_vars => WalkInv'
    BY StepWalkInv
<1>3. WalkInv => WalkReturnsWritten
    BY DoneIsPrefix DEF WalkReturnsWritten
<1>4. QED
    BY <1>1, <1>2, <1>3, PTL DEF Spec

=============================================================================
