------------------------ MODULE ParameterSetsProofs ------------------------
(***************************************************************************)
(* Proofs about ParameterSets, for any ids and contents, and about the     *)
(* records of Avcc that take their sets from it, of any length.            *)
(*                                                                         *)
(* What a slice is read or written with is decided by the tables, so the   *)
(* invariant behind the properties of slices is that a table holds what    *)
(* was last read.  For the subset SPS that needs the locations to be       *)
(* distinct, which is so for the debugging reader.                         *)
(***************************************************************************)
EXTENDS Avcc, SequenceTheorems, TLAPS

USE IdsAreIndices, ZeroIsAnId, BlankIsNoContents

\* The tables of value copies hold the last set of each id.
TablesHoldLatest ==
  /\ \A id \in SpsIds : got_sps[id] \subseteq {sps_table[id]}
  /\ \A id \in PpsIds : got_pps[id] \subseteq {pps_table[id]}

\* What a slice used came from those tables.
UsedFromTables ==
  \A u \in used :
    /\ u.id \in PpsIds /\ u.pps = pps_table[u.id] /\ u.pps \in Pps
    /\ u.op \in {"read", "write"} => u.sps = sps_table[u.pps.sps]

AvcInv == TypeOK /\ TablesHoldLatest /\ UsedFromTables

\* Zeros are sets, and what a unit holds is one.
LEMMA SetsAreTyped ==
  BlankSps \in Sps /\ BlankPps \in Pps /\ SpsUnits \subseteq Sps
BY DEF BlankSps, BlankPps, Sps, Pps, SpsUnits

\* The type of "used", for the one use that a slice makes.
LEMMA UseIsTyped ==
  ASSUME NEW op \in {"read", "read_svc", "write", "write_svc"},
         NEW id \in PpsIds, NEW p \in Pps, NEW s \in Sps
  PROVE  Use(op, id, p, s) \subseteq
           [op : {"read", "read_svc", "write", "write_svc"},
            id : PpsIds, pps : Pps, sps : Sps]
<1>1. [op |-> op, id |-> id, pps |-> p, sps |-> s] \in
        [op : {"read", "read_svc", "write", "write_svc"},
         id : PpsIds, pps : Pps, sps : Sps]
  OBVIOUS
<1> QED
  BY <1>1 DEF Use

\* The invariant holds after h264_new.
LEMMA InitAvcInv == Init => AvcInv
<1> SUFFICES ASSUME Init PROVE AvcInv
  OBVIOUS
<1>1. TypeOK
  BY SetsAreTyped DEF Init, TypeOK, Locations
<1>2. TablesHoldLatest /\ UsedFromTables
  BY DEF Init, TablesHoldLatest, UsedFromTables
<1> QED
  BY <1>1, <1>2 DEF AvcInv

\* Reading a set keeps the invariant: it is stored under its own id.
LEMMA ReadSetAvcInv ==
  ASSUME AvcInv, NEW cut \in BOOLEAN,
         \/ \E s \in SpsUnits : ReadSps(s, cut) \/ ReadSubset(s, cut)
         \/ \E p \in Pps : ReadPps(p, cut)
  PROVE  AvcInv'
<1> USE DEF AvcInv, TypeOK
<1>1. ASSUME NEW s \in SpsUnits, ReadSps(s, cut)
      PROVE  AvcInv'
  <2>1. s \in Sps /\ s.id \in SpsIds
    BY SetsAreTyped DEF Sps
  <2>2. TypeOK'
    <3>1. sps' = s /\ sps_table' = [sps_table EXCEPT ![s.id] = s] /\ used' = {}
      BY <1>1 DEF ReadSps
    <3>2. sps_table' \in [SpsIds -> Sps]
      BY <2>1, <3>1
    <3>3. \A id \in SpsIds : sps_table'[id] = BlankSps \/ sps_table'[id].id = id
      BY <2>1, <3>1
    <3>4. got_sps' \in [SpsIds -> SUBSET Sps]
      BY <1>1, <2>1 DEF ReadSps, Complete
    <3> QED
      BY <1>1, <2>1, <3>1, <3>2, <3>3, <3>4 DEF ReadSps, svc, sent
  <2>3. TablesHoldLatest'
    BY <1>1, <2>1 DEF ReadSps, Complete, TablesHoldLatest
  <2>4. UsedFromTables'
    BY <1>1 DEF ReadSps, UsedFromTables
  <2> QED
    BY <2>2, <2>3, <2>4
<1>2. ASSUME NEW s \in SpsUnits, ReadSubset(s, cut)
      PROVE  AvcInv'
  <2>1. s \in Sps /\ s.id \in SpsIds
    BY SetsAreTyped DEF Sps
  <2>2. heap' \in [Locations -> Sps] /\ subset_table' \in [SpsIds -> Locations]
    <3>1. CopyToTable(s.id, s)
      BY <1>2 DEF ReadSubset
    <3>2. CASE /\ heap' = [heap EXCEPT ![subset] = s]
               /\ subset_table' = [subset_table EXCEPT ![s.id] = subset]
      BY <2>1, <3>2
    <3>3. CASE /\ heap' = [heap EXCEPT ![subset] = s, ![subset_table[s.id]] = s]
               /\ UNCHANGED subset_table
      BY <2>1, <3>3
    <3> QED
      BY <3>1, <3>2, <3>3 DEF CopyToTable
  <2>3. TypeOK'
    BY <1>2, <2>1, <2>2 DEF ReadSubset, Complete, avc, sent
  <2>4. TablesHoldLatest' /\ UsedFromTables'
    BY <1>2 DEF ReadSubset, TablesHoldLatest, UsedFromTables, avc
  <2> QED
    BY <2>3, <2>4
<1>3. ASSUME NEW p \in Pps, ReadPps(p, cut)
      PROVE  AvcInv'
  <2>1. p.id \in PpsIds
    BY DEF Pps
  <2>2. TypeOK'
    BY <1>3, <2>1 DEF ReadPps, Complete, svc, sent
  <2>3. TablesHoldLatest'
    BY <1>3, <2>1 DEF ReadPps, Complete, TablesHoldLatest
  <2>4. UsedFromTables'
    BY <1>3 DEF ReadPps, UsedFromTables
  <2> QED
    BY <2>2, <2>3, <2>4
<1> QED
  BY <1>1, <1>2, <1>3

\* Reading or writing a slice keeps the invariant.
LEMMA SliceAvcInv ==
  ASSUME AvcInv, NEW id \in PpsIds,
         \/ ReadSlice(id) \/ WriteSlice(id)
         \/ ReadSvcSlice(id) \/ WriteSvcSlice(id)
  PROVE  AvcInv'
<1> USE DEF AvcInv, TypeOK
<1>1. pps_table[id] \in Pps /\ pps_table[id].sps \in SpsIds
  BY DEF Pps
<1>2. ASSUME ReadSlice(id) \/ WriteSlice(id)
      PROVE  AvcInv'
  <2>1. /\ pps' = pps_table[id] /\ sps' = sps_table[pps_table[id].sps]
        /\ UNCHANGED <<sps_table, pps_table, svc, got, sent>>
    BY <1>2 DEF ReadSlice, WriteSlice, LoadSets
  <2>2. PICK op \in {"read", "write"} : used' = Use(op, id, pps', sps')
    BY <1>2 DEF ReadSlice, WriteSlice
  <2>3. sps' \in Sps /\ pps' \in Pps
    BY <1>1, <2>1
  <2>4. used' \subseteq [op : {"read", "read_svc", "write", "write_svc"},
                         id : PpsIds, pps : Pps, sps : Sps]
    BY <2>2, <2>3, UseIsTyped
  <2>5. TypeOK'
    BY <2>1, <2>3, <2>4 DEF svc, got, sent
  <2>6. TablesHoldLatest'
    BY <2>1 DEF TablesHoldLatest, got
  <2>7. ASSUME NEW u \in used'
        PROVE  /\ u.id = id /\ u.pps = pps_table'[id] /\ u.pps \in Pps
               /\ u.sps = sps_table'[u.pps.sps]
    <3>1. u = [op |-> op, id |-> id, pps |-> pps', sps |-> sps']
      BY <2>2 DEF Use
    <3> QED
      BY <1>1, <2>1, <3>1
  <2>8. UsedFromTables'
    BY <2>7 DEF UsedFromTables
  <2> QED
    BY <2>5, <2>6, <2>8
<1>3. ASSUME ReadSvcSlice(id) \/ WriteSvcSlice(id)
      PROVE  AvcInv'
  <2>1. /\ pps' = pps_table[id]
        /\ UNCHANGED <<sps, sps_table, pps_table, subset_table, got, sent>>
    BY <1>3 DEF ReadSvcSlice, WriteSvcSlice
  <2>2. subset' \in Locations /\ heap' \in [Locations -> Sps]
    <3>1. subset_table[pps_table[id].sps] \in Locations
      BY <1>1
    <3>2. CASE ReadSvcSlice(id)
      BY <2>1, <3>1, <3>2 DEF ReadSvcSlice, CopyFromTable
    <3>3. CASE WriteSvcSlice(id)
      BY <2>1, <3>1, <3>3 DEF WriteSvcSlice
    <3> QED
      BY <1>3, <3>2, <3>3
  <2>3. PICK op \in {"read_svc", "write_svc"} :
          used' = Use(op, id, pps', heap'[subset'])
    BY <1>3 DEF ReadSvcSlice, WriteSvcSlice
  <2>4. used' \subseteq [op : {"read", "read_svc", "write", "write_svc"},
                         id : PpsIds, pps : Pps, sps : Sps]
    <3>1. pps' \in Pps /\ heap'[subset'] \in Sps
      BY <1>1, <2>1, <2>2
    <3> QED
      BY <2>3, <3>1, UseIsTyped
  <2>5. TypeOK'
    BY <1>1, <2>1, <2>2, <2>4 DEF got, sent
  <2>6. TablesHoldLatest'
    BY <2>1 DEF TablesHoldLatest, got
  <2>7. ASSUME NEW u \in used'
        PROVE  /\ u.id = id /\ u.pps = pps_table'[id] /\ u.pps \in Pps
               /\ u.op \notin {"read", "write"}
    <3>1. u = [op |-> op, id |-> id, pps |-> pps', sps |-> heap'[subset']]
      BY <2>3 DEF Use
    <3> QED
      BY <1>1, <2>1, <3>1
  <2>8. UsedFromTables'
    BY <2>7 DEF UsedFromTables
  <2> QED
    BY <2>5, <2>6, <2>8
<1> QED
  BY <1>2, <1>3

\* Writing a set, and assigning to fields, leave the tables alone.
LEMMA WriteSetAvcInv ==
  ASSUME AvcInv, WriteSps \/ WritePps \/ Assign
  PROVE  AvcInv'
<1> USE DEF AvcInv, TypeOK
<1>1. sps.id \in SpsIds /\ pps.id \in PpsIds
  BY DEF Sps, Pps
<1>2. TypeOK'
  <2>1. CASE WriteSps
    BY <1>1, <2>1 DEF WriteSps, avc, svc, got
  <2>2. CASE WritePps
    BY <1>1, <2>2 DEF WritePps, avc, svc, got
  <2>3. CASE Assign
    BY <2>3, SetsAreTyped DEF Assign, svc, got, sent
  <2> QED
    BY <2>1, <2>2, <2>3
<1>3. TablesHoldLatest' /\ UsedFromTables'
  BY DEF WriteSps, WritePps, Assign, TablesHoldLatest, UsedFromTables, avc, got
<1> QED
  BY <1>2, <1>3

\* Every step keeps the invariant.
LEMMA NextAvcInv == AvcInv /\ [Next]_vars => AvcInv'
<1> SUFFICES ASSUME AvcInv, [Next]_vars PROVE AvcInv'
  OBVIOUS
<1>1. CASE \E cut \in BOOLEAN :
             \/ \E s \in SpsUnits : ReadSps(s, cut) \/ ReadSubset(s, cut)
             \/ \E p \in Pps : ReadPps(p, cut)
  BY <1>1, ReadSetAvcInv
<1>2. CASE \E id \in PpsIds : \/ ReadSlice(id) \/ WriteSlice(id)
                              \/ ReadSvcSlice(id) \/ WriteSvcSlice(id)
  BY <1>2, SliceAvcInv
<1>3. CASE WriteSps \/ WritePps \/ Assign
  BY <1>3, WriteSetAvcInv
<1>4. CASE UNCHANGED vars
  BY <1>4 DEF AvcInv, TypeOK, TablesHoldLatest, UsedFromTables,
              vars, avc, svc, got, sent
<1> QED
  BY <1>1, <1>2, <1>3, <1>4
     DEF Next, Read, ReadAvc, ReadSvc, WriteAvc

\* Types, tables and what slices used agree forever.
THEOREM AvcInvHolds == Spec => []AvcInv
BY InitAvcInv, NextAvcInv, PTL DEF Spec

\* The variables have their types; a table entry is blank or of its own id.
THEOREM TypeCorrect == Spec => []TypeOK
<1>1. AvcInv => TypeOK
  BY DEF AvcInv
<1> QED
  BY <1>1, AvcInvHolds, PTL

\* A slice is read with the last sets of the ids it names, whatever sets were
\* read, written, cut off or assigned in between.
THEOREM LatestSets == Spec => []LatestSetsUsed
<1>1. AvcInv => LatestSetsUsed
  BY DEF AvcInv, TypeOK, TablesHoldLatest, UsedFromTables, LatestSetsUsed, Slices, Pps
<1> QED
  BY <1>1, AvcInvHolds, PTL

\* A slice is written with the sets that were passed on to the receiver.
THEOREM ForwardedSets == Spec => []ForwardedSetsUsed
<1>1. AvcInv => ForwardedSetsUsed
  BY DEF AvcInv, TypeOK, TablesHoldLatest, UsedFromTables, ForwardedSetsUsed, Slices, Pps
<1> QED
  BY <1>1, AvcInvHolds, PTL

----------------------------------------------------------------------------
(***************************************************************************)
(* The subset SPS of a program that only reads, by read_debug_nal_unit.    *)
(* No pointer ever moves, so that each location has one owner and is what  *)
(* its table entry stands for.                                             *)
(***************************************************************************)

PointersStay == subset = Work /\ subset_table = [id \in SpsIds |-> id]

\* The locations of the table hold the last subset SPS of each id, and what a
\* slice used came from there.
HeapHoldsLatest ==
  /\ \A id \in SpsIds : got_subset[id] \subseteq {heap[id]}
  /\ \A u \in Slices("read_svc") : u.sps = heap[u.pps.sps]

DebugInv == AvcInv /\ PointersStay /\ HeapHoldsLatest

\* The current structure is none of the table's.
LEMMA WorkIsNoId == Work \notin SpsIds /\ Work \in Locations /\ SpsIds \subseteq Locations
BY DEF Work, Locations

LEMMA InitDebugInv == Init => DebugInv
<1> SUFFICES ASSUME Init PROVE DebugInv
  OBVIOUS
<1>1. PointersStay /\ HeapHoldsLatest
  BY DEF Init, PointersStay, HeapHoldsLatest, Slices
<1> QED
  BY <1>1, InitAvcInv DEF DebugInv

\* What the debugging reader's copies come to.
LEMMA DebugSteps ==
  ASSUME Debug, DebugInv
  PROVE  /\ \A s \in SpsUnits, cut \in BOOLEAN : ReadSubset(s, cut) =>
              /\ heap' = [heap EXCEPT ![Work] = s, ![s.id] = s]
              /\ PointersStay'
         /\ \A id \in PpsIds : ReadSvcSlice(id) =>
              /\ heap' = [heap EXCEPT ![Work] = heap[pps_table[id].sps]]
              /\ PointersStay'
<1>1. ASSUME NEW s \in SpsUnits, NEW cut \in BOOLEAN, ReadSubset(s, cut)
      PROVE  /\ heap' = [heap EXCEPT ![Work] = s, ![s.id] = s]
             /\ PointersStay'
  <2>1. s.id \in SpsIds
    BY SetsAreTyped DEF Sps
  <2>2. subset_table[s.id] = s.id /\ subset = Work
    BY <2>1 DEF DebugInv, PointersStay
  <2>3. heap' = [heap EXCEPT ![subset] = s, ![subset_table[s.id]] = s]
    BY <1>1 DEF ReadSubset, CopyToTable
  <2>4. UNCHANGED <<subset, subset_table>>
    BY <1>1 DEF ReadSubset, CopyToTable
  <2> QED
    BY <2>2, <2>3, <2>4 DEF DebugInv, PointersStay
<1>2. ASSUME NEW id \in PpsIds, ReadSvcSlice(id)
      PROVE  /\ heap' = [heap EXCEPT ![Work] = heap[pps_table[id].sps]]
             /\ PointersStay'
  <2>1. pps_table[id].sps \in SpsIds
    BY DEF DebugInv, AvcInv, TypeOK, Pps
  <2>2. subset_table[pps_table[id].sps] = pps_table[id].sps /\ subset = Work
    BY <2>1 DEF DebugInv, PointersStay
  <2>3. heap' = [heap EXCEPT ![subset] = heap[subset_table[pps_table[id].sps]]]
    BY <1>2 DEF ReadSvcSlice, CopyFromTable
  <2>4. UNCHANGED <<subset, subset_table>>
    BY <1>2 DEF ReadSvcSlice, CopyFromTable
  <2> QED
    BY <2>2, <2>3, <2>4 DEF DebugInv, PointersStay
<1> QED
  BY <1>1, <1>2

LEMMA NextDebugInv ==
  ASSUME Debug, DebugInv, [Read]_vars
  PROVE  DebugInv'
<1>1. AvcInv'
  BY NextAvcInv DEF DebugInv, Next
<1>2. CASE ReadAvc \/ UNCHANGED vars
  <2>1. UNCHANGED <<svc, got_subset>> /\ Slices("read_svc")' \subseteq Slices("read_svc")
    <3>1. CASE \E s \in SpsUnits, cut \in BOOLEAN : ReadSps(s, cut)
      BY <3>1 DEF ReadSps, Slices
    <3>2. CASE \E p \in Pps, cut \in BOOLEAN : ReadPps(p, cut)
      BY <3>2 DEF ReadPps, Slices
    <3>3. CASE \E id \in PpsIds : ReadSlice(id)
      <4>1. PICK id \in PpsIds : ReadSlice(id)
        BY <3>3
      <4>2. \A u \in used' : u.op = "read"
        BY <4>1 DEF ReadSlice, Use
      <4> QED
        BY <4>1, <4>2 DEF ReadSlice, LoadSets, Slices, got
    <3>4. CASE UNCHANGED vars
      BY <3>4 DEF vars, got, Slices
    <3> QED
      BY <1>2, <3>1, <3>2, <3>3, <3>4 DEF ReadAvc
  <2> QED
    BY <1>1, <2>1 DEF DebugInv, PointersStay, HeapHoldsLatest, svc
<1>3. ASSUME NEW s \in SpsUnits, NEW cut \in BOOLEAN, ReadSubset(s, cut)
      PROVE  DebugInv'
  <2>1. s.id \in SpsIds /\ heap \in [Locations -> Sps]
        /\ got_subset \in [SpsIds -> SUBSET Sps]
    BY SetsAreTyped DEF Sps, DebugInv, AvcInv, TypeOK
  <2>2. heap' = [heap EXCEPT ![Work] = s, ![s.id] = s] /\ PointersStay'
    BY <1>3, DebugSteps
  <2>3. got_subset' = [got_subset EXCEPT ![s.id] = Complete(s, cut)] /\ used' = {}
    BY <1>3 DEF ReadSubset
  <2>4. ASSUME NEW id \in SpsIds
        PROVE  got_subset'[id] \subseteq {heap'[id]}
    BY <2>1, <2>2, <2>3, WorkIsNoId DEF Complete, DebugInv, HeapHoldsLatest
  <2> QED
    BY <1>1, <2>2, <2>3, <2>4 DEF DebugInv, HeapHoldsLatest, Slices
<1>4. ASSUME NEW id \in PpsIds, ReadSvcSlice(id)
      PROVE  DebugInv'
  <2>1. heap' = [heap EXCEPT ![Work] = heap[pps_table[id].sps]] /\ PointersStay'
    BY <1>4, DebugSteps
  <2>2. pps_table[id].sps \in SpsIds /\ heap \in [Locations -> Sps]
    BY DEF DebugInv, AvcInv, TypeOK, Pps
  <2>3. \A k \in SpsIds : heap'[k] = heap[k]
    BY <2>1, <2>2, WorkIsNoId
  <2>4. ASSUME NEW u \in used'
        PROVE  u.sps = heap'[u.pps.sps]
    <3>1. u = [op |-> "read_svc", id |-> id, pps |-> pps_table[id],
               sps |-> heap'[subset']]
      BY <1>4 DEF ReadSvcSlice, Use
    <3>2. heap'[subset'] = heap[pps_table[id].sps]
      BY <2>1, <2>2, WorkIsNoId DEF PointersStay
    <3> QED
      BY <2>2, <2>3, <3>1, <3>2
  <2>5. UNCHANGED got_subset
    BY <1>4 DEF ReadSvcSlice, got
  <2>6. HeapHoldsLatest'
    BY <2>3, <2>4, <2>5 DEF DebugInv, HeapHoldsLatest, Slices
  <2> QED
    BY <1>1, <2>1, <2>6 DEF DebugInv
<1> QED
  BY <1>2, <1>3, <1>4 DEF Read, ReadSvc

LEMMA DebugInvHolds ==
  ASSUME Debug
  PROVE  SpecRead => []DebugInv
<1>1. DebugInv /\ [Read]_vars => DebugInv'
  BY NextDebugInv
<1> QED
  BY <1>1, InitDebugInv, PTL DEF SpecRead

\* Each structure of a subset SPS has one owner, so that h264_free frees each
\* of them once.
THEOREM Owned ==
  ASSUME Debug
  PROVE  SpecRead => []OwnedOnce
<1>1. DebugInv => OwnedOnce
  BY WorkIsNoId DEF DebugInv, PointersStay, OwnedOnce
<1> QED
  BY <1>1, DebugInvHolds, PTL

\* A slice of a scalable layer is read with the last PPS of the id it names and
\* the last subset SPS of the id that PPS names.
THEOREM LatestSubset ==
  ASSUME Debug
  PROVE  SpecRead => []LatestSubsetUsed
<1>1. DebugInv => LatestSubsetUsed
  BY ZenonT(40) DEF DebugInv, AvcInv, TypeOK, TablesHoldLatest, UsedFromTables,
         HeapHoldsLatest, LatestSubsetUsed, Slices, Pps
<1> QED
  BY <1>1, DebugInvHolds, PTL

\* The debugging reader is the store: its initial state is the store's, and
\* each step stores one set, uses one, or changes nothing the store has.
THEOREM Implements ==
  ASSUME Debug
  PROVE  SpecRead => ImplementsStore
<1> DEFINE stored == [id \in SpsIds |-> heap[subset_table[id]]]
<1>1. Init => Store!Init
  <2> SUFFICES ASSUME Init PROVE Store!Init
    OBVIOUS
  <2>1. \A id \in SpsIds : heap[subset_table[id]] = BlankSps
    BY WorkIsNoId DEF Init
  <2>2. heap[subset] = BlankSps
    BY WorkIsNoId DEF Init
  <2> QED
    BY <2>1, <2>2 DEF Init, Store!Init, Store!BlankSps, Store!BlankPps, BlankSps, BlankPps
<1>2. ASSUME DebugInv, DebugInv', [Read]_vars
      PROVE  [Store!Next]_(Store!vars)
  <2>1. stored = [id \in SpsIds |-> heap[id]] /\ stored' = [id \in SpsIds |-> heap'[id]]
        /\ heap[subset] = heap[Work] /\ heap'[subset'] = heap'[Work]
    BY <1>2 DEF DebugInv, PointersStay
  <2>2. heap \in [Locations -> Sps]
    BY <1>2 DEF DebugInv, AvcInv, TypeOK
  <2>3. SpsUnits \subseteq Store!Sps /\ Store!Pps = Pps
    BY SetsAreTyped DEF Store!Sps, Sps, Store!Pps, Pps
  <2>4. ASSUME NEW s \in SpsUnits, NEW cut \in BOOLEAN, ReadSps(s, cut)
        PROVE  Store!ReceiveSps(s)
    BY <2>4 DEF ReadSps, Store!ReceiveSps, svc
  <2>5. ASSUME NEW p \in Pps, NEW cut \in BOOLEAN, ReadPps(p, cut)
        PROVE  Store!ReceivePps(p)
    BY <2>5 DEF ReadPps, Store!ReceivePps, svc
  <2>6. ASSUME NEW id \in PpsIds, ReadSlice(id)
        PROVE  Store!UseForSlice(id)
    BY <2>6 DEF ReadSlice, LoadSets, Store!UseForSlice, svc
  <2>7. ASSUME NEW s \in SpsUnits, NEW cut \in BOOLEAN, ReadSubset(s, cut)
        PROVE  Store!ReceiveSubset(s)
    <3>1. heap' = [heap EXCEPT ![Work] = s, ![s.id] = s]
      BY <1>2, <2>7, DebugSteps
    <3>2. s.id \in SpsIds
      BY SetsAreTyped DEF Sps
    <3>3. heap'[Work] = s
      BY <2>2, <3>1, <3>2, WorkIsNoId
    <3>4. stored' = [stored EXCEPT ![s.id] = s]
      <4>1. \A id \in SpsIds : heap'[id] = IF id = s.id THEN s ELSE heap[id]
        BY <2>2, <3>1, <3>2, WorkIsNoId
      <4>2. stored' = [id \in SpsIds |-> IF id = s.id THEN s ELSE heap[id]]
        BY <2>1, <4>1
      <4>3. stored = [id \in SpsIds |-> heap[id]]
        BY <2>1
      <4> HIDE DEF stored
      <4> QED
        BY <4>2, <4>3
    <3> QED
      BY <2>1, <2>7, <3>3, <3>4 DEF ReadSubset, Store!ReceiveSubset, avc
  <2>8. ASSUME NEW id \in PpsIds, ReadSvcSlice(id)
        PROVE  Store!UseForSvcSlice(id)
    <3>1. heap' = [heap EXCEPT ![Work] = heap[pps_table[id].sps]]
      BY <1>2, <2>8, DebugSteps
    <3>2. pps_table[id].sps \in SpsIds
      BY <1>2 DEF DebugInv, AvcInv, TypeOK, Pps
    <3>3. heap'[Work] = heap[pps_table[id].sps]
      BY <2>2, <3>1, <3>2, WorkIsNoId
    <3>4. stored' = stored
      <4>1. \A k \in SpsIds : heap'[k] = heap[k]
        BY <2>2, <3>1, <3>2, WorkIsNoId
      <4> QED
        BY <2>1, <4>1
    <3>5. heap'[Work] = stored[pps_table[id].sps]
      BY <2>1, <3>2, <3>3
    <3> QED
      BY <2>1, <2>8, <3>4, <3>5 DEF ReadSvcSlice, Store!UseForSvcSlice
  <2>9. CASE UNCHANGED vars
    BY <2>9 DEF vars, avc, svc, Store!vars
  <2> QED
    BY <1>2, <2>3, <2>4, <2>5, <2>6, <2>7, <2>8, <2>9
       DEF Read, ReadAvc, ReadSvc, Store!Next
<1> QED
  BY <1>1, <1>2, DebugInvHolds, PTL DEF SpecRead, ImplementsStore, Store!Spec

(***************************************************************************)
(* Proofs about Avcc.                                                      *)
(*                                                                         *)
(* A record is a table of pointers, so what it shows changes without a     *)
(* write to the table.  Behind RecordShowsItsSets is that nothing ever     *)
(* comes into a structure but sets that were met: by a unit, by the        *)
(* program, or, at a slice, from the tables of ParameterSets, which hold   *)
(* what was met.  Behind RecordWritten is that the record written so far   *)
(* is that of the entries passed, which nothing changes meanwhile.         *)
(***************************************************************************)

\* The stream object and the record agree on where things are: what h->sps and
\* h->pps point to is what ParameterSets says, and no entry points elsewhere.
PointersAgree ==
  /\ sps_at \in Structures /\ sps = sps_mem[sps_at]
  /\ pps_at \in Structures /\ pps = pps_mem[pps_at]
  /\ avcc_sps \in Seq(Entries) /\ avcc_pps \in Seq(Entries)

\* An entry shows the set, as long as one was met.
Shown(table, mem, known) ==
  \A x \in known, k \in 1 .. Len(table) :
    known = {x} /\ table[k] # Null => mem[table[k]] = x

NoEntries(table, known) ==
  known = {} => \A k \in 1 .. Len(table) : table[k] = Null

Memory ==
  /\ PointersAgree
  /\ sps_mem \in [Structures -> Sps] /\ pps_mem \in [Structures -> Pps]

SpsShown ==
  /\ \A id \in SpsIds : got_sps[id] \subseteq met_sps
  /\ NoEntries(avcc_sps, met_sps)
  /\ sound => Shown(avcc_sps, sps_mem, met_sps)

PpsShown ==
  /\ \A id \in PpsIds : got_pps[id] \subseteq met_pps
  /\ NoEntries(avcc_pps, met_pps)
  /\ sound => Shown(avcc_pps, pps_mem, met_pps)

RecordInv == AvcInv /\ Memory /\ SpsShown /\ PpsShown

\* A set that is met goes to the structure in use; an entry may be set to it.
LEMMA ShownWithMore ==
  ASSUME NEW Sets, NEW mem \in [Structures -> Sets], NEW at_ \in Structures,
         NEW table \in Seq(Entries), NEW table2 \in Seq(Entries), NEW known, NEW x,
         \/ table2 = table
         \/ \E j \in 1 .. Len(table), e \in {Null, at_} : table2 = [table EXCEPT ![j] = e]
  PROVE  /\ NoEntries(table2, known \cup {x})
         /\ NoEntries(table, known) /\ Shown(table, mem, known) =>
              Shown(table2, [mem EXCEPT ![at_] = x], known \cup {x})
<1>1. NoEntries(table2, known \cup {x})
  BY DEF NoEntries
<1>2. ASSUME NoEntries(table, known), Shown(table, mem, known),
             NEW y \in known \cup {x}, NEW k \in 1 .. Len(table2),
             known \cup {x} = {y}, table2[k] # Null
      PROVE  [mem EXCEPT ![at_] = x][table2[k]] = y
  <2>1. y = x /\ (known = {} \/ known = {x})
    BY <1>2
  <2>2. /\ Len(table2) = Len(table) /\ k \in 1 .. Len(table)
        /\ table2[k] = table[k] \/ table2[k] = at_
    <3>1. CASE table2 = table
      BY <3>1
    <3>2. ASSUME NEW j \in 1 .. Len(table), NEW e \in {Null, at_},
                 table2 = [table EXCEPT ![j] = e]
          PROVE  /\ Len(table2) = Len(table)
                 /\ table2[k] = table[k] \/ table2[k] = at_
      <4>1. Len(table2) = Len(table)
        BY <3>2
      <4>2. table2[k] = IF k = j THEN e ELSE table[k]
        BY <3>2, <4>1
      <4> QED
        BY <1>2, <4>1, <4>2
    <3> QED
      BY <3>1, <3>2
  <2>3. table[k] \in Entries
    BY <2>2
  <2>4. CASE table2[k] = at_
    BY <2>1, <2>4
  <2>5. CASE table2[k] = table[k]
    <3>1. known = {x}
      BY <1>2, <2>1, <2>2, <2>5 DEF NoEntries
    <3>2. mem[table[k]] = x
      BY <1>2, <2>2, <2>5, <3>1 DEF Shown
    <3> QED
      BY <1>2, <2>1, <2>3, <2>5, <3>2 DEF Entries
  <2> QED
    BY <2>2, <2>4, <2>5
<1> QED
  BY <1>1, <1>2 DEF Shown

\* The table stays one.
LEMMA TableKept ==
  ASSUME NEW at_ \in Structures, NEW table \in Seq(Entries), NEW table2,
         \/ table2 = table
         \/ \E j \in 1 .. Len(table), e \in {Null, at_} : table2 = [table EXCEPT ![j] = e]
  PROVE  table2 \in Seq(Entries)
<1>1. CASE table2 = table
  BY <1>1
<1>2. ASSUME NEW j \in 1 .. Len(table), NEW e \in {Null, at_}
      PROVE  [table EXCEPT ![j] = e] \in Seq(Entries)
  <2>1. e \in Entries
    BY DEF Entries
  <2> QED
    BY <2>1
<1> QED
  BY <1>1, <1>2

\* An SPS is read, in a record or elsewhere.
LEMMA SpsMet ==
  ASSUME RecordInv, NEW s \in SpsUnits, NEW cut \in BOOLEAN,
         ReadSps(s, cut), MeetSps(s), Written, avcc_pps' = avcc_pps,
         \/ avcc_sps' = avcc_sps
         \/ \E j \in 1 .. Len(avcc_sps), e \in {Null, sps_at} :
              avcc_sps' = [avcc_sps EXCEPT ![j] = e]
  PROVE  RecordInv'
<1>1. AvcInv'
  BY ReadSetAvcInv DEF RecordInv
<1>2. /\ sps' = s /\ pps' = pps /\ got_pps' = got_pps /\ s \in Sps
      /\ sps_at' = sps_at /\ pps_at' = pps_at
      /\ met_sps' = met_sps \cup {s} /\ met_pps' = met_pps /\ sound' = sound
      /\ got_sps' = [got_sps EXCEPT ![s.id] = Complete(s, cut)]
  BY SetsAreTyped DEF ReadSps, MeetSps, Written, at
<1>3. /\ sps_at \in Structures /\ pps_at \in Structures /\ pps = pps_mem[pps_at]
      /\ sps_mem \in [Structures -> Sps] /\ pps_mem \in [Structures -> Pps]
      /\ avcc_sps \in Seq(Entries) /\ avcc_pps \in Seq(Entries)
  BY DEF RecordInv, Memory, PointersAgree
<1>4. sps_mem' = [sps_mem EXCEPT ![sps_at] = s] /\ pps_mem' = pps_mem
  BY <1>2, <1>3 DEF Written
<1>5. avcc_sps' \in Seq(Entries)
  BY <1>3, TableKept
<1>6. Memory'
  BY <1>2, <1>3, <1>4, <1>5 DEF Memory, PointersAgree
<1>7. SpsShown'
  <2>1. \A id \in SpsIds : got_sps'[id] \subseteq met_sps'
    <3>1. got_sps \in [SpsIds -> SUBSET Sps] /\ \A id \in SpsIds : got_sps[id] \subseteq met_sps
      BY DEF RecordInv, SpsShown, AvcInv, TypeOK
    <3>2. Complete(s, cut) \subseteq {s}
      BY DEF Complete
    <3>3. \A id \in SpsIds : got_sps'[id] = Complete(s, cut) \/ got_sps'[id] = got_sps[id]
      BY <1>2, <3>1
    <3> HIDE DEF RecordInv
    <3> QED
      BY <1>2, <3>1, <3>2, <3>3
  <2>2. /\ NoEntries(avcc_sps', met_sps \cup {s})
        /\ NoEntries(avcc_sps, met_sps) /\ Shown(avcc_sps, sps_mem, met_sps) =>
             Shown(avcc_sps', [sps_mem EXCEPT ![sps_at] = s], met_sps \cup {s})
    BY <1>3, <1>5, ShownWithMore
  <2> QED
    BY <1>2, <1>4, <2>1, <2>2 DEF RecordInv, SpsShown
<1>8. PpsShown'
  BY <1>2, <1>4 DEF RecordInv, PpsShown
<1> QED
  BY <1>1, <1>6, <1>7, <1>8 DEF RecordInv

\* A PPS is read, in a record or elsewhere.
LEMMA PpsMet ==
  ASSUME RecordInv, NEW p \in Pps, NEW cut \in BOOLEAN,
         ReadPps(p, cut), MeetPps(p), Written, avcc_sps' = avcc_sps,
         \/ avcc_pps' = avcc_pps
         \/ \E j \in 1 .. Len(avcc_pps), e \in {Null, pps_at} :
              avcc_pps' = [avcc_pps EXCEPT ![j] = e]
  PROVE  RecordInv'
<1>1. AvcInv'
  BY ReadSetAvcInv DEF RecordInv
<1>2. /\ pps' = p /\ sps' = sps /\ got_sps' = got_sps
      /\ sps_at' = sps_at /\ pps_at' = pps_at
      /\ met_pps' = met_pps \cup {p} /\ met_sps' = met_sps /\ sound' = sound
      /\ got_pps' = [got_pps EXCEPT ![p.id] = Complete(p, cut)]
  BY DEF ReadPps, MeetPps, Written, at
<1>3. /\ sps_at \in Structures /\ pps_at \in Structures /\ sps = sps_mem[sps_at]
      /\ sps_mem \in [Structures -> Sps] /\ pps_mem \in [Structures -> Pps]
      /\ avcc_sps \in Seq(Entries) /\ avcc_pps \in Seq(Entries)
  BY DEF RecordInv, Memory, PointersAgree
<1>4. pps_mem' = [pps_mem EXCEPT ![pps_at] = p] /\ sps_mem' = sps_mem
  BY <1>2, <1>3 DEF Written
<1>5. avcc_pps' \in Seq(Entries)
  BY <1>3, TableKept
<1>6. Memory'
  BY <1>2, <1>3, <1>4, <1>5 DEF Memory, PointersAgree
<1>7. PpsShown'
  <2>1. \A id \in PpsIds : got_pps'[id] \subseteq met_pps'
    <3>1. got_pps \in [PpsIds -> SUBSET Pps] /\ \A id \in PpsIds : got_pps[id] \subseteq met_pps
      BY DEF RecordInv, PpsShown, AvcInv, TypeOK
    <3>2. Complete(p, cut) \subseteq {p}
      BY DEF Complete
    <3>3. \A id \in PpsIds : got_pps'[id] = Complete(p, cut) \/ got_pps'[id] = got_pps[id]
      BY <1>2, <3>1
    <3> HIDE DEF RecordInv
    <3> QED
      BY <1>2, <3>1, <3>2, <3>3
  <2>2. /\ NoEntries(avcc_pps', met_pps \cup {p})
        /\ NoEntries(avcc_pps, met_pps) /\ Shown(avcc_pps, pps_mem, met_pps) =>
             Shown(avcc_pps', [pps_mem EXCEPT ![pps_at] = p], met_pps \cup {p})
    BY <1>3, <1>5, ShownWithMore
  <2> QED
    BY <1>2, <1>4, <2>1, <2>2 DEF RecordInv, PpsShown
<1>8. SpsShown'
  BY <1>2, <1>4 DEF RecordInv, SpsShown
<1> QED
  BY <1>1, <1>6, <1>7, <1>8 DEF RecordInv

\* A slice that names sets read before brings sets that were met.
LEMMA SliceMet ==
  ASSUME RecordInv, NEW id \in PpsIds, ReadSlice(id) \/ WriteSlice(id),
         sound' = (sound /\ NamesKnownSets(id)), UNCHANGED met, Written, UNCHANGED record
  PROVE  RecordInv'
<1>1. AvcInv'
  BY SliceAvcInv DEF RecordInv
<1>2. /\ pps' = pps_table[id] /\ sps' = sps_table[pps_table[id].sps]
      /\ got_sps' = got_sps /\ got_pps' = got_pps
      /\ met_sps' = met_sps /\ met_pps' = met_pps
      /\ avcc_sps' = avcc_sps /\ avcc_pps' = avcc_pps
      /\ sps_at' = sps_at /\ pps_at' = pps_at
      /\ sps_mem' = [sps_mem EXCEPT ![sps_at] = sps']
      /\ pps_mem' = [pps_mem EXCEPT ![pps_at] = pps']
  BY DEF ReadSlice, WriteSlice, LoadSets, got, met, record, Written, at
<1>3. /\ sps_at \in Structures /\ pps_at \in Structures
      /\ sps_mem \in [Structures -> Sps] /\ pps_mem \in [Structures -> Pps]
      /\ avcc_sps \in Seq(Entries) /\ avcc_pps \in Seq(Entries)
  BY DEF RecordInv, Memory, PointersAgree
<1>4. sps' \in Sps /\ pps' \in Pps /\ pps_table[id].sps \in SpsIds
  BY <1>2 DEF RecordInv, AvcInv, TypeOK, Pps
<1>5. Memory'
  BY <1>2, <1>3, <1>4 DEF Memory, PointersAgree
<1>6. ASSUME sound' PROVE sound /\ sps' \in met_sps /\ pps' \in met_pps
  <2>1. PICK p \in got_pps[id] : got_sps[p.sps] # {}
    BY <1>6 DEF NamesKnownSets
  <2>2. p = pps_table[id] /\ p \in met_pps
    BY <2>1 DEF RecordInv, AvcInv, TablesHoldLatest, PpsShown
  <2>3. sps_table[p.sps] \in got_sps[p.sps]
    BY <1>4, <2>1, <2>2 DEF RecordInv, AvcInv, TablesHoldLatest
  <2> QED
    BY <1>2, <1>4, <1>6, <2>2, <2>3 DEF RecordInv, SpsShown
<1>7. SpsShown'
  <2>1. ASSUME sound' PROVE Shown(avcc_sps, sps_mem', met_sps)
    <3>1. /\ NoEntries(avcc_sps, met_sps) /\ Shown(avcc_sps, sps_mem, met_sps) =>
             Shown(avcc_sps, [sps_mem EXCEPT ![sps_at] = sps'], met_sps \cup {sps'})
      BY <1>3, ShownWithMore
    <3>2. met_sps \cup {sps'} = met_sps /\ sound
      BY <1>6, <2>1
    <3> QED
      BY <1>2, <3>1, <3>2 DEF RecordInv, SpsShown
  <2> QED
    BY <1>2, <2>1 DEF RecordInv, SpsShown
<1>8. PpsShown'
  <2>1. ASSUME sound' PROVE Shown(avcc_pps, pps_mem', met_pps)
    <3>1. /\ NoEntries(avcc_pps, met_pps) /\ Shown(avcc_pps, pps_mem, met_pps) =>
             Shown(avcc_pps, [pps_mem EXCEPT ![pps_at] = pps'], met_pps \cup {pps'})
      BY <1>3, ShownWithMore
    <3>2. met_pps \cup {pps'} = met_pps /\ sound
      BY <1>6, <2>1
    <3> QED
      BY <1>2, <3>1, <3>2 DEF RecordInv, PpsShown
  <2> QED
    BY <1>2, <2>1 DEF RecordInv, PpsShown
<1> QED
  BY <1>1, <1>5, <1>7, <1>8 DEF RecordInv

\* Nothing is met, and no entry is set but to null.
LEMMA NothingMet ==
  ASSUME RecordInv, UNCHANGED <<vars, at, structures, history>>,
         avcc_sps' = avcc_sps \/ \E n \in Nat : avcc_sps' = [k \in 1 .. n |-> Null],
         avcc_pps' = avcc_pps \/ \E n \in Nat : avcc_pps' = [k \in 1 .. n |-> Null]
  PROVE  RecordInv'
<1>1. AvcInv'
  <2>1. UNCHANGED vars
    OBVIOUS
  <2> QED
    BY <2>1, NextAvcInv DEF RecordInv
<1>2. /\ UNCHANGED <<sps, pps, got_sps, got_pps, sps_at, pps_at, sps_mem, pps_mem>>
      /\ UNCHANGED <<met_sps, met_pps, sound>>
  BY DEF vars, avc, got, at, structures, history, met
<1>3. \A n \in Nat : [k \in 1 .. n |-> Null] \in Seq(Entries)
  BY DEF Entries
<1>4. Memory'
  BY <1>2, <1>3 DEF RecordInv, Memory, PointersAgree
<1>5. ASSUME NEW n \in Nat, NEW mem, NEW known
      PROVE  /\ NoEntries([k \in 1 .. n |-> Null], known)
             /\ Shown([k \in 1 .. n |-> Null], mem, known)
  <2>1. Len([k \in 1 .. n |-> Null]) = n
    OBVIOUS
  <2> QED
    BY <2>1 DEF NoEntries, Shown
<1>6. SpsShown'
  BY <1>2, <1>5 DEF RecordInv, SpsShown
<1>7. PpsShown'
  BY <1>2, <1>5 DEF RecordInv, PpsShown
<1> QED
  BY <1>1, <1>4, <1>6, <1>7 DEF RecordInv

\* A unit that fails leaves the structures as they are.
LEMMA UnitOfNothing ==
  ASSUME RecordInv, NoUnit, Written
  PROVE  UNCHANGED <<vars, at, structures, history>>
<1>1. sps' = sps /\ pps' = pps
  BY DEF NoUnit, vars, avc
<1>2. sps_mem' = sps_mem /\ pps_mem' = pps_mem
  BY <1>1 DEF RecordInv, Memory, PointersAgree, Written
<1> QED
  BY <1>2 DEF NoUnit, Written, structures

\* Writing an entry moves h->sps or h->pps to it, and nothing else that is read.
LEMMA EntryWritten ==
  ASSUME RecordInv, i \in Nat \ {0},
         WriteSpsEntry \/ WritePpsEntry, pc' # "undefined"
  PROVE  RecordInv'
<1>1. /\ sps_at \in Structures /\ pps_at \in Structures
      /\ sps = sps_mem[sps_at] /\ pps = pps_mem[pps_at]
      /\ sps_mem \in [Structures -> Sps] /\ pps_mem \in [Structures -> Pps]
      /\ avcc_sps \in Seq(Entries) /\ avcc_pps \in Seq(Entries)
  BY DEF RecordInv, Memory, PointersAgree
<1>2. /\ UNCHANGED <<sps_table, pps_table, svc, got, structures, record, history>>
      /\ used' = {}
      /\ \/ /\ UNCHANGED <<pps, pps_at, sent_pps>>
            /\ sps_at' \in Structures /\ sps' = sps_mem[sps_at']
            /\ sent_sps' = sent_sps \/ sent_sps' = [sent_sps EXCEPT ![sps'.id] = {sps'}]
         \/ /\ UNCHANGED <<sps, sps_at, sent_sps>>
            /\ pps_at' \in Structures /\ pps' = pps_mem[pps_at']
            /\ sent_pps' = sent_pps \/ sent_pps' = [sent_pps EXCEPT ![pps'.id] = {pps'}]
  <2>1. CASE WriteSpsEntry
    <3>1. i \in 1 .. Len(avcc_sps)
      BY <1>1, <2>1 DEF WriteSpsEntry
    <3>2. avcc_sps[i] \in Entries
      BY <1>1, <3>1
    <3> QED
      BY <2>1, <3>2 DEF WriteSpsEntry, WriteNull, Entries
  <2>2. CASE WritePpsEntry
    <3>1. i \in 1 .. Len(avcc_pps)
      BY <1>1, <2>2 DEF WritePpsEntry
    <3>2. avcc_pps[i] \in Entries
      BY <1>1, <3>1
    <3> QED
      BY <2>2, <3>2 DEF WritePpsEntry, WriteNull, Entries
  <2> QED
    BY <2>1, <2>2
<1>3. /\ sps' \in Sps /\ pps' \in Pps /\ sps' = sps_mem[sps_at'] /\ pps' = pps_mem[pps_at']
      /\ sps_at' \in Structures /\ pps_at' \in Structures
  BY <1>1, <1>2
<1>4. AvcInv'
  <2>1. sps'.id \in SpsIds /\ pps'.id \in PpsIds
    BY <1>3 DEF Sps, Pps
  <2>2. sent_sps' \in [SpsIds -> SUBSET Sps]
    BY <1>2, <1>3, <2>1 DEF RecordInv, AvcInv, TypeOK
  <2>3. sent_pps' \in [PpsIds -> SUBSET Pps]
    BY <1>2, <1>3, <2>1 DEF RecordInv, AvcInv, TypeOK
  <2>4. TypeOK'
    BY <1>2, <1>3, <2>2, <2>3 DEF RecordInv, AvcInv, TypeOK, svc, got
  <2>5. TablesHoldLatest' /\ UsedFromTables'
    BY <1>2 DEF RecordInv, AvcInv, TablesHoldLatest, UsedFromTables, got
  <2> QED
    BY <2>4, <2>5 DEF AvcInv
<1>5. Memory'
  BY <1>1, <1>2, <1>3 DEF Memory, PointersAgree, structures, record
<1>6. SpsShown' /\ PpsShown'
  BY <1>2 DEF RecordInv, SpsShown, PpsShown, got, structures, record, history, met
<1> QED
  BY <1>4, <1>5, <1>6 DEF RecordInv

\* A program's own record shows the sets it filled in.
LEMMA Composed ==
  ASSUME RecordInv, NEW s \in SpsUnits, NEW p \in Pps, NEW n \in Nat, NEW m \in Nat,
         Compose(s, p, n, m)
  PROVE  RecordInv'
<1>1. /\ sps_at \in Structures /\ pps_at \in Structures
      /\ sps_mem \in [Structures -> Sps] /\ pps_mem \in [Structures -> Pps]
      /\ s \in Sps /\ "program" \in Structures /\ "program" \in Entries
  BY SetsAreTyped DEF RecordInv, Memory, PointersAgree, Structures, Entries
<1>2. /\ sps_mem' = [sps_mem EXCEPT !["program"] = s]
      /\ pps_mem' = [pps_mem EXCEPT !["program"] = p]
      /\ sps' = sps_mem'[sps_at] /\ pps' = pps_mem'[pps_at]
      /\ avcc_sps' = [k \in 1 .. n |-> "program"]
      /\ avcc_pps' = [k \in 1 .. m |-> "program"]
      /\ met_sps' = met_sps \cup {s} /\ met_pps' = met_pps \cup {p} /\ used' = {}
      /\ UNCHANGED <<sps_table, pps_table, svc, got, sent, at>>
  BY DEF Compose
<1>3. sps' \in Sps /\ pps' \in Pps
  BY <1>1, <1>2
<1>4. AvcInv'
  <2>1. TypeOK'
    BY <1>2, <1>3 DEF RecordInv, AvcInv, TypeOK, svc, got, sent
  <2>2. TablesHoldLatest' /\ UsedFromTables'
    BY <1>2 DEF RecordInv, AvcInv, TablesHoldLatest, UsedFromTables, got
  <2> QED
    BY <2>1, <2>2 DEF AvcInv
<1>5. \A l \in Nat : [k \in 1 .. l |-> "program"] \in Seq(Entries)
  BY <1>1
<1>6. Memory'
  BY <1>1, <1>2, <1>5 DEF Memory, PointersAgree, at
<1>7. /\ Shown(avcc_sps', sps_mem', met_sps') /\ Shown(avcc_pps', pps_mem', met_pps')
      /\ NoEntries(avcc_sps', met_sps') /\ NoEntries(avcc_pps', met_pps')
  <2>1. sps_mem'["program"] = s /\ pps_mem'["program"] = p
    BY <1>1, <1>2
  <2>2. /\ Len(avcc_sps') = n /\ \A k \in 1 .. n : avcc_sps'[k] = "program"
        /\ Len(avcc_pps') = m /\ \A k \in 1 .. m : avcc_pps'[k] = "program"
    BY <1>2
  <2> QED
    BY <1>2, <2>1, <2>2 DEF Shown, NoEntries
<1>8. SpsShown' /\ PpsShown'
  BY <1>2, <1>7 DEF RecordInv, SpsShown, PpsShown, got
<1> QED
  BY <1>4, <1>6, <1>8 DEF RecordInv

\* Every step keeps the invariant; the counter of entries starts at 1.
AvccInv == RecordInv /\ i \in Nat \ {0}

LEMMA InitAvccInv == AvccInit => AvccInv
<1> SUFFICES ASSUME AvccInit PROVE RecordInv /\ i \in Nat \ {0}
  BY DEF AvccInv
<1>1. AvcInv
  BY InitAvcInv DEF AvccInit
<1>2. <<>> \in Seq(Entries) /\ Len(<<>>) = 0
  OBVIOUS
<1>3. Memory /\ i \in Nat \ {0}
  BY <1>2, SetsAreTyped DEF AvccInit, Init, Memory, PointersAgree, Structures
<1>4. SpsShown /\ PpsShown
  BY <1>2 DEF AvccInit, Init, SpsShown, PpsShown, NoEntries, Shown
<1> QED
  BY <1>1, <1>3, <1>4 DEF RecordInv

LEMMA NextAvccInv == AvccInv /\ [AvccNext]_avcc_vars => AvccInv'
<1> SUFFICES ASSUME AvccInv, [AvccNext]_avcc_vars
             PROVE  RecordInv' /\ i' \in Nat \ {0}
  BY DEF AvccInv
<1>0. CASE UNCHANGED avcc_vars
  <2>1. UNCHANGED <<vars, at, structures, history, record, pc, i>>
    BY <1>0 DEF avcc_vars
  <2> QED
    BY <2>1, NothingMet DEF AvccInv, record
<1>1. CASE Elsewhere
  <2>1. Written /\ UNCHANGED record /\ i' = i
    BY <1>1 DEF Elsewhere
  <2>2. RecordInv /\ i \in Nat \ {0}
    BY <2>1 DEF AvccInv
  <2>3. UNCHANGED avcc_sps /\ UNCHANGED avcc_pps
    BY <2>1 DEF record
  <2>4. CASE \E s \in SpsUnits, cut \in BOOLEAN : ReadSps(s, cut) /\ MeetSps(s)
    BY <2>1, <2>2, <2>3, <2>4, SpsMet
  <2>5. CASE \E p \in Pps, cut \in BOOLEAN : ReadPps(p, cut) /\ MeetPps(p)
    BY <2>1, <2>2, <2>3, <2>5, PpsMet
  <2>6. CASE \E id \in PpsIds :
               /\ ReadSlice(id) \/ WriteSlice(id)
               /\ sound' = (sound /\ NamesKnownSets(id)) /\ UNCHANGED met
    BY <2>1, <2>2, <2>6, SliceMet
  <2> QED
    BY <1>1, <2>4, <2>5, <2>6 DEF Elsewhere
<1>2. CASE ReadRecord
  <2>1. CASE \E n \in 0 .. MaxSets : StartReading(n) \/ StartPpsEntries(n)
    <3>1. PICK n \in 0 .. MaxSets : StartReading(n) \/ StartPpsEntries(n)
      BY <2>1
    <3>2. /\ UNCHANGED <<vars, at, structures, history>> /\ i' = 1 /\ n \in Nat
          /\ \/ avcc_sps' = [k \in 1 .. n |-> Null] /\ avcc_pps' = avcc_pps
             \/ avcc_pps' = [k \in 1 .. n |-> Null] /\ avcc_sps' = avcc_sps
      BY <3>1, RecordBound DEF StartReading, StartPpsEntries
    <3> QED
      BY <3>2, NothingMet DEF AvccInv
  <2>2. CASE ReadSpsEntry
    <3>1. /\ i <= Len(avcc_sps) /\ Written /\ i' = i + 1
          /\ avcc_pps' = avcc_pps
      BY <2>2 DEF ReadSpsEntry
    <3>2. RecordInv /\ i \in Nat \ {0} /\ i' \in Nat \ {0}
      BY <3>1 DEF AvccInv
    <3>3. i \in 1 .. Len(avcc_sps)
      BY <3>1, <3>2 DEF RecordInv, Memory, PointersAgree
    <3>4. CASE \E s \in SpsUnits, cut \in BOOLEAN :
                 /\ ReadSps(s, cut) /\ MeetSps(s)
                 /\ avcc_sps' = [avcc_sps EXCEPT ![i] = IF cut THEN Null ELSE sps_at]
      BY <3>1, <3>2, <3>3, <3>4, SpsMet
    <3>5. CASE NoUnit /\ UNCHANGED avcc_sps
      <4>1. UNCHANGED <<vars, at, structures, history>>
        BY <3>1, <3>2, <3>5, UnitOfNothing
      <4> QED
        BY <3>1, <3>2, <3>5, <4>1, NothingMet
    <3>6. CASE \E p \in Pps, cut \in BOOLEAN :
                 ReadPps(p, cut) /\ MeetPps(p) /\ UNCHANGED avcc_sps
      BY <3>1, <3>2, <3>6, PpsMet
    <3> QED
      BY <2>2, <3>2, <3>4, <3>5, <3>6 DEF ReadSpsEntry
  <2>3. CASE ReadPpsEntry
    <3>1. /\ i <= Len(avcc_pps) /\ Written /\ i' = i + 1
          /\ avcc_sps' = avcc_sps
      BY <2>3 DEF ReadPpsEntry
    <3>2. RecordInv /\ i \in Nat \ {0} /\ i' \in Nat \ {0}
      BY <3>1 DEF AvccInv
    <3>3. i \in 1 .. Len(avcc_pps)
      BY <3>1, <3>2 DEF RecordInv, Memory, PointersAgree
    <3>4. CASE \E p \in Pps, cut \in BOOLEAN :
                 /\ ReadPps(p, cut) /\ MeetPps(p)
                 /\ avcc_pps' = [avcc_pps EXCEPT ![i] = IF cut THEN Null ELSE pps_at]
      BY <3>1, <3>2, <3>3, <3>4, PpsMet
    <3>5. CASE NoUnit /\ UNCHANGED avcc_pps
      <4>1. UNCHANGED <<vars, at, structures, history>>
        BY <3>1, <3>2, <3>5, UnitOfNothing
      <4> QED
        BY <3>1, <3>2, <3>5, <4>1, NothingMet
    <3>6. CASE \E s \in SpsUnits, cut \in BOOLEAN :
                 ReadSps(s, cut) /\ MeetSps(s) /\ UNCHANGED avcc_pps
      BY <3>1, <3>2, <3>6, SpsMet
    <3> QED
      BY <2>3, <3>2, <3>4, <3>5, <3>6 DEF ReadPpsEntry
  <2> QED
    BY <1>2, <2>1, <2>2, <2>3 DEF ReadRecord
<1>3. CASE StartWriting \/ CountPps \/ Return
  <2>1. /\ UNCHANGED <<vars, at, structures, record, history>> /\ i' = 1
    BY <1>3 DEF StartWriting, CountPps, Return
  <2> QED
    BY <2>1, NothingMet DEF AvccInv, record
<1>4. CASE WriteSpsEntry \/ WritePpsEntry
  <2>1. CASE WriteNull(avcc_sps[i]) \/ WriteNull(avcc_pps[i])
    BY <2>1, NothingMet DEF WriteNull, record, AvccInv
  <2>2. CASE ~WriteNull(avcc_sps[i]) /\ ~WriteNull(avcc_pps[i])
    <3>1. pc' # "undefined" /\ i' = i + 1
      BY <1>4, <2>2 DEF WriteSpsEntry, WritePpsEntry
    <3> QED
      BY <1>4, <3>1, EntryWritten DEF AvccInv
  <2> QED
    BY <2>1, <2>2
<1>5. CASE \E s \in SpsUnits, p \in Pps, n, m \in 0 .. MaxSets : Compose(s, p, n, m)
  <2>1. PICK s \in SpsUnits, p \in Pps, n \in Nat, m \in Nat : Compose(s, p, n, m)
    BY <1>5, RecordBound
  <2>2. i' = i
    BY <2>1 DEF Compose
  <2> QED
    BY <2>1, <2>2, Composed DEF AvccInv
<1> QED
  BY <1>0, <1>1, <1>2, <1>3, <1>4, <1>5 DEF AvccNext, WriteRecord

\* As long as the whole program only ever meets one set of a kind, every entry of a
\* record's table shows it, though slices, units and write_avcc move and fill what
\* it points to; for any number of entries, ids and contents.
THEOREM RecordShows == AvccSpec => []RecordShowsItsSets
<1>1. AvccInv => RecordShowsItsSets
  BY DEF AvccInv, RecordInv, SpsShown, PpsShown, Shown, RecordShowsItsSets
<1> QED
  BY <1>1, InitAvccInv, NextAvccInv, PTL DEF AvccSpec

(***************************************************************************)
(* The record that write_avcc writes.  Nothing but write_avcc runs while   *)
(* it does, and it changes no structure and no table.                      *)
(***************************************************************************)

\* The first n sets of a table, and whether one of them is skipped.
Shows(mem, table, n) == [k \in 1 .. n |-> mem[table[k]]]
Skips(mem, table, n) == \E k \in 1 .. n : mem[table[k]] \in TooLong
Filled(table, n) == \A k \in 1 .. n : table[k] # Null

SpsPart(n) == <<SpsCount(Len(avcc_sps))>> \o Shows(sps_mem, avcc_sps, n)

PpsPart(n) ==
  SpsPart(Len(avcc_sps)) \o <<PpsCount(Len(avcc_pps))>> \o Shows(pps_mem, avcc_pps, n)

SpsWritten(n) ==
  /\ n \in 0 .. Len(avcc_sps) /\ Filled(avcc_sps, n)
  /\ Skips(sps_mem, avcc_sps, n) \/ wire = SpsPart(n)

PpsWritten(n) ==
  /\ n \in 0 .. Len(avcc_pps) /\ Filled(avcc_pps, n)
  /\ Filled(avcc_sps, Len(avcc_sps))
  /\ \/ Skips(sps_mem, avcc_sps, Len(avcc_sps)) \/ Skips(pps_mem, avcc_pps, n)
     \/ wire = PpsPart(n)

WireInv ==
  /\ pc \in {"read_sps", "read_pps"} => wire = <<>>
  /\ pc = "write_sps" => SpsWritten(i - 1)
  /\ pc = "write_pps" => PpsWritten(i - 1)
  /\ RecordWritten

Items == Sps \cup Pps \cup {SpsCount(n) : n \in Nat} \cup {PpsCount(n) : n \in Nat}

\* A count that fits its field is the one that was meant.
LEMMA CountsAreMeant ==
  ASSUME NEW n \in Nat, NEW m \in Nat, n < 32, m < 256
  PROVE  SpsCount(n) = [count |-> n] /\ PpsCount(m) = [count |-> m]
<1>1. n % 32 = n /\ m % 256 = m
  OBVIOUS
<1> QED
  BY <1>1 DEF SpsCount, PpsCount

\* What is appended to two sequences is appended to the second.
LEMMA AppendToLast ==
  ASSUME NEW a \in Seq(Items), NEW b \in Seq(Items), NEW y \in Items
  PROVE  a \o b \in Seq(Items) /\ Append(a \o b, y) = a \o Append(b, y)
<1>1. /\ a \o b \in Seq(Items) /\ Append(b, y) \in Seq(Items)
      /\ Append(a \o b, y) \in Seq(Items) /\ a \o Append(b, y) \in Seq(Items)
      /\ Len(a) \in Nat /\ Len(b) \in Nat
      /\ Len(a \o b) = Len(a) + Len(b)
      /\ Len(Append(a \o b, y)) = Len(a) + Len(b) + 1
      /\ Len(a \o Append(b, y)) = Len(a) + Len(b) + 1
  OBVIOUS
<1>2. ASSUME NEW k \in 1 .. Len(a) + Len(b) + 1
      PROVE  Append(a \o b, y)[k] = (a \o Append(b, y))[k]
  OBVIOUS
<1> QED
  BY <1>1, <1>2, SeqEqual

\* One more set is shown.
LEMMA OneMore ==
  ASSUME NEW Sets, Sets \subseteq Items, NEW mem \in [Structures -> Sets],
         NEW table \in Seq(Entries), NEW n \in Nat, n + 1 <= Len(table),
         Filled(table, n + 1), NEW start \in Seq(Items)
  PROVE  /\ start \o Shows(mem, table, n) \in Seq(Items)
         /\ Append(start \o Shows(mem, table, n), mem[table[n + 1]])
              = start \o Shows(mem, table, n + 1)
<1> DEFINE s == Shows(mem, table, n)
           t == Shows(mem, table, n + 1)
           x == mem[table[n + 1]]
<1>1. ASSUME NEW k \in 1 .. n + 1 PROVE mem[table[k]] \in Items
  <2>1. table[k] \in Entries /\ table[k] # Null
    BY DEF Filled
  <2> QED
    BY <2>1 DEF Entries
<1>2. /\ s \in Seq(Items) /\ Len(s) = n /\ \A k \in 1 .. n : s[k] = mem[table[k]]
      /\ t \in Seq(Items) /\ Len(t) = n + 1
      /\ \A k \in 1 .. n + 1 : t[k] = mem[table[k]]
      /\ x \in Items
  BY <1>1 DEF Shows
<1> HIDE DEF s, t, x
<1>3. t = Append(s, x)
  <2>1. /\ Append(s, x) \in Seq(Items) /\ Len(Append(s, x)) = n + 1
        /\ \A k \in 1 .. n + 1 : Append(s, x)[k] = IF k <= n THEN s[k] ELSE x
    BY <1>2
  <2>2. \A k \in 1 .. n + 1 : t[k] = Append(s, x)[k]
    <3> SUFFICES ASSUME NEW k \in 1 .. n + 1 PROVE t[k] = Append(s, x)[k]
      OBVIOUS
    <3>1. CASE k \in 1 .. n
      BY <1>2, <2>1, <3>1, SMTT(30)
    <3>2. CASE k = n + 1
      BY <1>2, <2>1, <3>2 DEF x
    <3>3. k \in 1 .. n \/ k = n + 1
      OBVIOUS
    <3> QED
      BY <3>1, <3>2, <3>3, Zenon
  <2> QED
    BY <1>2, <2>1, <2>2, SeqEqual
<1>4. start \o s \in Seq(Items) /\ Append(start \o s, x) = start \o Append(s, x)
  <2>1. s \in Seq(Items) /\ x \in Items
    BY <1>2
  <2> QED
    BY <2>1, AppendToLast
<1> QED
  BY <1>3, <1>4 DEF s, t, x

\* Of no set, nothing is shown.
LEMMA NoneShown ==
  ASSUME NEW mem, NEW table, NEW start \in Seq(Items)
  PROVE  start \o Shows(mem, table, 0) = start
<1>1. Shows(mem, table, 0) = <<>>
  BY DEF Shows
<1> QED
  BY <1>1

\* The parts of a record are sequences of counts and sets.
LEMMA PartsTyped ==
  ASSUME RecordInv, Filled(avcc_sps, Len(avcc_sps))
  PROVE  /\ SpsPart(Len(avcc_sps)) \in Seq(Items)
         /\ SpsPart(Len(avcc_sps)) \o <<PpsCount(Len(avcc_pps))>> \in Seq(Items)
<1>1. /\ sps_mem \in [Structures -> Sps] /\ avcc_sps \in Seq(Entries)
      /\ Len(avcc_sps) \in Nat /\ Len(avcc_pps) \in Nat
  BY DEF RecordInv, Memory, PointersAgree
<1>2. SpsCount(Len(avcc_sps)) \in Items /\ PpsCount(Len(avcc_pps)) \in Items
  BY <1>1 DEF Items
<1>3. \A k \in 1 .. Len(avcc_sps) : sps_mem[avcc_sps[k]] \in Items
  <2> SUFFICES ASSUME NEW k \in 1 .. Len(avcc_sps)
               PROVE  sps_mem[avcc_sps[k]] \in Items
    OBVIOUS
  <2>1. avcc_sps[k] \in Structures
    BY <1>1 DEF Filled, Entries
  <2> QED
    BY <1>1, <2>1 DEF Items
<1>4. Shows(sps_mem, avcc_sps, Len(avcc_sps)) \in Seq(Items)
  BY <1>1, <1>3 DEF Shows
<1>5. <<SpsCount(Len(avcc_sps))>> \in Seq(Items) /\ <<PpsCount(Len(avcc_pps))>> \in Seq(Items)
  BY <1>2
<1> QED
  BY <1>4, <1>5 DEF SpsPart

\* What is written of an SPS or a PPS continues the record.
LEMMA SpsEntryContinues ==
  ASSUME RecordInv, WireInv, i \in Nat \ {0}, WriteSpsEntry, pc' # "undefined"
  PROVE  WireInv'
<1>1. /\ pc = "write_sps" /\ i <= Len(avcc_sps) /\ avcc_sps[i] # Null
      /\ UNCHANGED <<structures, record, pc>> /\ i' = i + 1
      /\ sps' = sps_mem[avcc_sps[i]]
      /\ \/ sps' \in TooLong /\ wire' = wire
         \/ sps' \notin TooLong /\ wire' = Append(wire, sps')
  BY DEF WriteSpsEntry, WriteNull
<1>2. /\ sps_mem \in [Structures -> Sps] /\ avcc_sps \in Seq(Entries)
  BY DEF RecordInv, Memory, PointersAgree
<1>3. SpsWritten(i - 1) /\ i - 1 \in Nat /\ (i - 1) + 1 = i
  BY <1>1 DEF WireInv
<1>4. Filled(avcc_sps, i)
  BY <1>1, <1>3 DEF SpsWritten, Filled
<1>5. /\ sps_mem' = sps_mem /\ avcc_sps' = avcc_sps /\ pc' = "write_sps"
      /\ i' - 1 = i /\ i \in 0 .. Len(avcc_sps)
  BY <1>1, <1>2 DEF structures, record
<1>6. CASE Skips(sps_mem, avcc_sps, i - 1) \/ sps' \in TooLong
  <2>1. Skips(sps_mem, avcc_sps, i)
    BY <1>1, <1>3, <1>6 DEF Skips
  <2>2. SpsWritten(i - 1)'
    BY <1>2, <1>4, <1>5, <2>1 DEF SpsWritten
  <2> QED
    BY <1>5, <2>2 DEF WireInv, RecordWritten
<1>7. CASE ~Skips(sps_mem, avcc_sps, i - 1) /\ sps' \notin TooLong
  <2>1. wire = SpsPart(i - 1) /\ wire' = Append(wire, sps')
    BY <1>1, <1>3, <1>7 DEF SpsWritten
  <2>2. <<SpsCount(Len(avcc_sps))>> \in Seq(Items) /\ Sps \subseteq Items
    <3>1. SpsCount(Len(avcc_sps)) \in Items
      BY <1>2 DEF Items
    <3> QED
      BY <3>1 DEF Items
  <2>3. Append(<<SpsCount(Len(avcc_sps))>> \o Shows(sps_mem, avcc_sps, i - 1),
               sps_mem[avcc_sps[i]])
          = <<SpsCount(Len(avcc_sps))>> \o Shows(sps_mem, avcc_sps, i)
    <3>1. PICK n \in Nat : i - 1 = n /\ i = n + 1
      BY <1>3
    <3>2. n + 1 <= Len(avcc_sps) /\ Filled(avcc_sps, n + 1)
      BY <1>1, <1>4, <3>1
    <3>3. Append(<<SpsCount(Len(avcc_sps))>> \o Shows(sps_mem, avcc_sps, n),
                 sps_mem[avcc_sps[n + 1]])
            = <<SpsCount(Len(avcc_sps))>> \o Shows(sps_mem, avcc_sps, n + 1)
      BY <1>2, <2>2, <3>2, OneMore
    <3> QED
      BY <3>1, <3>3, Zenon
  <2>4. wire' = SpsPart(i)
    BY <1>1, <2>1, <2>3 DEF SpsPart
  <2>5. SpsWritten(i - 1)'
    BY <1>2, <1>4, <1>5, <2>4 DEF SpsWritten, SpsPart
  <2> QED
    BY <1>5, <2>5 DEF WireInv, RecordWritten
<1> QED
  BY <1>6, <1>7

LEMMA PpsEntryContinues ==
  ASSUME RecordInv, WireInv, i \in Nat \ {0}, WritePpsEntry, pc' # "undefined"
  PROVE  WireInv'
<1> DEFINE start == SpsPart(Len(avcc_sps)) \o <<PpsCount(Len(avcc_pps))>>
<1>1. /\ pc = "write_pps" /\ i <= Len(avcc_pps) /\ avcc_pps[i] # Null
      /\ UNCHANGED <<structures, record, pc>> /\ i' = i + 1
      /\ pps' = pps_mem[avcc_pps[i]]
      /\ \/ pps' \in TooLong /\ wire' = wire
         \/ pps' \notin TooLong /\ wire' = Append(wire, pps')
  BY DEF WritePpsEntry, WriteNull
<1>2. /\ pps_mem \in [Structures -> Pps] /\ avcc_pps \in Seq(Entries)
  BY DEF RecordInv, Memory, PointersAgree
<1>3. PpsWritten(i - 1) /\ i - 1 \in Nat /\ (i - 1) + 1 = i
  BY <1>1 DEF WireInv
<1>4. Filled(avcc_pps, i) /\ Filled(avcc_sps, Len(avcc_sps))
  BY <1>1, <1>3 DEF PpsWritten, Filled
<1>5. /\ sps_mem' = sps_mem /\ avcc_sps' = avcc_sps /\ pc' = "write_pps"
      /\ pps_mem' = pps_mem /\ avcc_pps' = avcc_pps
      /\ i' - 1 = i /\ i \in 0 .. Len(avcc_pps)
  BY <1>1, <1>2 DEF structures, record
<1>6. CASE \/ Skips(sps_mem, avcc_sps, Len(avcc_sps))
           \/ Skips(pps_mem, avcc_pps, i - 1) \/ pps' \in TooLong
  <2>1. Skips(sps_mem, avcc_sps, Len(avcc_sps)) \/ Skips(pps_mem, avcc_pps, i)
    BY <1>1, <1>3, <1>6 DEF Skips
  <2>2. PpsWritten(i - 1)'
    BY <1>2, <1>4, <1>5, <2>1 DEF PpsWritten
  <2> QED
    BY <1>5, <2>2 DEF WireInv, RecordWritten
<1>7. CASE /\ ~Skips(sps_mem, avcc_sps, Len(avcc_sps))
           /\ ~Skips(pps_mem, avcc_pps, i - 1) /\ pps' \notin TooLong
  <2>1. wire = start \o Shows(pps_mem, avcc_pps, i - 1) /\ wire' = Append(wire, pps')
    BY <1>1, <1>3, <1>7 DEF PpsWritten, PpsPart
  <2>2. start \in Seq(Items) /\ Pps \subseteq Items
    BY <1>4, PartsTyped DEF Items
  <2> HIDE DEF start
  <2>3. Append(start \o Shows(pps_mem, avcc_pps, i - 1), pps_mem[avcc_pps[i]])
          = start \o Shows(pps_mem, avcc_pps, i)
    <3>1. PICK n \in Nat : i - 1 = n /\ i = n + 1
      BY <1>3
    <3>2. n + 1 <= Len(avcc_pps) /\ Filled(avcc_pps, n + 1)
      BY <1>1, <1>4, <3>1
    <3>3. Append(start \o Shows(pps_mem, avcc_pps, n), pps_mem[avcc_pps[n + 1]])
            = start \o Shows(pps_mem, avcc_pps, n + 1)
      BY <1>2, <2>2, <3>2, OneMore
    <3> QED
      BY <3>1, <3>3, Zenon
  <2>4. wire' = PpsPart(i)
    BY <1>1, <2>1, <2>3 DEF PpsPart, start
  <2>5. PpsWritten(i - 1)'
    BY <1>2, <1>4, <1>5, <2>4 DEF PpsWritten, PpsPart, SpsPart
  <2> QED
    BY <1>5, <2>5 DEF WireInv, RecordWritten
<1> QED
  BY <1>6, <1>7

LEMMA InitWireInv == AvccInit => WireInv
  BY DEF AvccInit, WireInv, RecordWritten

\* Every step keeps the record as far as it is written.
LEMMA NextWireInv == AvccInv /\ WireInv /\ [AvccNext]_avcc_vars => WireInv'
<1> SUFFICES ASSUME AvccInv, WireInv, [AvccNext]_avcc_vars PROVE WireInv'
  OBVIOUS
<1>0. /\ RecordInv /\ i \in Nat \ {0}
      /\ avcc_sps \in Seq(Entries) /\ avcc_pps \in Seq(Entries)
      /\ Len(avcc_sps) \in Nat /\ Len(avcc_pps) \in Nat
  BY DEF AvccInv, RecordInv, Memory, PointersAgree
<1>1. ASSUME wire' = <<>>, pc' \in {"idle", "read_sps", "read_pps"}
      PROVE  WireInv'
  BY <1>1 DEF WireInv, RecordWritten
<1>2. CASE Elsewhere
  BY <1>1, <1>2 DEF Elsewhere
<1>3. CASE \E s \in SpsUnits, p \in Pps, n, m \in 0 .. MaxSets : Compose(s, p, n, m)
  BY <1>1, <1>3 DEF Compose
<1>4. CASE ReadRecord
  <2>1. wire' = <<>> /\ pc' \in {"read_sps", "read_pps"}
    BY <1>4 DEF ReadRecord, StartReading, StartPpsEntries, ReadSpsEntry,
       ReadPpsEntry, WireInv
  <2> QED
    BY <1>1, <2>1
<1>5. CASE StartWriting
  <2>1. /\ pc' = "write_sps" /\ i' - 1 = 0 /\ UNCHANGED <<structures, record>>
        /\ wire' = <<SpsCount(Len(avcc_sps))>>
    BY <1>5 DEF StartWriting
  <2>2. <<SpsCount(Len(avcc_sps))>> \in Seq(Items)
    <3>1. SpsCount(Len(avcc_sps)) \in Items
      BY <1>0 DEF Items
    <3> QED
      BY <3>1
  <2>3. wire' = <<SpsCount(Len(avcc_sps))>> \o Shows(sps_mem, avcc_sps, 0)
    BY <2>1, <2>2, NoneShown
  <2>4. /\ sps_mem' = sps_mem /\ avcc_sps' = avcc_sps /\ Filled(avcc_sps, 0)
        /\ 0 \in 0 .. Len(avcc_sps)
    BY <1>0, <2>1 DEF Filled, structures, record
  <2>5. SpsWritten(i - 1)'
    BY <2>1, <2>3, <2>4 DEF SpsWritten, SpsPart
  <2> QED
    BY <2>1, <2>5 DEF WireInv, RecordWritten
<1>6. CASE CountPps
  <2>1. /\ pc = "write_sps" /\ i > Len(avcc_sps) /\ pc' = "write_pps" /\ i' - 1 = 0
        /\ sps_mem' = sps_mem /\ avcc_sps' = avcc_sps
        /\ pps_mem' = pps_mem /\ avcc_pps' = avcc_pps
        /\ wire' = Append(wire, PpsCount(Len(avcc_pps)))
    BY <1>6 DEF CountPps, structures, record
  <2>2. SpsWritten(i - 1)
    BY <2>1 DEF WireInv
  <2>3. i - 1 = Len(avcc_sps)
    BY <1>0, <2>1, <2>2 DEF SpsWritten
  <2>4. SpsWritten(Len(avcc_sps))
    BY <2>2, <2>3, Zenon
  <2> DEFINE start == SpsPart(Len(avcc_sps)) \o <<PpsCount(Len(avcc_pps))>>
  <2>5. start \in Seq(Items) /\ SpsPart(Len(avcc_sps)) \in Seq(Items)
    BY <1>0, <2>4, PartsTyped DEF SpsWritten
  <2>6. ASSUME wire = SpsPart(Len(avcc_sps)) PROVE wire' = PpsPart(0)
    <3>1. wire' = start
      BY <2>1, <2>5, <2>6
    <3> HIDE DEF start
    <3>2. start \o Shows(pps_mem, avcc_pps, 0) = start
      BY <2>5, NoneShown
    <3> QED
      BY <3>1, <3>2 DEF PpsPart, start
  <2>7. 0 \in 0 .. Len(avcc_pps) /\ Filled(avcc_pps, 0)
    BY <1>0 DEF Filled
  <2>8. \/ Skips(sps_mem, avcc_sps, Len(avcc_sps))
        \/ wire' = PpsPart(0)
    BY <2>4, <2>6 DEF SpsWritten
  <2>9. PpsWritten(i - 1)'
    BY <2>1, <2>4, <2>7, <2>8 DEF PpsWritten, SpsWritten, PpsPart, SpsPart
  <2> QED
    BY <2>1, <2>9 DEF WireInv, RecordWritten
<1>7. CASE WriteSpsEntry \/ WritePpsEntry
  <2>1. CASE pc' = "undefined"
    BY <2>1 DEF WireInv, RecordWritten
  <2>2. CASE pc' # "undefined"
    BY <1>0, <1>7, <2>2, SpsEntryContinues, PpsEntryContinues
  <2> QED
    BY <2>1, <2>2
<1>8. CASE Return
  <2>1. /\ pc' = "idle" /\ wire' = wire
        /\ sps_mem' = sps_mem /\ avcc_sps' = avcc_sps
        /\ pps_mem' = pps_mem /\ avcc_pps' = avcc_pps
    BY <1>8 DEF Return, structures, record
  <2>2. CASE pc = "read_pps"
    BY <1>1, <2>1, <2>2 DEF WireInv
  <2>3. CASE pc = "write_pps" /\ i > Len(avcc_pps)
    <3>1. PpsWritten(i - 1)
      BY <2>3 DEF WireInv
    <3>2. i - 1 = Len(avcc_pps)
      BY <1>0, <2>3, <3>1 DEF PpsWritten
    <3>3. PpsWritten(Len(avcc_pps))
      BY <3>1, <3>2, Zenon
    <3>4. ASSUME CountsFit PROVE AnyTooLong \/ wire = AsWritten
      <4>1. /\ SpsCount(Len(avcc_sps)) = [count |-> Len(avcc_sps)]
            /\ PpsCount(Len(avcc_pps)) = [count |-> Len(avcc_pps)]
        BY <1>0, <3>4, CountsAreMeant DEF CountsFit
      <4>2. PpsPart(Len(avcc_pps)) = AsWritten
        BY <4>1, Zenon DEF AsWritten, PpsPart, SpsPart, Shows
      <4>3. \/ Skips(sps_mem, avcc_sps, Len(avcc_sps))
            \/ Skips(pps_mem, avcc_pps, Len(avcc_pps))
            \/ wire = PpsPart(Len(avcc_pps))
        BY <3>3 DEF PpsWritten
      <4> QED
        BY <4>2, <4>3 DEF AnyTooLong, Skips
    <3>5. RecordWritten'
      BY <2>1, <3>4 DEF RecordWritten, CountsFit, AnyTooLong, AsWritten
    <3> QED
      BY <2>1, <3>5 DEF WireInv
  <2> QED
    BY <1>8, <2>2, <2>3 DEF Return
<1>9. CASE UNCHANGED avcc_vars
  <2>1. /\ sps_mem' = sps_mem /\ avcc_sps' = avcc_sps
        /\ pps_mem' = pps_mem /\ avcc_pps' = avcc_pps
        /\ pc' = pc /\ i' = i /\ wire' = wire
    BY <1>9 DEF avcc_vars, structures, record
  <2> QED
    BY <2>1 DEF WireInv, SpsWritten, PpsWritten, SpsPart, PpsPart, RecordWritten,
       CountsFit, AnyTooLong, AsWritten
<1> QED
  BY <1>2, <1>3, <1>4, <1>5, <1>6, <1>7, <1>8, <1>9 DEF AvccNext, WriteRecord

\* A reader that goes by the counts of a record written gets the sets that its
\* entries show, unless one did not fit the buffer, of up to 31 SPSs and 255 PPSs:
\* as many as the fields of the counts can say.
THEOREM RecordIsWritten == AvccSpec => []RecordWritten
<1>1. WireInv => RecordWritten
  BY DEF WireInv
<1> QED
  BY <1>1, InitAvccInv, NextAvccInv, InitWireInv, NextWireInv, PTL DEF AvccSpec
=============================================================================
