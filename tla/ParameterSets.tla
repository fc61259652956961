---------------------------- MODULE ParameterSets ----------------------------
(***************************************************************************)
(* The parameter sets of an h264_stream_t: the current SPS, PPS and subset *)
(* SPS, the tables of those read, and what read_nal_unit, write_nal_unit   *)
(* and a program that assigns to the fields do to them.                    *)
(*                                                                         *)
(* An SPS or PPS is copied by value.  A subset SPS is a structure of       *)
(* pointers; "heap" holds what they point to, and read_nal_unit and        *)
(* write_nal_unit copy the pointers, where read_debug_nal_unit copies what *)
(* they point to.  Its two pointers, to an SPS and to its SVC extension,   *)
(* always move together and are one location here.                         *)
(*                                                                         *)
(* Ids are below the sizes of the tables: the code does not check them.    *)
(***************************************************************************)
EXTENDS Integers

CONSTANTS
  SpsIds, PpsIds,  \* the ids in use
  Contents,        \* what an SPS may say beside its id
  Blank,           \* what one of zeros says
  Debug            \* whether units are read by read_debug_nal_unit

ASSUME IdsAreIndices == SpsIds \subseteq Nat /\ PpsIds \subseteq Nat
ASSUME ZeroIsAnId == 0 \in SpsIds /\ 0 \in PpsIds
ASSUME BlankIsNoContents == Blank \notin Contents
ASSUME ReaderKind == Debug \in BOOLEAN

\* Of a PPS only its ids matter here.
Sps == [id : SpsIds, v : Contents \cup {Blank}]
Pps == [id : PpsIds, sps : SpsIds]
BlankSps == [id |-> 0, v |-> Blank]
BlankPps == [id |-> 0, sps |-> 0]

\* The sets that units hold.
SpsUnits == {s \in Sps : s.v # Blank}

\* A structure for the current subset SPS, and one for each entry of its table.
Work == -1
Locations == SpsIds \cup {Work}

VARIABLES
  sps, pps,                \* *h->sps, *h->pps
  sps_table, pps_table,
  subset, subset_table,    \* the locations h->sps_subset and the table hold
  heap,                    \* the subset SPS at each location
  got_sps, got_pps, got_subset,  \* history: the last set of each id that was
                                 \* read, if it was complete: a set of at most one
  sent_sps, sent_pps,            \* history: the last written of each id, likewise
  used   \* history: the sets used for the slice just read or written, if any

avc == <<sps, pps, sps_table, pps_table>>
svc == <<subset, subset_table, heap>>
got == <<got_sps, got_pps, got_subset>>
sent == <<sent_sps, sent_pps>>
vars == <<avc, svc, got, sent, used>>

\* h264_new
Init ==
  /\ sps = BlankSps /\ pps = BlankPps
  /\ sps_table = [id \in SpsIds |-> BlankSps]
  /\ pps_table = [id \in PpsIds |-> BlankPps]
  /\ subset = Work /\ subset_table = [id \in SpsIds |-> id]
  /\ heap = [l \in Locations |-> BlankSps]
  /\ got_sps = [id \in SpsIds |-> {}] /\ got_subset = [id \in SpsIds |-> {}]
  /\ got_pps = [id \in PpsIds |-> {}]
  /\ sent_sps = [id \in SpsIds |-> {}] /\ sent_pps = [id \in PpsIds |-> {}]
  /\ used = {}

----------------------------------------------------------------------------
(***************************************************************************)
(* Reading.  A unit that is cut off is an error, found once what was read  *)
(* of it is in the table; what was read is then any set at all.            *)
(***************************************************************************)

Complete(set, cut) == IF cut THEN {} ELSE {set}

\* Mutant: the id is that of the SPS before this one.
Mut_ReadSps(s, cut) ==
  /\ sps' = s
  /\ sps_table' = [sps_table EXCEPT ![sps.id] = s]
  /\ got_sps' = [got_sps EXCEPT ![s.id] = Complete(s, cut)]
  /\ UNCHANGED <<pps, pps_table, svc, got_pps, got_subset, sent>>
  /\ used' = {}

ReadSps(s, cut) ==
  /\ sps' = s
  /\ sps_table' = [sps_table EXCEPT ![s.id] = s]
  /\ got_sps' = [got_sps EXCEPT ![s.id] = Complete(s, cut)]
  /\ UNCHANGED <<pps, pps_table, svc, got_pps, got_subset, sent>>
  /\ used' = {}

ReadPps(p, cut) ==
  /\ pps' = p
  /\ pps_table' = [pps_table EXCEPT ![p.id] = p]
  /\ got_pps' = [got_pps EXCEPT ![p.id] = Complete(p, cut)]
  /\ UNCHANGED <<sps, sps_table, svc, got_sps, got_subset, sent>>
  /\ used' = {}

\* Mutant: the debugging reader copies the pointers, as the other one does.
Mut_CopyToTable(id, s) ==
  /\ heap' = [heap EXCEPT ![subset] = s]
  /\ subset_table' = [subset_table EXCEPT ![id] = subset]

\* Mutant: what was read is never copied to the table.
Mut_CopyToTable_Forgets(id, s) ==
  heap' = [heap EXCEPT ![subset] = s] /\ UNCHANGED subset_table

\* The subset SPS s is parsed into the current structure, then copied.
CopyToTable(id, s) ==
  \/ /\ ~Debug
     /\ heap' = [heap EXCEPT ![subset] = s]
     /\ subset_table' = [subset_table EXCEPT ![id] = subset]
  \/ /\ Debug
     /\ heap' = [heap EXCEPT ![subset] = s, ![subset_table[id]] = s]
     /\ UNCHANGED subset_table

ReadSubset(s, cut) ==
  /\ CopyToTable(s.id, s)
  /\ got_subset' = [got_subset EXCEPT ![s.id] = Complete(s, cut)]
  /\ UNCHANGED <<avc, subset, got_sps, got_pps, sent>>
  /\ used' = {}

\* Mutant: the SPS is looked up before the PPS has been replaced.
Mut_LoadSets(id) ==
  /\ pps' = pps_table[id]
  /\ sps' = sps_table[pps.sps]
  /\ UNCHANGED <<sps_table, pps_table, svc, got, sent>>

\* Reading and writing a slice header begin alike.
LoadSets(id) ==
  /\ pps' = pps_table[id]
  /\ sps' = sps_table[pps'.sps]
  /\ UNCHANGED <<sps_table, pps_table, svc, got, sent>>

Use(op, id, p, s) == {[op |-> op, id |-> id, pps |-> p, sps |-> s]}

ReadSlice(id) == LoadSets(id) /\ used' = Use("read", id, pps', sps')

CopyFromTable(id) ==
  \/ /\ ~Debug
     /\ subset' = subset_table[id] /\ UNCHANGED heap
  \/ /\ Debug
     /\ heap' = [heap EXCEPT ![subset] = heap[subset_table[id]]]
     /\ UNCHANGED subset

ReadSvcSlice(id) ==
  /\ pps' = pps_table[id]
  /\ CopyFromTable(pps'.sps)
  /\ UNCHANGED <<sps, sps_table, pps_table, subset_table, got, sent>>
  /\ used' = Use("read_svc", id, pps', heap'[subset'])

----------------------------------------------------------------------------
(***************************************************************************)
(* Writing.  What is written goes to a receiver, who keeps the sets.       *)
(***************************************************************************)

WriteSps ==
  /\ sent_sps' = [sent_sps EXCEPT ![sps.id] = {sps}]
  /\ UNCHANGED <<avc, svc, got, sent_pps>>
  /\ used' = {}

WritePps ==
  /\ sent_pps' = [sent_pps EXCEPT ![pps.id] = {pps}]
  /\ UNCHANGED <<avc, svc, got, sent_sps>>
  /\ used' = {}

\* Mutant: the current sets are used, whichever they are.
Mut_WriteSlice(id) ==
  UNCHANGED <<avc, svc, got, sent>> /\ used' = Use("write", id, pps, sps)

\* The slice header names the PPS id; which sets say how to write the rest of
\* the header is decided by the tables.
WriteSlice(id) == LoadSets(id) /\ used' = Use("write", id, pps', sps')

WriteSvcSlice(id) ==
  /\ pps' = pps_table[id]
  /\ subset' = subset_table[pps'.sps]
  /\ UNCHANGED <<sps, sps_table, pps_table, subset_table, heap, got, sent>>
  /\ used' = Use("write_svc", id, pps', heap[subset'])

\* The program assigns to the fields of the current sets.
Assign ==
  /\ \/ sps' \in SpsUnits /\ UNCHANGED pps
     \/ pps' \in Pps /\ UNCHANGED sps
  /\ UNCHANGED <<sps_table, pps_table, svc, got, sent>>
  /\ used' = {}

ReadAvc ==
  \/ \E s \in SpsUnits, cut \in BOOLEAN : ReadSps(s, cut)
  \/ \E p \in Pps, cut \in BOOLEAN : ReadPps(p, cut)
  \/ \E id \in PpsIds : ReadSlice(id)

ReadSvc ==
  \/ \E s \in SpsUnits, cut \in BOOLEAN : ReadSubset(s, cut)
  \/ \E id \in PpsIds : ReadSvcSlice(id)

WriteAvc ==
  \/ WriteSps \/ WritePps
  \/ \E id \in PpsIds : WriteSlice(id)
  \/ Assign

Read == ReadAvc \/ ReadSvc
Next == Read \/ WriteAvc \/ \E id \in PpsIds : WriteSvcSlice(id)

Spec == Init /\ [][Next]_vars

NoLayer ==
  svc = <<Work, [id \in SpsIds |-> id], [l \in Locations |-> BlankSps]>>
NoSps == sps = BlankSps /\ \A id \in SpsIds : sps_table[id] = BlankSps

\* One scalable layer, whose subset SPS has the id 0.
OneLayer ==
  \/ \E s \in SpsUnits, cut \in BOOLEAN : s.id = 0 /\ ReadSubset(s, cut)
  \/ \E p \in Pps, cut \in BOOLEAN : p.sps = 0 /\ ReadPps(p, cut)
  \/ \E id \in PpsIds : ReadSvcSlice(id) \/ WriteSvcSlice(id)

\* A program that only reads, one that only writes, and one that reads and writes
\* streams either without scalable layers or of one layer.
SpecRead == Init /\ [][Read]_vars
SpecWrite == Init /\ [][WriteAvc]_vars
SpecOneLayer ==
  Init /\ [][(NoLayer /\ (ReadAvc \/ WriteAvc)) \/ (NoSps /\ OneLayer)]_vars

----------------------------------------------------------------------------
\* A table entry is blank or holds a set of its own id, also after a set that
\* was cut off; nothing points outside of the structures allocated.
TypeOK ==
  /\ sps \in Sps /\ pps \in Pps
  /\ sps_table \in [SpsIds -> Sps] /\ pps_table \in [PpsIds -> Pps]
  /\ \A id \in SpsIds : sps_table[id] = BlankSps \/ sps_table[id].id = id
  /\ \A id \in PpsIds : pps_table[id] = BlankPps \/ pps_table[id].id = id
  /\ subset \in Locations /\ subset_table \in [SpsIds -> Locations]
  /\ heap \in [Locations -> Sps]
  /\ got_sps \in [SpsIds -> SUBSET Sps] /\ got_subset \in [SpsIds -> SUBSET Sps]
  /\ got_pps \in [PpsIds -> SUBSET Pps]
  /\ sent_sps \in [SpsIds -> SUBSET Sps] /\ sent_pps \in [PpsIds -> SUBSET Pps]
  /\ used \subseteq [op : {"read", "read_svc", "write", "write_svc"},
                      id : PpsIds, pps : Pps, sps : Sps]

Slices(op) == {u \in used : u.op = op}

\* A slice is read with the last PPS of the id it names and the last SPS of the
\* id that PPS names, however the program has changed the current sets, unless
\* that last set was cut off.
LatestSetsUsed ==
  \A u \in Slices("read") :
    got_pps[u.id] \subseteq {u.pps} /\ got_sps[u.pps.sps] \subseteq {u.sps}

\* The same for a slice of a scalable layer and its subset SPS.
LatestSubsetUsed ==
  \A u \in Slices("read_svc") :
    got_pps[u.id] \subseteq {u.pps} /\ got_subset[u.pps.sps] \subseteq {u.sps}

\* A program that has passed on the sets it read writes its slices with the
\* sets its receiver has.
ForwardedSetsUsed ==
  \A u \in Slices("write") :
    /\ sent_pps[u.id] = got_pps[u.id] => sent_pps[u.id] \subseteq {u.pps}
    /\ sent_sps[u.pps.sps] = got_sps[u.pps.sps]
         => sent_sps[u.pps.sps] \subseteq {u.sps}

\* "when writing it is written from those" (h264_stream.h): any program that has
\* written the sets a slice names writes that slice with them.
WrittenFromThose ==
  \A u \in Slices("write") :
    sent_pps[u.id] \subseteq {u.pps} /\ sent_sps[u.pps.sps] \subseteq {u.sps}

\* h264_free frees the structure of the current subset SPS and those of the
\* table: each of those allocated, and each once.
OwnedOnce ==
  /\ \A id \in SpsIds : subset_table[id] # subset
  /\ \A id, k \in SpsIds : subset_table[id] = subset_table[k] => id = k

Store == INSTANCE ParameterSetStore
           WITH sps_store <- sps_table, pps_store <- pps_table,
                subset_store <- [id \in SpsIds |-> heap[subset_table[id]]],
                subset <- heap[subset]

\* The debugging reader implements the store, pointers and all.
ImplementsStore == Store!Spec
============================================================================
