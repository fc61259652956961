-------------------------- MODULE ParameterSetStore --------------------------
(***************************************************************************)
(* What a reader of H.264 parameter sets promises: it keeps the last set   *)
(* of each kind and id, and a slice is read with the picture parameter set *)
(* it names and the sequence parameter set which that one names.           *)
(***************************************************************************)
CONSTANTS SpsIds, PpsIds, Contents, Blank

\* A sequence parameter set is its id and what else it says; of a picture
\* parameter set only the ids matter here.
Sps == [id : SpsIds, v : Contents \cup {Blank}]
Pps == [id : PpsIds, sps : SpsIds]

\* What a table of the code holds before it is filled: zeros.
BlankSps == [id |-> 0, v |-> Blank]
BlankPps == [id |-> 0, sps |-> 0]

VARIABLES
  sps_store, pps_store, subset_store,   \* the last set of each id
  sps, pps, subset                      \* the sets in use

vars == <<sps_store, pps_store, subset_store, sps, pps, subset>>

Init ==
  /\ sps_store = [id \in SpsIds |-> BlankSps]
  /\ subset_store = [id \in SpsIds |-> BlankSps]
  /\ pps_store = [id \in PpsIds |-> BlankPps]
  /\ sps = BlankSps /\ pps = BlankPps /\ subset = BlankSps

ReceiveSps(s) ==
  /\ sps' = s
  /\ sps_store' = [sps_store EXCEPT ![s.id] = s]
  /\ UNCHANGED <<pps_store, subset_store, pps, subset>>

ReceivePps(p) ==
  /\ pps' = p
  /\ pps_store' = [pps_store EXCEPT ![p.id] = p]
  /\ UNCHANGED <<sps_store, subset_store, sps, subset>>

ReceiveSubset(s) ==
  /\ subset' = s
  /\ subset_store' = [subset_store EXCEPT ![s.id] = s]
  /\ UNCHANGED <<sps_store, pps_store, sps, pps>>

UseForSlice(id) ==
  /\ pps' = pps_store[id]
  /\ sps' = sps_store[pps_store[id].sps]
  /\ UNCHANGED <<sps_store, pps_store, subset_store, subset>>

UseForSvcSlice(id) ==
  /\ pps' = pps_store[id]
  /\ subset' = subset_store[pps_store[id].sps]
  /\ UNCHANGED <<sps_store, pps_store, subset_store, sps>>

Next ==
  \/ \E s \in Sps : ReceiveSps(s) \/ ReceiveSubset(s)
  \/ \E p \in Pps : ReceivePps(p)
  \/ \E id \in PpsIds : UseForSlice(id) \/ UseForSvcSlice(id)

Spec == Init /\ [][Next]_vars
============================================================================
