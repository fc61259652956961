--------------------------- MODULE MCDepAnalyzer ---------------------------
(***************************************************************************)
(* Instances of DepAnalyzer.  One follows the DPB and the reference lists, *)
(* with a DPB of two pictures; one follows the POCs, with SPSs that change *)
(* under a stream of I and P frames.                                       *)
(***************************************************************************)
EXTENDS DepAnalyzer

Slice(idr, ref, type, frame_num, poc, l0, l1) ==
  [sps |-> 0, idr |-> idr, ref |-> ref, type |-> type, frame_num |-> frame_num,
   poc |-> poc, override |-> l0 + l1 > 2, l0 |-> l0, l1 |-> l1]

Idr == Slice(TRUE, TRUE, "I", 0, 0, 1, 1)

Sps(type, max) == [poc_type |-> type, max_poc_lsb |-> max]

\* POC type 2 ties POC to frame_num: the DPB is full of distinct frame_nums.
DpbSlices ==
  {Idr, Slice(FALSE, FALSE, "P", 3, 6, 1, 1), Slice(FALSE, TRUE, "B", 1, 2, 1, 1)}
  \cup {Slice(FALSE, TRUE, "P", n, 2 * n, 2, 1) : n \in 1 .. 3}
  \cup {Slice(FALSE, FALSE, "B", n, 2 * n, l[1], l[2]) :
          n \in 1 .. 2, l \in {<<1, 1>>, <<2, 1>>, <<1, 2>>}}

DpbSpsValues == {Sps(2, 16)}

\* Reordered frames: POCs of both signs, steps of up to half a period.
PocSlices ==
  {Idr}
  \cup {Slice(FALSE, ref, "I", 1, poc, 1, 1) :
          ref \in BOOLEAN, poc \in {-4, -1, 6, 14, 22}}

PocSpsValues == {Sps(0, 16)}

AllSlices == DpbSlices \cup PocSlices
AllSpsValues == DpbSpsValues \cup PocSpsValues

\* A stream follows one of the two, the second for MaxPocFrames frames at most.
CONSTANT MaxPocFrames

FollowsDpb ==
  /\ \A k \in 1 .. Len(stream) : stream[k].slice \in DpbSlices
  /\ max_poc_lsb = 0
  /\ stream # <<>> => \A id \in SpsIds : sps_table[id] \in DpbSpsValues

FollowsPoc ==
  /\ \A k \in 1 .. Len(stream) : stream[k].slice \in PocSlices
  /\ Len(stream) <= MaxPocFrames
  /\ \A id \in SpsIds : sps_table[id] \in PocSpsValues \cup {NoSps}

MCNext ==
  \/ Pass1 /\ (FollowsDpb \/ FollowsPoc)'
  \/ FollowsPoc /\ Report

MCSpec == Init /\ [][MCNext]_vars

============================================================================
