---------------------------- MODULE DepAnalyzer ----------------------------
(***************************************************************************)
(* The frame dependence analysis of dep_analyzer.c.  Pass 1 gives every    *)
(* NAL unit of a stream to process_nal: for each first slice of a picture  *)
(* it computes the picture order count (POC), lists the pictures of a      *)
(* simulated decoded picture buffer (DPB) that the frame depends on, and   *)
(* updates the DPB.  Pass 2 sorts the frames into display order.           *)
(*                                                                         *)
(* What read_nal_unit parses is input: an SPS, or the first slice of a     *)
(* picture.  A NAL unit of another type, a slice that does not start a     *)
(* picture and a slice that does not parse leave the analysis unchanged.   *)
(***************************************************************************)
EXTENDS Integers, Sequences, FiniteSets, FiniteSetsExt

CONSTANTS
  SpsIds,        \* ids of sequence parameter sets
  SpsValues,     \* their contents: [poc_type, max_poc_lsb]
  Slices,        \* first slices, see SliceType
  MaxRefFrames,  \* MAX_REF_FRAMES
  MaxDeps,       \* MAX_DEPS
  MaxFrames      \* bound of the model: frames in a stream

\* poc is the true picture order count, of which a slice header holds poc
\* modulo max_poc_lsb; override tells whether the header holds l0 and l1, the
\* lengths of the reference lists, or leaves them to the PPS.
SliceType ==
  [sps : SpsIds, idr : BOOLEAN, ref : BOOLEAN, type : {"I", "P", "B"},
   frame_num : Nat, poc : Int, override : BOOLEAN,
   l0 : Nat \ {0}, l1 : Nat \ {0}]

\* max_poc_lsb is a power of two, from 16 on: it is even.
SpsType == [poc_type : 0 .. 2, max_poc_lsb : {n \in Nat \ {0} : n % 2 = 0}]

ASSUME InputTypes == Slices \subseteq SliceType /\ SpsValues \subseteq SpsType
ASSUME DpbSizes ==
  MaxRefFrames \in Nat \ {0} /\ MaxDeps \in Nat /\ MaxRefFrames <= MaxDeps
ASSUME Bound == MaxFrames \in Nat

VARIABLES
  sps_table,          \* of the h264_stream_t: the SPS of each id
  frames,             \* da->frames, in decode order
  dpb,                \* da->dpb: a set, the order of its entries has no effect
  prev_poc_msb, prev_poc_lsb, max_poc_lsb,
  global_poc_offset, max_poc_in_gop,
  stream,             \* history: the slice of each frame, with its SPS
  display             \* the decode ids in display order, once reported

poc_state == <<prev_poc_msb, prev_poc_lsb, global_poc_offset, max_poc_in_gop>>
vars == <<sps_table, frames, dpb, poc_state, max_poc_lsb, stream, display>>

\* The tables are allocated with zeros: POC type 0 and 4 bits of it.
NoSps == [poc_type |-> 0, max_poc_lsb |-> 16]

Init ==
  /\ sps_table = [id \in SpsIds |-> NoSps]
  /\ frames = <<>> /\ dpb = {} /\ stream = <<>> /\ display = <<>>
  /\ prev_poc_msb = 0 /\ prev_poc_lsb = 0 /\ max_poc_lsb = 0
  /\ global_poc_offset = 0 /\ max_poc_in_gop = 0

----------------------------------------------------------------------------
\* An SPS is read.  When it turns out to be truncated, read_nal_unit fails,
\* but has stored it in the table.
ProcessSps(id, sps, truncated) ==
  /\ display = <<>>
  /\ sps_table' = [sps_table EXCEPT ![id] = sps]
  /\ max_poc_lsb' = IF ~truncated /\ sps.poc_type = 0
                    THEN sps.max_poc_lsb ELSE max_poc_lsb
  /\ UNCHANGED <<frames, dpb, poc_state, stream, display>>

\* decode_id_counter: frames are numbered from 0.
NextDecodeId == Len(frames)

\* pic_order_cnt_lsb of the slice header, zero when it is absent.
PocLsb(s) ==
  LET sps == sps_table[s.sps]
  IN  IF sps.poc_type = 0 THEN s.poc % sps.max_poc_lsb ELSE 0

\* Mutant: the two wrap tests use the whole period, not half of it.
Mut_PocMsb(s) ==
  LET lsb == PocLsb(s) IN
  IF s.idr THEN 0
  ELSE IF lsb < prev_poc_lsb /\ prev_poc_lsb - lsb >= max_poc_lsb
  THEN prev_poc_msb + max_poc_lsb
  ELSE IF lsb > prev_poc_lsb /\ lsb - prev_poc_lsb > max_poc_lsb
  THEN prev_poc_msb - max_poc_lsb
  ELSE prev_poc_msb

PocMsb(s) ==
  LET lsb == PocLsb(s) IN
  IF s.idr THEN 0
  ELSE IF lsb < prev_poc_lsb /\ prev_poc_lsb - lsb >= max_poc_lsb \div 2
  THEN prev_poc_msb + max_poc_lsb
  ELSE IF lsb > prev_poc_lsb /\ lsb - prev_poc_lsb > max_poc_lsb \div 2
  THEN prev_poc_msb - max_poc_lsb
  ELSE prev_poc_msb

\* calculate_poc, its result and its effect.
TracksPoc(s) == sps_table[s.sps].poc_type = 0 /\ max_poc_lsb # 0

CalculatePoc(s) ==
  IF TracksPoc(s) THEN PocMsb(s) + PocLsb(s)
  ELSE IF sps_table[s.sps].poc_type = 2 THEN 2 * s.frame_num
  ELSE NextDecodeId

UpdatePrevPoc(s) ==
  /\ prev_poc_msb' = IF ~TracksPoc(s) THEN prev_poc_msb
                     ELSE IF s.idr THEN 0
                     ELSE IF s.ref THEN PocMsb(s) ELSE prev_poc_msb
  /\ prev_poc_lsb' = IF ~TracksPoc(s) THEN prev_poc_lsb
                     ELSE IF s.idr THEN 0
                     ELSE IF s.ref THEN PocLsb(s) ELSE prev_poc_lsb

----------------------------------------------------------------------------
\* The first n of the pictures D sorted by increasing key; qsort leaves open
\* which of two equal keys comes first.
FirstBy(D, n, key(_)) ==
  {S \in SUBSET D :
     /\ IF n < Cardinality(D) THEN Cardinality(S) = n ELSE S = D
     /\ \A x \in S, y \in D \ S : key(x) <= key(y)}

\* The first n of the pictures A by one key, then of the pictures B by another.
FirstThen(A, keyA(_), B, keyB(_), n) ==
  {S \cup T : S \in FirstBy(A, n, keyA),
              T \in FirstBy(B, IF n < Cardinality(A) THEN 0
                               ELSE n - Cardinality(A), keyB)}

\* Of a slice header without the override one is taken, and not what its PPS
\* says (dep_analyzer.h: "Copied from slice header/PPS").
NumL0(s) == IF s.override THEN s.l0 ELSE 1
NumL1(s) == IF s.override THEN s.l1 ELSE 1

Descending(r) == -r.poc
Ascending(r) == r.poc
NewestFrameNum(r) == -r.frame_num

\* The pictures of D that a frame with this slice and POC is said to need.
References(s, global_poc, D) ==
  LET past   == {r \in D : r.poc < global_poc}
      future == D \ past
  IN  IF s.idr \/ s.type = "I" THEN {{}}
      ELSE IF s.type = "P" THEN FirstBy(D, NumL0(s), NewestFrameNum)
      ELSE {l0 \cup l1 :
              l0 \in FirstThen(past, Descending, future, Ascending, NumL0(s)),
              l1 \in FirstThen(future, Ascending, past, Descending, NumL1(s))}

\* Mutant: a full buffer loses its newest picture.
Mut_Evict(D) ==
  IF Cardinality(D) < MaxRefFrames THEN D
  ELSE {r \in D : \E q \in D : r.decode_id < q.decode_id}

\* Mutant: the bound is off by one.
Mut_Evict_Late(D) ==
  IF Cardinality(D) <= MaxRefFrames THEN D
  ELSE {r \in D : \E q \in D : q.decode_id < r.decode_id}

Evict(D) ==
  IF Cardinality(D) < MaxRefFrames THEN D
  ELSE {r \in D : \E q \in D : q.decode_id < r.decode_id}

\* Mutant: the entry that has the frame_num of the picture stays.
Mut_UpdateDpb(D, pic) == Evict(D) \cup {pic}

\* update_dpb: the picture replaces the one with its frame_num, or is added.
UpdateDpb(D, pic) ==
  IF \E r \in D : r.frame_num = pic.frame_num
  THEN {r \in D : r.frame_num # pic.frame_num} \cup {pic}
  ELSE Evict(D) \cup {pic}

\* An IDR picture empties the DPB before its references are looked up.
DpbFor(s) == IF s.idr THEN {} ELSE dpb

\* Mutant: an IDR picture starts over from POC zero.
Mut_OffsetFor(s) == global_poc_offset

\* Mutant: the gap between two periods has the wrong sign.
Mut_OffsetFor_Below(s) ==
  IF s.idr THEN global_poc_offset + max_poc_in_gop - 2 ELSE global_poc_offset

OffsetFor(s) ==
  IF s.idr THEN global_poc_offset + max_poc_in_gop + 2 ELSE global_poc_offset

----------------------------------------------------------------------------
\* process_nal on the first slice of a picture.
ProcessSlice(s) ==
  LET poc    == CalculatePoc(s)
      global == OffsetFor(s) + poc
      top    == IF s.idr THEN 0 ELSE max_poc_in_gop
      pic    == [frame_num |-> s.frame_num, decode_id |-> NextDecodeId,
                 poc |-> global]
  IN  /\ display = <<>> /\ Len(frames) < MaxFrames
      /\ UpdatePrevPoc(s)
      /\ global_poc_offset' = OffsetFor(s)
      /\ max_poc_in_gop' = IF poc > top THEN poc ELSE top
      /\ \E needed \in References(s, global, DpbFor(s)) :
           frames' = Append(frames,
             [decode_id |-> NextDecodeId, poc |-> poc, global_poc |-> global,
              frame_num |-> s.frame_num, is_idr |-> s.idr, is_ref |-> s.ref,
              dependencies |-> {r.decode_id : r \in needed}])
      /\ dpb' = IF s.ref THEN UpdateDpb(DpbFor(s), pic) ELSE DpbFor(s)
      /\ stream' = Append(stream, [slice |-> s, sps |-> sps_table[s.sps],
                                   max_poc_lsb |-> max_poc_lsb])
      /\ UNCHANGED <<sps_table, max_poc_lsb, display>>

\* Mutant: the frames are compared by their POC within the group of pictures.
Mut_Earlier(a, b) == frames[a + 1].poc <= frames[b + 1].poc

Earlier(a, b) == frames[a + 1].global_poc <= frames[b + 1].global_poc

\* report_results sorts the frames; equal POCs may come in any order.
Report ==
  /\ display = <<>> /\ frames # <<>>
  /\ display' \in
       {d \in [1 .. Len(frames) -> 0 .. Len(frames) - 1] :
          \A i, k \in 1 .. Len(frames) :
            i < k => d[i] # d[k] /\ Earlier(d[i], d[k])}
  /\ UNCHANGED <<sps_table, frames, dpb, poc_state, max_poc_lsb, stream>>

Pass1 ==
  \/ \E id \in SpsIds, sps \in SpsValues, truncated \in BOOLEAN :
       ProcessSps(id, sps, truncated)
  \/ \E s \in Slices : ProcessSlice(s)

Next == Pass1 \/ Report

Spec == Init /\ [][Next]_vars

----------------------------------------------------------------------------
(***************************************************************************)
(* Correctness.                                                            *)
(***************************************************************************)

FrameType ==
  [decode_id : Nat, poc : Int, global_poc : Int, frame_num : Nat,
   is_idr : BOOLEAN, is_ref : BOOLEAN, dependencies : SUBSET Nat]

PicType == [frame_num : Nat, decode_id : Nat, poc : Int]

TypeOK ==
  /\ sps_table \in [SpsIds -> SpsType]
  /\ frames \in Seq(FrameType)
  /\ dpb \subseteq PicType
  /\ prev_poc_msb \in Int /\ prev_poc_lsb \in Nat /\ max_poc_lsb \in Nat
  /\ global_poc_offset \in Nat /\ max_poc_in_gop \in Nat
  /\ Len(stream) = Len(frames)
  /\ display \in Seq(Nat)

Frame(id) == frames[id + 1]
Ids == 0 .. Len(frames) - 1

\* No IDR picture comes after frame "from", up to frame "to".
SamePeriod(from, to) == \A k \in from + 1 .. to : ~Frame(k).is_idr

\* The arrays dpb[MAX_REF_FRAMES] and dependencies[MAX_DEPS] are never filled
\* past their end: the two reference lists of a B frame together name no more
\* pictures than the DPB holds.
ArraysSuffice ==
  /\ Cardinality(dpb) <= MaxRefFrames
  /\ \A k \in Ids : Cardinality(Frame(k).dependencies) <= MaxDeps

\* Of the first n frames, the reference frames since the last IDR picture that no
\* later one with the same frame_num has replaced; and the newest of them.
CandidatesBefore(n) ==
  {k \in 0 .. n - 1 :
     /\ Frame(k).is_ref /\ SamePeriod(k, n - 1)
     /\ \A m \in k + 1 .. n - 1 :
          ~(Frame(m).is_ref /\ Frame(m).frame_num = Frame(k).frame_num)}

Newest(n) ==
  {k \in CandidatesBefore(n) :
     Cardinality({m \in CandidatesBefore(n) : m > k}) < MaxRefFrames}

\* The DPB is always a window on the stream: it holds the newest MaxRefFrames
\* of those frames, with the numbers and POCs they had.
DpbIsSlidingWindow ==
  dpb = {[frame_num |-> Frame(k).frame_num, decode_id |-> k,
          poc |-> Frame(k).global_poc] : k \in Newest(Len(frames))}

\* A frame is said to depend only on frames that were in this window when it was
\* decoded, an IDR picture on none.  A decoder has those if it marks pictures as
\* the analysis does: it keeps MAX_REF_FRAMES reference frames.  The analysis
\* looks neither at num_ref_frames nor at the memory management operations of
\* slices, so for a stream that asks for less the decoder may have dropped some.
DependenciesInWindow ==
  \A k \in Ids :
    Frame(k).dependencies \subseteq (IF Frame(k).is_idr THEN {} ELSE Newest(k))

\* dep_analyzer.h says of the offset added at an IDR picture that it makes POC
\* "monotonically increasing across IDRs".  It does so for every later frame
\* whose own POC is not below -1: the gap it leaves is of two.
PeriodsInOrder ==
  \A k \in Ids : \A m \in k + 1 .. Len(frames) - 1 :
    ~SamePeriod(k, m) /\ Frame(m).poc >= -1
      => Frame(k).global_poc < Frame(m).global_poc

----------------------------------------------------------------------------
\* Frame k belongs to a stream whose POCs a decoder can reconstruct: since the
\* last IDR picture, a reference picture of POC zero, each POC is less than
\* half of a period away from that of the last reference picture; the period of
\* its SPS is the one the analysis knows; and all that time it is the same SPS,
\* which may only change with an IDR picture.
PrevRef(k) == Max({r \in 0 .. k - 1 : Frame(r).is_ref})

PocIsClose(k) ==
  LET s   == stream[k + 1]
      max == s.sps.max_poc_lsb
  IN  /\ s.sps.poc_type = 0 /\ s.max_poc_lsb = max
      /\ IF s.slice.idr THEN s.slice.ref /\ s.slice.poc = 0
         ELSE LET diff == s.slice.poc - stream[PrevRef(k) + 1].slice.poc
              IN  -max < 2 * diff /\ 2 * diff <= max

Conforming(k) ==
  \E first \in 0 .. k :
    /\ Frame(first).is_idr /\ SamePeriod(first, k)
    /\ \A m \in first .. k : PocIsClose(m) /\ stream[m + 1].sps = stream[k + 1].sps

\* From the low bits in the slice headers calculate_poc recovers the true POC
\* of every frame of such a stream.
PocReconstructed ==
  \A k \in Ids : Conforming(k) => Frame(k).poc = stream[k + 1].slice.poc

\* When no POC is negative, the report of such a stream shows the frames of one
\* period after those of the periods before it, and each period by true POC.
ReportedInDisplayOrder ==
  display # <<>> /\ (\A k \in Ids : Conforming(k) /\ Frame(k).poc >= 0) =>
    \A i, k \in 1 .. Len(display) : i < k =>
      LET a == display[i]
          b == display[k]
      IN  \/ a < b /\ ~SamePeriod(a, b)
          \/ /\ IF a < b THEN SamePeriod(a, b) ELSE SamePeriod(b, a)
             /\ stream[a + 1].slice.poc <= stream[b + 1].slice.poc
============================================================================
