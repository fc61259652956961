------------------------- MODULE DepAnalyzerProofs -------------------------
(***************************************************************************)
(* Proofs about DepAnalyzer, for streams of any slices and parameter sets, *)
(* of any length, and a DPB of any size: the types and the arrays, the     *)
(* dependencies and the offsets (Inv); the DPB as a window on the stream   *)
(* (WindowInv); the POCs and the display order (PocInv, OrderInv).         *)
(***************************************************************************)
EXTENDS DepAnalyzer, FiniteSetTheorems, WellFoundedInduction, TLAPS

(***************************************************************************)
(* The sets the analysis chooses pictures from.                            *)
(***************************************************************************)

\* The reference lists hold pictures of the DPB only.
LEMMA ReferencesInDpb ==
  ASSUME NEW s, NEW g, NEW D, NEW needed \in References(s, g, D)
  PROVE  needed \subseteq D
<1> DEFINE past == {r \in D : r.poc < g}
           future == D \ past
<1>1. CASE s.idr \/ s.type = "I"
  BY <1>1 DEF References
<1>2. CASE ~(s.idr \/ s.type = "I") /\ s.type = "P"
  BY <1>2 DEF References, FirstBy
<1>3. CASE ~(s.idr \/ s.type = "I") /\ s.type # "P"
  <2>1. PICK l0 \in FirstThen(past, Descending, future, Ascending, NumL0(s)),
             l1 \in FirstThen(future, Ascending, past, Descending, NumL1(s)) :
             needed = l0 \cup l1
    BY <1>3 DEF References
  <2>2. ASSUME NEW A, NEW B, NEW n,
               NEW l \in FirstThen(A, Descending, B, Ascending, n)
        PROVE  l \subseteq A \cup B
    BY <2>2 DEF FirstThen, FirstBy, Descending, Ascending
  <2>3. ASSUME NEW A, NEW B, NEW n,
               NEW l \in FirstThen(A, Ascending, B, Descending, n)
        PROVE  l \subseteq A \cup B
    BY <2>3 DEF FirstThen, FirstBy, Descending, Ascending
  <2>4. l0 \subseteq past \cup future
    BY <2>1, <2>2, Zenon
  <2>5. l1 \subseteq past \cup future
    BY <2>1, <2>3, Zenon
  <2> QED BY <2>1, <2>4, <2>5
<1> QED BY <1>1, <1>2, <1>3

\* A nonempty set of pictures has an oldest one.
LEMMA OldestPicture ==
  ASSUME NEW D \in SUBSET PicType, D # {}
  PROVE  \E r \in D : \A q \in D : ~(q.decode_id < r.decode_id)
<1> DEFINE T == {r.decode_id : r \in D}
<1>1. T \subseteq Nat /\ T # {}
  BY DEF PicType
<1>2. PICK x \in T : \A y \in T : ~(<<y, x>> \in OpToRel(<, Nat))
  BY <1>1, NatLessThanWellFounded, WFMin
<1>3. PICK r \in D : r.decode_id = x
  OBVIOUS
<1>4. ASSUME NEW q \in D PROVE ~(q.decode_id < r.decode_id)
  <2>1. q.decode_id \in T /\ q.decode_id \in Nat /\ x \in Nat
    BY <1>1
  <2>2. ~(<<q.decode_id, x>> \in OpToRel(<, Nat))
    BY <1>2, <2>1
  <2> QED BY <1>3, <2>1, <2>2 DEF OpToRel
<1> QED BY <1>4

\* Adding a picture to the DPB never makes it larger than the array.
LEMMA UpdateDpbSize ==
  ASSUME NEW D \in SUBSET PicType, NEW pic \in PicType,
         IsFiniteSet(D), Cardinality(D) <= MaxRefFrames
  PROVE  /\ UpdateDpb(D, pic) \subseteq D \cup {pic}
         /\ pic \in UpdateDpb(D, pic)
         /\ IsFiniteSet(UpdateDpb(D, pic))
         /\ Cardinality(UpdateDpb(D, pic)) <= MaxRefFrames
<1>0. Cardinality(D) \in Nat /\ MaxRefFrames \in Nat \ {0}
  BY FS_CardinalityType, DpbSizes
<1>1. \E K \in SUBSET D : /\ UpdateDpb(D, pic) = K \cup {pic}
                          /\ Cardinality(K) <= MaxRefFrames - 1
  <2>1. CASE \E r \in D : r.frame_num = pic.frame_num
    <3>1. PICK r \in D : r.frame_num = pic.frame_num
      BY <2>1
    <3> DEFINE K == {q \in D : q.frame_num # pic.frame_num}
    <3>2. IsFiniteSet(D \ {r}) /\ Cardinality(D \ {r}) = Cardinality(D) - 1
      BY <3>1, FS_RemoveElement
    <3>3. K \in SUBSET (D \ {r})
      BY <3>1
    <3>4. IsFiniteSet(K) /\ Cardinality(K) <= Cardinality(D \ {r})
      BY <3>2, <3>3, FS_Subset
    <3>5. Cardinality(K) \in Nat
      BY <3>4, FS_CardinalityType
    <3>6. UpdateDpb(D, pic) = K \cup {pic}
      BY <2>1 DEF UpdateDpb
    <3> QED BY <1>0, <3>2, <3>4, <3>5, <3>6
  <2>2. CASE /\ ~\E r \in D : r.frame_num = pic.frame_num
             /\ Cardinality(D) < MaxRefFrames
    BY <1>0, <2>2 DEF UpdateDpb, Evict
  <2>3. CASE /\ ~\E r \in D : r.frame_num = pic.frame_num
             /\ ~(Cardinality(D) < MaxRefFrames)
    <3> DEFINE K == {r \in D : \E q \in D : q.decode_id < r.decode_id}
    <3>1. D # {}
      BY <1>0, <2>3, FS_EmptySet
    <3>2. PICK r \in D : \A q \in D : ~(q.decode_id < r.decode_id)
      BY <3>1, OldestPicture
    <3>3. IsFiniteSet(D \ {r}) /\ Cardinality(D \ {r}) = Cardinality(D) - 1
      BY <3>2, FS_RemoveElement
    <3>4. K \in SUBSET (D \ {r})
      BY <3>2
    <3>5. IsFiniteSet(K) /\ Cardinality(K) <= Cardinality(D \ {r})
      BY <3>3, <3>4, FS_Subset
    <3>6. Cardinality(K) \in Nat
      BY <3>5, FS_CardinalityType
    <3>7. UpdateDpb(D, pic) = K \cup {pic}
      BY <2>3 DEF UpdateDpb, Evict
    <3> QED BY <1>0, <3>3, <3>5, <3>6, <3>7
  <2> QED BY <2>1, <2>2, <2>3
<1>2. PICK K \in SUBSET D : /\ UpdateDpb(D, pic) = K \cup {pic}
                            /\ Cardinality(K) <= MaxRefFrames - 1
  BY <1>1
<1>3. IsFiniteSet(K) /\ Cardinality(K) \in Nat
  BY FS_Subset, FS_CardinalityType
<1>4. /\ IsFiniteSet(K \cup {pic})
      /\ Cardinality(K \cup {pic}) <= Cardinality(K) + 1
  <2>1. /\ IsFiniteSet(K \cup {pic})
        /\ Cardinality(K \cup {pic}) =
             IF pic \in K THEN Cardinality(K) ELSE Cardinality(K) + 1
    BY <1>3, FS_AddElement
  <2> QED BY <1>3, <2>1
<1>5. Cardinality(K \cup {pic}) \in Nat
  BY <1>4, FS_CardinalityType
<1> QED BY <1>0, <1>2, <1>3, <1>4, <1>5

\* A frame has no more dependencies than pictures it depends on.
LEMMA IdsOfPictures ==
  ASSUME NEW D \in SUBSET PicType, IsFiniteSet(D)
  PROVE  /\ {r.decode_id : r \in D} \in SUBSET Nat
         /\ Cardinality({r.decode_id : r \in D}) <= Cardinality(D)
         /\ Cardinality({r.decode_id : r \in D}) \in Nat
<1> DEFINE T == {r.decode_id : r \in D}
           f == [r \in D |-> r.decode_id]
<1>1. f \in Surjection(D, T)
  BY DEF Surjection
<1>2. IsFiniteSet(T) /\ Cardinality(T) <= Cardinality(D)
  BY <1>1, FS_Surjection
<1> QED BY <1>2, FS_CardinalityType DEF PicType

(***************************************************************************)
(* The inductive invariant.                                                *)
(***************************************************************************)

Last == Len(frames) - 1

\* Every picture of the DPB is a reference frame since the last IDR picture.
DpbInv ==
  /\ IsFiniteSet(dpb) /\ Cardinality(dpb) <= MaxRefFrames
  /\ \A r \in dpb : /\ r.decode_id \in Ids
                    /\ Frame(r.decode_id).is_ref
                    /\ SamePeriod(r.decode_id, Last)

\* No frame so far has a global POC above the top of the current period, and
\* none of the periods before it comes near the offset of this one.
OffsetInv ==
  \A k \in Ids :
    /\ Frame(k).global_poc <= global_poc_offset + max_poc_in_gop
    /\ ~SamePeriod(k, Last) => Frame(k).global_poc <= global_poc_offset - 2

Inv ==
  /\ TypeOK /\ DpbInv /\ OffsetInv
  /\ ArraysSuffice /\ PeriodsInOrder

\* What the analysis of one picture does to the log and to the DPB.
LEMMA SliceStep ==
  ASSUME Inv, NEW s \in Slices, ProcessSlice(s)
  PROVE  \E f \in FrameType, needed \in SUBSET DpbFor(s) :
           /\ frames' = Append(frames, f)
           /\ f.is_idr = s.idr /\ f.is_ref = s.ref
           /\ f.decode_id = NextDecodeId
           /\ f.dependencies = {r.decode_id : r \in needed}
           /\ f.poc = CalculatePoc(s) /\ f.global_poc = OffsetFor(s) + f.poc
           /\ f.frame_num = s.frame_num
           /\ dpb' = IF s.ref
                     THEN UpdateDpb(DpbFor(s),
                            [frame_num |-> s.frame_num,
                             decode_id |-> NextDecodeId,
                             poc |-> f.global_poc])
                     ELSE DpbFor(s)
<1> DEFINE g == OffsetFor(s) + CalculatePoc(s)
           frame(needed) ==
             [decode_id |-> NextDecodeId, poc |-> CalculatePoc(s),
              global_poc |-> g, frame_num |-> s.frame_num,
              is_idr |-> s.idr, is_ref |-> s.ref,
              dependencies |-> {r.decode_id : r \in needed}]
<1>1. s \in SliceType /\ sps_table[s.sps] \in SpsType
  BY InputTypes DEF Inv, TypeOK, SliceType
<1>2. PocLsb(s) \in Nat
  BY <1>1 DEF PocLsb, SliceType, SpsType
<1>3. PocMsb(s) \in Int
  BY <1>2 DEF Inv, TypeOK, PocMsb
<1>4. CalculatePoc(s) \in Int /\ NextDecodeId \in Nat
  BY <1>1, <1>2, <1>3 DEF CalculatePoc, NextDecodeId, SliceType, Inv, TypeOK
<1>5. OffsetFor(s) \in Nat
  BY DEF OffsetFor, Inv, TypeOK
<1>6. PICK needed \in References(s, g, DpbFor(s)) :
        frames' = Append(frames, frame(needed))
  BY DEF ProcessSlice
<1>7. needed \subseteq DpbFor(s)
  BY <1>6, ReferencesInDpb
<1>8. DpbFor(s) \subseteq PicType
  BY DEF DpbFor, Inv, TypeOK
<1>9. {r.decode_id : r \in needed} \in SUBSET Nat
  BY <1>7, <1>8 DEF PicType
<1>10. frame(needed) \in FrameType
  BY <1>1, <1>4, <1>5, <1>9 DEF FrameType, SliceType
<1>11. dpb' = IF s.ref
              THEN UpdateDpb(DpbFor(s), [frame_num |-> s.frame_num,
                     decode_id |-> NextDecodeId, poc |-> g])
              ELSE DpbFor(s)
  BY DEF ProcessSlice
<1> HIDE DEF g
<1> QED BY <1>6, <1>7, <1>10, <1>11 DEF g

\* The frames logged before are untouched, and the new one, n, is the last.
LEMMA LogGrows ==
  ASSUME frames \in Seq(FrameType), NEW f \in FrameType,
         frames' = Append(frames, f), NEW n, n = Len(frames)
  PROVE  /\ frames' \in Seq(FrameType) /\ n \in Nat
         /\ Ids = 0 .. n - 1 /\ Last = n - 1
         /\ Ids' = 0 .. n /\ Last' = n
         /\ Frame(n)' = f
         /\ \A k \in Ids : Frame(k)' = Frame(k)
  BY DEF Ids, Frame, Last

\* Periods of frames logged before are untouched too, and the new frame
\* belongs to the period of the last one unless it is an IDR picture.
LEMMA PeriodsGrow ==
  ASSUME frames \in Seq(FrameType), NEW f \in FrameType,
         frames' = Append(frames, f), NEW n, n = Len(frames)
  PROVE  /\ \A i, k \in Ids : SamePeriod(i, k)' <=> SamePeriod(i, k)
         /\ \A i \in Ids : SamePeriod(i, n)'
                             <=> (SamePeriod(i, Last) /\ ~f.is_idr)
<1>1. /\ n \in Nat /\ Ids = 0 .. n - 1 /\ Last = n - 1
      /\ Frame(n)' = f /\ \A k \in Ids : Frame(k)' = Frame(k)
  BY LogGrows
<1>2. ASSUME NEW i \in Ids, NEW k \in Ids
      PROVE  SamePeriod(i, k)' <=> SamePeriod(i, k)
  <2>1. \A m \in i + 1 .. k : Frame(m)' = Frame(m)
    BY <1>1
  <2>2. SamePeriod(i, k)' <=> \A m \in i + 1 .. k : ~Frame(m)'.is_idr
    BY DEF SamePeriod
  <2> QED BY <2>1, <2>2 DEF SamePeriod
<1>3. ASSUME NEW i \in Ids
      PROVE  SamePeriod(i, n)' <=> (SamePeriod(i, Last) /\ ~f.is_idr)
  <2>1. i + 1 .. n = (i + 1 .. Last) \cup {n}
    BY <1>1
  <2>2. \A k \in i + 1 .. Last : k \in Ids
    BY <1>1
  <2>3. SamePeriod(i, Last) <=> \A k \in i + 1 .. Last : ~Frame(k)'.is_idr
    BY <1>1, <2>2 DEF SamePeriod
  <2>4. SamePeriod(i, n)' <=> \A k \in i + 1 .. n : ~Frame(k)'.is_idr
    BY DEF SamePeriod
  <2> QED BY <1>1, <2>1, <2>3, <2>4
<1> QED BY <1>2, <1>3

\* One picture keeps the types.
LEMMA SliceTypeOK ==
  ASSUME Inv, NEW s \in Slices, ProcessSlice(s)
  PROVE  TypeOK'
<1>1. PICK f \in FrameType, needed \in SUBSET DpbFor(s) :
        /\ frames' = Append(frames, f)
        /\ f.decode_id = NextDecodeId /\ f.frame_num = s.frame_num
        /\ f.poc = CalculatePoc(s) /\ f.global_poc = OffsetFor(s) + f.poc
        /\ dpb' = IF s.ref
                  THEN UpdateDpb(DpbFor(s), [frame_num |-> s.frame_num,
                         decode_id |-> NextDecodeId, poc |-> f.global_poc])
                  ELSE DpbFor(s)
  BY SliceStep
<1>2. s \in SliceType /\ sps_table[s.sps] \in SpsType
  BY InputTypes DEF Inv, TypeOK, SliceType
<1>3. PocLsb(s) \in Nat
  BY <1>2 DEF PocLsb, SliceType, SpsType
<1>4. PocMsb(s) \in Int
  BY <1>3 DEF Inv, TypeOK, PocMsb
<1>5. prev_poc_msb' \in Int /\ prev_poc_lsb' \in Nat
  BY <1>3, <1>4 DEF ProcessSlice, UpdatePrevPoc, Inv, TypeOK
<1>6. f.poc \in Int /\ CalculatePoc(s) \in Int
  BY <1>1 DEF FrameType
<1>7. global_poc_offset' \in Nat /\ max_poc_in_gop' \in Nat
  BY <1>6 DEF ProcessSlice, OffsetFor, Inv, TypeOK
<1>8. dpb' \subseteq PicType
  <2>1. DpbFor(s) \subseteq PicType
    BY DEF DpbFor, Inv, TypeOK
  <2>2. [frame_num |-> s.frame_num, decode_id |-> NextDecodeId,
         poc |-> f.global_poc] \in PicType
    BY <1>1, <1>2 DEF PicType, FrameType, SliceType
  <2> QED BY <1>1, <2>1, <2>2 DEF UpdateDpb, Evict
<1>9. frames' \in Seq(FrameType)
  BY <1>1, LogGrows DEF Inv, TypeOK
<1>10. Len(stream') = Len(frames')
  BY <1>1 DEF ProcessSlice, Inv, TypeOK
<1>11. UNCHANGED <<sps_table, max_poc_lsb, display>>
  BY DEF ProcessSlice
<1> QED BY <1>5, <1>7, <1>8, <1>9, <1>10, <1>11 DEF TypeOK, Inv

\* One picture keeps the DPB a set of reference frames of the current period,
\* and its dependencies are among them.
LEMMA SliceDpb ==
  ASSUME Inv, NEW s \in Slices, ProcessSlice(s)
  PROVE  DpbInv' /\ ArraysSuffice'
<1>0. /\ frames \in Seq(FrameType) /\ dpb \subseteq PicType /\ DpbInv
      /\ ArraysSuffice
  BY DEF Inv, TypeOK
<1> DEFINE D == DpbFor(s)
<1>1. PICK n : n = Len(frames)
  OBVIOUS
<1>2. PICK f \in FrameType, needed \in SUBSET D :
        /\ frames' = Append(frames, f)
        /\ f.is_idr = s.idr /\ f.is_ref = s.ref /\ f.decode_id = n
        /\ f.dependencies = {r.decode_id : r \in needed}
        /\ dpb' = IF s.ref
                  THEN UpdateDpb(D, [frame_num |-> s.frame_num,
                         decode_id |-> n, poc |-> f.global_poc])
                  ELSE D
  BY <1>1, SliceStep DEF NextDecodeId
<1>3. /\ n \in Nat /\ Ids = 0 .. n - 1 /\ Last = n - 1
      /\ Ids' = 0 .. n /\ Last' = n /\ Frame(n)' = f
      /\ \A k \in Ids : Frame(k)' = Frame(k)
  BY <1>0, <1>1, <1>2, LogGrows
<1>4. /\ \A i, k \in Ids : SamePeriod(i, k)' <=> SamePeriod(i, k)
      /\ \A i \in Ids : SamePeriod(i, n)' <=> (SamePeriod(i, Last) /\ ~s.idr)
  BY <1>0, <1>1, <1>2, PeriodsGrow
<1>5. SamePeriod(n, n)'
  BY <1>3 DEF SamePeriod
<1>6. D \subseteq PicType /\ D \subseteq dpb
  BY <1>0 DEF DpbFor
<1>7. IsFiniteSet(D) /\ Cardinality(D) <= MaxRefFrames
  <2>1. MaxRefFrames \in Nat
    BY DpbSizes
  <2>2. CASE s.idr
    BY <2>1, <2>2, FS_EmptySet DEF DpbFor
  <2>3. CASE ~s.idr
    BY <1>0, <2>3 DEF DpbFor, DpbInv
  <2> QED BY <2>2, <2>3
<1>8. ASSUME NEW r \in D
      PROVE  /\ r.decode_id \in Ids /\ Frame(r.decode_id).is_ref
             /\ SamePeriod(r.decode_id, n)'
  <2>1. r \in dpb /\ ~s.idr
    BY DEF DpbFor
  <2> QED BY <1>0, <1>4, <2>1 DEF DpbInv
<1>9. DpbInv'
  <2> DEFINE pic == [frame_num |-> s.frame_num, decode_id |-> n,
                     poc |-> f.global_poc]
  <2>1. pic \in PicType /\ pic.decode_id = n
    BY <1>2, <1>3, InputTypes DEF PicType, FrameType, SliceType
  <2>2. IsFiniteSet(dpb') /\ Cardinality(dpb') <= MaxRefFrames
    BY <1>2, <1>6, <1>7, <2>1, UpdateDpbSize
  <2>3. dpb' \subseteq D \cup {pic} /\ (~s.ref => dpb' \subseteq D)
    BY <1>2, <1>6, <1>7, <2>1, UpdateDpbSize
  <2>4. ASSUME NEW r \in dpb'
        PROVE  /\ r.decode_id \in Ids'
               /\ Frame(r.decode_id)'.is_ref
               /\ SamePeriod(r.decode_id, n)'
    <3>1. CASE r \in D
      BY <1>3, <1>8, <3>1
    <3>2. CASE r = pic /\ s.ref
      <4>1. r.decode_id = n /\ n \in Ids'
        BY <1>3, <2>1, <3>2
      <4>2. f.is_ref
        BY <1>2, <3>2, Zenon
      <4>3. Frame(n)'.is_ref
        BY <1>3, <4>2, Zenon
      <4> QED BY <1>5, <4>1, <4>3
    <3> QED BY <2>3, <3>1, <3>2
  <2>5. \A r \in dpb' : SamePeriod(r.decode_id, n)' <=> SamePeriod(r.decode_id, Last)'
    BY <1>3
  <2> QED BY <2>2, <2>4, <2>5 DEF DpbInv
<1>10. ArraysSuffice'
  <2>1. IsFiniteSet(needed) /\ Cardinality(needed) <= Cardinality(D)
    BY <1>7, FS_Subset
  <2>2. /\ Cardinality(f.dependencies) <= Cardinality(needed)
        /\ Cardinality(f.dependencies) \in Nat
    BY <1>2, <1>6, <2>1, IdsOfPictures
  <2>3. Cardinality(needed) \in Nat /\ Cardinality(D) \in Nat
    BY <1>7, <2>1, FS_CardinalityType
  <2>4. Cardinality(f.dependencies) <= MaxDeps
    BY <1>7, <2>1, <2>2, <2>3, DpbSizes
  <2>5. \A k \in Ids' : Cardinality(Frame(k)'.dependencies) <= MaxDeps
    <3> SUFFICES ASSUME NEW k \in Ids'
                 PROVE  Cardinality(Frame(k)'.dependencies) <= MaxDeps
      OBVIOUS
    <3>1. CASE k \in Ids
      BY <1>0, <1>3, <3>1 DEF ArraysSuffice
    <3>2. CASE k = n
      BY <1>3, <2>4, <3>2
    <3> QED BY <1>3, <3>1, <3>2
  <2> QED BY <1>9, <2>5 DEF DpbInv, ArraysSuffice
<1> QED BY <1>9, <1>10

\* One picture keeps the offsets of the periods apart.
LEMMA SliceOffsets ==
  ASSUME Inv, NEW s \in Slices, ProcessSlice(s)
  PROVE  OffsetInv' /\ PeriodsInOrder'
<1>0. /\ frames \in Seq(FrameType) /\ OffsetInv /\ PeriodsInOrder
      /\ global_poc_offset \in Nat /\ max_poc_in_gop \in Nat
  BY DEF Inv, TypeOK
<1>1. PICK n : n = Len(frames)
  OBVIOUS
<1>2. PICK f \in FrameType :
        /\ frames' = Append(frames, f) /\ f.is_idr = s.idr
        /\ f.poc = CalculatePoc(s) /\ f.global_poc = OffsetFor(s) + f.poc
  BY SliceStep
<1>3. /\ n \in Nat /\ Ids = 0 .. n - 1 /\ Last = n - 1
      /\ Ids' = 0 .. n /\ Last' = n /\ Frame(n)' = f
      /\ \A k \in Ids : Frame(k)' = Frame(k)
  BY <1>0, <1>1, <1>2, LogGrows
<1>4. /\ \A i, k \in Ids : SamePeriod(i, k)' <=> SamePeriod(i, k)
      /\ \A i \in Ids : SamePeriod(i, n)' <=> (SamePeriod(i, Last) /\ ~s.idr)
  BY <1>0, <1>1, <1>2, PeriodsGrow
<1>5. SamePeriod(n, n)'
  BY <1>3 DEF SamePeriod
<1>6. f.poc \in Int /\ f.global_poc \in Int
  BY DEF FrameType
<1>7. /\ global_poc_offset' = IF s.idr
           THEN global_poc_offset + max_poc_in_gop + 2 ELSE global_poc_offset
      /\ f.global_poc = global_poc_offset' + f.poc
      /\ max_poc_in_gop' \in Nat /\ f.poc <= max_poc_in_gop'
      /\ ~s.idr => max_poc_in_gop <= max_poc_in_gop'
  BY <1>0, <1>2, <1>6 DEF ProcessSlice, OffsetFor
<1>8. \A k \in Ids : Frame(k) \in FrameType
  BY <1>0, <1>1, <1>3 DEF Frame
<1>9. \A k \in Ids : Frame(k).global_poc \in Int
  BY <1>8 DEF FrameType
<1>10. ASSUME NEW k \in Ids'
       PROVE  /\ Frame(k)'.global_poc <= global_poc_offset' + max_poc_in_gop'
              /\ ~SamePeriod(k, n)'
                   => Frame(k)'.global_poc <= global_poc_offset' - 2
  <2>1. CASE k = n
    BY <1>0, <1>3, <1>5, <1>6, <1>7, <2>1
  <2>2. CASE k \in Ids
    <3>1. /\ Frame(k).global_poc <= global_poc_offset + max_poc_in_gop
          /\ ~SamePeriod(k, Last) => Frame(k).global_poc <= global_poc_offset - 2
      BY <1>0, <2>2 DEF OffsetInv
    <3>2. SamePeriod(k, n)' <=> (SamePeriod(k, Last) /\ ~s.idr)
      BY <1>4, <2>2
    <3> QED BY <1>0, <1>3, <1>7, <1>9, <2>2, <3>1, <3>2
  <2> QED BY <1>3, <2>1, <2>2
<1>11. OffsetInv'
  <2>1. \A k \in Ids' : SamePeriod(k, n)' <=> SamePeriod(k, Last)'
    BY <1>3
  <2> QED BY <1>10, <2>1 DEF OffsetInv
<1>12. PeriodsInOrder'
  <2> SUFFICES ASSUME NEW k \in Ids', NEW m \in k + 1 .. Last',
                      ~SamePeriod(k, m)', Frame(m)'.poc >= -1
               PROVE  Frame(k)'.global_poc < Frame(m)'.global_poc
    BY DEF PeriodsInOrder, Last
  <2>1. k \in Ids /\ (m \in Ids \/ m = n)
    BY <1>3
  <2>2. CASE m \in Ids
    <3>1. /\ ~SamePeriod(k, m) /\ Frame(m).poc >= -1
          /\ m \in k + 1 .. Len(frames) - 1
      BY <1>1, <1>3, <1>4, <2>1, <2>2
    <3>2. Frame(k).global_poc < Frame(m).global_poc
      BY <1>0, <2>1, <3>1 DEF PeriodsInOrder
    <3> QED BY <1>3, <2>1, <2>2, <3>2
  <2>3. CASE m = n
    <3>1. Frame(k)'.global_poc <= global_poc_offset' - 2
      BY <1>10, <2>3
    <3>2. Frame(k)'.global_poc \in Int /\ global_poc_offset' \in Int
      BY <1>0, <1>3, <1>7, <1>9, <2>1
    <3> QED BY <1>3, <1>6, <1>7, <2>3, <3>1, <3>2
  <2> QED BY <2>1, <2>2, <2>3
<1> QED BY <1>11, <1>12

\* The invariant holds initially and in every step.
LEMMA InitInv == Init => Inv
<1> SUFFICES ASSUME Init PROVE Inv
  OBVIOUS
<1>1. frames = <<>> /\ dpb = {} /\ Ids = {}
  BY DEF Init, Ids
<1>2. NoSps \in SpsType
  BY DEF NoSps, SpsType
<1>3. TypeOK
  BY <1>1, <1>2 DEF Init, TypeOK
<1>4. DpbInv /\ ArraysSuffice
  BY <1>1, FS_EmptySet, DpbSizes DEF DpbInv, ArraysSuffice
<1> QED
  BY <1>1, <1>3, <1>4 DEF Inv, OffsetInv, PeriodsInOrder

\* Every step keeps the invariant.
LEMMA NextInv == Inv /\ [Next]_vars => Inv'
<1> SUFFICES ASSUME Inv, [Next]_vars PROVE Inv'
  OBVIOUS
<1>1. CASE UNCHANGED <<frames, dpb, global_poc_offset, max_poc_in_gop>> /\ TypeOK'
  <2>1. /\ Ids' = Ids /\ Last' = Last
        /\ \A k : Frame(k)' = Frame(k)
        /\ \A i, k : SamePeriod(i, k)' <=> SamePeriod(i, k)
    BY <1>1 DEF Ids, Last, Frame, SamePeriod
  <2>2. DpbInv' /\ OffsetInv' /\ ArraysSuffice'
    BY <1>1, <2>1
    DEF Inv, DpbInv, OffsetInv, ArraysSuffice
  <2>3. PeriodsInOrder'
    BY <1>1, <2>1 DEF Inv, PeriodsInOrder
  <2> QED BY <1>1, <2>2, <2>3 DEF Inv
<1>2. CASE \E id \in SpsIds, sps \in SpsValues, truncated \in BOOLEAN :
             ProcessSps(id, sps, truncated)
  <2>1. TypeOK'
    BY <1>2, InputTypes DEF ProcessSps, poc_state, Inv, TypeOK, SpsType
  <2> QED BY <1>1, <1>2, <2>1 DEF ProcessSps, poc_state
<1>3. CASE \E s \in Slices : ProcessSlice(s)
  BY <1>3, SliceTypeOK, SliceDpb, SliceOffsets DEF Inv
<1>4. CASE Report
  <2>1. display' \in Seq(Nat)
    <3>1. PICK d \in [1 .. Len(frames) -> 0 .. Len(frames) - 1] : display' = d
      BY <1>4 DEF Report
    <3>2. Len(frames) \in Nat
      BY DEF Inv, TypeOK
    <3> QED BY <3>1, <3>2
  <2>2. TypeOK'
    BY <1>4, <2>1 DEF Report, poc_state, Inv, TypeOK
  <2> QED BY <1>1, <1>4, <2>2 DEF Report, poc_state
<1>5. CASE UNCHANGED vars
  <2>1. TypeOK'
    BY <1>5 DEF vars, poc_state, Inv, TypeOK
  <2> QED BY <1>1, <1>5, <2>1 DEF vars, poc_state
<1> QED BY <1>2, <1>3, <1>4, <1>5 DEF Next, Pass1

\* The types, the DPB and the log of the analysis are consistent forever.
THEOREM InvHolds == Spec => []Inv
  BY InitInv, NextInv, PTL DEF Spec

\* The variables have their types.
THEOREM TypeCorrect == Spec => []TypeOK
<1>1. Inv => TypeOK
  BY DEF Inv
<1> QED BY <1>1, InvHolds, PTL

\* The arrays of the code hold what is put in them, however long the lists a
\* slice header asks for.
THEOREM ArraysNeverOverflow == Spec => []ArraysSuffice
<1>1. Inv => ArraysSuffice
  BY DEF Inv
<1> QED BY <1>1, InvHolds, PTL

\* A period follows those before it, its POCs below -1 excepted.
THEOREM PeriodsOrdered == Spec => []PeriodsInOrder
<1>1. Inv => PeriodsInOrder
  BY DEF Inv
<1> QED BY <1>1, InvHolds, PTL

(***************************************************************************)
(* The DPB as a window on the stream.                                      *)
(***************************************************************************)

\* All of the frames logged so far.
Candidates == CandidatesBefore(Len(frames))

\* The picture of a frame of the log.
Pic(k) ==
  [frame_num |-> Frame(k).frame_num, decode_id |-> k,
   poc |-> Frame(k).global_poc]

\* W are the newest of the candidates: a full DPB of them, or all.
NewestOf(W) ==
  /\ W \subseteq Candidates
  /\ dpb = {Pic(k) : k \in W}
  /\ \A k \in Candidates, m \in W : m < k => k \in W
  /\ W = Candidates \/ Cardinality(dpb) = MaxRefFrames

Window == \E W \in SUBSET Candidates : NewestOf(W)

WindowInv == Inv /\ Window

\* An IDR picture is the only candidate after it; another reference frame is a
\* candidate besides those of another frame_num.
LEMMA CandidatesGrow ==
  ASSUME frames \in Seq(FrameType), NEW f \in FrameType,
         frames' = Append(frames, f), NEW n, n = Len(frames)
  PROVE  Candidates' =
           {k \in Candidates :
              ~f.is_idr /\ (f.is_ref => Frame(k).frame_num # f.frame_num)}
           \cup (IF f.is_ref THEN {n} ELSE {})
<1>1. /\ n \in Nat /\ Ids = 0 .. n - 1 /\ Last = n - 1
      /\ Ids' = 0 .. n /\ Last' = n /\ Frame(n)' = f
      /\ \A k \in Ids : Frame(k)' = Frame(k)
  BY LogGrows
<1>2. \A i \in Ids : SamePeriod(i, n)' <=> (SamePeriod(i, Last) /\ ~f.is_idr)
  BY PeriodsGrow
<1>3. SamePeriod(n, n)'
  BY <1>1 DEF SamePeriod
<1>4. Len(frames) - 1 = Last /\ Len(frames') - 1 = n
  BY <1>1 DEF Last
<1> DEFINE Kept(k) == \A m \in k + 1 .. Last :
                        ~(Frame(m).is_ref /\ Frame(m).frame_num = Frame(k).frame_num)
           KeptNow(k) == \A m \in k + 1 .. n :
                        ~(Frame(m)'.is_ref /\ Frame(m)'.frame_num = Frame(k)'.frame_num)
<1>5. ASSUME NEW k \in Ids
      PROVE  KeptNow(k) <=> (Kept(k) /\ ~(f.is_ref /\ f.frame_num = Frame(k).frame_num))
  <2>1. k + 1 .. n = (k + 1 .. Last) \cup {n} /\ \A m \in k + 1 .. Last : m \in Ids
    BY <1>1
  <2> QED BY <1>1, <2>1
<1>6. KeptNow(n)
  BY <1>1
<1>7. \A k : k \in Candidates <=>
        k \in Ids /\ Frame(k).is_ref /\ SamePeriod(k, Last) /\ Kept(k)
  BY <1>1, <1>4 DEF Candidates, CandidatesBefore
<1>8. \A k : k \in Candidates' <=>
        k \in Ids' /\ Frame(k)'.is_ref /\ SamePeriod(k, n)' /\ KeptNow(k)
  <2>1. Candidates' = {k \in Ids' :
          /\ Frame(k)'.is_ref /\ SamePeriod(k, Len(frames) - 1)'
          /\ \A m \in k + 1 .. Len(frames') - 1 :
               ~(Frame(m)'.is_ref /\ Frame(m)'.frame_num = Frame(k)'.frame_num)}
    BY <1>1, <1>4 DEF Candidates, CandidatesBefore
  <2>2. \A k : SamePeriod(k, Len(frames) - 1)' <=> SamePeriod(k, n)'
    BY <1>4 DEF SamePeriod
  <2> QED BY <1>4, <2>1, <2>2
<1> HIDE DEF Kept, KeptNow
<1>9. ASSUME NEW k
      PROVE  k \in Candidates' <=>
               \/ /\ k \in Candidates /\ ~f.is_idr
                  /\ f.is_ref => Frame(k).frame_num # f.frame_num
               \/ k = n /\ f.is_ref
  <2>1. CASE k = n
    <3>1. n \in Ids' /\ n \notin Ids
      BY <1>1
    <3>2. n \notin Candidates
      BY <1>7, <3>1
    <3> QED BY <1>1, <1>3, <1>6, <1>8, <2>1, <3>1, <3>2
  <2>2. CASE k \in Ids
    <3>1. k # n /\ k \in Ids' /\ Frame(k)' = Frame(k)
      BY <1>1, <2>2
    <3> QED BY <1>2, <1>5, <1>7, <1>8, <2>2, <3>1
  <2>3. CASE k # n /\ k \notin Ids
    <3>1. k \notin Ids'
      BY <1>1, <2>3
    <3> QED BY <1>7, <1>8, <2>3, <3>1
  <2> QED BY <2>1, <2>2, <2>3
<1> QED BY <1>9

\* Candidates are frames of the log, and no two have the same frame_num.
LEMMA CandidatesDiffer ==
  ASSUME frames \in Seq(FrameType)
  PROVE  /\ \A k \in Candidates : k \in Ids /\ k \in Int
         /\ \A k, m \in Candidates :
              k # m => Frame(k).frame_num # Frame(m).frame_num
<1>1. Len(frames) \in Nat
  OBVIOUS
<1>2. \A k \in Candidates : k \in Ids /\ k \in Int /\ k <= Len(frames) - 1
  BY <1>1 DEF Candidates, CandidatesBefore, Ids
<1>3. ASSUME NEW k \in Candidates, NEW m \in Candidates, k < m
      PROVE  Frame(k).frame_num # Frame(m).frame_num
  <2>1. m \in k + 1 .. Len(frames) - 1 /\ Frame(m).is_ref
    BY <1>1, <1>2, <1>3 DEF Candidates, CandidatesBefore
  <2> QED BY <2>1 DEF Candidates, CandidatesBefore
<1>4. ASSUME NEW k \in Candidates, NEW m \in Candidates, k # m
      PROVE  Frame(k).frame_num # Frame(m).frame_num
  <2>1. k < m \/ m < k
    BY <1>2, <1>4
  <2> QED BY <1>3, <2>1
<1> QED BY <1>2, <1>4

\* One picture moves the window.
LEMMA SliceWindow ==
  ASSUME WindowInv, NEW s \in Slices, ProcessSlice(s)
  PROVE  Window'
<1>0. /\ frames \in Seq(FrameType) /\ dpb \subseteq PicType /\ IsFiniteSet(dpb)
      /\ Inv /\ Window /\ MaxRefFrames \in Nat \ {0} /\ Cardinality(dpb) <= MaxRefFrames
      /\ Cardinality(dpb) \in Nat
  BY DpbSizes, FS_CardinalityType DEF WindowInv, Inv, TypeOK, DpbInv
<1>1. PICK n : n = Len(frames)
  OBVIOUS
<1>2. PICK f \in FrameType :
        /\ frames' = Append(frames, f)
        /\ f.is_idr = s.idr /\ f.is_ref = s.ref /\ f.frame_num = s.frame_num
        /\ dpb' = IF s.ref
                  THEN UpdateDpb(DpbFor(s), [frame_num |-> s.frame_num,
                         decode_id |-> n, poc |-> f.global_poc])
                  ELSE DpbFor(s)
  BY <1>0, <1>1, SliceStep DEF NextDecodeId
<1>3. /\ n \in Nat /\ Ids = 0 .. n - 1 /\ Frame(n)' = f
      /\ \A k \in Ids : Frame(k)' = Frame(k)
  BY <1>0, <1>1, <1>2, LogGrows
<1> DEFINE C == Candidates
           new == [frame_num |-> s.frame_num, decode_id |-> n, poc |-> f.global_poc]
<1>4. Candidates' =
        {k \in C : ~s.idr /\ (s.ref => Frame(k).frame_num # s.frame_num)}
        \cup (IF s.ref THEN {n} ELSE {})
  <2>1. Candidates' =
          {k \in Candidates :
             ~f.is_idr /\ (f.is_ref => Frame(k).frame_num # f.frame_num)}
          \cup (IF f.is_ref THEN {n} ELSE {})
    BY <1>0, <1>1, <1>2, CandidatesGrow
  <2> QED BY <1>2, <2>1
<1>5. /\ \A k \in C : k \in Ids /\ k \in Int /\ k < n
      /\ \A k, m \in C : k # m => Frame(k).frame_num # Frame(m).frame_num
  <2>1. /\ \A k \in C : k \in Ids
        /\ \A k, m \in C : k # m => Frame(k).frame_num # Frame(m).frame_num
    BY <1>0, CandidatesDiffer
  <2> QED BY <1>3, <2>1
<1>6. Pic(n)' = new /\ \A k \in C : Pic(k)' = Pic(k)
  BY <1>2, <1>3, <1>5 DEF Pic
<1>7. new.decode_id = n /\ new.frame_num = s.frame_num
      /\ \A k : Pic(k).decode_id = k /\ Pic(k).frame_num = Frame(k).frame_num
  BY DEF Pic
<1> HIDE DEF new
<1>8. PICK W \in SUBSET C : NewestOf(W)
  BY <1>0 DEF Window
<1>9. /\ dpb = {Pic(k) : k \in W}
      /\ \A k \in C, m \in W : m < k => k \in W
      /\ W = C \/ Cardinality(dpb) = MaxRefFrames
  BY <1>8 DEF NewestOf
<1>10. new \notin dpb
  <2> SUFFICES ASSUME new \in dpb PROVE FALSE
    OBVIOUS
  <2>1. PICK k \in W : new = Pic(k)
    BY <1>9
  <2>2. k = n /\ k < n /\ k \in Int
    BY <1>5, <1>7, <2>1
  <2> QED BY <2>2
\* What Window' asks of a set V.
<1>11. ASSUME NEW V, V \subseteq Candidates', dpb' = {Pic(k)' : k \in V},
              \A k \in Candidates', m \in V : m < k => k \in V,
              V = Candidates' \/ Cardinality(dpb') = MaxRefFrames
       PROVE  Window'
  <2>1. NewestOf(V)'
    BY <1>11 DEF NewestOf
  <2> QED BY <1>11, <2>1 DEF Window
<1>12. CASE s.idr /\ ~s.ref
  <2>1. dpb' = {} /\ Candidates' = {}
    BY <1>2, <1>4, <1>12 DEF DpbFor
  <2>2. PICK V : V = {}
    OBVIOUS
  <2> QED BY <1>11, <2>1, <2>2
<1>13. CASE s.idr /\ s.ref
  <2>1. Candidates' = {n}
    BY <1>4, <1>13
  <2>2. UpdateDpb({}, new) = {new}
    BY <1>0, FS_EmptySet DEF UpdateDpb, Evict
  <2>3. dpb' = {new}
    BY <1>2, <1>13, <2>2 DEF DpbFor, new
  <2>4. PICK V : V = {n}
    OBVIOUS
  <2>5. dpb' = {Pic(k)' : k \in V}
    BY <1>6, <2>3, <2>4
  <2> QED BY <1>11, <2>1, <2>4, <2>5
<1>14. CASE ~s.idr /\ ~s.ref
  <2>1. Candidates' = C /\ dpb' = dpb
    BY <1>2, <1>4, <1>14 DEF DpbFor
  <2> QED BY <1>6, <1>8, <1>9, <1>11, <2>1
<1>15. CASE ~s.idr /\ s.ref
  <2>0. /\ Candidates' = {k \in C : Frame(k).frame_num # s.frame_num} \cup {n}
        /\ dpb' = UpdateDpb(dpb, new)
    BY <1>2, <1>4, <1>15 DEF DpbFor, new
  <2>1. CASE \E r \in dpb : r.frame_num = new.frame_num
    <3>1. PICK V : V = {k \in W : Frame(k).frame_num # s.frame_num} \cup {n}
      OBVIOUS
    <3> DEFINE D == {r \in dpb : r.frame_num # new.frame_num}
    <3>2. dpb' = D \cup {new}
      BY <2>0, <2>1 DEF UpdateDpb
    <3>3. V \subseteq Candidates'
      BY <2>0, <3>1
    <3>4. dpb' = {Pic(k)' : k \in V}
      <4>1. \A r : r \in D <=> \E k \in W : Frame(k).frame_num # s.frame_num /\ r = Pic(k)
        BY <1>7, <1>9
      <4>2. \A k \in W : Pic(k)' = Pic(k)
        BY <1>6
      <4>3. \A r : r \in {Pic(k)' : k \in V} <=>
              \/ \E k \in W : Frame(k).frame_num # s.frame_num /\ r = Pic(k)
              \/ r = new
        BY <1>6, <3>1, <4>2
      <4> HIDE DEF D
      <4> QED BY <3>2, <4>1, <4>3
    <3>5. ASSUME NEW k \in Candidates', NEW m \in V, m < k
          PROVE  k \in V
      <4>1. m # n
        BY <1>3, <1>5, <2>0, <3>5
      <4> QED BY <1>9, <2>0, <3>1, <3>5, <4>1
    <3>6. V = Candidates' \/ Cardinality(dpb') = MaxRefFrames
      <4>1. CASE W = C
        BY <2>0, <3>1, <4>1
      <4>2. CASE Cardinality(dpb) = MaxRefFrames
        <5>1. PICK r \in dpb : r.frame_num = new.frame_num
          BY <2>1
        <5>2. ASSUME NEW q \in dpb, q.frame_num = new.frame_num
              PROVE  q = r
          <6>1. PICK k \in W, m \in W : q = Pic(k) /\ r = Pic(m)
            BY <1>9
          <6>2. Frame(k).frame_num = Frame(m).frame_num
            BY <1>7, <5>1, <5>2, <6>1
          <6> QED BY <1>5, <6>1, <6>2
        <5>3. D = dpb \ {r}
          BY <5>1, <5>2
        <5>4. IsFiniteSet(D) /\ Cardinality(D) = Cardinality(dpb) - 1
          BY <1>0, <5>3, FS_RemoveElement
        <5>5. new \notin D
          BY <1>10
        <5>6. Cardinality(D \cup {new}) = Cardinality(D) + 1
          <6> HIDE DEF D
          <6> QED BY <5>4, <5>5, FS_AddElement
        <5> QED BY <1>0, <3>2, <4>2, <5>4, <5>6
      <4> QED BY <1>9, <4>1, <4>2
    <3> QED BY <1>11, <3>3, <3>4, <3>5, <3>6
  <2>2. CASE ~(\E r \in dpb : r.frame_num = new.frame_num)
    <3>0. /\ dpb' = Evict(dpb) \cup {new}
          /\ \A k \in W : Frame(k).frame_num # s.frame_num
      <4>1. \A k \in W : Pic(k) \in dpb
        BY <1>9
      <4> QED BY <1>7, <2>0, <2>2, <4>1 DEF UpdateDpb
    <3>1. CASE Cardinality(dpb) < MaxRefFrames
      <4>1. W = C /\ dpb' = dpb \cup {new}
        BY <1>0, <1>9, <3>0, <3>1 DEF Evict
      <4>2. Candidates' = W \cup {n}
        BY <2>0, <3>0, <4>1
      <4>3. PICK V : V = W \cup {n}
        OBVIOUS
      <4>4. dpb' = {Pic(k)' : k \in V}
        BY <1>6, <1>9, <4>1, <4>3
      <4> QED BY <1>11, <4>2, <4>3, <4>4
    <3>2. CASE Cardinality(dpb) = MaxRefFrames
      <4>1. PICK V : V = {k \in W : \E q \in W : q < k} \cup {n}
        OBVIOUS
      <4> DEFINE D == {r \in dpb : \E q \in dpb : q.decode_id < r.decode_id}
      <4>2. dpb' = D \cup {new}
        BY <1>0, <3>0, <3>2 DEF Evict
      <4>3. V \subseteq Candidates'
        BY <2>0, <3>0, <4>1
      <4>4. dpb' = {Pic(k)' : k \in V}
        <5>1. \A r : r \in D <=> \E k \in W : (\E q \in W : q < k) /\ r = Pic(k)
          BY <1>7, <1>9
        <5>2. \A k \in W : Pic(k)' = Pic(k)
          BY <1>6
        <5>3. \A r : r \in {Pic(k)' : k \in V} <=>
                \/ \E k \in W : (\E q \in W : q < k) /\ r = Pic(k)
                \/ r = new
          BY <1>6, <4>1, <5>2
        <5> HIDE DEF D
        <5> QED BY <4>2, <5>1, <5>3
      <4>5. ASSUME NEW k \in Candidates', NEW m \in V, m < k
            PROVE  k \in V
        <5>1. m # n
          BY <1>3, <1>5, <2>0, <4>5
        <5>2. m \in W /\ \E q \in W : q < m
          BY <4>1, <5>1
        <5>3. CASE k = n
          BY <4>1, <5>3
        <5>4. CASE k \in C
          <6>1. k \in W
            BY <1>9, <4>5, <5>2, <5>4
          <6>2. \E q \in W : q < k
            BY <4>5, <5>2, <6>1
          <6> QED BY <4>1, <6>1, <6>2
        <5> QED BY <2>0, <5>3, <5>4
      <4>6. Cardinality(dpb') = MaxRefFrames
        <5>1. dpb # {}
          BY <1>0, <3>2, FS_EmptySet
        <5>2. PICK r \in dpb : \A q \in dpb : ~(q.decode_id < r.decode_id)
          BY <1>0, <5>1, OldestPicture
        <5>3. ASSUME NEW q \in dpb, q # r
              PROVE  r.decode_id < q.decode_id
          <6>1. PICK k \in W, m \in W : q = Pic(k) /\ r = Pic(m)
            BY <1>9
          <6>2. k # m /\ ~(k < m) /\ k \in Int /\ m \in Int
            BY <1>5, <1>7, <5>2, <5>3, <6>1
          <6>3. m < k
            BY <6>2
          <6> QED BY <1>7, <6>1, <6>3
        <5>4. D = dpb \ {r}
          BY <5>2, <5>3
        <5>5. IsFiniteSet(D) /\ Cardinality(D) = Cardinality(dpb) - 1
          BY <1>0, <5>4, FS_RemoveElement
        <5>6. new \notin D
          BY <1>10
        <5>7. Cardinality(D \cup {new}) = Cardinality(D) + 1
          <6> HIDE DEF D
          <6> QED BY <5>5, <5>6, FS_AddElement
        <5> QED BY <1>0, <3>2, <4>2, <5>5, <5>7
      <4> QED BY <1>11, <4>3, <4>4, <4>5, <4>6
    <3> QED BY <1>0, <3>1, <3>2
  <2> QED BY <2>1, <2>2
<1> QED BY <1>12, <1>13, <1>14, <1>15, InputTypes DEF SliceType

LEMMA WindowInvHolds == Spec => []WindowInv
<1>1. Init => WindowInv
  <2> SUFFICES ASSUME Init PROVE WindowInv
    OBVIOUS
  <2>1. Candidates = {} /\ dpb = {}
    BY DEF Init, Candidates, CandidatesBefore, Ids
  <2>2. PICK W : W = {}
    OBVIOUS
  <2>3. NewestOf(W)
    BY <2>1, <2>2 DEF NewestOf
  <2> QED BY <2>1, <2>2, <2>3, InitInv DEF WindowInv, Window
<1>2. WindowInv /\ Inv' /\ [Next]_vars => WindowInv'
  <2> SUFFICES ASSUME WindowInv, Inv', [Next]_vars PROVE WindowInv'
    OBVIOUS
  <2>1. CASE UNCHANGED <<frames, dpb>>
    <3>1. /\ Ids' = Ids /\ Len(frames') = Len(frames)
          /\ \A k : Frame(k)' = Frame(k)
          /\ \A i, k : SamePeriod(i, k)' <=> SamePeriod(i, k)
      BY <2>1 DEF Ids, Frame, SamePeriod
    <3>2. SamePeriod(0, Len(frames) - 1)' <=> SamePeriod(0, Len(frames) - 1)
      BY <2>1 DEF SamePeriod, Frame
    <3>3. Candidates' = Candidates /\ \A k : Pic(k)' = Pic(k)
      BY <2>1, <3>1 DEF Candidates, CandidatesBefore, Pic, Ids, Frame, SamePeriod
    <3>4. ASSUME NEW W \in SUBSET Candidates, NewestOf(W)
          PROVE  NewestOf(W)'
      BY <2>1, <3>3, <3>4 DEF NewestOf
    <3>5. Window'
      BY <3>3, <3>4 DEF WindowInv, Window
    <3> QED BY <3>5 DEF WindowInv
  <2>2. CASE \E id \in SpsIds, sps \in SpsValues, truncated \in BOOLEAN :
               ProcessSps(id, sps, truncated)
    BY <2>1, <2>2 DEF ProcessSps
  <2>3. CASE \E s \in Slices : ProcessSlice(s)
    BY <2>3, SliceWindow DEF WindowInv
  <2>4. CASE Report
    BY <2>1, <2>4 DEF Report
  <2>5. CASE UNCHANGED vars
    BY <2>1, <2>5 DEF vars
  <2> QED BY <2>2, <2>3, <2>4, <2>5 DEF Next, Pass1
<1> QED BY <1>1, <1>2, InvHolds, PTL DEF Spec

\* Such a W is the set of candidates with fewer newer ones than the DPB holds.
LEMMA NewestAreCounted ==
  ASSUME Inv, NEW W \in SUBSET Candidates, NewestOf(W), NEW k \in Candidates
  PROVE  k \in W <=> Cardinality({m \in Candidates : m > k}) < MaxRefFrames
<1> DEFINE T == {m \in Candidates : m > k}
<1>1. /\ dpb = {Pic(m) : m \in W}
      /\ \A i \in Candidates, m \in W : m < i => i \in W
      /\ W = Candidates \/ Cardinality(dpb) = MaxRefFrames
  BY DEF NewestOf
<1>2. /\ dpb \subseteq PicType /\ IsFiniteSet(dpb)
      /\ Cardinality(dpb) <= MaxRefFrames /\ MaxRefFrames \in Nat
      /\ Cardinality(dpb) \in Nat
  BY DpbSizes, FS_CardinalityType DEF Inv, TypeOK, DpbInv
<1>3. \A m \in Candidates : m \in Int
  <2>1. frames \in Seq(FrameType)
    BY DEF Inv, TypeOK
  <2> QED BY <2>1, CandidatesDiffer
<1>4. IsFiniteSet(Candidates)
  <2>1. Candidates \in SUBSET (0 .. Len(frames) - 1) /\ Len(frames) - 1 \in Int
    BY DEF Candidates, CandidatesBefore, Ids, Inv, TypeOK
  <2>2. IsFiniteSet(0 .. Len(frames) - 1)
    BY <2>1, FS_Interval
  <2> QED BY <2>1, <2>2, FS_Subset
<1>5. /\ IsFiniteSet(W) /\ IsFiniteSet(T)
      /\ Cardinality(W) \in Nat /\ Cardinality(T) \in Nat
  BY <1>4, FS_Subset, FS_CardinalityType
<1>6. Cardinality(W) = Cardinality(dpb)
  <2>1. W = {r.decode_id : r \in dpb}
    <3>1. \A m : Pic(m).decode_id = m
      BY DEF Pic
    <3> QED BY <1>1, <3>1
  <2>2. Cardinality(W) <= Cardinality(dpb)
    BY <1>2, <2>1, IdsOfPictures
  <2>3. [m \in W |-> Pic(m)] \in Surjection(W, dpb)
    BY <1>1 DEF Surjection
  <2>4. Cardinality(dpb) <= Cardinality(W)
    BY <1>5, <2>3, FS_Surjection
  <2> QED BY <1>2, <1>5, <2>2, <2>4
<1>7. ASSUME k \in W PROVE Cardinality(T) < MaxRefFrames
  <2>1. T \subseteq W \ {k}
    BY <1>1, <1>3, <1>7
  <2>2. IsFiniteSet(W \ {k}) /\ Cardinality(W \ {k}) = Cardinality(W) - 1
    BY <1>5, <1>7, FS_RemoveElement
  <2>3. Cardinality(T) <= Cardinality(W \ {k})
    <3> HIDE DEF T
    <3> QED BY <2>1, <2>2, FS_Subset
  <2> QED BY <1>2, <1>5, <1>6, <2>2, <2>3
<1>8. ASSUME k \notin W PROVE ~(Cardinality(T) < MaxRefFrames)
  <2>1. Cardinality(dpb) = MaxRefFrames
    BY <1>1, <1>8
  <2>2. W \subseteq T
    <3> SUFFICES ASSUME NEW m \in W PROVE m > k
      OBVIOUS
    <3>1. m # k /\ ~(m < k) /\ m \in Int /\ k \in Int
      BY <1>1, <1>3, <1>8
    <3> QED BY <3>1
  <2>3. Cardinality(W) <= Cardinality(T)
    <3> HIDE DEF T
    <3> QED BY <1>5, <2>2, FS_Subset
  <2> QED BY <1>2, <1>5, <1>6, <2>1, <2>3
<1> QED BY <1>7, <1>8

\* The DPB holds the newest of the reference frames since the last IDR picture,
\* however the code moves pictures between its slots.
THEOREM DpbSlides == Spec => []DpbIsSlidingWindow
<1>1. WindowInv => DpbIsSlidingWindow
  <2> SUFFICES ASSUME WindowInv PROVE DpbIsSlidingWindow
    OBVIOUS
  <2>1. PICK W \in SUBSET Candidates : NewestOf(W)
    BY DEF WindowInv, Window
  <2>2. W = {k \in Candidates :
               Cardinality({m \in Candidates : m > k}) < MaxRefFrames}
    BY <2>1, NewestAreCounted DEF WindowInv
  <2>3. dpb = {Pic(k) : k \in W}
    BY <2>1 DEF NewestOf
  <2> QED BY <2>2, <2>3 DEF DpbIsSlidingWindow, Newest, Candidates, Pic
<1> QED BY <1>1, WindowInvHolds, PTL

\* What the window was for an earlier picture does not change.
LEMMA NewestKept ==
  ASSUME frames \in Seq(FrameType), NEW f \in FrameType,
         frames' = Append(frames, f), NEW k \in 0 .. Len(frames)
  PROVE  Newest(k)' = Newest(k)
<1>1. \A i \in 0 .. k - 1 : Frame(i)' = Frame(i)
  BY LogGrows DEF Ids
<1>2. \A i \in 0 .. k - 1 : SamePeriod(i, k - 1)' <=> SamePeriod(i, k - 1)
  BY <1>1 DEF SamePeriod
<1>3. CandidatesBefore(k)' = CandidatesBefore(k)
  BY <1>1, <1>2 DEF CandidatesBefore
<1> QED BY <1>3, Zenon DEF Newest

\* One picture depends on pictures of the window, and those before it do still.
LEMMA SliceDependencies ==
  ASSUME Inv, DpbIsSlidingWindow, DependenciesInWindow, NEW s \in Slices, ProcessSlice(s)
  PROVE  DependenciesInWindow'
<1>0. frames \in Seq(FrameType)
  BY DEF Inv, TypeOK
<1>1. PICK n : n = Len(frames)
  OBVIOUS
<1>2. PICK f \in FrameType, needed \in SUBSET DpbFor(s) :
        /\ frames' = Append(frames, f) /\ f.is_idr = s.idr
        /\ f.dependencies = {r.decode_id : r \in needed}
  BY SliceStep
<1>3. /\ n \in Nat /\ Ids = 0 .. n - 1 /\ Ids' = 0 .. n /\ Frame(n)' = f
      /\ \A k \in Ids : Frame(k)' = Frame(k)
  BY <1>0, <1>1, <1>2, LogGrows
<1>4. \A k \in Ids' : Newest(k)' = Newest(k)
  BY <1>0, <1>1, <1>2, <1>3, NewestKept
<1>5. f.dependencies \subseteq (IF f.is_idr THEN {} ELSE Newest(n))
  <2>1. CASE s.idr
    BY <1>2, <2>1 DEF DpbFor
  <2>2. CASE ~s.idr
    <3>1. dpb = {Pic(k) : k \in Newest(n)}
      BY <1>1 DEF DpbIsSlidingWindow, Pic
    <3>2. \A k : Pic(k).decode_id = k
      BY DEF Pic
    <3>3. \A r \in needed : r.decode_id \in Newest(n)
      BY <2>2, <3>1, <3>2 DEF DpbFor
    <3> QED BY <1>2, <2>2, <3>3
  <2> QED BY <2>1, <2>2
<1>6. ASSUME NEW k \in Ids'
      PROVE  Frame(k)'.dependencies
               \subseteq (IF Frame(k)'.is_idr THEN {} ELSE Newest(k))
  <2>1. CASE k = n
    BY <1>3, <1>5, <2>1
  <2>2. CASE k \in Ids
    BY <1>3, <2>2 DEF DependenciesInWindow
  <2> QED BY <1>3, <2>1, <2>2
<1>7. \A k \in Ids' : Frame(k)'.dependencies
                        \subseteq (IF Frame(k)'.is_idr THEN {} ELSE Newest(k)')
  BY <1>4, <1>6, Zenon
<1> QED BY <1>7, Zenon DEF DependenciesInWindow

\* A frame is said to depend only on pictures of the window as it was when the
\* frame was decoded: never on itself, on a later one, on one from before an IDR
\* picture, or on one that was replaced or pushed out since.
THEOREM DependenciesSound == Spec => []DependenciesInWindow
<1>1. Init => DependenciesInWindow
  BY DEF Init, DependenciesInWindow, Ids
<1>2. Inv /\ DpbIsSlidingWindow /\ DependenciesInWindow /\ [Next]_vars
        => DependenciesInWindow'
  <2> SUFFICES ASSUME Inv, DpbIsSlidingWindow, DependenciesInWindow, [Next]_vars
               PROVE  DependenciesInWindow'
    OBVIOUS
  <2>1. CASE UNCHANGED frames
    <3>1. Ids' = Ids /\ \A k : Frame(k)' = Frame(k)
      BY <2>1 DEF Ids, Frame
    <3>2. \A i, k : SamePeriod(i, k)' <=> SamePeriod(i, k)
      BY <3>1 DEF SamePeriod
    <3>3. \A k : CandidatesBefore(k)' = CandidatesBefore(k)
      BY <3>1, <3>2 DEF CandidatesBefore
    <3>4. \A k : Newest(k)' = Newest(k)
      BY <3>3, Zenon DEF Newest
    <3> QED BY <3>1, <3>4 DEF DependenciesInWindow
  <2>2. CASE \E id \in SpsIds, sps \in SpsValues, truncated \in BOOLEAN :
               ProcessSps(id, sps, truncated)
    BY <2>1, <2>2 DEF ProcessSps
  <2>3. CASE \E s \in Slices : ProcessSlice(s)
    BY <2>3, SliceDependencies
  <2>4. CASE Report \/ UNCHANGED vars
    BY <2>1, <2>4 DEF Report, vars
  <2> QED BY <2>2, <2>3, <2>4 DEF Next, Pass1
<1> QED BY <1>1, <1>2, InvHolds, DpbSlides, PTL DEF Spec

(***************************************************************************)
(* Low bits.                                                               *)
(***************************************************************************)

\* A number is a multiple of the period and its low bits.
LEMMA LowBits ==
  ASSUME NEW M \in Nat \ {0}, NEW x \in Int
  PROVE  /\ x % M \in 0 .. M - 1
         /\ \E a \in Int : x = M * a + (x % M)
<1>1. x % M \in 0 .. M - 1
  BY Z3
<1>2. x = M * (x \div M) + (x % M) /\ x \div M \in Int
  BY Z3
<1> QED BY <1>1, <1>2

\* A multiple of the period that is less than two periods away from zero.
LEMMA SmallMultiple ==
  ASSUME NEW M \in Nat \ {0}, NEW c \in Int, -(2 * M) < M * c, M * c < 2 * M
  PROVE  M * c \in {-M, 0, M}
<1>1. CASE c >= 2
  <2>1. M * c >= M * 2
    BY <1>1, Z3
  <2> QED BY <2>1
<1>2. CASE c <= -2
  <2>1. M * c <= M * (-2)
    BY <1>2, Z3
  <2> QED BY <2>1
<1>3. CASE c \in {-1, 0, 1}
  BY <1>3
<1> QED BY <1>1, <1>2, <1>3

\* The two wrap tests find the period of a number x from its low bits and from
\* a number p less than half a period away.
LEMMA Wraps ==
  ASSUME NEW M \in Nat \ {0}, M % 2 = 0, NEW p \in Int, NEW x \in Int,
         -M < 2 * (x - p), 2 * (x - p) <= M
  PROVE  x = (p - (p % M)) + (x % M)
             + (IF x % M < p % M /\ (p % M) - (x % M) >= M \div 2 THEN M
                ELSE IF x % M > p % M /\ (x % M) - (p % M) > M \div 2 THEN -M
                ELSE 0)
<1> DEFINE lp == p % M
           lx == x % M
<1>1. /\ lp \in 0 .. M - 1 /\ lx \in 0 .. M - 1
      /\ \E a \in Int : p = M * a + lp
      /\ \E b \in Int : x = M * b + lx
  BY LowBits
<1> HIDE DEF lp, lx
<1>2. PICK a \in Int, b \in Int : p = M * a + lp /\ x = M * b + lx
  BY <1>1
<1>3. M * (b - a) = M * b - M * a
  BY Z3
<1>4. PICK mc \in Int : mc = M * (b - a)
  BY <1>3
<1>5. x - p = mc + (lx - lp)
  BY <1>1, <1>2, <1>3, <1>4
<1>6. mc \in {-M, 0, M}
  BY <1>1, <1>4, <1>5, SmallMultiple
<1>7. PICK h \in Int : M = 2 * h /\ M \div 2 = h
  <2>1. M = 2 * (M \div 2) /\ M \div 2 \in Int
    BY Z3
  <2> QED BY <2>1
<1>8. x = (p - lp) + lx
            + (IF lx < lp /\ lp - lx >= h THEN M
               ELSE IF lx > lp /\ lx - lp > h THEN -M
               ELSE 0)
  BY <1>1, <1>5, <1>6, <1>7
<1> QED BY <1>7, <1>8 DEF lp, lx

\* The greatest of some numbers.
LEMMA MaxOfSome ==
  ASSUME NEW n \in Int, NEW S \in SUBSET (0 .. n), S # {}
  PROVE  Max(S) \in S /\ \A x \in S : x <= Max(S)
<1> DEFINE T == {n - x : x \in S}
           R == OpToRel(<, Nat)
<1>1. T \in SUBSET Nat /\ T # {}
  <2>1. \A x \in S : n - x \in Nat
    OBVIOUS
  <2> QED BY <2>1
<1>2. PICK t \in T : \A y \in T : <<y, t>> \notin R
  <2>1. IsWellFoundedOn(R, Nat)
    BY NatLessThanWellFounded
  <2> HIDE DEF R, T
  <2> QED BY <1>1, <2>1, WFMin
<1>3. \A y \in T : ~(y < t)
  BY <1>1, <1>2 DEF OpToRel
<1>4. PICK m \in S : t = n - m
  OBVIOUS
<1>5. \A x \in S : n - x \in T
  OBVIOUS
<1> HIDE DEF T
<1>6. \A x \in S : m >= x
  BY <1>3, <1>4, <1>5
<1>7. Max(S) \in S /\ \A x \in S : Max(S) >= x
  BY <1>6, Zenon DEF Max
<1> QED BY <1>7

\* What is among the numbers, and below none of them, is their greatest.
LEMMA MaxIs ==
  ASSUME NEW n \in Int, NEW S \in SUBSET (0 .. n), NEW m \in S,
         \A x \in S : x <= m
  PROVE  Max(S) = m
<1>1. Max(S) \in S /\ \A x \in S : x <= Max(S)
  BY MaxOfSome
<1>2. PICK y : y = Max(S)
  OBVIOUS
<1>3. y \in 0 .. n /\ m \in 0 .. n /\ m <= y /\ y <= m
  BY <1>1, <1>2
<1>4. y = m
  BY <1>3
<1> QED BY <1>2, <1>4

(***************************************************************************)
(* The stream behind the log.                                              *)
(***************************************************************************)

EntryType == [slice : SliceType, sps : SpsType, max_poc_lsb : Nat]

\* The log is of the frames of the stream.
LogOfStream ==
  /\ stream \in Seq(EntryType)
  /\ \A k \in Ids : /\ Frame(k).is_idr = stream[k + 1].slice.idr
                    /\ Frame(k).is_ref = stream[k + 1].slice.ref

\* The analysis of one picture adds frame f, for entry t, to the log.
Logged(f, t) ==
  /\ f \in FrameType /\ t \in EntryType
  /\ frames' = Append(frames, f) /\ stream' = Append(stream, t)
  /\ f.is_idr = t.slice.idr /\ f.is_ref = t.slice.ref

\* What was logged stays.
LEMMA Logs ==
  ASSUME frames \in Seq(FrameType), LogOfStream, Len(stream) = Len(frames),
         NEW f, NEW t, Logged(f, t), NEW n, n = Len(frames)
  PROVE  /\ n \in Nat /\ Ids = 0 .. n - 1 /\ Last = n - 1
         /\ Ids' = 0 .. n /\ Last' = n
         /\ Frame(n)' = f /\ stream'[n + 1] = t
         /\ \A k \in Ids : /\ Frame(k)' = Frame(k)
                           /\ stream'[k + 1] = stream[k + 1]
                           /\ stream[k + 1] \in EntryType
         /\ LogOfStream'
<1>1. /\ n \in Nat /\ Ids = 0 .. n - 1 /\ Last = n - 1
      /\ Ids' = 0 .. n /\ Last' = n /\ Frame(n)' = f
      /\ \A k \in Ids : Frame(k)' = Frame(k)
  BY LogGrows DEF Logged
<1>2. /\ stream \in Seq(EntryType) /\ t \in EntryType
      /\ stream' = Append(stream, t) /\ Len(stream) = n
  BY DEF LogOfStream, Logged
<1>3. stream' \in Seq(EntryType)
  BY <1>2
<1>4. stream'[n + 1] = t
  BY <1>1, <1>2
<1>5. \A k \in Ids : stream'[k + 1] = stream[k + 1] /\ stream[k + 1] \in EntryType
  BY <1>1, <1>2
<1>6. ASSUME NEW k \in Ids'
      PROVE  /\ Frame(k)'.is_idr = stream'[k + 1].slice.idr
             /\ Frame(k)'.is_ref = stream'[k + 1].slice.ref
  <2>1. CASE k = n
    BY <1>1, <1>4, <2>1 DEF Logged
  <2>2. CASE k \in Ids
    BY <1>1, <1>5, <2>2 DEF LogOfStream
  <2> QED BY <1>1, <2>1, <2>2
<1> QED BY <1>1, <1>3, <1>4, <1>5, <1>6 DEF LogOfStream

\* The last reference frame before a frame stays the same.
LEMMA PrevRefKept ==
  ASSUME frames \in Seq(FrameType), LogOfStream, Len(stream) = Len(frames),
         NEW f, NEW t, Logged(f, t), NEW k \in 0 .. Len(frames)
  PROVE  /\ PrevRef(k)' = PrevRef(k)
         /\ (\E r \in 0 .. k - 1 : Frame(r).is_ref) =>
              PrevRef(k) \in 0 .. k - 1 /\ Frame(PrevRef(k)).is_ref
<1>1. PICK n : n = Len(frames)
  OBVIOUS
<1>2. n \in Nat /\ Ids = 0 .. n - 1 /\ \A r \in Ids : Frame(r)' = Frame(r)
  BY <1>1, Logs
<1> DEFINE S == {r \in 0 .. k - 1 : Frame(r).is_ref}
<1>3. {r \in 0 .. k - 1 : Frame(r)'.is_ref} = S
  BY <1>1, <1>2
<1>4. PrevRef(k)' = Max({r \in 0 .. k - 1 : Frame(r)'.is_ref}) /\ PrevRef(k) = Max(S)
  BY DEF PrevRef
<1>5. ASSUME \E r \in 0 .. k - 1 : Frame(r).is_ref
      PROVE  PrevRef(k) \in 0 .. k - 1 /\ Frame(PrevRef(k)).is_ref
  <2>1. S # {} /\ S \in SUBSET (0 .. k - 1) /\ k - 1 \in Int
    BY <1>1, <1>2, <1>5
  <2>2. Max(S) \in S
    <3> HIDE DEF S
    <3> QED BY <2>1, MaxOfSome
  <2> QED BY <1>4, <2>2
<1> HIDE DEF S
<1> QED BY <1>3, <1>4, <1>5

\* Whether the POC of a frame is close depends on the stream up to it.
LEMMA CloseKept ==
  ASSUME frames \in Seq(FrameType), LogOfStream, Len(stream) = Len(frames),
         NEW f, NEW t, Logged(f, t), NEW k \in Ids,
         stream[k + 1].slice.idr \/ \E r \in 0 .. k - 1 : Frame(r).is_ref
  PROVE  PocIsClose(k)' <=> PocIsClose(k)
<1>1. PICK n : n = Len(frames)
  OBVIOUS
<1>2. /\ n \in Nat /\ Ids = 0 .. n - 1
      /\ \A r \in Ids : stream'[r + 1] = stream[r + 1]
  BY <1>1, Logs
<1>3. /\ PrevRef(k)' = PrevRef(k)
      /\ (\E r \in 0 .. k - 1 : Frame(r).is_ref) => PrevRef(k) \in 0 .. k - 1
  <2>1. k \in 0 .. Len(frames)
    BY <1>1, <1>2
  <2> QED BY <2>1, PrevRefKept, Zenon
<1>4. CASE stream[k + 1].slice.idr
  BY <1>2, <1>4 DEF PocIsClose
<1>5. CASE PrevRef(k) \in Ids
  BY <1>2, <1>3, <1>5 DEF PocIsClose
<1> QED BY <1>2, <1>3, <1>4, <1>5

\* Frames that conform in the longer stream did so before.
LEMMA PartKept ==
  ASSUME frames \in Seq(FrameType), LogOfStream, Len(stream) = Len(frames),
         NEW f, NEW t, Logged(f, t),
         NEW k \in Ids, NEW first \in 0 .. k, Frame(first).is_idr,
         \A m \in first .. k : PocIsClose(m)'
  PROVE  Frame(first).is_ref /\ \A m \in first .. k : PocIsClose(m)
<1>1. PICK n : n = Len(frames)
  OBVIOUS
<1>2. /\ n \in Nat /\ Ids = 0 .. n - 1
      /\ \A r \in Ids : stream'[r + 1] = stream[r + 1]
  BY <1>1, Logs
<1>3. first \in Ids /\ first \in first .. k
  BY <1>2
<1>4. stream[first + 1].slice.idr
  BY <1>3 DEF LogOfStream
<1>5. PocIsClose(first)'
  BY <1>3
<1>6. stream'[first + 1].slice.ref
  BY <1>2, <1>3, <1>4, <1>5 DEF PocIsClose
<1>7. Frame(first).is_ref
  BY <1>2, <1>3, <1>6 DEF LogOfStream
<1>8. ASSUME NEW m \in first .. k
      PROVE  PocIsClose(m)
  <2>1. m \in Ids /\ PocIsClose(m)'
    BY <1>2
  <2>2. stream[m + 1].slice.idr \/ \E r \in 0 .. m - 1 : Frame(r).is_ref
    BY <1>2, <1>3, <1>4, <1>7
  <2> QED BY <2>1, <2>2, CloseKept
<1> QED BY <1>7, <1>8

LEMMA ConformingKept ==
  ASSUME frames \in Seq(FrameType), LogOfStream, Len(stream) = Len(frames),
         NEW f, NEW t, Logged(f, t), NEW k \in Ids, Conforming(k)'
  PROVE  Conforming(k)
<1>1. PICK n : n = Len(frames)
  OBVIOUS
<1>2. /\ n \in Nat /\ Ids = 0 .. n - 1
      /\ \A r \in Ids : Frame(r)' = Frame(r) /\ stream'[r + 1] = stream[r + 1]
  BY <1>1, Logs
<1>3. PICK first \in 0 .. k :
        /\ Frame(first)'.is_idr /\ SamePeriod(first, k)'
        /\ \A m \in first .. k :
             PocIsClose(m)' /\ stream'[m + 1].sps = stream'[k + 1].sps
  BY DEF Conforming
<1>4. first \in Ids /\ Frame(first).is_idr
  BY <1>2, <1>3
<1>5. SamePeriod(first, k)
  BY <1>1, <1>3, <1>4, PeriodsGrow DEF Logged
<1>6. \A m \in first .. k : PocIsClose(m)
  BY <1>3, <1>4, PartKept
<1>7. \A m \in first .. k : stream[m + 1].sps = stream[k + 1].sps
  <2>1. \A m \in first .. k : m \in Ids
    BY <1>2, <1>4
  <2> SUFFICES ASSUME NEW m \in first .. k
               PROVE  stream[m + 1].sps = stream[k + 1].sps
    OBVIOUS
  <2>2. stream'[m + 1] = stream[m + 1] /\ stream'[k + 1] = stream[k + 1]
    BY <1>2, <2>1
  <2>3. stream'[m + 1].sps = stream'[k + 1].sps
    BY <1>3
  <2> QED BY <2>2, <2>3
<1> QED BY <1>4, <1>5, <1>6, <1>7 DEF Conforming

\* A frame that conforms is close to the last reference frame, and the frame
\* before it, unless it is an IDR picture, conforms with the same SPS.
LEMMA ConformingLast ==
  ASSUME frames \in Seq(FrameType), LogOfStream, Len(stream) = Len(frames),
         NEW f, NEW t, Logged(f, t), NEW n, n = Len(frames), Conforming(n)'
  PROVE  /\ PocIsClose(n)'
         /\ ~f.is_idr => /\ n > 0 /\ Conforming(Last)
                         /\ stream[n].sps = t.sps
                         /\ PrevRef(n)' = PrevRef(n)
                         /\ PrevRef(n) \in Ids
<1>1. /\ n \in Nat /\ Ids = 0 .. n - 1 /\ Last = n - 1
      /\ Frame(n)' = f /\ stream'[n + 1] = t
      /\ \A r \in Ids : Frame(r)' = Frame(r) /\ stream'[r + 1] = stream[r + 1]
  BY Logs
<1>2. PICK first \in 0 .. n :
        /\ Frame(first)'.is_idr /\ SamePeriod(first, n)'
        /\ \A m \in first .. n :
             PocIsClose(m)' /\ stream'[m + 1].sps = stream'[n + 1].sps
  BY DEF Conforming
<1>3. PocIsClose(n)'
  BY <1>1, <1>2
<1>4. ASSUME ~f.is_idr
      PROVE  /\ n > 0 /\ Conforming(Last) /\ stream[n].sps = t.sps
             /\ PrevRef(n)' = PrevRef(n) /\ PrevRef(n) \in Ids
  <2>1. first # n /\ first \in Ids /\ n > 0 /\ Last \in Ids /\ first \in 0 .. Last
    BY <1>1, <1>2, <1>4
  <2>2. Frame(first).is_idr
    BY <1>1, <1>2, <2>1
  <2>3. SamePeriod(first, Last)
    BY <1>2, <2>1, PeriodsGrow DEF Logged
  <2>4. \A m \in first .. Last : m \in Ids /\ m \in first .. n
    BY <1>1, <2>1
  <2>5. Frame(first).is_ref /\ \A m \in first .. Last : PocIsClose(m)
    BY <1>2, <2>1, <2>2, <2>4, PartKept
  <2>6. \A m \in first .. Last : stream[m + 1].sps = t.sps
    BY <1>1, <1>2, <2>4
  <2>7. Last \in first .. Last /\ Last + 1 = n
    BY <1>1, <2>1
  <2>8. stream[Last + 1].sps = t.sps /\ stream[n].sps = t.sps
    BY <2>6, <2>7
  <2>9. Conforming(Last)
    BY <2>1, <2>2, <2>3, <2>5, <2>6, <2>8 DEF Conforming
  <2>10. \E r \in 0 .. n - 1 : Frame(r).is_ref
    BY <1>1, <2>1, <2>5
  <2>11. n \in 0 .. Len(frames)
    BY <1>1
  <2>12. PrevRef(n)' = PrevRef(n) /\ PrevRef(n) \in 0 .. n - 1
    BY <2>10, <2>11, PrevRefKept
  <2> QED BY <1>1, <2>1, <2>8, <2>9, <2>12
<1> QED BY <1>3, <1>4

(***************************************************************************)
(* The true POCs.                                                          *)
(***************************************************************************)

\* prev_poc_msb and prev_poc_lsb are the parts of the true POC of the last
\* reference frame.
Tracked ==
  frames # <<>> /\ Conforming(Last) =>
    LET ref == PrevRef(Len(frames))
        poc == stream[ref + 1].slice.poc
    IN  /\ ref \in Ids
        /\ prev_poc_lsb = poc % stream[Len(frames)].sps.max_poc_lsb
        /\ prev_poc_msb = poc - prev_poc_lsb

PocInv == Inv /\ LogOfStream /\ Tracked /\ PocReconstructed

\* After a reference frame, it is the last one; else the last one stays.
LEMMA NextPrevRef ==
  ASSUME frames \in Seq(FrameType), LogOfStream, Len(stream) = Len(frames),
         NEW f, NEW t, Logged(f, t), NEW n, n = Len(frames)
  PROVE  PrevRef(Len(frames))' = IF f.is_ref THEN n ELSE PrevRef(n)
<1>1. /\ n \in Nat /\ Ids = 0 .. n - 1 /\ Frame(n)' = f
      /\ \A r \in Ids : Frame(r)' = Frame(r)
  BY Logs
<1>2. Len(frames') = n + 1
  BY DEF Logged
<1> DEFINE S == {r \in 0 .. n : Frame(r)'.is_ref}
<1>3. PrevRef(Len(frames))' = Max(S)
  <2>1. PrevRef(Len(frames))' = Max({r \in 0 .. Len(frames') - 1 : Frame(r)'.is_ref})
    BY DEF PrevRef
  <2>2. Len(frames') - 1 = n
    BY <1>1, <1>2
  <2> QED BY <2>1, <2>2
<1>4. CASE f.is_ref
  <2>1. n \in S /\ S \in SUBSET (0 .. n) /\ (\A x \in S : x <= n) /\ n \in Int
    BY <1>1, <1>4
  <2>2. Max(S) = n
    <3> HIDE DEF S
    <3> QED BY <2>1, MaxIs, Zenon
  <2> QED BY <1>3, <1>4, <2>2
<1>5. CASE ~f.is_ref
  <2>1. S = {r \in 0 .. n - 1 : Frame(r).is_ref}
    BY <1>1, <1>5
  <2> QED BY <1>3, <1>5, <2>1 DEF PrevRef
<1> QED BY <1>4, <1>5

\* calculate_poc finds the true POC of a frame that conforms.
LEMMA PocFound ==
  ASSUME PocInv, NEW s \in Slices, NEW f, NEW t, Logged(f, t),
         t = [slice |-> s, sps |-> sps_table[s.sps], max_poc_lsb |-> max_poc_lsb],
         f.is_idr = s.idr, NEW n, n = Len(frames), Conforming(n)'
  PROVE  /\ TracksPoc(s) /\ PocMsb(s) \in Int /\ PocLsb(s) \in Int
         /\ PocLsb(s) = s.poc % t.sps.max_poc_lsb
         /\ PocMsb(s) = s.poc - PocLsb(s)
         /\ s.idr => s.ref /\ PocMsb(s) = 0 /\ PocLsb(s) = 0
<1>0. /\ frames \in Seq(FrameType) /\ LogOfStream /\ Len(stream) = Len(frames)
      /\ max_poc_lsb \in Nat /\ prev_poc_msb \in Int /\ prev_poc_lsb \in Nat
  BY DEF PocInv, Inv, TypeOK
<1>1. /\ n \in Nat /\ Ids = 0 .. n - 1 /\ Last = n - 1 /\ stream'[n + 1] = t
      /\ \A r \in Ids : stream'[r + 1] = stream[r + 1] /\ stream[r + 1] \in EntryType
  BY <1>0, Logs
<1>2. /\ PocIsClose(n)'
      /\ ~s.idr => /\ n > 0 /\ Conforming(Last) /\ stream[n].sps = t.sps
                   /\ PrevRef(n)' = PrevRef(n) /\ PrevRef(n) \in Ids
  BY <1>0, ConformingLast
<1> DEFINE M == t.sps.max_poc_lsb
           p == stream[PrevRef(n) + 1].slice.poc
<1>3. /\ t \in EntryType /\ t.slice = s /\ t.sps = sps_table[s.sps]
      /\ t.max_poc_lsb = max_poc_lsb
  BY DEF Logged
<1>4. M \in Nat \ {0} /\ M % 2 = 0 /\ s.poc \in Int /\ s.idr \in BOOLEAN
  BY <1>3 DEF EntryType, SpsType, SliceType
<1>5. /\ t.sps.poc_type = 0 /\ max_poc_lsb = M
      /\ s.idr => s.ref /\ s.poc = 0
      /\ ~s.idr => LET diff == s.poc - stream'[PrevRef(n)' + 1].slice.poc
                   IN  -M < 2 * diff /\ 2 * diff <= M
  BY <1>1, <1>2, <1>3 DEF PocIsClose
<1>6. TracksPoc(s) /\ PocLsb(s) = s.poc % M
  BY <1>3, <1>4, <1>5 DEF TracksPoc, PocLsb
<1>7. CASE s.idr
  <2>1. PocMsb(s) = 0
    BY <1>7 DEF PocMsb
  <2>2. s.poc = 0 /\ s.ref
    BY <1>5, <1>7
  <2>3. 0 % M = 0
    <3> HIDE DEF M
    <3> QED BY <1>4
  <2>4. PocLsb(s) = 0
    BY <1>6, <2>2, <2>3
  <2> QED BY <1>6, <1>7, <2>1, <2>2, <2>4
<1>8. CASE ~s.idr
  <2>1. /\ prev_poc_lsb = p % M /\ prev_poc_msb = p - prev_poc_lsb
        /\ p \in Int
    <3>1. frames # <<>>
      BY <1>1, <1>2, <1>8
    <3>2. /\ prev_poc_lsb = p % stream[n].sps.max_poc_lsb
          /\ prev_poc_msb = p - prev_poc_lsb
      BY <1>2, <1>8, <3>1 DEF PocInv, Tracked
    <3>3. p \in Int
      BY <1>1, <1>2, <1>8 DEF EntryType, SliceType
    <3> QED BY <1>2, <1>8, <3>2, <3>3
  <2>2. -M < 2 * (s.poc - p) /\ 2 * (s.poc - p) <= M
    BY <1>1, <1>2, <1>5, <1>8
  <2> HIDE DEF M, p
  <2>3. s.poc = (p - (p % M)) + (s.poc % M)
             + (IF s.poc % M < p % M /\ (p % M) - (s.poc % M) >= M \div 2 THEN M
                ELSE IF s.poc % M > p % M /\ (s.poc % M) - (p % M) > M \div 2
                THEN -M ELSE 0)
    BY <1>4, <2>1, <2>2, Wraps
  <2>4. PICK l \in Int : l = s.poc % M
    <3>1. s.poc % M \in 0 .. M - 1
      BY <1>4, LowBits, Zenon
    <3>2. s.poc % M \in Int
      BY <1>4, <3>1
    <3> QED BY <3>2, Zenon
  <2>5. PICK h : h = M \div 2
    OBVIOUS
  <2>6. s.poc = prev_poc_msb + l
             + (IF l < prev_poc_lsb /\ prev_poc_lsb - l >= h THEN M
                ELSE IF l > prev_poc_lsb /\ l - prev_poc_lsb > h THEN -M ELSE 0)
    BY <2>1, <2>3, <2>4, <2>5
  <2>7. PocMsb(s) = IF l < prev_poc_lsb /\ prev_poc_lsb - l >= h
                    THEN prev_poc_msb + M
                    ELSE IF l > prev_poc_lsb /\ l - prev_poc_lsb > h
                    THEN prev_poc_msb - M ELSE prev_poc_msb
    BY <1>5, <1>6, <1>8, <2>4, <2>5 DEF PocMsb
  <2>8. M \in Int
    BY <1>4
  <2>9. PocMsb(s) = s.poc - l /\ PocMsb(s) \in Int
    BY <1>0, <1>4, <2>6, <2>7, <2>8
  <2> QED BY <1>6, <1>8, <2>4, <2>9 DEF M
<1> QED BY <1>7, <1>8, <1>4

\* One picture keeps all that.
LEMMA SlicePoc ==
  ASSUME PocInv, Inv', NEW s \in Slices, ProcessSlice(s)
  PROVE  PocInv'
<1>0. /\ frames \in Seq(FrameType) /\ LogOfStream /\ Len(stream) = Len(frames)
      /\ Tracked /\ PocReconstructed /\ max_poc_lsb \in Nat
  BY DEF PocInv, Inv, TypeOK
<1> DEFINE t == [slice |-> s, sps |-> sps_table[s.sps], max_poc_lsb |-> max_poc_lsb]
<1>1. PICK n : n = Len(frames)
  OBVIOUS
<1>2. PICK f \in FrameType :
        /\ frames' = Append(frames, f)
        /\ f.is_idr = s.idr /\ f.is_ref = s.ref /\ f.poc = CalculatePoc(s)
  BY SliceStep DEF PocInv
<1>3. Logged(f, t)
  <2>1. s \in SliceType /\ sps_table[s.sps] \in SpsType
    BY InputTypes DEF PocInv, Inv, TypeOK, SliceType
  <2>2. t \in EntryType /\ stream' = Append(stream, t)
    BY <1>0, <2>1 DEF ProcessSlice, EntryType
  <2> QED BY <1>2, <2>2 DEF Logged
<1>4. t.slice = s /\ t.sps = sps_table[s.sps] /\ t.max_poc_lsb = max_poc_lsb
  OBVIOUS
<1>5. ASSUME Conforming(n)'
      PROVE  /\ TracksPoc(s) /\ PocMsb(s) \in Int /\ PocLsb(s) \in Int
             /\ PocLsb(s) = s.poc % t.sps.max_poc_lsb
             /\ PocMsb(s) = s.poc - PocLsb(s)
             /\ s.idr => s.ref /\ PocMsb(s) = 0 /\ PocLsb(s) = 0
  BY <1>1, <1>2, <1>3, <1>5, PocFound
<1> HIDE DEF t
<1>6. /\ n \in Nat /\ Ids = 0 .. n - 1 /\ Last = n - 1
      /\ Ids' = 0 .. n /\ Last' = n /\ Frame(n)' = f /\ stream'[n + 1] = t
      /\ \A k \in Ids : /\ Frame(k)' = Frame(k) /\ stream'[k + 1] = stream[k + 1]
                        /\ stream[k + 1] \in EntryType
      /\ LogOfStream'
  BY <1>0, <1>1, <1>3, Logs
<1>7. PocReconstructed'
  <2> SUFFICES ASSUME NEW k \in Ids', Conforming(k)'
               PROVE  Frame(k)'.poc = stream'[k + 1].slice.poc
    BY DEF PocReconstructed
  <2>1. CASE k = n
    <3>1. CalculatePoc(s) = PocMsb(s) + PocLsb(s) /\ s.poc \in Int
      BY <1>5, <2>1, InputTypes DEF CalculatePoc, SliceType
    <3>2. PocLsb(s) \in Int /\ PocMsb(s) = s.poc - PocLsb(s)
      BY <1>5, <2>1, <3>1
    <3>3. CalculatePoc(s) = s.poc
      BY <3>1, <3>2
    <3> QED BY <1>2, <1>4, <1>6, <2>1, <3>3
  <2>2. CASE k \in Ids
    <3>1. Conforming(k)
      BY <1>0, <1>3, <2>2, ConformingKept
    <3> QED BY <1>0, <1>6, <2>2, <3>1 DEF PocReconstructed
  <2> QED BY <1>6, <2>1, <2>2
<1>8. Tracked'
  <2> SUFFICES ASSUME Conforming(n)'
               PROVE  LET ref == PrevRef(Len(frames))'
                          poc == stream'[ref + 1].slice.poc
                      IN  /\ ref \in Ids'
                          /\ prev_poc_lsb' = poc % stream'[Len(frames')].sps.max_poc_lsb
                          /\ prev_poc_msb' = poc - prev_poc_lsb'
    <3>1. Conforming(Last)' => Conforming(n)'
      BY <1>6
    <3> QED BY <3>1 DEF Tracked
  <2>1. Len(frames') = n + 1
    BY <1>0, <1>1, <1>2
  <2>2. stream'[Len(frames')].sps.max_poc_lsb = t.sps.max_poc_lsb
    BY <1>6, <2>1
  <2>3. PrevRef(Len(frames))' = IF f.is_ref THEN n ELSE PrevRef(n)
    BY <1>0, <1>1, <1>3, NextPrevRef
  <2>4. CASE s.ref
    <3>1. PrevRef(Len(frames))' = n /\ n \in Ids' /\ stream'[n + 1].slice.poc = s.poc
      BY <1>2, <1>4, <1>6, <2>3, <2>4
    <3>2. prev_poc_lsb' = PocLsb(s) /\ prev_poc_msb' = PocMsb(s)
      BY <1>5, <2>4 DEF ProcessSlice, UpdatePrevPoc
    <3> QED BY <1>5, <2>2, <3>1, <3>2
  <2>5. CASE ~s.ref
    <3>1. ~f.is_idr /\ ~f.is_ref /\ ~s.idr
      BY <1>2, <1>5, <2>5
    <3>2. /\ n > 0 /\ Conforming(Last) /\ stream[n].sps = t.sps
          /\ PrevRef(n) \in Ids
      BY <1>0, <1>1, <1>3, <3>1, ConformingLast
    <3>3. prev_poc_lsb' = prev_poc_lsb /\ prev_poc_msb' = prev_poc_msb
      BY <1>5, <2>5, <3>1 DEF ProcessSlice, UpdatePrevPoc
    <3>4. frames # <<>>
      BY <1>1, <3>2
    <3>5. /\ prev_poc_lsb = stream[PrevRef(n) + 1].slice.poc % t.sps.max_poc_lsb
          /\ prev_poc_msb = stream[PrevRef(n) + 1].slice.poc - prev_poc_lsb
      BY <1>0, <1>1, <3>2, <3>4 DEF Tracked
    <3>6. PrevRef(Len(frames))' = PrevRef(n) /\ PrevRef(n) \in Ids'
      BY <1>6, <2>3, <3>1, <3>2
    <3>7. stream'[PrevRef(n) + 1] = stream[PrevRef(n) + 1]
      BY <1>6, <3>2
    <3> QED BY <2>2, <3>3, <3>5, <3>6, <3>7
  <2> QED BY <2>4, <2>5
<1> QED BY <1>6, <1>7, <1>8 DEF PocInv

\* A step that logs nothing leaves the POC properties as they are.
LEMMA PocSame ==
  ASSUME PocInv, Inv', UNCHANGED <<frames, stream, prev_poc_msb, prev_poc_lsb>>
  PROVE  PocInv'
<1>1. /\ Ids' = Ids /\ Last' = Last /\ \A k : Frame(k)' = Frame(k)
      /\ \A i, k : SamePeriod(i, k)' <=> SamePeriod(i, k)
  BY DEF Ids, Last, Frame, SamePeriod
<1>2. \A k : PrevRef(k)' = PrevRef(k)
  <2> TAKE k
  <2>1. {r \in 0 .. k - 1 : Frame(r)'.is_ref} = {r \in 0 .. k - 1 : Frame(r).is_ref}
    BY <1>1
  <2>2. PrevRef(k)' = Max({r \in 0 .. k - 1 : Frame(r)'.is_ref})
    BY DEF PrevRef
  <2> QED BY <2>1, <2>2 DEF PrevRef
<1>3. \A k : PocIsClose(k)' <=> PocIsClose(k)
  BY <1>2 DEF PocIsClose
<1>4. \A k : Conforming(k)' <=> Conforming(k)
  BY <1>1, <1>3 DEF Conforming
<1>5. LogOfStream' /\ PocReconstructed'
  BY <1>1, <1>4 DEF PocInv, LogOfStream, PocReconstructed
<1>6. Tracked'
  BY <1>1, <1>2, <1>4 DEF PocInv, Tracked
<1> QED BY <1>5, <1>6 DEF PocInv

\* The POC state is that of the last reference frame as long as the stream
\* conforms.
THEOREM PocInvHolds == Spec => []PocInv
<1>1. Init => PocInv
  <2> SUFFICES ASSUME Init PROVE PocInv
    OBVIOUS
  <2>1. Ids = {} /\ frames = <<>> /\ stream = <<>>
    BY DEF Init, Ids
  <2>2. LogOfStream /\ Tracked /\ PocReconstructed
    BY <2>1 DEF LogOfStream, Tracked, PocReconstructed
  <2> QED BY <2>2, InitInv DEF PocInv
<1>2. PocInv /\ Inv' /\ [Next]_vars => PocInv'
  <2> SUFFICES ASSUME PocInv, Inv', [Next]_vars PROVE PocInv'
    OBVIOUS
  <2>1. CASE \E id \in SpsIds, sps \in SpsValues, truncated \in BOOLEAN :
               ProcessSps(id, sps, truncated)
    BY <2>1, PocSame DEF ProcessSps, poc_state
  <2>2. CASE \E s \in Slices : ProcessSlice(s)
    BY <2>2, SlicePoc
  <2>3. CASE Report
    BY <2>3, PocSame DEF Report, poc_state
  <2>4. CASE UNCHANGED vars
    BY <2>4, PocSame DEF vars, poc_state
  <2> QED BY <2>1, <2>2, <2>3, <2>4 DEF Next, Pass1
<1> QED BY <1>1, <1>2, InvHolds, PTL DEF Spec

\* calculate_poc recovers the true POC of every frame that conforms, whatever
\* the period of its SPS.
THEOREM PocsAreTrue == Spec => []PocReconstructed
<1>1. PocInv => PocReconstructed
  BY DEF PocInv
<1> QED BY <1>1, PocInvHolds, PTL

(***************************************************************************)
(* The display order.                                                      *)
(***************************************************************************)

\* The frames of a period have one offset.
OneOffset ==
  /\ \A k \in Ids : SamePeriod(k, Last) =>
       Frame(k).global_poc = global_poc_offset + Frame(k).poc
  /\ \A k, m \in Ids : k < m /\ SamePeriod(k, m) =>
       Frame(m).global_poc - Frame(m).poc = Frame(k).global_poc - Frame(k).poc

\* What is displayed are the frames, sorted.
Displayed ==
  display # <<>> =>
    /\ display \in [1 .. Len(frames) -> Ids]
    /\ \A i, k \in 1 .. Len(frames) :
         i < k => display[i] # display[k] /\ Earlier(display[i], display[k])

OrderInv == Inv /\ OneOffset /\ Displayed

\* One picture takes the offset of its period.
LEMMA SliceOffset ==
  ASSUME OrderInv, Inv', NEW s \in Slices, ProcessSlice(s)
  PROVE  OrderInv'
<1>0. /\ frames \in Seq(FrameType) /\ OneOffset /\ global_poc_offset \in Nat
  BY DEF OrderInv, Inv, TypeOK
<1>1. PICK n : n = Len(frames)
  OBVIOUS
<1>2. PICK f \in FrameType :
        /\ frames' = Append(frames, f)
        /\ f.is_idr = s.idr /\ f.global_poc = OffsetFor(s) + f.poc
  BY SliceStep DEF OrderInv
<1>3. /\ n \in Nat /\ Ids = 0 .. n - 1 /\ Last = n - 1
      /\ Ids' = 0 .. n /\ Last' = n /\ Frame(n)' = f
      /\ \A k \in Ids : Frame(k)' = Frame(k)
  BY <1>0, <1>1, <1>2, LogGrows
<1>4. /\ \A i, k \in Ids : SamePeriod(i, k)' <=> SamePeriod(i, k)
      /\ \A i \in Ids : SamePeriod(i, n)' <=> (SamePeriod(i, Last) /\ ~s.idr)
  BY <1>0, <1>1, <1>2, PeriodsGrow
<1>5. /\ f.poc \in Int /\ f.global_poc \in Int
      /\ \A k \in Ids : Frame(k).poc \in Int /\ Frame(k).global_poc \in Int
  <2>1. \A k \in Ids : Frame(k) \in FrameType
    BY <1>0, <1>1, <1>3 DEF Frame
  <2> QED BY <2>1 DEF FrameType
<1>6. /\ global_poc_offset' \in Int /\ f.global_poc = global_poc_offset' + f.poc
      /\ ~s.idr => global_poc_offset' = global_poc_offset
  BY <1>2 DEF ProcessSlice, OffsetFor, OrderInv, Inv, TypeOK
<1>7. ASSUME NEW k \in Ids', SamePeriod(k, n)'
      PROVE  Frame(k)'.global_poc = global_poc_offset' + Frame(k)'.poc
  <2>1. CASE k = n
    BY <1>3, <1>6, <2>1
  <2>2. CASE k \in Ids
    <3>1. SamePeriod(k, Last) /\ ~s.idr
      BY <1>4, <1>7, <2>2
    <3>2. Frame(k).global_poc = global_poc_offset + Frame(k).poc
      BY <1>0, <2>2, <3>1 DEF OneOffset
    <3> QED BY <1>3, <1>6, <2>2, <3>1, <3>2
  <2> QED BY <1>3, <2>1, <2>2
<1>8. ASSUME NEW k \in Ids', NEW m \in Ids', k < m, SamePeriod(k, m)'
      PROVE  Frame(m)'.global_poc - Frame(m)'.poc
               = Frame(k)'.global_poc - Frame(k)'.poc
  <2>1. k \in Ids
    BY <1>3, <1>8
  <2>2. CASE m = n
    <3>1. Frame(k)'.global_poc = global_poc_offset' + Frame(k)'.poc
      BY <1>7, <1>8, <2>2
    <3>2. Frame(m)'.global_poc = global_poc_offset' + Frame(m)'.poc
      BY <1>3, <1>6, <2>2
    <3> QED BY <1>3, <1>5, <1>6, <2>1, <2>2, <3>1, <3>2
  <2>3. CASE m \in Ids
    <3>1. SamePeriod(k, m)
      BY <1>4, <1>8, <2>1, <2>3
    <3>2. Frame(m).global_poc - Frame(m).poc = Frame(k).global_poc - Frame(k).poc
      BY <1>0, <1>8, <2>1, <2>3, <3>1 DEF OneOffset
    <3> QED BY <1>3, <2>1, <2>3, <3>2
  <2> QED BY <1>3, <2>2, <2>3
<1>9. OneOffset'
  <2>1. \A k \in Ids' : SamePeriod(k, Last)' <=> SamePeriod(k, n)'
    BY <1>3
  <2> QED BY <1>7, <1>8, <2>1 DEF OneOffset
<1>10. display' = <<>>
  BY DEF ProcessSlice
<1> QED BY <1>9, <1>10 DEF OrderInv, Displayed

\* A step that logs nothing keeps the offsets.
LEMMA OffsetSame ==
  ASSUME OrderInv, UNCHANGED <<frames, global_poc_offset>>
  PROVE  OneOffset'
<1>1. /\ Ids' = Ids /\ Last' = Last /\ \A k : Frame(k)' = Frame(k)
      /\ \A i, k : SamePeriod(i, k)' <=> SamePeriod(i, k)
  BY DEF Ids, Last, Frame, SamePeriod
<1> QED BY <1>1 DEF OrderInv, OneOffset

LEMMA OrderInvHolds == Spec => []OrderInv
<1>1. Init => OrderInv
  <2> SUFFICES ASSUME Init PROVE OrderInv
    OBVIOUS
  <2>1. Ids = {} /\ display = <<>>
    BY DEF Init, Ids
  <2> QED BY <2>1, InitInv DEF OrderInv, OneOffset, Displayed
<1>2. OrderInv /\ Inv' /\ [Next]_vars => OrderInv'
  <2> SUFFICES ASSUME OrderInv, Inv', [Next]_vars PROVE OrderInv'
    OBVIOUS
  <2>1. CASE \E id \in SpsIds, sps \in SpsValues, truncated \in BOOLEAN :
               ProcessSps(id, sps, truncated)
    <3>1. UNCHANGED <<frames, global_poc_offset>> /\ display' = <<>>
      BY <2>1 DEF ProcessSps, poc_state
    <3> QED BY <3>1, OffsetSame DEF OrderInv, Displayed
  <2>2. CASE \E s \in Slices : ProcessSlice(s)
    BY <2>2, SliceOffset
  <2>3. CASE Report
    <3>1. UNCHANGED <<frames, global_poc_offset>>
      BY <2>3 DEF Report, poc_state
    <3>2. /\ display' \in [1 .. Len(frames) -> Ids]
          /\ \A i, k \in 1 .. Len(frames) :
               i < k => display'[i] # display'[k] /\ Earlier(display'[i], display'[k])
      BY <2>3 DEF Report, Ids
    <3>3. Ids' = Ids /\ \A a, b : Earlier(a, b)' <=> Earlier(a, b)
      BY <3>1 DEF Ids, Earlier
    <3>4. Displayed'
      BY <3>1, <3>2, <3>3 DEF Displayed
    <3> QED BY <3>1, <3>4, OffsetSame DEF OrderInv
  <2>4. CASE UNCHANGED vars
    <3>1. UNCHANGED <<frames, global_poc_offset, display>>
      BY <2>4 DEF vars, poc_state
    <3>2. Ids' = Ids /\ \A a, b : Earlier(a, b)' <=> Earlier(a, b)
      BY <3>1 DEF Ids, Earlier
    <3>3. Displayed'
      BY <3>1, <3>2 DEF Displayed, OrderInv
    <3> QED BY <3>1, <3>3, OffsetSame DEF OrderInv
  <2> QED BY <2>1, <2>2, <2>3, <2>4 DEF Next, Pass1
<1> QED BY <1>1, <1>2, InvHolds, PTL DEF Spec

\* Of frames of which no POC is negative and every POC is the true one, the
\* report shows periods in decode order and each period by true POC.
LEMMA OrderIsDisplayOrder == PocInv /\ OrderInv => ReportedInDisplayOrder
<1> SUFFICES ASSUME PocInv, OrderInv, display # <<>>,
                    \A k \in Ids : Conforming(k) /\ Frame(k).poc >= 0,
                    NEW i \in 1 .. Len(display), NEW k \in 1 .. Len(display), i < k
             PROVE  LET a == display[i]
                        b == display[k]
                    IN  \/ a < b /\ ~SamePeriod(a, b)
                        \/ /\ IF a < b THEN SamePeriod(a, b) ELSE SamePeriod(b, a)
                           /\ stream[a + 1].slice.poc <= stream[b + 1].slice.poc
  BY DEF ReportedInDisplayOrder
<1> DEFINE a == display[i]
           b == display[k]
<1>1. Len(display) = Len(frames) /\ Len(frames) \in Nat
  BY DEF OrderInv, Displayed, Inv, TypeOK
<1>2. /\ a \in Ids /\ b \in Ids /\ a # b /\ Earlier(a, b)
  BY <1>1 DEF OrderInv, Displayed
<1> HIDE DEF a, b
<1>3. /\ stream[a + 1].slice.poc = Frame(a).poc
      /\ stream[b + 1].slice.poc = Frame(b).poc
  BY <1>2 DEF PocInv, PocReconstructed
<1>4. Frame(a).global_poc <= Frame(b).global_poc
  BY <1>2 DEF Earlier, Frame
<1>5. \A r \in Ids : Frame(r).poc \in Int /\ Frame(r).global_poc \in Int /\ r \in Int
  <2>1. \A r \in Ids : Frame(r) \in FrameType /\ r \in Int
    BY <1>1 DEF Frame, Ids, OrderInv, Inv, TypeOK
  <2> QED BY <2>1 DEF FrameType
<1>6. CASE a < b /\ SamePeriod(a, b)
  <2>1. Frame(b).global_poc - Frame(b).poc = Frame(a).global_poc - Frame(a).poc
    BY <1>2, <1>6 DEF OrderInv, OneOffset
  <2>2. Frame(a).poc <= Frame(b).poc
    BY <1>2, <1>4, <1>5, <2>1
  <2> QED BY <1>3, <1>6, <2>2 DEF a, b
<1>7. CASE b < a /\ SamePeriod(b, a)
  <2>1. Frame(a).global_poc - Frame(a).poc = Frame(b).global_poc - Frame(b).poc
    BY <1>2, <1>7 DEF OrderInv, OneOffset
  <2>2. Frame(a).poc <= Frame(b).poc
    BY <1>2, <1>4, <1>5, <2>1
  <2>3. ~(a < b)
    BY <1>2, <1>5, <1>7
  <2> QED BY <1>3, <1>7, <2>2, <2>3 DEF a, b
<1>8. CASE b < a /\ ~SamePeriod(b, a)
  <2>1. Frame(a).poc >= -1
    BY <1>2, <1>5
  <2>2. a \in b + 1 .. Len(frames) - 1
    BY <1>1, <1>2, <1>5, <1>8 DEF Ids
  <2>3. Frame(b).global_poc < Frame(a).global_poc
    BY <1>2, <1>8, <2>1, <2>2 DEF OrderInv, Inv, PeriodsInOrder
  <2> QED BY <1>2, <1>4, <1>5, <2>3
<1>9. CASE a < b /\ ~SamePeriod(a, b)
  BY <1>9 DEF a, b
<1> QED BY <1>2, <1>5, <1>6, <1>7, <1>8, <1>9

\* The report is in display order.
THEOREM ReportSorts == Spec => []ReportedInDisplayOrder
BY OrderIsDisplayOrder, PocInvHolds, OrderInvHolds, PTL
============================================================================
