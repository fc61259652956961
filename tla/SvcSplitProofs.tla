--------------------------- MODULE SvcSplitProofs ---------------------------
(***************************************************************************)
(* Proofs about SvcSplit, for any ids and streams of any length.           *)
(*                                                                         *)
(* The arrays of the program are not initialised, so the invariant says    *)
(* which of their entries a well-formed stream has filled: those whose     *)
(* parameter sets it has sent.                                             *)
(***************************************************************************)
EXTENDS SvcSplit, SequenceTheorems, WellFoundedInduction, TLAPS

USE LegalIds, BufSize, ZeroIsAnId, Bound

\* The entry of a PPS that was sent is filled, and names the SPS of the last.
EntriesFilled ==
  \A id \in PpsIds : Sent(id, Number) # {} =>
    /\ id \in BufIds /\ pps_buf[id] # Garbage
    /\ pps_table[id] = stream[Latest(Sent(id, Number))].sps

\* The file of a layer whose subset SPS was sent is open.
FilesOpen ==
  \A k \in Numbers : stream[k].kind = "subset" => stream[k].id \in open

FilledInv == TypeOK /\ (Supported => pc = "running" /\ EntriesFilled /\ FilesOpen)

----------------------------------------------------------------------------
\* A number more does not hurt.
LEMMA MoreNumbers ==
  ASSUME NEW n \in Nat, NEW s \in Seq(1 .. n)
  PROVE  s \in Seq(1 .. n + 1)
OBVIOUS

LEMMA AppendTwo ==
  ASSUME NEW s \in Seq(Nat), NEW x \in Nat, NEW y \in Nat
  PROVE  s \o <<x>> \o <<y>> = s \o <<x, y>>
<1>1. <<x>> \in Seq(Nat) /\ <<y>> \in Seq(Nat)
  OBVIOUS
<1>2. /\ <<x>> \o <<y>> \in Seq(Nat) /\ <<x, y>> \in Seq(Nat)
      /\ Len(<<x>> \o <<y>>) = 2 /\ Len(<<x, y>>) = 2
  BY <1>1
<1>3. (<<x>> \o <<y>>)[1] = x /\ (<<x>> \o <<y>>)[2] = y
  BY <1>1
<1>4. <<x>> \o <<y>> = <<x, y>>
  <2>1. \A i \in 1 .. 2 : (<<x>> \o <<y>>)[i] = <<x, y>>[i]
    BY <1>3
  <2> QED
    BY <1>2, <2>1, SeqEqual, Zenon
<1>5. s \o <<x>> \o <<y>> = s \o (<<x>> \o <<y>>)
  BY <1>1, ConcatAssociative, SMT
<1> QED
  BY <1>4, <1>5, Zenon

LEMMA SeqOfMore ==
  ASSUME NEW T, NEW S \in SUBSET T, NEW s \in Seq(S)
  PROVE  s \in Seq(T)
OBVIOUS

\* The stream grows by the unit.
LEMMA StreamGrows ==
  ASSUME stream \in Seq(Units), NEW u \in Units, Process(u)
  PROVE  /\ stream' \in Seq(Units) /\ Len(stream') = Number
         /\ stream'[Number] = u
         /\ \A k \in Numbers : stream'[k] = stream[k]
         /\ Len(stream) \in Nat /\ Number = Len(stream) + 1 /\ Number' = Number + 1
         /\ Numbers = 1 .. Len(stream) /\ Numbers' = 1 .. Number
         /\ Numbers' = Numbers \cup {Number} /\ Number \notin Numbers
BY DEF Process, Number, Numbers

\* The unit handled: this one, or the one before if it is damaged.
LEMMA Handled ==
  ASSUME TypeOK, NEW u \in Units
  PROVE  LET v == IF u.kind = "bad" THEN parsed ELSE u
         IN  v \in Units /\ v.kind # "bad"
BY DEF TypeOK

\* What each kind of unit has.
LEMMA UnitFields ==
  ASSUME NEW v \in Units
  PROVE  /\ v.kind \in Kinds
         /\ v.kind = "pps" => v.id \in PpsIds /\ v.sps \in SpsIds
         /\ v.kind \in {"slice", "svc_slice"} => v.id \in PpsIds
         /\ v.kind = "subset" => v.id \in SpsIds
BY DEF Units, Kinds

\* Layers are ids, which none of the two other files is.
LEMMA FilesApart == Base \notin SpsIds /\ Misc \notin SpsIds /\ Base # Misc
                    /\ Base \in Files /\ Misc \in Files /\ SpsIds \subseteq Files
BY DEF Base, Misc, Files

\* What has a type keeps it when there is a unit more.
LEMMA TypesWithMore ==
  ASSUME TypeOK
  PROVE  /\ Len(stream) \in Nat /\ Number = Len(stream) + 1 /\ Number \in 1 .. Number
         /\ Numbers \subseteq 1 .. Number /\ Number \notin Numbers
         /\ out \in [Files -> Seq(1 .. Number)]
         /\ pps_buf \in [BufIds -> {None, Garbage} \cup 1 .. Number]
<1>1. Len(stream) \in Nat /\ Number = Len(stream) + 1
  BY DEF TypeOK, Number
<1>2. Seq(1 .. Len(stream)) \subseteq Seq(1 .. Number)
  BY <1>1, MoreNumbers
<1>3. 1 .. Len(stream) \subseteq 1 .. Number /\ Number \in 1 .. Number
  BY <1>1
<1>4. \A S, T : S \subseteq T => [Files -> S] \subseteq [Files -> T]
  OBVIOUS
<1>5. out \in [Files -> Seq(1 .. Number)]
  BY <1>2, <1>4 DEF TypeOK
<1>6. pps_buf \in [BufIds -> {None, Garbage} \cup 1 .. Number]
  BY <1>3 DEF TypeOK
<1> QED
  BY <1>1, <1>3, <1>5, <1>6 DEF Numbers

\* Nothing is saved but the unit now handled and PPSs that were held back.
LEMMA SaveSliceType ==
  ASSUME TypeOK, NEW f \in Files, f \in open \/ f = Base, NEW id \in PpsIds,
         SaveSlice(f, id)
  PROVE  /\ pps_table' = pps_table /\ open' = open
         /\ pps_buf' \in [BufIds -> {None, Garbage} \cup 1 .. Number]
         /\ out' \in [Files -> Seq(1 .. Number)]
         /\ \A g \in SpsIds \ open : out'[g] = out[g]
         /\ pc' \in {"running", "undefined"}
<1> DEFINE n == Len(stream)
<1>1. /\ n \in Nat /\ Number = n + 1 /\ Number \in 1 .. Number
      /\ out \in [Files -> Seq(1 .. Number)]
      /\ pps_buf \in [BufIds -> {None, Garbage} \cup 1 .. Number]
      /\ pc \in {"running", "undefined"}
  BY TypesWithMore DEF TypeOK
<1>2. CASE Unfilled(id) /\ Crash
  BY <1>1, <1>2 DEF Crash
<1>3. CASE /\ id \in BufIds /\ pps_buf[id] # Garbage
           /\ out' = [out EXCEPT ![f] =
                        @ \o (IF pps_buf[id] = None THEN <<>> ELSE <<pps_buf[id]>>)
                          \o <<Number>>]
           /\ pps_buf' = [pps_buf EXCEPT ![id] = None]
           /\ UNCHANGED <<pps_table, open, pc>>
  <2> DEFINE held  == IF pps_buf[id] = None THEN <<>> ELSE <<pps_buf[id]>>
             added == out[f] \o held \o <<Number>>
  <2>1. out' = [out EXCEPT ![f] = added]
    BY <1>3
  <2>2. held \in Seq(1 .. Number)
    <3>1. pps_buf[id] # None => pps_buf[id] \in 1 .. Number
      BY <1>1, <1>3
    <3>2. \A x \in 1 .. Number : <<x>> \in Seq(1 .. Number)
      OBVIOUS
    <3> QED
      BY <3>1, <3>2, EmptySeq
  <2>3. added \in Seq(1 .. Number)
    BY <1>1, <2>2
  <2> HIDE DEF held, added
  <2>4. out' \in [Files -> Seq(1 .. Number)] /\ \A g \in Files \ {f} : out'[g] = out[g]
    BY <1>1, <2>1, <2>3
  <2>5. pps_buf' \in [BufIds -> {None, Garbage} \cup 1 .. Number]
    BY <1>1, <1>3
  <2> QED
    BY <1>1, <1>3, <2>4, <2>5, FilesApart
<1> QED
  BY <1>2, <1>3 DEF SaveSlice, Unfilled

\* A unit that is saved is the last of its file.
LEMMA SaveType ==
  ASSUME TypeOK, NEW f \in Files, Save(f)
  PROVE  /\ out' \in [Files -> Seq(1 .. Number)]
         /\ \A g \in Files \ {f} : out'[g] = out[g]
<1>1. out \in [Files -> Seq(1 .. Number)] /\ Number \in 1 .. Number
  BY TypesWithMore
<1>2. Append(out[f], Number) \in Seq(1 .. Number)
  BY <1>1
<1> QED
  BY <1>1, <1>2 DEF Save

\* Every unit keeps the types.
LEMMA ProcessType ==
  ASSUME TypeOK, NEW u \in Units, Process(u)
  PROVE  TypeOK'
<1> DEFINE v == IF u.kind = "bad" THEN parsed ELSE u
<1>1. v \in Units /\ v.kind # "bad" /\ parsed' = v
  BY Handled DEF Process
<1> HIDE DEF v
<1>2. stream' \in Seq(Units) /\ Len(stream') = Number
  BY StreamGrows DEF TypeOK
<1> DEFINE Goal ==
      /\ pps_table' \in [PpsIds -> SpsIds]
      /\ pps_buf' \in [BufIds -> {None, Garbage} \cup 1 .. Number]
      /\ open' \subseteq SpsIds
      /\ out' \in [Files -> Seq(1 .. Number)]
      /\ \A f \in SpsIds \ open' : out'[f] = <<>>
      /\ pc' \in {"running", "undefined"}
<1> SUFFICES Goal
  BY <1>1, <1>2 DEF TypeOK
<1>3. /\ out \in [Files -> Seq(1 .. Number)] /\ Number \in 1 .. Number
      /\ pps_buf \in [BufIds -> {None, Garbage} \cup 1 .. Number]
      /\ pps_table \in [PpsIds -> SpsIds] /\ open \subseteq SpsIds
      /\ \A f \in SpsIds \ open : out[f] = <<>>
      /\ pc \in {"running", "undefined"}
  BY TypesWithMore DEF TypeOK
<1>4. CASE Slice(v)
  <2>1. v.id \in PpsIds
    BY <1>1, <1>4, UnitFields DEF Slice
  <2> QED
    BY <1>3, <1>4, <2>1, SaveSliceType, FilesApart DEF Slice
<1>5. CASE SvcSlice(v)
  <2>1. v.id \in PpsIds
    BY <1>1, <1>5, UnitFields DEF SvcSlice
  <2>2. CASE Crash
    BY <1>3, <2>2 DEF Crash
  <2>3. CASE pps_table[v.id] \in open /\ SaveSlice(pps_table[v.id], v.id)
    BY <1>3, <2>1, <2>3, SaveSliceType, FilesApart
  <2> QED
    BY <1>5, <2>2, <2>3 DEF SvcSlice
<1>6. CASE Sps(v)
  BY <1>3, <1>6, SaveType, FilesApart DEF Sps
<1>7. CASE Pps(v)
  <2>1. v.id \in PpsIds /\ v.sps \in SpsIds
    BY <1>1, <1>7, UnitFields DEF Pps
  <2>2. CASE v.id \notin BufIds /\ Crash
    BY <1>3, <2>2 DEF Crash
  <2>3. CASE /\ pps_table' = [pps_table EXCEPT ![v.id] = v.sps]
             /\ pps_buf' = [pps_buf EXCEPT ![v.id] = Number]
             /\ UNCHANGED <<open, out, pc>>
    <3>1. pps_table' \in [PpsIds -> SpsIds]
      BY <1>3, <2>1, <2>3
    <3>2. pps_buf' \in [BufIds -> {None, Garbage} \cup 1 .. Number]
      BY <1>3, <2>3
    <3> QED
      BY <1>3, <2>3, <3>1, <3>2
  <2> QED
    BY <1>7, <2>2, <2>3 DEF Pps
<1>8. CASE Subset(v)
  <2>1. v.id \in SpsIds /\ v.id \in Files
    BY <1>1, <1>8, UnitFields, FilesApart DEF Subset
  <2>2. <<Number>> \in Seq(1 .. Number)
    BY <1>3
  <2>3. /\ out' \in [Files -> Seq(1 .. Number)]
        /\ \A f \in Files \ {v.id} : out'[f] = out[f]
    BY <1>3, <1>8, <2>1, <2>2 DEF Subset
  <2> QED
    BY <1>3, <1>8, <2>1, <2>3, FilesApart DEF Subset
<1>9. CASE Other(v)
  BY <1>3, <1>9, SaveType, FilesApart DEF Other
<1>10. Slice(v) \/ SvcSlice(v) \/ Sps(v) \/ Pps(v) \/ Subset(v) \/ Other(v)
  BY DEF Process, v
<1> QED
  BY <1>4, <1>5, <1>6, <1>7, <1>8, <1>9, <1>10

\* The program starts with them.
LEMMA InitType == Init => TypeOK
<1> SUFFICES ASSUME Init PROVE TypeOK
  OBVIOUS
<1>1. [kind |-> "other", id |-> 0, sps |-> 0] \in Units
  BY DEF Units
<1>2. <<>> \in Seq(1 .. 0) /\ Len(stream) = 0 /\ stream \in Seq(Units)
  BY DEF Init
<1>3. out \in [Files -> Seq(1 .. Len(stream))] /\ \A f \in Files : out[f] = <<>>
  BY <1>2 DEF Init
<1> QED
  BY <1>1, <1>2, <1>3, FilesApart DEF Init, TypeOK

\* The arrays, the files and the memory of units keep their types, and a layer
\* without a file has nothing saved.
THEOREM TypeCorrect == Spec => []TypeOK
<1>1. Init => TypeOK
  BY InitType
<1>2. TypeOK /\ [Next]_vars => TypeOK'
  <2>1. CASE UNCHANGED vars
    BY <2>1 DEF vars, TypeOK
  <2>2. CASE Next
    BY <2>2, ProcessType DEF Next
  <2> QED
    BY <2>1, <2>2
<1> QED
  BY <1>1, <1>2, PTL DEF Spec

----------------------------------------------------------------------------
(***************************************************************************)
(* What a well-formed stream has filled.                                   *)
(***************************************************************************)

\* The last of some units is one of them and comes after all the others.
LEMMA LatestIsLast ==
  ASSUME NEW n \in Nat, NEW S \in SUBSET (1 .. n), S # {}
  PROVE  Latest(S) \in S /\ \A l \in S : l <= Latest(S)
<1> DEFINE T == {n - l : l \in S}
<1>1. T \subseteq Nat /\ T # {}
  <2>1. \A l \in S : n - l \in Nat
    OBVIOUS
  <2> QED
    BY <2>1
<1>2. PICK x \in T : \A y \in T : ~(<<y, x>> \in OpToRel(<, Nat))
  BY <1>1, NatLessThanWellFounded, WFMin
<1>3. PICK m \in S : x = n - m
  OBVIOUS
<1>4. \A l \in S : l <= m
  <2> SUFFICES ASSUME NEW l \in S PROVE l <= m
    OBVIOUS
  <2>1. n - l \in T /\ n - l \in Nat /\ x \in Nat
    BY <1>1
  <2>2. ~(<<n - l, x>> \in OpToRel(<, Nat))
    BY <1>2, <2>1
  <2>3. ~(n - l < x)
    BY <2>1, <2>2 DEF OpToRel
  <2> QED
    BY <1>3, <2>3
<1> QED
  BY <1>4 DEF Latest

\* It stays the last until there is a later one, which then is.
LEMMA LatestOfMore ==
  ASSUME NEW n \in Nat, NEW S \in SUBSET (1 .. n)
  PROVE  Latest(S \cup {n + 1}) = n + 1
<1>1. S \cup {n + 1} \in SUBSET (1 .. n + 1) /\ S \cup {n + 1} # {}
  OBVIOUS
<1>2. /\ Latest(S \cup {n + 1}) \in S \cup {n + 1}
      /\ \A l \in S \cup {n + 1} : l <= Latest(S \cup {n + 1})
  BY <1>1, LatestIsLast
<1> DEFINE x == Latest(S \cup {n + 1})
<1>3. x \in 1 .. n + 1 /\ n + 1 <= x
  BY <1>1, <1>2
<1> QED
  BY <1>3

\* A unit more changes nothing of what was sent before an earlier one.
LEMMA SentGrows ==
  ASSUME stream \in Seq(Units), NEW u \in Units, Process(u), NEW id
  PROVE  /\ \A k \in 1 .. Number : Sent(id, k)' = Sent(id, k)
         /\ u.kind = "pps" /\ u.id = id =>
              Sent(id, Number)' = Sent(id, Number) \cup {Number}
         /\ ~(u.kind = "pps" /\ u.id = id) => Sent(id, Number)' = Sent(id, Number)
         /\ \A k \in 1 .. Number : Sent(id, k) \in SUBSET (1 .. k - 1)
<1>1. /\ stream'[Number] = u /\ \A k \in 1 .. Len(stream) : stream'[k] = stream[k]
      /\ Len(stream) \in Nat /\ Number = Len(stream) + 1 /\ Number' = Number + 1
  BY StreamGrows
<1>2. \A k \in 1 .. Number : Sent(id, k)' = Sent(id, k)
  BY <1>1 DEF Sent
<1>3. Sent(id, Number)' = {m \in 1 .. Number : stream'[m].kind = "pps" /\ stream'[m].id = id}
  BY <1>1 DEF Sent
<1>4. 1 .. Number = (1 .. Len(stream)) \cup {Number} /\ Number - 1 = Len(stream)
  BY <1>1
<1> QED
  BY <1>1, <1>2, <1>3, <1>4 DEF Sent

\* What was sent before an earlier unit is what it was; so is its PPS.
LEMMA PpsOfKept ==
  ASSUME stream \in Seq(Units), NEW u \in Units, Process(u), NEW k \in 1 .. Number
  PROVE  /\ Sent(stream[k].id, k)' = Sent(stream'[k].id, k)
         /\ PpsOf(k)' = Latest(Sent(stream'[k].id, k))
<1>1. \A id : Sent(id, k)' = Sent(id, k)
  BY SentGrows
<1>2. Sent(stream[k].id, k)' = Sent(stream'[k].id, k)
  <2> DEFINE id == stream'[k].id
  <2>1. Sent(stream[k].id, k)' = {m \in 1 .. k - 1 : stream'[m].kind = "pps" /\ stream'[m].id = id}
    BY DEF Sent
  <2>2. {m \in 1 .. k - 1 : stream'[m].kind = "pps" /\ stream'[m].id = id}
          = {m \in 1 .. k - 1 : stream[m].kind = "pps" /\ stream[m].id = id}
    <3> HIDE DEF id
    <3> QED
      BY <1>1 DEF Sent
  <2> QED
    BY <2>1, <2>2 DEF Sent
<1> QED
  BY <1>2 DEF PpsOf

\* A stream that is well formed was so before its last unit, and that unit has
\* its parameter sets.
LEMMA WellFormedBefore ==
  ASSUME stream \in Seq(Units), NEW u \in Units, Process(u), WellFormed'
  PROVE  /\ WellFormed /\ u.kind # "bad"
         /\ u.kind \in {"slice", "svc_slice"} => Sent(u.id, Number) # {}
         /\ u.kind = "svc_slice" =>
              \E m \in Numbers :
                /\ stream[m].kind = "subset"
                /\ stream[m].id = stream[Latest(Sent(u.id, Number))].sps
<1>1. /\ stream'[Number] = u /\ \A k \in 1 .. Len(stream) : stream'[k] = stream[k]
      /\ Len(stream) \in Nat /\ Number = Len(stream) + 1
      /\ Numbers = 1 .. Len(stream) /\ Numbers' = 1 .. Number
  BY StreamGrows
<1>2. \A k \in 1 .. Number : k \in Slices' <=> stream'[k].kind \in {"slice", "svc_slice"}
  BY <1>1 DEF Slices
<1>3. \A k \in 1 .. Number : stream'[k].kind # "bad"
  BY <1>1 DEF WellFormed
<1>4. \A k \in Slices' :
        /\ Sent(stream[k].id, k)' # {}
        /\ stream'[k].kind = "svc_slice" =>
             \E m \in 1 .. k - 1 :
               stream'[m].kind = "subset" /\ stream'[m].id = stream'[PpsOf(k)'].sps
  BY DEF WellFormed
<1>5. ASSUME NEW k \in 1 .. Number, stream'[k].kind \in {"slice", "svc_slice"}
      PROVE  LET S == Sent(stream'[k].id, k)
             IN  /\ S # {}
                 /\ stream'[k].kind = "svc_slice" =>
                      \E m \in 1 .. k - 1 :
                        stream[m].kind = "subset" /\ stream[m].id = stream[Latest(S)].sps
  <2> DEFINE S == Sent(stream'[k].id, k)
  <2>1. S # {} /\ S \in SUBSET (1 .. k - 1) /\ PpsOf(k)' = Latest(S)
    <3>1. S \in SUBSET (1 .. k - 1)
      BY <1>1 DEF Sent
    <3> QED
      BY <1>2, <1>4, <1>5, <3>1, PpsOfKept
  <2>2. k - 1 \in Nat /\ 1 .. k - 1 \subseteq 1 .. Len(stream)
    BY <1>1
  <2>3. Latest(S) \in 1 .. Len(stream)
    BY <2>1, <2>2, LatestIsLast
  <2>4. stream'[Latest(S)] = stream[Latest(S)]
    BY <1>1, <2>3
  <2>5. \A m \in 1 .. k - 1 : stream'[m] = stream[m]
    BY <1>1, <2>2
  <2> HIDE DEF S
  <2>6. ASSUME stream'[k].kind = "svc_slice"
        PROVE  \E m \in 1 .. k - 1 :
                 stream[m].kind = "subset" /\ stream[m].id = stream[Latest(S)].sps
    <3>1. stream'[PpsOf(k)'].sps = stream[Latest(S)].sps
      BY <2>1, <2>4
    <3>2. PICK m \in 1 .. k - 1 :
            stream'[m].kind = "subset" /\ stream'[m].id = stream'[PpsOf(k)'].sps
      BY <1>2, <1>4, <2>6
    <3> QED
      BY <2>5, <3>1, <3>2
  <2> QED
    BY <2>1, <2>6 DEF S
<1>6. WellFormed
  <2>0. \A k \in Numbers : stream[k].kind # "bad"
    BY <1>1, <1>3
  <2> SUFFICES ASSUME NEW k \in Slices
               PROVE  /\ Sent(stream[k].id, k) # {}
                      /\ stream[k].kind = "svc_slice" =>
                           \E m \in 1 .. k - 1 :
                             /\ stream[m].kind = "subset"
                             /\ stream[m].id = stream[PpsOf(k)].sps
    BY <2>0 DEF WellFormed
  <2>1. k \in 1 .. Len(stream) /\ stream[k].kind \in {"slice", "svc_slice"}
    BY <1>1 DEF Slices
  <2>2. k \in 1 .. Number /\ stream'[k] = stream[k]
    <3>1. stream'[k] = stream[k]
      BY <1>1, <2>1
    <3>2. Number = Len(stream) + 1 /\ Len(stream) \in Nat
      BY <1>1
    <3>3. \A n \in Nat : \A x \in 1 .. n : x \in 1 .. n + 1
      OBVIOUS
    <3>4. k \in 1 .. Number
      BY <2>1, <3>2, <3>3, Zenon
    <3> QED
      BY <3>1, <3>4
  <2> QED
    BY <1>5, <2>1, <2>2 DEF PpsOf
<1>7. /\ Number \in 1 .. Number /\ 1 .. Number - 1 = Numbers
  BY <1>1
<1> QED
  BY <1>1, <1>3, <1>5, <1>6, <1>7

\* So was one whose ids fit as well.
LEMMA SupportedBefore ==
  ASSUME stream \in Seq(Units), NEW u \in Units, Process(u), Supported'
  PROVE  /\ Supported /\ u.kind # "bad"
         /\ u.kind = "pps" => u.id \in BufIds
         /\ u.kind \in {"slice", "svc_slice"} => Sent(u.id, Number) # {}
         /\ u.kind = "svc_slice" =>
              \E m \in Numbers :
                /\ stream[m].kind = "subset"
                /\ stream[m].id = stream[Latest(Sent(u.id, Number))].sps
<1>1. /\ stream'[Number] = u /\ \A k \in Numbers : stream'[k] = stream[k]
      /\ Numbers' = Numbers \cup {Number}
  BY StreamGrows
<1>2. \A k \in Numbers' : stream'[k].kind = "pps" => stream'[k].id \in BufIds
  BY DEF Supported, IdsFit, BufIds
<1>3. IdsFit
  BY <1>1, <1>2 DEF IdsFit
<1> QED
  BY <1>1, <1>2, <1>3, WellFormedBefore DEF Supported

\* A unit of a well-formed stream finds what it needs, and fills what later ones
\* will need.
LEMMA ProcessFills ==
  ASSUME FilledInv, NEW u \in Units, Process(u), Supported'
  PROVE  pc' = "running" /\ EntriesFilled' /\ FilesOpen'
<1>1. TypeOK /\ stream \in Seq(Units)
  BY DEF FilledInv, TypeOK
<1>2. /\ u.kind # "bad"
      /\ u.kind \in {"slice", "svc_slice"} => Sent(u.id, Number) # {}
      /\ u.kind = "svc_slice" =>
           \E m \in Numbers :
             /\ stream[m].kind = "subset"
             /\ stream[m].id = stream[Latest(Sent(u.id, Number))].sps
      /\ u.kind = "pps" => u.id \in BufIds
      /\ pc = "running" /\ EntriesFilled /\ FilesOpen
  BY <1>1, SupportedBefore DEF FilledInv
<1>3. /\ stream'[Number] = u /\ \A k \in 1 .. Len(stream) : stream'[k] = stream[k]
      /\ Len(stream) \in Nat /\ Number = Len(stream) + 1
      /\ Numbers = 1 .. Len(stream) /\ Numbers' = Numbers \cup {Number}
  BY <1>1, StreamGrows
<1>4. ASSUME NEW id \in PpsIds
      PROVE  /\ Sent(id, Number) \in SUBSET (1 .. Len(stream))
             /\ Sent(id, Number) # {} =>
                  stream'[Latest(Sent(id, Number))] = stream[Latest(Sent(id, Number))]
  <2>1. Sent(id, Number) \in SUBSET (1 .. Len(stream))
    BY <1>3 DEF Sent
  <2> QED
    BY <1>3, <2>1, LatestIsLast
\* A unit that is no PPS changes no entry, but that it may empty one.
<1>5. ASSUME u.kind # "pps", pps_table' = pps_table,
             \A id \in BufIds : pps_buf'[id] \in {pps_buf[id], None}
      PROVE  EntriesFilled'
  <2> SUFFICES ASSUME NEW id \in PpsIds, Sent(id, Number)' # {}
               PROVE  /\ id \in BufIds /\ pps_buf'[id] # Garbage
                      /\ pps_table'[id] = stream'[Latest(Sent(id, Number)')].sps
    BY DEF EntriesFilled, Latest, BufIds
  <2>1. Sent(id, Number)' = Sent(id, Number)
    BY <1>1, <1>5, SentGrows
  <2>2. /\ id \in BufIds /\ pps_buf[id] # Garbage
        /\ pps_table[id] = stream[Latest(Sent(id, Number))].sps
    BY <1>2, <2>1 DEF EntriesFilled
  <2>3. pps_buf'[id] \in {pps_buf[id], None}
    BY <1>5, <2>2
  <2>4. pps_buf'[id] # Garbage
    BY <2>2, <2>3 DEF None, Garbage
  <2>5. Sent(id, Number) # {}
    BY <2>1
  <2>6. stream'[Latest(Sent(id, Number))] = stream[Latest(Sent(id, Number))]
    BY <1>4, <2>5
  <2>7. pps_table'[id] = stream'[Latest(Sent(id, Number)')].sps
    BY <1>5, <2>1, <2>2, <2>6
  <2> QED
    BY <2>2, <2>4, <2>7
<1>6. ASSUME open \subseteq open', u.kind = "subset" => u.id \in open'
      PROVE  FilesOpen'
  BY <1>2, <1>3, <1>6 DEF FilesOpen
\* The PPS a slice refers to has come.
<1>7. ASSUME NEW f, NEW id \in PpsIds, SaveSlice(f, id), Sent(id, Number) # {}
      PROVE  /\ pc' = "running" /\ UNCHANGED <<pps_table, open>>
             /\ \A k \in BufIds : pps_buf'[k] \in {pps_buf[k], None}
  <2>1. id \in BufIds /\ pps_buf[id] # Garbage /\ ~Unfilled(id)
    BY <1>2, <1>7 DEF EntriesFilled, Unfilled
  <2>2. pps_buf' = [pps_buf EXCEPT ![id] = None] /\ UNCHANGED <<pps_table, open, pc>>
    BY <1>7, <2>1 DEF SaveSlice
  <2> QED
    BY <1>1, <1>2, <2>2 DEF TypeOK
<1>8. CASE Slice(u)
  <2>1. u.kind = "slice" /\ u.id \in PpsIds /\ SaveSlice(Base, u.id)
    BY <1>8, UnitFields DEF Slice
  <2> QED
    BY <1>2, <1>5, <1>6, <1>7, <2>1
<1>9. CASE SvcSlice(u)
  <2>1. u.kind = "svc_slice" /\ u.id \in PpsIds
    BY <1>9, UnitFields DEF SvcSlice
  <2>2. pps_table[u.id] \in open
    <3>1. PICK m \in Numbers :
            /\ stream[m].kind = "subset"
            /\ stream[m].id = stream[Latest(Sent(u.id, Number))].sps
      BY <1>2, <2>1
    <3>2. pps_table[u.id] = stream[Latest(Sent(u.id, Number))].sps
      BY <1>2, <2>1 DEF EntriesFilled
    <3> QED
      BY <1>2, <3>1, <3>2 DEF FilesOpen
  <2>3. SaveSlice(pps_table[u.id], u.id)
    BY <1>9, <2>2 DEF SvcSlice
  <2> QED
    BY <1>2, <1>5, <1>6, <1>7, <2>1, <2>3
<1>10. CASE Sps(u) \/ Other(u)
  BY <1>2, <1>5, <1>6, <1>10 DEF Sps, Other
<1>11. CASE Subset(u)
  BY <1>2, <1>5, <1>6, <1>11 DEF Subset
<1>12. CASE Pps(u)
  <2>1. u.kind = "pps" /\ u.id \in PpsIds /\ u.id \in BufIds
    BY <1>2, <1>12, UnitFields DEF Pps
  <2>2. EntriesFilled'
    <3> SUFFICES ASSUME NEW id \in PpsIds, Sent(id, Number)' # {}
                 PROVE  /\ id \in BufIds /\ pps_buf'[id] # Garbage
                        /\ pps_table'[id] = stream'[Latest(Sent(id, Number)')].sps
      BY DEF EntriesFilled, Latest, BufIds
    <3>1. CASE id = u.id
      <4>1. Latest(Sent(id, Number)') = Number
        <5>1. Sent(id, Number)' = Sent(id, Number) \cup {Number}
          BY <1>1, <2>1, <3>1, SentGrows
        <5>2. Latest(Sent(id, Number) \cup {Number}) = Number
          BY <1>3, <1>4, LatestOfMore
        <5> QED
          BY <5>1, <5>2
      <4>2. pps_buf'[id] = Number /\ pps_table'[id] = u.sps
        BY <1>1, <1>12, <2>1, <3>1 DEF Pps, TypeOK
      <4> QED
        BY <1>3, <2>1, <3>1, <4>1, <4>2 DEF Garbage
    <3>2. CASE id # u.id
      <4>1. Sent(id, Number)' = Sent(id, Number)
        BY <1>1, <3>2, SentGrows
      <4>2. (id \in BufIds => pps_buf'[id] = pps_buf[id]) /\ pps_table'[id] = pps_table[id]
        BY <1>1, <1>12, <2>1, <3>2 DEF Pps, TypeOK
      <4> QED
        BY <1>2, <1>4, <4>1, <4>2 DEF EntriesFilled
    <3> QED
      BY <3>1, <3>2
  <2> QED
    BY <1>2, <1>6, <1>12, <2>1, <2>2 DEF Pps
<1> QED
  BY <1>2, <1>8, <1>9, <1>10, <1>11, <1>12 DEF Process

\* The invariant is inductive.
LEMMA FilledInvInductive ==
  (Init => FilledInv) /\ (FilledInv /\ [Next]_vars => FilledInv')
<1>1. Init => FilledInv
  <2> SUFFICES ASSUME Init PROVE FilledInv
    OBVIOUS
  <2>1. TypeOK
    BY InitType
  <2>2. Len(stream) = 0 /\ Number = 1 /\ Numbers = {}
    BY DEF Init, Number, Numbers
  <2>3. \A id : Sent(id, Number) = {}
    BY <2>2 DEF Sent
  <2> QED
    BY <2>1, <2>2, <2>3 DEF Init, FilledInv, EntriesFilled, FilesOpen
<1>2. FilledInv /\ [Next]_vars => FilledInv'
  <2>1. ASSUME FilledInv, UNCHANGED vars PROVE FilledInv'
    <3>1. TypeOK'
      BY <2>1 DEF FilledInv, TypeOK, vars
    <3>2. Supported' = Supported
      BY <2>1 DEF Supported, WellFormed, IdsFit, BufIds, vars, Numbers, Slices, Sent, PpsOf
    <3> QED
      BY <2>1, <3>1, <3>2 DEF FilledInv, EntriesFilled, FilesOpen, BufIds, vars, Numbers, Number, Sent
  <2>2. ASSUME FilledInv, NEW u \in Units, Process(u) PROVE FilledInv'
    BY <2>2, ProcessType, ProcessFills DEF FilledInv
  <2> QED
    BY <2>1, <2>2 DEF Next
<1> QED
  BY <1>1, <1>2

\* As long as the program runs, the ids of the PPSs it was given fit.
RunningFits == stream \in Seq(Units) /\ (pc = "running" => IdsFit)

LEMMA RunningFitsInductive ==
  (Init => RunningFits) /\ (RunningFits /\ [Next]_vars => RunningFits')
<1>1. Init => RunningFits
  BY DEF Init, RunningFits, IdsFit, Numbers
<1>2. ASSUME RunningFits, UNCHANGED vars PROVE RunningFits'
  BY <1>2 DEF RunningFits, IdsFit, BufIds, Numbers, vars
<1>3. ASSUME RunningFits, NEW u \in Units, Process(u) PROVE RunningFits'
  <2>1. /\ stream' \in Seq(Units) /\ stream'[Number] = u
        /\ \A k \in Numbers : stream'[k] = stream[k]
        /\ Numbers' = Numbers \cup {Number}
    BY <1>3, StreamGrows DEF RunningFits
  <2>2. IdsFit
    BY <1>3 DEF RunningFits, Process
  <2>3. ASSUME pc' = "running", u.kind = "pps" PROVE u.id \in BufIds
    <3>1. Pps(u)
      BY <1>3, <2>3 DEF Process, Slice, SvcSlice, Sps, Subset, Other
    <3> QED
      BY <2>3, <3>1 DEF Pps, Crash
  <2>4. pc' = "running" =>
          \A k \in Numbers' : stream'[k].kind = "pps" => stream'[k].id \in BufIds
    BY <2>1, <2>2, <2>3 DEF IdsFit
  <2> QED
    BY <2>1, <2>4 DEF RunningFits, IdsFit, BufIds
<1> QED
  BY <1>1, <1>2, <1>3 DEF Next

\* A well-formed stream never makes svc_split use an entry of its arrays that was
\* not filled or is not there, nor a file that is not open, exactly as long as its
\* PPS ids are below the size of pps_buf.
THEOREM NoGarbage == Spec => []NoGarbageUsed
<1>1. FilledInv /\ RunningFits => NoGarbageUsed
  BY DEF FilledInv, RunningFits, NoGarbageUsed, Supported
<1> QED
  BY <1>1, FilledInvInductive, RunningFitsInductive, PTL DEF Spec

----------------------------------------------------------------------------
(***************************************************************************)
(* What is saved, and where.  Files only grow at their ends, as long as    *)
(* each layer is opened once: the unit, with the PPS that was held back    *)
(* for it in front of it.                                                  *)
(***************************************************************************)

\* Only a subset SPS opens a file.
OpenedBySubset ==
  \A f \in open : \E k \in Numbers : stream[k].kind = "subset" /\ stream[k].id = f

\* The file a unit that is a slice goes to.
Target(u) == IF u.kind = "slice" THEN Base ELSE pps_table[u.id]

\* Units are written at the end of a file.
Writes(f, w) == out' = [out EXCEPT ![f] = @ \o w]

IsSlice(u) == u.kind \in {"slice", "svc_slice"}

\* The ways a unit of a well-formed stream is saved.
HoldsBack(u) ==
  /\ u.kind = "pps" /\ u.id \in BufIds /\ u.id \in PpsIds
  /\ UNCHANGED out /\ pps_buf' = [pps_buf EXCEPT ![u.id] = Number]

SavesUnit(u) ==
  /\ u.kind # "pps" /\ ~IsSlice(u)
  /\ \E f \in Files : Writes(f, <<Number>>)
  /\ UNCHANGED pps_buf

SavesSlice(u) ==
  /\ IsSlice(u) /\ u.id \in BufIds /\ u.id \in PpsIds /\ pps_buf[u.id] = None
  /\ Writes(Target(u), <<Number>>)
  /\ UNCHANGED pps_buf

SavesBoth(u) ==
  /\ IsSlice(u) /\ u.id \in BufIds /\ u.id \in PpsIds /\ pps_buf[u.id] \in Numbers
  /\ Writes(Target(u), <<pps_buf[u.id], Number>>)
  /\ pps_buf' = [pps_buf EXCEPT ![u.id] = None]

LEMMA UnitIsSaved ==
  ASSUME FilledInv, OpenedBySubset, NEW u \in Units, Process(u), Supported', SentOnce'
  PROVE  /\ HoldsBack(u) \/ SavesUnit(u) \/ SavesSlice(u) \/ SavesBoth(u)
         /\ IsSlice(u) => Target(u) \in Files
         /\ OpenedBySubset'
<1>1. TypeOK /\ stream \in Seq(Units)
  BY DEF FilledInv, TypeOK
<1>2. /\ u.kind # "bad"
      /\ IsSlice(u) => Sent(u.id, Number) # {}
      /\ pc = "running" /\ EntriesFilled /\ pc' = "running"
  BY <1>1, SupportedBefore, ProcessFills DEF FilledInv, IsSlice
<1>3. /\ stream'[Number] = u /\ \A k \in Numbers : stream'[k] = stream[k]
      /\ Numbers' = Numbers \cup {Number} /\ Number \notin Numbers
  BY <1>1, StreamGrows
<1>4. /\ out \in [Files -> Seq(1 .. Len(stream))] /\ open \subseteq SpsIds
      /\ pps_buf \in [BufIds -> {None, Garbage} \cup Numbers]
      /\ \A f \in SpsIds \ open : out[f] = <<>>
  BY <1>1 DEF TypeOK, Numbers
<1>5. ASSUME open' = open PROVE OpenedBySubset'
  BY <1>3, <1>5 DEF OpenedBySubset
<1>6. ASSUME NEW f \in Files, Save(f) PROVE Writes(f, <<Number>>)
  <2>1. Append(out[f], Number) = out[f] \o <<Number>>
    BY <1>4
  <2> QED
    BY <1>6, <2>1 DEF Save, Writes
<1>7. ASSUME NEW f \in Files, SaveSlice(f, u.id), IsSlice(u), Target(u) = f
      PROVE  (SavesSlice(u) \/ SavesBoth(u)) /\ OpenedBySubset'
  <2>1. u.id \in PpsIds
    BY <1>7, UnitFields DEF IsSlice
  <2>2. /\ u.id \in BufIds /\ ~Unfilled(u.id)
        /\ pps_buf[u.id] \in {None} \cup Numbers /\ pps_buf[u.id] # Garbage
    BY <1>2, <1>4, <1>7, <2>1 DEF EntriesFilled, Unfilled
  <2>3. /\ out' = [out EXCEPT ![f] =
                     @ \o (IF pps_buf[u.id] = None THEN <<>> ELSE <<pps_buf[u.id]>>)
                       \o <<Number>>]
        /\ pps_buf' = [pps_buf EXCEPT ![u.id] = None] /\ open' = open
    BY <1>7, <2>2 DEF SaveSlice
  <2>4. CASE pps_buf[u.id] = None
    <3>1. out[f] \o <<>> \o <<Number>> = out[f] \o <<Number>>
      BY <1>4
    <3>2. Writes(f, <<Number>>)
      BY <2>3, <2>4, <3>1 DEF Writes
    <3>3. pps_buf' = pps_buf
      BY <1>4, <2>1, <2>2, <2>3, <2>4
    <3> QED
      BY <1>5, <1>7, <2>1, <2>2, <2>3, <2>4, <3>2, <3>3 DEF SavesSlice
  <2>5. CASE pps_buf[u.id] # None
    <3>1. out[f] \o <<pps_buf[u.id]>> \o <<Number>> = out[f] \o <<pps_buf[u.id], Number>>
      <4>1. out[f] \in Seq(Nat) /\ pps_buf[u.id] \in Nat /\ Number \in Nat
        BY <1>1, <1>4, <2>2, <2>5, TypesWithMore DEF Numbers
      <4> QED
        BY <4>1, AppendTwo, Zenon
    <3>2. Writes(f, <<pps_buf[u.id], Number>>)
      BY <2>3, <2>5, <3>1 DEF Writes
    <3> QED
      BY <1>5, <1>7, <2>1, <2>2, <2>3, <2>5, <3>2 DEF SavesBoth
  <2> QED
    BY <2>4, <2>5
<1>8. CASE Slice(u)
  BY <1>7, <1>8, FilesApart DEF Slice, IsSlice, Target
<1>9. CASE SvcSlice(u)
  <2>1. ~Crash /\ u.kind = "svc_slice"
    BY <1>2, <1>9 DEF Crash, SvcSlice
  <2>2. pps_table[u.id] \in open /\ SaveSlice(pps_table[u.id], u.id)
    BY <1>9, <2>1 DEF SvcSlice
  <2> QED
    BY <1>4, <1>7, <2>1, <2>2, FilesApart DEF IsSlice, Target
<1>10. CASE Sps(u) \/ Other(u)
  BY <1>5, <1>6, <1>10, FilesApart DEF Sps, Other, SavesUnit, IsSlice
<1>11. CASE Pps(u)
  BY <1>2, <1>5, <1>11, UnitFields DEF Pps, Crash, HoldsBack, IsSlice
<1>12. CASE Subset(u)
  <2>1. u.kind = "subset" /\ u.id \in SpsIds /\ u = [kind |-> "subset", id |-> u.id, sps |-> 0]
    BY <1>12 DEF Subset, Units
  <2>2. u.id \notin open
    <3> SUFFICES ASSUME u.id \in open PROVE FALSE
      OBVIOUS
    <3>1. PICK k \in Numbers : stream[k].kind = "subset" /\ stream[k].id = u.id
      BY DEF OpenedBySubset
    <3>2. stream[k] \in Units
      BY <1>1, <3>1 DEF Numbers
    <3>3. stream[k] = u
      BY <2>1, <3>1, <3>2 DEF Units
    <3> QED
      BY <1>3, <2>1, <3>1, <3>3 DEF SentOnce
  <2>3. Writes(u.id, <<Number>>)
    <3>1. <<>> \o <<Number>> = <<Number>>
      OBVIOUS
    <3> QED
      BY <1>4, <1>12, <2>1, <2>2, <3>1 DEF Writes, Subset
  <2>4. OpenedBySubset'
    BY <1>3, <1>12, <2>1 DEF OpenedBySubset, Subset
  <2> QED
    BY <1>12, <2>1, <2>3, <2>4, FilesApart DEF SavesUnit, IsSlice, Subset
<1> QED
  BY <1>2, <1>8, <1>9, <1>10, <1>11, <1>12 DEF Process

Saved(k) == \E f \in Files : \E i \in DOMAIN out[f] : out[f][i] = k

\* No unit has two places.
OncePlaced ==
  \A f, g \in Files : \A i \in DOMAIN out[f], j \in DOMAIN out[g] :
    out[f][i] = out[g][j] => f = g /\ i = j

UnitsSaved == \A k \in Numbers : stream[k].kind # "pps" => Saved(k)
UsedSaved == \A k \in Slices : \E m \in Numbers : m = PpsOf(k) /\ Saved(m)

\* The PPS sent last under an id.
IsLast(m, id) == Sent(id, Number) # {} /\ m = Latest(Sent(id, Number))

\* The PPS held back is the last of its id, and there is none once that is saved.
LastHeldOrSaved ==
  \A id \in BufIds :
    /\ Sent(id, Number) = {} => pps_buf[id] \notin Numbers
    /\ \A m \in Numbers : IsLast(m, id) =>
         \/ pps_buf[id] = m /\ ~Saved(m)
         \/ pps_buf[id] = None /\ Saved(m)

OnceInv ==
  /\ FilledInv
  /\ Supported /\ SentOnce =>
       OpenedBySubset /\ OncePlaced /\ UnitsSaved /\ UsedSaved /\ LastHeldOrSaved

\* What is written at the end of a file is saved, and what was saved is in its
\* place.
LEMMA EndOfFile ==
  ASSUME out \in [Files -> Seq(Nat)], NEW f \in Files, NEW w \in Seq(Nat), Writes(f, w)
  PROVE  /\ \A g \in Files \ {f} : out'[g] = out[g]
         /\ Len(out[f]) \in Nat /\ Len(out'[f]) = Len(out[f]) + Len(w)
         /\ \A i \in 1 .. Len(out[f]) : out'[f][i] = out[f][i]
         /\ \A i \in 1 .. Len(w) : out'[f][Len(out[f]) + i] = w[i]
         /\ out' \in [Files -> Seq(Nat)]
<1>1. out'[f] = out[f] \o w /\ \A g \in Files \ {f} : out'[g] = out[g]
  BY DEF Writes
<1>2. out[f] \in Seq(Nat)
  OBVIOUS
<1>3. /\ out[f] \o w \in Seq(Nat) /\ Len(out[f] \o w) = Len(out[f]) + Len(w)
      /\ \A i \in 1 .. Len(out[f]) + Len(w) :
           (out[f] \o w)[i] = IF i <= Len(out[f]) THEN out[f][i] ELSE w[i - Len(out[f])]
  BY <1>2, ConcatProperties
<1>4. out' \in [Files -> Seq(Nat)]
  BY <1>3 DEF Writes
<1>5. \A i \in 1 .. Len(out[f]) : (out[f] \o w)[i] = out[f][i]
  BY <1>2, <1>3
<1>6. \A i \in 1 .. Len(w) : (out[f] \o w)[Len(out[f]) + i] = w[i]
  BY <1>2, <1>3
<1> QED
  BY <1>1, <1>2, <1>3, <1>4, <1>5, <1>6

LEMMA SavedGrows ==
  ASSUME out \in [Files -> Seq(Nat)], NEW f \in Files, NEW w \in Seq(Nat), Writes(f, w)
  PROVE  /\ \A k : Saved(k) \/ (\E i \in DOMAIN w : w[i] = k) => Saved(k)'
         /\ \A k : Saved(k)' => Saved(k) \/ \E i \in DOMAIN w : w[i] = k
<1> DEFINE n == Len(out[f])
<1>1. /\ \A g \in Files \ {f} : out'[g] = out[g]
      /\ n \in Nat /\ DOMAIN out'[f] = 1 .. n + Len(w) /\ DOMAIN out[f] = 1 .. n
      /\ \A i \in 1 .. n : out'[f][i] = out[f][i]
      /\ \A i \in 1 .. Len(w) : out'[f][n + i] = w[i]
      /\ Len(w) \in Nat /\ DOMAIN w = 1 .. Len(w)
  BY EndOfFile
<1> HIDE DEF n
<1>2. ASSUME NEW k, Saved(k) PROVE Saved(k)'
  <2>1. PICK g \in Files : \E i \in DOMAIN out[g] : out[g][i] = k
    BY <1>2 DEF Saved
  <2>2. PICK i \in DOMAIN out[g] : out[g][i] = k
    BY <2>1
  <2>3. i \in DOMAIN out'[g] /\ out'[g][i] = k
    <3>1. CASE g = f
      BY <1>1, <2>2, <3>1
    <3>2. CASE g # f
      BY <1>1, <2>2, <3>2, Zenon
    <3> QED BY <3>1, <3>2
  <2> QED
    BY <2>3 DEF Saved
<1>3. ASSUME NEW i \in DOMAIN w PROVE Saved(w[i])'
  <2>1. n + i \in DOMAIN out'[f] /\ out'[f][n + i] = w[i]
    BY <1>1
  <2> QED
    BY <2>1 DEF Saved
<1>4. ASSUME NEW k, Saved(k)' PROVE Saved(k) \/ \E i \in DOMAIN w : w[i] = k
  <2>1. PICK g \in Files : \E i \in DOMAIN out'[g] : out'[g][i] = k
    BY <1>4 DEF Saved
  <2>2. PICK i \in DOMAIN out'[g] : out'[g][i] = k
    BY <2>1
  <2>3. CASE g # f
    BY <1>1, <2>2, <2>3 DEF Saved
  <2>4. CASE g = f
    <3>1. i \in 1 .. n \/ (i - n \in 1 .. Len(w) /\ i = n + (i - n))
      BY <1>1, <2>4
    <3>2. CASE i \in 1 .. n
      BY <1>1, <2>2, <2>4, <3>2 DEF Saved
    <3>3. CASE i - n \in 1 .. Len(w) /\ i = n + (i - n)
      <4>1. out'[f][n + (i - n)] = w[i - n] /\ i - n \in DOMAIN w
        BY <1>1, <3>3
      <4> QED
        BY <2>2, <2>4, <3>3, <4>1
    <3> QED
      BY <3>1, <3>2, <3>3
  <2> QED
    BY <2>3, <2>4
<1> QED
  BY <1>2, <1>3, <1>4

LEMMA OncePlacedKept ==
  ASSUME out \in [Files -> Seq(Nat)], NEW f \in Files, NEW w \in Seq(Nat), Writes(f, w),
         OncePlaced, \A i \in DOMAIN w : ~Saved(w[i]),
         \A i, j \in DOMAIN w : w[i] = w[j] => i = j
  PROVE  OncePlaced'
<1> DEFINE n == Len(out[f])
<1>1. /\ \A g \in Files \ {f} : out'[g] = out[g]
      /\ n \in Nat /\ DOMAIN out'[f] = 1 .. n + Len(w) /\ DOMAIN out[f] = 1 .. n
      /\ \A i \in 1 .. n : out'[f][i] = out[f][i]
      /\ \A i \in 1 .. Len(w) : out'[f][n + i] = w[i]
      /\ Len(w) \in Nat /\ DOMAIN w = 1 .. Len(w)
  BY EndOfFile
<1> HIDE DEF n
\* A place now is one from before or holds one of the units written.
<1>2. ASSUME NEW g \in Files, NEW i \in DOMAIN out'[g]
      PROVE  \/ i \in DOMAIN out[g] /\ out'[g][i] = out[g][i]
             \/ g = f /\ i - n \in DOMAIN w /\ i \in Int /\ out'[g][i] = w[i - n]
  <2>1. CASE g # f
    BY <1>1, <2>1
  <2>2. CASE g = f
    <3>1. i \in 1 .. n \/ (i - n \in 1 .. Len(w) /\ i = n + (i - n) /\ i \in Int)
      BY <1>1, <2>2
    <3> QED
      BY <1>1, <2>2, <3>1
  <2> QED
    BY <2>1, <2>2
<1>3. SUFFICES ASSUME NEW g \in Files, NEW h \in Files,
                      NEW i \in DOMAIN out'[g], NEW j \in DOMAIN out'[h],
                      out'[g][i] = out'[h][j]
               PROVE  g = h /\ i = j
  BY DEF OncePlaced
<1>4. CASE i \in DOMAIN out[g] /\ out'[g][i] = out[g][i]
  <2>1. Saved(out'[g][i])
    BY <1>4 DEF Saved
  <2>2. j \in DOMAIN out[h] /\ out'[h][j] = out[h][j]
    BY <1>2, <1>3, <2>1
  <2>3. out[g][i] = out[h][j]
    BY <1>3, <1>4, <2>2
  <2>4. i \in DOMAIN out[g] /\ j \in DOMAIN out[h]
    BY <1>4, <2>2
  <2>5. \A x \in DOMAIN out[g] : \A y \in DOMAIN out[h] :
          out[g][x] = out[h][y] => g = h /\ x = y
    BY DEF OncePlaced
  <2> QED
    BY <2>3, <2>4, <2>5
<1>5. CASE g = f /\ i - n \in DOMAIN w /\ i \in Int /\ out'[g][i] = w[i - n]
  <2>1. ~Saved(out'[h][j])
    BY <1>3, <1>5
  <2>2. h = f /\ j - n \in DOMAIN w /\ j \in Int /\ out'[h][j] = w[j - n]
    BY <1>2, <2>1 DEF Saved
  <2>3. i - n = j - n
    BY <1>3, <1>5, <2>2
  <2> QED
    BY <1>1, <1>5, <2>2, <2>3
<1> QED
  BY <1>2, <1>4, <1>5

\* What was sent and used, before and now.
LEMMA LastAndUsed ==
  ASSUME TypeOK, NEW u \in Units, Process(u)
  PROVE  /\ \A id \in PpsIds : \A m : IsLast(m, id) =>
              m \in Numbers /\ stream[m].kind = "pps" /\ stream[m].id = id
         /\ \A id \in PpsIds : Sent(id, Number) # {} => \E m : IsLast(m, id)
         /\ u.kind = "pps" =>
              Sent(u.id, Number)' # {} /\ \A m : IsLast(m, u.id)' => m = Number
         /\ \A id \in PpsIds : u.kind # "pps" \/ u.id # id =>
              /\ Sent(id, Number)' = Sent(id, Number)
              /\ \A m : IsLast(m, id)' => IsLast(m, id)
         /\ \A k \in Slices' :
              \/ k \in Slices /\ PpsOf(k)' = PpsOf(k)
              \/ k = Number /\ IsSlice(u) /\ PpsOf(k)' = Latest(Sent(u.id, Number))
<1>1. /\ stream \in Seq(Units)
      /\ stream'[Number] = u /\ \A k \in Numbers : stream'[k] = stream[k]
      /\ Numbers' = Numbers \cup {Number} /\ Number \notin Numbers
      /\ Numbers = 1 .. Len(stream) /\ Number = Len(stream) + 1 /\ Len(stream) \in Nat
  BY StreamGrows DEF TypeOK
<1>2. ASSUME NEW id, NEW m, IsLast(m, id)
      PROVE  m \in Numbers /\ stream[m].kind = "pps" /\ stream[m].id = id
  <2>1. Sent(id, Number) \in SUBSET (1 .. Len(stream))
    BY <1>1 DEF Sent
  <2>2. m \in Sent(id, Number)
    BY <1>1, <1>2, <2>1, LatestIsLast DEF IsLast
  <2> QED
    BY <1>1, <2>1, <2>2 DEF Sent
<1>3. \A id \in PpsIds : Sent(id, Number) # {} => \E m : IsLast(m, id)
  BY DEF IsLast
<1>4. ASSUME u.kind = "pps"
      PROVE  Sent(u.id, Number)' # {} /\ \A m : IsLast(m, u.id)' => m = Number
  <2>1. Sent(u.id, Number)' = Sent(u.id, Number) \cup {Number}
    BY <1>1, <1>4, SentGrows
  <2>2. Sent(u.id, Number) \in SUBSET (1 .. Len(stream))
    BY <1>1 DEF Sent
  <2>3. Latest(Sent(u.id, Number) \cup {Number}) = Number
    BY <1>1, <2>2, LatestOfMore
  <2> QED
    BY <2>1, <2>3 DEF IsLast
<1>5. ASSUME NEW id \in PpsIds, u.kind # "pps" \/ u.id # id
      PROVE  /\ Sent(id, Number)' = Sent(id, Number)
             /\ \A m : IsLast(m, id)' => IsLast(m, id)
  <2>1. Sent(id, Number)' = Sent(id, Number)
    BY <1>1, <1>5, SentGrows
  <2> QED
    BY <2>1 DEF IsLast
<1>6. ASSUME NEW k \in Slices'
      PROVE  \/ k \in Slices /\ PpsOf(k)' = PpsOf(k)
             \/ k = Number /\ IsSlice(u) /\ PpsOf(k)' = Latest(Sent(u.id, Number))
  <2>1. k \in Numbers' /\ stream'[k].kind \in {"slice", "svc_slice"}
    BY DEF Slices
  <2>2. PpsOf(k)' = Latest(Sent(stream'[k].id, k))
    <3>1. \A n \in Nat : 1 .. n \subseteq 1 .. n + 1 /\ n + 1 \in 1 .. n + 1
      OBVIOUS
    <3>2. k \in 1 .. Number
      BY <1>1, <2>1, <3>1
    <3> QED
      BY <1>1, <3>2, PpsOfKept
  <2>3. CASE k \in Numbers
    BY <1>1, <2>1, <2>2, <2>3 DEF Slices, PpsOf
  <2>4. CASE k = Number
    BY <1>1, <2>1, <2>2, <2>4 DEF IsSlice
  <2> QED
    BY <1>1, <2>1, <2>3, <2>4
<1> QED
  BY <1>2, <1>3, <1>4, <1>5, <1>6

\* Files hold units that were sent before.
LEMMA FilesHoldNumbers ==
  ASSUME TypeOK
  PROVE  /\ out \in [Files -> Seq(Nat)] /\ Numbers \subseteq Nat \ {0}
         /\ Number \in Nat \ {0} /\ Number \notin Numbers
         /\ \A k : Saved(k) => k \in Numbers
         /\ pps_buf \in [BufIds -> {None, Garbage} \cup Numbers]
         /\ \A f \in Files : \A i \in DOMAIN out[f] : out[f][i] \in Numbers
<1>1. /\ out \in [Files -> Seq(Numbers)]
      /\ pps_buf \in [BufIds -> {None, Garbage} \cup Numbers]
  BY DEF TypeOK, Numbers
<1>2. Numbers \subseteq Nat \ {0} /\ Number \in Nat \ {0} /\ Number \notin Numbers
  BY TypesWithMore DEF Numbers
<1>3. \A f \in Files : \A i \in DOMAIN out[f] : out[f][i] \in Numbers
  BY <1>1
<1>4. Seq(Numbers) \subseteq Seq(Nat)
  BY <1>2, SeqOfMore
<1>5. out \in [Files -> Seq(Nat)]
  BY <1>1, <1>4
<1> QED
  BY <1>1, <1>2, <1>3, <1>5 DEF Saved

\* One file only grows by the unit and the PPS held back, if it is a slice's.
LEMMA SavedOnceStep ==
  ASSUME FilledInv, OpenedBySubset, OncePlaced, UnitsSaved, UsedSaved, LastHeldOrSaved,
         NEW u \in Units, Process(u), Supported', SentOnce'
  PROVE  OncePlaced' /\ UnitsSaved' /\ UsedSaved' /\ LastHeldOrSaved'
<1>1. TypeOK /\ stream \in Seq(Units) /\ Supported
  BY SupportedBefore DEF FilledInv, TypeOK
<1>2. /\ stream'[Number] = u /\ \A k \in Numbers : stream'[k] = stream[k]
      /\ Numbers' = Numbers \cup {Number}
  BY <1>1, StreamGrows
<1>3. /\ out \in [Files -> Seq(Nat)] /\ Numbers \subseteq Nat \ {0}
      /\ Number \in Nat \ {0} /\ Number \notin Numbers /\ ~Saved(Number)
      /\ pps_buf \in [BufIds -> {None, Garbage} \cup Numbers]
  BY <1>1, FilesHoldNumbers
<1>4. /\ HoldsBack(u) \/ SavesUnit(u) \/ SavesSlice(u) \/ SavesBoth(u)
      /\ IsSlice(u) => Target(u) \in Files
  BY UnitIsSaved
<1>5. CASE HoldsBack(u)
  <2>1. /\ out' = out /\ u.kind = "pps" /\ u.id \in BufIds /\ u.id \in PpsIds
        /\ pps_buf' = [pps_buf EXCEPT ![u.id] = Number]
    BY <1>5 DEF HoldsBack
  <2>2. \A k : Saved(k)' = Saved(k)
    BY <2>1 DEF Saved
  <2>3. OncePlaced' /\ UnitsSaved'
    BY <1>2, <2>1, <2>2 DEF OncePlaced, UnitsSaved
  <2>4. UsedSaved'
    <3> SUFFICES ASSUME NEW k \in Slices'
                 PROVE  \E m \in Numbers' : m = PpsOf(k)' /\ Saved(m)'
      BY DEF UsedSaved
    <3>1. k \in Slices /\ PpsOf(k)' = PpsOf(k)
      BY <1>1, <2>1, LastAndUsed DEF IsSlice
    <3> QED
      BY <1>2, <2>2, <3>1 DEF UsedSaved
  <2>5. LastHeldOrSaved'
    <3> SUFFICES ASSUME NEW id \in BufIds, id \in PpsIds
                 PROVE  /\ Sent(id, Number)' = {} => pps_buf'[id] \notin Numbers'
                        /\ \A m \in Numbers' : IsLast(m, id)' =>
                             \/ pps_buf'[id] = m /\ ~Saved(m)'
                             \/ pps_buf'[id] = None /\ Saved(m)'
      BY DEF LastHeldOrSaved, BufIds
    <3>1. CASE id = u.id
      BY <1>1, <1>3, <2>1, <2>2, <3>1, LastAndUsed, ZenonT(60)
    <3>2. CASE id # u.id
      <4>1. /\ Sent(id, Number)' = Sent(id, Number) /\ pps_buf'[id] = pps_buf[id]
            /\ \A m : IsLast(m, id)' => IsLast(m, id) /\ m \in Numbers
        BY <1>1, <1>3, <2>1, <3>2, LastAndUsed
      <4>2. pps_buf[id] # Number
        BY <1>3 DEF None, Garbage
      <4> QED
        BY <1>2, <2>2, <4>1, <4>2 DEF LastHeldOrSaved
    <3> QED
      BY <3>1, <3>2
  <2> QED
    BY <2>3, <2>4, <2>5
<1>6. CASE SavesUnit(u) \/ SavesSlice(u)
  <2>1. PICK f \in Files : Writes(f, <<Number>>)
    BY <1>4, <1>6 DEF SavesUnit, SavesSlice
  <2>2. u.kind # "pps" /\ pps_buf' = pps_buf
    BY <1>6 DEF SavesUnit, SavesSlice, IsSlice
  <2>3. <<Number>> \in Seq(Nat) /\ DOMAIN <<Number>> = {1} /\ <<Number>>[1] = Number
    BY <1>3
  <2>4. OncePlaced'
    BY <1>3, <2>1, <2>3, OncePlacedKept
  <2>5. \A k : Saved(k)' <=> Saved(k) \/ k = Number
    <3>1. \A k : (\E i \in DOMAIN <<Number>> : <<Number>>[i] = k) <=> k = Number
      BY <2>3
    <3> QED
      BY <1>3, <2>1, <2>3, <3>1, SavedGrows
  <2>6. UnitsSaved'
    BY <1>2, <2>5 DEF UnitsSaved
  <2>7. UsedSaved'
    <3> SUFFICES ASSUME NEW k \in Slices'
                 PROVE  \E m \in Numbers' : m = PpsOf(k)' /\ Saved(m)'
      BY DEF UsedSaved
    <3>1. CASE k \in Slices /\ PpsOf(k)' = PpsOf(k)
      BY <1>2, <2>5, <3>1 DEF UsedSaved
    <3>2. CASE k = Number /\ IsSlice(u) /\ PpsOf(k)' = Latest(Sent(u.id, Number))
      <4>1. u.id \in PpsIds /\ u.id \in BufIds /\ pps_buf[u.id] = None
        BY <1>6, <3>2 DEF SavesUnit, SavesSlice
      <4>2. Sent(u.id, Number) # {}
        BY <1>1, <3>2, SupportedBefore DEF IsSlice
      <4>3. PICK m : IsLast(m, u.id) /\ m = Latest(Sent(u.id, Number))
        BY <4>2 DEF IsLast
      <4>4. m \in Numbers
        BY <1>1, <4>1, <4>3, LastAndUsed
      <4>5. Saved(m)
        BY <1>3, <4>1, <4>3, <4>4 DEF LastHeldOrSaved, None
      <4> QED
        BY <1>2, <2>5, <3>2, <4>3, <4>4, <4>5
    <3> QED
      BY <1>1, <3>1, <3>2, LastAndUsed
  <2>8. LastHeldOrSaved'
    <3> SUFFICES ASSUME NEW id \in BufIds, id \in PpsIds
                 PROVE  /\ Sent(id, Number)' = {} => pps_buf'[id] \notin Numbers'
                        /\ \A m \in Numbers' : IsLast(m, id)' =>
                             \/ pps_buf'[id] = m /\ ~Saved(m)'
                             \/ pps_buf'[id] = None /\ Saved(m)'
      BY DEF LastHeldOrSaved, BufIds
    <3>1. /\ Sent(id, Number)' = Sent(id, Number) /\ pps_buf'[id] = pps_buf[id]
          /\ \A m : IsLast(m, id)' => IsLast(m, id) /\ m \in Numbers
      BY <1>1, <2>2, LastAndUsed
    <3>2. pps_buf[id] # Number
      BY <1>3 DEF None, Garbage
    <3>3. \A m \in Numbers : Saved(m)' <=> Saved(m)
      BY <1>3, <2>5
    <3> QED
      BY <1>2, <3>1, <3>2, <3>3 DEF LastHeldOrSaved
  <2> QED
    BY <2>4, <2>6, <2>7, <2>8
<1>7. CASE SavesBoth(u)
  <2>0. PICK held, w : held = pps_buf[u.id] /\ w = <<held, Number>>
    OBVIOUS
  <2>1. PICK f \in Files : f = Target(u) /\ Writes(f, w)
    BY <1>4, <1>7, <2>0 DEF SavesBoth
  <2>2. /\ held \in Numbers /\ u.id \in PpsIds /\ u.id \in BufIds
        /\ u.kind # "pps" /\ IsSlice(u)
        /\ pps_buf' = [pps_buf EXCEPT ![u.id] = None]
    BY <1>7, <2>0 DEF SavesBoth, IsSlice
  <2>3. IsLast(held, u.id) /\ ~Saved(held) /\ stream[held].id = u.id
    <3>1. PICK m : IsLast(m, u.id)
      BY <1>1, <2>0, <2>2, LastAndUsed DEF LastHeldOrSaved
    <3>2. m \in Numbers /\ stream[m].id = u.id /\ held # None
      BY <1>1, <1>3, <2>2, <3>1, LastAndUsed DEF None
    <3> QED
      BY <2>0, <2>2, <3>1, <3>2 DEF LastHeldOrSaved
  <2>4. /\ w \in Seq(Nat) /\ DOMAIN w = {1, 2} /\ w[1] = held /\ w[2] = Number
        /\ held # Number
    BY <1>3, <2>0, <2>2
  <2>5. OncePlaced'
    BY <1>3, <2>1, <2>3, <2>4, OncePlacedKept
  <2>6. \A k : Saved(k)' <=> Saved(k) \/ k = Number \/ k = held
    <3>1. \A k : (\E i \in DOMAIN w : w[i] = k) <=> k = Number \/ k = held
      BY <2>4
    <3> QED
      BY <1>3, <2>1, <2>4, <3>1, SavedGrows
  <2>7. UnitsSaved'
    BY <1>2, <2>6 DEF UnitsSaved
  <2>8. UsedSaved'
    <3> SUFFICES ASSUME NEW k \in Slices'
                 PROVE  \E m \in Numbers' : m = PpsOf(k)' /\ Saved(m)'
      BY DEF UsedSaved
    <3>1. CASE k \in Slices /\ PpsOf(k)' = PpsOf(k)
      BY <1>2, <2>6, <3>1 DEF UsedSaved
    <3>2. CASE PpsOf(k)' = Latest(Sent(u.id, Number))
      BY <1>2, <2>2, <2>3, <2>6, <3>2 DEF IsLast
    <3> QED
      BY <1>1, <3>1, <3>2, LastAndUsed
  <2>9. LastHeldOrSaved'
    <3> SUFFICES ASSUME NEW id \in BufIds, id \in PpsIds
                 PROVE  /\ Sent(id, Number)' = {} => pps_buf'[id] \notin Numbers'
                        /\ \A m \in Numbers' : IsLast(m, id)' =>
                             \/ pps_buf'[id] = m /\ ~Saved(m)'
                             \/ pps_buf'[id] = None /\ Saved(m)'
      BY DEF LastHeldOrSaved, BufIds
    <3>1. /\ Sent(id, Number)' = Sent(id, Number)
          /\ \A m : IsLast(m, id)' =>
               IsLast(m, id) /\ m \in Numbers /\ stream[m].id = id
      BY <1>1, <2>2, LastAndUsed
    <3>2. CASE id = u.id
      <4>1. pps_buf'[id] = None
        BY <1>3, <2>2, <3>2
      <4>2. \A m : IsLast(m, id)' => m = held
        BY <2>3, <3>1, <3>2 DEF IsLast
      <4>3. Sent(id, Number)' # {}
        BY <2>3, <3>1, <3>2 DEF IsLast
      <4> QED
        BY <2>6, <4>1, <4>2, <4>3
    <3>3. CASE id # u.id
      <4>1. pps_buf'[id] = pps_buf[id] /\ pps_buf[id] # Number
        BY <1>3, <2>2, <3>3 DEF None, Garbage
      <4>2. \A m \in Numbers : stream[m].id = id => (Saved(m)' <=> Saved(m))
        BY <1>3, <2>3, <2>6, <3>3
      <4> QED
        BY <1>2, <3>1, <4>1, <4>2 DEF LastHeldOrSaved
    <3> QED
      BY <3>2, <3>3
  <2> QED
    BY <2>5, <2>7, <2>8, <2>9
<1> QED
  BY <1>4, <1>5, <1>6, <1>7

\* A stream that sends each subset SPS once did so before its last unit.
LEMMA SentOnceBefore ==
  ASSUME stream \in Seq(Units), NEW u \in Units, Process(u), SentOnce'
  PROVE  SentOnce
<1>1. /\ \A k \in Numbers : stream'[k] = stream[k]
      /\ Numbers' = Numbers \cup {Number}
  BY StreamGrows
<1>2. \A k, m \in Numbers' :
        stream'[k].kind = "subset" /\ stream'[k] = stream'[m] => k = m
  BY DEF SentOnce
<1> QED
  BY <1>1, <1>2 DEF SentOnce

\* The invariant is inductive.
LEMMA InitOnceInv == Init => OnceInv
<1> SUFFICES ASSUME Init PROVE OnceInv
  OBVIOUS
<1>1. FilledInv /\ TypeOK
  BY FilledInvInductive DEF FilledInv
<1>2. /\ Len(stream) = 0 /\ Number = 1 /\ Numbers = {} /\ Slices = {} /\ open = {}
      /\ \A f \in Files : out[f] = <<>> /\ DOMAIN out[f] = {}
  BY DEF Init, Number, Numbers, Slices
<1>3. \A id : Sent(id, Number) = {}
  BY <1>2 DEF Sent
<1> QED
  BY <1>1, <1>2, <1>3
  DEF OnceInv, OpenedBySubset, OncePlaced, UnitsSaved, UsedSaved, LastHeldOrSaved, IsLast

LEMMA NextOnceInv == OnceInv /\ [Next]_vars => OnceInv'
<1>1. ASSUME OnceInv, UNCHANGED vars PROVE OnceInv'
  <2>1. FilledInv'
    BY <1>1, FilledInvInductive DEF OnceInv
  <2>2. (Supported /\ SentOnce)' = (Supported /\ SentOnce)
    BY <1>1 DEF Supported, WellFormed, IdsFit, SentOnce, vars, Numbers, Slices, Sent, PpsOf
  <2>3. /\ Numbers' = Numbers /\ Slices' = Slices /\ Number' = Number /\ stream' = stream
        /\ out' = out /\ open' = open /\ pps_buf' = pps_buf
    BY <1>1 DEF vars, Numbers, Slices, Number
  <2>4. \A id, k : Sent(id, k)' = Sent(id, k)
    BY <2>3 DEF Sent
  <2>5. \A k : PpsOf(k)' = PpsOf(k) /\ Saved(k)' = Saved(k)
    BY <2>3, <2>4 DEF PpsOf, Saved
  <2>6. \A m, id : IsLast(m, id)' = IsLast(m, id) /\ Sent(id, Number)' = Sent(id, Number)
    BY <2>3, <2>4 DEF IsLast, Sent
  <2>7. OpenedBySubset => OpenedBySubset'
    BY <2>3 DEF OpenedBySubset
  <2>8. OncePlaced => OncePlaced'
    BY <2>3 DEF OncePlaced
  <2>9. UnitsSaved => UnitsSaved'
    BY <2>3, <2>5 DEF UnitsSaved
  <2>10. UsedSaved => UsedSaved'
    BY <2>3, <2>5 DEF UsedSaved
  <2>11. LastHeldOrSaved => LastHeldOrSaved'
    BY <2>3, <2>5, <2>6 DEF LastHeldOrSaved
  <2> QED
    BY <1>1, <2>1, <2>2, <2>7, <2>8, <2>9, <2>10, <2>11 DEF OnceInv
<1>2. ASSUME OnceInv, NEW u \in Units, Process(u) PROVE OnceInv'
  <2>1. FilledInv' /\ FilledInv /\ stream \in Seq(Units)
    BY <1>2, FilledInvInductive DEF OnceInv, Next, FilledInv, TypeOK
  <2>2. ASSUME Supported', SentOnce'
        PROVE  OpenedBySubset' /\ OncePlaced' /\ UnitsSaved' /\ UsedSaved' /\ LastHeldOrSaved'
    <3>1. Supported /\ SentOnce
      BY <1>2, <2>1, <2>2, SupportedBefore, SentOnceBefore
    <3> QED
      BY <1>2, <2>1, <2>2, <3>1, UnitIsSaved, SavedOnceStep DEF OnceInv
  <2> QED
    BY <2>1, <2>2 DEF OnceInv
<1> QED
  BY <1>1, <1>2 DEF Next

\* Every unit of a well-formed stream that sends each subset SPS once is in one
\* file of svc_split, once, but for a PPS that no slice has referred to.
THEOREM EachSavedOnce == Spec => []SavedOnce
<1>1. OnceInv => SavedOnce
  <2> SUFFICES ASSUME OnceInv, Supported, SentOnce, NEW k \in Numbers
               PROVE  \/ \E x \in Places(k) : Places(k) = {x}
                      \/ /\ stream[k].kind = "pps" /\ Places(k) = {}
                         /\ \A m \in Slices : PpsOf(m) # k
    BY DEF SavedOnce
  <2>1. OncePlaced /\ UnitsSaved /\ UsedSaved
    BY DEF OnceInv
  <2>2. \A x : x \in Places(k) <=>
          \E f \in Files : \E i \in DOMAIN out[f] : x = <<f, i>> /\ out[f][i] = k
    BY DEF Places
  <2>3. CASE Saved(k)
    <3>1. PICK f \in Files : \E i \in DOMAIN out[f] : out[f][i] = k
      BY <2>3 DEF Saved
    <3>2. PICK i \in DOMAIN out[f] : out[f][i] = k
      BY <3>1
    <3>3. <<f, i>> \in Places(k)
      BY <2>2, <3>2
    <3>4. ASSUME NEW x \in Places(k) PROVE x = <<f, i>>
      <4>1. PICK g \in Files : \E j \in DOMAIN out[g] : x = <<g, j>> /\ out[g][j] = k
        BY <2>2, <3>4
      <4>2. PICK j \in DOMAIN out[g] : x = <<g, j>> /\ out[g][j] = k
        BY <4>1
      <4> QED
        BY <2>1, <3>2, <4>2 DEF OncePlaced
    <3>5. Places(k) = {<<f, i>>}
      BY <3>3, <3>4
    <3> QED
      BY <3>3, <3>5
  <2>4. CASE ~Saved(k)
    <3>1. Places(k) = {}
      BY <2>2, <2>4 DEF Saved
    <3> QED
      BY <2>1, <2>4, <3>1 DEF UnitsSaved, UsedSaved
  <2> QED
    BY <2>3, <2>4
<1> QED
  BY <1>1, InitOnceInv, NextOnceInv, PTL DEF Spec

----------------------------------------------------------------------------
(***************************************************************************)
(* What a decoder of one file sees.  The last PPS of an id in a file stays *)
(* the one its slices refer to until another is sent, since nothing else   *)
(* of that id is written there meanwhile.                                  *)
(***************************************************************************)

\* The PPSs of an id among the first units of a file o, of a stream s; and that m
\* is the last of them.
PpsBefore(o, s, i, id) ==
  {j \in 1 .. i - 1 : s[o[j]].kind = "pps" /\ s[o[j]].id = id}

LastPps(o, s, i, id, m) ==
  \E j \in PpsBefore(o, s, i, id) :
    o[j] = m /\ \A l \in PpsBefore(o, s, i, id) : l <= j

\* Each slice finds its PPS.
Decodable ==
  \A k \in Slices : \E i \in 1 .. Len(out[FileOf(k)]) :
    /\ out[FileOf(k)][i] = k
    /\ LastPps(out[FileOf(k)], stream, i, stream[k].id, PpsOf(k))

\* So would another slice, as long as the PPS is the last of its id.
Current ==
  \A k \in Slices : IsLast(PpsOf(k), stream[k].id) =>
    LastPps(out[FileOf(k)], stream, Len(out[FileOf(k)]) + 1, stream[k].id, PpsOf(k))

\* A PPS is written only for a slice.
PpsUsed ==
  \A m \in Numbers : stream[m].kind = "pps" /\ Saved(m) => \E k \in Slices : PpsOf(k) = m

LayersInv ==
  /\ OnceInv
  /\ Supported /\ SentOnce /\ OneLayerEach => Decodable /\ Current /\ PpsUsed

LEMMA PpsStays ==
  ASSUME NEW o, NEW o2, NEW s, NEW s2, NEW id, NEW m,
         NEW i \in Nat, NEW i2 \in Nat, i <= i2,
         \A j \in 1 .. i - 1 : o2[j] = o[j] /\ s2[o[j]] = s[o[j]],
         \A j \in i .. i2 - 1 : ~(s2[o2[j]].kind = "pps" /\ s2[o2[j]].id = id),
         LastPps(o, s, i, id, m)
  PROVE  LastPps(o2, s2, i2, id, m)
<1>1. PpsBefore(o2, s2, i2, id) = PpsBefore(o, s, i, id)
  <2>1. \A j \in 1 .. i2 - 1 : j \in 1 .. i - 1 \/ j \in i .. i2 - 1
    OBVIOUS
  <2>2. 1 .. i - 1 \subseteq 1 .. i2 - 1
    OBVIOUS
  <2> QED
    BY <2>1, <2>2 DEF PpsBefore
<1>2. \A j \in PpsBefore(o, s, i, id) : o2[j] = o[j]
  BY DEF PpsBefore
<1> QED
  BY <1>1, <1>2 DEF LastPps

LEMMA PpsWritten ==
  ASSUME NEW o, NEW s, NEW id, NEW m, NEW i \in Nat \ {0},
         o[i] = m, s[m].kind = "pps", s[m].id = id
  PROVE  LastPps(o, s, i + 1, id, m)
<1>1. i \in PpsBefore(o, s, i + 1, id)
  BY DEF PpsBefore
<1>2. \A l \in PpsBefore(o, s, i + 1, id) : l <= i
  BY DEF PpsBefore
<1> QED
  BY <1>1, <1>2 DEF LastPps

\* The PPS of a slice is one that was sent, and its file is a file.
LEMMA PpsOfSlice ==
  ASSUME TypeOK, Supported, NEW k \in Slices
  PROVE  /\ stream[k].id \in PpsIds /\ stream[k].kind # "pps" /\ k \in Numbers
         /\ PpsOf(k) \in Numbers /\ stream[PpsOf(k)].kind = "pps"
         /\ stream[PpsOf(k)].id = stream[k].id
         /\ FileOf(k) \in Files
<1>1. stream \in Seq(Units) /\ Len(stream) \in Nat /\ Numbers = 1 .. Len(stream)
  <2>1. stream \in Seq(Units)
    BY DEF TypeOK
  <2> QED
    BY <2>1 DEF Numbers
<1>2. k \in Numbers /\ stream[k].kind \in {"slice", "svc_slice"}
  BY DEF Slices
<1>3. \A j \in Numbers : stream[j] \in Units
  BY <1>1
<1>4. k \in Nat /\ k - 1 \in Nat /\ 1 .. k - 1 \subseteq Numbers
  BY <1>1, <1>2
<1>5. Sent(stream[k].id, k) \in SUBSET (1 .. k - 1) /\ Sent(stream[k].id, k) # {}
  BY DEF Sent, Supported, WellFormed, IdsFit
<1>6. PpsOf(k) \in Sent(stream[k].id, k)
  BY <1>4, <1>5, LatestIsLast DEF PpsOf
<1>7. PpsOf(k) \in Numbers /\ stream[PpsOf(k)].kind = "pps" /\ stream[PpsOf(k)].id = stream[k].id
  BY <1>4, <1>6 DEF Sent
<1>8. stream[PpsOf(k)].sps \in SpsIds /\ stream[k].id \in PpsIds
  BY <1>2, <1>3, <1>7, UnitFields
<1> QED
  BY <1>2, <1>7, <1>8, FilesApart DEF FileOf

\* A slice keeps its PPS and its file when there is a unit more.
LEMMA SliceKept ==
  ASSUME TypeOK, Supported, NEW u \in Units, Process(u), NEW k \in Slices
  PROVE  /\ k \in Slices' /\ PpsOf(k)' = PpsOf(k) /\ FileOf(k)' = FileOf(k)
         /\ stream'[k] = stream[k]
         /\ IsLast(PpsOf(k), stream[k].id)' => IsLast(PpsOf(k), stream[k].id)
<1>1. /\ stream \in Seq(Units) /\ \A j \in Numbers : stream'[j] = stream[j]
      /\ Numbers' = Numbers \cup {Number} /\ Number \notin Numbers
  BY StreamGrows DEF TypeOK
<1>2. /\ k \in Numbers /\ PpsOf(k) \in Numbers /\ stream[k].id \in PpsIds
  BY PpsOfSlice
<1>3. k \in Slices' /\ stream'[k] = stream[k]
  BY <1>1, <1>2 DEF Slices
<1>4. PpsOf(k)' = PpsOf(k)
  BY <1>1, <1>2, <1>3, LastAndUsed DEF Slices
<1>5. FileOf(k)' = FileOf(k)
  BY <1>1, <1>2, <1>3, <1>4 DEF FileOf
<1>6. ASSUME IsLast(PpsOf(k), stream[k].id)'
      PROVE  IsLast(PpsOf(k), stream[k].id)
  <2>1. PICK m, id : m = PpsOf(k) /\ id = stream[k].id
    OBVIOUS
  <2>2. IsLast(m, id)' /\ id \in PpsIds /\ m # Number
    BY <1>1, <1>2, <1>3, <1>4, <1>6, <2>1 DEF IsLast, Sent
  <2>3. CASE u.kind = "pps" /\ u.id = id
    <3>1. m = Number
      BY <2>2, <2>3, LastAndUsed
    <3> QED
      BY <2>2, <3>1
  <2>4. CASE u.kind # "pps" \/ u.id # id
    <3>1. IsLast(m, id)
      BY <2>2, <2>4, LastAndUsed
    <3> QED
      BY <2>1, <3>1
  <2> QED
    BY <2>3, <2>4
<1> QED
  BY <1>3, <1>4, <1>5, <1>6

\* The PPS held back is the last of its id.
LEMMA HeldIsLast ==
  ASSUME TypeOK, LastHeldOrSaved, NEW u \in Units, Process(u),
         NEW id \in BufIds, id \in PpsIds, pps_buf[id] \in Numbers
  PROVE  /\ IsLast(pps_buf[id], id) /\ ~Saved(pps_buf[id])
         /\ stream[pps_buf[id]].kind = "pps" /\ stream[pps_buf[id]].id = id
<1>1. PICK m : IsLast(m, id)
  BY LastAndUsed DEF LastHeldOrSaved
<1>2. m \in Numbers /\ stream[m].kind = "pps" /\ stream[m].id = id
  BY <1>1, LastAndUsed
<1>3. pps_buf[id] # None
  BY FilesHoldNumbers DEF None
<1> QED
  BY <1>1, <1>2, <1>3 DEF LastHeldOrSaved

\* A file keeps what it has; what comes is the unit or the PPS held back for it.
LEMMA FileExtends ==
  ASSUME FilledInv, OpenedBySubset, NEW u \in Units, Process(u), Supported', SentOnce',
         NEW f \in Files
  PROVE  /\ Len(out[f]) \in Nat /\ Len(out'[f]) \in Nat /\ Len(out[f]) <= Len(out'[f])
         /\ DOMAIN out[f] = 1 .. Len(out[f]) /\ DOMAIN out'[f] = 1 .. Len(out'[f])
         /\ \A i \in 1 .. Len(out[f]) :
              /\ out'[f][i] = out[f][i] /\ out[f][i] \in Numbers
              /\ stream'[out[f][i]] = stream[out[f][i]]
         /\ \A i \in Len(out[f]) + 1 .. Len(out'[f]) :
              \/ out'[f][i] = Number /\ u.kind # "pps"
              \/ SavesBoth(u) /\ out'[f][i] = pps_buf[u.id]
<1>1. TypeOK /\ stream \in Seq(Units)
  BY DEF FilledInv, TypeOK
<1>2. \A k \in Numbers : stream'[k] = stream[k]
  BY <1>1, StreamGrows
<1>3. /\ out \in [Files -> Seq(Nat)] /\ Number \in Nat /\ Numbers \subseteq Nat
      /\ \A g \in Files : \A i \in DOMAIN out[g] : out[g][i] \in Numbers
  BY <1>1, FilesHoldNumbers
<1>4. out[f] \in Seq(Nat) /\ Len(out[f]) \in Nat /\ DOMAIN out[f] = 1 .. Len(out[f])
  BY <1>3
<1>5. ASSUME out'[f] = out[f]
      PROVE  /\ Len(out'[f]) = Len(out[f]) /\ DOMAIN out'[f] = 1 .. Len(out'[f])
             /\ \A i \in 1 .. Len(out[f]) : out'[f][i] = out[f][i]
             /\ Len(out[f]) + 1 .. Len(out'[f]) = {}
  BY <1>4, <1>5
<1>6. ASSUME NEW w \in Seq(Nat), Writes(f, w)
      PROVE  /\ Len(out'[f]) = Len(out[f]) + Len(w) /\ DOMAIN out'[f] = 1 .. Len(out'[f])
             /\ \A i \in 1 .. Len(out[f]) : out'[f][i] = out[f][i]
             /\ \A i \in Len(out[f]) + 1 .. Len(out'[f]) : \E j \in 1 .. Len(w) : out'[f][i] = w[j]
  <2>1. /\ Len(out'[f]) = Len(out[f]) + Len(w) /\ Len(w) \in Nat
        /\ \A i \in 1 .. Len(out[f]) : out'[f][i] = out[f][i]
        /\ \A i \in 1 .. Len(w) : out'[f][Len(out[f]) + i] = w[i]
        /\ out' \in [Files -> Seq(Nat)]
    BY <1>3, <1>6, EndOfFile
  <2>2. out'[f] \in Seq(Nat)
    BY <2>1
  <2>3. ASSUME NEW i \in Len(out[f]) + 1 .. Len(out'[f])
        PROVE  \E j \in 1 .. Len(w) : out'[f][i] = w[j]
    <3>1. i - Len(out[f]) \in 1 .. Len(w) /\ Len(out[f]) + (i - Len(out[f])) = i
      BY <1>4, <2>1
    <3> QED
      BY <2>1, <3>1
  <2> QED
    BY <2>1, <2>2, <2>3
<1>7. \A g, w : Writes(g, w) /\ g # f => out'[f] = out[f]
  BY DEF Writes
<1> DEFINE New(x) == \/ x = Number /\ u.kind # "pps"
                     \/ SavesBoth(u) /\ x = pps_buf[u.id]
<1>8. \/ out' = out
      \/ \E g, w : w \in Seq(Nat) /\ Writes(g, w) /\ \A j \in 1 .. Len(w) : New(w[j])
  <2>1. CASE HoldsBack(u)
    BY <2>1 DEF HoldsBack
  <2>2. CASE SavesUnit(u) \/ SavesSlice(u)
    <3>1. PICK g : Writes(g, <<Number>>)
      BY <2>2 DEF SavesUnit, SavesSlice
    <3>2. u.kind # "pps"
      BY <2>2 DEF SavesUnit, SavesSlice, IsSlice
    <3>3. <<Number>> \in Seq(Nat) /\ \A j \in 1 .. Len(<<Number>>) : <<Number>>[j] = Number
      BY <1>3
    <3> QED
      BY <3>1, <3>2, <3>3
  <2>3. CASE SavesBoth(u)
    <3>1. PICK held, w : held = pps_buf[u.id] /\ w = <<held, Number>>
      OBVIOUS
    <3>2. PICK g : Writes(g, w)
      BY <2>3, <3>1 DEF SavesBoth
    <3>3. u.kind # "pps" /\ held \in Nat
      BY <1>3, <2>3, <3>1 DEF SavesBoth, IsSlice
    <3>4. w \in Seq(Nat) /\ \A j \in 1 .. Len(w) : w[j] \in {held, Number}
      BY <1>3, <3>1, <3>3
    <3> QED
      BY <2>3, <3>1, <3>2, <3>3, <3>4
  <2> QED
    BY <2>1, <2>2, <2>3, UnitIsSaved
<1>9. \/ out'[f] = out[f]
      \/ \E w \in Seq(Nat) : Writes(f, w) /\ \A j \in 1 .. Len(w) : New(w[j])
  BY <1>7, <1>8
<1> HIDE DEF New
<1>10. \A i \in 1 .. Len(out[f]) :
         out[f][i] \in Numbers /\ stream'[out[f][i]] = stream[out[f][i]]
  BY <1>2, <1>3, <1>4
<1>11. /\ Len(out'[f]) \in Nat /\ Len(out[f]) <= Len(out'[f])
       /\ DOMAIN out'[f] = 1 .. Len(out'[f])
       /\ \A i \in 1 .. Len(out[f]) : out'[f][i] = out[f][i]
       /\ \A i \in Len(out[f]) + 1 .. Len(out'[f]) : New(out'[f][i])
  <2>1. CASE out'[f] = out[f]
    BY <1>4, <1>5, <2>1
  <2>2. CASE out'[f] # out[f]
    <3>1. PICK w \in Seq(Nat) : Writes(f, w) /\ \A j \in 1 .. Len(w) : New(w[j])
      BY <1>9, <2>2
    <3>2. /\ Len(out'[f]) = Len(out[f]) + Len(w) /\ Len(w) \in Nat
          /\ DOMAIN out'[f] = 1 .. Len(out'[f])
          /\ \A i \in 1 .. Len(out[f]) : out'[f][i] = out[f][i]
          /\ \A i \in Len(out[f]) + 1 .. Len(out'[f]) :
               \E j \in 1 .. Len(w) : out'[f][i] = w[j]
      BY <1>6, <3>1
    <3>3. Len(out'[f]) \in Nat /\ Len(out[f]) <= Len(out'[f])
      BY <1>4, <3>2
    <3> QED
      BY <3>1, <3>2, <3>3
  <2> QED
    BY <2>1, <2>2
<1> QED
  BY <1>4, <1>10, <1>11 DEF New

\* What a slice finds in its file stays in force: a PPS of its id that is written
\* there meanwhile would have replaced its own.
LEMMA PpsInForce ==
  ASSUME FilledInv, OpenedBySubset, UsedSaved, LastHeldOrSaved, Supported,
         NEW u \in Units, Process(u), Supported', SentOnce',
         NEW f \in Files, NEW k \in Slices, IsLast(PpsOf(k), stream[k].id),
         NEW i \in Nat, Len(out[f]) + 1 <= i, i <= Len(out'[f]) + 1,
         LastPps(out[f], stream, Len(out[f]) + 1, stream[k].id, PpsOf(k))
  PROVE  LastPps(out'[f], stream', i, stream[k].id, PpsOf(k))
<1> DEFINE n == Len(out[f])  id == stream[k].id  m == PpsOf(k)
<1>1. TypeOK
  BY DEF FilledInv
<1>2. stream'[Number] = u /\ \A j \in Numbers : stream'[j] = stream[j]
  BY <1>1, StreamGrows DEF TypeOK
<1>3. /\ n \in Nat /\ Len(out'[f]) \in Nat /\ n <= Len(out'[f])
      /\ \A j \in 1 .. n : out'[f][j] = out[f][j] /\ stream'[out[f][j]] = stream[out[f][j]]
      /\ \A j \in n + 1 .. Len(out'[f]) :
           \/ out'[f][j] = Number /\ u.kind # "pps"
           \/ SavesBoth(u) /\ out'[f][j] = pps_buf[u.id]
  BY FileExtends
<1>4. id \in PpsIds /\ m \in Numbers /\ Saved(m)
  BY <1>1, PpsOfSlice DEF UsedSaved
<1>5. ASSUME SavesBoth(u), stream'[pps_buf[u.id]].id = id PROVE FALSE
  <2>1. u.id \in PpsIds /\ u.id \in BufIds /\ pps_buf[u.id] \in Numbers
    BY <1>5 DEF SavesBoth
  <2>2. IsLast(pps_buf[u.id], u.id) /\ ~Saved(pps_buf[u.id]) /\ u.id = id
    BY <1>1, <1>2, <1>5, <2>1, HeldIsLast
  <2> QED
    BY <1>4, <2>2 DEF IsLast
<1>6. ASSUME NEW j \in n + 1 .. i - 1
      PROVE  ~(stream'[out'[f][j]].kind = "pps" /\ stream'[out'[f][j]].id = id)
  <2>1. j \in n + 1 .. Len(out'[f])
    BY <1>3
  <2> QED
    BY <1>2, <1>3, <1>5, <2>1
<1> HIDE DEF n, id, m
<1>7. /\ n + 1 \in Nat /\ n + 1 <= i /\ (n + 1) - 1 = n
      /\ LastPps(out[f], stream, n + 1, id, m)
  BY <1>3 DEF n, id, m
<1>8. LastPps(out'[f], stream', i, id, m)
  BY <1>3, <1>6, <1>7, PpsStays
<1> QED
  BY <1>8 DEF id, m

\* A slice that found its PPS finds it in the longer file.
LEMMA OldSlice ==
  ASSUME FilledInv, OpenedBySubset, UsedSaved, LastHeldOrSaved, Supported,
         Decodable, Current,
         NEW u \in Units, Process(u), Supported', SentOnce', NEW k \in Slices
  PROVE  LET f == FileOf(k) IN
         /\ \E i \in 1 .. Len(out'[f]) :
              /\ out'[f][i] = k
              /\ LastPps(out'[f], stream', i, stream[k].id, PpsOf(k))
         /\ IsLast(PpsOf(k), stream[k].id) =>
              LastPps(out'[f], stream', Len(out'[f]) + 1, stream[k].id, PpsOf(k))
<1>1. PICK f : f = FileOf(k)
  OBVIOUS
<1>2. TypeOK /\ f \in Files
  BY <1>1, PpsOfSlice DEF FilledInv
<1>3. /\ Len(out[f]) \in Nat /\ Len(out'[f]) \in Nat /\ Len(out[f]) <= Len(out'[f])
      /\ \A j \in 1 .. Len(out[f]) :
           out'[f][j] = out[f][j] /\ stream'[out[f][j]] = stream[out[f][j]]
  BY <1>2, FileExtends
<1>4. PICK i \in 1 .. Len(out[f]) :
        out[f][i] = k /\ LastPps(out[f], stream, i, stream[k].id, PpsOf(k))
  BY <1>1 DEF Decodable
<1>5. LastPps(out'[f], stream', i, stream[k].id, PpsOf(k))
  <2>1. /\ i \in Nat /\ i <= i
        /\ \A j \in i .. i - 1 :
             ~(stream'[out'[f][j]].kind = "pps" /\ stream'[out'[f][j]].id = stream[k].id)
        /\ \A j \in 1 .. i - 1 : j \in 1 .. Len(out[f])
    BY <1>3
  <2>2. \A j \in 1 .. i - 1 : out'[f][j] = out[f][j] /\ stream'[out[f][j]] = stream[out[f][j]]
    BY <1>3, <2>1
  <2> DEFINE id == stream[k].id  m == PpsOf(k)
  <2>3. /\ LastPps(out[f], stream, i, id, m)
        /\ \A j \in i .. i - 1 :
             ~(stream'[out'[f][j]].kind = "pps" /\ stream'[out'[f][j]].id = id)
    BY <1>4, <2>1
  <2> HIDE DEF id, m
  <2>4. LastPps(out'[f], stream', i, id, m)
    BY <2>1, <2>2, <2>3, PpsStays
  <2> QED
    BY <2>4 DEF id, m
<1>6. i \in 1 .. Len(out'[f]) /\ out'[f][i] = k
  BY <1>3, <1>4
<1>7. ASSUME IsLast(PpsOf(k), stream[k].id)
      PROVE  LastPps(out'[f], stream', Len(out'[f]) + 1, stream[k].id, PpsOf(k))
  <2>1. LastPps(out[f], stream, Len(out[f]) + 1, stream[k].id, PpsOf(k))
    BY <1>1, <1>7 DEF Current
  <2>2. /\ Len(out'[f]) + 1 \in Nat /\ Len(out[f]) + 1 <= Len(out'[f]) + 1
        /\ Len(out'[f]) + 1 <= Len(out'[f]) + 1
    BY <1>3
  <2> QED
    BY <1>2, <1>7, <2>1, <2>2, PpsInForce
<1> QED
  BY <1>1, <1>5, <1>6, <1>7

\* The slice now handled finds its PPS: the one held back, which is put in front
\* of it, or one that another slice of its layer had put there.
LEMMA NewSlice ==
  ASSUME OnceInv, Supported, SentOnce, Current, PpsUsed,
         NEW u \in Units, Process(u), Supported', SentOnce', OneLayerEach', IsSlice(u),
         NEW k, k = Number
  PROVE  LET f == FileOf(k)'  m == PpsOf(k)' IN
         /\ IsLast(m, u.id) /\ k \in Slices' /\ stream'[k].id = u.id
         /\ SavesBoth(u) => m = pps_buf[u.id]
         /\ \E i \in 1 .. Len(out'[f]) :
              /\ out'[f][i] = k
              /\ LastPps(out'[f], stream', i, u.id, m)
         /\ LastPps(out'[f], stream', Len(out'[f]) + 1, u.id, m)
<1>1. /\ TypeOK /\ FilledInv /\ OpenedBySubset /\ UsedSaved /\ LastHeldOrSaved
      /\ pc = "running" /\ EntriesFilled
  BY DEF OnceInv, FilledInv
<1>2. /\ stream'[Number] = u /\ \A j \in Numbers : stream'[j] = stream[j]
      /\ Numbers' = Numbers \cup {Number} /\ Number \notin Numbers
      /\ stream \in Seq(Units) /\ Number \in Nat /\ 1 .. Number = Numbers'
  BY <1>1, StreamGrows DEF TypeOK
<1>3. u.id \in PpsIds /\ Number \in Slices' /\ Number \in 1 .. Number
  <2>1. u.id \in PpsIds
    BY UnitFields DEF IsSlice
  <2>2. Number \in Slices'
    BY <1>2 DEF IsSlice, Slices
  <2> QED
    BY <1>2, <2>1, <2>2
<1>4. PICK m : m = PpsOf(k)'
  OBVIOUS
<1>5. IsLast(m, u.id) /\ m \in Numbers /\ stream[m].kind = "pps" /\ stream[m].id = u.id
  <2>1. Sent(u.id, Number) # {}
    BY <1>2, SupportedBefore DEF IsSlice
  <2>2. m = Latest(Sent(u.id, Number))
    BY <1>2, <1>3, <1>4, PpsOfKept
  <2> QED
    BY <1>1, <1>3, <2>1, <2>2, LastAndUsed DEF IsLast
<1>6. PICK f : f = FileOf(k)'
  OBVIOUS
<1>7. f = Target(u) /\ f \in Files
  <2>1. pps_table[u.id] = stream[m].sps
    BY <1>1, <1>3, <1>5 DEF EntriesFilled, IsLast
  <2>2. stream'[m].sps = stream[m].sps
    BY <1>2, <1>5
  <2>3. f = IF u.kind = "slice" THEN Base ELSE stream'[m].sps
    BY <1>2, <1>4, <1>6 DEF FileOf
  <2> QED
    BY <1>1, <2>1, <2>2, <2>3, UnitIsSaved DEF Target
<1>8. SavesSlice(u) \/ SavesBoth(u)
  BY <1>1, UnitIsSaved DEF HoldsBack, SavesUnit, IsSlice
<1> DEFINE n == Len(out[f])
<1>9. out \in [Files -> Seq(Nat)] /\ Numbers \subseteq Nat \ {0}
  BY <1>1, FilesHoldNumbers
<1>10. n \in Nat
  BY <1>7, <1>9
<1>11. ~(stream'[Number].kind = "pps" /\ stream'[Number].id = u.id)
  BY <1>2 DEF IsSlice
<1>12. ASSUME NEW i \in Nat, Len(out'[f]) = i, out'[f][i] = Number,
              LastPps(out'[f], stream', i, u.id, m)
       PROVE  LastPps(out'[f], stream', Len(out'[f]) + 1, u.id, m)
  <2>1. /\ i <= i + 1 /\ i + 1 \in Nat
        /\ \A j \in i .. (i + 1) - 1 : ~(stream'[out'[f][j]].kind = "pps" /\ stream'[out'[f][j]].id = u.id)
    <3>1. \A j \in i .. (i + 1) - 1 : j = i
      OBVIOUS
    <3> QED
      BY <1>11, <1>12, <3>1
  <2>2. LastPps(out'[f], stream', i + 1, u.id, m)
    BY <1>12, <2>1, PpsStays
  <2> QED
    BY <1>12, <2>2
<1>13. CASE SavesBoth(u)
  <2>1. PICK held, w : held = pps_buf[u.id] /\ w = <<held, Number>>
    OBVIOUS
  <2>2. Writes(f, w) /\ held \in Numbers /\ u.id \in BufIds
    BY <1>7, <1>13, <2>1 DEF SavesBoth
  <2>3. held = m
    BY <1>1, <1>3, <1>5, <2>1, <2>2, HeldIsLast DEF IsLast
  <2>4. w \in Seq(Nat) /\ Len(w) = 2 /\ w[1] = m /\ w[2] = Number
    BY <1>2, <1>9, <2>1, <2>2, <2>3
  <2>5. /\ Len(out'[f]) = n + 2
        /\ \A j \in 1 .. Len(w) : out'[f][n + j] = w[j]
    <3>1. Len(out'[f]) = n + Len(w) /\ \A j \in 1 .. Len(w) : out'[f][n + j] = w[j]
      BY <1>7, <1>9, <2>2, <2>4, EndOfFile
    <3> QED
      BY <2>4, <3>1
  <2>6. out'[f][n + 1] = m /\ out'[f][n + 2] = Number
    <3>1. 1 \in 1 .. Len(w) /\ 2 \in 1 .. Len(w)
      BY <2>4
    <3> QED
      BY <2>4, <2>5, <3>1
  <2>7. stream'[m].kind = "pps" /\ stream'[m].id = u.id
    BY <1>2, <1>5
  <2>8. n + 1 \in Nat \ {0} /\ (n + 1) + 1 = n + 2 /\ n + 2 \in Nat /\ n + 2 \in 1 .. n + 2
    BY <1>10
  <2>9. LastPps(out'[f], stream', n + 2, u.id, m)
    BY <2>6, <2>7, <2>8, PpsWritten
  <2>10. LastPps(out'[f], stream', Len(out'[f]) + 1, u.id, m)
    BY <1>12, <2>5, <2>6, <2>8, <2>9
  <2> QED
    BY <1>3, <1>2, <1>4, <1>5, <1>6, <2>1, <2>3, <2>5, <2>6, <2>8, <2>9, <2>10
<1>14. CASE SavesSlice(u)
  <2>1. Writes(f, <<Number>>) /\ u.id \in BufIds /\ pps_buf[u.id] = None
    BY <1>7, <1>14 DEF SavesSlice
  <2>2. <<Number>> \in Seq(Nat) /\ Len(<<Number>>) = 1 /\ <<Number>>[1] = Number
    BY <1>2
  <2>3. /\ Len(out'[f]) = n + 1
        /\ \A j \in 1 .. n : out'[f][j] = out[f][j]
        /\ \A j \in 1 .. Len(<<Number>>) : out'[f][n + j] = <<Number>>[j]
    BY <1>7, <1>9, <2>1, <2>2, EndOfFile
  <2>4. out'[f][n + 1] = Number
    <3>1. 1 \in 1 .. Len(<<Number>>)
      BY <2>2
    <3> QED
      BY <2>2, <2>3, <3>1
  <2>5. Saved(m)
    BY <1>1, <1>3, <1>5, <1>9, <2>1 DEF LastHeldOrSaved, None
  <2>6. PICK l \in Slices : PpsOf(l) = m
    BY <1>5, <2>5 DEF PpsUsed
  <2>7. l \in Slices' /\ PpsOf(l)' = m /\ FileOf(l)' = FileOf(l) /\ stream[l].id = u.id
    BY <1>1, <1>5, <2>6, SliceKept, PpsOfSlice
  <2>8. FileOf(l) = f
    BY <1>3, <1>4, <1>6, <2>7 DEF OneLayerEach
  <2>9. LastPps(out[f], stream, n + 1, u.id, m)
    BY <1>5, <2>6, <2>7, <2>8 DEF Current
  <2>10. n + 1 \in Nat /\ n + 1 \in 1 .. n + 1
    BY <1>10
  <2>11. LastPps(out'[f], stream', n + 1, u.id, m)
    <3>1. /\ n + 1 <= n + 1 /\ Len(out'[f]) + 1 \in Nat
          /\ n + 1 <= Len(out'[f]) + 1
      BY <1>10, <2>3
    <3>2. LastPps(out'[f], stream', n + 1, stream[l].id, PpsOf(l))
      BY <1>1, <1>5, <1>7, <2>6, <2>7, <2>9, <2>10, <3>1, PpsInForce
    <3> QED
      BY <2>6, <2>7, <3>2
  <2>12. LastPps(out'[f], stream', Len(out'[f]) + 1, u.id, m)
    BY <1>12, <2>3, <2>4, <2>10, <2>11
  <2>13. ~SavesBoth(u)
    BY <1>9, <2>1 DEF SavesBoth, None
  <2> QED
    BY <1>2, <1>3, <1>4, <1>5, <1>6, <2>3, <2>4, <2>10, <2>11, <2>12, <2>13
<1> QED
  BY <1>8, <1>13, <1>14

\* A PPS is written for a slice: the one handled, when it comes out of pps_buf.
LEMMA UsedStep ==
  ASSUME OnceInv, Supported, SentOnce, Current, PpsUsed,
         NEW u \in Units, Process(u), Supported', SentOnce', OneLayerEach'
  PROVE  PpsUsed'
<1>1. /\ TypeOK /\ FilledInv /\ OpenedBySubset
  BY DEF OnceInv, FilledInv
<1>2. /\ stream'[Number] = u /\ \A j \in Numbers : stream'[j] = stream[j]
      /\ Numbers' = Numbers \cup {Number} /\ Number \notin Numbers
  BY <1>1, StreamGrows DEF TypeOK
<1>3. SUFFICES ASSUME NEW m \in Numbers', stream'[m].kind = "pps", Saved(m)'
               PROVE  \E k \in Slices' : PpsOf(k)' = m
  BY DEF PpsUsed
<1>4. PICK f \in Files : \E i \in DOMAIN out'[f] : out'[f][i] = m
  BY <1>3 DEF Saved
<1>5. /\ Len(out[f]) \in Nat /\ Len(out'[f]) \in Nat
      /\ DOMAIN out[f] = 1 .. Len(out[f]) /\ DOMAIN out'[f] = 1 .. Len(out'[f])
      /\ \A i \in 1 .. Len(out[f]) : out'[f][i] = out[f][i] /\ out[f][i] \in Numbers
      /\ \A i \in Len(out[f]) + 1 .. Len(out'[f]) :
           \/ out'[f][i] = Number /\ u.kind # "pps"
           \/ SavesBoth(u) /\ out'[f][i] = pps_buf[u.id]
  BY <1>1, FileExtends
<1>6. PICK i \in 1 .. Len(out'[f]) : out'[f][i] = m
  BY <1>4, <1>5
<1>7. CASE i \in 1 .. Len(out[f])
  <2>1. Saved(m) /\ m \in Numbers /\ stream[m].kind = "pps"
    BY <1>2, <1>3, <1>5, <1>6, <1>7 DEF Saved
  <2>2. PICK k \in Slices : PpsOf(k) = m
    BY <2>1 DEF PpsUsed
  <2> QED
    BY <1>1, <2>2, SliceKept
<1>8. CASE i \in Len(out[f]) + 1 .. Len(out'[f])
  <2>1. SavesBoth(u) /\ m = pps_buf[u.id]
    BY <1>2, <1>3, <1>5, <1>6, <1>8
  <2>2. PICK k : k = Number
    OBVIOUS
  <2>3. IsSlice(u)
    BY <2>1 DEF SavesBoth
  <2> QED
    BY <2>1, <2>2, <2>3, NewSlice
<1>9. i \in 1 .. Len(out[f]) \/ i \in Len(out[f]) + 1 .. Len(out'[f])
  BY <1>5, <1>6
<1> QED
  BY <1>7, <1>8, <1>9

LEMMA LayersStep ==
  ASSUME OnceInv, Supported, SentOnce, Decodable, Current, PpsUsed,
         NEW u \in Units, Process(u), Supported', SentOnce', OneLayerEach'
  PROVE  Decodable' /\ Current' /\ PpsUsed'
<1>1. /\ TypeOK /\ FilledInv /\ OpenedBySubset /\ UsedSaved /\ LastHeldOrSaved
  BY DEF OnceInv, FilledInv
<1>2. ASSUME NEW k \in Slices'
      PROVE  LET f == FileOf(k)' IN
             /\ \E i \in 1 .. Len(out'[f]) :
                  /\ out'[f][i] = k
                  /\ LastPps(out'[f], stream', i, stream'[k].id, PpsOf(k)')
             /\ IsLast(PpsOf(k), stream[k].id)' =>
                  LastPps(out'[f], stream', Len(out'[f]) + 1, stream'[k].id, PpsOf(k)')
  <2>1. CASE k \in Slices
    <3>1. /\ PpsOf(k)' = PpsOf(k) /\ FileOf(k)' = FileOf(k) /\ stream'[k] = stream[k]
          /\ IsLast(PpsOf(k), stream[k].id)' => IsLast(PpsOf(k), stream[k].id)
      BY <1>1, <2>1, SliceKept
    <3> QED
      BY <1>1, <2>1, <3>1, OldSlice
  <2>2. CASE k = Number /\ IsSlice(u)
    <3>1. stream'[k].id = u.id
      BY <2>2, NewSlice
    <3> QED
      BY <2>2, <3>1, NewSlice
  <2> QED
    BY <1>1, <2>1, <2>2, LastAndUsed
<1>3. Decodable'
  BY <1>2 DEF Decodable
<1>4. Current'
  BY <1>2 DEF Current
<1> QED
  BY <1>3, <1>4, UsedStep

\* A PPS used by one layer was used by one layer before the last unit.
LEMMA OneLayerBefore ==
  ASSUME TypeOK, Supported, NEW u \in Units, Process(u), OneLayerEach'
  PROVE  OneLayerEach
<1> SUFFICES ASSUME NEW k \in Slices, NEW l \in Slices, PpsOf(k) = PpsOf(l)
             PROVE  FileOf(k) = FileOf(l)
  BY DEF OneLayerEach
<1>1. /\ k \in Slices' /\ PpsOf(k)' = PpsOf(k) /\ FileOf(k)' = FileOf(k)
      /\ l \in Slices' /\ PpsOf(l)' = PpsOf(l) /\ FileOf(l)' = FileOf(l)
  BY SliceKept
<1> QED
  BY <1>1 DEF OneLayerEach

LEMMA NextLayersInv == LayersInv /\ [Next]_vars => LayersInv'
<1>1. ASSUME LayersInv, UNCHANGED vars PROVE LayersInv'
  <2>1. OnceInv'
    BY <1>1, NextOnceInv DEF LayersInv
  <2>2. /\ Numbers' = Numbers /\ Slices' = Slices /\ Number' = Number
        /\ stream' = stream /\ out' = out
    BY <1>1 DEF vars, Numbers, Slices, Number
  <2>3. \A id, k : Sent(id, k)' = Sent(id, k)
    BY <2>2 DEF Sent
  <2>4. \A k : PpsOf(k)' = PpsOf(k) /\ Saved(k)' = Saved(k)
    BY <2>2, <2>3 DEF PpsOf, Saved
  <2>5. \A k : FileOf(k)' = FileOf(k)
    BY <2>2, <2>4 DEF FileOf
  <2>6. \A m, id : IsLast(m, id)' = IsLast(m, id)
    BY <2>2, <2>3 DEF IsLast, Sent
  <2>7. (Supported /\ SentOnce)' = (Supported /\ SentOnce)
    BY <2>2, <2>3, <2>4 DEF Supported, WellFormed, IdsFit, SentOnce
  <2>8. OneLayerEach' => OneLayerEach
    BY <2>2, <2>4, <2>5 DEF OneLayerEach
  <2>9. Decodable => Decodable'
    BY <2>2, <2>4, <2>5 DEF Decodable
  <2>10. Current => Current'
    BY <2>2, <2>4, <2>5, <2>6 DEF Current
  <2>11. PpsUsed => PpsUsed'
    BY <2>2, <2>4 DEF PpsUsed
  <2> QED
    BY <1>1, <2>1, <2>7, <2>8, <2>9, <2>10, <2>11 DEF LayersInv
<1>2. ASSUME LayersInv, NEW u \in Units, Process(u) PROVE LayersInv'
  <2>1. OnceInv /\ OnceInv' /\ TypeOK /\ stream \in Seq(Units)
    BY <1>2, NextOnceInv DEF LayersInv, OnceInv, FilledInv, TypeOK, Next
  <2>2. ASSUME Supported', SentOnce', OneLayerEach'
        PROVE  Decodable' /\ Current' /\ PpsUsed'
    <3>1. Supported /\ SentOnce
      BY <1>2, <2>1, <2>2, SupportedBefore, SentOnceBefore
    <3>2. OneLayerEach
      BY <1>2, <2>1, <2>2, <3>1, OneLayerBefore
    <3> QED
      BY <1>2, <2>1, <2>2, <3>1, <3>2, LayersStep DEF LayersInv
  <2> QED
    BY <2>1, <2>2 DEF LayersInv
<1> QED
  BY <1>1, <1>2 DEF Next

\* Each slice of a well-formed stream is in the file of its layer, and the last
\* PPS of its id in front of it there is the one it was sent with, however many
\* PPSs were held back and replaced meanwhile.
THEOREM LayersAreDecodable == Spec => []LayersDecodable
<1>1. Init => LayersInv
  <2> SUFFICES ASSUME Init PROVE LayersInv
    OBVIOUS
  <2>1. OnceInv
    BY InitOnceInv
  <2>2. Numbers = {} /\ Slices = {}
    BY DEF Init, Numbers, Slices
  <2> QED
    BY <2>1, <2>2 DEF LayersInv, Decodable, Current, PpsUsed
<1>2. LayersInv => LayersDecodable
  <2> SUFFICES ASSUME LayersInv, Supported, SentOnce, OneLayerEach, NEW k \in Slices
               PROVE  \E i \in 1 .. Len(out[FileOf(k)]) :
                        LET file   == out[FileOf(k)]
                            before == {j \in 1 .. i - 1 : stream[file[j]].kind = "pps"
                                                          /\ stream[file[j]].id = stream[k].id}
                        IN  /\ file[i] = k
                            /\ before # {}
                            /\ \A j \in before :
                                 (\A l \in before : l <= j) => file[j] = PpsOf(k)
    BY DEF LayersDecodable
  <2>1. PICK f : f = FileOf(k)
    OBVIOUS
  <2>2. PICK i \in 1 .. Len(out[f]) :
          out[f][i] = k /\ LastPps(out[f], stream, i, stream[k].id, PpsOf(k))
    BY <2>1 DEF LayersInv, Decodable
  <2> DEFINE before == PpsBefore(out[f], stream, i, stream[k].id)
  <2>3. PICK j \in before : out[f][j] = PpsOf(k) /\ \A l \in before : l <= j
    BY <2>2 DEF LastPps
  <2>4. before \subseteq Int
    BY DEF PpsBefore
  <2>5. \A x \in before : (\A l \in before : l <= x) => x = j
    <3> HIDE DEF before
    <3> QED
      BY <2>3, <2>4
  <2> QED
    BY <2>1, <2>2, <2>3, <2>5 DEF PpsBefore
<1> QED
  BY <1>1, <1>2, NextLayersInv, PTL DEF Spec
=============================================================================
