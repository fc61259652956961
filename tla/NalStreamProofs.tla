-------------------------- MODULE NalStreamProofs --------------------------
(***************************************************************************)
(* Proofs about NalStream, for any files and any size of the buffer: the   *)
(* loop keeps its place in the file, implements NalFraming, and loses      *)
(* nothing.                                                                *)
(*                                                                         *)
(* Behind them is what find_nal_unit finds in the buffer: the first unit   *)
(* of the file from there on, or nothing that ends four bytes before the   *)
(* end of the buffer.                                                      *)
(***************************************************************************)
EXTENDS NalStream, SequenceTheorems, WellFoundedInduction, TLAPS

----------------------------------------------------------------------------
(***************************************************************************)
(* Units.                                                                  *)
(***************************************************************************)

\* A set of natural numbers has a least one.
LEMMA LeastNat ==
  ASSUME NEW T \in SUBSET Nat, T # {}
  PROVE  \E x \in T : \A y \in T : x <= y
<1> DEFINE R == OpToRel(<, Nat)
<1>1. IsWellFoundedOn(R, Nat)
  BY NatLessThanWellFounded
<1>2. PICK x \in T : \A y \in T : <<y, x>> \notin R
  <2> HIDE DEF R
  <2> QED
    BY <1>1, WFMin
<1>3. \A y \in T : ~(y < x)
  BY <1>2 DEF OpToRel
<1> QED
  BY <1>3

\* A set of numbers from n on has a least one, and one up to n a greatest.
LEMMA MinIsLeast ==
  ASSUME NEW n \in Int, NEW S \in SUBSET Int, S # {}, \A x \in S : n <= x
  PROVE  Min(S) \in S /\ \A x \in S : Min(S) <= x
<1> DEFINE T == {x - n : x \in S}
<1>1. T \in SUBSET Nat /\ T # {}
  <2>1. \A x \in S : x - n \in Nat
    OBVIOUS
  <2> QED
    BY <2>1
<1>2. PICK t \in T : \A y \in T : t <= y
  <2> HIDE DEF T
  <2> QED
    BY <1>1, LeastNat
<1>3. PICK m \in S : t = m - n
  OBVIOUS
<1>4. \A x \in S : x - n \in T
  OBVIOUS
<1> HIDE DEF T
<1>5. \A x \in S : m <= x
  BY <1>2, <1>3, <1>4
<1> QED
  BY <1>5, Zenon DEF Min

LEMMA MaxIsGreatest ==
  ASSUME NEW n \in Int, NEW S \in SUBSET Int, S # {}, \A x \in S : x <= n
  PROVE  Max(S) \in S /\ \A x \in S : x <= Max(S)
<1> DEFINE T == {n - x : x \in S}
<1>1. T \in SUBSET Nat /\ T # {}
  <2>1. \A x \in S : n - x \in Nat
    OBVIOUS
  <2> QED
    BY <2>1
<1>2. PICK t \in T : \A y \in T : t <= y
  <2> HIDE DEF T
  <2> QED
    BY <1>1, LeastNat
<1>3. PICK m \in S : t = n - m
  OBVIOUS
<1>4. \A x \in S : n - x \in T
  OBVIOUS
<1> HIDE DEF T
<1>5. \A x \in S : m >= x
  BY <1>2, <1>3, <1>4
<1>6. Max(S) \in S /\ \A x \in S : Max(S) >= x
  BY <1>5, Zenon DEF Max
<1> QED
  BY <1>6

\* What is among the numbers, and below none of them, is their least.
LEMMA LeastIsMin ==
  ASSUME NEW S \in SUBSET Int, NEW m \in S, \A x \in S : m <= x
  PROVE  Min(S) = m
<1>1. Min(S) \in S /\ \A x \in S : Min(S) <= x
  BY MinIsLeast
<1>2. \A x, y \in Int : x <= y /\ y <= x => x = y
  OBVIOUS
<1>3. Min(S) \in Int /\ m \in Int /\ Min(S) <= m /\ m <= Min(S)
  BY <1>1
<1> QED
  BY <1>2, <1>3, Zenon

\* A unit that an end code follows ends at the first.
LEMMA EndsFirst ==
  ASSUME NEW s \in Seq(0 .. 255), NEW n \in Nat, Ends(s, n) # {}
  PROVE  Min(Ends(s, n) \cup {Len(s)}) = Min(Ends(s, n))
<1>1. /\ Len(s) \in Nat /\ Ends(s, n) \in SUBSET Int
      /\ \A e \in Ends(s, n) : n <= e /\ e <= Len(s)
      /\ n \in Int
  BY DEF Ends
<1>2. Min(Ends(s, n)) \in Ends(s, n) /\ \A e \in Ends(s, n) : Min(Ends(s, n)) <= e
  BY <1>1, MinIsLeast
<1>3. /\ Ends(s, n) \cup {Len(s)} \in SUBSET Int
      /\ Min(Ends(s, n)) \in Ends(s, n) \cup {Len(s)}
      /\ \A e \in Ends(s, n) \cup {Len(s)} : Min(Ends(s, n)) <= e
  BY <1>1, <1>2
<1> QED
  BY <1>3, LeastIsMin

LEMMA EndedAre ==
  ASSUME NEW s \in Seq(0 .. 255), NEW u \in Ended(s)
  PROVE  \E k \in 0 .. Len(s) - 3 :
           /\ StartCodeAt(s, k) /\ Ends(s, k + 3) # {}
           /\ u = [start |-> k + 3, end |-> Min(Ends(s, k + 3))]
<1>1. PICK k \in 0 .. Len(s) - 3 :
        /\ StartCodeAt(s, k)
        /\ u = [start |-> k + 3, end |-> Min(Ends(s, k + 3) \cup {Len(s)})]
  BY DEF Ended, Units
<1>2. Ends(s, k + 3) # {} /\ k + 3 \in Nat
  BY <1>1 DEF Ended
<1> QED
  BY <1>1, <1>2, EndsFirst

\* A unit that ends before the stream does has an end code after it.
LEMMA EndedBefore ==
  ASSUME NEW s \in Seq(0 .. 255), NEW u \in Units(s), u.end + 4 <= Len(s)
  PROVE  u \in Ended(s)
<1>1. PICK k \in 0 .. Len(s) - 3 :
        u = [start |-> k + 3, end |-> Min(Ends(s, k + 3) \cup {Len(s)})]
  BY DEF Units
<1>2. ASSUME Ends(s, k + 3) = {} PROVE FALSE
  <2>1. Len(s) \in Int /\ Ends(s, k + 3) \cup {Len(s)} = {Len(s)}
    BY <1>2
  <2>2. \A x \in Int : Min({x}) = x
    <3> SUFFICES ASSUME NEW x \in Int PROVE Min({x}) = x
      OBVIOUS
    <3>1. {x} \in SUBSET Int /\ x \in {x} /\ \A y \in {x} : x <= y
      OBVIOUS
    <3> QED
      BY <3>1, LeastIsMin
  <2>3. u.end = Len(s)
    BY <1>1, <2>1, <2>2, Zenon
  <2> QED
    BY <2>1, <2>3
<1>3. u.start = k + 3
  BY <1>1
<1> QED
  BY <1>2, <1>3 DEF Ended

\* It begins after a start code.
LEMMA UnitsAre ==
  ASSUME NEW s \in Seq(0 .. 255), NEW u \in Ended(s)
  PROVE  /\ u.start \in Nat /\ u.end \in Nat /\ u.start - 3 \in Nat
         /\ StartCodeAt(s, u.start - 3)
         /\ u.end \in Ends(s, u.start) /\ \A e \in Ends(s, u.start) : u.end <= e
         /\ u.start <= u.end /\ u.end + 3 <= Len(s)
         /\ u = [start |-> u.start, end |-> u.end]
<1>1. PICK k \in 0 .. Len(s) - 3 :
        /\ StartCodeAt(s, k) /\ Ends(s, k + 3) # {}
        /\ u = [start |-> k + 3, end |-> Min(Ends(s, k + 3))]
  BY EndedAre
<1>2. /\ k \in Nat /\ k + 3 \in Int /\ Len(s) \in Nat /\ (k + 3) - 3 = k
      /\ Ends(s, k + 3) \in SUBSET Int
      /\ \A e \in Ends(s, k + 3) : k + 3 <= e /\ e <= Len(s) - 3
  BY DEF Ends
<1>3. /\ Min(Ends(s, k + 3)) \in Ends(s, k + 3)
      /\ \A e \in Ends(s, k + 3) : Min(Ends(s, k + 3)) <= e
  BY <1>1, <1>2, MinIsLeast
<1> QED
  BY <1>1, <1>2, <1>3

LEMMA UnitAt ==
  ASSUME NEW s \in Seq(0 .. 255), NEW k \in 0 .. Len(s) - 3, StartCodeAt(s, k),
         NEW e \in Ends(s, k + 3), \A x \in Ends(s, k + 3) : e <= x
  PROVE  [start |-> k + 3, end |-> e] \in Ended(s)
<1>1. Ends(s, k + 3) \in SUBSET Int
  BY DEF Ends
<1>2. Min(Ends(s, k + 3)) = e
  BY <1>1, LeastIsMin
<1>3. Min(Ends(s, k + 3) \cup {Len(s)}) = e
  BY <1>2, EndsFirst
<1>4. [start |-> k + 3, end |-> e] \in Units(s)
  BY <1>3 DEF Units
<1>5. [start |-> k + 3, end |-> e].start = k + 3
  OBVIOUS
<1> QED
  BY <1>4, <1>5 DEF Ended

\* Start codes do not overlap: units are apart.
LEMMA UnitsApart ==
  ASSUME NEW s \in Seq(0 .. 255), NEW u \in Ended(s), NEW v \in Ended(s)
  PROVE  /\ u.start < v.start => u.end <= v.start - 3
         /\ u.start = v.start => u = v
<1>1. ASSUME u.start < v.start PROVE u.end <= v.start - 3
  <2> DEFINE k == u.start - 3  l == v.start - 3
  <2>1. /\ k \in Nat /\ l \in Nat /\ k < l /\ l <= Len(s) - 3
        /\ StartCodeAt(s, k) /\ StartCodeAt(s, l)
        /\ u.start = k + 3 /\ \A e \in Ends(s, k + 3) : u.end <= e
    BY <1>1, UnitsAre
  <2> HIDE DEF k, l
  <2>2. l # k + 1 /\ l # k + 2
    BY <2>1 DEF StartCodeAt
  <2>3. l \in k + 3 .. Len(s) - 3
    BY <2>1, <2>2
  <2>4. l \in Ends(s, k + 3)
    BY <2>1, <2>3 DEF Ends, EndCodeAt, StartCodeAt
  <2>5. u.end <= l
    BY <2>1, <2>4
  <2> QED
    BY <2>5 DEF l
<1>2. ASSUME u.start = v.start PROVE u = v
  <2>1. /\ u.end \in Nat /\ v.end \in Nat /\ u.end <= v.end /\ v.end <= u.end
        /\ u = [start |-> u.start, end |-> u.end]
        /\ v = [start |-> v.start, end |-> v.end]
    BY <1>2, UnitsAre
  <2> QED
    BY <1>2, <2>1
<1> QED
  BY <1>1, <1>2

LEMMA UnitsOrdered ==
  ASSUME NEW s \in Seq(0 .. 255), NEW u \in Ended(s), NEW v \in Ended(s)
  PROVE  /\ u.start <= v.start => u.end <= v.end
         /\ u.start < u.end /\ u.end <= v.start => u.end <= v.start - 3
         /\ v.start < u.end => v.end <= u.end
<1>1. /\ u.start \in Nat /\ u.end \in Nat /\ v.start \in Nat /\ v.end \in Nat
      /\ u.start <= u.end /\ v.start <= v.end
  BY UnitsAre
<1> QED
  BY <1>1, UnitsApart

\* A unit after the end of another, or anywhere, has its start code there too.
LEMMA CodeAfter ==
  ASSUME NEW s \in Seq(0 .. 255), NEW v \in Ended(s), NEW from, v.start >= from,
         from = 0 \/ \E u \in Ended(s) : u.start < u.end /\ from = u.end
  PROVE  v.start - 3 >= from
BY UnitsAre, UnitsOrdered

----------------------------------------------------------------------------
(***************************************************************************)
(* find_nal_unit.                                                          *)
(***************************************************************************)

\* The first bytes of the memory are those of s from offset "from" on.
Holds(mem, size, s, from) ==
  /\ size \in Nat /\ from \in Nat /\ from + size <= Len(s)
  /\ \A k \in 0 .. size - 1 : mem[k + 1] = s[from + k + 1]

\* A code inside the memory is one of s.
LEMMA SameCodes ==
  ASSUME NEW s \in Seq(0 .. 255), NEW mem, NEW size, NEW from, Holds(mem, size, s, from),
         NEW k \in 0 .. size - 3
  PROVE  /\ StartCodeAt(mem, k) <=> StartCodeAt(s, from + k)
         /\ EndCodeAt(mem, k) <=> EndCodeAt(s, from + k)
<1>1. /\ mem[k + 1] = s[from + k + 1] /\ mem[k + 2] = s[from + k + 2]
      /\ mem[k + 3] = s[from + k + 3]
  <2>1. k \in 0 .. size - 1 /\ k + 1 \in 0 .. size - 1 /\ k + 2 \in 0 .. size - 1
    BY DEF Holds
  <2>2. /\ (k + 1) + 1 = k + 2 /\ (k + 2) + 1 = k + 3
        /\ from + (k + 1) + 1 = from + k + 2 /\ from + (k + 2) + 1 = from + k + 3
    BY DEF Holds
  <2> QED
    BY <2>1, <2>2, SMTT(30) DEF Holds
<1> QED
  BY <1>1 DEF StartCodeAt, EndCodeAt

\* The two searches of find_nal_unit.
LEMMA Search ==
  ASSUME NEW mem, NEW size \in Nat, NEW f, f = FindNalUnit(mem, size)
  PROVE  /\ StartCandidates(mem, size) = {} => f.ret = 0
         /\ StartCandidates(mem, size) # {} =>
              \E k \in Nat, start \in Nat :
                /\ k \in StartCandidates(mem, size)
                /\ \A x \in StartCandidates(mem, size) : k <= x
                /\ start = IF StartCodeAt(mem, k) THEN k + 3 ELSE k + 4
                /\ EndCandidates(mem, size, start) = {} => f.ret = -1
                /\ EndCandidates(mem, size, start) # {} =>
                     \E e \in EndCandidates(mem, size, start) :
                       /\ \A x \in EndCandidates(mem, size, start) : e <= x
                       /\ f.ret = e - start /\ f.start = start /\ f.end = e
<1> DEFINE starts == StartCandidates(mem, size)  k == Min(starts)
           start  == IF StartCodeAt(mem, k) THEN k + 3 ELSE k + 4
           ends   == EndCandidates(mem, size, start)
<1>1. starts \in SUBSET Int /\ \A x \in starts : 0 <= x
  BY DEF StartCandidates
<1>2. starts = {} => f.ret = 0
  BY DEF FindNalUnit, Found
<1>3. ASSUME starts # {}
      PROVE  /\ k \in starts /\ k \in Nat /\ \A x \in starts : k <= x
             /\ start \in Nat
             /\ ends = {} => f.ret = -1
             /\ ends # {} =>
                  /\ Min(ends) \in ends /\ \A x \in ends : Min(ends) <= x
                  /\ f.ret = Min(ends) - start /\ f.start = start /\ f.end = Min(ends)
  <2>1. k \in starts /\ k \in Nat /\ \A x \in starts : k <= x
    <3> HIDE DEF starts
    <3>1. k \in starts /\ \A x \in starts : k <= x
      BY <1>1, <1>3, MinIsLeast
    <3>2. Min(starts) \in Int /\ 0 <= Min(starts)
      BY <1>1, <3>1, Zenon
    <3>3. Min(starts) \in Nat
      BY <3>2
    <3> QED
      BY <3>1, <3>3
  <2>2. start \in Nat
    <3> HIDE DEF k
    <3> QED
      BY <2>1
  <2>3. ends \in SUBSET Int /\ \A x \in ends : start <= x
    <3> HIDE DEF start
    <3> QED
      BY <2>2 DEF EndCandidates
  <2>4. f = IF ends = {} THEN Found(-1, start, size)
            ELSE Found(Min(ends) - start, start, Min(ends))
    BY <1>3 DEF FindNalUnit
  <2> HIDE DEF ends, start, k
  <2>5. start \in Int
    BY <2>2
  <2>6. ends # {} => Min(ends) \in ends /\ \A x \in ends : Min(ends) <= x
    BY <2>3, <2>5, MinIsLeast
  <2>7. ends = {} => f.ret = -1
    BY <2>4 DEF Found
  <2>8. ends # {} => f.ret = Min(ends) - start /\ f.start = start /\ f.end = Min(ends)
    BY <2>4 DEF Found
  <2> QED
    BY <2>1, <2>2, <2>6, <2>7, <2>8
<1>4. ASSUME starts # {}
      PROVE  \E k1 \in Nat, start1 \in Nat :
                /\ k1 \in starts /\ \A x \in starts : k1 <= x
                /\ start1 = IF StartCodeAt(mem, k1) THEN k1 + 3 ELSE k1 + 4
                /\ EndCandidates(mem, size, start1) = {} => f.ret = -1
                /\ EndCandidates(mem, size, start1) # {} =>
                     \E e \in EndCandidates(mem, size, start1) :
                       /\ \A x \in EndCandidates(mem, size, start1) : e <= x
                       /\ f.ret = e - start1 /\ f.start = start1 /\ f.end = e
  <2>1. start = IF StartCodeAt(mem, k) THEN k + 3 ELSE k + 4
    OBVIOUS
  <2>2. k \in Nat /\ start \in Nat
    BY <1>3, <1>4
  <2> HIDE DEF starts, k, start
  <2> USE <2>2
  <2> WITNESS k \in Nat, start \in Nat
  <2> QED
    BY <1>3, <1>4, <2>1, Zenon
<1> QED
  BY <1>2, <1>4, Zenon

\* What it finds is a unit of the file, and none begins before it.
LEMMA FoundIsUnit ==
  ASSUME NEW s \in Seq(0 .. 255), NEW mem, NEW size, NEW from, Holds(mem, size, s, from),
         NEW f, f = FindNalUnit(mem, size), f.ret > 0
  PROVE  /\ f.start \in Nat /\ f.end \in Nat /\ f.start < f.end /\ f.end <= size - 4
         /\ [start |-> from + f.start, end |-> from + f.end] \in Ended(s)
         /\ \A v \in Ended(s) : v.start - 3 >= from => from + f.start <= v.start
<1>1. size \in Nat /\ from \in Nat /\ from + size <= Len(s) /\ Len(s) \in Nat
  BY DEF Holds
<1>2. PICK k \in Nat, start \in Nat :
        /\ k \in StartCandidates(mem, size)
        /\ \A x \in StartCandidates(mem, size) : k <= x
        /\ start = IF StartCodeAt(mem, k) THEN k + 3 ELSE k + 4
        /\ EndCandidates(mem, size, start) # {}
        /\ \E e \in EndCandidates(mem, size, start) :
             /\ \A x \in EndCandidates(mem, size, start) : e <= x
             /\ f.ret = e - start /\ f.start = start /\ f.end = e
  <2>1. f.ret # 0 /\ f.ret # -1
    OBVIOUS
  <2>2. StartCandidates(mem, size) # {}
    BY <1>1, <2>1, Search, Zenon
  <2> QED
    BY <1>1, <2>1, <2>2, Search, ZenonT(60)
<1>3. PICK e \in EndCandidates(mem, size, start) :
        /\ \A x \in EndCandidates(mem, size, start) : e <= x
        /\ f.ret = e - start /\ f.start = start /\ f.end = e
  BY <1>2, Zenon
<1>4. /\ StartPrefixAt(mem, k)
      /\ k = 0 \/ k \in 1 .. size - 5
      /\ \A x \in Int : (x = 0 \/ x \in 1 .. size - 5) /\ StartCodeAt(mem, x) => k <= x
  BY <1>2 DEF StartCandidates, StartPrefixAt
<1>5. /\ e = start \/ e \in start + 1 .. size - 4
      /\ \A x \in Int : (x = start \/ x \in start + 1 .. size - 4) /\ EndCodeAt(mem, x) => e <= x
  BY <1>2, <1>3 DEF EndCandidates
<1>6. e \in Int /\ e > start /\ e \in start + 1 .. size - 4 /\ EndCodeAt(mem, e)
  <2>1. EndCodeAt(mem, e)
    BY <1>3 DEF EndCandidates
  <2>2. e \in Int /\ e - start > 0
    BY <1>3, <1>5
  <2> QED
    BY <1>5, <2>1, <2>2
<1>7. start \in Nat /\ start - 3 \in 0 .. size - 3 /\ StartCodeAt(mem, start - 3)
  <2>1. CASE StartCodeAt(mem, k)
    <3>1. start = k + 3 /\ start - 3 = k
      BY <1>2, <2>1
    <3> QED
      BY <1>1, <1>6, <2>1, <3>1
  <2>2. CASE ~StartCodeAt(mem, k)
    <3>1. start = k + 4 /\ start - 3 = k + 1
      BY <1>2, <2>2
    <3>2. mem[k + 1] = 0 /\ mem[k + 2] = 0 /\ mem[k + 3] = 0 /\ mem[k + 4] = 1
      BY <1>4, <2>2 DEF StartPrefixAt
    <3>3. StartCodeAt(mem, k + 1)
      <4>1. (k + 1) + 1 = k + 2 /\ (k + 1) + 2 = k + 3 /\ (k + 1) + 3 = k + 4
        OBVIOUS
      <4> QED
        BY <3>2, <4>1 DEF StartCodeAt
    <3> QED
      BY <1>1, <1>6, <3>1, <3>3
  <2> QED
    BY <2>1, <2>2
<1>8. \A x \in 0 .. start - 4 : ~StartCodeAt(mem, x)
  <2> SUFFICES ASSUME NEW x \in 0 .. start - 4, StartCodeAt(mem, x) PROVE FALSE
    OBVIOUS
  <2>1. x \in Int /\ x >= 0 /\ x <= start - 4 /\ start + 1 <= size - 4
    BY <1>1, <1>6
  <2>2. start <= k + 4 /\ (StartCodeAt(mem, k) => start = k + 3)
    BY <1>2
  <2>3. x < k
    <3>1. CASE StartCodeAt(mem, k)
      BY <2>1, <2>2, <3>1
    <3>2. CASE ~StartCodeAt(mem, k)
      <4>1. x # k
        BY <3>2
      <4> QED
        BY <2>1, <2>2, <4>1
    <3> QED
      BY <3>1, <3>2
  <2>4. x = 0 \/ x \in 1 .. size - 5
    BY <1>1, <2>1
  <2>5. k <= x
    BY <1>4, <2>1, <2>4
  <2> QED
    BY <2>1, <2>3, <2>5
<1>9. [start |-> from + start, end |-> from + e] \in Ended(s)
  <2>1. StartCodeAt(s, from + (start - 3)) /\ EndCodeAt(s, from + e)
    <3>1. e \in 0 .. size - 3
      BY <1>1, <1>6, <1>7
    <3> QED
      BY <1>6, <1>7, <3>1, SameCodes
  <2>2. /\ from + (start - 3) \in 0 .. Len(s) - 3
        /\ (from + (start - 3)) + 3 = from + start
        /\ from + e \in from + start .. Len(s) - 3
    BY <1>1, <1>6, <1>7
  <2>3. from + e \in Ends(s, from + start)
    BY <2>1, <2>2 DEF Ends
  <2>4. ASSUME NEW x \in Ends(s, from + start) PROVE from + e <= x
    <3>1. x \in from + start .. Len(s) - 3 /\ EndCodeAt(s, x)
      BY DEF Ends
    <3>2. SUFFICES ASSUME x < from + e PROVE FALSE
      BY <1>1, <1>6, <3>1
    <3>3. /\ x - from \in Int /\ from + (x - from) = x /\ x - from \in 0 .. size - 3
          /\ x - from = start \/ x - from \in start + 1 .. size - 4
          /\ x - from < e
      BY <1>1, <1>6, <1>7, <3>1, <3>2
    <3>4. EndCodeAt(mem, x - from)
      BY <3>1, <3>3, SameCodes
    <3>5. e <= x - from
      BY <1>5, <3>3, <3>4
    <3> QED
      BY <1>6, <3>3, <3>5
  <2> QED
    BY <2>1, <2>2, <2>3, <2>4, UnitAt
<1>10. ASSUME NEW v \in Ended(s), v.start - 3 >= from PROVE from + start <= v.start
  <2>1. v.start \in Nat /\ StartCodeAt(s, v.start - 3)
    BY UnitsAre
  <2>2. SUFFICES ASSUME v.start < from + start PROVE FALSE
    BY <1>1, <1>7, <2>1
  <2>3. PICK x \in Int : x = (v.start - 3) - from
    BY <1>1, <2>1
  <2>4. x >= 0 /\ x <= start - 4 /\ x <= size - 3 /\ from + x = v.start - 3
    BY <1>1, <1>7, <1>10, <2>1, <2>2, <2>3, SMTT(30)
  <2>5. x \in 0 .. start - 4 /\ x \in 0 .. size - 3
    BY <1>1, <1>7, <2>4
  <2>6. StartCodeAt(mem, x)
    BY <2>1, <2>4, <2>5, SameCodes
  <2> QED
    BY <1>8, <2>5, <2>6
<1>11. f.start = start /\ f.end = e
  BY <1>3
<1>12. start \in Nat /\ e \in Nat /\ start < e /\ e <= size - 4
  BY <1>1, <1>6, <1>7
<1> QED
  BY <1>9, <1>10, <1>11, <1>12

\* And when it finds nothing, a unit further on ends in the last four bytes, or
\* some unit is empty.
LEMMA NothingFound ==
  ASSUME NEW s \in Seq(0 .. 255), NEW mem, NEW size, NEW from, Holds(mem, size, s, from),
         NEW f, f = FindNalUnit(mem, size), f.ret <= 0,
         \A u \in Ended(s) : u.start < u.end,
         NEW v \in Ended(s), v.start - 3 >= from
  PROVE  v.end + 4 > from + size
<1> SUFFICES ASSUME v.end + 4 <= from + size PROVE FALSE
  BY UnitsAre DEF Holds
<1>1. size \in Nat /\ from \in Nat /\ from + size <= Len(s) /\ Len(s) \in Nat
  BY DEF Holds
<1>2. /\ v.start \in Nat /\ v.end \in Nat /\ StartCodeAt(s, v.start - 3)
      /\ v.end \in Ends(s, v.start) /\ v.start < v.end
  BY UnitsAre
<1>3. PICK x \in Int : x = (v.start - 3) - from
  BY <1>1, <1>2
<1>4. PICK y \in Int : y = v.end - from
  BY <1>1, <1>2
<1>5. /\ x >= 0 /\ x + 3 < y /\ y <= size - 4
      /\ from + x = v.start - 3 /\ from + y = v.end
  <2>1. PICK a \in Nat, b \in Nat : v.start = a /\ v.end = b
    BY <1>2
  <2>2. x = (a - 3) - from /\ y = b - from /\ a < b /\ a - 3 >= from /\ b + 4 <= from + size
    BY <1>2, <1>3, <1>4, <2>1
  <2>3. x >= 0 /\ x + 3 < y /\ y <= size - 4 /\ from + x = a - 3 /\ from + y = b
    BY <1>1, <2>2
  <2> QED
    BY <2>1, <2>3
<1>6. x \in 0 .. size - 3 /\ y \in 0 .. size - 3
  BY <1>1, <1>5
<1>7. StartCodeAt(mem, x)
  BY <1>2, <1>5, <1>6, SameCodes
<1>8. EndCodeAt(mem, y)
  BY <1>2, <1>5, <1>6, SameCodes DEF Ends
<1>9. x \in StartCandidates(mem, size)
  <2>1. x = 0 \/ x \in 1 .. size - 5
    BY <1>1, <1>5
  <2> QED
    BY <1>7, <2>1 DEF StartCandidates, StartPrefixAt
<1>10. PICK k \in Nat, start \in Nat :
         /\ k \in StartCandidates(mem, size)
         /\ \A z \in StartCandidates(mem, size) : k <= z
         /\ start = IF StartCodeAt(mem, k) THEN k + 3 ELSE k + 4
         /\ EndCandidates(mem, size, start) # {} =>
              \E e \in EndCandidates(mem, size, start) :
                /\ \A z \in EndCandidates(mem, size, start) : e <= z
                /\ f.ret = e - start /\ f.start = start /\ f.end = e
  BY <1>1, <1>9, Search, Zenon
<1>11. start - 3 >= 0 /\ start - 3 <= x /\ StartCodeAt(mem, start - 3)
  <2>1. k <= x
    BY <1>9, <1>10
  <2>2. CASE StartCodeAt(mem, k)
    <3>1. start = k + 3 /\ start - 3 = k
      BY <1>10, <2>2
    <3> QED
      BY <2>1, <2>2, <3>1
  <2>3. CASE ~StartCodeAt(mem, k)
    <3>1. start = k + 4 /\ start - 3 = k + 1
      BY <1>10, <2>3
    <3>2. StartPrefixAt(mem, k)
      BY <1>10 DEF StartCandidates
    <3>3. mem[k + 1] = 0 /\ mem[k + 2] = 0 /\ mem[k + 3] = 0 /\ mem[k + 4] = 1
      BY <2>3, <3>2 DEF StartPrefixAt
    <3>4. (k + 1) + 1 = k + 2 /\ (k + 1) + 2 = k + 3 /\ (k + 1) + 3 = k + 4
      OBVIOUS
    <3>5. StartCodeAt(mem, k + 1)
      BY <3>3, <3>4 DEF StartCodeAt
    <3>6. k # x
      BY <1>7, <2>3
    <3> QED
      BY <2>1, <3>1, <3>5, <3>6
  <2> QED
    BY <2>2, <2>3
<1>12. y \in EndCandidates(mem, size, start)
  <2>1. y \in start + 1 .. size - 4
    BY <1>1, <1>5, <1>11
  <2> QED
    BY <1>8, <2>1 DEF EndCandidates
<1>13. PICK e \in EndCandidates(mem, size, start) : f.ret = e - start
  BY <1>10, <1>12
<1>14. e = start /\ EndCodeAt(mem, start)
  <2>1. (e = start \/ e \in start + 1 .. size - 4) /\ EndCodeAt(mem, e)
    BY <1>13 DEF EndCandidates
  <2>2. e \in Int /\ e - start <= 0 /\ e >= start
    BY <1>1, <1>13, <2>1
  <2>3. e = start
    BY <2>2
  <2> QED
    BY <2>1, <2>3
<1>15. /\ start - 3 \in 0 .. size - 3 /\ start \in 0 .. size - 3
       /\ from + (start - 3) \in 0 .. Len(s) - 3
       /\ (from + (start - 3)) + 3 = from + start
       /\ from + start \in from + start .. Len(s) - 3
  BY <1>1, <1>5, <1>11
<1>16. StartCodeAt(s, from + (start - 3)) /\ EndCodeAt(s, from + start)
  BY <1>11, <1>14, <1>15, SameCodes
<1>17. /\ from + start \in Ends(s, from + start)
       /\ \A z \in Ends(s, from + start) : from + start <= z
  BY <1>15, <1>16 DEF Ends
<1>18. [start |-> from + start, end |-> from + start] \in Ended(s)
  BY <1>15, <1>16, <1>17, UnitAt
<1>19. from + start < from + start
  BY <1>18
<1> QED
  BY <1>1, <1>19

----------------------------------------------------------------------------
(***************************************************************************)
(* The buffer.                                                             *)
(***************************************************************************)

\* The bytes of s from offset i up to offset j.
Bytes(s, i, j) == SubSeq(s, i + 1, j)

ArePart(t, s, i, j) ==
  t \in Seq(0 .. 255) /\ Len(t) = j - i /\ \A k \in 1 .. j - i : t[k] = s[i + k]

LEMMA Part ==
  ASSUME NEW s \in Seq(0 .. 255), NEW i \in Nat, NEW j \in Nat, i <= j, j <= Len(s)
  PROVE  ArePart(Bytes(s, i, j), s, i, j)
<1>1. \A k \in i + 1 .. j : s[k] \in 0 .. 255
  <2> TAKE k \in i + 1 .. j
  <2>1. k \in 1 .. Len(s)
    OBVIOUS
  <2> QED
    BY <2>1, ElementOfSeq
<1>2. /\ SubSeq(s, i + 1, j) \in Seq(0 .. 255)
      /\ Len(SubSeq(s, i + 1, j)) = IF i + 1 <= j THEN j - (i + 1) + 1 ELSE 0
      /\ \A k \in 1 .. j - (i + 1) + 1 : SubSeq(s, i + 1, j)[k] = s[(i + 1) + k - 1]
  <2>1. i + 1 \in Int /\ j \in Int
    OBVIOUS
  <2> QED
    BY <1>1, <2>1, SubSeqProperties
<1>3. j - (i + 1) + 1 = j - i /\ \A k \in 1 .. j - i : (i + 1) + k - 1 = i + k
  OBVIOUS
<1>4. Len(SubSeq(s, i + 1, j)) = j - i
  BY <1>2
<1> QED
  BY <1>2, <1>3, <1>4 DEF Bytes, ArePart

\* A part of a part.
LEMMA PartOfPart ==
  ASSUME NEW s \in Seq(0 .. 255), NEW i \in Nat, NEW j \in Nat, i <= j, j <= Len(s),
         NEW a \in Nat, NEW b \in Nat, a <= b, b <= j - i
  PROVE  Bytes(Bytes(s, i, j), a, b) = Bytes(s, i + a, i + b)
<1>1. PICK t, u, w : t = Bytes(s, i, j) /\ u = Bytes(t, a, b) /\ w = Bytes(s, i + a, i + b)
  OBVIOUS
<1>2. ArePart(t, s, i, j)
  BY <1>1, Part
<1>3. t \in Seq(0 .. 255) /\ b <= Len(t)
  BY <1>2 DEF ArePart
<1>4. ArePart(u, t, a, b)
  BY <1>1, <1>3, Part
<1>5. /\ i + a \in Nat /\ i + b \in Nat /\ i + a <= i + b /\ i + b <= Len(s)
      /\ (i + b) - (i + a) = b - a
  BY LenProperties
<1>6. ArePart(w, s, i + a, i + b)
  BY <1>1, <1>5, Part, Zenon
<1>7. /\ u \in Seq(0 .. 255) /\ Len(u) = b - a /\ \A k \in 1 .. b - a : u[k] = t[a + k]
      /\ \A k \in 1 .. j - i : t[k] = s[i + k]
  BY <1>2, <1>4 DEF ArePart
<1>8. w \in Seq(0 .. 255) /\ Len(w) = b - a /\ \A k \in 1 .. b - a : w[k] = s[i + a + k]
  BY <1>5, <1>6, Zenon DEF ArePart
<1>9. \A k \in 1 .. b - a : u[k] = w[k]
  <2> TAKE k \in 1 .. b - a
  <2>1. a + k \in 1 .. j - i /\ i + (a + k) = i + a + k
    OBVIOUS
  <2> QED
    BY <1>7, <1>8, <2>1
<1>10. u = w
  BY <1>7, <1>8, <1>9, SeqEqual
<1> QED
  BY <1>1, <1>10

\* Adjacent parts.
LEMMA PartsJoin ==
  ASSUME NEW s \in Seq(0 .. 255), NEW i \in Nat, NEW j \in Nat, NEW k \in Nat,
         i <= j, j <= k, k <= Len(s)
  PROVE  Bytes(s, i, j) \o Bytes(s, j, k) = Bytes(s, i, k)
<1>1. PICK t, u, w : t = Bytes(s, i, j) /\ u = Bytes(s, j, k) /\ w = Bytes(s, i, k)
  OBVIOUS
<1>2. j <= Len(s) /\ i <= k
  BY LenProperties
<1>3. t \in Seq(0 .. 255) /\ Len(t) = j - i /\ \A x \in 1 .. j - i : t[x] = s[i + x]
  <2>1. ArePart(t, s, i, j)
    BY <1>1, <1>2, Part, Zenon
  <2> QED
    BY <2>1, Zenon DEF ArePart
<1>4. u \in Seq(0 .. 255) /\ Len(u) = k - j /\ \A x \in 1 .. k - j : u[x] = s[j + x]
  <2>1. ArePart(u, s, j, k)
    BY <1>1, Part, Zenon
  <2> QED
    BY <2>1, Zenon DEF ArePart
<1>5. w \in Seq(0 .. 255) /\ Len(w) = k - i /\ \A x \in 1 .. k - i : w[x] = s[i + x]
  <2>1. ArePart(w, s, i, k)
    BY <1>1, <1>2, Part, Zenon
  <2> QED
    BY <2>1, Zenon DEF ArePart
<1>6. PICK tu : tu = t \o u
  OBVIOUS
<1>7. /\ tu \in Seq(0 .. 255) /\ Len(tu) = k - i
      /\ \A x \in 1 .. k - i : tu[x] = IF x <= j - i THEN t[x] ELSE u[x - (j - i)]
  <2>1. (j - i) + (k - j) = k - i
    OBVIOUS
  <2>2. t \in Seq(0 .. 255) /\ u \in Seq(0 .. 255) /\ Len(t) = j - i /\ Len(u) = k - j
    BY <1>3, <1>4
  <2>3. /\ tu \in Seq(0 .. 255) /\ Len(tu) = Len(t) + Len(u)
        /\ \A x \in 1 .. Len(t) + Len(u) :
             tu[x] = IF x <= Len(t) THEN t[x] ELSE u[x - Len(t)]
    <3>1. t \in Seq(0 .. 255) /\ u \in Seq(0 .. 255)
      BY <2>2
    <3>2. /\ t \o u \in Seq(0 .. 255) /\ Len(t \o u) = Len(t) + Len(u)
          /\ \A x \in 1 .. Len(t) + Len(u) :
               (t \o u)[x] = IF x <= Len(t) THEN t[x] ELSE u[x - Len(t)]
      BY <3>1, ConcatProperties, ZenonT(60)
    <3> QED
      BY <1>6, <3>2, Zenon
  <2>4. Len(t) + Len(u) = k - i
    BY <2>1, <2>2, Zenon
  <2> QED
    BY <2>2, <2>3, <2>4, Zenon
<1>8. \A x \in 1 .. k - i : tu[x] = w[x]
  <2> TAKE x \in 1 .. k - i
  <2>1. CASE x <= j - i
    <3>1. x \in 1 .. j - i
      BY <2>1
    <3> QED
      BY <1>3, <1>5, <1>7, <2>1, <3>1
  <2>2. CASE x > j - i
    <3>1. x - (j - i) \in 1 .. k - j /\ j + (x - (j - i)) = i + x /\ ~(x <= j - i)
      BY <2>2
    <3>2. tu[x] = u[x - (j - i)]
      BY <1>7, <3>1
    <3> QED
      BY <1>4, <1>5, <3>1, <3>2
  <2> QED
    BY <2>1, <2>2
<1>9. tu = w
  BY <1>5, <1>7, <1>8, SeqEqual
<1> QED
  BY <1>1, <1>6, <1>9

----------------------------------------------------------------------------
(***************************************************************************)
(* The inductive invariant.                                                *)
(***************************************************************************)

Call == [start : Nat, end : Nat, data : Seq(0 .. 255)]

Unit(c) == [start |-> c.start, end |-> c.end]

\* The scan is at the front of the buffer but inside the loop that delivers;
\* what was read before that loop filled the buffer or reached the end.
Place ==
  /\ pc # "scan" => p = 0
  /\ pc = "scan" => Len(buf) = BufSize \/ pos = Len(file)
  /\ pc = "done" => pos = Len(file)

Typed == TypeOK /\ CallsShowTheFile /\ Place /\ calls \in Seq(Call)

\* Where the last unit delivered ends.
Reached == IF calls = <<>> THEN 0 ELSE calls[Len(calls)].end

Ahead == Framing!Pending(file, Reached)

UnitsOnly ==
  /\ \A c \in 1 .. Len(calls) : Unit(calls[c]) \in Ended(file) /\ calls[c].start < calls[c].end
  /\ \A c \in 1 .. Len(calls) : calls[c].end + 4 <= Len(file)
  /\ Reached <= off + p

\* If the units fit, the scan has passed the last unit it delivered only when
\* nothing more can be found.
Tight == off + p = Reached \/ \A v \in Ahead : v.end + 4 > Len(file)

\* What is ahead after a scan has not been read to its end.
Unread == pc # "scan" => \A v \in Ahead : v.end + 4 > pos

\* What is behind was delivered.
Behind ==
  \A v \in Ended(file) :
    v.start < Reached =>
      \E c \in 1 .. Len(calls) : calls[c].start = v.start /\ calls[c].end = v.end

Kept == Framing!Fits(file) => Tight /\ Unread /\ Behind

StreamInv == Typed /\ UnitsOnly /\ Kept

----------------------------------------------------------------------------
(***************************************************************************)
(* The buffer and its place in the file.                                   *)
(***************************************************************************)

LEMMA Places ==
  ASSUME Typed
  PROVE  /\ file \in Files /\ file \in Seq(0 .. 255) /\ Len(file) \in Nat
         /\ pos \in Nat /\ pos <= Len(file) /\ off \in Nat /\ off <= pos
         /\ buf = Bytes(file, off, pos) /\ ArePart(buf, file, off, pos)
         /\ Len(buf) \in Nat /\ Len(buf) = pos - off /\ p \in Nat /\ p <= Len(buf)
         /\ sz \in Nat /\ sz = Len(buf) - p /\ BufSize \in Nat /\ Len(buf) <= BufSize
         /\ pc = "read" => sz < BufSize /\ p = 0
<1>1. file \in Files /\ file \in Seq(0 .. 255) /\ Len(file) \in Nat
  BY FilesAreBytes DEF Typed, TypeOK
<1>2. /\ pos \in Nat /\ pos <= Len(file) /\ off \in Nat /\ off <= pos
      /\ Len(buf) <= BufSize /\ BufSize \in Nat
      /\ pc = "read" => sz < BufSize /\ p = 0
  BY <1>1, BufferHoldsLookahead DEF Typed, TypeOK, Place
<1>3. buf = Bytes(file, off, pos) /\ off + Len(buf) = pos
  BY DEF Typed, CallsShowTheFile, Bytes
<1>4. ArePart(buf, file, off, pos)
  BY <1>1, <1>2, <1>3, Part, Zenon
<1>5. Len(buf) \in Nat /\ Len(buf) = pos - off
  BY <1>2, <1>4 DEF ArePart
<1>6. p \in Nat /\ p <= Len(buf)
  BY <1>5 DEF Typed, TypeOK
<1>7. sz \in Nat /\ sz = Len(buf) - p
  BY <1>5, <1>6 DEF sz
<1> QED
  BY <1>1, <1>2, <1>3, <1>4, <1>5, <1>6, <1>7

\* A read fills the buffer or reaches the end of the file.
LEMMA Readables ==
  ASSUME Typed, pc = "read"
  PROVE  /\ Readable \in Nat /\ Readable <= BufSize - sz /\ Readable <= Len(file) - pos
         /\ Readable = BufSize - sz \/ Readable = Len(file) - pos
<1> DEFINE a == BufSize - sz  b == Len(file) - pos
<1>1. a \in Nat /\ b \in Nat
  BY Places
<1> HIDE DEF a, b
<1>2. {a, b} \in SUBSET Int /\ {a, b} # {} /\ \A x \in {a, b} : 0 <= x
  BY <1>1
<1>3. Min({a, b}) \in {a, b} /\ \A x \in {a, b} : Min({a, b}) <= x
  <2>1. 0 \in Int
    OBVIOUS
  <2> QED
    BY <1>2, <2>1, MinIsLeast, Zenon
<1>4. Readable = Min({a, b})
  BY DEF Readable, a, b
<1>5. /\ Readable \in Nat /\ Readable <= a /\ Readable <= b
      /\ Readable = a \/ Readable = b
  BY <1>1, <1>3, <1>4
<1> QED
  BY <1>5 DEF a, b

\* What the scan looks at.
LEMMA InFile ==
  ASSUME Typed, NEW junk \in Junk
  PROVE  Holds(SubSeq(buf, p + 1, Len(buf)) \o junk, sz, file, off + p)
<1> DEFINE t == Bytes(buf, p, Len(buf))
<1>1. buf \in Seq(0 .. 255) /\ \A k \in 1 .. pos - off : buf[k] = file[off + k]
  BY Places DEF ArePart
<1>2. ArePart(t, buf, p, Len(buf))
  <2>1. Len(buf) \in Nat /\ p \in Nat /\ p <= Len(buf) /\ Len(buf) <= Len(buf)
    BY Places
  <2> QED
    BY <1>1, <2>1, Part, Zenon
<1>3. t \in Seq(0 .. 255) /\ Len(t) = sz /\ \A k \in 1 .. sz : t[k] = buf[p + k]
  <2>1. sz = Len(buf) - p
    BY Places
  <2> QED
    BY <1>2, <2>1, Zenon DEF ArePart
<1> HIDE DEF t
<1>4. junk \in Seq(0 .. 255)
  BY FilesAreBytes
<1>5. /\ Len(t \o junk) = Len(t) + Len(junk)
      /\ \A i \in 1 .. Len(t) + Len(junk) :
           (t \o junk)[i] = IF i <= Len(t) THEN t[i] ELSE junk[i - Len(t)]
  BY <1>3, <1>4, ConcatProperties, ZenonT(60)
<1>6. Len(junk) \in Nat
  BY <1>4
<1>7. /\ off + p \in Nat /\ off + p + sz <= Len(file) /\ sz \in Nat /\ pos - off = p + sz
      /\ off \in Nat /\ p \in Nat
  BY Places, SMTT(30)
<1>8. \A k \in 0 .. sz - 1 : (t \o junk)[k + 1] = file[off + p + k + 1]
  <2> TAKE k \in 0 .. sz - 1
  <2>1. /\ k + 1 \in 1 .. Len(t) + Len(junk) /\ k + 1 <= Len(t) /\ k + 1 \in 1 .. sz
    BY <1>3, <1>6, <1>7
  <2>2. (t \o junk)[k + 1] = t[k + 1]
    BY <1>5, <2>1, Zenon
  <2>3. t[k + 1] = buf[p + (k + 1)]
    BY <1>3, <2>1, Zenon
  <2>4. p + (k + 1) \in 1 .. pos - off /\ off + (p + (k + 1)) = off + p + k + 1
    BY <1>7
  <2>5. buf[p + (k + 1)] = file[off + (p + (k + 1))]
    BY <1>1, <2>4, Zenon
  <2> QED
    BY <2>2, <2>3, <2>4, <2>5, Zenon
<1>9. Holds(t \o junk, sz, file, off + p)
  BY <1>7, <1>8, Zenon DEF Holds
<1> QED
  BY <1>9 DEF t, Bytes

LEMMA InitTyped == Init => Typed
<1> SUFFICES ASSUME Init PROVE Typed
  OBVIOUS
<1>1. /\ file \in Seq(0 .. 255) /\ Len(file) \in Nat /\ Len(buf) = 0 /\ sz = 0
      /\ BufSize \in Nat /\ BufSize >= 4 /\ Len(calls) = 0
  BY FilesAreBytes, BufferHoldsLookahead DEF Init, sz
<1>2. TypeOK
  BY <1>1 DEF Init, TypeOK
<1>3. buf = SubSeq(file, off + 1, pos)
  <2>1. off + 1 \in Int /\ pos \in Int /\ pos < off + 1
    BY DEF Init
  <2> QED
    BY <2>1, SubSeqEmpty DEF Init
<1>4. CallsShowTheFile
  BY <1>1, <1>3 DEF Init, CallsShowTheFile
<1>5. Place
  BY DEF Init, Place
<1>6. calls \in Seq(Call)
  BY EmptySeq DEF Init
<1> QED
  BY <1>2, <1>4, <1>5, <1>6 DEF Typed

LEMMA ReadTyped == ASSUME Typed, Read PROVE Typed'
<1>1. /\ pc = "read" /\ Readable > 0 /\ pc' = "scan" /\ pos' = pos + Readable
      /\ buf' = buf \o SubSeq(file, pos + 1, pos + Readable)
      /\ file' = file /\ p' = p /\ off' = off /\ calls' = calls
  BY DEF Read
<1>2. /\ Readable \in Nat /\ Readable <= BufSize - sz /\ Readable <= Len(file) - pos
      /\ Readable = BufSize - sz \/ Readable = Len(file) - pos
  BY <1>1, Readables
<1>3. /\ file \in Files /\ file \in Seq(0 .. 255) /\ Len(file) \in Nat
      /\ pos \in Nat /\ pos <= Len(file) /\ off \in Nat /\ off <= pos
      /\ buf = Bytes(file, off, pos) /\ p = 0 /\ BufSize \in Nat
      /\ Len(buf) \in Nat /\ Len(buf) = pos - off /\ sz = Len(buf)
  BY <1>1, Places
<1>4. pos' \in Nat /\ pos <= pos' /\ pos' <= Len(file) /\ off <= pos'
  BY <1>1, <1>2, <1>3
<1>5. buf' = Bytes(file, off, pos')
  <2>1. buf' = Bytes(file, off, pos) \o Bytes(file, pos, pos')
    BY <1>1, <1>3, Zenon DEF Bytes
  <2> QED
    BY <1>3, <1>4, <2>1, PartsJoin, ZenonT(60)
<1>6. Len(buf') = pos' - off
  BY <1>3, <1>4, <1>5, Part, ZenonT(60) DEF ArePart
<1>7. TypeOK'
  BY <1>1, <1>2, <1>3, <1>4, <1>6 DEF TypeOK
<1>8. CallsShowTheFile'
  <2>1. buf' = SubSeq(file', off' + 1, pos')
    BY <1>1, <1>5, Zenon DEF Bytes
  <2>2. off' + Len(buf') = pos'
    BY <1>1, <1>3, <1>4, <1>6
  <2> QED
    BY <1>1, <2>1, <2>2 DEF CallsShowTheFile, Typed
<1>9. Place'
  BY <1>1, <1>2, <1>3, <1>6 DEF Place
<1> QED
  BY <1>1, <1>7, <1>8, <1>9 DEF Typed

LEMMA EndTyped == ASSUME Typed, EndOfFile PROVE Typed'
<1>1. /\ pc = "read" /\ Readable = 0 /\ pc' = "done"
      /\ UNCHANGED <<file, pos, buf, p, off, calls>>
  BY DEF EndOfFile
<1>2. pos = Len(file) /\ p = 0
  BY <1>1, Readables, Places
<1> QED
  BY <1>1, <1>2 DEF Typed, TypeOK, CallsShowTheFile, Place, sz

\* What is found is a unit of the file, at the offset that is reported.
LEMMA Delivers ==
  ASSUME Typed, NEW junk \in Junk, Deliver(junk)
  PROVE  \E start \in Nat, end \in Nat :
           /\ start < end /\ p + end <= Len(buf) /\ off + p + end + 4 <= pos
           /\ [start |-> off + p + start, end |-> off + p + end] \in Ended(file)
           /\ \A v \in Ended(file) : v.start - 3 >= off + p => off + p + start <= v.start
           /\ calls' = Append(calls, [start |-> off + p + start, end |-> off + p + end,
                                      data |-> Bytes(file, off + p + start, off + p + end)])
           /\ Bytes(file, off + p + start, off + p + end) \in Seq(0 .. 255)
           /\ p' = p + end
           /\ UNCHANGED <<file, pos, buf, off, pc>> /\ pc = "scan"
<1> DEFINE q == off + p
<1>1. PICK f : f = Scan(junk)
  OBVIOUS
<1>2. /\ pc = "scan" /\ f.ret > 0
      /\ calls' = Append(calls, [start |-> q + f.start, end |-> q + f.end,
                                 data |-> SubSeq(buf, p + f.start + 1, p + f.end)])
      /\ p' = p + f.end /\ UNCHANGED <<file, pos, buf, off, pc>>
  BY <1>1 DEF Deliver
<1>3. /\ file \in Seq(0 .. 255) /\ Len(file) \in Nat
      /\ pos \in Nat /\ pos <= Len(file) /\ off \in Nat /\ off <= pos
      /\ buf = Bytes(file, off, pos) /\ p \in Nat
      /\ Len(buf) \in Nat /\ Len(buf) = pos - off /\ sz = Len(buf) - p
  BY Places
<1>4. Holds(SubSeq(buf, p + 1, Len(buf)) \o junk, sz, file, q)
  BY InFile
<1>5. /\ f.start \in Nat /\ f.end \in Nat /\ f.start < f.end /\ f.end <= sz - 4
      /\ [start |-> q + f.start, end |-> q + f.end] \in Ended(file)
      /\ \A v \in Ended(file) : v.start - 3 >= q => q + f.start <= v.start
  BY <1>1, <1>2, <1>3, <1>4, FoundIsUnit, ZenonT(60) DEF Scan
<1>6. PICK start \in Nat, end \in Nat : start = f.start /\ end = f.end
  BY <1>5
<1>7. start < end /\ p + end <= Len(buf) /\ q + end + 4 <= pos
  BY <1>3, <1>5, <1>6
<1>8. /\ p + start \in Nat /\ p + end \in Nat /\ p + start <= p + end /\ p + end <= pos - off
      /\ off + (p + start) = q + start /\ off + (p + end) = q + end
      /\ q + start \in Nat /\ q + end \in Nat /\ q + start <= q + end /\ q + end <= Len(file)
  BY <1>3, <1>7
<1>9. SubSeq(buf, p + start + 1, p + end) = Bytes(file, q + start, q + end)
  <2>1. PICK a \in Nat, b \in Nat : a = p + start /\ b = p + end
    BY <1>8
  <2>2. a <= b /\ b <= pos - off
    BY <1>8, <2>1
  <2>3. Bytes(buf, a, b) = Bytes(file, off + a, off + b)
    BY <1>3, <2>2, PartOfPart
  <2>4. Bytes(file, off + a, off + b) = Bytes(file, q + start, q + end)
    BY <1>8, <2>1, Zenon
  <2> QED
    BY <2>1, <2>3, <2>4, Zenon DEF Bytes
<1>10. Bytes(file, q + start, q + end) \in Seq(0 .. 255)
  BY <1>3, <1>8, Part, Zenon DEF ArePart
<1> QED
  <2> WITNESS start \in Nat, end \in Nat
  <2> QED
    BY <1>2, <1>5, <1>6, <1>7, <1>9, <1>10, Zenon

LEMMA DeliverTyped == ASSUME Typed, NEW junk \in Junk, Deliver(junk) PROVE Typed'
<1>1. PICK start \in Nat, end \in Nat :
        /\ start < end /\ p + end <= Len(buf) /\ off + p + end + 4 <= pos
        /\ calls' = Append(calls, [start |-> off + p + start, end |-> off + p + end,
                                   data |-> Bytes(file, off + p + start, off + p + end)])
        /\ Bytes(file, off + p + start, off + p + end) \in Seq(0 .. 255)
        /\ p' = p + end
        /\ UNCHANGED <<file, pos, buf, off, pc>> /\ pc = "scan"
  BY Delivers, Zenon
<1> DEFINE c == [start |-> off + p + start, end |-> off + p + end,
                 data |-> Bytes(file, off + p + start, off + p + end)]
<1>2. p \in Nat /\ off \in Nat /\ Len(buf) \in Nat
  BY Places
<1>3. c \in Call
  BY <1>1, <1>2 DEF Call
<1>4. c.data = SubSeq(file, c.start + 1, c.end)
  BY DEF Bytes
<1> HIDE DEF c
<1>5. /\ calls \in Seq(Call) /\ calls' = Append(calls, c) /\ Len(calls) \in Nat
      /\ \A k \in 1 .. Len(calls) : calls[k].data = SubSeq(file, calls[k].start + 1, calls[k].end)
  BY <1>1, LenProperties DEF c, Typed, CallsShowTheFile
<1>6. /\ calls' \in Seq(Call) /\ Len(calls') = Len(calls) + 1
      /\ \A k \in 1 .. Len(calls) : calls'[k] = calls[k]
      /\ calls'[Len(calls) + 1] = c
  BY <1>3, <1>5, AppendProperties
<1>7. \A k \in 1 .. Len(calls') : k \in 1 .. Len(calls) \/ k = Len(calls) + 1
  BY <1>5, <1>6
<1>8. \A k \in 1 .. Len(calls') :
        calls'[k].data = SubSeq(file', calls'[k].start + 1, calls'[k].end)
  <2>1. file' = file
    BY <1>1
  <2> QED
    BY <1>4, <1>5, <1>6, <1>7, <2>1, Zenon
<1>9. CallsShowTheFile'
  <2>1. buf' = SubSeq(file', off' + 1, pos') /\ off' + Len(buf') = pos'
    BY <1>1, Zenon DEF Typed, CallsShowTheFile
  <2> QED
    BY <1>8, <2>1 DEF CallsShowTheFile
<1>10. TypeOK' /\ Place'
  <2>1. p' \in 0 .. Len(buf)
    BY <1>1, <1>2
  <2> QED
    BY <1>1, <2>1 DEF Typed, TypeOK, Place
<1> QED
  BY <1>6, <1>9, <1>10 DEF Typed

LEMMA DiscardTyped == ASSUME Typed, NEW junk \in Junk, Discard(junk) PROVE Typed'
<1>1. /\ pc = "scan" /\ p = 0 /\ buf' = <<>> /\ off' = off + Len(buf) /\ pc' = "read"
      /\ UNCHANGED <<file, pos, p, calls>>
  BY DEF Discard
<1>2. /\ pos \in Nat /\ off \in Nat /\ off <= pos /\ Len(buf) = pos - off
      /\ BufSize \in Nat /\ BufSize >= 4
  BY Places, BufferHoldsLookahead
<1>3. off' = pos /\ Len(buf') = 0
  BY <1>1, <1>2
<1>4. buf' = SubSeq(file', off' + 1, pos')
  <2>1. off' + 1 \in Int /\ pos' \in Int /\ pos' < off' + 1
    BY <1>1, <1>2, <1>3
  <2> QED
    BY <1>1, <2>1, SubSeqEmpty
<1>5. TypeOK'
  BY <1>1, <1>2, <1>3 DEF Typed, TypeOK, sz
<1>6. CallsShowTheFile'
  BY <1>1, <1>2, <1>3, <1>4 DEF Typed, CallsShowTheFile
<1> QED
  BY <1>1, <1>5, <1>6 DEF Typed, Place

LEMMA KeepRestTyped == ASSUME Typed, NEW junk \in Junk, KeepRest(junk) PROVE Typed'
<1>1. /\ pc = "scan" /\ p > 0 /\ buf' = Bytes(buf, p, Len(buf)) /\ off' = off + p
      /\ p' = 0 /\ pc' = "read" /\ UNCHANGED <<file, pos, calls>>
  BY DEF KeepRest, Bytes
<1>2. /\ file \in Seq(0 .. 255) /\ pos \in Nat /\ pos <= Len(file)
      /\ off \in Nat /\ off <= pos /\ buf = Bytes(file, off, pos)
      /\ Len(buf) \in Nat /\ Len(buf) = pos - off /\ p \in Nat /\ p <= Len(buf)
      /\ BufSize \in Nat /\ Len(buf) <= BufSize /\ Len(file) \in Nat
  BY Places
<1>3. buf' = Bytes(file, off + p, pos)
  <2>1. PICK n \in Nat : n = Len(buf)
    BY <1>2
  <2>2. n <= pos - off /\ off + n = pos /\ p <= n
    BY <1>2, <2>1
  <2>3. Bytes(Bytes(file, off, pos), p, n) = Bytes(file, off + p, off + n)
    BY <1>2, <2>2, PartOfPart
  <2> QED
    BY <1>1, <1>2, <2>1, <2>2, <2>3, Zenon
<1>4. PICK o \in Nat : o = off + p /\ o <= pos
  BY <1>2
<1>5. Len(buf') = pos - o
  <2>1. ArePart(Bytes(file, o, pos), file, o, pos)
    BY <1>2, <1>4, Part, Zenon
  <2> QED
    BY <1>3, <1>4, <2>1, Zenon DEF ArePart
<1>6. Len(buf') < BufSize /\ o \in 0 .. pos /\ o + Len(buf') = pos /\ Len(buf') \in Nat
  BY <1>1, <1>2, <1>4, <1>5
<1>7. TypeOK'
  <2>1. sz' < BufSize /\ p' \in 0 .. Len(buf') /\ Len(buf') <= BufSize
    BY <1>1, <1>2, <1>6 DEF sz
  <2> QED
    BY <1>1, <1>4, <1>6, <2>1 DEF Typed, TypeOK
<1>8. CallsShowTheFile'
  <2>1. buf' = SubSeq(file', off' + 1, pos')
    BY <1>1, <1>3, Zenon DEF Bytes
  <2>2. off' + Len(buf') = pos'
    BY <1>1, <1>4, <1>6
  <2> QED
    BY <1>1, <2>1, <2>2 DEF Typed, CallsShowTheFile
<1> QED
  BY <1>1, <1>7, <1>8 DEF Typed, Place

LEMMA StutterTyped == Typed /\ UNCHANGED vars => Typed'
BY DEF Typed, TypeOK, CallsShowTheFile, Place, vars, sz

LEMMA NextTyped == Typed /\ [Next]_vars => Typed'
BY ReadTyped, EndTyped, DeliverTyped, DiscardTyped, KeepRestTyped, StutterTyped DEF Next

\* The place in the file and the size of the buffer stay within their bounds.
THEOREM TypeCorrect == Spec => []TypeOK
<1>1. Typed => TypeOK
  BY DEF Typed
<1> QED
  BY <1>1, InitTyped, NextTyped, PTL DEF Spec

\* The callback is only ever given bytes of the file, from where it is told.
THEOREM CallsAreOfTheFile == Spec => []CallsShowTheFile
<1>1. Typed => CallsShowTheFile
  BY DEF Typed
<1> QED
  BY <1>1, InitTyped, NextTyped, PTL DEF Spec

----------------------------------------------------------------------------
(***************************************************************************)
(* The units that are delivered.                                           *)
(***************************************************************************)

\* The units NalFraming speaks of.
LEMMA SameUnits == ASSUME NEW s PROVE Framing!Ended(s) = Ended(s)
BY Zenon DEF Framing!Ended, Framing!Units, Framing!Ends, Framing!StartCodeAt,
   Framing!EndCodeAt, Framing!Min, Ended, Units, Ends, StartCodeAt, EndCodeAt, Min

LEMMA SameMax == ASSUME NEW S PROVE Framing!Max(S) = Max(S)
BY Zenon DEF Framing!Max, Max

LEMMA PendingAre ==
  Ahead = {u \in Ended(file) : u.start >= Reached /\ u.start < u.end}
BY SameUnits, Zenon DEF Ahead, Framing!Pending

LEMMA FitsMeans ==
  Framing!Fits(file) <=>
    \A u \in Ended(file) :
      /\ u.start < u.end
      /\ u.end + 4 - Max({0} \cup {v.end : v \in {v \in Ended(file) : v.end <= u.start}})
           <= BufSize
BY SameUnits, SameMax, Zenon DEF Framing!Fits

LEMMA Reaches ==
  ASSUME Typed, UnitsOnly
  PROVE  /\ Reached \in Nat
         /\ Reached = 0 \/ \E u \in Ended(file) : u.start < u.end /\ Reached = u.end
<1>1. CASE calls = <<>>
  BY <1>1 DEF Reached
<1>2. CASE calls # <<>>
  <2>1. Len(calls) \in 1 .. Len(calls) /\ Reached = calls[Len(calls)].end
    BY <1>2, EmptySeq DEF Typed, Reached
  <2>2. Unit(calls[Len(calls)]) \in Ended(file) /\ calls[Len(calls)].start < calls[Len(calls)].end
    BY <2>1 DEF UnitsOnly
  <2>3. PICK u \in Ended(file) : u = Unit(calls[Len(calls)])
    BY <2>2
  <2>4. u.end = Reached /\ u.start < u.end
    BY <2>1, <2>2, <2>3 DEF Unit
  <2>5. u.end \in Nat
    BY UnitsAre, Places
  <2> QED
    BY <2>4, <2>5
<1> QED
  BY <1>1, <1>2

\* A unit ahead has its start code ahead.
LEMMA AheadAre ==
  ASSUME Typed, UnitsOnly, NEW v \in Ahead
  PROVE  /\ v \in Ended(file) /\ v.start >= Reached /\ v.start < v.end
         /\ v.start - 3 >= Reached /\ v.start \in Nat /\ v.end \in Nat
<1>1. v \in Ended(file) /\ v.start >= Reached /\ v.start < v.end
  BY PendingAre
<1>2. file \in Seq(0 .. 255)
  BY Places
<1>3. v.start - 3 >= Reached
  BY <1>1, <1>2, Reaches, CodeAfter
<1> QED
  BY <1>1, <1>2, <1>3, UnitsAre

\* If the units fit, so does the next one, in a buffer that begins where the
\* last one ended.
LEMMA NextFits ==
  ASSUME Typed, UnitsOnly, Framing!Fits(file), Ahead # {}
  PROVE  \E v \in Ahead : v.end + 4 <= Reached + BufSize
<1>1. PICK v \in Ahead : \A w \in Ahead : v.start <= w.start
  <2> DEFINE T == {w.start : w \in Ahead}
  <2>1. T \in SUBSET Nat /\ T # {}
    BY AheadAre
  <2>2. PICK t \in T : \A y \in T : t <= y
    <3> HIDE DEF T
    <3> QED
      BY <2>1, LeastNat
  <2> QED
    BY <2>2
<1> DEFINE B == {w \in Ended(file) : w.end <= v.start}
           S == {0} \cup {w.end : w \in B}
<1>2. /\ v \in Ended(file) /\ v.start >= Reached /\ v.start < v.end
      /\ v.start \in Nat /\ v.end \in Nat
  BY AheadAre
<1>3. file \in Seq(0 .. 255) /\ BufSize \in Nat
  BY Places
<1>4. Reached \in Nat /\ (Reached = 0 \/ \E u \in Ended(file) : u.start < u.end /\ Reached = u.end)
  BY Reaches
<1>5. ASSUME NEW w \in B PROVE w.end \in Nat /\ w.end <= Reached
  <2>1. w \in Ended(file) /\ w.end <= v.start
    OBVIOUS
  <2>2. w.start \in Nat /\ w.end \in Nat /\ w.start < w.end
    BY <1>3, <2>1, UnitsAre, FitsMeans
  <2>3. w.start < Reached
    <3>1. w \notin Ahead
      BY <1>1, <1>2, <2>1, <2>2
    <3> QED
      BY <1>4, <2>1, <2>2, <3>1, PendingAre
  <2>4. PICK u \in Ended(file) : u.start < u.end /\ Reached = u.end
    BY <1>4, <2>2, <2>3
  <2> QED
    BY <1>3, <2>1, <2>2, <2>3, <2>4, UnitsOrdered
<1>6. S \in SUBSET Int /\ S # {} /\ \A x \in S : x <= Reached
  BY <1>4, <1>5
<1>7. v.end + 4 - Max(S) <= BufSize
  BY <1>2, FitsMeans
<1> HIDE DEF S
<1>8. Max(S) \in Int /\ Max(S) <= Reached
  <2>1. Reached \in Int
    BY <1>4
  <2>2. Max(S) \in S
    BY <1>6, <2>1, MaxIsGreatest
  <2> QED
    BY <1>6, <2>2
<1>9. v.end + 4 <= Reached + BufSize
  BY <1>2, <1>3, <1>4, <1>7, <1>8
<1> QED
  BY <1>9

\* A scan that finds nothing leaves nothing that was read to its end.
LEMMA NothingLeft ==
  ASSUME Typed, UnitsOnly, Framing!Fits(file), Tight, NEW junk \in Junk, Scan(junk).ret <= 0
  PROVE  \A v \in Ahead : v.end + 4 > pos
<1> TAKE v \in Ahead
<1>1. /\ v \in Ended(file) /\ v.start - 3 >= Reached /\ v.start \in Nat /\ v.end \in Nat
  BY AheadAre
<1>2. /\ file \in Seq(0 .. 255) /\ pos \in Nat /\ pos <= Len(file) /\ Len(file) \in Nat
      /\ off \in Nat /\ p \in Nat /\ off + p + sz = pos
  BY Places
<1>3. CASE off + p = Reached
  <2>1. \A u \in Ended(file) : u.start < u.end
    BY FitsMeans
  <2>2. Holds(SubSeq(buf, p + 1, Len(buf)) \o junk, sz, file, off + p)
    BY InFile
  <2>3. v.start - 3 >= off + p
    BY <1>1, <1>3
  <2>4. v.end + 4 > (off + p) + sz
    BY <1>1, <1>2, <2>1, <2>2, <2>3, NothingFound, Zenon DEF Scan
  <2> QED
    BY <1>2, <2>4
<1>4. CASE v.end + 4 > Len(file)
  BY <1>1, <1>2, <1>4
<1> QED
  BY <1>3, <1>4 DEF Tight

\* A call gives the next unit, in order.
LEMMA Called ==
  ASSUME Typed, NEW junk \in Junk, Deliver(junk)
  PROVE  \E u \in Ended(file) :
           /\ u.start < u.end /\ u.start >= off + p /\ u.end + 4 <= pos
           /\ \A v \in Ended(file) : v.start - 3 >= off + p => u.start <= v.start
           /\ off' + p' = u.end
           /\ UNCHANGED <<file, pos, buf, pc>> /\ pc = "scan"
           /\ Len(calls) \in Nat /\ Len(calls') = Len(calls) + 1 /\ calls' # <<>>
           /\ \A k \in 1 .. Len(calls) : calls'[k] = calls[k]
           /\ calls'[Len(calls) + 1].start = u.start /\ calls'[Len(calls) + 1].end = u.end
<1>1. PICK start \in Nat, end \in Nat :
        /\ start < end /\ p + end <= Len(buf) /\ off + p + end + 4 <= pos
        /\ [start |-> off + p + start, end |-> off + p + end] \in Ended(file)
        /\ \A v \in Ended(file) : v.start - 3 >= off + p => off + p + start <= v.start
        /\ calls' = Append(calls, [start |-> off + p + start, end |-> off + p + end,
                                   data |-> Bytes(file, off + p + start, off + p + end)])
        /\ Bytes(file, off + p + start, off + p + end) \in Seq(0 .. 255)
        /\ p' = p + end
        /\ UNCHANGED <<file, pos, buf, off, pc>> /\ pc = "scan"
  BY Delivers, Zenon
<1>2. p \in Nat /\ off \in Nat
  BY Places
<1>3. PICK u \in Ended(file) : u = [start |-> off + p + start, end |-> off + p + end]
  BY <1>1
<1>4. /\ u.start = off + p + start /\ u.end = off + p + end
      /\ u.start < u.end /\ u.start >= off + p /\ u.end + 4 <= pos /\ off' + p' = u.end
  BY <1>1, <1>2, <1>3
<1> DEFINE c == [start |-> off + p + start, end |-> off + p + end,
                 data |-> Bytes(file, off + p + start, off + p + end)]
<1>5. c \in Call /\ c.start = u.start /\ c.end = u.end
  BY <1>1, <1>2, <1>4 DEF Call
<1>6. calls' = Append(calls, c)
  BY <1>1
<1> HIDE DEF c
<1>7. /\ Len(calls) \in Nat /\ Len(calls') = Len(calls) + 1 /\ calls' # <<>>
      /\ \A k \in 1 .. Len(calls) : calls'[k] = calls[k]
      /\ calls'[Len(calls) + 1] = c
  BY <1>5, <1>6, AppendProperties, LenProperties DEF Typed
<1>8. \A v \in Ended(file) : v.start - 3 >= off + p => u.start <= v.start
  BY <1>1, <1>4, Zenon
<1> QED
  BY <1>1, <1>3, <1>4, <1>5, <1>7, <1>8, Zenon

\* It ends before any other that is ahead.
LEMMA CalledFirst ==
  ASSUME Typed, UnitsOnly, Tight, NEW u \in Ended(file),
         u.start < u.end, u.start >= off + p, u.end + 4 <= pos,
         \A v \in Ended(file) : v.start - 3 >= off + p => u.start <= v.start
  PROVE  u \in Ahead /\ \A v \in Ahead : u.end <= v.end
<1>1. /\ file \in Seq(0 .. 255) /\ pos \in Nat /\ pos <= Len(file) /\ Len(file) \in Nat
      /\ off + p \in Nat
  BY Places
<1>2. Reached \in Nat /\ Reached <= off + p
  BY Reaches DEF UnitsOnly
<1>3. u.start \in Nat /\ u.end \in Nat
  BY <1>1, UnitsAre
<1>4. u \in Ahead
  BY <1>1, <1>2, <1>3, PendingAre
<1>5. off + p = Reached
  <2>1. ~(u.end + 4 > Len(file))
    BY <1>1, <1>3
  <2> QED
    BY <1>4, <2>1 DEF Tight
<1>6. ASSUME NEW v \in Ahead PROVE u.end <= v.end
  <2>1. v \in Ended(file) /\ v.start - 3 >= off + p
    BY <1>5, AheadAre
  <2>2. u.start <= v.start
    BY <2>1
  <2> QED
    BY <1>1, <2>1, <2>2, UnitsOrdered
<1> QED
  BY <1>4, <1>6

LEMMA DeliverKept ==
  ASSUME StreamInv, NEW junk \in Junk, Deliver(junk)
  PROVE  UnitsOnly' /\ Kept'
<1>1. Typed /\ UnitsOnly /\ Kept
  BY DEF StreamInv
<1>2. PICK u \in Ended(file) :
           /\ u.start < u.end /\ u.start >= off + p /\ u.end + 4 <= pos
           /\ \A v \in Ended(file) : v.start - 3 >= off + p => u.start <= v.start
           /\ off' + p' = u.end
           /\ UNCHANGED <<file, pos, buf, pc>> /\ pc = "scan"
           /\ Len(calls) \in Nat /\ Len(calls') = Len(calls) + 1 /\ calls' # <<>>
           /\ \A k \in 1 .. Len(calls) : calls'[k] = calls[k]
           /\ calls'[Len(calls) + 1].start = u.start /\ calls'[Len(calls) + 1].end = u.end
  BY <1>1, Called, Zenon
<1>3. file \in Seq(0 .. 255)
  BY <1>1, Places
<1>4. u.start \in Nat /\ u.end \in Nat /\ u = [start |-> u.start, end |-> u.end]
  BY <1>3, UnitsAre
<1>5. Reached' = u.end /\ off' + p' = Reached'
  BY <1>2 DEF Reached
<1>6. \A k \in 1 .. Len(calls') : k \in 1 .. Len(calls) \/ k = Len(calls) + 1
  BY <1>2
<1>7. UnitsOnly'
  <2>1. ASSUME NEW k \in 1 .. Len(calls')
        PROVE  /\ Unit(calls'[k]) \in Ended(file) /\ calls'[k].start < calls'[k].end
               /\ calls'[k].end + 4 <= Len(file)
    <3>1. CASE k \in 1 .. Len(calls)
      BY <1>1, <1>2, <3>1, Zenon DEF UnitsOnly
    <3>2. CASE k = Len(calls) + 1
      <4>1. Unit(calls'[k]) = u
        BY <1>2, <1>4, <3>2, Zenon DEF Unit
      <4>2. u.end + 4 <= Len(file)
        <5>1. pos \in Nat /\ Len(file) \in Nat /\ pos <= Len(file)
          BY <1>1, Places
        <5> QED
          BY <1>2, <1>4, <5>1
      <4> QED
        BY <1>2, <3>2, <4>1, <4>2, Zenon
    <3> QED
      BY <1>6, <3>1, <3>2
  <2>2. Reached' <= off' + p'
    BY <1>4, <1>5
  <2>3. file' = file
    BY <1>2
  <2> QED
    BY <2>1, <2>2, <2>3, Zenon DEF UnitsOnly, Unit
<1>8. Framing!Fits(file) => Behind'
  <2> SUFFICES ASSUME Framing!Fits(file) PROVE Behind'
    OBVIOUS
  <2>1. Tight /\ Behind /\ \A v \in Ahead : u.end <= v.end
    BY <1>1, <1>2, CalledFirst DEF Kept
  <2>2. ASSUME NEW v \in Ended(file), v.start < u.end
        PROVE  \E k \in 1 .. Len(calls') : calls'[k].start = v.start /\ calls'[k].end = v.end
    <3>1. v.start \in Nat /\ v.end \in Nat /\ v.start < v.end /\ v.end <= u.end
      BY <1>2, <1>3, <2>2, UnitsAre, UnitsOrdered, FitsMeans
    <3>2. CASE v.start < Reached
      <4>1. PICK k \in 1 .. Len(calls) : calls[k].start = v.start /\ calls[k].end = v.end
        BY <2>1, <3>2 DEF Behind
      <4>2. k \in 1 .. Len(calls') /\ calls'[k] = calls[k]
        BY <1>2
      <4> QED
        BY <4>1, <4>2
    <3>3. CASE v.start >= Reached
      <4>1. u.end <= v.end
        BY <2>1, <3>1, <3>3, PendingAre
      <4>2. v.start = u.start
        <5>1. ~(u.start < v.start)
          BY <1>3, <1>4, <3>1, <4>1, UnitsApart
        <5>2. ~(v.start < u.start)
          BY <1>2, <1>3, <1>4, <3>1, <4>1, UnitsApart
        <5> QED
          BY <1>4, <3>1, <5>1, <5>2
      <4>3. v = u
        BY <1>3, <4>2, UnitsApart
      <4>4. Len(calls) + 1 \in 1 .. Len(calls')
        BY <1>2
      <4> QED
        BY <1>2, <4>3, <4>4
    <3>4. Reached \in Nat
      BY <1>1, Reaches
    <3> QED
      BY <3>1, <3>2, <3>3, <3>4
  <2>3. file' = file
    BY <1>2
  <2> QED
    BY <1>5, <2>2, <2>3, Zenon DEF Behind
<1>9. Framing!Fits(file)' => Framing!Fits(file)
  BY <1>2, FitsMeans
<1>10. Tight' /\ Unread'
  BY <1>2, <1>5 DEF Tight, Unread
<1> QED
  BY <1>7, <1>8, <1>9, <1>10 DEF Kept

\* The other steps call nothing.
LEMMA SilentKept ==
  ASSUME StreamInv, UNCHANGED <<file, calls>>
  PROVE  /\ Reached' = Reached /\ Ahead' = Ahead /\ Framing!Fits(file)' = Framing!Fits(file)
         /\ Behind' = Behind
         /\ Reached <= off' + p' => UnitsOnly'
<1>1. Reached' = Reached
  BY DEF Reached
<1>2. Ahead' = Ahead
  BY <1>1, Zenon DEF Ahead
<1>3. Framing!Fits(file)' = Framing!Fits(file)
  BY Zenon
<1>4. Behind' = Behind
  BY <1>1, Zenon DEF Behind
<1>5. Reached <= off' + p' => UnitsOnly'
  BY <1>1, Zenon DEF StreamInv, UnitsOnly, Unit
<1> QED
  BY <1>1, <1>2, <1>3, <1>4, <1>5

LEMMA ReadKept == ASSUME StreamInv, Read \/ EndOfFile \/ UNCHANGED vars PROVE UnitsOnly' /\ Kept'
<1>1. /\ UNCHANGED <<file, p, off, calls>>
      /\ pc' = "scan" \/ (pos' = pos /\ pc' = pc) \/ (pos' = pos /\ pc = "read")
  BY DEF Read, EndOfFile, vars
<1>2. /\ Reached' = Reached /\ Ahead' = Ahead /\ Framing!Fits(file)' = Framing!Fits(file)
      /\ Behind' = Behind /\ (Reached <= off' + p' => UnitsOnly')
  BY <1>1, SilentKept
<1>3. UnitsOnly'
  BY <1>1, <1>2 DEF StreamInv, UnitsOnly
<1>4. Framing!Fits(file)' => Tight' /\ Unread' /\ Behind'
  <2> SUFFICES ASSUME Framing!Fits(file) PROVE Tight' /\ Unread' /\ Behind'
    BY <1>2
  <2>1. Tight /\ Unread /\ Behind
    BY DEF StreamInv, Kept
  <2>2. Tight'
    BY <1>1, <1>2, <2>1, Zenon DEF Tight
  <2>3. Unread'
    <3>1. pc' # "scan" => pos' = pos /\ pc # "scan"
      BY <1>1
    <3> QED
      BY <1>2, <2>1, <3>1, Zenon DEF Unread
  <2> QED
    BY <1>2, <2>1, <2>2, <2>3
<1> QED
  BY <1>3, <1>4 DEF Kept

LEMMA DiscardKept ==
  ASSUME StreamInv, NEW junk \in Junk, Discard(junk)
  PROVE  UnitsOnly' /\ Kept'
<1>1. /\ pc = "scan" /\ Scan(junk).ret <= 0 /\ p = 0 /\ off' = off + Len(buf) /\ p' = p
      /\ pos' = pos /\ UNCHANGED <<file, calls>>
  BY DEF Discard
<1>2. /\ Reached' = Reached /\ Ahead' = Ahead /\ Framing!Fits(file)' = Framing!Fits(file)
      /\ Behind' = Behind /\ (Reached <= off' + p' => UnitsOnly')
  BY <1>1, SilentKept
<1>3. Typed /\ UnitsOnly /\ Kept
  BY DEF StreamInv
<1>4. /\ pos \in Nat /\ off \in Nat /\ off <= pos /\ Len(buf) = pos - off /\ BufSize \in Nat
      /\ Reached \in Nat /\ Reached <= off
      /\ Len(buf) = BufSize \/ pos = Len(file)
  <2>1. off + p = off /\ Reached \in Nat /\ Reached <= off + p
    BY <1>1, <1>3, Places, Reaches DEF UnitsOnly
  <2> QED
    BY <1>1, <1>3, <2>1, Places DEF Typed, Place
<1>5. UnitsOnly'
  BY <1>1, <1>2, <1>4
<1>6. Framing!Fits(file)' => Tight' /\ Unread' /\ Behind'
  <2> SUFFICES ASSUME Framing!Fits(file) PROVE Tight' /\ Unread' /\ Behind'
    BY <1>2
  <2>1. Tight /\ Behind
    BY <1>3 DEF Kept
  <2>2. \A v \in Ahead : v.end + 4 > pos
    BY <1>1, <1>3, <2>1, NothingLeft
  <2>3. \A v \in Ahead : v.end + 4 > Len(file)
    <3>1. CASE pos = Len(file)
      BY <2>2, <3>1
    <3>2. CASE Len(buf) = BufSize /\ off + p = Reached
      <4>1. pos = Reached + BufSize
        BY <1>1, <1>4, <3>2
      <4>2. SUFFICES ASSUME Ahead # {} PROVE FALSE
        BY Zenon
      <4>3. PICK v \in Ahead : v.end + 4 <= Reached + BufSize
        BY <1>3, <4>2, NextFits
      <4>4. v.end \in Nat /\ v.end + 4 > pos
        BY <1>3, <2>2, AheadAre
      <4> QED
        BY <1>4, <4>1, <4>3, <4>4
    <3> QED
      BY <1>4, <2>1, <3>1, <3>2 DEF Tight
  <2>4. Tight'
    BY <1>1, <1>2, <2>3, Zenon DEF Tight
  <2>5. Unread'
    BY <1>1, <1>2, <2>2, Zenon DEF Unread
  <2> QED
    BY <1>2, <2>1, <2>4, <2>5
<1> QED
  BY <1>5, <1>6 DEF Kept

LEMMA KeepRestKept ==
  ASSUME StreamInv, NEW junk \in Junk, KeepRest(junk)
  PROVE  UnitsOnly' /\ Kept'
<1>1. /\ pc = "scan" /\ Scan(junk).ret <= 0 /\ off' = off + p /\ p' = 0
      /\ pos' = pos /\ UNCHANGED <<file, calls>>
  BY DEF KeepRest
<1>2. /\ Reached' = Reached /\ Ahead' = Ahead /\ Framing!Fits(file)' = Framing!Fits(file)
      /\ Behind' = Behind /\ (Reached <= off' + p' => UnitsOnly')
  BY <1>1, SilentKept
<1>3. Typed /\ UnitsOnly /\ Kept
  BY DEF StreamInv
<1>4. off' + p' = off + p
  BY <1>1, <1>3, Places
<1>5. UnitsOnly'
  BY <1>2, <1>3, <1>4 DEF UnitsOnly
<1>6. Framing!Fits(file)' => Tight' /\ Unread' /\ Behind'
  <2> SUFFICES ASSUME Framing!Fits(file) PROVE Tight' /\ Unread' /\ Behind'
    BY <1>2
  <2>1. Tight /\ Behind
    BY <1>3 DEF Kept
  <2>2. \A v \in Ahead : v.end + 4 > pos
    BY <1>1, <1>3, <2>1, NothingLeft
  <2>3. Tight'
    BY <1>1, <1>2, <1>4, <2>1, Zenon DEF Tight
  <2>4. Unread'
    BY <1>1, <1>2, <2>2, Zenon DEF Unread
  <2> QED
    BY <1>2, <2>1, <2>3, <2>4
<1> QED
  BY <1>5, <1>6 DEF Kept

LEMMA InitKept == Init => StreamInv
<1> SUFFICES ASSUME Init PROVE StreamInv
  OBVIOUS
<1>1. Typed /\ Reached = 0 /\ off + p = Reached /\ Len(calls) = 0 /\ pos = 0
  BY InitTyped DEF Init, Reached
<1>2. UnitsOnly
  BY <1>1 DEF UnitsOnly
<1>3. Unread
  <2>1. \A v \in Ahead : v.end \in Nat
    BY <1>1, <1>2, AheadAre
  <2> QED
    BY <1>1, <2>1 DEF Unread
<1>4. Behind
  <2>1. \A v \in Ended(file) : v.start \in Nat
    BY <1>1, Places, UnitsAre
  <2> QED
    BY <1>1, <2>1 DEF Behind
<1> QED
  BY <1>1, <1>2, <1>3, <1>4 DEF StreamInv, Kept, Tight

LEMMA NextKept == StreamInv /\ [Next]_vars => StreamInv'
<1> SUFFICES ASSUME StreamInv, [Next]_vars PROVE StreamInv'
  OBVIOUS
<1>1. Typed'
  BY NextTyped DEF StreamInv
<1>2. UnitsOnly' /\ Kept'
  BY ReadKept, DeliverKept, DiscardKept, KeepRestKept DEF Next
<1> QED
  BY <1>1, <1>2 DEF StreamInv

\* When the loop ends, the units of the file that were not delivered are those of
\* its last three bytes and the one that ends with it, if the others fit.
THEOREM OnlyTheEndIsLost == Spec => []LosesOnlyTheEnd
<1>1. StreamInv => LosesOnlyTheEnd
  <2> SUFFICES ASSUME StreamInv, pc = "done", Framing!Fits(file), NEW u \in Units(file)
               PROVE  (\E c \in 1 .. Len(calls) : calls[c].start = u.start /\ calls[c].end = u.end)
                        <=> u.end + 4 <= Len(file)
    BY DEF LosesOnlyTheEnd
  <2>1. Typed /\ UnitsOnly /\ Behind /\ Unread /\ pos = Len(file)
    BY DEF StreamInv, Kept, Typed, Place
  <2>2. ASSUME NEW c \in 1 .. Len(calls), calls[c].end = u.end
        PROVE  u.end + 4 <= Len(file)
    BY <2>1, <2>2 DEF UnitsOnly
  <2>3. ASSUME u.end + 4 <= Len(file)
        PROVE  \E c \in 1 .. Len(calls) : calls[c].start = u.start /\ calls[c].end = u.end
    <3>1. u \in Ended(file) /\ file \in Seq(0 .. 255)
      BY <2>1, <2>3, Places, EndedBefore
    <3>2. u.start \in Nat /\ u.end \in Nat /\ Len(file) \in Nat /\ u.start < u.end
      BY <2>1, <3>1, Places, UnitsAre, FitsMeans
    <3>3. u \notin Ahead
      BY <2>1, <2>3, <3>2 DEF Unread
    <3>4. Reached \in Nat
      BY <2>1, Reaches
    <3>5. u.start < Reached
      BY <3>1, <3>2, <3>3, <3>4, PendingAre
    <3> QED
      BY <2>1, <3>1, <3>5 DEF Behind
  <2> QED
    BY <2>2, <2>3
<1> QED
  BY <1>1, InitKept, NextKept, PTL DEF Spec

----------------------------------------------------------------------------
(***************************************************************************)
(* The loop implements NalFraming.                                         *)
(***************************************************************************)

Span == [start : Nat, end : Nat]

Spans(cs) == [c \in 1 .. Len(cs) |-> [start |-> cs[c].start, end |-> cs[c].end]]

Delivered == Spans(calls)

LEMMA SpansAre ==
  ASSUME NEW cs \in Seq(Call)
  PROVE  /\ Spans(cs) \in Seq(Span) /\ Len(Spans(cs)) = Len(cs) /\ Len(cs) \in Nat
         /\ \A c \in 1 .. Len(cs) : Spans(cs)[c] = Unit(cs[c])
<1>1. Len(cs) \in Nat /\ \A c \in 1 .. Len(cs) : cs[c] \in Call
  BY ElementOfSeq, LenProperties
<1>2. \A c \in 1 .. Len(cs) : Unit(cs[c]) \in Span
  BY <1>1 DEF Unit, Call, Span
<1>3. \A c \in 1 .. Len(cs) : Spans(cs)[c] = Unit(cs[c])
  BY Zenon DEF Spans, Unit
<1>4. Spans(cs) \in [1 .. Len(cs) -> Span]
  BY <1>2, Zenon DEF Spans, Unit
<1>5. Spans(cs) \in Seq(Span)
  BY <1>1, <1>4, SeqDef, Zenon
<1>6. Len(Spans(cs)) \in Nat /\ 1 .. Len(Spans(cs)) = 1 .. Len(cs)
  BY <1>4, <1>5, LenProperties, Zenon
<1>7. Len(Spans(cs)) = Len(cs)
  <2> DEFINE m == Len(Spans(cs))  n == Len(cs)
  <2>1. m \in Nat /\ n \in Nat /\ 1 .. m = 1 .. n
    BY <1>1, <1>6
  <2> HIDE DEF m, n
  <2>2. m = n
    BY <2>1
  <2> QED
    BY <2>2 DEF m, n
<1> QED
  BY <1>1, <1>3, <1>5, <1>7

LEMMA SameFrontier ==
  ASSUME calls \in Seq(Call)
  PROVE  Framing!Frontier = Reached
<1>1. /\ Delivered \in Seq(Span) /\ Len(Delivered) = Len(calls) /\ Len(calls) \in Nat
      /\ \A c \in 1 .. Len(calls) : Delivered[c] = Unit(calls[c])
  BY SpansAre DEF Delivered
<1>2. Framing!Frontier = IF Delivered = <<>> THEN 0 ELSE Delivered[Len(Delivered)].end
  BY DEF Framing!Frontier, Delivered, Spans
<1>3. Delivered = <<>> <=> calls = <<>>
  BY <1>1, EmptySeq
<1>4. calls # <<>> => Len(calls) \in 1 .. Len(calls)
  BY EmptySeq
<1>5. calls # <<>> => Delivered[Len(Delivered)].end = calls[Len(calls)].end
  <2>1. Unit(calls[Len(calls)]).end = calls[Len(calls)].end
    BY DEF Unit
  <2> QED
    BY <1>1, <1>4, <2>1, Zenon
<1> QED
  BY <1>2, <1>3, <1>5, Zenon DEF Reached

LEMMA DeliverFrames ==
  ASSUME StreamInv, NEW junk \in Junk, Deliver(junk)
  PROVE  Framing!Next
<1>1. Typed /\ UnitsOnly /\ Kept /\ calls \in Seq(Call)
  BY DEF StreamInv, Typed
<1>2. PICK u \in Ended(file) :
           /\ u.start < u.end /\ u.start >= off + p /\ u.end + 4 <= pos
           /\ \A v \in Ended(file) : v.start - 3 >= off + p => u.start <= v.start
           /\ off' + p' = u.end
           /\ UNCHANGED <<file, pos, buf, pc>> /\ pc = "scan"
           /\ Len(calls) \in Nat /\ Len(calls') = Len(calls) + 1 /\ calls' # <<>>
           /\ \A k \in 1 .. Len(calls) : calls'[k] = calls[k]
           /\ calls'[Len(calls) + 1].start = u.start /\ calls'[Len(calls) + 1].end = u.end
  BY <1>1, Called, Zenon
<1>3. u.start \in Nat /\ u.end \in Nat /\ u = [start |-> u.start, end |-> u.end]
  BY <1>1, Places, UnitsAre
<1>4. u \in Ahead
  <2>1. Reached \in Nat /\ Reached <= off + p /\ off + p \in Nat
    BY <1>1, Reaches, Places DEF UnitsOnly
  <2>2. u.start >= Reached
    BY <1>2, <1>3, <2>1
  <2> QED
    BY <1>2, <2>2, PendingAre
<1>5. Framing!Fits(file) => \A v \in Ahead : u.end <= v.end
  BY <1>1, <1>2, CalledFirst DEF Kept
<1>6. Delivered' = Append(Delivered, u)
  <2>1. calls' \in Seq(Call)
    <3>1. Typed'
      BY <1>1, DeliverTyped
    <3> QED
      BY <3>1 DEF Typed
  <2>2. /\ Delivered \in Seq(Span) /\ Len(Delivered) = Len(calls)
        /\ \A c \in 1 .. Len(calls) : Delivered[c] = Unit(calls[c])
    BY <1>1, SpansAre DEF Delivered
  <2>3. /\ Delivered' \in Seq(Span) /\ Len(Delivered') = Len(calls')
        /\ \A c \in 1 .. Len(calls') : Delivered'[c] = Unit(calls'[c])
    BY <2>1, SpansAre DEF Delivered
  <2>4. u \in Span
    BY <1>3 DEF Span
  <2>5. PICK t : t = Append(Delivered, u)
    OBVIOUS
  <2>6. /\ t \in Seq(Span) /\ Len(t) = Len(calls) + 1
        /\ \A i \in 1 .. Len(calls) : t[i] = Delivered[i]
        /\ t[Len(calls) + 1] = u
    <3>1. Delivered \in Seq(Span)
      BY <2>2
    <3>2. /\ Append(Delivered, u) \in Seq(Span)
          /\ Len(Append(Delivered, u)) = Len(Delivered) + 1
          /\ \A i \in 1 .. Len(Delivered) : Append(Delivered, u)[i] = Delivered[i]
          /\ Append(Delivered, u)[Len(Delivered) + 1] = u
      BY <2>4, <3>1, AppendProperties
    <3> QED
      BY <2>2, <2>5, <3>2, Zenon
  <2>7. \A c \in 1 .. Len(calls') : Delivered'[c] = t[c]
    <3> TAKE c \in 1 .. Len(calls')
    <3>1. CASE c \in 1 .. Len(calls)
      <4>1. Delivered'[c] = Unit(calls'[c]) /\ calls'[c] = calls[c]
        BY <1>2, <2>3, <3>1, Zenon
      <4> QED
        BY <2>2, <2>6, <3>1, <4>1, Zenon
    <3>2. CASE c = Len(calls) + 1
      <4>1. Delivered'[c] = Unit(calls'[c])
        BY <2>3, Zenon
      <4>2. Unit(calls'[c]) = u
        BY <1>2, <1>3, <3>2, Zenon DEF Unit
      <4> QED
        BY <2>6, <3>2, <4>1, <4>2, Zenon
    <3>3. c \in 1 .. Len(calls) \/ c = Len(calls) + 1
      BY <1>2
    <3> QED
      BY <3>1, <3>2, <3>3
  <2>8. Delivered' = t
    BY <1>2, <2>3, <2>6, <2>7, SeqEqual
  <2> QED
    BY <2>5, <2>8
<1>7. Framing!Pending(file, Framing!Frontier) = Ahead
  BY <1>1, SameFrontier, Zenon DEF Ahead
<1>8. file' = file
  BY <1>2
<1> QED
  BY <1>4, <1>5, <1>6, <1>7, <1>8, Zenon DEF Framing!Next, Framing!Deliver, Delivered, Spans

\* The loop implements NalFraming, whatever the files and the buffer: nothing
\* but units, in order, and none that fits skipped.
THEOREM LoopImplementsFraming == Spec => ImplementsFraming
<1>1. Init => Framing!Init
  <2> SUFFICES ASSUME Init PROVE Framing!Init
    OBVIOUS
  <2>1. file \in Files /\ calls = <<>> /\ calls \in Seq(Call) /\ Len(calls) = 0
    BY EmptySeq DEF Init
  <2>2. Delivered \in Seq(Span) /\ Len(Delivered) = 0
    BY <2>1, SpansAre DEF Delivered
  <2>3. Delivered = <<>>
    BY <2>2, EmptySeq
  <2> QED
    BY <2>1, <2>3, Zenon DEF Framing!Init, Delivered, Spans
<1>2. StreamInv /\ [Next]_vars => [Framing!Next]_<<file, Delivered>>
  <2> SUFFICES ASSUME StreamInv, [Next]_vars PROVE [Framing!Next]_<<file, Delivered>>
    OBVIOUS
  <2>1. ASSUME UNCHANGED <<file, calls>> PROVE UNCHANGED <<file, Delivered>>
    BY <2>1, Zenon DEF Delivered, Spans
  <2>2. CASE Read \/ EndOfFile \/ UNCHANGED vars
    BY <2>1, <2>2 DEF Read, EndOfFile, vars
  <2>3. ASSUME NEW junk \in Junk, Deliver(junk) \/ Discard(junk) \/ KeepRest(junk)
        PROVE  [Framing!Next]_<<file, Delivered>>
    BY <2>1, <2>3, DeliverFrames DEF Discard, KeepRest
  <2> QED
    BY <2>2, <2>3 DEF Next
<1> QED
  BY <1>1, <1>2, InitKept, NextKept, PTL
     DEF Spec, ImplementsFraming, Framing!Spec, Delivered, Spans
=============================================================================
