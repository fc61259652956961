---------------------------- MODULE SyntaxProofs ----------------------------
(***************************************************************************)
(* Proofs about Syntax, for every stream of units and every way to fill in *)
(* and to send them.                                                       *)
(*                                                                         *)
(* The readers decide from the fields they have taken what comes next.  So *)
(* first, each group of elements follows from the values of its own        *)
(* elements: if two sides agree on the elements that one of them has come  *)
(* to, then the other comes to the same ones (PayloadFollows,              *)
(* NalUnitFollows).  With it a reader which has taken the first i elements *)
(* of a unit expects the one that comes next (NextElement), and stores it  *)
(* where the writer had it, number, sign, list or extension list           *)
(* (ElementRead); so, by induction over the codes, it takes the whole unit *)
(* and stops where that ends (UnitIsRead).  What holds between the writer  *)
(* and its readers from unit to unit is IInv, below; it needs that the     *)
(* units are Sendable.                                                     *)
(***************************************************************************)
EXTENDS Syntax, SequenceTheorems, WellFoundedInduction, TLAPS

(***************************************************************************)
(* Induction.                                                              *)
(***************************************************************************)

\* Induction over the naturals, for a set of them, and up to a bound.
LEMMA Induction ==
  ASSUME NEW S, 0 \in S, \A n \in Nat : n \in S => n + 1 \in S
  PROVE  Nat \subseteq S
<1> SUFFICES ASSUME Nat \ S # {} PROVE FALSE
  OBVIOUS
<1>1. PICK m \in Nat \ S : \A y \in Nat \ S : <<y, m>> \notin OpToRel(<, Nat)
  BY NatLessThanWellFounded, WFMin
<1>2. \A y \in Nat : y < m => <<y, m>> \in OpToRel(<, Nat)
  BY DEF OpToRel
<1>3. m # 0 /\ m - 1 \in Nat /\ m - 1 < m
  OBVIOUS
<1>4. m - 1 \in S
  BY <1>1, <1>2, <1>3
<1> QED BY <1>3, <1>4

LEMMA BoundedInduction ==
  ASSUME NEW N \in Nat, NEW S, 0 \in S,
         \A n \in 0 .. N - 1 : n \in S => n + 1 \in S
  PROVE  \A n \in 0 .. N : n \in S
<1> DEFINE T == {n \in Nat : n <= N => n \in S}
<1>1. 0 \in T
  OBVIOUS
<1>2. ASSUME NEW n \in Nat, n \in T PROVE n + 1 \in T
  BY <1>2
<1>3. Nat \subseteq T
  <2> HIDE DEF T
  <2> QED BY <1>1, <1>2, Induction
<1> QED BY <1>3

(***************************************************************************)
(* Sequences, joined.                                                      *)
(***************************************************************************)

IsSeq(a) == \E S : a \in Seq(S)

\* All entries of a are in A.
Held(a, A) == \A i \in DOMAIN a : a[i] \in A

\* A sequence is a function on 1 .. its length.
LEMMA SeqFacts ==
  ASSUME NEW a, IsSeq(a)
  PROVE  Len(a) \in Nat /\ DOMAIN a = 1 .. Len(a) /\ a \in Seq(ToSet(a))
<1>1. PICK S : a \in Seq(S)
  BY DEF IsSeq
<1>2. Len(a) \in Nat /\ DOMAIN a = 1 .. Len(a)
  BY <1>1
<1>3. \A i \in 1 .. Len(a) : a[i] \in ToSet(a)
  BY <1>2 DEF ToSet
<1>4. a = [i \in 1 .. Len(a) |-> a[i]]
  BY <1>1
<1> QED BY <1>2, <1>3, <1>4

LEMMA Literals ==
  /\ IsSeq(<<>>) /\ \A S : \A a \in Seq(S) : IsSeq(a)
  /\ \A x1 : IsSeq(<<x1>>)
  /\ \A x1, x2 : IsSeq(<<x1, x2>>)
  /\ \A x1, x2, x3 : IsSeq(<<x1, x2, x3>>)
<1>1. \A S : \A a \in Seq(S) : IsSeq(a)
  BY DEF IsSeq
<1>2. IsSeq(<<>>)
  BY DEF IsSeq
<1>3. \A x1 : IsSeq(<<x1>>)
  <2> TAKE x1
  <2>1. <<x1>> \in Seq({x1})
    OBVIOUS
  <2> QED BY <1>1, <2>1
<1>4. \A x1, x2 : IsSeq(<<x1, x2>>)
  <2> TAKE x1, x2
  <2>1. <<x1, x2>> \in Seq({x1, x2})
    OBVIOUS
  <2> QED BY <1>1, <2>1
<1>5. \A x1, x2, x3 : IsSeq(<<x1, x2, x3>>)
  <2> TAKE x1, x2, x3
  <2>1. <<x1, x2, x3>> \in Seq({x1, x2, x3})
    OBVIOUS
  <2> QED BY <1>1, <2>1
<1> QED BY <1>1, <1>2, <1>3, <1>4, <1>5

\* What a concatenation of two sequences is.
LEMMA Joined ==
  ASSUME NEW a, NEW b, IsSeq(a), IsSeq(b)
  PROVE  /\ IsSeq(a \o b) /\ Len(a \o b) = Len(a) + Len(b)
         /\ \A i \in 1 .. Len(a) : (a \o b)[i] = a[i]
         /\ \A i \in 1 .. Len(b) : (a \o b)[Len(a) + i] = b[i]
         /\ \A A : Held(a \o b, A) <=> Held(a, A) /\ Held(b, A)
         /\ ToSet(a \o b) = ToSet(a) \cup ToSet(b)
<1>1. /\ a \in Seq(ToSet(a)) /\ Len(a) \in Nat /\ DOMAIN a = 1 .. Len(a)
      /\ b \in Seq(ToSet(b)) /\ Len(b) \in Nat /\ DOMAIN b = 1 .. Len(b)
  BY SeqFacts
<1> DEFINE S == ToSet(a) \cup ToSet(b)
<1>2. a \in Seq(S) /\ b \in Seq(S)
  BY <1>1
<1> HIDE DEF S
<1>3. a \o b \in Seq(S) /\ Len(a \o b) = Len(a) + Len(b)
  BY <1>2
<1>4. /\ \A i \in 1 .. Len(a) : (a \o b)[i] = a[i]
      /\ \A i \in 1 .. Len(b) : (a \o b)[Len(a) + i] = b[i]
  BY <1>1, <1>2
<1>5. DOMAIN (a \o b) = 1 .. Len(a) + Len(b)
  BY <1>3
<1>6. \A i \in 1 .. Len(a) + Len(b) :
        i \in 1 .. Len(a) \/ \E k \in 1 .. Len(b) : i = Len(a) + k
  <2> TAKE i \in 1 .. Len(a) + Len(b)
  <2>1. CASE i > Len(a)
    <3>1. i - Len(a) \in 1 .. Len(b) /\ i = Len(a) + (i - Len(a))
      BY <1>1, <2>1
    <3> QED BY <3>1
  <2> QED BY <1>1, <2>1
<1>7. \A i \in 1 .. Len(a), k \in 1 .. Len(b) :
        i \in 1 .. Len(a) + Len(b) /\ Len(a) + k \in 1 .. Len(a) + Len(b)
  BY <1>1
<1> DEFINE c == a \o b
<1>8. /\ DOMAIN c = 1 .. Len(a) + Len(b) /\ Len(a) \in Nat /\ Len(b) \in Nat
      /\ \A i \in 1 .. Len(a) : c[i] = a[i]
      /\ \A k \in 1 .. Len(b) : c[Len(a) + k] = b[k]
  BY <1>1, <1>4, <1>5
<1> HIDE DEF c
<1>9. ASSUME NEW A PROVE Held(c, A) <=> Held(a, A) /\ Held(b, A)
  <2>1. ASSUME Held(c, A) PROVE Held(a, A) /\ Held(b, A)
    <3>1. ASSUME NEW i \in 1 .. Len(a) PROVE a[i] \in A
      BY <1>7, <1>8, <2>1 DEF Held
    <3>2. ASSUME NEW k \in 1 .. Len(b) PROVE b[k] \in A
      <4>1. Len(a) + k \in 1 .. Len(a) + Len(b)
        BY <1>8
      <4> QED BY <1>8, <2>1, <4>1 DEF Held
    <3> QED BY <1>1, <3>1, <3>2 DEF Held
  <2>2. ASSUME Held(a, A), Held(b, A) PROVE Held(c, A)
    BY <1>1, <1>6, <1>8, <2>2 DEF Held
  <2> QED BY <2>1, <2>2
<1>10. ToSet(c) = ToSet(a) \cup ToSet(b)
  <2>1. ASSUME NEW x \in ToSet(c) PROVE x \in ToSet(a) \cup ToSet(b)
    <3>1. PICK i \in 1 .. Len(a) + Len(b) : x = c[i]
      BY <1>8 DEF ToSet
    <3>2. CASE i \in 1 .. Len(a)
      BY <1>1, <1>8, <3>1, <3>2 DEF ToSet
    <3>3. ASSUME NEW k \in 1 .. Len(b), i = Len(a) + k PROVE x \in ToSet(b)
      BY <1>1, <1>8, <3>1, <3>3 DEF ToSet
    <3> QED BY <1>6, <3>2, <3>3
  <2>2. ToSet(a) \subseteq ToSet(c)
    BY <1>1, <1>7, <1>8 DEF ToSet
  <2>3. ASSUME NEW k \in 1 .. Len(b) PROVE b[k] \in ToSet(c)
    <3>1. Len(a) + k \in 1 .. Len(a) + Len(b)
      BY <1>8
    <3> QED BY <1>8, <3>1 DEF ToSet
  <2> QED BY <1>1, <2>1, <2>2, <2>3 DEF ToSet
<1>11. IsSeq(c)
  BY <1>3, Literals DEF c
<1> QED BY <1>3, <1>4, <1>9, <1>10, <1>11 DEF c

(***************************************************************************)
(* Two sequences of elements follow each other up to a value.              *)
(***************************************************************************)

\* b is a, or they part after an element whose value they do not share: A are
\* the elements whose values are shared.
Follows(a, b, A) ==
  /\ IsSeq(a) /\ IsSeq(b)
  /\ \/ a = b
     \/ \E j \in 1 .. Len(a) :
          j <= Len(b) /\ (\A i \in 1 .. j : a[i] = b[i]) /\ a[j] \notin A

LEMMA SameFollows ==
  ASSUME NEW a, IsSeq(a), NEW A
  PROVE  Follows(a, a, A)
BY DEF Follows

\* Elements that are all held, and followed, are the same.
LEMMA HeldFollows ==
  ASSUME NEW a, NEW b, NEW A, Follows(a, b, A), Held(a, A)
  PROVE  a = b
<1>1. DOMAIN a = 1 .. Len(a)
  BY SeqFacts DEF Follows
<1> QED BY <1>1 DEF Follows, Held

LEMMA FollowsOn ==
  ASSUME NEW a, NEW b, NEW c, NEW e, NEW A, IsSeq(c), IsSeq(e),
         Follows(a, b, A), Held(a, A) => Follows(c, e, A)
  PROVE  Follows(a \o c, b \o e, A)
<1>0. IsSeq(a) /\ IsSeq(b)
  BY DEF Follows
<1>1. /\ Len(a) \in Nat /\ Len(b) \in Nat /\ Len(c) \in Nat /\ Len(e) \in Nat
      /\ DOMAIN a = 1 .. Len(a) /\ DOMAIN c = 1 .. Len(c)
  BY <1>0, SeqFacts
<1>2. /\ IsSeq(a \o c) /\ Len(a \o c) = Len(a) + Len(c)
      /\ \A i \in 1 .. Len(a) : (a \o c)[i] = a[i]
      /\ \A i \in 1 .. Len(c) : (a \o c)[Len(a) + i] = c[i]
  BY <1>0, Joined
<1>3. /\ IsSeq(b \o e) /\ Len(b \o e) = Len(b) + Len(e)
      /\ \A i \in 1 .. Len(b) : (b \o e)[i] = b[i]
      /\ \A i \in 1 .. Len(e) : (b \o e)[Len(b) + i] = e[i]
  BY <1>0, Joined
<1>4. ASSUME NEW j \in 1 .. Len(a), j <= Len(b),
             \A i \in 1 .. j : a[i] = b[i], a[j] \notin A
      PROVE  Follows(a \o c, b \o e, A)
  <2>1. /\ j \in 1 .. Len(a \o c) /\ j <= Len(b \o e)
        /\ \A i \in 1 .. j : i \in 1 .. Len(a) /\ i \in 1 .. Len(b)
    BY <1>1, <1>2, <1>3, <1>4
  <2>2. (\A i \in 1 .. j : (a \o c)[i] = (b \o e)[i]) /\ (a \o c)[j] \notin A
    BY <1>2, <1>3, <1>4, <2>1
  <2> QED BY <1>2, <1>3, <2>1, <2>2 DEF Follows
<1>5. CASE a = b /\ ~ Held(a, A)
  <2>1. PICK j \in 1 .. Len(a) : a[j] \notin A
    BY <1>1, <1>5 DEF Held
  <2> QED BY <1>1, <1>4, <1>5, <2>1
<1>6. CASE a = b /\ Held(a, A)
  <2>1. CASE c = e
    BY <1>2, <1>6, <2>1 DEF Follows
  <2>2. ASSUME NEW j \in 1 .. Len(c), j <= Len(e),
               \A i \in 1 .. j : c[i] = e[i], c[j] \notin A
        PROVE  Follows(a \o c, b \o e, A)
    <3>1. Len(a) + j \in 1 .. Len(a \o c) /\ Len(a) + j <= Len(b \o e)
      BY <1>1, <1>2, <1>3, <1>6, <2>2
    <3>2. ASSUME NEW i \in 1 .. Len(a) + j PROVE (a \o c)[i] = (b \o e)[i]
      <4>1. CASE i \in 1 .. Len(a)
        BY <1>2, <1>3, <1>6, <4>1
      <4>2. CASE i \notin 1 .. Len(a)
        <5>1. i - Len(a) \in 1 .. j /\ i = Len(a) + (i - Len(a))
          BY <1>1, <4>2
        <5>2. i - Len(a) \in 1 .. Len(c) /\ i - Len(a) \in 1 .. Len(e)
          BY <1>1, <2>2, <5>1
        <5>3. (a \o c)[Len(a) + (i - Len(a))] = c[i - Len(a)]
          BY <1>2, <5>2
        <5>4. (b \o e)[Len(b) + (i - Len(a))] = e[i - Len(a)]
          BY <1>3, <5>2
        <5> QED BY <1>6, <2>2, <5>1, <5>3, <5>4
      <4> QED BY <4>1, <4>2
    <3>3. (a \o c)[Len(a) + j] \notin A
      BY <1>2, <2>2
    <3> QED BY <1>2, <1>3, <3>1, <3>2, <3>3 DEF Follows
  <2> QED BY <1>6, <2>1, <2>2 DEF Follows
<1> QED BY <1>4, <1>5, <1>6 DEF Follows

(***************************************************************************)
(* Groups of elements, one after the other.                                *)
(***************************************************************************)

\* What FlattenSeq computes on its way, for the first n of s.
Flat(s, n) ==
  CHOOSE g : g = [i \in 1 .. n |-> IF i = 1 THEN s[i] ELSE g[i - 1] \o s[i]]

LEMMA FlatDefined ==
  ASSUME NEW s, NEW n \in Nat
  PROVE  \A i \in 1 .. n : Flat(s, n)[i] = IF i = 1 THEN s[i] ELSE Flat(s, n)[i - 1] \o s[i]
<1> DEFINE To(m, g) == g = [i \in 1 .. m |-> IF i = 1 THEN s[i] ELSE g[i - 1] \o s[i]]
           S == {m \in Nat : \E g : To(m, g)}
<1>1. 0 \in S
  <2>1. To(0, <<>>)
    OBVIOUS
  <2> QED BY <2>1
<1>2. ASSUME NEW m \in Nat, m \in S PROVE m + 1 \in S
  <2>1. PICK g : To(m, g)
    BY <1>2
  <2> DEFINE last == IF m + 1 = 1 THEN s[m + 1] ELSE g[m] \o s[m + 1]
  <2> HIDE DEF last
  <2> DEFINE k == [i \in 1 .. m + 1 |-> IF i <= m THEN g[i] ELSE last]
  <2>2. /\ k = [i \in 1 .. m + 1 |-> k[i]] /\ \A i \in 1 .. m : k[i] = g[i]
        /\ k[m + 1] = last
    OBVIOUS
  <2> HIDE DEF k
  <2>3. ASSUME NEW i \in 1 .. m + 1 PROVE k[i] = IF i = 1 THEN s[i] ELSE k[i - 1] \o s[i]
    <3>1. CASE i = m + 1
      <4>1. i # 1 => i - 1 = m /\ m \in 1 .. m
        BY <3>1
      <4> QED BY <2>2, <3>1, <4>1 DEF last
    <3>2. CASE i \in 1 .. m
      <4>1. i # 1 => i - 1 \in 1 .. m
        BY <3>2
      <4> QED BY <2>1, <2>2, <3>2, <4>1
    <3> QED BY <3>1, <3>2
  <2>4. To(m + 1, k)
    BY <2>2, <2>3
  <2> HIDE DEF To
  <2> QED BY <2>4
<1>3. \E g : To(n, g)
  <2> HIDE DEF To
  <2>1. Nat \subseteq S
    BY <1>1, <1>2, Induction
  <2> QED BY <2>1
<1>4. Flat(s, n) = CHOOSE g : To(n, g)
  BY DEF Flat
<1>5. To(n, Flat(s, n))
  <2> HIDE DEF To
  <2> QED BY <1>3, <1>4
<1> HIDE DEF Flat
<1> QED BY <1>5

\* The first k groups of s.
Join(s, k) == IF k = 0 THEN <<>> ELSE Flat(s, k)[k]

LEMMA FlatPrefix ==
  ASSUME NEW s, NEW t, NEW n \in Nat, NEW m \in Nat, n <= m,
         \A i \in 1 .. n : s[i] = t[i]
  PROVE  \A i \in 1 .. n : Flat(s, n)[i] = Flat(t, m)[i]
<1> DEFINE f == Flat(s, n)
           g == Flat(t, m)
           S == {k \in Nat : k # 0 => f[k] = g[k]}
<1>1. /\ \A i \in 1 .. n : f[i] = IF i = 1 THEN s[i] ELSE f[i - 1] \o s[i]
      /\ \A i \in 1 .. m : g[i] = IF i = 1 THEN t[i] ELSE g[i - 1] \o t[i]
  BY FlatDefined
<1> HIDE DEF f, g
<1>2. 0 \in S
  OBVIOUS
<1>3. ASSUME NEW k \in 0 .. n - 1, k \in S PROVE k + 1 \in S
  <2>1. k + 1 \in 1 .. n /\ k + 1 \in 1 .. m /\ (k + 1) - 1 = k
    OBVIOUS
  <2> QED BY <1>1, <1>3, <2>1
<1>4. \A k \in 0 .. n : k \in S
  <2> HIDE DEF S
  <2> QED BY <1>2, <1>3, BoundedInduction
<1> QED BY <1>4 DEF f, g

LEMMA Joins ==
  ASSUME NEW s, NEW k \in Nat, IsSeq(s[k + 1])
  PROVE  Join(s, 0) = <<>> /\ Join(s, k + 1) = Join(s, k) \o s[k + 1]
<1>1. Flat(s, k + 1)[k + 1]
      = IF k + 1 = 1 THEN s[k + 1] ELSE Flat(s, k + 1)[(k + 1) - 1] \o s[k + 1]
  BY FlatDefined
<1>2. CASE k = 0
  <2>1. s[k + 1] \in Seq(ToSet(s[k + 1]))
    BY SeqFacts
  <2>2. <<>> \o s[k + 1] = s[k + 1]
    BY <2>1
  <2> QED BY <1>1, <1>2, <2>2 DEF Join
<1>3. CASE k # 0
  <2>1. Flat(s, k)[k] = Flat(s, k + 1)[k]
    <3>1. k \in 1 .. k
      BY <1>3
    <3> QED BY <3>1, FlatPrefix
  <2>2. k + 1 # 1 /\ (k + 1) - 1 = k /\ k + 1 # 0
    BY <1>3
  <2> QED BY <1>1, <1>3, <2>1, <2>2 DEF Join
<1> QED BY <1>2, <1>3

LEMMA FlattenIsJoin ==
  ASSUME NEW s, NEW n \in Nat, s = [i \in 1 .. n |-> s[i]]
  PROVE  FlattenSeq(s) = Join(s, n)
<1>1. Len(s) = n
  <2>1. s \in Seq({s[i] : i \in 1 .. n})
    OBVIOUS
  <2> QED BY <2>1
<1>2. CASE n = 0
  <2>1. s = <<>>
    BY <1>2
  <2> QED BY <1>1, <1>2, <2>1 DEF FlattenSeq, Join
<1>3. CASE n # 0
  BY <1>1, <1>3 DEF FlattenSeq, Join, Flat
<1> QED BY <1>2, <1>3

LEMMA NothingJoined ==
  ASSUME NEW a, IsSeq(a)
  PROVE  a \o <<>> = a
<1>1. a \in Seq(ToSet(a))
  BY SeqFacts
<1> QED BY <1>1

LEMMA JoinIsSeq ==
  ASSUME NEW s, NEW n \in Nat, \A i \in 1 .. n : IsSeq(s[i])
  PROVE  \A k \in 0 .. n : IsSeq(Join(s, k))
<1> DEFINE S == {k \in Nat : IsSeq(Join(s, k))}
<1>1. 0 \in S
  BY Literals DEF Join
<1>2. ASSUME NEW k \in 0 .. n - 1, k \in S PROVE k + 1 \in S
  <2>1. IsSeq(s[k + 1]) /\ k \in Nat /\ IsSeq(Join(s, k))
    BY <1>2
  <2>2. Join(s, k + 1) = Join(s, k) \o s[k + 1]
    BY <2>1, Joins
  <2>3. IsSeq(Join(s, k) \o s[k + 1])
    BY <2>1, Joined
  <2>4. k + 1 \in Nat
    OBVIOUS
  <2> QED BY <2>2, <2>3, <2>4
<1>3. \A k \in 0 .. n : k \in S
  <2> HIDE DEF S
  <2> QED BY <1>1, <1>2, BoundedInduction
<1> QED BY <1>3

LEMMA JoinHeld ==
  ASSUME NEW s, NEW n \in Nat, \A i \in 1 .. n : IsSeq(s[i]), NEW A
  PROVE  Held(Join(s, n), A) <=> \A i \in 1 .. n : Held(s[i], A)
<1> DEFINE S == {k \in Nat : Held(Join(s, k), A) <=> \A i \in 1 .. k : Held(s[i], A)}
<1>1. 0 \in S
  <2>1. Held(<<>>, A)
    BY DEF Held
  <2> QED BY <2>1 DEF Join
<1>2. ASSUME NEW k \in 0 .. n - 1, k \in S PROVE k + 1 \in S
  <2>1. k \in Nat /\ k + 1 \in Nat /\ IsSeq(s[k + 1]) /\ IsSeq(Join(s, k))
    BY JoinIsSeq
  <2>2. Join(s, k + 1) = Join(s, k) \o s[k + 1]
    BY <2>1, Joins
  <2>3. Held(Join(s, k) \o s[k + 1], A) <=> Held(Join(s, k), A) /\ Held(s[k + 1], A)
    BY <2>1, Joined
  <2>4. (\A i \in 1 .. k + 1 : Held(s[i], A))
        <=> (\A i \in 1 .. k : Held(s[i], A)) /\ Held(s[k + 1], A)
    <3>1. \A i \in 1 .. k + 1 : i \in 1 .. k \/ i = k + 1
      OBVIOUS
    <3>2. \A i \in 1 .. k : i \in 1 .. k + 1
      OBVIOUS
    <3>3. k + 1 \in 1 .. k + 1
      OBVIOUS
    <3> QED BY <3>1, <3>2, <3>3, Zenon
  <2>5. Held(Join(s, k + 1), A) <=> \A i \in 1 .. k + 1 : Held(s[i], A)
    BY <1>2, <2>2, <2>3, <2>4, Zenon
  <2> QED BY <2>1, <2>5
<1>3. \A k \in 0 .. n : k \in S
  <2> HIDE DEF S
  <2> QED BY <1>1, <1>2, BoundedInduction
<1>4. n \in S
  <2> HIDE DEF S
  <2> QED BY <1>3
<1> QED BY <1>4

\* What follows an element that is not shared does not matter.
LEMMA JoinParts ==
  ASSUME NEW s, NEW t, NEW k \in Nat, NEW n \in Nat, k <= n, NEW A,
         \A i \in 1 .. n : IsSeq(s[i]), NEW b,
         Follows(Join(s, k), b, A), ~ Held(Join(s, k), A)
  PROVE  Follows(Join(s, n), b, A) /\ ~ Held(Join(s, n), A)
<1> DEFINE S == {j \in Nat : /\ Follows(Join(s, k + j), b, A)
                             /\ ~ Held(Join(s, k + j), A)}
<1>1. 0 \in S
  <2>1. k + 0 = k
    OBVIOUS
  <2> QED BY <2>1
<1>2. ASSUME NEW j \in 0 .. (n - k) - 1, j \in S PROVE j + 1 \in S
  <2>1. /\ k + j \in Nat /\ k + (j + 1) = (k + j) + 1 /\ (k + j) + 1 \in 1 .. n
        /\ k + j \in 0 .. n /\ j + 1 \in Nat
    OBVIOUS
  <2>2. IsSeq(s[(k + j) + 1]) /\ IsSeq(Join(s, k + j))
    BY <2>1, JoinIsSeq
  <2>3. Join(s, (k + j) + 1) = Join(s, k + j) \o s[(k + j) + 1]
    BY <2>1, <2>2, Joins
  <2>4. Follows(Join(s, k + j), b, A) /\ ~ Held(Join(s, k + j), A) /\ IsSeq(b)
    BY <1>2 DEF Follows
  <2>5. Follows(Join(s, k + j) \o s[(k + j) + 1], b \o <<>>, A)
    BY <2>2, <2>4, FollowsOn, Literals
  <2>6. b \o <<>> = b
    BY <2>4, NothingJoined
  <2>7. ~ Held(Join(s, k + j) \o s[(k + j) + 1], A)
    BY <2>2, <2>4, Joined
  <2> QED BY <2>1, <2>3, <2>5, <2>6, <2>7
<1>3. \A j \in 0 .. n - k : j \in S
  <2> HIDE DEF S
  <2> QED BY <1>1, <1>2, BoundedInduction
<1>4. n - k \in S /\ k + (n - k) = n
  <2> HIDE DEF S
  <2> QED BY <1>3
<1> QED BY <1>4

LEMMA FollowsBack ==
  ASSUME NEW a, NEW b, NEW A, Follows(a, b, A)
  PROVE  Follows(b, a, A) /\ (Held(a, A) <=> Held(b, A))
<1>1. /\ Len(a) \in Nat /\ DOMAIN a = 1 .. Len(a) /\ Len(b) \in Nat /\ DOMAIN b = 1 .. Len(b)
  BY SeqFacts DEF Follows
<1>2. ASSUME NEW j \in 1 .. Len(a), j <= Len(b),
             \A i \in 1 .. j : a[i] = b[i], a[j] \notin A
      PROVE  Follows(b, a, A) /\ ~ Held(a, A) /\ ~ Held(b, A)
  <2>1. j \in 1 .. Len(b) /\ j <= Len(a) /\ b[j] = a[j] /\ b[j] \notin A
    BY <1>1, <1>2
  <2> QED BY <1>1, <1>2, <2>1 DEF Follows, Held
<1> QED BY <1>2 DEF Follows

\* Groups that follow one by one follow together.
LEMMA JoinFollows ==
  ASSUME NEW s, NEW t, NEW n \in Nat, NEW A,
         \A i \in 1 .. n : IsSeq(s[i]) /\ IsSeq(t[i]),
         \A i \in 1 .. n : (\A j \in 1 .. i - 1 : Held(s[j], A)) => Follows(s[i], t[i], A)
  PROVE  Follows(Join(s, n), Join(t, n), A)
<1> DEFINE S == {k \in Nat : Follows(Join(s, k), Join(t, k), A)}
<1>1. 0 \in S
  <2>1. Follows(<<>>, <<>>, A)
    BY SameFollows, Literals
  <2> QED BY <2>1 DEF Join
<1>2. ASSUME NEW k \in 0 .. n - 1, k \in S PROVE k + 1 \in S
  <2>1. /\ k \in Nat /\ k + 1 \in Nat /\ k + 1 \in 1 .. n /\ (k + 1) - 1 = k
        /\ \A i \in 1 .. k : i \in 1 .. n
    OBVIOUS
  <2>2. IsSeq(s[k + 1]) /\ IsSeq(t[k + 1]) /\ \A i \in 1 .. k : IsSeq(s[i])
    BY <2>1
  <2>3. /\ Join(s, k + 1) = Join(s, k) \o s[k + 1]
        /\ Join(t, k + 1) = Join(t, k) \o t[k + 1]
    BY <2>1, <2>2, Joins
  <2>4. Follows(Join(s, k), Join(t, k), A)
    BY <1>2
  <2>5. ASSUME Held(Join(s, k), A) PROVE Follows(s[k + 1], t[k + 1], A)
    <3>1. \A j \in 1 .. k : Held(s[j], A)
      BY <2>1, <2>2, <2>5, JoinHeld
    <3> QED BY <2>1, <3>1
  <2>6. Follows(Join(s, k) \o s[k + 1], Join(t, k) \o t[k + 1], A)
    BY <2>2, <2>4, <2>5, FollowsOn
  <2> QED BY <2>1, <2>3, <2>6
<1>3. \A k \in 0 .. n : k \in S
  <2> HIDE DEF S
  <2> QED BY <1>1, <1>2, BoundedInduction
<1>4. n \in S
  <2> HIDE DEF S
  <2> QED BY <1>3
<1> QED BY <1>4

\* Groups of which there is one for each of the same number.
LEMMA EachFollows ==
  ASSUME NEW n, NEW s, NEW t, NEW A, n \in Nat => s = [i \in 1 .. n |-> s[i]],
         n \in Nat => t = [i \in 1 .. n |-> t[i]],
         \A i \in 1 .. n : Follows(s[i], t[i], A)
  PROVE  Follows(When(n \in Nat, FlattenSeq(s)), When(n \in Nat, FlattenSeq(t)), A)
<1>1. CASE n \in Nat
  <2>1. \A i \in 1 .. n : IsSeq(s[i]) /\ IsSeq(t[i])
    BY DEF Follows
  <2>2. Follows(Join(s, n), Join(t, n), A)
    BY <1>1, <2>1, JoinFollows
  <2>3. FlattenSeq(s) = Join(s, n) /\ FlattenSeq(t) = Join(t, n)
    BY <1>1, FlattenIsJoin
  <2> QED BY <1>1, <2>2, <2>3 DEF When
<1>2. CASE n \notin Nat
  BY <1>2, SameFollows, Literals DEF When
<1> QED BY <1>1, <1>2

\* Groups whose number depends on them: the numbers are the same, or a group
\* that both sides have holds a value that they do not share.
LEMMA CountsFollow ==
  ASSUME NEW n \in Nat, NEW m \in Nat, n <= m, NEW s, NEW t, NEW A,
         \A i \in 1 .. n : Follows(s[i], t[i], A),
         \A i \in 1 .. m : IsSeq(t[i]),
         n # m => \E i \in 1 .. n : ~ Held(s[i], A)
  PROVE  Follows(Join(s, n), Join(t, m), A)
<1>1. /\ \A i \in 1 .. n : IsSeq(s[i]) /\ IsSeq(t[i])
  BY DEF Follows
<1>2. Follows(Join(s, n), Join(t, n), A)
  BY <1>1, JoinFollows
<1>3. CASE n # m
  <2>1. ~ Held(Join(s, n), A)
    BY <1>1, <1>3, JoinHeld
  <2>2. Follows(Join(t, n), Join(s, n), A) /\ ~ Held(Join(t, n), A)
    BY <1>2, <2>1, FollowsBack
  <2>3. Follows(Join(t, m), Join(s, n), A)
    BY <2>2, JoinParts
  <2> QED BY <2>3, FollowsBack
<1> QED BY <1>2, <1>3

(***************************************************************************)
(* How the elements of a structure follow each other: rules for the forms  *)
(* in which the grammar is written.                                        *)
(***************************************************************************)

LEMMA LongLiterals ==
  /\ \A x1, x2, x3, x4 : IsSeq(<<x1, x2, x3, x4>>)
  /\ \A x1, x2, x3, x4, x5 : IsSeq(<<x1, x2, x3, x4, x5>>)
  /\ \A x1, x2, x3, x4, x5, x6, x7 : IsSeq(<<x1, x2, x3, x4, x5, x6, x7>>)
  /\ \A x1, x2, x3, x4, x5, x6, x7, x8, x9, x10 :
       IsSeq(<<x1, x2, x3, x4, x5, x6, x7, x8, x9, x10>>)
<1>1. ASSUME NEW x1, NEW x2, NEW x3, NEW x4 PROVE IsSeq(<<x1, x2, x3, x4>>)
  <2>1. <<x1, x2, x3, x4>> \in Seq({x1, x2, x3, x4})
    OBVIOUS
  <2> QED BY <2>1, Literals
<1>2. ASSUME NEW x1, NEW x2, NEW x3, NEW x4, NEW x5 PROVE IsSeq(<<x1, x2, x3, x4, x5>>)
  <2>1. <<x1, x2, x3, x4, x5>> \in Seq({x1, x2, x3, x4, x5})
    OBVIOUS
  <2> QED BY <2>1, Literals
<1>3. ASSUME NEW x1, NEW x2, NEW x3, NEW x4, NEW x5, NEW x6, NEW x7
      PROVE  IsSeq(<<x1, x2, x3, x4, x5, x6, x7>>)
  <2>1. <<x1, x2, x3, x4, x5, x6, x7>> \in Seq({x1, x2, x3, x4, x5, x6, x7})
    OBVIOUS
  <2> QED BY <2>1, Literals
<1>4. ASSUME NEW x1, NEW x2, NEW x3, NEW x4, NEW x5, NEW x6, NEW x7, NEW x8, NEW x9, NEW x10
      PROVE  IsSeq(<<x1, x2, x3, x4, x5, x6, x7, x8, x9, x10>>)
  <2>1. <<x1, x2, x3, x4, x5, x6, x7, x8, x9, x10>>
        \in Seq({x1, x2, x3, x4, x5, x6, x7, x8, x9, x10})
    OBVIOUS
  <2> QED BY <2>1, Literals
<1> QED BY <1>1, <1>2, <1>3, <1>4

LEMMA HeldLiterals ==
  /\ \A A : Held(<<>>, A)
  /\ \A A, x1 : Held(<<x1>>, A) <=> x1 \in A
  /\ \A A, x1, x2 : Held(<<x1, x2>>, A) <=> x1 \in A /\ x2 \in A
  /\ \A A, x1, x2, x3 : Held(<<x1, x2, x3>>, A) <=> x1 \in A /\ x2 \in A /\ x3 \in A
  /\ \A A, x1, x2, x3, x4 :
       Held(<<x1, x2, x3, x4>>, A) <=> x1 \in A /\ x2 \in A /\ x3 \in A /\ x4 \in A
  /\ \A A, x1, x2, x3, x4, x5 :
       Held(<<x1, x2, x3, x4, x5>>, A)
       <=> x1 \in A /\ x2 \in A /\ x3 \in A /\ x4 \in A /\ x5 \in A
<1>1. \A A : Held(<<>>, A) /\ \A x1 : Held(<<x1>>, A) <=> x1 \in A
  BY DEF Held
<1>2. \A A, x1, x2 : Held(<<x1, x2>>, A) <=> x1 \in A /\ x2 \in A
  BY DEF Held
<1>3. \A A, x1, x2, x3 : Held(<<x1, x2, x3>>, A) <=> x1 \in A /\ x2 \in A /\ x3 \in A
  BY DEF Held
<1>4. ASSUME NEW A, NEW x1, NEW x2, NEW x3, NEW x4
      PROVE  Held(<<x1, x2, x3, x4>>, A) <=> x1 \in A /\ x2 \in A /\ x3 \in A /\ x4 \in A
  BY DEF Held
<1>5. ASSUME NEW A, NEW x1, NEW x2, NEW x3, NEW x4, NEW x5
      PROVE  Held(<<x1, x2, x3, x4, x5>>, A)
             <=> x1 \in A /\ x2 \in A /\ x3 \in A /\ x4 \in A /\ x5 \in A
  BY DEF Held
<1> QED BY <1>1, <1>2, <1>3, <1>4, <1>5

LEMMA LiteralRules ==
  /\ IsSeq(<<>>) /\ \A x1 : IsSeq(<<x1>>)
  /\ \A x1, x2 : IsSeq(<<x1, x2>>)
  /\ \A x1, x2, x3 : IsSeq(<<x1, x2, x3>>)
  /\ \A A, x1 : Held(<<x1>>, A) <=> x1 \in A
  /\ \A A, x1, x2 : Held(<<x1, x2>>, A) <=> x1 \in A /\ x2 \in A
  /\ \A A, x1, x2, x3 : Held(<<x1, x2, x3>>, A) <=> x1 \in A /\ x2 \in A /\ x3 \in A
BY Literals, HeldLiterals

LEMMA FollowRules ==
  /\ \A a, b : IsSeq(a) /\ IsSeq(b) => IsSeq(a \o b)
  /\ \A p, a : IsSeq(a) => IsSeq(When(p, a))
  /\ \A a, A : IsSeq(a) => Follows(a, a, A)
  /\ \A a, b, c, e, A :
       /\ IsSeq(c) /\ IsSeq(e)
       /\ Follows(a, b, A) /\ (Held(a, A) => Follows(c, e, A))
       => Follows(a \o c, b \o e, A)
  /\ \A p, a, b, A : (p => Follows(a, b, A)) => Follows(When(p, a), When(p, b), A)
  /\ \A a, b, A : IsSeq(a) /\ IsSeq(b) => (Held(a \o b, A) <=> Held(a, A) /\ Held(b, A))
<1>1. \A a, b : IsSeq(a) /\ IsSeq(b) =>
        IsSeq(a \o b) /\ \A A : (Held(a \o b, A) <=> Held(a, A) /\ Held(b, A))
  BY Joined
<1>2. \A p, a : IsSeq(a) => IsSeq(When(p, a))
  BY Literals DEF When
<1>3. \A a, A : IsSeq(a) => Follows(a, a, A)
  BY SameFollows
<1>4. \A a, b, c, e, A :
       /\ IsSeq(c) /\ IsSeq(e)
       /\ Follows(a, b, A) /\ (Held(a, A) => Follows(c, e, A))
       => Follows(a \o c, b \o e, A)
  BY FollowsOn
<1>5. ASSUME NEW p, NEW a, NEW b, NEW A, p => Follows(a, b, A)
      PROVE  Follows(When(p, a), When(p, b), A)
  BY <1>5, Literals DEF When, Follows
<1> QED BY <1>1, <1>2, <1>3, <1>4, <1>5

\* Fields with these names have the same value in f and g.
Agree(f, g, A) == \A n \in A : f[n] = g[n]

\* Groups of a sequence parameter set.
LEMMA VideoSignalFollows ==
  ASSUME NEW f, NEW g, NEW A, Agree(f, g, A)
  PROVE  Follows(VideoSignal(f), VideoSignal(g), A)
BY FollowRules, LiteralRules DEF VideoSignal, Agree

LEMMA FlaggedListsFollow ==
  ASSUME NEW f, NEW g, NEW A, Agree(f, g, A), NEW flag, NEW count
  PROVE  Follows(FlaggedLists(flag, f, count), FlaggedLists(flag, g, count), A)
<1> DEFINE Group(x, i) == <<At(flag, i)>> \o When(x[At(flag, i)] = 1, <<At("ScalingList", i)>>)
           s == [i \in 1 .. count |-> Group(f, i - 1)]
           t == [i \in 1 .. count |-> Group(g, i - 1)]
<1>1. \A i : Follows(Group(f, i), Group(g, i), A)
  BY FollowRules, LiteralRules DEF Agree
<1> HIDE DEF Group
<1>2. \A i \in 1 .. count : Follows(s[i], t[i], A)
  BY <1>1
<1>3. Follows(When(count \in Nat, FlattenSeq(s)), When(count \in Nat, FlattenSeq(t)), A)
  <2>1. s = [i \in 1 .. count |-> s[i]] /\ t = [i \in 1 .. count |-> t[i]]
    OBVIOUS
  <2> HIDE DEF s, t
  <2> QED BY <1>2, <2>1, EachFollows
<1> QED BY <1>3 DEF FlaggedLists, Each, Group

(***************************************************************************)
(* Names under another name, and elements of a structure.                  *)
(***************************************************************************)

LEMMA Mapped ==
  ASSUME NEW a, IsSeq(a), NEW m, m = [i \in DOMAIN a |-> m[i]]
  PROVE  IsSeq(m) /\ Len(m) = Len(a) /\ DOMAIN m = DOMAIN a
<1>1. Len(a) \in Nat /\ DOMAIN a = 1 .. Len(a)
  BY SeqFacts
<1>2. m \in Seq({m[i] : i \in DOMAIN a})
  BY <1>1
<1>3. Len(m) = Len(a) /\ DOMAIN m = DOMAIN a
  BY <1>1
<1> QED BY <1>2, <1>3, Literals

LEMMA MapFollows ==
  ASSUME NEW a, NEW b, NEW A, NEW M, Follows(a, b, A),
         NEW m, m = [i \in DOMAIN a |-> m[i]], NEW k, k = [i \in DOMAIN b |-> k[i]],
         \A i \in DOMAIN a \cap DOMAIN b : a[i] = b[i] => m[i] = k[i],
         \A i \in DOMAIN a : a[i] \notin A => m[i] \notin M
  PROVE  Follows(m, k, M)
<1>1. /\ IsSeq(a) /\ Len(a) \in Nat /\ DOMAIN a = 1 .. Len(a)
      /\ IsSeq(b) /\ Len(b) \in Nat /\ DOMAIN b = 1 .. Len(b)
  BY SeqFacts DEF Follows
<1>2. /\ IsSeq(m) /\ Len(m) = Len(a) /\ DOMAIN m = DOMAIN a
      /\ IsSeq(k) /\ Len(k) = Len(b) /\ DOMAIN k = DOMAIN b
  BY <1>1, Mapped
<1>3. CASE a = b
  <2>1. m = k
    BY <1>3, <1>1, <1>2
  <2> QED BY <1>2, <2>1, SameFollows
<1>4. ASSUME NEW j \in 1 .. Len(a), j <= Len(b), \A i \in 1 .. j : a[i] = b[i], a[j] \notin A
      PROVE  Follows(m, k, M)
  <2>1. \A i \in 1 .. j : i \in DOMAIN a \cap DOMAIN b
    BY <1>1, <1>4
  <2>2. (\A i \in 1 .. j : m[i] = k[i]) /\ m[j] \notin M
    BY <1>1, <1>4, <2>1
  <2> QED BY <1>2, <1>4, <2>2 DEF Follows
<1> QED BY <1>3, <1>4 DEF Follows

\* The names that A has for the structure s.
NamesIn(s, A) == {e.n : e \in {g \in A : g = [s |-> s, n |-> g.n]}}

LEMMA NamesInA ==
  ASSUME NEW s, NEW A
  PROVE  \A n : n \in NamesIn(s, A) <=> [s |-> s, n |-> n] \in A
BY DEF NamesIn

LEMMA InRules ==
  /\ \A s, a : IsSeq(a) => IsSeq(In(s, a))
  /\ \A s, a, b, A : Follows(a, b, NamesIn(s, A)) => Follows(In(s, a), In(s, b), A)
  /\ \A s, a, A : IsSeq(a) => (Held(In(s, a), A) <=> Held(a, NamesIn(s, A)))
<1>1. ASSUME NEW s, NEW a, IsSeq(a) PROVE IsSeq(In(s, a)) /\ DOMAIN In(s, a) = DOMAIN a
  <2> DEFINE m == In(s, a)
  <2>1. m = [i \in DOMAIN a |-> m[i]]
    BY DEF In
  <2> QED BY <1>1, <2>1, Mapped
<1>2. ASSUME NEW s, NEW a, NEW b, NEW A, Follows(a, b, NamesIn(s, A))
      PROVE  Follows(In(s, a), In(s, b), A)
  <2> DEFINE m == In(s, a)
             k == In(s, b)
  <2>1. /\ m = [i \in DOMAIN a |-> m[i]] /\ k = [i \in DOMAIN b |-> k[i]]
        /\ \A i \in DOMAIN a \cap DOMAIN b : a[i] = b[i] => m[i] = k[i]
        /\ \A i \in DOMAIN a : m[i] = [s |-> s, n |-> a[i]]
    BY DEF In
  <2>2. \A i \in DOMAIN a : a[i] \notin NamesIn(s, A) => m[i] \notin A
    BY <2>1, NamesInA
  <2> HIDE DEF m, k
  <2>3. Follows(m, k, A)
    BY <1>2, <2>1, <2>2, MapFollows
  <2> QED BY <2>3 DEF m, k
<1>3. ASSUME NEW s, NEW a, NEW A, IsSeq(a)
      PROVE  Held(In(s, a), A) <=> Held(a, NamesIn(s, A))
  <2>1. DOMAIN In(s, a) = DOMAIN a /\ \A i \in DOMAIN a : In(s, a)[i] = [s |-> s, n |-> a[i]]
    BY <1>1, <1>3 DEF In
  <2> QED BY <2>1, NamesInA DEF Held
<1> QED BY <1>1, <1>2, <1>3

(***************************************************************************)
(* Sequence parameter sets.                                                *)
(***************************************************************************)

LEMMA HrdFollows ==
  ASSUME NEW f, NEW g, NEW A, Agree(f, g, A), NEW kind
  PROVE  Follows(Hrd(f, kind), Hrd(g, kind), A)
<1> DEFINE Group(i) == <<At("bit_rate_value_minus1", i), At("cpb_size_value_minus1", i),
                         At("cbr_flag", i)>>
           Start == <<"cpb_cnt_minus1", "bit_rate_scale", "cpb_size_scale">>
           Count(x) == x[kind \o "cpb_cnt_minus1"] + 1
           End == <<"initial_cpb_removal_delay_length_minus1",
                    "cpb_removal_delay_length_minus1",
                    "dpb_output_delay_length_minus1", "time_offset_length">>
           Names(x) == Start \o Each(Count(x), Group) \o End
           N == {n \in ToSet(Names(f)) : kind \o n \in A}
<1>1. ASSUME NEW x PROVE IsSeq(Each(Count(x), Group))
  <2> DEFINE c == Count(x)
             s == [i \in 1 .. c |-> Group(i - 1)]
  <2>1. \A i \in 1 .. c : Follows(s[i], s[i], A)
    BY LiteralRules, SameFollows
  <2>2. Follows(When(c \in Nat, FlattenSeq(s)), When(c \in Nat, FlattenSeq(s)), A)
    <3>1. s = [i \in 1 .. c |-> s[i]]
      OBVIOUS
    <3> HIDE DEF s, c
    <3> QED BY <2>1, <3>1, EachFollows
  <2> QED BY <2>2 DEF Follows, Each
<1>2. IsSeq(Start) /\ IsSeq(End)
  BY LiteralRules, LongLiterals
<1>3. "cpb_cnt_minus1" \in N => Count(f) = Count(g)
  BY DEF Agree
<1>4. Held(Start, N) => Count(f) = Count(g)
  BY <1>3, LiteralRules
<1> HIDE DEF Count, Start, End, N, Group
<1>5. Follows(Names(f), Names(g), N)
  <2>1. Held(Start, N) => Each(Count(f), Group) = Each(Count(g), Group)
    BY <1>4
  <2>2. Follows(Start \o Each(Count(f), Group), Start \o Each(Count(g), Group), N)
    BY <1>1, <1>2, <2>1, FollowRules
  <2> QED BY <1>1, <1>2, <2>2, FollowRules
<1> DEFINE a == Names(f)
           b == Names(g)
           m == [i \in DOMAIN a |-> kind \o a[i]]
           k == [i \in DOMAIN b |-> kind \o b[i]]
<1>6. /\ m = [i \in DOMAIN a |-> m[i]] /\ k = [i \in DOMAIN b |-> k[i]]
      /\ \A i \in DOMAIN a \cap DOMAIN b : a[i] = b[i] => m[i] = k[i]
      /\ \A i \in DOMAIN a : m[i] = kind \o a[i]
  OBVIOUS
<1>7. \A i \in DOMAIN a : a[i] \notin N => m[i] \notin A
  <2>1. \A i \in DOMAIN a : a[i] \in ToSet(a)
    BY DEF ToSet
  <2> QED BY <1>6, <2>1 DEF N
<1>8. Follows(m, k, A)
  <2> HIDE DEF a, b, m, k
  <2>1. Follows(a, b, N)
    BY <1>5 DEF a, b
  <2> QED BY <1>6, <1>7, <2>1, MapFollows
<1> QED BY <1>8 DEF Hrd, Start, Count, End, Group

LEMMA HrdOfBothKindsFollows ==
  ASSUME NEW f, NEW g, NEW A, Agree(f, g, A)
  PROVE  Follows(HrdOfBothKinds(f), HrdOfBothKinds(g), A)
<1>1. \A kind : Follows(Hrd(f, kind), Hrd(g, kind), A)
  BY HrdFollows
<1>2. \A kind : IsSeq(Hrd(f, kind)) /\ IsSeq(Hrd(g, kind))
  BY <1>1 DEF Follows
<1> QED BY <1>1, <1>2, FollowRules, LiteralRules DEF HrdOfBothKinds, Agree

LEMMA RestrictionFollows ==
  ASSUME NEW f, NEW g, NEW A, Agree(f, g, A)
  PROVE  Follows(Restriction(f), Restriction(g), A)
BY FollowRules, LiteralRules, LongLiterals DEF Restriction, Agree

LEMMA VuiFollows ==
  ASSUME NEW f, NEW g, NEW A, Agree(f, g, A)
  PROVE  Follows(Vui(f), Vui(g), A)
<1>1. /\ Follows(VideoSignal(f), VideoSignal(g), A)
      /\ Follows(HrdOfBothKinds(f), HrdOfBothKinds(g), A)
      /\ Follows(Restriction(f), Restriction(g), A)
  BY VideoSignalFollows, HrdOfBothKindsFollows, RestrictionFollows
<1>2. /\ IsSeq(VideoSignal(f)) /\ IsSeq(VideoSignal(g))
      /\ IsSeq(HrdOfBothKinds(f)) /\ IsSeq(HrdOfBothKinds(g))
      /\ IsSeq(Restriction(f)) /\ IsSeq(Restriction(g))
  BY <1>1 DEF Follows
<1> QED BY <1>1, <1>2, FollowRules, LiteralRules DEF Vui, Agree

\* The four more lists of 4:4:4 are all that the kinds of functions differ in.
Lists444(f) == f.chroma_format_idc = 3 /\ f.seq_scaling_matrix_present_flag = 1

LEMMA ChromaAndScalingFollows ==
  ASSUME NEW f, NEW g, NEW A, Agree(f, g, A), NEW mode, NEW other,
         ~ Lists444(f) \/ mode = other
  PROVE  Follows(ChromaAndScaling(mode, f), ChromaAndScaling(other, g), A)
<1> DEFINE L(x, n) == FlaggedLists("seq_scaling_list_present_flag", x, n)
<1>1. \A n : Follows(L(f, n), L(g, n), A)
  BY FlaggedListsFollow
<1>2. \A n : IsSeq(L(f, n)) /\ IsSeq(L(g, n))
  BY <1>1 DEF Follows
<1>3. /\ "chroma_format_idc" \in A => f.chroma_format_idc = g.chroma_format_idc
      /\ "seq_scaling_matrix_present_flag" \in A
         => f.seq_scaling_matrix_present_flag = g.seq_scaling_matrix_present_flag
  BY DEF Agree
<1> DEFINE Middle == <<"bit_depth_luma_minus8", "bit_depth_chroma_minus8",
                       "qpprime_y_zero_transform_bypass_flag",
                       "seq_scaling_matrix_present_flag">>
           Chroma(x) == <<"chroma_format_idc">>
                        \o When(x.chroma_format_idc = 3, <<"residual_colour_transform_flag">>)
           M(x) == ScalingLists(mode, x)
           O(x) == ScalingLists(other, x)
<1>4. Follows(Chroma(f), Chroma(g), A)
  BY <1>3, FollowRules, LiteralRules
<1>5. Held(Chroma(f), A) => "chroma_format_idc" \in A
  BY FollowRules, LiteralRules
<1>6. IsSeq(Middle) /\ (Held(Middle, A) => "seq_scaling_matrix_present_flag" \in A)
  BY LongLiterals, HeldLiterals
<1>7. "chroma_format_idc" \in A /\ "seq_scaling_matrix_present_flag" \in A
      /\ f.seq_scaling_matrix_present_flag = 1 => M(f) = O(g)
  BY <1>3 DEF Lists444, ScalingLists
<1> HIDE DEF L, Middle, M, O, Chroma
<1>8. Follows(Chroma(f) \o Middle, Chroma(g) \o Middle, A)
  BY <1>4, <1>6, FollowRules
<1>9. IsSeq(Chroma(f)) /\ IsSeq(Chroma(g))
  BY <1>4 DEF Follows
<1>10. ASSUME Held(Chroma(f) \o Middle, A)
       PROVE  Follows(When(f.seq_scaling_matrix_present_flag = 1, L(f, M(f))),
                      When(g.seq_scaling_matrix_present_flag = 1, L(g, O(g))), A)
  <2>1. "chroma_format_idc" \in A /\ "seq_scaling_matrix_present_flag" \in A
    BY <1>5, <1>6, <1>9, <1>10, FollowRules
  <2> QED BY <1>1, <1>3, <1>7, <2>1, FollowRules
<1>11. Follows((Chroma(f) \o Middle) \o When(f.seq_scaling_matrix_present_flag = 1, L(f, M(f))),
               (Chroma(g) \o Middle) \o When(g.seq_scaling_matrix_present_flag = 1, L(g, O(g))), A)
  BY <1>2, <1>8, <1>10, FollowRules
<1> QED BY <1>11 DEF ChromaAndScaling, L, Middle, Chroma, M, O

LEMMA PicOrderFollows ==
  ASSUME NEW f, NEW g, NEW A, Agree(f, g, A)
  PROVE  Follows(PicOrder(f), PicOrder(g), A)
<1> DEFINE Group(i) == <<At("offset_for_ref_frame", i)>>
           Offsets(n) == Each(n, Group)
<1>1. ASSUME NEW n PROVE IsSeq(Offsets(n))
  <2> DEFINE s == [i \in 1 .. n |-> Group(i - 1)]
  <2>1. \A i \in 1 .. n : Follows(s[i], s[i], A)
    BY LiteralRules, SameFollows
  <2>2. Follows(When(n \in Nat, FlattenSeq(s)), When(n \in Nat, FlattenSeq(s)), A)
    <3>1. s = [i \in 1 .. n |-> s[i]]
      OBVIOUS
    <3> HIDE DEF s
    <3> QED BY <2>1, <3>1, EachFollows
  <2> QED BY <2>2 DEF Follows, Each
<1> HIDE DEF Offsets
<1>2. ASSUME "pic_order_cnt_type" \in A
      PROVE  f.pic_order_cnt_type = g.pic_order_cnt_type
  BY <1>2 DEF Agree
<1> DEFINE Cycle == <<"delta_pic_order_always_zero_flag", "offset_for_non_ref_pic",
                     "offset_for_top_to_bottom_field",
                     "num_ref_frames_in_pic_order_cnt_cycle">>
<1>3. Held(Cycle, A)
      => f.num_ref_frames_in_pic_order_cnt_cycle = g.num_ref_frames_in_pic_order_cnt_cycle
  BY HeldLiterals DEF Agree
<1>4. IsSeq(Cycle)
  BY LongLiterals
<1> HIDE DEF Cycle
<1>5. Follows(Cycle \o Offsets(f.num_ref_frames_in_pic_order_cnt_cycle),
              Cycle \o Offsets(g.num_ref_frames_in_pic_order_cnt_cycle), A)
  BY <1>1, <1>3, <1>4, FollowRules
<1> DEFINE Rest(x) == Cycle \o Offsets(x.num_ref_frames_in_pic_order_cnt_cycle)
<1>6. IsSeq(Rest(f)) /\ IsSeq(Rest(g)) /\ Follows(Rest(f), Rest(g), A)
  BY <1>5 DEF Follows
<1> HIDE DEF Rest
<1>7. Follows(<<"log2_max_frame_num_minus4", "pic_order_cnt_type">>
              \o When(f.pic_order_cnt_type = 0, <<"log2_max_pic_order_cnt_lsb_minus4">>)
              \o When(f.pic_order_cnt_type = 1, Rest(f)),
              <<"log2_max_frame_num_minus4", "pic_order_cnt_type">>
              \o When(g.pic_order_cnt_type = 0, <<"log2_max_pic_order_cnt_lsb_minus4">>)
              \o When(g.pic_order_cnt_type = 1, Rest(g)), A)
  BY <1>2, <1>6, FollowRules, LiteralRules
<1> QED BY <1>7 DEF PicOrder, Rest, Offsets, Cycle

LEMMA FrameGeometryFollows ==
  ASSUME NEW f, NEW g, NEW A, Agree(f, g, A)
  PROVE  Follows(FrameGeometry(f), FrameGeometry(g), A)
BY FollowRules, LiteralRules, LongLiterals DEF FrameGeometry, Agree

LEMMA SeqParameterSetFollows ==
  ASSUME NEW f, NEW g, NEW A, Agree(f, g, A), NEW mode, NEW other,
         ~ Lists444(f) \/ mode = other
  PROVE  /\ Follows(SeqParameterSet(mode, f), SeqParameterSet(other, g), A)
         /\ Held(SeqParameterSet(mode, f), A) =>
              /\ "profile_idc" \in A
              /\ f.profile_idc \in HighProfiles => "chroma_format_idc" \in A
<1>1. /\ Follows(ChromaAndScaling(mode, f), ChromaAndScaling(other, g), A)
      /\ Follows(PicOrder(f), PicOrder(g), A)
      /\ Follows(FrameGeometry(f), FrameGeometry(g), A)
      /\ Follows(Vui(f), Vui(g), A)
  BY ChromaAndScalingFollows, PicOrderFollows, FrameGeometryFollows, VuiFollows
<1>2. /\ IsSeq(ChromaAndScaling(mode, f)) /\ IsSeq(ChromaAndScaling(other, g))
      /\ IsSeq(PicOrder(f)) /\ IsSeq(PicOrder(g))
      /\ IsSeq(FrameGeometry(f)) /\ IsSeq(FrameGeometry(g))
      /\ IsSeq(Vui(f)) /\ IsSeq(Vui(g))
  BY <1>1 DEF Follows
<1> DEFINE Start == <<"profile_idc", "constraint_set_flags", "level_idc",
                      "seq_parameter_set_id">>
<1>3. IsSeq(Start) /\ (Held(Start, A) => "profile_idc" \in A)
  BY LongLiterals, HeldLiterals
<1> HIDE DEF Start
<1>4. /\ "profile_idc" \in A => f.profile_idc = g.profile_idc
      /\ "vui_parameters_present_flag" \in A
         => f.vui_parameters_present_flag = g.vui_parameters_present_flag
  BY DEF Agree
<1> DEFINE Chroma(x, m) == Start \o When(x.profile_idc \in HighProfiles, ChromaAndScaling(m, x))
           Rest(x) == <<"num_ref_frames", "gaps_in_frame_num_value_allowed_flag">>
                      \o FrameGeometry(x) \o <<"vui_parameters_present_flag">>
                      \o When(x.vui_parameters_present_flag = 1, Vui(x))
<1>5. Follows(Chroma(f, mode), Chroma(g, other), A)
  BY <1>1, <1>2, <1>3, <1>4, FollowRules
<1>6. Follows(SeqParameterSet(mode, f), SeqParameterSet(other, g), A)
  <2>1. IsSeq(Chroma(f, mode)) /\ IsSeq(Chroma(g, other))
    BY <1>5 DEF Follows
  <2> HIDE DEF Chroma
  <2>2. Follows(Chroma(f, mode) \o PicOrder(f)
                \o <<"num_ref_frames", "gaps_in_frame_num_value_allowed_flag">>
                \o FrameGeometry(f),
                Chroma(g, other) \o PicOrder(g)
                \o <<"num_ref_frames", "gaps_in_frame_num_value_allowed_flag">>
                \o FrameGeometry(g), A)
    BY <1>1, <1>2, <1>5, <2>1, FollowRules, LiteralRules
  <2> DEFINE Most(x, m) == Chroma(x, m) \o PicOrder(x)
                \o <<"num_ref_frames", "gaps_in_frame_num_value_allowed_flag">>
                \o FrameGeometry(x)
  <2>3. IsSeq(Most(f, mode)) /\ IsSeq(Most(g, other)) /\ Follows(Most(f, mode), Most(g, other), A)
    BY <2>2 DEF Follows
  <2> HIDE DEF Most
  <2>4. Follows(Most(f, mode) \o <<"vui_parameters_present_flag">>
                \o When(f.vui_parameters_present_flag = 1, Vui(f)),
                Most(g, other) \o <<"vui_parameters_present_flag">>
                \o When(g.vui_parameters_present_flag = 1, Vui(g)), A)
    BY <1>1, <1>2, <1>4, <2>3, FollowRules, LiteralRules
  <2> QED BY <2>4 DEF Most, Chroma, Start, SeqParameterSet
<1>7. ASSUME Held(SeqParameterSet(mode, f), A)
      PROVE  "profile_idc" \in A /\ (f.profile_idc \in HighProfiles => "chroma_format_idc" \in A)
  <2>1. /\ Held(Start, A)
        /\ Held(When(f.profile_idc \in HighProfiles, ChromaAndScaling(mode, f)), A)
    <3>1. Held(Chroma(f, mode) \o PicOrder(f)
                \o <<"num_ref_frames", "gaps_in_frame_num_value_allowed_flag">>
                \o FrameGeometry(f) \o <<"vui_parameters_present_flag">>
                \o When(f.vui_parameters_present_flag = 1, Vui(f)), A)
      BY <1>7 DEF SeqParameterSet, Chroma, Start
    <3>2. IsSeq(Chroma(f, mode))
      BY <1>5 DEF Follows
    <3> HIDE DEF Chroma
    <3>3. Held(Chroma(f, mode), A)
      BY <1>2, <3>1, <3>2, FollowRules, LiteralRules
    <3> QED BY <1>2, <1>3, <3>3, FollowRules DEF Chroma
  <2>2. ASSUME f.profile_idc \in HighProfiles PROVE "chroma_format_idc" \in A
    <3>1. Held(ChromaAndScaling(mode, f), A)
      BY <2>1, <2>2 DEF When
    <3> DEFINE Lists == FlaggedLists("seq_scaling_list_present_flag", f, ScalingLists(mode, f))
    <3>2. IsSeq(Lists)
      <4>1. Follows(Lists, Lists, {})
        BY FlaggedListsFollow DEF Agree
      <4> QED BY <4>1 DEF Follows
    <3> HIDE DEF Lists
    <3>3. Held(<<"chroma_format_idc">>
               \o When(f.chroma_format_idc = 3, <<"residual_colour_transform_flag">>)
               \o <<"bit_depth_luma_minus8", "bit_depth_chroma_minus8",
                   "qpprime_y_zero_transform_bypass_flag", "seq_scaling_matrix_present_flag">>
               \o When(f.seq_scaling_matrix_present_flag = 1, Lists), A)
      BY <3>1 DEF ChromaAndScaling, Lists
    <3> QED BY <3>2, <3>3, FollowRules, LiteralRules, LongLiterals
  <2> QED BY <1>3, <2>1, <2>2
<1> QED BY <1>6, <1>7

\* Groups of a subset sequence parameter set.
LEMMA RefLayerFollows ==
  ASSUME NEW f, NEW g, f.chroma_format_idc = g.chroma_format_idc
  PROVE  RefLayer(f) = RefLayer(g) /\ IsSeq(RefLayer(f))
BY FollowRules, LiteralRules, LongLiterals DEF RefLayer

\* The extension of a subset SPS, where both sides know the format.
LEMMA SvcExtensionFollows ==
  ASSUME NEW f, NEW g, NEW A, Agree(f, g, A), NEW s, NEW t,
         s.chroma_format_idc = t.chroma_format_idc
  PROVE  Follows(SvcExtension(f, s), SvcExtension(g, t), A)
<1>1. RefLayer(s) = RefLayer(t) /\ IsSeq(RefLayer(s))
  BY RefLayerFollows
<1> DEFINE Start(x, y) == <<"inter_layer_deblocking_filter_control_present_flag",
                          "extended_spatial_scalability_idc">>
                        \o When(y.chroma_format_idc \in {1, 2}, <<"chroma_phase_x_plus1_flag">>)
                        \o When(y.chroma_format_idc = 1, <<"chroma_phase_y_plus1">>)
<1>2. /\ Follows(Start(f, s), Start(g, t), A) /\ IsSeq(Start(f, s)) /\ IsSeq(Start(g, t))
      /\ Held(Start(f, s), A) => "extended_spatial_scalability_idc" \in A
  <2>1. IsSeq(Start(f, s)) /\ Start(f, s) = Start(g, t)
    BY FollowRules, LiteralRules
  <2>2. Held(Start(f, s), A) => "extended_spatial_scalability_idc" \in A
    BY FollowRules, LiteralRules
  <2> QED BY <2>1, <2>2, SameFollows
<1> HIDE DEF Start
<1>3. Follows(Start(f, s) \o When(f.extended_spatial_scalability_idc # 0, RefLayer(s))
              \o <<"seq_tcoeff_level_prediction_flag">>
              \o When(f.seq_tcoeff_level_prediction_flag = 1,
                      <<"adaptive_tcoeff_level_prediction_flag">>)
              \o <<"slice_header_restriction_flag">>,
              Start(g, t) \o When(g.extended_spatial_scalability_idc # 0, RefLayer(t))
              \o <<"seq_tcoeff_level_prediction_flag">>
              \o When(g.seq_tcoeff_level_prediction_flag = 1,
                      <<"adaptive_tcoeff_level_prediction_flag">>)
              \o <<"slice_header_restriction_flag">>, A)
  BY <1>1, <1>2, FollowRules, LiteralRules DEF Agree
<1> QED BY <1>3 DEF SvcExtension, Start

LEMMA SvcVuiEntryFollows ==
  ASSUME NEW f, NEW g, NEW A, Agree(f, g, A), NEW i, NEW nal, NEW vcl
  PROVE  Follows(SvcVuiEntry(f, i, nal, vcl), SvcVuiEntry(g, i, nal, vcl), A)
<1> DEFINE Start == <<At("vui_ext_dependency_id", i), At("vui_ext_quality_id", i),
                     At("vui_ext_temporal_id", i), At("vui_ext_timing_info_present_flag", i)>>
           timing == At("vui_ext_timing_info_present_flag", i)
           Timing == <<At("vui_ext_num_units_in_tick", i), At("vui_ext_time_scale", i),
                      At("vui_ext_fixed_frame_rate_flag", i)>>
           low == <<At("vui_ext_low_delay_hrd_flag", i)>>
           struct == <<At("vui_ext_pic_struct_present_flag", i)>>
<1>1. /\ IsSeq(Start) /\ (Held(Start, A) => timing \in A)
      /\ IsSeq(Timing) /\ IsSeq(low) /\ IsSeq(struct)
  BY LiteralRules, LongLiterals, HeldLiterals
<1>2. \A kind : Follows(Hrd(f, kind), Hrd(g, kind), A)
  BY HrdFollows
<1>3. \A kind : IsSeq(Hrd(f, kind)) /\ IsSeq(Hrd(g, kind))
  BY <1>2 DEF Follows
<1> DEFINE v == At("vcl", i)
           n == At("nal", i)
<1> HIDE DEF Start, timing, Timing, low, struct, v, n
<1>4. Follows(Start \o When(f[timing] = 1, Timing)
              \o <<nal>> \o When(f[nal] = 1, Hrd(f, v))
              \o <<vcl>> \o When(f[vcl] = 1, Hrd(f, n))
              \o When(1 \in {f[nal], f[vcl]}, low) \o struct,
              Start \o When(g[timing] = 1, Timing)
              \o <<nal>> \o When(g[nal] = 1, Hrd(g, v))
              \o <<vcl>> \o When(g[vcl] = 1, Hrd(g, n))
              \o When(1 \in {g[nal], g[vcl]}, low) \o struct, A)
  BY <1>1, <1>2, <1>3, FollowRules, LiteralRules DEF Agree
<1> QED BY <1>4 DEF SvcVuiEntry, Start, timing, Timing, low, struct, v, n

LEMMA SvcVuiFollows ==
  ASSUME NEW f, NEW g, NEW A, Agree(f, g, A)
  PROVE  Follows(SvcVui(f), SvcVui(g), A)
<1> DEFINE Group(x, i) == SvcVuiEntry(x, i, At("vui_ext_nal_hrd_parameters_present_flag", i),
                                    At("vui_ext_vcl_hrd_parameters_present_flag", i))
           Entries(x, n) == Each(n, LAMBDA i : Group(x, i))
<1>1. ASSUME NEW n PROVE Follows(Entries(f, n), Entries(g, n), A)
  <2> DEFINE s == [i \in 1 .. n |-> Group(f, i - 1)]
             t == [i \in 1 .. n |-> Group(g, i - 1)]
  <2>1. \A i \in 1 .. n : Follows(s[i], t[i], A)
    BY SvcVuiEntryFollows
  <2>2. Follows(When(n \in Nat, FlattenSeq(s)), When(n \in Nat, FlattenSeq(t)), A)
    <3>1. s = [i \in 1 .. n |-> s[i]] /\ t = [i \in 1 .. n |-> t[i]]
      OBVIOUS
    <3> HIDE DEF s, t
    <3> QED BY <2>1, <3>1, EachFollows
  <2> QED BY <2>2 DEF Each
<1>2. \A n : IsSeq(Entries(f, n)) /\ IsSeq(Entries(g, n))
  BY <1>1 DEF Follows
<1> HIDE DEF Entries
<1>3. Follows(<<"vui_ext_num_entries_minus1">> \o Entries(f, f.vui_ext_num_entries_minus1 + 1),
              <<"vui_ext_num_entries_minus1">> \o Entries(g, g.vui_ext_num_entries_minus1 + 1), A)
  <2>1. "vui_ext_num_entries_minus1" \in A
        => f.vui_ext_num_entries_minus1 + 1 = g.vui_ext_num_entries_minus1 + 1
    BY DEF Agree
  <2> QED BY <1>1, <1>2, <2>1, FollowRules, LiteralRules
<1> QED BY <1>3 DEF SvcVui, Entries

\* Elements with the same value in x and z.
AgreeOn(x, z, A) == \A s : Agree(x[s], z[s], NamesIn(s, A))

LEMMA SubsetSpsFollows ==
  ASSUME NEW x, NEW z, NEW A, AgreeOn(x, z, A), NEW mode, NEW other,
         ~ Lists444(x.subset) \/ mode = other
  PROVE  Follows(SubsetSps(mode, x), SubsetSps(other, z), A)
<1> DEFINE N == NamesIn("subset", A)
           M == NamesIn("sps_svc_ext", A)
           f == x.sps_svc_ext
           g == z.sps_svc_ext
           a == SeqParameterSet(mode, x.subset)
           b == SeqParameterSet(other, z.subset)
           Ext(e, s) == SvcExtension(e, s) \o <<"svc_vui_parameters_present_flag">>
                        \o When(e.svc_vui_parameters_present_flag = 1, SvcVui(e))
<1>1. Agree(x.subset, z.subset, N) /\ Agree(f, g, M)
  BY DEF AgreeOn
<1>2. /\ Follows(a, b, N)
      /\ Held(a, N) => /\ "profile_idc" \in N
                       /\ x.subset.profile_idc \in HighProfiles => "chroma_format_idc" \in N
  BY <1>1, SeqParameterSetFollows
<1>3. Held(a, N) =>
        /\ x.subset.profile_idc = z.subset.profile_idc
        /\ x.subset.profile_idc \in HighProfiles
           => x.subset.chroma_format_idc = z.subset.chroma_format_idc
  BY <1>1, <1>2 DEF Agree
<1>4. {83, 86} \subseteq HighProfiles
  BY DEF HighProfiles
<1>5. Follows(SvcVui(f), SvcVui(g), M) /\ IsSeq(SvcVui(f)) /\ IsSeq(SvcVui(g))
  BY <1>1, SvcVuiFollows DEF Follows
<1>6. ASSUME NEW s, NEW t, s.chroma_format_idc = t.chroma_format_idc
      PROVE  Follows(Ext(f, s), Ext(g, t), M)
  <2>1. Follows(SvcExtension(f, s), SvcExtension(g, t), M)
    BY <1>1, <1>6, SvcExtensionFollows
  <2>2. IsSeq(SvcExtension(f, s)) /\ IsSeq(SvcExtension(g, t))
    BY <2>1 DEF Follows
  <2> QED BY <1>1, <1>5, <2>1, <2>2, FollowRules, LiteralRules DEF Agree
<1>7. \A e, s : IsSeq(Ext(e, s))
  <2> TAKE e, s
  <2>1. Follows(SvcExtension(e, s), SvcExtension(e, s), {}) /\ Follows(SvcVui(e), SvcVui(e), {})
    BY SvcExtensionFollows, SvcVuiFollows DEF Agree
  <2>2. IsSeq(SvcExtension(e, s)) /\ IsSeq(SvcVui(e))
    BY <2>1 DEF Follows
  <2> QED BY <2>2, FollowRules, LiteralRules
<1>8. IsSeq(a) /\ IsSeq(b)
  BY <1>2 DEF Follows
<1> HIDE DEF a, b, Ext, N, M, f, g
<1> DEFINE p == In("subset", a)
           q == In("subset", b)
           e == In("sps_svc_ext", Ext(f, x.subset))
           r == In("sps_svc_ext", Ext(g, z.subset))
           end == In("sps_subset", <<"additional_extension2_flag">>)
<1>9. Follows(p, q, A) /\ (Held(p, A) => Held(a, N))
  BY <1>2, <1>8, InRules DEF N
<1>10. IsSeq(e) /\ IsSeq(r) /\ IsSeq(end)
  BY <1>7, InRules, LiteralRules
<1>11. ASSUME Held(p, A)
       PROVE  Follows(When(x.subset.profile_idc \in {83, 86}, e),
                      When(z.subset.profile_idc \in {83, 86}, r), A)
  <2>1. x.subset.profile_idc \in {83, 86} => Follows(e, r, A)
    BY <1>3, <1>4, <1>6, <1>9, <1>11, InRules DEF M
  <2>2. x.subset.profile_idc = z.subset.profile_idc
    BY <1>3, <1>9, <1>11
  <2> HIDE DEF e, r
  <2> QED BY <2>1, <2>2, FollowRules
<1> HIDE DEF p, q, e, r, end
<1>12. Follows(p \o When(x.subset.profile_idc \in {83, 86}, e) \o end,
               q \o When(z.subset.profile_idc \in {83, 86}, r) \o end, A)
  BY <1>9, <1>10, <1>11, FollowRules
<1> QED BY <1>12 DEF SubsetSps, p, q, e, r, end, a, b, Ext, f, g

(***************************************************************************)
(* Picture parameter sets.                                                 *)
(***************************************************************************)

LEMMA EachIsSeq ==
  ASSUME NEW n, NEW s, n \in Nat => s = [i \in 1 .. n |-> s[i]],
         \A i \in 1 .. n : IsSeq(s[i])
  PROVE  IsSeq(When(n \in Nat, FlattenSeq(s)))
<1>1. Follows(When(n \in Nat, FlattenSeq(s)), When(n \in Nat, FlattenSeq(s)), {})
  <2>1. \A i \in 1 .. n : Follows(s[i], s[i], {})
    BY SameFollows
  <2> QED BY <2>1, EachFollows
<1> QED BY <1>1 DEF Follows

\* Groups of a picture parameter set.
LEMMA SliceGroupsFollow ==
  ASSUME NEW f, NEW g, NEW A, Agree(f, g, A),
         f.num_slice_groups_minus1 = g.num_slice_groups_minus1
  PROVE  Follows(SliceGroups(f), SliceGroups(g), A)
<1> DEFINE Runs(n) == Each(n, LAMBDA i : <<At("run_length_minus1", i)>>)
           Corners(n) == Each(n, LAMBDA i : <<At("top_left", i), At("bottom_right", i)>>)
           Ids(n) == Each(n, LAMBDA i : <<At("slice_group_id", i)>>)
<1>1. \A n : IsSeq(Runs(n)) /\ IsSeq(Corners(n)) /\ IsSeq(Ids(n))
  <2> TAKE n
  <2> DEFINE s == [i \in 1 .. n |-> <<At("run_length_minus1", i - 1)>>]
             t == [i \in 1 .. n |-> <<At("top_left", i - 1), At("bottom_right", i - 1)>>]
             u == [i \in 1 .. n |-> <<At("slice_group_id", i - 1)>>]
  <2>1. /\ s = [i \in 1 .. n |-> s[i]] /\ t = [i \in 1 .. n |-> t[i]]
        /\ u = [i \in 1 .. n |-> u[i]]
        /\ \A i \in 1 .. n : IsSeq(s[i]) /\ IsSeq(t[i]) /\ IsSeq(u[i])
    BY LiteralRules
  <2>2. /\ IsSeq(When(n \in Nat, FlattenSeq(s))) /\ IsSeq(When(n \in Nat, FlattenSeq(t)))
        /\ IsSeq(When(n \in Nat, FlattenSeq(u)))
    <3> HIDE DEF s, t, u
    <3> QED BY <2>1, EachIsSeq
  <2> QED BY <2>2 DEF Each
<1> HIDE DEF Runs, Corners, Ids
<1> DEFINE Units(x) == <<"pic_size_in_map_units_minus1">>
                       \o Ids(x.pic_size_in_map_units_minus1 + 1)
           Change == <<"slice_group_change_direction_flag", "slice_group_change_rate_minus1">>
           Rest(x, y) ==
             CASE y = 0 -> Runs(x.num_slice_groups_minus1 + 1)
               [] y = 2 -> Corners(x.num_slice_groups_minus1)
               [] y \in 3..5 -> Change
               [] y = 6 -> Units(x)
               [] OTHER -> <<>>
<1>2. Follows(Units(f), Units(g), A)
  <2>1. "pic_size_in_map_units_minus1" \in A
        => f.pic_size_in_map_units_minus1 = g.pic_size_in_map_units_minus1
    BY DEF Agree
  <2> QED BY <1>1, <2>1, FollowRules, LiteralRules
<1>3. IsSeq(Change) /\ IsSeq(<<>>)
  BY LiteralRules
<1>4. IsSeq(Units(f)) /\ IsSeq(Units(g))
  BY <1>2 DEF Follows
<1> HIDE DEF Units, Change
<1>5. \A y : Follows(Rest(f, y), Rest(g, y), A)
  <2> TAKE y
  <2>1. /\ Follows(Runs(f.num_slice_groups_minus1 + 1), Runs(g.num_slice_groups_minus1 + 1), A)
        /\ Follows(Corners(f.num_slice_groups_minus1), Corners(g.num_slice_groups_minus1), A)
        /\ Follows(Change, Change, A) /\ Follows(<<>>, <<>>, A)
    BY <1>1, <1>3, SameFollows
  <2> QED BY <1>2, <2>1
<1>6. \A y : IsSeq(Rest(f, y)) /\ IsSeq(Rest(g, y))
  BY <1>5 DEF Follows
<1> HIDE DEF Rest
<1>7. "slice_group_map_type" \in A => f.slice_group_map_type = g.slice_group_map_type
  BY DEF Agree
<1>8. Follows(<<"slice_group_map_type">> \o Rest(f, f.slice_group_map_type),
              <<"slice_group_map_type">> \o Rest(g, g.slice_group_map_type), A)
  BY <1>5, <1>6, <1>7, FollowRules, LiteralRules
<1> QED BY <1>8 DEF SliceGroups, Rest, Units, Change, Runs, Corners, Ids

LEMMA OptionalEndFollows ==
  ASSUME NEW f, NEW g, NEW A, Agree(f, g, A)
  PROVE  Follows(OptionalEnd(f), OptionalEnd(g), A)
<1> DEFINE L(x, n) == FlaggedLists("pic_scaling_list_present_flag", x, n)
           Start == <<"transform_8x8_mode_flag", "pic_scaling_matrix_present_flag">>
           Count(x) == 6 + 2 * x.transform_8x8_mode_flag
<1>1. \A n : Follows(L(f, n), L(g, n), A)
  BY FlaggedListsFollow
<1>2. \A n : IsSeq(L(f, n)) /\ IsSeq(L(g, n))
  BY <1>1 DEF Follows
<1>3. Held(Start, A)
      => /\ Count(f) = Count(g)
         /\ f.pic_scaling_matrix_present_flag = g.pic_scaling_matrix_present_flag
  BY LiteralRules DEF Agree
<1> HIDE DEF L, Count
<1>4. Follows(Start \o When(f.pic_scaling_matrix_present_flag = 1, L(f, Count(f)))
              \o <<"second_chroma_qp_index_offset">>,
              Start \o When(g.pic_scaling_matrix_present_flag = 1, L(g, Count(g)))
              \o <<"second_chroma_qp_index_offset">>, A)
  BY <1>1, <1>2, <1>3, FollowRules, LiteralRules
<1> QED BY <1>4 DEF OptionalEnd, L, Start, Count

\* What a PPS begins with, and what it has after the slice groups.
PpsStart == <<"pic_parameter_set_id", "seq_parameter_set_id", "entropy_coding_mode_flag",
              "pic_order_present_flag", "num_slice_groups_minus1">>
PpsMiddle ==
  <<"num_ref_idx_l0_active_minus1", "num_ref_idx_l1_active_minus1",
    "weighted_pred_flag", "weighted_bipred_idc", "pic_init_qp_minus26",
    "pic_init_qs_minus26", "chroma_qp_index_offset",
    "deblocking_filter_control_present_flag", "constrained_intra_pred_flag",
    "redundant_pic_cnt_present_flag">>

LEMMA PicParameterSetFollows ==
  ASSUME NEW f, NEW g, NEW A, Agree(f, g, A), NEW mode, NEW other, NEW more, NEW most,
         have_more_data(mode, f, more) = have_more_data(other, g, most)
  PROVE  Follows(PicParameterSet(mode, f, more), PicParameterSet(other, g, most), A)
<1>1. IsSeq(PpsStart) /\ IsSeq(PpsMiddle)
  BY LongLiterals DEF PpsStart, PpsMiddle
<1>2. Held(PpsStart, A) => f.num_slice_groups_minus1 = g.num_slice_groups_minus1
  BY HeldLiterals DEF PpsStart, Agree
<1>3. /\ f.num_slice_groups_minus1 = g.num_slice_groups_minus1
         => Follows(SliceGroups(f), SliceGroups(g), A)
      /\ Follows(OptionalEnd(f), OptionalEnd(g), A)
  BY SliceGroupsFollow, OptionalEndFollows
<1>4. \A x : IsSeq(SliceGroups(x))
  <2> TAKE x
  <2>1. Follows(SliceGroups(x), SliceGroups(x), {})
    BY SliceGroupsFollow DEF Agree
  <2> QED BY <2>1 DEF Follows
<1>5. IsSeq(OptionalEnd(f)) /\ IsSeq(OptionalEnd(g))
  BY <1>3 DEF Follows
<1>6. Follows(PpsStart \o When(f.num_slice_groups_minus1 > 0, SliceGroups(f)) \o PpsMiddle
              \o When(have_more_data(mode, f, more), OptionalEnd(f)),
              PpsStart \o When(g.num_slice_groups_minus1 > 0, SliceGroups(g)) \o PpsMiddle
              \o When(have_more_data(other, g, most), OptionalEnd(g)), A)
  BY <1>1, <1>2, <1>3, <1>4, <1>5, FollowRules
<1> QED BY <1>6 DEF PicParameterSet, PpsStart, PpsMiddle

(***************************************************************************)
(* Slice headers.                                                          *)
(***************************************************************************)

\* Operations end with the end operation, or with the array.
LEMMA OperationsDefined ==
  ASSUME NEW op, NEW f, NEW end
  PROVE  /\ Operations(op, f, end) \in 1 .. ArrayMax
         /\ \A i \in 0 .. (Operations(op, f, end) - 2) : f[At(op, i)] # end
         /\ f[At(op, Operations(op, f, end) - 1)] = end \/ Operations(op, f, end) = ArrayMax
<1> DEFINE Is(k) == /\ \A i \in 0 .. (k - 2) : f[At(op, i)] # end
                    /\ f[At(op, k - 1)] = end \/ k = ArrayMax
<1>1. \E k \in 1 .. ArrayMax : Is(k)
  <2>1. SUFFICES ASSUME \A k \in 1 .. ArrayMax : ~ Is(k) PROVE FALSE
    BY Zenon
  <2> DEFINE S == {k \in Nat : \A i \in 0 .. k - 1 : f[At(op, i)] # end}
  <2>2. 0 \in S
    OBVIOUS
  <2>3. ASSUME NEW k \in 0 .. (ArrayMax - 1) - 1, k \in S PROVE k + 1 \in S
    <3>1. k + 1 \in 1 .. ArrayMax /\ k + 1 # ArrayMax /\ (k + 1) - 2 = k - 1 /\ (k + 1) - 1 = k
      BY ArraysHaveEntries
    <3>2. ~ Is(k + 1)
      BY <2>1, <3>1
    <3>3. f[At(op, k)] # end
      BY <2>3, <3>1, <3>2
    <3>4. \A i \in 0 .. (k + 1) - 1 : i \in 0 .. k - 1 \/ i = k
      OBVIOUS
    <3> QED BY <2>3, <3>3, <3>4
  <2>4. ArrayMax - 1 \in S
    <3>1. ArrayMax - 1 \in Nat /\ ArrayMax - 1 \in 0 .. ArrayMax - 1
      BY ArraysHaveEntries
    <3> HIDE DEF S
    <3> QED BY <2>2, <2>3, <3>1, BoundedInduction
  <2>5. ArrayMax \in 1 .. ArrayMax /\ ArrayMax - 2 = (ArrayMax - 1) - 1
    BY ArraysHaveEntries
  <2>6. Is(ArrayMax)
    BY <2>4, <2>5
  <2> HIDE DEF Is
  <2> QED BY <2>1, <2>5, <2>6
<1>2. Operations(op, f, end) = CHOOSE k \in 1 .. ArrayMax : Is(k)
  BY DEF Operations
<1>3. Operations(op, f, end) \in 1 .. ArrayMax /\ Is(Operations(op, f, end))
  <2> HIDE DEF Is
  <2> QED BY <1>1, <1>2
<1> QED BY <1>3

\* Two lists of different lengths: the last operation of the shorter one is not
\* shared.
LEMMA OperationsPart ==
  ASSUME NEW op, NEW f, NEW g, NEW end, NEW A, Agree(f, g, A),
         Operations(op, f, end) < Operations(op, g, end)
  PROVE  At(op, Operations(op, f, end) - 1) \notin A
<1> DEFINE n == Operations(op, f, end)
           m == Operations(op, g, end)
<1>1. /\ n \in 1 .. ArrayMax /\ m \in 1 .. ArrayMax
      /\ f[At(op, n - 1)] = end \/ n = ArrayMax
      /\ \A i \in 0 .. (m - 2) : g[At(op, i)] # end
  BY OperationsDefined
<1>2. n - 1 \in 0 .. (m - 2) /\ n # ArrayMax
  <2> HIDE DEF n, m
  <2>1. n < m
    BY DEF n, m
  <2> QED BY <1>1, <2>1, ArraysHaveEntries
<1> HIDE DEF n, m
<1>3. f[At(op, n - 1)] # g[At(op, n - 1)]
  BY <1>1, <1>2
<1> QED BY <1>3 DEF Agree, n

LEMMA OperationsFollow ==
  ASSUME NEW op, NEW f, NEW g, NEW end, NEW A, Agree(f, g, A), NEW n, NEW m,
         n = Operations(op, f, end), m = Operations(op, g, end), NEW s, NEW t,
         s = [i \in 1 .. n |-> s[i]], t = [i \in 1 .. m |-> t[i]],
         \A i \in (1 .. n) \cap (1 .. m) : Follows(s[i], t[i], A),
         \A i \in 1 .. n : IsSeq(s[i]) /\ (Held(s[i], A) => At(op, i - 1) \in A),
         \A i \in 1 .. m : IsSeq(t[i]) /\ (Held(t[i], A) => At(op, i - 1) \in A)
  PROVE  Follows(When(n \in Nat, FlattenSeq(s)), When(m \in Nat, FlattenSeq(t)), A)
<1>1. n \in Nat /\ m \in Nat /\ n \in 1 .. n /\ m \in 1 .. m
  <2>1. n \in 1 .. ArrayMax /\ m \in 1 .. ArrayMax
    BY OperationsDefined
  <2> QED BY <2>1, ArraysHaveEntries
<1>2. FlattenSeq(s) = Join(s, n) /\ FlattenSeq(t) = Join(t, m)
  BY <1>1, FlattenIsJoin
<1>3. CASE n <= m
  <2>1. \A i \in 1 .. n : Follows(s[i], t[i], A)
    BY <1>1, <1>3
  <2>2. ASSUME n # m PROVE ~ Held(s[n], A)
    <3>1. n < m
      BY <1>1, <1>3, <2>2
    <3>2. At(op, n - 1) \notin A
      BY <3>1, OperationsPart
    <3> QED BY <1>1, <3>2
  <2>3. Follows(Join(s, n), Join(t, m), A)
    BY <1>1, <1>3, <2>1, <2>2, CountsFollow
  <2> QED BY <1>1, <1>2, <2>3 DEF When
<1>4. CASE m < n
  <2>1. \A i \in 1 .. m : Follows(t[i], s[i], A)
    BY <1>1, <1>4, FollowsBack
  <2>2. ~ Held(t[m], A)
    <3>1. Agree(g, f, A)
      BY DEF Agree
    <3> QED BY <1>1, <1>4, <3>1, OperationsPart
  <2>3. Follows(Join(t, m), Join(s, n), A)
    <3>1. /\ m <= n /\ \E i \in 1 .. m : ~ Held(t[i], A)
          /\ \A i \in 1 .. n : IsSeq(s[i])
      BY <1>1, <1>4, <2>2
    <3> QED BY <1>1, <2>1, <3>1, CountsFollow
  <2>4. Follows(Join(s, n), Join(t, m), A)
    BY <2>3, FollowsBack
  <2> QED BY <1>1, <1>2, <2>4 DEF When
<1> QED BY <1>1, <1>3, <1>4

LEMMA ReorderingFollows ==
  ASSUME NEW f, NEW g, NEW A, Agree(f, g, A), NEW list, NEW flag, NEW idc
  PROVE  Follows(Reordering(f, list, flag, idc), Reordering(g, list, flag, idc), A)
<1> DEFINE Group(x, i) ==
             <<At(idc, i)>>
             \o When(x[At(idc, i)] \in {0, 1}, <<At("abs_diff_pic_num_minus1_" \o list, i)>>)
             \o When(x[At(idc, i)] = 2, <<At("long_term_pic_num_" \o list, i)>>)
           n == Operations(idc, f, 3)
           m == Operations(idc, g, 3)
           s == [i \in 1 .. n |-> Group(f, i - 1)]
           t == [i \in 1 .. m |-> Group(g, i - 1)]
           Ops(x) == Each(Operations(idc, x, 3), LAMBDA i : Group(x, i))
<1>1. \A i : Follows(Group(f, i), Group(g, i), A)
  BY FollowRules, LiteralRules DEF Agree
<1>2. \A x, i : IsSeq(Group(x, i)) /\ (Held(Group(x, i), A) => At(idc, i) \in A)
  BY FollowRules, LiteralRules
<1> HIDE DEF Group
<1>3. Follows(When(n \in Nat, FlattenSeq(s)), When(m \in Nat, FlattenSeq(t)), A)
  <2>1. /\ s = [i \in 1 .. n |-> s[i]] /\ t = [i \in 1 .. m |-> t[i]]
        /\ \A i \in (1 .. n) \cap (1 .. m) : Follows(s[i], t[i], A)
        /\ \A i \in 1 .. n : IsSeq(s[i]) /\ (Held(s[i], A) => At(idc, i - 1) \in A)
        /\ \A i \in 1 .. m : IsSeq(t[i]) /\ (Held(t[i], A) => At(idc, i - 1) \in A)
    <3> HIDE DEF n, m
    <3> QED BY <1>1, <1>2
  <2> HIDE DEF s, t
  <2> QED BY <2>1, OperationsFollow
<1>4. Follows(Ops(f), Ops(g), A)
  BY <1>3 DEF Each
<1>5. IsSeq(Ops(f)) /\ IsSeq(Ops(g))
  BY <1>4 DEF Follows
<1> HIDE DEF Ops
<1>6. Follows(<<flag>> \o When(f[flag] = 1, Ops(f)), <<flag>> \o When(g[flag] = 1, Ops(g)), A)
  BY <1>4, <1>5, FollowRules, LiteralRules DEF Agree
<1> QED BY <1>6 DEF Reordering, Ops, Group

LEMMA ReorderingOfBothFollows ==
  ASSUME NEW f, NEW g, NEW A, Agree(f, g, A), f.slice_type = g.slice_type
  PROVE  Follows(ref_pic_list_reordering(f), ref_pic_list_reordering(g), A)
<1> DEFINE L(x) == Reordering(x, "l0", "ref_pic_list_reordering_flag_l0",
                              "reordering_of_pic_nums_idc_l0")
           M(x) == Reordering(x, "l1", "ref_pic_list_reordering_flag_l1",
                              "reordering_of_pic_nums_idc_l1")
<1>1. Follows(L(f), L(g), A) /\ Follows(M(f), M(g), A)
  BY ReorderingFollows
<1>2. IsSeq(L(f)) /\ IsSeq(L(g)) /\ IsSeq(M(f)) /\ IsSeq(M(g))
  BY <1>1 DEF Follows
<1> HIDE DEF L, M
<1>3. Follows(When(f.slice_type % 5 \notin {I, SI}, L(f)) \o When(is_slice_type(f.slice_type, B), M(f)),
              When(g.slice_type % 5 \notin {I, SI}, L(g)) \o When(is_slice_type(g.slice_type, B), M(g)), A)
  BY <1>1, <1>2, FollowRules
<1> QED BY <1>3 DEF ref_pic_list_reordering, L, M

LEMMA WeightsFollow ==
  ASSUME NEW f, NEW g, NEW A, Agree(f, g, A), NEW list, NEW count, NEW chroma
  PROVE  Follows(Weights(f, list, count, chroma), Weights(g, list, count, chroma), A)
<1>1. ASSUME NEW component, NEW i
      PROVE  Follows(Weight(f, component, list, i), Weight(g, component, list, i), A)
  BY FollowRules, LiteralRules DEF Weight, Agree
<1>2. \A component, i : IsSeq(Weight(f, component, list, i)) /\ IsSeq(Weight(g, component, list, i))
  BY <1>1 DEF Follows
<1> DEFINE Group(x, i) == Weight(x, "luma", list, i) \o When(chroma, Weight(x, "chroma", list, i))
           s == [i \in 1 .. count |-> Group(f, i - 1)]
           t == [i \in 1 .. count |-> Group(g, i - 1)]
<1>3. \A i : Follows(Group(f, i), Group(g, i), A)
  BY <1>1, <1>2, FollowRules
<1> HIDE DEF Group
<1>4. Follows(When(count \in Nat, FlattenSeq(s)), When(count \in Nat, FlattenSeq(t)), A)
  <2>1. s = [i \in 1 .. count |-> s[i]] /\ t = [i \in 1 .. count |-> t[i]]
    OBVIOUS
  <2>2. \A i \in 1 .. count : Follows(s[i], t[i], A)
    BY <1>3
  <2> HIDE DEF s, t
  <2> QED BY <2>1, <2>2, EachFollows
<1> QED BY <1>4 DEF Weights, Each, Group

LEMMA PredWeightFollows ==
  ASSUME NEW x, NEW z, NEW A, Agree(x.sh, z.sh, A), x.sps.chroma_format_idc = z.sps.chroma_format_idc,
         x.pps = z.pps, x.sh.slice_type = z.sh.slice_type
  PROVE  Follows(pred_weight_table(x), pred_weight_table(z), A)
<1> DEFINE c == x.sps.chroma_format_idc # 0
           L(y, l, n) == Weights(y, l, n, c)
           n == x.pps.num_ref_idx_l0_active_minus1 + 1
           m == x.pps.num_ref_idx_l1_active_minus1 + 1
           f == x.sh
           g == z.sh
<1>1. \A l, k : Follows(L(f, l, k), L(g, l, k), A)
  BY WeightsFollow
<1>2. \A l, k : IsSeq(L(f, l, k)) /\ IsSeq(L(g, l, k))
  BY <1>1 DEF Follows
<1> HIDE DEF L, n, m
<1>3. Follows(<<"luma_log2_weight_denom">> \o When(c, <<"chroma_log2_weight_denom">>)
              \o L(f, "l0", n) \o When(is_slice_type(f.slice_type, B), L(f, "l1", m)),
              <<"luma_log2_weight_denom">> \o When(c, <<"chroma_log2_weight_denom">>)
              \o L(g, "l0", n) \o When(is_slice_type(g.slice_type, B), L(g, "l1", m)), A)
  <2> HIDE DEF c
  <2> QED BY <1>1, <1>2, FollowRules, LiteralRules
<1> QED BY <1>3 DEF pred_weight_table, L, n, m

LEMMA MarkingOperationIsSeq ==
  ASSUME NEW op, NEW i, NEW A
  PROVE  /\ IsSeq(MarkingOperation(op, i))
         /\ Held(MarkingOperation(op, i), A)
            => At("memory_management_control_operation", i) \in A
BY FollowRules, LiteralRules DEF MarkingOperation

LEMMA MarkingFollows ==
  ASSUME NEW x, NEW z, NEW A, Agree(x.sh, z.sh, A),
         x.nal.nal_unit_type = z.nal.nal_unit_type
  PROVE  Follows(dec_ref_pic_marking(x), dec_ref_pic_marking(z), A)
<1> DEFINE op == "memory_management_control_operation"
           f == x.sh
           g == z.sh
           Group(y, i) == MarkingOperation(y[At(op, i)], i)
           n == Operations(op, f, 0)
           m == Operations(op, g, 0)
           s == [i \in 1 .. n |-> Group(f, i - 1)]
           t == [i \in 1 .. m |-> Group(g, i - 1)]
           Ops(y) == Each(Operations(op, y, 0), LAMBDA i : Group(y, i))
<1>0. Agree(f, g, A)
  OBVIOUS
<1> HIDE DEF f, g
<1>1. \A i : Follows(Group(f, i), Group(g, i), A)
  <2>1. ASSUME NEW i, NEW y, NEW w, At(op, i) \in A => y = w
        PROVE  Follows(MarkingOperation(y, i), MarkingOperation(w, i), A)
    BY <2>1, FollowRules, LiteralRules DEF MarkingOperation
  <2> QED BY <1>0, <2>1 DEF Agree
<1>2. \A y, i : IsSeq(Group(y, i)) /\ (Held(Group(y, i), A) => At(op, i) \in A)
  BY MarkingOperationIsSeq
<1> HIDE DEF Group, op
<1>3. Follows(When(n \in Nat, FlattenSeq(s)), When(m \in Nat, FlattenSeq(t)), A)
  <2>1. /\ s = [i \in 1 .. n |-> s[i]] /\ t = [i \in 1 .. m |-> t[i]]
        /\ \A i \in (1 .. n) \cap (1 .. m) : Follows(s[i], t[i], A)
        /\ \A i \in 1 .. n : IsSeq(s[i]) /\ (Held(s[i], A) => At(op, i - 1) \in A)
        /\ \A i \in 1 .. m : IsSeq(t[i]) /\ (Held(t[i], A) => At(op, i - 1) \in A)
    <3> HIDE DEF n, m
    <3> QED BY <1>1, <1>2
  <2> HIDE DEF s, t
  <2> QED BY <1>0, <2>1, OperationsFollow
<1>4. Follows(Ops(f), Ops(g), A)
  BY <1>3 DEF Each
<1>5. IsSeq(Ops(f)) /\ IsSeq(Ops(g))
  BY <1>4 DEF Follows
<1> HIDE DEF Ops
<1>6. Follows(<<"adaptive_ref_pic_marking_mode_flag">>
              \o When(f.adaptive_ref_pic_marking_mode_flag = 1, Ops(f)),
              <<"adaptive_ref_pic_marking_mode_flag">>
              \o When(g.adaptive_ref_pic_marking_mode_flag = 1, Ops(g)), A)
  BY <1>0, <1>4, <1>5, FollowRules, LiteralRules DEF Agree
<1>7. Follows(<<"no_output_of_prior_pics_flag", "long_term_reference_flag">>,
              <<"no_output_of_prior_pics_flag", "long_term_reference_flag">>, A)
  BY FollowRules, LiteralRules
<1> QED BY <1>6, <1>7 DEF dec_ref_pic_marking, Ops, Group, op, f, g

\* Both sides have the sets in force, and know which unit is being read.
SameUnit(x, z) ==
  /\ x.nal.nal_unit_type = z.nal.nal_unit_type /\ x.nal.nal_ref_idc = z.nal.nal_ref_idc
  /\ x.pps = z.pps /\ x.sps = z.sps /\ x.subset = z.subset

\* A field that the unit does not hold is inferred to be the same.
SameFieldFlag(x, z, sps) ==
  sps.frame_mbs_only_flag # 0 => x.sh.field_pic_flag = z.sh.field_pic_flag

LEMMA SliceHeaderStartFollows ==
  ASSUME NEW x, NEW z, NEW A, Agree(x.sh, z.sh, A), SameUnit(x, z), NEW sps,
         SameFieldFlag(x, z, sps)
  PROVE  /\ Follows(SliceHeaderStart(x, sps, BothFields(x)), SliceHeaderStart(z, sps, BothFields(z)), A)
         /\ Held(SliceHeaderStart(x, sps, BothFields(x)), A) => x.sh.slice_type = z.sh.slice_type
<1> DEFINE f == x.sh
           g == z.sh
           Start == <<"first_mb_in_slice", "slice_type", "pic_parameter_set_id">>
                    \o When(sps.residual_colour_transform_flag = 1, <<"colour_plane_id">>)
                    \o <<"frame_num">>
           Field(y) == Start \o When(sps.frame_mbs_only_flag = 0,
                         <<"field_pic_flag">>
                         \o When(y.field_pic_flag = 1, <<"bottom_field_flag">>))
           idr == When(x.nal.nal_unit_type = 5, <<"idr_pic_id">>)
           Order(frame) ==
             When(sps.pic_order_cnt_type = 0,
                  <<"pic_order_cnt_lsb">> \o When(frame, <<"delta_pic_order_cnt_bottom">>))
           Deltas2(frame) ==
             When(sps.pic_order_cnt_type = 1 /\ sps.delta_pic_order_always_zero_flag = 0,
                  <<"delta_pic_order_cnt0">> \o When(frame, <<"delta_pic_order_cnt1">>))
           end == When(x.pps.redundant_pic_cnt_present_flag = 1, <<"redundant_pic_cnt">>)
<1>1. Agree(f, g, A) /\ (sps.frame_mbs_only_flag # 0 => f.field_pic_flag = g.field_pic_flag)
  BY DEF SameFieldFlag
<1>2. IsSeq(Start) /\ (Held(Start, A) => "slice_type" \in A)
  BY FollowRules, LiteralRules
<1>3. IsSeq(idr) /\ IsSeq(end) /\ \A c : IsSeq(Order(c)) /\ IsSeq(Deltas2(c))
  BY FollowRules, LiteralRules
<1>4. BothFields(x) = (x.pps.pic_order_present_flag = 1 /\ f.field_pic_flag = 0)
      /\ BothFields(z) = (x.pps.pic_order_present_flag = 1 /\ g.field_pic_flag = 0)
  BY DEF BothFields, SameUnit
<1>5. /\ SliceHeaderStart(x, sps, BothFields(x))
         = Field(f) \o idr \o Order(BothFields(x)) \o Deltas2(BothFields(x)) \o end
      /\ SliceHeaderStart(z, sps, BothFields(z))
         = Field(g) \o idr \o Order(BothFields(z)) \o Deltas2(BothFields(z)) \o end
  BY DEF SliceHeaderStart, SameUnit
<1> HIDE DEF Start, idr, Order, Deltas2, end, f, g
<1>6. Follows(Field(f), Field(g), A)
  BY <1>1, <1>2, FollowRules, LiteralRules DEF Agree
<1>7. Held(Field(f), A) => "slice_type" \in A /\ f.field_pic_flag = g.field_pic_flag
  <2>1. Held(Field(f), A) => Held(Start, A) /\ (sps.frame_mbs_only_flag = 0 => "field_pic_flag" \in A)
    <3> DEFINE Flags == <<"field_pic_flag">> \o When(f.field_pic_flag = 1, <<"bottom_field_flag">>)
    <3>1. IsSeq(Flags) /\ (Held(Flags, A) => "field_pic_flag" \in A)
      BY FollowRules, LiteralRules
    <3> HIDE DEF Flags
    <3>2. IsSeq(When(sps.frame_mbs_only_flag = 0, Flags))
      BY <3>1, FollowRules
    <3>3. Held(Start \o When(sps.frame_mbs_only_flag = 0, Flags), A)
          => Held(Start, A) /\ Held(When(sps.frame_mbs_only_flag = 0, Flags), A)
      BY <1>2, <3>2, FollowRules
    <3>4. Held(When(sps.frame_mbs_only_flag = 0, Flags), A) /\ sps.frame_mbs_only_flag = 0
          => Held(Flags, A)
      BY DEF When
    <3> QED BY <3>1, <3>3, <3>4 DEF Flags
  <2> QED BY <1>1, <1>2, <2>1 DEF Agree
<1>8. IsSeq(Field(f)) /\ IsSeq(Field(g))
  BY <1>6 DEF Follows
<1> HIDE DEF Field
<1>9. Held(Field(f), A) => BothFields(x) = BothFields(z)
  BY <1>4, <1>7
<1>10. Follows(Field(f) \o idr \o Order(BothFields(x)) \o Deltas2(BothFields(x)) \o end,
               Field(g) \o idr \o Order(BothFields(z)) \o Deltas2(BothFields(z)) \o end, A)
  <2>1. ASSUME Held(Field(f), A)
        PROVE  Order(BothFields(x)) = Order(BothFields(z)) /\ Deltas2(BothFields(x)) = Deltas2(BothFields(z))
    BY <1>9, <2>1
  <2> DEFINE o == Order(BothFields(x))
             e == Deltas2(BothFields(x))
             r == Order(BothFields(z))
             w == Deltas2(BothFields(z))
  <2>2. /\ IsSeq(o) /\ IsSeq(e) /\ IsSeq(r) /\ IsSeq(w)
        /\ Held(Field(f), A) => o = r /\ e = w
    BY <1>3, <2>1
  <2> HIDE DEF o, e, r, w
  <2>3. Follows(Field(f) \o idr \o o \o e \o end, Field(g) \o idr \o r \o w \o end, A)
    BY <1>3, <1>6, <1>8, <2>2, FollowRules
  <2> QED BY <2>3 DEF o, e, r, w
<1>11. ASSUME Held(SliceHeaderStart(x, sps, BothFields(x)), A)
       PROVE  f.slice_type = g.slice_type
  <2>1. Held(Field(f), A)
    <3> DEFINE o == Order(BothFields(x))
               e == Deltas2(BothFields(x))
    <3>1. IsSeq(o) /\ IsSeq(e) /\ Held(Field(f) \o idr \o o \o e \o end, A)
      BY <1>3, <1>5, <1>11
    <3> HIDE DEF o, e
    <3> QED BY <1>3, <1>8, <3>1, FollowRules
  <2> QED BY <1>1, <1>7, <2>1 DEF Agree
<1> QED BY <1>5, <1>10, <1>11 DEF f, g

LEMMA RefIdxOverrideFollows ==
  ASSUME NEW f, NEW g, NEW A, Agree(f, g, A), f.slice_type = g.slice_type, NEW inter
  PROVE  Follows(RefIdxOverride(f, inter), RefIdxOverride(g, inter), A)
BY FollowRules, LiteralRules DEF RefIdxOverride, Agree

LEMMA DeblockingFollows ==
  ASSUME NEW x, NEW z, NEW A, Agree(x.sh, z.sh, A), SameUnit(x, z)
  PROVE  Follows(DeblockingAndGroups(x), DeblockingAndGroups(z), A)
<1> DEFINE f == x.sh
           g == z.sh
           D(y) == <<"disable_deblocking_filter_idc">>
                   \o When(y.disable_deblocking_filter_idc # 1,
                           <<"slice_alpha_c0_offset_div2", "slice_beta_offset_div2">>)
<1>1. Follows(D(f), D(g), A)
  BY FollowRules, LiteralRules DEF Agree
<1>2. IsSeq(D(f)) /\ IsSeq(D(g))
  BY <1>1 DEF Follows
<1>3. x.pps = z.pps
  BY DEF SameUnit
<1> HIDE DEF D
<1> DEFINE p == x.pps.deblocking_filter_control_present_flag = 1
           q == x.pps.num_slice_groups_minus1 > 0 /\ x.pps.slice_group_map_type \in 3..5
<1> HIDE DEF p, q
<1>4. Follows(When(p, D(f)) \o When(q, <<"slice_group_change_cycle">>),
              When(p, D(g)) \o When(q, <<"slice_group_change_cycle">>), A)
  BY <1>1, <1>2, FollowRules, LiteralRules
<1> QED BY <1>3, <1>4 DEF DeblockingAndGroups, D, p, q

LEMMA SliceHeaderFollows ==
  ASSUME NEW x, NEW z, NEW A, Agree(x.sh, z.sh, A), SameUnit(x, z),
         SameFieldFlag(x, z, x.sps)
  PROVE  Follows(slice_header(x), slice_header(z), A)
<1> DEFINE f == x.sh
           g == z.sh
           a1(y) == SliceHeaderStart(y, x.sps, BothFields(y))
           a2(y) == RefIdxOverride(y.sh, {P, SP, B})
           a3(y) == ref_pic_list_reordering(y.sh)
           p4(t) == \/ x.pps.weighted_pred_flag = 1 /\ t % 5 \in {P, SP}
                    \/ x.pps.weighted_bipred_idc = 1 /\ is_slice_type(t, B)
           a4(y) == pred_weight_table(y)
           a5(y) == dec_ref_pic_marking(y)
           p6(t) == x.pps.entropy_coding_mode_flag = 1 /\ t % 5 \notin {I, SI}
           a9(y) == DeblockingAndGroups(y)
           ref == x.nal.nal_ref_idc # 0
           end(t) == When(p6(t), <<"cabac_init_idc">>) \o <<"slice_qp_delta">>
           switch(t) == When(is_slice_type(t, SP), <<"sp_for_switch_flag">>)
           qs(t) == When(t % 5 \in {SP, SI}, <<"slice_qs_delta">>)
<1>1. /\ Follows(a1(x), a1(z), A)
      /\ Held(a1(x), A) => f.slice_type = g.slice_type
  BY SliceHeaderStartFollows
<1>2. ASSUME f.slice_type = g.slice_type
      PROVE  /\ Follows(a2(x), a2(z), A) /\ Follows(a3(x), a3(z), A)
             /\ Follows(a4(x), a4(z), A)
  BY <1>2, RefIdxOverrideFollows, ReorderingOfBothFollows, PredWeightFollows DEF SameUnit
<1>3. Follows(a5(x), a5(z), A) /\ Follows(a9(x), a9(z), A)
  BY MarkingFollows, DeblockingFollows DEF SameUnit
<1>4. \A y : /\ IsSeq(a2(y)) /\ IsSeq(a3(y)) /\ IsSeq(a4(y)) /\ IsSeq(a5(y)) /\ IsSeq(a9(y))
  <2> TAKE y
  <2>1. SameUnit(y, y) /\ SameFieldFlag(y, y, y.sps) /\ Agree(y.sh, y.sh, {})
    BY DEF SameUnit, SameFieldFlag, Agree
  <2>2. /\ Follows(a2(y), a2(y), {}) /\ Follows(a3(y), a3(y), {}) /\ Follows(a4(y), a4(y), {})
        /\ Follows(a5(y), a5(y), {}) /\ Follows(a9(y), a9(y), {})
    BY <2>1, RefIdxOverrideFollows, ReorderingOfBothFollows, PredWeightFollows,
       MarkingFollows, DeblockingFollows
  <2> QED BY <2>2 DEF Follows
<1>5. IsSeq(a1(x)) /\ IsSeq(a1(z))
  BY <1>1 DEF Follows
<1>6. \A t : IsSeq(end(t)) /\ IsSeq(switch(t)) /\ IsSeq(qs(t))
  BY FollowRules, LiteralRules
<1>7. /\ slice_header(x) = a1(x) \o a2(x) \o a3(x) \o When(p4(f.slice_type), a4(x))
                           \o When(ref, a5(x)) \o When(p6(f.slice_type), <<"cabac_init_idc">>)
                           \o <<"slice_qp_delta">> \o switch(f.slice_type)
                           \o qs(f.slice_type) \o a9(x)
      /\ slice_header(z) = a1(z) \o a2(z) \o a3(z) \o When(p4(g.slice_type), a4(z))
                           \o When(ref, a5(z)) \o When(p6(g.slice_type), <<"cabac_init_idc">>)
                           \o <<"slice_qp_delta">> \o switch(g.slice_type)
                           \o qs(g.slice_type) \o a9(z)
  BY DEF slice_header, SameUnit
<1> HIDE DEF f, g, a1, a2, a3, a4, a5, a9, p4, p6, ref, switch, qs, end
<1> DEFINE start(y, t) == a1(y) \o a2(y) \o a3(y) \o When(p4(t), a4(y)) \o When(ref, a5(y))
<1>8. Follows(start(x, f.slice_type), start(z, g.slice_type), A)
      /\ (Held(start(x, f.slice_type), A) => f.slice_type = g.slice_type)
  <2>1. CASE f.slice_type = g.slice_type
    BY <1>1, <1>2, <1>3, <1>4, <1>5, <2>1, FollowRules
  <2>2. CASE f.slice_type # g.slice_type
    <3>1. ~ Held(a1(x), A)
      BY <1>1, <2>2
    <3> QED BY <1>1, <1>4, <1>5, <3>1, FollowRules
  <2> QED BY <2>1, <2>2
<1>9. IsSeq(start(x, f.slice_type)) /\ IsSeq(start(z, g.slice_type))
  BY <1>8 DEF Follows
<1>10. \A t : IsSeq(When(p6(t), <<"cabac_init_idc">>)) /\ IsSeq(<<"slice_qp_delta">>)
  BY FollowRules, LiteralRules
<1> HIDE DEF start
<1>11. Follows(start(x, f.slice_type) \o When(p6(f.slice_type), <<"cabac_init_idc">>)
               \o <<"slice_qp_delta">> \o switch(f.slice_type) \o qs(f.slice_type) \o a9(x),
               start(z, g.slice_type) \o When(p6(g.slice_type), <<"cabac_init_idc">>)
               \o <<"slice_qp_delta">> \o switch(g.slice_type) \o qs(g.slice_type) \o a9(z), A)
  <2>1. CASE f.slice_type = g.slice_type
    BY <1>3, <1>4, <1>6, <1>8, <1>9, <1>10, <2>1, FollowRules
  <2>2. CASE f.slice_type # g.slice_type
    <3>1. ~ Held(start(x, f.slice_type), A)
      BY <1>8, <2>2
    <3> QED BY <1>4, <1>6, <1>8, <1>9, <1>10, <3>1, FollowRules
  <2> QED BY <2>1, <2>2
<1> QED BY <1>7, <1>11 DEF start

(***************************************************************************)
(* Scalable extension.                                                     *)
(***************************************************************************)

\* Groups of a slice header of the scalable extension.
LEMMA BaseMarkingFollows ==
  ASSUME NEW f, NEW g, NEW A, Agree(f, g, A)
  PROVE  Follows(dec_ref_base_pic_marking(f), dec_ref_base_pic_marking(g), A)
BY FollowRules, LiteralRules DEF dec_ref_base_pic_marking, Agree

\* What the slices of a layer also depend on: the header of the unit, and fields
\* of the extension of the subset SPS.
SvcFieldsOfSlices ==
  {"inter_layer_deblocking_filter_control_present_flag",
   "extended_spatial_scalability_idc", "slice_header_restriction_flag",
   "adaptive_tcoeff_level_prediction_flag"}

SameLayer(x, z) ==
  /\ x.nal_svc_ext.no_inter_layer_pred_flag = z.nal_svc_ext.no_inter_layer_pred_flag
  /\ x.nal_svc_ext.quality_id = z.nal_svc_ext.quality_id
  /\ x.nal_svc_ext.use_ref_base_pic_flag = z.nal_svc_ext.use_ref_base_pic_flag
  /\ \A n \in SvcFieldsOfSlices : x.sps_svc_ext[n] = z.sps_svc_ext[n]

\* Fields that a slice of a layer does not hold are inferred to be the same.
SameInferred(x, z) ==
  /\ x.nal_svc_ext.no_inter_layer_pred_flag # 0 =>
       /\ x.sh_svc_ext.base_pred_weight_table_flag = z.sh_svc_ext.base_pred_weight_table_flag
       /\ x.sh_svc_ext.slice_skip_flag = z.sh_svc_ext.slice_skip_flag
  /\ x.sh_svc_ext.adaptive_base_mode_flag # 0 =>
       x.sh_svc_ext.default_base_mode_flag = z.sh_svc_ext.default_base_mode_flag

LEMMA SvcWeightsFollow ==
  ASSUME NEW x, NEW z, NEW A, AgreeOn(x, z, A), SameUnit(x, z), SameLayer(x, z),
         SameInferred(x, z), x.sh.slice_type = z.sh.slice_type
  PROVE  Follows(SvcWeights(x, x.sh_svc_ext), SvcWeights(z, z.sh_svc_ext), A)
<1> DEFINE N == NamesIn("sh", A)
           M == NamesIn("sh_svc_ext", A)
           p(t) == \/ x.pps.weighted_pred_flag = 1 /\ is_slice_type(t, P)
                   \/ x.pps.weighted_bipred_idc = 1 /\ is_slice_type(t, B)
           inter == x.nal_svc_ext.no_inter_layer_pred_flag
           own(y) == inter = 1 \/ y.sh_svc_ext.base_pred_weight_table_flag = 0
           flag == SvcSlice(<<"base_pred_weight_table_flag">>)
           W(y) == In("sh", pred_weight_table(y))
<1>1. Agree(x.sh, z.sh, N) /\ Agree(x.sh_svc_ext, z.sh_svc_ext, M)
  BY DEF AgreeOn
<1>2. Follows(pred_weight_table(x), pred_weight_table(z), N)
  BY <1>1, PredWeightFollows DEF SameUnit
<1>3. Follows(W(x), W(z), A) /\ IsSeq(W(x)) /\ IsSeq(W(z))
  BY <1>2, InRules DEF Follows
<1>4. IsSeq(flag) /\ (Held(flag, A) => "base_pred_weight_table_flag" \in M)
  BY LiteralRules, InRules DEF SvcSlice
<1>5. /\ inter = 0 => (Held(flag, A) => own(x) = own(z))
      /\ inter # 0 => own(x) = own(z)
  BY <1>1, <1>4 DEF Agree, SameInferred
<1> HIDE DEF own, W, flag, N, M, p, inter
<1>6. Follows(When(inter = 0, flag) \o When(own(x), W(x)),
              When(inter = 0, flag) \o When(own(z), W(z)), A)
  <2>1. IsSeq(When(inter = 0, flag)) /\ IsSeq(When(own(x), W(x))) /\ IsSeq(When(own(z), W(z)))
    BY <1>3, <1>4, FollowRules
  <2>2. Held(When(inter = 0, flag), A) => own(x) = own(z)
    BY <1>5 DEF When
  <2> QED BY <1>3, <2>1, <2>2, FollowRules
<1> DEFINE T(y) == When(inter = 0, flag) \o When(own(y), W(y))
<1>7. Follows(When(p(x.sh.slice_type), T(x)), When(p(z.sh.slice_type), T(z)), A)
  <2> HIDE DEF T
  <2>1. Follows(T(x), T(z), A)
    BY <1>6 DEF T
  <2> QED BY <2>1, FollowRules
<1> QED BY <1>7 DEF SvcWeights, SameUnit, SameLayer, p, T, own, W, flag, inter

LEMMA SvcReferencesFollow ==
  ASSUME NEW x, NEW z, NEW A, AgreeOn(x, z, A), SameUnit(x, z), SameLayer(x, z),
         SameInferred(x, z), x.sh.slice_type = z.sh.slice_type
  PROVE  Follows(SvcReferences(x, x.sh_svc_ext), SvcReferences(z, z.sh_svc_ext), A)
<1> DEFINE N == NamesIn("sh", A)
           M == NamesIn("sh_svc_ext", A)
           K == NamesIn("prefix_nal_svc", A)
           a1(y) == RefIdxOverride(y.sh, {P, B}) \o ref_pic_list_reordering(y.sh)
           lists(y) == In("sh", a1(y))
           weights(y) == SvcWeights(y, y.sh_svc_ext)
           marking(y) == In("sh", dec_ref_pic_marking(y))
           store == SvcSlice(<<"store_ref_base_pic_flag">>)
           base(y) == In("prefix_nal_svc", dec_ref_base_pic_marking(y.prefix_nal_svc))
           restricted == x.sps_svc_ext.slice_header_restriction_flag
           used(y) == /\ 1 \in {x.nal_svc_ext.use_ref_base_pic_flag, y.sh_svc_ext.store_ref_base_pic_flag}
                      /\ x.nal.nal_unit_type # 5
           ref == x.nal.nal_ref_idc # 0
           stored(y) == store \o When(used(y), base(y))
           marked(y) == marking(y) \o When(restricted = 0, stored(y))
<1>1. Agree(x.sh, z.sh, N) /\ Agree(x.sh_svc_ext, z.sh_svc_ext, M)
      /\ Agree(x.prefix_nal_svc, z.prefix_nal_svc, K)
  BY DEF AgreeOn
<1>2. Follows(lists(x), lists(z), A)
  <2> DEFINE b(y) == RefIdxOverride(y.sh, {P, B})
             c(y) == ref_pic_list_reordering(y.sh)
  <2>1. Follows(b(x), b(z), N) /\ Follows(c(x), c(z), N)
    BY <1>1, RefIdxOverrideFollows, ReorderingOfBothFollows
  <2>2. IsSeq(c(x)) /\ IsSeq(c(z))
    BY <2>1 DEF Follows
  <2>3. Follows(a1(x), a1(z), N)
    <3> HIDE DEF b, c
    <3>1. Follows(b(x) \o c(x), b(z) \o c(z), N)
      BY <2>1, <2>2, FollowRules
    <3> QED BY <3>1 DEF b, c
  <2> HIDE DEF a1
  <2> QED BY <2>3, InRules
<1>3. Follows(weights(x), weights(z), A)
  BY SvcWeightsFollow
<1>4. Follows(marking(x), marking(z), A)
  <2>1. Follows(dec_ref_pic_marking(x), dec_ref_pic_marking(z), N)
    BY <1>1, MarkingFollows DEF SameUnit
  <2> QED BY <2>1, InRules
<1>5. Follows(base(x), base(z), A)
  <2>1. Follows(dec_ref_base_pic_marking(x.prefix_nal_svc),
                dec_ref_base_pic_marking(z.prefix_nal_svc), K)
    BY <1>1, BaseMarkingFollows
  <2> QED BY <2>1, InRules
<1>6. IsSeq(store) /\ (Held(store, A) => used(x) = used(z))
  <2>1. IsSeq(store) /\ (Held(store, A) => "store_ref_base_pic_flag" \in M)
    BY LiteralRules, InRules DEF SvcSlice
  <2> QED BY <1>1, <2>1 DEF Agree
<1>7. /\ IsSeq(lists(x)) /\ IsSeq(lists(z)) /\ IsSeq(weights(x)) /\ IsSeq(weights(z))
      /\ IsSeq(marking(x)) /\ IsSeq(marking(z)) /\ IsSeq(base(x)) /\ IsSeq(base(z))
  BY <1>2, <1>3, <1>4, <1>5 DEF Follows
<1>8. /\ SvcReferences(x, x.sh_svc_ext) = lists(x) \o weights(x) \o When(ref, marked(x))
      /\ SvcReferences(z, z.sh_svc_ext) = lists(z) \o weights(z) \o When(ref, marked(z))
  BY DEF SvcReferences, SameUnit, SameLayer, SvcFieldsOfSlices
<1> HIDE DEF N, M, K, lists, weights, marking, store, base, restricted, used, ref
<1>9. Follows(marked(x), marked(z), A) /\ IsSeq(marked(x)) /\ IsSeq(marked(z))
  <2>1. Follows(stored(x), stored(z), A)
    BY <1>5, <1>6, <1>7, FollowRules
  <2>2. IsSeq(stored(x)) /\ IsSeq(stored(z))
    BY <2>1 DEF Follows
  <2> HIDE DEF stored
  <2>3. Follows(marked(x), marked(z), A)
    BY <1>4, <1>7, <2>1, <2>2, FollowRules
  <2> QED BY <2>3 DEF Follows
<1> HIDE DEF marked, stored
<1>10. Follows(lists(x) \o weights(x) \o When(ref, marked(x)),
               lists(z) \o weights(z) \o When(ref, marked(z)), A)
  BY <1>2, <1>3, <1>7, <1>9, FollowRules
<1> QED BY <1>8, <1>10

LEMMA InterLayerDeblockingFollows ==
  ASSUME NEW x, NEW z, NEW A, Agree(x.sh_svc_ext, z.sh_svc_ext, A), SameUnit(x, z),
         SameLayer(x, z)
  PROVE  Follows(InterLayerDeblocking(x, x.sps_svc_ext), InterLayerDeblocking(z, z.sps_svc_ext), A)
<1> DEFINE f == x.sh_svc_ext
           g == z.sh_svc_ext
           c == x.sps_svc_ext.inter_layer_deblocking_filter_control_present_flag
           e == x.sps_svc_ext.extended_spatial_scalability_idc
           D(y) == <<"disable_inter_layer_deblocking_filter_idc">>
                   \o When(y.disable_inter_layer_deblocking_filter_idc # 1,
                           <<"inter_layer_slice_alpha_c0_offset_div2",
                             "inter_layer_slice_beta_offset_div2">>)
           end == When(e = 2,
                    When(x.subset.chroma_format_idc > 0,
                         <<"ref_layer_chroma_phase_x_plus1_flag",
                           "ref_layer_chroma_phase_y_plus1">>)
                    \o <<"scaled_ref_layer_left_offset", "scaled_ref_layer_top_offset",
                         "scaled_ref_layer_right_offset", "scaled_ref_layer_bottom_offset">>)
<1>1. Follows(D(f), D(g), A)
  BY FollowRules, LiteralRules DEF Agree
<1>2. IsSeq(D(f)) /\ IsSeq(D(g))
  BY <1>1 DEF Follows
<1>3. IsSeq(end)
  BY FollowRules, LiteralRules, LongLiterals
<1>4. /\ InterLayerDeblocking(x, x.sps_svc_ext)
         = <<"ref_layer_dq_id">> \o When(c = 1, D(f)) \o <<"constrained_intra_resampling_flag">> \o end
      /\ InterLayerDeblocking(z, z.sps_svc_ext)
         = <<"ref_layer_dq_id">> \o When(c = 1, D(g)) \o <<"constrained_intra_resampling_flag">> \o end
  BY DEF InterLayerDeblocking, SameUnit, SameLayer, SvcFieldsOfSlices
<1> HIDE DEF D, end, c, e, f, g
<1>5. Follows(<<"ref_layer_dq_id">> \o When(c = 1, D(f)) \o <<"constrained_intra_resampling_flag">> \o end,
              <<"ref_layer_dq_id">> \o When(c = 1, D(g)) \o <<"constrained_intra_resampling_flag">> \o end, A)
  BY <1>1, <1>2, <1>3, FollowRules, LiteralRules
<1> QED BY <1>4, <1>5

LEMMA InterLayerPredictionFollows ==
  ASSUME NEW f, NEW g, NEW A, Agree(f, g, A),
         f.adaptive_base_mode_flag # 0 => f.default_base_mode_flag = g.default_base_mode_flag
  PROVE  /\ Follows(InterLayerPrediction(f), InterLayerPrediction(g), A)
         /\ Held(InterLayerPrediction(f), A) => f.slice_skip_flag = g.slice_skip_flag
<1> DEFINE Motion(y) == <<"adaptive_motion_prediction_flag">>
                        \o When(y.adaptive_motion_prediction_flag = 0,
                                <<"default_motion_prediction_flag">>)
           Base(y) == <<"adaptive_base_mode_flag">>
                      \o When(y.adaptive_base_mode_flag = 0, <<"default_base_mode_flag">>)
           end(y) == When(y.adaptive_residual_prediction_flag = 0,
                          <<"default_residual_prediction_flag">>)
           Modes(y) == Base(y) \o When(y.default_base_mode_flag = 0, Motion(y))
                       \o <<"adaptive_residual_prediction_flag">> \o end(y)
           Rest(y) == IF y.slice_skip_flag = 1 THEN <<"num_mbs_in_slice_minus1">> ELSE Modes(y)
<1>1. /\ Follows(Motion(f), Motion(g), A) /\ IsSeq(Motion(f)) /\ IsSeq(Motion(g))
      /\ Follows(Base(f), Base(g), A) /\ IsSeq(Base(f)) /\ IsSeq(Base(g))
      /\ IsSeq(end(f)) /\ IsSeq(end(g))
      /\ "adaptive_residual_prediction_flag" \in A => Follows(end(f), end(g), A)
  BY FollowRules, LiteralRules DEF Agree
<1>2. Held(Base(f), A) => f.default_base_mode_flag = g.default_base_mode_flag
  <2> DEFINE default == <<"default_base_mode_flag">>
             first == <<"adaptive_base_mode_flag">>
  <2>1. IsSeq(default) /\ IsSeq(first) /\ (Held(default, A) => "default_base_mode_flag" \in A)
    BY LiteralRules
  <2> HIDE DEF default, first
  <2>2. Held(first \o When(f.adaptive_base_mode_flag = 0, default), A)
        => Held(When(f.adaptive_base_mode_flag = 0, default), A)
    BY <2>1, FollowRules
  <2>3. f.adaptive_base_mode_flag = 0 /\ Held(When(f.adaptive_base_mode_flag = 0, default), A)
        => "default_base_mode_flag" \in A
    BY <2>1 DEF When
  <2> QED BY <2>2, <2>3 DEF default, first, Agree
<1> HIDE DEF Motion, Base, end
<1>3. Follows(Modes(f), Modes(g), A)
  BY <1>1, <1>2, FollowRules, LiteralRules
<1>4. "slice_skip_flag" \in A => f.slice_skip_flag = g.slice_skip_flag
  BY DEF Agree
<1> HIDE DEF Modes
<1>5. "slice_skip_flag" \in A => Follows(Rest(f), Rest(g), A)
  BY <1>3, <1>4, FollowRules, LiteralRules
<1>6. IsSeq(Rest(f)) /\ IsSeq(Rest(g))
  BY <1>3, LiteralRules DEF Follows
<1> HIDE DEF Rest
<1>7. Follows(<<"slice_skip_flag">> \o Rest(f), <<"slice_skip_flag">> \o Rest(g), A)
  BY <1>5, <1>6, FollowRules, LiteralRules
<1>8. Held(<<"slice_skip_flag">> \o Rest(f), A) => f.slice_skip_flag = g.slice_skip_flag
  BY <1>4, <1>6, FollowRules, LiteralRules
<1> QED BY <1>7, <1>8 DEF InterLayerPrediction, Rest, Modes, Motion, Base, end

LEMMA ScalableSliceFollows ==
  ASSUME NEW x, NEW z, NEW A, AgreeOn(x, z, A), SameUnit(x, z), SameLayer(x, z),
         SameInferred(x, z), SameFieldFlag(x, z, x.subset)
  PROVE  Follows(slice_header_in_scalable_extension(x), slice_header_in_scalable_extension(z), A)
<1> DEFINE N == NamesIn("sh", A)
           M == NamesIn("sh_svc_ext", A)
           start(y) == In("sh", SliceHeaderStart(y, x.subset, BothFields(y)))
           refs(y) == SvcReferences(y, y.sh_svc_ext)
           quality == x.nal_svc_ext.quality_id
           inter == x.nal_svc_ext.no_inter_layer_pred_flag
           cabac(t) == When(x.pps.entropy_coding_mode_flag = 1 /\ ~is_slice_type(t, I),
                            <<"cabac_init_idc">>)
           qp(y) == cabac(y.sh.slice_type) \o <<"slice_qp_delta">> \o DeblockingAndGroups(y)
           middle(y) == In("sh", qp(y))
           deblock(y) == InterLayerDeblocking(y, y.sps_svc_ext)
           predict(y) == InterLayerPrediction(y.sh_svc_ext)
           coeff == When(x.sps_svc_ext.adaptive_tcoeff_level_prediction_flag = 1,
                         <<"tcoeff_level_prediction_flag">>)
           layer(y) == When(quality = 0, deblock(y)) \o predict(y) \o coeff
           scan(y) == When(/\ x.sps_svc_ext.slice_header_restriction_flag = 0
                           /\ y.sh_svc_ext.slice_skip_flag = 0,
                           <<"scan_idx_start", "scan_idx_end">>)
           svc(y) == When(inter = 0, layer(y)) \o scan(y)
           end(y) == SvcSlice(svc(y))
<1>1. Agree(x.sh, z.sh, N) /\ Agree(x.sh_svc_ext, z.sh_svc_ext, M)
  BY DEF AgreeOn
<1>2. /\ Follows(start(x), start(z), A) /\ IsSeq(start(x)) /\ IsSeq(start(z))
      /\ Held(start(x), A) => x.sh.slice_type = z.sh.slice_type
  <2> DEFINE s(y) == SliceHeaderStart(y, x.subset, BothFields(y))
  <2>1. Follows(s(x), s(z), N) /\ (Held(s(x), N) => x.sh.slice_type = z.sh.slice_type)
    BY <1>1, SliceHeaderStartFollows
  <2>2. IsSeq(s(x)) /\ IsSeq(s(z))
    BY <2>1 DEF Follows
  <2> HIDE DEF s
  <2>3. /\ Follows(In("sh", s(x)), In("sh", s(z)), A)
        /\ IsSeq(In("sh", s(x))) /\ IsSeq(In("sh", s(z)))
        /\ Held(In("sh", s(x)), A) => x.sh.slice_type = z.sh.slice_type
    BY <2>1, <2>2, InRules
  <2> QED BY <2>3 DEF s
<1>3. x.sh.slice_type = z.sh.slice_type => Follows(refs(x), refs(z), A)
  BY SvcReferencesFollow
<1>4. \A y : IsSeq(refs(y))
  <2> TAKE y
  <2>1. Follows(refs(y), refs(y), {})
    BY SvcReferencesFollow DEF AgreeOn, Agree, SameUnit, SameLayer, SameInferred, NamesIn
  <2> QED BY <2>1 DEF Follows
<1>5. /\ x.sh.slice_type = z.sh.slice_type => Follows(middle(x), middle(z), A)
      /\ IsSeq(middle(x)) /\ IsSeq(middle(z))
  <2> DEFINE g(y) == DeblockingAndGroups(y)
  <2>1. Follows(g(x), g(z), N)
    BY <1>1, DeblockingFollows
  <2>2. IsSeq(g(x)) /\ IsSeq(g(z)) /\ \A t : IsSeq(cabac(t))
    BY <2>1, FollowRules, LiteralRules DEF Follows
  <2> HIDE DEF g, cabac
  <2>3. /\ x.sh.slice_type = z.sh.slice_type => Follows(qp(x), qp(z), N)
        /\ IsSeq(qp(x)) /\ IsSeq(qp(z))
    <3>1. IsSeq(<<"slice_qp_delta">>)
      BY LiteralRules
    <3>2. IsSeq(qp(x)) /\ IsSeq(qp(z))
      BY <2>2, <3>1, FollowRules DEF g
    <3>3. ASSUME x.sh.slice_type = z.sh.slice_type PROVE Follows(qp(x), qp(z), N)
      BY <2>1, <2>2, <3>1, <3>3, FollowRules DEF g
    <3> QED BY <3>2, <3>3
  <2> HIDE DEF qp
  <2> QED BY <2>3, InRules
<1>6. /\ Follows(deblock(x), deblock(z), M) /\ Follows(predict(x), predict(z), M)
      /\ inter = 0 => (Held(predict(x), M) => x.sh_svc_ext.slice_skip_flag = z.sh_svc_ext.slice_skip_flag)
      /\ inter # 0 => x.sh_svc_ext.slice_skip_flag = z.sh_svc_ext.slice_skip_flag
  BY <1>1, InterLayerDeblockingFollows, InterLayerPredictionFollows DEF SameInferred
<1>7. /\ IsSeq(deblock(x)) /\ IsSeq(deblock(z)) /\ IsSeq(predict(x)) /\ IsSeq(predict(z))
      /\ IsSeq(coeff) /\ IsSeq(scan(x)) /\ IsSeq(scan(z))
      /\ x.sh_svc_ext.slice_skip_flag = z.sh_svc_ext.slice_skip_flag => scan(x) = scan(z)
  BY <1>6, FollowRules, LiteralRules DEF Follows
<1>8. /\ slice_header_in_scalable_extension(x)
         = start(x) \o When(quality = 0, refs(x)) \o middle(x) \o end(x)
      /\ slice_header_in_scalable_extension(z)
         = start(z) \o When(quality = 0, refs(z)) \o middle(z) \o end(z)
  BY DEF slice_header_in_scalable_extension, SameUnit, SameLayer, SvcFieldsOfSlices
<1> HIDE DEF N, M, start, refs, quality, inter, cabac, qp, middle, deblock, predict, coeff, scan
<1>9. Follows(end(x), end(z), A) /\ IsSeq(end(x)) /\ IsSeq(end(z))
  <2>1. Follows(layer(x), layer(z), M)
    BY <1>6, <1>7, FollowRules
  <2>2. /\ IsSeq(layer(x)) /\ IsSeq(layer(z))
    BY <2>1 DEF Follows
  <2>3. inter = 0 /\ Held(layer(x), M) => Held(predict(x), M)
    BY <1>7, FollowRules
  <2> HIDE DEF layer
  <2>4. Held(When(inter = 0, layer(x)), M) => scan(x) = scan(z)
    BY <1>6, <1>7, <2>3 DEF When
  <2>5. Follows(svc(x), svc(z), M)
    BY <1>7, <2>1, <2>2, <2>4, FollowRules
  <2> HIDE DEF svc
  <2>6. Follows(end(x), end(z), A)
    BY <2>5, InRules DEF SvcSlice, M
  <2> QED BY <2>6 DEF Follows
<1> HIDE DEF end
<1>10. Follows(start(x) \o When(quality = 0, refs(x)) \o middle(x),
               start(z) \o When(quality = 0, refs(z)) \o middle(z), A)
  <2>1. CASE x.sh.slice_type = z.sh.slice_type
    BY <1>2, <1>3, <1>4, <1>5, <2>1, FollowRules
  <2>2. CASE x.sh.slice_type # z.sh.slice_type
    <3>1. ~ Held(start(x), A)
      BY <1>2, <2>2
    <3> QED BY <1>2, <1>4, <1>5, <3>1, FollowRules
  <2> QED BY <2>1, <2>2
<1>11. Follows(start(x) \o When(quality = 0, refs(x)) \o middle(x) \o end(x),
               start(z) \o When(quality = 0, refs(z)) \o middle(z) \o end(z), A)
  <2> DEFINE a == start(x) \o When(quality = 0, refs(x)) \o middle(x)
             b == start(z) \o When(quality = 0, refs(z)) \o middle(z)
  <2>1. Follows(a, b, A)
    BY <1>10
  <2> HIDE DEF a, b
  <2>2. Follows(a \o end(x), b \o end(z), A)
    BY <1>9, <2>1, FollowRules
  <2> QED BY <2>2 DEF a, b
<1> QED BY <1>8, <1>11

(***************************************************************************)
(* NAL units.                                                              *)
(***************************************************************************)

\* The fields of the header of a unit in a scalable stream that decide on others.
HeaderFieldsUsed ==
  {"idr_flag", "no_inter_layer_pred_flag", "quality_id", "use_ref_base_pic_flag"}

\* The header of a unit follows from its own elements.
LEMMA NalHeaderFollows ==
  ASSUME NEW x, NEW z, NEW A, AgreeOn(x, z, A)
  PROVE  /\ Follows(NalHeader(x.nal), NalHeader(z.nal), A)
         /\ Held(NalHeader(x.nal), A) =>
              /\ x.nal.nal_ref_idc = z.nal.nal_ref_idc
              /\ x.nal.nal_unit_type = z.nal.nal_unit_type
              /\ x.nal.nal_unit_type \in {14, 20} =>
                   /\ x.nal.svc_extension_flag = z.nal.svc_extension_flag
                   /\ x.nal.svc_extension_flag = 1 =>
                        \A n \in HeaderFieldsUsed : x.nal_svc_ext[n] = z.nal_svc_ext[n]
<1> DEFINE f == x.nal
           g == z.nal
           N == NamesIn("nal", A)
           M == NamesIn("nal_svc_ext", A)
           two == In("nal", <<"nal_ref_idc", "nal_unit_type">>)
           flag == In("nal", <<"svc_extension_flag">>)
           ext == In("nal_svc_ext", nal_unit_header_svc_extension)
           svc(y) == flag \o When(y.svc_extension_flag = 1, ext)
<1>1. Agree(f, g, N) /\ Agree(x.nal_svc_ext, z.nal_svc_ext, M)
  BY DEF AgreeOn
<1>2. /\ IsSeq(two) /\ (Held(two, A) => "nal_ref_idc" \in N /\ "nal_unit_type" \in N)
      /\ IsSeq(flag) /\ (Held(flag, A) => "svc_extension_flag" \in N)
  BY LiteralRules, InRules
<1>3. IsSeq(ext) /\ (Held(ext, A) => \A n \in HeaderFieldsUsed : n \in M)
  <2> DEFINE e == nal_unit_header_svc_extension
  <2>1. IsSeq(e)
    BY LongLiterals DEF nal_unit_header_svc_extension
  <2>2. Held(e, M) => \A n \in HeaderFieldsUsed : n \in M
    <3>1. /\ 1 \in DOMAIN e /\ 3 \in DOMAIN e /\ 5 \in DOMAIN e /\ 7 \in DOMAIN e
          /\ e[1] = "idr_flag" /\ e[3] = "no_inter_layer_pred_flag" /\ e[5] = "quality_id"
          /\ e[7] = "use_ref_base_pic_flag"
      BY DEF nal_unit_header_svc_extension
    <3> QED BY <3>1 DEF Held, HeaderFieldsUsed
  <2> HIDE DEF e
  <2>3. IsSeq(In("nal_svc_ext", e))
        /\ (Held(In("nal_svc_ext", e), A) => \A n \in HeaderFieldsUsed : n \in M)
    BY <2>1, <2>2, InRules
  <2> QED BY <2>3 DEF e
<1>4. /\ NalHeader(f) = two \o When(f.nal_unit_type \in {14, 20}, svc(f))
      /\ NalHeader(g) = two \o When(g.nal_unit_type \in {14, 20}, svc(g))
  BY DEF NalHeader
<1>5. /\ Held(two, A) => f.nal_ref_idc = g.nal_ref_idc /\ f.nal_unit_type = g.nal_unit_type
      /\ Held(flag, A) => f.svc_extension_flag = g.svc_extension_flag
      /\ Held(ext, A) => \A n \in HeaderFieldsUsed : x.nal_svc_ext[n] = z.nal_svc_ext[n]
  BY <1>1, <1>2, <1>3 DEF Agree
<1> HIDE DEF N, M, two, flag, ext, f, g
<1>6. Follows(svc(f), svc(g), A)
  BY <1>2, <1>3, <1>5, FollowRules
<1>7. IsSeq(svc(f)) /\ IsSeq(svc(g))
  BY <1>6 DEF Follows
<1>8. IsSeq(When(f.svc_extension_flag = 1, ext))
  BY <1>3, FollowRules
<1>9. Held(svc(f), A) => /\ f.svc_extension_flag = g.svc_extension_flag
                         /\ f.svc_extension_flag = 1 => Held(ext, A)
  <2>1. Held(svc(f), A) => Held(flag, A) /\ Held(When(f.svc_extension_flag = 1, ext), A)
    BY <1>2, <1>8, FollowRules
  <2>2. f.svc_extension_flag = 1 /\ Held(When(f.svc_extension_flag = 1, ext), A) => Held(ext, A)
    BY DEF When
  <2> QED BY <1>5, <2>1, <2>2
<1> HIDE DEF svc
<1>10. Follows(NalHeader(f), NalHeader(g), A)
  <2>1. Follows(two \o When(f.nal_unit_type \in {14, 20}, svc(f)),
                two \o When(g.nal_unit_type \in {14, 20}, svc(g)), A)
    BY <1>2, <1>5, <1>6, <1>7, FollowRules
  <2> QED BY <1>4, <2>1
<1>11. Held(NalHeader(f), A) => Held(two, A) /\ (f.nal_unit_type \in {14, 20} => Held(svc(f), A))
  <2>1. IsSeq(When(f.nal_unit_type \in {14, 20}, svc(f)))
    BY <1>7, FollowRules
  <2>2. Held(NalHeader(f), A) => Held(two, A) /\ Held(When(f.nal_unit_type \in {14, 20}, svc(f)), A)
    BY <1>2, <1>4, <2>1, FollowRules
  <2>3. f.nal_unit_type \in {14, 20} /\ Held(When(f.nal_unit_type \in {14, 20}, svc(f)), A)
        => Held(svc(f), A)
    BY DEF When
  <2> QED BY <2>2, <2>3
<1> QED BY <1>5, <1>9, <1>10, <1>11 DEF f, g

LEMMA PrefixFollows ==
  ASSUME NEW x, NEW z, NEW f, NEW g, NEW A, Agree(f, g, A),
         x.nal.nal_ref_idc = z.nal.nal_ref_idc,
         \A n \in HeaderFieldsUsed : x.nal_svc_ext[n] = z.nal_svc_ext[n]
  PROVE  Follows(prefix_nal_unit_svc(x, f), prefix_nal_unit_svc(z, g), A)
<1> DEFINE used(y) == /\ 1 \in {x.nal_svc_ext.use_ref_base_pic_flag, y.store_ref_base_pic_flag}
                      /\ x.nal_svc_ext.idr_flag = 0
           base(y) == dec_ref_base_pic_marking(y)
           all(y) == <<"store_ref_base_pic_flag">> \o When(used(y), base(y))
                     \o <<"additional_prefix_nal_unit_extension_flag">>
<1>1. Follows(base(f), base(g), A)
  BY BaseMarkingFollows
<1>2. IsSeq(base(f)) /\ IsSeq(base(g))
  BY <1>1 DEF Follows
<1>3. "store_ref_base_pic_flag" \in A => used(f) = used(g)
  BY DEF Agree
<1>4. /\ prefix_nal_unit_svc(x, f) = When(x.nal.nal_ref_idc # 0, all(f))
      /\ prefix_nal_unit_svc(z, g) = When(x.nal.nal_ref_idc # 0, all(g))
  BY DEF prefix_nal_unit_svc, HeaderFieldsUsed
<1> HIDE DEF used, base
<1>5. Follows(all(f), all(g), A)
  BY <1>1, <1>2, <1>3, FollowRules, LiteralRules
<1> HIDE DEF all
<1>6. Follows(When(x.nal.nal_ref_idc # 0, all(f)), When(x.nal.nal_ref_idc # 0, all(g)), A)
  BY <1>5, FollowRules
<1> QED BY <1>4, <1>6

\* What one who fills in or has read x and another one who is about to read the
\* same unit into z must have in common: the sets in force, and what is inferred
\* for fields that the unit does not hold.
InCommon(mode, x, more, other, z, most) ==
  LET type == x.nal.nal_unit_type
      sets == x.pps = z.pps /\ x.sps = z.sps /\ x.subset = z.subset
  IN /\ type \in {1, 5, 19} => sets /\ SameFieldFlag(x, z, x.sps)
     /\ type = 20 => /\ x.nal.svc_extension_flag = 1
                     /\ sets /\ SameFieldFlag(x, z, x.subset) /\ SameInferred(x, z)
                     /\ \A n \in SvcFieldsOfSlices : x.sps_svc_ext[n] = z.sps_svc_ext[n]
     /\ type = 7 => ~ Lists444(x.sps) \/ mode = other
     /\ type = 15 => ~ Lists444(x.subset) \/ mode = other
     /\ type = 8 => have_more_data(mode, x.pps, more) = have_more_data(other, z.pps, most)

\* So does a payload, where both sides have the same sets in force.
LEMMA PayloadFollows ==
  ASSUME NEW x, NEW z, NEW A, AgreeOn(x, z, A), NEW mode, NEW other, NEW more, NEW most,
         InCommon(mode, x, more, other, z, most),
         x.nal.nal_ref_idc = z.nal.nal_ref_idc,
         x.nal.nal_unit_type = z.nal.nal_unit_type,
         x.nal.nal_unit_type \in {14, 20} =>
           /\ x.nal.svc_extension_flag = z.nal.svc_extension_flag
           /\ x.nal.svc_extension_flag = 1 =>
                \A n \in HeaderFieldsUsed : x.nal_svc_ext[n] = z.nal_svc_ext[n]
  PROVE  Follows(Payload(mode, x, more), Payload(other, z, most), A)
<1> DEFINE t == x.nal.nal_unit_type
<1>0. \A s : Agree(x[s], z[s], NamesIn(s, A))
  BY DEF AgreeOn
<1>1. CASE t \in {1, 5, 19}
  <2>1. Agree(x.sh, z.sh, NamesIn("sh", A)) /\ SameUnit(x, z) /\ SameFieldFlag(x, z, x.sps)
    BY <1>0, <1>1 DEF InCommon, SameUnit
  <2>2. Follows(slice_header(x), slice_header(z), NamesIn("sh", A))
    BY <2>1, SliceHeaderFollows
  <2>3. Follows(In("sh", slice_header(x)), In("sh", slice_header(z)), A)
    BY <2>2, InRules
  <2> QED BY <1>1, <2>3 DEF Payload
<1>2. CASE t = 7
  <2>1. Agree(x.sps, z.sps, NamesIn("sps", A)) /\ (~ Lists444(x.sps) \/ mode = other)
    BY <1>0, <1>2 DEF InCommon
  <2>2. Follows(SeqParameterSet(mode, x.sps), SeqParameterSet(other, z.sps), NamesIn("sps", A))
    BY <2>1, SeqParameterSetFollows
  <2>3. Follows(In("sps", SeqParameterSet(mode, x.sps)), In("sps", SeqParameterSet(other, z.sps)), A)
    BY <2>2, InRules
  <2> QED BY <1>2, <2>3 DEF Payload
<1>3. CASE t = 8
  <2>1. /\ Agree(x.pps, z.pps, NamesIn("pps", A))
        /\ have_more_data(mode, x.pps, more) = have_more_data(other, z.pps, most)
    BY <1>0, <1>3 DEF InCommon
  <2>2. Follows(PicParameterSet(mode, x.pps, more), PicParameterSet(other, z.pps, most), NamesIn("pps", A))
    BY <2>1, PicParameterSetFollows
  <2>3. Follows(In("pps", PicParameterSet(mode, x.pps, more)),
                In("pps", PicParameterSet(other, z.pps, most)), A)
    BY <2>2, InRules
  <2> QED BY <1>3, <2>3 DEF Payload
<1>4. CASE t = 9
  <2>1. Follows(In("aud", <<"primary_pic_type">>), In("aud", <<"primary_pic_type">>), A)
    BY FollowRules, LiteralRules, InRules
  <2> QED BY <1>4, <2>1 DEF Payload
<1>5. CASE t = 14
  <2> DEFINE p(y) == prefix_nal_unit_svc(y, y.prefix_nal_svc)
  <2>1. x.nal.svc_extension_flag = 1 => Follows(In("prefix_nal_svc", p(x)), In("prefix_nal_svc", p(z)), A)
    <3>1. ASSUME x.nal.svc_extension_flag = 1 PROVE Follows(p(x), p(z), NamesIn("prefix_nal_svc", A))
      BY <1>0, <1>5, <3>1, PrefixFollows
    <3> HIDE DEF p
    <3> QED BY <3>1, InRules
  <2> HIDE DEF p
  <2>2. Follows(When(x.nal.svc_extension_flag = 1, In("prefix_nal_svc", p(x))),
                When(z.nal.svc_extension_flag = 1, In("prefix_nal_svc", p(z))), A)
    BY <1>5, <2>1, FollowRules
  <2> QED BY <1>5, <2>2 DEF Payload, p
<1>6. CASE t = 15
  <2>1. Follows(SubsetSps(mode, x), SubsetSps(other, z), A)
    BY <1>6, SubsetSpsFollows DEF InCommon
  <2> QED BY <1>6, <2>1 DEF Payload
<1>7. CASE t = 20
  <2>1. SameUnit(x, z) /\ SameLayer(x, z) /\ SameInferred(x, z) /\ SameFieldFlag(x, z, x.subset)
    BY <1>7 DEF InCommon, SameUnit, SameLayer, HeaderFieldsUsed
  <2>2. Follows(slice_header_in_scalable_extension(x), slice_header_in_scalable_extension(z), A)
    BY <2>1, ScalableSliceFollows
  <2> QED BY <1>7, <2>2 DEF Payload
<1>8. CASE t \notin {1, 5, 7, 8, 9, 14, 15, 19, 20}
  <2>1. Follows(<<>>, <<>>, A)
    BY FollowRules, LiteralRules
  <2> QED BY <1>8, <2>1 DEF Payload
<1> QED BY <1>1, <1>2, <1>3, <1>4, <1>5, <1>6, <1>7, <1>8

LEMMA PayloadIsSeq ==
  ASSUME NEW y, NEW mode, NEW more
  PROVE  IsSeq(Payload(mode, y, more))
<1>1. AgreeOn(y, y, {})
  BY DEF AgreeOn, Agree
<1>2. CASE y.nal.nal_unit_type = 20
  <2>1. /\ SameUnit(y, y) /\ SameLayer(y, y) /\ SameInferred(y, y)
        /\ SameFieldFlag(y, y, y.subset)
    BY DEF SameUnit, SameLayer, SameInferred, SameFieldFlag
  <2>2. Follows(slice_header_in_scalable_extension(y), slice_header_in_scalable_extension(y), {})
    BY <1>1, <2>1, ScalableSliceFollows
  <2> QED BY <1>2, <2>2 DEF Follows, Payload
<1>3. CASE y.nal.nal_unit_type # 20
  <2>1. InCommon(mode, y, more, mode, y, more)
    BY <1>3 DEF InCommon, SameFieldFlag
  <2>2. Follows(Payload(mode, y, more), Payload(mode, y, more), {})
    BY <1>1, <2>1, PayloadFollows
  <2> QED BY <2>2 DEF Follows
<1> QED BY <1>2, <1>3

\* A reader who has taken the first elements of a unit off the wire expects what
\* the one who wrote it put there next.
LEMMA NalUnitFollows ==
  ASSUME NEW x, NEW z, NEW A, AgreeOn(x, z, A), NEW mode, NEW other, NEW more, NEW most,
         InCommon(mode, x, more, other, z, most)
  PROVE  Follows(NalUnit(mode, x, more), NalUnit(other, z, most), A)
<1> DEFINE a == NalHeader(x.nal)
           b == NalHeader(z.nal)
           p == Payload(mode, x, more)
           q == Payload(other, z, most)
<1>1. Follows(a, b, A)
  BY NalHeaderFollows
<1>2. IsSeq(p) /\ IsSeq(q)
  BY PayloadIsSeq
<1>3. ASSUME Held(a, A) PROVE Follows(p, q, A)
  BY <1>3, NalHeaderFollows, PayloadFollows
<1> HIDE DEF a, b, p, q
<1>4. Follows(a \o p, b \o q, A)
  BY <1>1, <1>2, <1>3, FollowsOn
<1> QED BY <1>4 DEF NalUnit, a, b, p, q

\* Every unit begins with the same two elements.
LEMMA FirstElements ==
  ASSUME NEW y, NEW mode, NEW more
  PROVE  /\ IsSeq(NalUnit(mode, y, more)) /\ Len(NalUnit(mode, y, more)) \in Nat
         /\ Len(NalUnit(mode, y, more)) >= 2
         /\ NalUnit(mode, y, more)[1] = [s |-> "nal", n |-> "nal_ref_idc"]
         /\ NalUnit(mode, y, more)[2] = [s |-> "nal", n |-> "nal_unit_type"]
<1> DEFINE two == In("nal", <<"nal_ref_idc", "nal_unit_type">>)
           flag == In("nal", <<"svc_extension_flag">>)
           ext == In("nal_svc_ext", nal_unit_header_svc_extension)
           rest == When(y.nal.nal_unit_type \in {14, 20},
                        flag \o When(y.nal.svc_extension_flag = 1, ext))
           p == Payload(mode, y, more)
<1>1. /\ IsSeq(two) /\ Len(two) = 2 /\ two[1] = [s |-> "nal", n |-> "nal_ref_idc"]
      /\ two[2] = [s |-> "nal", n |-> "nal_unit_type"]
  <2>1. IsSeq(two)
    BY LiteralRules, InRules
  <2> QED BY <2>1 DEF In
<1>2. IsSeq(rest) /\ IsSeq(p)
  <2>1. IsSeq(ext) /\ IsSeq(flag)
    <3>1. IsSeq(nal_unit_header_svc_extension)
      BY LongLiterals DEF nal_unit_header_svc_extension
    <3> QED BY <3>1, InRules, LiteralRules
  <2> HIDE DEF ext, flag
  <2> QED BY <2>1, FollowRules, PayloadIsSeq
<1>3. NalUnit(mode, y, more) = (two \o rest) \o p
  BY DEF NalUnit, NalHeader
<1> HIDE DEF two, rest, p
<1>4. IsSeq(two \o rest) /\ Len(two \o rest) = 2 + Len(rest)
      /\ \A i \in 1 .. 2 : (two \o rest)[i] = two[i]
  <2>1. IsSeq(two \o rest) /\ Len(two \o rest) = Len(two) + Len(rest)
        /\ \A i \in 1 .. Len(two) : (two \o rest)[i] = two[i]
    BY <1>1, <1>2, Joined
  <2> QED BY <1>1, <2>1
<1>5. Len(rest) \in Nat /\ Len(p) \in Nat
  BY <1>2, SeqFacts
<1>6. /\ IsSeq((two \o rest) \o p)
      /\ Len((two \o rest) \o p) = 2 + Len(rest) + Len(p)
      /\ \A i \in 1 .. Len(two \o rest) : ((two \o rest) \o p)[i] = (two \o rest)[i]
  BY <1>2, <1>4, Joined
<1>7. 1 \in 1 .. 2 /\ 2 \in 1 .. 2 /\ 1 \in 1 .. Len(two \o rest) /\ 2 \in 1 .. Len(two \o rest)
  BY <1>4, <1>5
<1> QED BY <1>1, <1>3, <1>4, <1>5, <1>6, <1>7

(***************************************************************************)
(* Which structures the elements of a unit are of.                         *)
(***************************************************************************)

OfStructures(a, S) == \A i \in DOMAIN a : a[i].s \in S

LEMMA StructureRules ==
  /\ \A a, b, S : IsSeq(a) /\ IsSeq(b) /\ OfStructures(a, S) /\ OfStructures(b, S)
                  => OfStructures(a \o b, S)
  /\ \A p, a, S : (p => OfStructures(a, S)) => OfStructures(When(p, a), S)
  /\ \A s, a, S : IsSeq(a) /\ s \in S => OfStructures(In(s, a), S)
<1>1. ASSUME NEW a, NEW b, NEW S, IsSeq(a), IsSeq(b), OfStructures(a, S), OfStructures(b, S)
      PROVE  OfStructures(a \o b, S)
  <2> DEFINE E == {e \in ToSet(a) \cup ToSet(b) : e.s \in S}
             c == a \o b
  <2>1. Held(a, E) /\ Held(b, E)
    BY <1>1 DEF Held, OfStructures, ToSet
  <2>2. Held(c, E)
    <3> HIDE DEF E
    <3> QED BY <1>1, <2>1, Joined
  <2> HIDE DEF c
  <2> QED BY <2>2 DEF Held, OfStructures, c
<1>2. ASSUME NEW p, NEW a, NEW S, p => OfStructures(a, S)
      PROVE  OfStructures(When(p, a), S)
  BY <1>2 DEF When, OfStructures
<1>3. ASSUME NEW s, NEW a, NEW S, IsSeq(a), s \in S PROVE OfStructures(In(s, a), S)
  BY <1>3 DEF In, OfStructures
<1> QED BY <1>1, <1>2, <1>3

\* The structures of the elements of a payload.
PayloadStructures(type) ==
  CASE type \in {1, 5, 19} -> {"sh"} [] type = 7 -> {"sps"} [] type = 8 -> {"pps"}
    [] type = 9 -> {"aud"} [] type = 14 -> {"prefix_nal_svc"}
    [] type = 15 -> {"subset", "sps_svc_ext", "sps_subset"}
    [] type = 20 -> {"sh", "sh_svc_ext", "prefix_nal_svc"}
    [] OTHER -> {}

LEMMA PartsAreSeqs ==
  ASSUME NEW y
  PROVE  /\ \A f, inter : IsSeq(RefIdxOverride(f, inter)) /\ IsSeq(ref_pic_list_reordering(f))
         /\ IsSeq(pred_weight_table(y)) /\ IsSeq(dec_ref_pic_marking(y))
         /\ \A f : IsSeq(dec_ref_base_pic_marking(f)) /\ IsSeq(InterLayerPrediction(f))
         /\ IsSeq(InterLayerDeblocking(y, y.sps_svc_ext)) /\ IsSeq(DeblockingAndGroups(y))
         /\ \A sps : IsSeq(SliceHeaderStart(y, sps, BothFields(y)))
<1>1. \A f : Agree(f, f, {})
  BY DEF Agree
<1>2. /\ SameUnit(y, y) /\ SameLayer(y, y) /\ \A sps : SameFieldFlag(y, y, sps)
  BY DEF SameUnit, SameLayer, SameFieldFlag
<1>3. /\ \A f, inter : /\ Follows(RefIdxOverride(f, inter), RefIdxOverride(f, inter), {})
                       /\ Follows(ref_pic_list_reordering(f), ref_pic_list_reordering(f), {})
      /\ \A f : /\ Follows(dec_ref_base_pic_marking(f), dec_ref_base_pic_marking(f), {})
                /\ Follows(InterLayerPrediction(f), InterLayerPrediction(f), {})
  BY <1>1, RefIdxOverrideFollows, ReorderingOfBothFollows, BaseMarkingFollows,
     InterLayerPredictionFollows
<1>4. /\ Follows(pred_weight_table(y), pred_weight_table(y), {})
      /\ Follows(dec_ref_pic_marking(y), dec_ref_pic_marking(y), {})
      /\ Follows(DeblockingAndGroups(y), DeblockingAndGroups(y), {})
      /\ Follows(InterLayerDeblocking(y, y.sps_svc_ext), InterLayerDeblocking(y, y.sps_svc_ext), {})
  BY <1>1, <1>2, PredWeightFollows, MarkingFollows, DeblockingFollows, InterLayerDeblockingFollows
<1>5. \A sps : Follows(SliceHeaderStart(y, sps, BothFields(y)),
                       SliceHeaderStart(y, sps, BothFields(y)), {})
  BY <1>1, <1>2, SliceHeaderStartFollows
<1> QED BY <1>3, <1>4, <1>5 DEF Follows

LEMMA ScalableSliceStructures ==
  ASSUME NEW y
  PROVE  OfStructures(slice_header_in_scalable_extension(y), {"sh", "sh_svc_ext", "prefix_nal_svc"})
<1> DEFINE S == {"sh", "sh_svc_ext", "prefix_nal_svc"}
           Good(a) == IsSeq(a) /\ OfStructures(a, S)
<1>1. /\ \A a, b : Good(a) /\ Good(b) => Good(a \o b)
      /\ \A p, a : Good(a) => Good(When(p, a))
      /\ \A s, a : IsSeq(a) /\ s \in S => Good(In(s, a))
  BY StructureRules, FollowRules, InRules
<1> DEFINE start == In("sh", SliceHeaderStart(y, y.subset, BothFields(y)))
           lists == In("sh", RefIdxOverride(y.sh, {P, B}) \o ref_pic_list_reordering(y.sh))
           weights == In("sh", pred_weight_table(y))
           marking == In("sh", dec_ref_pic_marking(y))
           base == In("prefix_nal_svc", dec_ref_base_pic_marking(y.prefix_nal_svc))
           cabac == When(y.pps.entropy_coding_mode_flag = 1 /\ ~is_slice_type(y.sh.slice_type, I),
                         <<"cabac_init_idc">>)
           middle == In("sh", cabac \o <<"slice_qp_delta">> \o DeblockingAndGroups(y))
           coeff == When(y.sps_svc_ext.adaptive_tcoeff_level_prediction_flag = 1,
                         <<"tcoeff_level_prediction_flag">>)
           layer == When(y.nal_svc_ext.quality_id = 0, InterLayerDeblocking(y, y.sps_svc_ext))
                    \o InterLayerPrediction(y.sh_svc_ext) \o coeff
           scan == When(/\ y.sps_svc_ext.slice_header_restriction_flag = 0
                        /\ y.sh_svc_ext.slice_skip_flag = 0,
                        <<"scan_idx_start", "scan_idx_end">>)
           end == SvcSlice(When(y.nal_svc_ext.no_inter_layer_pred_flag = 0, layer) \o scan)
           baseflag == SvcSlice(<<"base_pred_weight_table_flag">>)
           store == SvcSlice(<<"store_ref_base_pic_flag">>)
<1>2. Good(start) /\ Good(weights) /\ Good(marking) /\ Good(base) /\ Good(baseflag) /\ Good(store)
  <2> HIDE DEF Good
  <2> QED BY <1>1, PartsAreSeqs, LiteralRules DEF SvcSlice
<1>3. Good(lists) /\ Good(middle)
  <2>1. IsSeq(RefIdxOverride(y.sh, {P, B}) \o ref_pic_list_reordering(y.sh))
    BY PartsAreSeqs, FollowRules
  <2>2. IsSeq(cabac) /\ IsSeq(<<"slice_qp_delta">>)
    BY LiteralRules, FollowRules
  <2>3. IsSeq(cabac \o <<"slice_qp_delta">> \o DeblockingAndGroups(y))
    <3> HIDE DEF cabac
    <3> QED BY <2>2, PartsAreSeqs, FollowRules
  <2> HIDE DEF Good, cabac
  <2> QED BY <1>1, <2>1, <2>3
<1>4. Good(end)
  <2>1. IsSeq(coeff) /\ IsSeq(scan)
    BY LiteralRules, FollowRules
  <2>2. IsSeq(layer)
    <3> HIDE DEF coeff
    <3> QED BY <2>1, PartsAreSeqs, FollowRules
  <2>3. IsSeq(When(y.nal_svc_ext.no_inter_layer_pred_flag = 0, layer) \o scan)
    <3> HIDE DEF layer, scan
    <3> QED BY <2>1, <2>2, FollowRules
  <2> HIDE DEF Good, layer, scan
  <2> QED BY <1>1, <2>3 DEF SvcSlice
<1> HIDE DEF Good, S, start, lists, weights, marking, base, middle, end, baseflag, store
<1>5. Good(SvcWeights(y, y.sh_svc_ext))
  BY <1>1, <1>2 DEF SvcWeights, baseflag, weights
<1>6. Good(SvcReferences(y, y.sh_svc_ext))
  <2> DEFINE w == SvcWeights(y, y.sh_svc_ext)
  <2> HIDE DEF w
  <2>1. Good(w)
    BY <1>5 DEF w
  <2> QED BY <1>1, <1>2, <1>3, <2>1 DEF SvcReferences, w, lists, marking, store, base
<1>7. Good(slice_header_in_scalable_extension(y))
  <2> DEFINE r == SvcReferences(y, y.sh_svc_ext)
  <2> HIDE DEF r
  <2>1. Good(r)
    BY <1>6 DEF r
  <2>2. Good(start \o When(y.nal_svc_ext.quality_id = 0, r) \o middle \o end)
    BY <1>1, <1>2, <1>3, <1>4, <2>1
  <2> QED BY <2>2 DEF slice_header_in_scalable_extension, r, start, middle, end, cabac, layer,
                      scan, coeff
<1> QED BY <1>7 DEF Good, S

LEMMA SubsetStructures ==
  ASSUME NEW y, NEW mode
  PROVE  OfStructures(SubsetSps(mode, y), {"subset", "sps_svc_ext", "sps_subset"})
<1> DEFINE S == {"subset", "sps_svc_ext", "sps_subset"}
           a == SeqParameterSet(mode, y.subset)
           e == SvcExtension(y.sps_svc_ext, y.subset) \o <<"svc_vui_parameters_present_flag">>
                \o When(y.sps_svc_ext.svc_vui_parameters_present_flag = 1, SvcVui(y.sps_svc_ext))
           b == In("sps_svc_ext", e)
           c == In("sps_subset", <<"additional_extension2_flag">>)
<1>1. \A f : Agree(f, f, {})
  BY DEF Agree
<1>2. IsSeq(a)
  <2>1. Follows(a, a, {})
    BY <1>1, SeqParameterSetFollows
  <2> QED BY <2>1 DEF Follows
<1>3. IsSeq(e)
  <2>1. /\ Follows(SvcExtension(y.sps_svc_ext, y.subset), SvcExtension(y.sps_svc_ext, y.subset), {})
        /\ Follows(SvcVui(y.sps_svc_ext), SvcVui(y.sps_svc_ext), {})
    BY <1>1, SvcExtensionFollows, SvcVuiFollows
  <2>2. IsSeq(SvcExtension(y.sps_svc_ext, y.subset)) /\ IsSeq(SvcVui(y.sps_svc_ext))
    BY <2>1 DEF Follows
  <2> QED BY <2>2, FollowRules, LiteralRules
<1> HIDE DEF a, e
<1> DEFINE w == When(y.subset.profile_idc \in {83, 86}, b)
           p == In("subset", a)
<1>4. /\ IsSeq(p) /\ OfStructures(p, S) /\ IsSeq(b) /\ OfStructures(b, S)
      /\ IsSeq(c) /\ OfStructures(c, S)
  BY <1>2, <1>3, InRules, StructureRules, LiteralRules
<1> HIDE DEF S, b, c, p
<1>5. OfStructures(p \o w \o c, S)
  BY <1>4, FollowRules, StructureRules
<1> QED BY <1>5 DEF SubsetSps, S, p, w, a, b, c, e

\* A payload holds elements of its structures only.
LEMMA PayloadOfStructures ==
  ASSUME NEW y, NEW mode, NEW more
  PROVE  OfStructures(Payload(mode, y, more), PayloadStructures(y.nal.nal_unit_type))
<1> DEFINE t == y.nal.nal_unit_type
<1>0. (\A f : Agree(f, f, {})) /\ AgreeOn(y, y, {})
  BY DEF Agree, AgreeOn
<1>1. CASE t \in {1, 5, 19}
  <2>1. Follows(slice_header(y), slice_header(y), {})
    BY <1>0, SliceHeaderFollows DEF SameUnit, SameFieldFlag
  <2>2. IsSeq(slice_header(y))
    BY <2>1 DEF Follows
  <2> QED BY <1>1, <2>2, StructureRules DEF Payload, PayloadStructures
<1>2. CASE t = 7
  <2>1. Follows(SeqParameterSet(mode, y.sps), SeqParameterSet(mode, y.sps), {})
    BY <1>0, SeqParameterSetFollows
  <2>2. IsSeq(SeqParameterSet(mode, y.sps))
    BY <2>1 DEF Follows
  <2> QED BY <1>2, <2>2, StructureRules DEF Payload, PayloadStructures
<1>3. CASE t = 8
  <2>1. Follows(PicParameterSet(mode, y.pps, more), PicParameterSet(mode, y.pps, more), {})
    BY <1>0, PicParameterSetFollows
  <2>2. IsSeq(PicParameterSet(mode, y.pps, more))
    BY <2>1 DEF Follows
  <2> QED BY <1>3, <2>2, StructureRules DEF Payload, PayloadStructures
<1>4. CASE t = 9
  BY <1>4, LiteralRules, StructureRules DEF Payload, PayloadStructures
<1>5. CASE t = 14
  <2> DEFINE p == prefix_nal_unit_svc(y, y.prefix_nal_svc)
  <2>1. Follows(p, p, {})
    BY <1>0, PrefixFollows
  <2>2. IsSeq(p)
    BY <2>1 DEF Follows
  <2> HIDE DEF p
  <2>3. OfStructures(When(y.nal.svc_extension_flag = 1, In("prefix_nal_svc", p)), {"prefix_nal_svc"})
    BY <2>2, StructureRules
  <2> QED BY <1>5, <2>3 DEF Payload, PayloadStructures, p
<1>6. CASE t = 15
  BY <1>6, SubsetStructures DEF Payload, PayloadStructures
<1>7. CASE t = 20
  BY <1>7, ScalableSliceStructures DEF Payload, PayloadStructures
<1>8. CASE t \notin {1, 5, 7, 8, 9, 14, 15, 19, 20}
  BY <1>8 DEF Payload, PayloadStructures, OfStructures
<1> QED BY <1>1, <1>2, <1>3, <1>4, <1>5, <1>6, <1>7, <1>8

\* And a unit those, or elements of its header.
LEMMA UnitStructures ==
  ASSUME NEW y, NEW mode, NEW more
  PROVE  OfStructures(NalUnit(mode, y, more),
                      {"nal", "nal_svc_ext"} \cup PayloadStructures(y.nal.nal_unit_type))
<1> DEFINE T == PayloadStructures(y.nal.nal_unit_type)
           S == {"nal", "nal_svc_ext"} \cup T
           a == NalHeader(y.nal)
           p == Payload(mode, y, more)
<1>1. OfStructures(p, T) /\ IsSeq(p)
  BY PayloadOfStructures, PayloadIsSeq
<1>2. OfStructures(p, S)
  <2> HIDE DEF p, T
  <2> QED BY <1>1 DEF OfStructures
<1>3. OfStructures(a, S) /\ IsSeq(a)
  <2> DEFINE ext == In("nal_svc_ext", nal_unit_header_svc_extension)
             two == In("nal", <<"nal_ref_idc", "nal_unit_type">>)
             flag == In("nal", <<"svc_extension_flag">>)
  <2>1. IsSeq(nal_unit_header_svc_extension) /\ "nal" \in S /\ "nal_svc_ext" \in S
    BY LongLiterals DEF nal_unit_header_svc_extension
  <2> HIDE DEF S
  <2>2. /\ IsSeq(ext) /\ OfStructures(ext, S) /\ IsSeq(two) /\ OfStructures(two, S)
        /\ IsSeq(flag) /\ OfStructures(flag, S)
    BY <2>1, LiteralRules, InRules, StructureRules
  <2> HIDE DEF ext, two, flag
  <2> DEFINE c == two \o When(y.nal.nal_unit_type \in {14, 20},
                              flag \o When(y.nal.svc_extension_flag = 1, ext))
  <2>3. IsSeq(c)
    BY <2>2, FollowRules
  <2>4. OfStructures(c, S)
    BY <2>2, FollowRules, StructureRules
  <2> QED BY <2>3, <2>4 DEF NalHeader, ext, two, flag
<1> HIDE DEF S, a, p
<1>4. OfStructures(a \o p, S)
  BY <1>1, <1>2, <1>3, StructureRules
<1> QED BY <1>4 DEF NalUnit, S, a, p

(***************************************************************************)
(* Scaling lists.                                                          *)
(***************************************************************************)
Scales == [list : [1 .. ListMax -> 1 .. 255], default : {0, 1}]

\* The differences a unit holds: of this library they are in -255 .. 255, of
\* another encoder in -128 .. 127.
Delta == -256 .. 255

\* The scale that the next difference is added to.
Before(list, j) == IF j = 1 THEN 8 ELSE list[j - 1]

\* The differences of a list, up to multiples of 256.
AreDifferences(deltas, list) ==
  /\ deltas \in Seq(Delta) /\ Len(deltas) = ListMax
  /\ \A j \in 1 .. ListMax : (Before(list, j) + deltas[j] + 256) % 256 = list[j]

\* Each turn of the two loops starts from what the one before has left.
LEMMA ReaderDefined ==
  ASSUME NEW deltas
  PROVE  /\ ReaderOf(deltas)[0] = ReaderStarts
         /\ \A j \in 1 .. ListMax : ReaderOf(deltas)[j] = ReaderTurn(ReaderOf(deltas)[j - 1], deltas, j)
<1> DEFINE To(n, g) == g = [j \in 0 .. n |-> IF j = 0 THEN ReaderStarts
                                            ELSE ReaderTurn(g[j - 1], deltas, j)]
           S == {n \in Nat : \E g : To(n, g)}
<1>1. 0 \in S
  <2>1. To(0, [j \in 0 .. 0 |-> ReaderStarts])
    OBVIOUS
  <2> QED BY <2>1
<1>2. ASSUME NEW n \in Nat, n \in S PROVE n + 1 \in S
  <2>1. PICK g : To(n, g)
    BY <1>2
  <2> DEFINE k == [j \in 0 .. n + 1 |->
                     IF j <= n THEN g[j] ELSE ReaderTurn(g[n], deltas, n + 1)]
  <2>2. /\ DOMAIN k = 0 .. n + 1 /\ k = [j \in 0 .. n + 1 |-> k[j]]
        /\ \A j \in 0 .. n : k[j] = g[j]
        /\ k[n + 1] = ReaderTurn(g[n], deltas, n + 1)
    OBVIOUS
  <2> HIDE DEF k
  <2>3. ASSUME NEW j \in 0 .. n + 1
        PROVE  k[j] = IF j = 0 THEN ReaderStarts ELSE ReaderTurn(k[j - 1], deltas, j)
    <3>1. CASE j = n + 1
      <4>1. j # 0 /\ j - 1 = n /\ n \in 0 .. n
        BY <3>1
      <4> QED BY <2>2, <3>1, <4>1
    <3>2. CASE j \in 0 .. n
      <4>1. j # 0 => j - 1 \in 0 .. n
        BY <3>2
      <4> QED BY <2>1, <2>2, <3>2, <4>1
    <3> QED BY <3>1, <3>2
  <2>4. To(n + 1, k)
    BY <2>2, <2>3
  <2> QED BY <2>4
<1>3. \E g : To(ListMax, g)
  <2> HIDE DEF To
  <2>1. Nat \subseteq S
    BY <1>1, <1>2, Induction
  <2> QED BY <2>1, ListsHaveEntries
<1>4. ReaderOf(deltas) = CHOOSE g : To(ListMax, g)
  BY DEF ReaderOf
<1>5. To(ListMax, ReaderOf(deltas))
  <2> HIDE DEF To
  <2> QED BY <1>3, <1>4
<1> DEFINE r == ReaderOf(deltas)
<1> HIDE DEF r
<1>6. r = [j \in 0 .. ListMax |-> IF j = 0 THEN ReaderStarts ELSE ReaderTurn(r[j - 1], deltas, j)]
  BY <1>5 DEF r
<1>7. /\ ListMax \in Nat /\ 0 \in 0 .. ListMax
      /\ \A j \in 1 .. ListMax : j \in 0 .. ListMax /\ j # 0
  BY ListsHaveEntries
<1> QED BY <1>6, <1>7 DEF r

\* What the writer of a list has found before each of its entries.
LEMMA WriterDefined ==
  ASSUME NEW l
  PROVE  /\ WriterOf(l)[0] = WriterStarts
         /\ \A j \in 1 .. ListMax : WriterOf(l)[j] = WriterTurn(WriterOf(l)[j - 1], l, j)
<1> DEFINE To(n, g) == g = [j \in 0 .. n |-> IF j = 0 THEN WriterStarts
                                            ELSE WriterTurn(g[j - 1], l, j)]
           S == {n \in Nat : \E g : To(n, g)}
<1>1. 0 \in S
  <2>1. To(0, [j \in 0 .. 0 |-> WriterStarts])
    OBVIOUS
  <2> QED BY <2>1
<1>2. ASSUME NEW n \in Nat, n \in S PROVE n + 1 \in S
  <2>1. PICK g : To(n, g)
    BY <1>2
  <2> DEFINE k == [j \in 0 .. n + 1 |->
                     IF j <= n THEN g[j] ELSE WriterTurn(g[n], l, n + 1)]
  <2>2. /\ DOMAIN k = 0 .. n + 1 /\ k = [j \in 0 .. n + 1 |-> k[j]]
        /\ \A j \in 0 .. n : k[j] = g[j]
        /\ k[n + 1] = WriterTurn(g[n], l, n + 1)
    OBVIOUS
  <2> HIDE DEF k
  <2>3. ASSUME NEW j \in 0 .. n + 1
        PROVE  k[j] = IF j = 0 THEN WriterStarts ELSE WriterTurn(k[j - 1], l, j)
    <3>1. CASE j = n + 1
      <4>1. j # 0 /\ j - 1 = n /\ n \in 0 .. n
        BY <3>1
      <4> QED BY <2>2, <3>1, <4>1
    <3>2. CASE j \in 0 .. n
      <4>1. j # 0 => j - 1 \in 0 .. n
        BY <3>2
      <4> QED BY <2>1, <2>2, <3>2, <4>1
    <3> QED BY <3>1, <3>2
  <2>4. To(n + 1, k)
    BY <2>2, <2>3
  <2> QED BY <2>4
<1>3. \E g : To(ListMax, g)
  <2> HIDE DEF To
  <2>1. Nat \subseteq S
    BY <1>1, <1>2, Induction
  <2> QED BY <2>1, ListsHaveEntries
<1>4. WriterOf(l) = CHOOSE g : To(ListMax, g)
  BY DEF WriterOf
<1>5. To(ListMax, WriterOf(l))
  <2> HIDE DEF To
  <2> QED BY <1>3, <1>4
<1> DEFINE r == WriterOf(l)
<1> HIDE DEF r
<1>6. r = [j \in 0 .. ListMax |-> IF j = 0 THEN WriterStarts ELSE WriterTurn(r[j - 1], l, j)]
  BY <1>5 DEF r
<1>7. /\ ListMax \in Nat /\ 0 \in 0 .. ListMax
      /\ \A j \in 1 .. ListMax : j \in 0 .. ListMax /\ j # 0
  BY ListsHaveEntries
<1> QED BY <1>6, <1>7 DEF r

\* What C computes of a scale and a difference.
LEMMA RemainderOf ==
  ASSUME NEW x \in Nat
  PROVE  CRem(x, 256) = x % 256 /\ CRem(x, 256) \in 0 .. 255
BY DEF CRem

LEMMA BeforeIsScale ==
  ASSUME NEW list \in [1 .. ListMax -> 1 .. 255]
  PROVE  \A j \in 1 .. ListMax : /\ Before(list, j) \in 1 .. 255 /\ list[j] \in 1 .. 255
                                 /\ Before(list, j + 1) = list[j]
<1> TAKE j \in 1 .. ListMax
<1>0. ListMax \in Nat
  BY ListsHaveEntries
<1>1. Before(list, j + 1) = list[j]
  <2>1. j + 1 # 1 /\ (j + 1) - 1 = j
    BY <1>0
  <2> QED BY <2>1 DEF Before
<1>2. list[j] \in 1 .. 255
  OBVIOUS
<1>3. Before(list, j) \in 1 .. 255
  <2>1. CASE j = 1
    BY <2>1 DEF Before
  <2>2. CASE j # 1
    <3>1. j - 1 \in 1 .. ListMax
      BY <1>0, <2>2
    <3> QED BY <2>2, <3>1 DEF Before
  <2> QED BY <2>1, <2>2
<1> QED BY <1>1, <1>2, <1>3

\* The reader takes the remainder of a natural number.
LEMMA SumIsNatural ==
  ASSUME NEW last \in 1 .. 255, NEW delta \in Delta
  PROVE  last + delta + 256 \in Nat
<1>1. delta \in Int /\ delta >= -256
  BY DEF Delta
<1> QED BY <1>1

\* The first k differences of a list, and one to 0 unless these are all: the
\* scales after them are the last of them again.
ArePart(deltas, list, k) ==
  /\ Len(deltas) = IF k < ListMax THEN k + 1 ELSE k
  /\ \A j \in 1 .. Len(deltas) : deltas[j] \in Delta
  /\ \A j \in 1 .. k : (Before(list, j) + deltas[j] + 256) % 256 = list[j]
  /\ k < ListMax => (list[k] + deltas[k + 1] + 256) % 256 = 0
  /\ \A j \in k .. ListMax : list[j] = list[k]

LEMMA AppendToPart ==
  ASSUME NEW list \in [1 .. ListMax -> 1 .. 255], NEW n \in 0 .. ListMax - 1
  PROVE  Append([k \in 1 .. n |-> list[k]], list[n + 1]) = [k \in 1 .. n + 1 |-> list[k]]
<1> DEFINE head == [k \in 1 .. n |-> list[k]]
           v == list[n + 1]
           a == Append(head, v)
<1>0. n \in Nat /\ n + 1 \in 1 .. ListMax /\ \A k \in 1 .. n : k \in 1 .. ListMax
  BY ListsHaveEntries
<1>1. head \in [1 .. n -> 1 .. 255] /\ v \in 1 .. 255 /\ \A k \in 1 .. n : head[k] = list[k]
  BY <1>0
<1> HIDE DEF head
<1>2. head \in Seq(1 .. 255) /\ Len(head) = n
  BY <1>0, <1>1
<1> HIDE DEF v
<1>3. /\ a \in Seq(1 .. 255) /\ Len(a) = n + 1 /\ a[n + 1] = v
      /\ \A k \in 1 .. n : a[k] = head[k]
  BY <1>1, <1>2
<1> HIDE DEF a
<1>4. a = [k \in 1 .. n + 1 |-> a[k]]
  BY <1>3
<1>5. \A k \in 1 .. n + 1 : a[k] = list[k]
  <2> TAKE k \in 1 .. n + 1
  <2>1. k \in 1 .. n \/ k = n + 1
    BY <1>0
  <2> QED BY <1>1, <1>3, <2>1 DEF v
<1>6. a = [k \in 1 .. n + 1 |-> list[k]]
  BY <1>4, <1>5
<1> QED BY <1>6 DEF a, head, v

\* They are all taken, and give the list.
LEMMA ReadsPart ==
  ASSUME NEW list \in [1 .. ListMax -> 1 .. 255], NEW k \in 1 .. ListMax, NEW deltas,
         ArePart(deltas, list, k)
  PROVE  TakenWhole(deltas) /\ read_scaling_list(deltas) = [list |-> list, default |-> 0]
<1> DEFINE r == ReaderOf(deltas)
           State(j) == [last |-> Before(list, j + 1),
                        next |-> IF j <= k THEN Before(list, j + 1) ELSE 0,
                        list |-> [i \in 1 .. j |-> list[i]], default |-> 0,
                        taken |-> IF j <= k THEN j ELSE k + 1]
           S == {j \in Nat : r[j] = State(j)}
<1>0. ListMax \in Nat /\ ListMax >= 1 /\ k \in Nat
  BY ListsHaveEntries
<1>1. /\ r[0] = ReaderStarts
      /\ \A j \in 1 .. ListMax : r[j] = ReaderTurn(r[j - 1], deltas, j)
  BY ReaderDefined
<1> HIDE DEF r
<1>2. \A j \in 1 .. ListMax : /\ Before(list, j) \in 1 .. 255 /\ list[j] \in 1 .. 255
                              /\ Before(list, j + 1) = list[j]
  BY BeforeIsScale, ZenonT(40)
<1>3. 0 \in S
  <2>1. [i \in 1 .. 0 |-> list[i]] = <<>>
    OBVIOUS
  <2>2. Before(list, 0 + 1) = 8 /\ 0 <= k
    BY <1>0 DEF Before
  <2> QED BY <1>1, <2>1, <2>2 DEF ReaderStarts
<1>4. ASSUME NEW n \in 0 .. ListMax - 1, n \in S PROVE n + 1 \in S
  <2> DEFINE b == Before(list, n + 1)
             e == deltas[n + 1]
             v == list[n + 1]
             head == [i \in 1 .. n |-> list[i]]
             next == IF n <= k /\ n + 1 <= Len(deltas) THEN CRem(b + e + 256, 256) ELSE 0
  <2>1. n + 1 \in 1 .. ListMax /\ n + 1 - 1 = n /\ n \in Nat
    BY <1>0
  <2>2. b \in 1 .. 255 /\ v \in 1 .. 255 /\ b # 0
    <3>1. b \in 1 .. 255 /\ v \in 1 .. 255
      BY <1>2, <2>1
    <3> HIDE DEF b, v
    <3> QED BY <3>1
  <2>3. Before(list, (n + 1) + 1) = v
    BY <1>2, <2>1
  <2>4. Append(head, v) = [i \in 1 .. n + 1 |-> list[i]]
    BY AppendToPart
  <2>5. /\ r[n].last = b /\ r[n].next = (IF n <= k THEN b ELSE 0) /\ r[n].list = head
        /\ r[n].default = 0 /\ r[n].taken = IF n <= k THEN n ELSE k + 1
    BY <1>4
  <2>6. r[n + 1] = ReaderTurn(r[n], deltas, n + 1)
    BY <1>1, <2>1
  <2>7. /\ n < k => next = v
        /\ n >= k => next = 0 /\ v = b
    <3>1. ASSUME n + 1 <= Len(deltas)
          PROVE  CRem(b + e + 256, 256) = (b + e + 256) % 256
      <4> DEFINE x == b + e + 256
      <4>1. e \in Delta
        BY <2>1, <3>1 DEF ArePart
      <4>2. x \in Nat
        BY <2>2, <4>1, SumIsNatural, Zenon
      <4> HIDE DEF x
      <4>3. CRem(x, 256) = x % 256
        BY <4>2, RemainderOf
      <4> QED BY <4>3 DEF x
    <3>2. CASE n < k
      <4>1. n + 1 <= Len(deltas) /\ n + 1 \in 1 .. k /\ n <= k
        BY <1>0, <2>1, <3>2 DEF ArePart
      <4>2. (b + e + 256) % 256 = v
        BY <4>1 DEF ArePart
      <4>3. ~ (n >= k)
        BY <1>0, <2>1, <3>2
      <4> QED BY <3>1, <4>1, <4>2, <4>3
    <3>3. CASE n >= k
      <4>1. n \in k .. ListMax /\ n + 1 \in k .. ListMax /\ n \in 1 .. ListMax /\ k < ListMax
            /\ Len(deltas) = k + 1 /\ ~ (n < k)
        BY <1>0, <2>1, <3>3 DEF ArePart
      <4>2. v = list[n] /\ b = list[n] /\ list[n] = list[k]
        BY <1>2, <4>1 DEF ArePart
      <4>3. n = k => (b + e + 256) % 256 = 0 /\ n + 1 <= Len(deltas)
        BY <4>1, <4>2 DEF ArePart
      <4>4. n # k => ~ (n <= k)
        BY <1>0, <2>1, <3>3
      <4> QED BY <3>1, <4>1, <4>2, <4>3, <4>4
    <3> QED BY <1>0, <2>1, <3>2, <3>3
  <2> HIDE DEF b, e, v, head, next
  <2>8. /\ n + 1 = 1 => next # 0
        /\ (IF next = 0 THEN b ELSE next) = v
        /\ next = (IF n + 1 <= k THEN v ELSE 0)
        /\ (IF n <= k THEN n + 1 ELSE k + 1) = (IF n + 1 <= k THEN n + 1 ELSE k + 1)
    BY <1>0, <2>1, <2>2, <2>7
  <2>9. r[n + 1] = [last |-> v, next |-> next, list |-> Append(head, v), default |-> 0,
                    taken |-> IF n <= k THEN n + 1 ELSE k + 1]
    <3>1. r[n].next # 0 <=> n <= k
      BY <2>2, <2>5
    <3>2. next = IF r[n].next # 0 /\ n + 1 <= Len(deltas)
                 THEN CRem(r[n].last + deltas[n + 1] + 256, 256) ELSE 0
      BY <2>5, <3>1 DEF next, e
    <3>3. ReaderTurn(r[n], deltas, n + 1)
          = LET scale == IF next = 0 THEN r[n].last ELSE next
            IN [last |-> scale, next |-> next, list |-> Append(r[n].list, scale),
                default |-> IF ~(r[n].next # 0) THEN r[n].default
                            ELSE IF n + 1 = 1 /\ next = 0 THEN 1 ELSE 0,
                taken |-> IF r[n].next # 0 THEN r[n].taken + 1 ELSE r[n].taken]
      BY <3>2, Zenon DEF ReaderTurn
    <3> QED BY <2>5, <2>6, <2>8, <3>1, <3>3
  <2>10. State(n + 1) = [last |-> v, next |-> next, list |-> Append(head, v), default |-> 0,
                         taken |-> IF n <= k THEN n + 1 ELSE k + 1]
    BY <2>3, <2>4, <2>8
  <2> HIDE DEF State
  <2> QED BY <2>1, <2>9, <2>10
<1>5. r[ListMax] = State(ListMax)
  <2>1. \A n \in 0 .. ListMax : n \in S
    <3> HIDE DEF S
    <3> QED BY <1>0, <1>3, <1>4, BoundedInduction
  <2>2. ListMax \in S
    <3> HIDE DEF S
    <3> QED BY <1>0, <2>1
  <2> QED BY <2>2
<1>6. /\ r[ListMax].list = [i \in 1 .. ListMax |-> list[i]] /\ r[ListMax].default = 0
      /\ r[ListMax].taken = Len(deltas)
  BY <1>0, <1>5 DEF ArePart
<1>7. [i \in 1 .. ListMax |-> list[i]] = list
  OBVIOUS
<1> QED BY <1>6, <1>7 DEF r, TakenWhole, read_scaling_list

\* Differences of a list are all taken, and give the list.
LEMMA ReadsDifferences ==
  ASSUME NEW list \in [1 .. ListMax -> 1 .. 255], NEW deltas, AreDifferences(deltas, list)
  PROVE  TakenWhole(deltas) /\ read_scaling_list(deltas) = [list |-> list, default |-> 0]
<1>1. ListMax \in 1 .. ListMax /\ ~ (ListMax < ListMax) /\ ListMax .. ListMax = {ListMax}
  BY ListsHaveEntries
<1>2. ArePart(deltas, list, ListMax)
  BY <1>1 DEF AreDifferences, ArePart
<1> QED BY <1>1, <1>2, ReadsPart

\* One difference, to 0, gives the default list.
LEMMA ReadsDefault ==
  /\ TakenWhole(<<-8>>)
  /\ read_scaling_list(<<-8>>) = [list |-> [k \in 1 .. ListMax |-> 8], default |-> 1]
<1> DEFINE deltas == <<-8>>
           r == ReaderOf(deltas)
           Eights(j) == [k \in 1 .. j |-> 8]
           State(j) == [last |-> 8, next |-> 0, list |-> Eights(j), default |-> 1,
                        taken |-> 1]
           S == {j \in Nat : r[j + 1] = State(j + 1)}
<1>0. ListMax \in Nat /\ ListMax >= 1 /\ Len(deltas) = 1 /\ deltas[1] = -8
  BY ListsHaveEntries
<1>1. /\ r[0] = ReaderStarts
      /\ \A j \in 1 .. ListMax : r[j] = ReaderTurn(r[j - 1], deltas, j)
  BY ReaderDefined
<1> HIDE DEF r, deltas
<1>2. \A j \in Nat : Append(Eights(j), 8) = Eights(j + 1)
  <2> TAKE j \in Nat
  <2>1. Eights(j) \in Seq({8}) /\ Len(Eights(j)) = j
    OBVIOUS
  <2> QED BY <2>1
<1>3. 0 \in S
  <2>1. Append(<<>>, 8) = Eights(0 + 1)
    OBVIOUS
  <2>2. CRem(8 + deltas[1] + 256, 256) = 0
    BY <1>0 DEF CRem
  <2>3. r[1] = ReaderTurn(ReaderStarts, deltas, 1)
    BY <1>0, <1>1
  <2> HIDE DEF Eights
  <2>4. r[1] = [last |-> 8, next |-> 0, list |-> Append(<<>>, 8), default |-> 1,
                taken |-> 1]
    BY <1>0, <2>2, <2>3 DEF ReaderTurn, ReaderStarts
  <2> QED BY <2>1, <2>4
<1>4. ASSUME NEW n \in 0 .. ListMax - 2, n \in S PROVE n + 1 \in S
  <2>1. (n + 1) + 1 \in 1 .. ListMax /\ (n + 1) + 1 - 1 = n + 1 /\ n + 1 \in Nat
    BY <1>0
  <2>2. r[(n + 1) + 1] = ReaderTurn(r[n + 1], deltas, (n + 1) + 1)
    BY <1>1, <2>1
  <2>3. Append(Eights(n + 1), 8) = Eights((n + 1) + 1)
    BY <1>2, <2>1
  <2> HIDE DEF Eights
  <2>4. r[(n + 1) + 1] = [last |-> 8, next |-> 0, list |-> Append(Eights(n + 1), 8),
                          default |-> 1, taken |-> 1]
    <3>1. /\ r[n + 1].last = 8 /\ r[n + 1].next = 0 /\ r[n + 1].default = 1
          /\ r[n + 1].list = Eights(n + 1) /\ r[n + 1].taken = 1
      BY <1>4
    <3>2. ReaderTurn(r[n + 1], deltas, (n + 1) + 1)
          = [last |-> r[n + 1].last, next |-> 0,
             list |-> Append(r[n + 1].list, r[n + 1].last),
             default |-> r[n + 1].default, taken |-> r[n + 1].taken]
      BY <3>1, Zenon DEF ReaderTurn
    <3> QED BY <2>2, <3>1, <3>2
  <2> QED BY <2>1, <2>3, <2>4
<1>5. r[ListMax] = State(ListMax)
  <2>1. ListMax - 1 \in Nat /\ (ListMax - 1) - 1 = ListMax - 2 /\ ListMax - 1 + 1 = ListMax
    BY <1>0
  <2>2. \A n \in 0 .. ListMax - 1 : n \in S
    <3> HIDE DEF S
    <3> QED BY <1>3, <1>4, <2>1, BoundedInduction
  <2>3. ListMax - 1 \in S
    BY <2>1, <2>2
  <2> QED BY <2>1, <2>3
<1>6. /\ r[ListMax].list = Eights(ListMax) /\ r[ListMax].default = 1
      /\ r[ListMax].taken = 1
  BY <1>5
<1> QED BY <1>0, <1>6 DEF r, deltas, TakenWhole, read_scaling_list

\* The writer writes the differences of a list without zeros.
LEMMA WritesDifferences ==
  ASSUME NEW list \in [1 .. ListMax -> 1 .. 255], NEW l, l.list = list, l.default = 0
  PROVE  AreDifferences(write_scaling_list(l), list)
<1> DEFINE w == WriterOf(l)
           State(n) == /\ w[n].last = Before(list, n + 1)
                       /\ w[n].next = Before(list, n + 1)
                       /\ w[n].deltas \in Seq(Delta) /\ Len(w[n].deltas) = n
                       /\ \A j \in 1 .. n :
                            (Before(list, j) + w[n].deltas[j] + 256) % 256 = list[j]
           S == {n \in Nat : State(n)}
<1>0. ListMax \in Nat /\ ListMax >= 1
  BY ListsHaveEntries
<1>1. /\ w[0] = WriterStarts
      /\ \A j \in 1 .. ListMax : w[j] = WriterTurn(w[j - 1], l, j)
  BY WriterDefined
<1> HIDE DEF w
<1>2. \A j \in 1 .. ListMax : /\ Before(list, j) \in 1 .. 255 /\ list[j] \in 1 .. 255
                              /\ Before(list, j + 1) = list[j]
  BY BeforeIsScale, ZenonT(40)
<1>3. 0 \in S
  <2>1. Before(list, 0 + 1) = 8
    BY DEF Before
  <2>2. w[0].last = 8 /\ w[0].next = 8 /\ w[0].deltas = <<>>
    BY <1>1 DEF WriterStarts
  <2>3. <<>> \in Seq(Delta) /\ Len(<<>>) = 0 /\ 1 .. 0 = {}
    OBVIOUS
  <2>4. State(0)
    BY <2>1, <2>2, <2>3
  <2> QED BY <2>4
<1>4. ASSUME NEW n \in 0 .. ListMax - 1, n \in S PROVE n + 1 \in S
  <2> DEFINE b == Before(list, n + 1)
             v == list[n + 1]
             e == CRem(v - b, 256)
             ds == w[n].deltas
  <2>1. n + 1 \in 1 .. ListMax /\ n + 1 - 1 = n /\ n \in Nat
    BY <1>0
  <2>2. b \in 1 .. 255 /\ v \in 1 .. 255 /\ v \in 0 .. 255 /\ b # 0
    <3>1. b \in 1 .. 255 /\ v \in 1 .. 255
      BY <1>2, <2>1
    <3> HIDE DEF b, v
    <3> QED BY <3>1
  <2>3. Before(list, (n + 1) + 1) = v
    BY <1>2, <2>1
  <2>4. w[n].last = b /\ w[n].next = b /\ ds \in Seq(Delta) /\ Len(ds) = n
        /\ \A j \in 1 .. n : (Before(list, j) + ds[j] + 256) % 256 = list[j]
    BY <1>4
  <2>5. w[n + 1] = WriterTurn(w[n], l, n + 1)
    BY <1>1, <2>1
  <2>6. w[n + 1] = [last |-> v, next |-> v, deltas |-> Append(ds, e)]
    <3>1. w[n].next # 0 /\ l.default # 1
      BY <2>2, <2>4
    <3>2. CRem(l.list[n + 1] - w[n].last, 256) = e
      BY <2>4
    <3>3. l.list[n + 1] = v
      OBVIOUS
    <3> HIDE DEF e, v
    <3> QED BY <2>5, <3>1, <3>2, <3>3, Zenon DEF WriterTurn
  <2>7. e \in Delta /\ (b + e + 256) % 256 = v
    <3> HIDE DEF b, v
    <3> DEFINE x == v - b
    <3>1. x \in -255 .. 255
      BY <2>2
    <3>2. e = v - b
      <4>1. e = CRem(x, 256)
        OBVIOUS
      <4> HIDE DEF x, e
      <4>2. CRem(x, 256) = x
        BY <3>1 DEF CRem
      <4> QED BY <4>1, <4>2 DEF x
    <3> HIDE DEF e
    <3>3. e \in Delta
      BY <3>1, <3>2 DEF Delta
    <3>4. b + e + 256 = v + 256 /\ (v + 256) % 256 = v
      BY <2>2, <3>2
    <3> QED BY <3>3, <3>4
  <2> HIDE DEF e, ds
  <2>8. /\ Append(ds, e) \in Seq(Delta) /\ Len(Append(ds, e)) = n + 1
        /\ Append(ds, e)[n + 1] = e
        /\ \A j \in 1 .. n : Append(ds, e)[j] = ds[j]
    BY <2>4, <2>7
  <2>9. w[n + 1].last = v /\ w[n + 1].next = v /\ w[n + 1].deltas = Append(ds, e)
    BY <2>6
  <2>10. ASSUME NEW j \in 1 .. n + 1
         PROVE  (Before(list, j) + w[n + 1].deltas[j] + 256) % 256 = list[j]
    <3>1. CASE j = n + 1
      BY <2>7, <2>8, <2>9, <3>1
    <3>2. CASE j \in 1 .. n
      <4>1. w[n + 1].deltas[j] = ds[j]
        BY <2>8, <2>9, <3>2
      <4> QED BY <2>4, <3>2, <4>1
    <3> QED BY <2>1, <3>1, <3>2
  <2>11. State(n + 1)
    BY <2>3, <2>8, <2>9, <2>10
  <2> QED BY <2>1, <2>11
<1>5. State(ListMax)
  <2>1. \A n \in 0 .. ListMax : n \in S
    <3> HIDE DEF S
    <3> QED BY <1>0, <1>3, <1>4, BoundedInduction
  <2>2. ListMax \in S
    <3> HIDE DEF S
    <3> QED BY <1>0, <2>1
  <2> QED BY <2>2
<1> QED BY <1>5 DEF w, AreDifferences, write_scaling_list

\* The writer writes the default list as one difference.
LEMMA WritesDefault ==
  ASSUME NEW l \in Scales, l.default = 1
  PROVE  write_scaling_list(l) = <<-8>>
<1> DEFINE w == WriterOf(l)
           S == {n \in Nat : w[n + 1].next = 0 /\ w[n + 1].deltas = <<-8>>}
<1>0. ListMax \in Nat /\ ListMax >= 1
  BY ListsHaveEntries
<1>1. /\ w[0] = WriterStarts
      /\ \A j \in 1 .. ListMax : w[j] = WriterTurn(w[j - 1], l, j)
  BY WriterDefined
<1> HIDE DEF w
<1>2. 0 \in S
  <2>1. w[1] = WriterTurn(WriterStarts, l, 1)
    BY <1>0, <1>1
  <2>2. CRem(0 - 8, 256) = -8
    BY DEF CRem
  <2>3. w[1] = [last |-> l.list[1], next |-> 0, deltas |-> Append(<<>>, -8)]
    BY <2>1, <2>2 DEF WriterTurn, WriterStarts
  <2>4. Append(<<>>, -8) = <<-8>>
    OBVIOUS
  <2> QED BY <2>3, <2>4
<1>3. ASSUME NEW n \in 0 .. ListMax - 2, n \in S PROVE n + 1 \in S
  <2>1. (n + 1) + 1 \in 1 .. ListMax /\ (n + 1) + 1 - 1 = n + 1 /\ n + 1 \in Nat
    BY <1>0
  <2>2. w[(n + 1) + 1] = WriterTurn(w[n + 1], l, (n + 1) + 1)
    BY <1>1, <2>1
  <2>3. w[n + 1].next = 0 /\ w[n + 1].deltas = <<-8>>
    BY <1>3
  <2>4. w[(n + 1) + 1].next = 0 /\ w[(n + 1) + 1].deltas = <<-8>>
    BY <2>2, <2>3 DEF WriterTurn
  <2> QED BY <2>1, <2>4
<1>4. w[ListMax].deltas = <<-8>>
  <2>1. ListMax - 1 \in Nat /\ (ListMax - 1) - 1 = ListMax - 2 /\ ListMax - 1 + 1 = ListMax
    BY <1>0
  <2>2. \A n \in 0 .. ListMax - 1 : n \in S
    <3> HIDE DEF S
    <3> QED BY <1>2, <1>3, <2>1, BoundedInduction
  <2>3. ListMax - 1 \in S
    BY <2>1, <2>2
  <2> QED BY <2>1, <2>3
<1> QED BY <1>4 DEF w, write_scaling_list

\* Whatever differences come, what is read is scales.  A list that is marked as
\* the default list holds nothing else.
LEMMA ReadsScales ==
  ASSUME NEW deltas \in Seq(Delta)
  PROVE  /\ read_scaling_list(deltas) \in Scales
         /\ read_scaling_list(deltas).default = 1 =>
              read_scaling_list(deltas).list = [k \in 1 .. ListMax |-> 8]
<1> DEFINE r == ReaderOf(deltas)
           Eights(n) == [k \in 1 .. n |-> 8]
           State(n) == /\ r[n].last \in 1 .. 255 /\ r[n].next \in 0 .. 255
                       /\ r[n].next # 0 => r[n].next = r[n].last
                       /\ r[n].list \in Seq(1 .. 255) /\ Len(r[n].list) = n
                       /\ r[n].default \in {0, 1}
                       /\ r[n].default = 1 => /\ r[n].next = 0 /\ r[n].last = 8
                                              /\ r[n].list = Eights(n)
           S == {n \in Nat : State(n)}
<1>0. ListMax \in Nat /\ ListMax >= 1
  BY ListsHaveEntries
<1>1. /\ r[0] = ReaderStarts
      /\ \A j \in 1 .. ListMax : r[j] = ReaderTurn(r[j - 1], deltas, j)
  BY ReaderDefined
<1> HIDE DEF r
<1>2. 0 \in S
  <2>1. /\ r[0].last = 8 /\ r[0].next = 8 /\ r[0].list = <<>> /\ r[0].default = 0
    BY <1>1 DEF ReaderStarts
  <2>2. <<>> \in Seq(1 .. 255) /\ Len(<<>>) = 0
    OBVIOUS
  <2>3. State(0)
    BY <2>1, <2>2
  <2> QED BY <2>3
<1>3. ASSUME NEW n \in 0 .. ListMax - 1, n \in S PROVE n + 1 \in S
  <2> DEFINE s == r[n]
             t == r[n + 1]
             next == IF s.next # 0 /\ n + 1 <= Len(deltas)
                     THEN CRem(s.last + deltas[n + 1] + 256, 256) ELSE 0
             scale == IF next = 0 THEN s.last ELSE next
  <2>1. n + 1 \in 1 .. ListMax /\ n + 1 - 1 = n /\ n \in Nat /\ n + 1 \in Nat
    BY <1>0
  <2>2. State(n)
    BY <1>3
  <2>3. t = [last |-> scale, next |-> next, list |-> Append(s.list, scale),
             default |-> IF ~(s.next # 0) THEN s.default
                         ELSE IF n + 1 = 1 /\ next = 0 THEN 1 ELSE 0,
             taken |-> IF s.next # 0 THEN s.taken + 1 ELSE s.taken]
    <3>1. r[n + 1] = ReaderTurn(r[n], deltas, n + 1)
      BY <1>1, <2>1, SMTT(30)
    <3> QED BY <3>1, Zenon DEF ReaderTurn
  <2>4. next \in 0 .. 255 /\ scale \in 1 .. 255 /\ (next # 0 => next = scale)
    <3>1. n + 1 <= Len(deltas) => deltas[n + 1] \in Delta
      BY <2>1
    <3>2. s.last \in 1 .. 255
      BY <2>2
    <3>3. CASE s.next # 0 /\ n + 1 <= Len(deltas)
      <4>1. deltas[n + 1] \in Delta
        BY <3>1, <3>3
      <4> DEFINE x == s.last + deltas[n + 1] + 256
      <4>2. CRem(x, 256) \in 0 .. 255
        <5>1. x \in Nat
          BY <3>2, <4>1, SumIsNatural, Zenon
        <5> HIDE DEF x
        <5> QED BY <5>1, RemainderOf
      <4>3. next = CRem(s.last + deltas[n + 1] + 256, 256)
        BY <3>3
      <4> HIDE DEF next
      <4>4. next \in 0 .. 255
        BY <4>2, <4>3
      <4> QED BY <3>2, <4>4
    <3>4. CASE ~(s.next # 0 /\ n + 1 <= Len(deltas))
      <4>1. next = 0
        BY <3>4, Zenon
      <4> HIDE DEF next
      <4> QED BY <3>2, <4>1
    <3> QED BY <3>3, <3>4
  <2> HIDE DEF next, scale
  <2>5. /\ t.last = scale /\ t.next = next /\ t.list = Append(s.list, scale)
        /\ t.default = IF ~(s.next # 0) THEN s.default
                       ELSE IF n + 1 = 1 /\ next = 0 THEN 1 ELSE 0
    BY <2>3
  <2>6. t.list \in Seq(1 .. 255) /\ Len(t.list) = n + 1
    BY <2>2, <2>4, <2>5
  <2>7. Append(Eights(n), 8) = Eights(n + 1)
    <3>1. Eights(n) \in Seq({8}) /\ Len(Eights(n)) = n
      BY <2>1
    <3> QED BY <2>1, <3>1
  <2>8. ASSUME t.default = 1
        PROVE  t.next = 0 /\ t.last = 8 /\ t.list = Eights(n + 1)
    <3>1. CASE s.next = 0
      <4>1. s.default = 1 /\ s.last = 8 /\ s.list = Eights(n)
        BY <2>2, <2>5, <2>8, <3>1
      <4>2. next = 0 /\ scale = s.last
        BY <3>1 DEF next, scale
      <4> QED BY <2>5, <2>7, <4>1, <4>2
    <3>2. CASE s.next # 0
      <4>1. n = 0 /\ next = 0
        BY <2>1, <2>5, <2>8, <3>2
      <4>2. s.last = 8 /\ s.list = <<>>
        BY <1>1, <4>1 DEF ReaderStarts
      <4>3. scale = 8 /\ Eights(0) = <<>>
        BY <4>1, <4>2 DEF scale
      <4> QED BY <2>5, <2>7, <4>1, <4>2, <4>3
    <3> QED BY <3>1, <3>2
  <2>9. t.default \in {0, 1}
    BY <2>2, <2>5
  <2>10. State(n + 1)
    BY <2>4, <2>5, <2>6, <2>8, <2>9
  <2> QED BY <2>1, <2>10
<1>4. State(ListMax)
  <2>1. \A n \in 0 .. ListMax : n \in S
    <3> HIDE DEF S
    <3> QED BY <1>0, <1>2, <1>3, BoundedInduction
  <2>2. ListMax \in S
    <3> HIDE DEF S
    <3> QED BY <1>0, <2>1
  <2> QED BY <2>2
<1>5. r[ListMax].list \in [1 .. ListMax -> 1 .. 255]
  <2>1. r[ListMax].list \in Seq(1 .. 255) /\ Len(r[ListMax].list) = ListMax
    BY <1>4
  <2>2. \A q \in Seq(1 .. 255) : q \in [1 .. Len(q) -> 1 .. 255]
    BY LenProperties
  <2> QED BY <2>1, <2>2, Zenon
<1> QED BY <1>4, <1>5 DEF r, Scales, read_scaling_list

\* What is written for a list without zeros is taken whole and gives the list
\* back, and for a default list the default list; so it is with any differences
\* that another encoder may code the list with, as signed bytes for one
\* (write_scaling_list and read_scaling_list).
THEOREM ScalingListsReadBack ==
  /\ \A l \in Scales :
       LET deltas == write_scaling_list(l)
       IN /\ TakenWhole(deltas)
          /\ read_scaling_list(deltas) =
               IF l.default = 0 THEN l
               ELSE [list |-> [k \in 1 .. ListMax |-> 8], default |-> 1]
  /\ \A list \in [1 .. ListMax -> 1 .. 255] : \A deltas : AreDifferences(deltas, list) =>
       TakenWhole(deltas) /\ read_scaling_list(deltas) = [list |-> list, default |-> 0]
<1>1. ASSUME NEW l \in Scales
      PROVE  LET deltas == write_scaling_list(l)
             IN /\ TakenWhole(deltas)
                /\ read_scaling_list(deltas) =
                     IF l.default = 0 THEN l
                     ELSE [list |-> [k \in 1 .. ListMax |-> 8], default |-> 1]
  <2>1. /\ l.list \in [1 .. ListMax -> 1 .. 255] /\ l.default \in {0, 1}
        /\ l = [list |-> l.list, default |-> l.default]
    BY DEF Scales
  <2>2. CASE l.default = 0
    <3>1. AreDifferences(write_scaling_list(l), l.list)
      BY <2>1, <2>2, WritesDifferences
    <3>2. /\ TakenWhole(write_scaling_list(l))
          /\ read_scaling_list(write_scaling_list(l)) = [list |-> l.list, default |-> 0]
      BY <2>1, <3>1, ReadsDifferences, Zenon
    <3> QED BY <2>1, <2>2, <3>2
  <2>3. CASE l.default = 1
    <3>1. write_scaling_list(l) = <<-8>>
      BY <2>3, WritesDefault, Zenon
    <3> QED BY <2>3, <3>1, ReadsDefault
  <2> QED BY <2>1, <2>2, <2>3
<1> QED BY <1>1, ReadsDifferences, Zenon

\* Whatever differences a list came as, ended early or not, it is written back as
\* differences that are taken whole and give the same list.
THEOREM ScalingListsSettle ==
  \A deltas \in Seq(Delta) :
    LET l == read_scaling_list(deltas)
        again == write_scaling_list(l)
    IN l \in Scales /\ TakenWhole(again) /\ read_scaling_list(again) = l
<1> SUFFICES ASSUME NEW deltas \in Seq(Delta)
             PROVE  LET l == read_scaling_list(deltas)
                        again == write_scaling_list(l)
                    IN l \in Scales /\ TakenWhole(again) /\ read_scaling_list(again) = l
  OBVIOUS
<1> DEFINE l == read_scaling_list(deltas)
           again == write_scaling_list(l)
<1>1. /\ l \in Scales
      /\ l.default = 1 => l.list = [k \in 1 .. ListMax |-> 8]
  BY ReadsScales, Zenon
<1>2. /\ TakenWhole(again)
      /\ read_scaling_list(again) =
           IF l.default = 0 THEN l
           ELSE [list |-> [k \in 1 .. ListMax |-> 8], default |-> 1]
  <2> HIDE DEF l
  <2> QED BY <1>1, ScalingListsReadBack, Zenon
<1>3. /\ l = [list |-> l.list, default |-> l.default] /\ l.default \in {0, 1}
  <2> HIDE DEF l
  <2> QED BY <1>1 DEF Scales
<1> HIDE DEF l, again
<1>4. read_scaling_list(again) = l
  BY <1>1, <1>2, <1>3
<1> QED BY <1>1, <1>2, <1>4 DEF l, again

LEMMA MaxOf ==
  ASSUME NEW N \in Nat, NEW S, S \subseteq 0 .. N, S # {}
  PROVE  Max(S) \in S /\ \A y \in S : y <= Max(S)
<1> DEFINE T == {n \in Nat : N - n \in S}
<1>1. PICK x \in S : TRUE
  OBVIOUS
<1>2. N - x \in T
  <2>1. x \in 0 .. N
    BY <1>1
  <2>2. N - x \in Nat /\ N - (N - x) = x
    BY <2>1
  <2> QED BY <1>1, <2>2
<1>3. PICK m \in T : \A y \in T : <<y, m>> \notin OpToRel(<, Nat)
  <2>1. T \subseteq Nat /\ T # {}
    BY <1>2
  <2> HIDE DEF T
  <2> QED BY <2>1, NatLessThanWellFounded, WFMin
<1>4. N - m \in S /\ m \in Nat
  BY <1>3
<1>5. ASSUME NEW y \in S PROVE y <= N - m
  <2>1. y \in 0 .. N
    OBVIOUS
  <2>2. N - y \in Nat /\ N - (N - y) = y
    BY <2>1
  <2>3. N - y \in T
    BY <2>2
  <2>4. ~ (N - y < m)
    BY <1>3, <1>4, <2>2, <2>3 DEF OpToRel
  <2> QED BY <1>4, <2>1, <2>4
<1>6. N - m \in S /\ \A y \in S : N - m >= y
  BY <1>4, <1>5
<1>7. Max(S) \in S /\ \A y \in S : Max(S) >= y
  <2> HIDE DEF T
  <2> QED BY <1>6, Zenon DEF Max
<1>8. \A y \in S : y \in Int
  OBVIOUS
<1> QED BY <1>7, <1>8

SignedByte == -128 .. 127

\* The differences as signed bytes.
BytesOf(deltas) == [j \in DOMAIN deltas |-> Byte(deltas[j])]

LEMMA Bytes ==
  ASSUME NEW e \in Int
  PROVE  /\ Byte(e) \in SignedByte /\ Byte(e) \in Delta /\ Byte(Byte(e)) = Byte(e)
         /\ \A b \in Int : (b + Byte(e) + 256) % 256 = (b + e + 256) % 256
<1>1. Byte(e) \in SignedByte
  BY DEF Byte, SignedByte
<1>2. Byte(Byte(e)) = Byte(e)
  BY DEF Byte
<1>3. ASSUME NEW b \in Int PROVE (b + Byte(e) + 256) % 256 = (b + e + 256) % 256
  BY DEF Byte
<1> QED BY <1>1, <1>2, <1>3 DEF Delta, SignedByte

LEMMA BytesAreDifferences ==
  ASSUME NEW list \in [1 .. ListMax -> 1 .. 255], NEW deltas, AreDifferences(deltas, list)
  PROVE  /\ AreDifferences(BytesOf(deltas), list) /\ BytesOf(BytesOf(deltas)) = BytesOf(deltas)
         /\ \A j \in 1 .. ListMax : BytesOf(deltas)[j] \in SignedByte
<1>0. ListMax \in Nat
  BY ListsHaveEntries
<1>0a. (\A x \in Delta : x \in Int) /\ \A x \in 1 .. 255 : x \in Int
  BY DEF Delta
<1>1. DOMAIN deltas = 1 .. ListMax /\ \A j \in 1 .. ListMax : deltas[j] \in Delta
  BY <1>0 DEF AreDifferences
<1> DEFINE b == BytesOf(deltas)
<1>2. b = [j \in 1 .. ListMax |-> b[j]] /\ \A j \in 1 .. ListMax : b[j] = Byte(deltas[j])
  BY <1>1 DEF BytesOf
<1> HIDE DEF b
<1>3. \A j \in 1 .. ListMax : /\ b[j] \in SignedByte /\ b[j] \in Delta /\ Byte(b[j]) = b[j]
        /\ \A x \in Int : (x + b[j] + 256) % 256 = (x + deltas[j] + 256) % 256
  <2> TAKE j \in 1 .. ListMax
  <2>1. deltas[j] \in Delta
    BY <1>1
  <2>2. deltas[j] \in Int
    BY <1>0a, <2>1, Zenon
  <2> QED BY <1>2, <2>2, Bytes
<1>4. b \in Seq(Delta) /\ Len(b) = ListMax
  BY <1>0, <1>2, <1>3
<1>5. ASSUME NEW j \in 1 .. ListMax PROVE (Before(list, j) + b[j] + 256) % 256 = list[j]
  <2>1. Before(list, j) \in 1 .. 255
    BY BeforeIsScale, ZenonT(40)
  <2>2. Before(list, j) \in Int
    BY <1>0a, <2>1, Zenon
  <2> QED BY <1>3, <2>2 DEF AreDifferences
<1>6. BytesOf(b) = b
  <2>1. DOMAIN b = 1 .. ListMax
    BY <1>2
  <2> QED BY <1>2, <1>3, <2>1 DEF BytesOf
<1> QED BY <1>3, <1>4, <1>5, <1>6 DEF b, AreDifferences

\* Bytes are kept by Byte, and the delta that ends a list takes any scale to zero.
LEMMA ScalesAndBytes ==
  /\ \A x \in SignedByte : Byte(x) = x
  /\ \A v \in 1 .. 255 : v \in Int /\ (v + 0 + 256) % 256 = v
  /\ \A v \in 1 .. 255 :
       /\ Byte(-v) \in SignedByte /\ Byte(-v) \in Delta /\ Byte(-v) # 0
       /\ Byte(Byte(-v)) = Byte(-v) /\ (v + Byte(-v) + 256) % 256 = 0
<1>1. \A x \in SignedByte : Byte(x) = x
  BY DEF Byte, SignedByte
<1>2. \A v \in 1 .. 255 : v \in Int /\ (v + 0 + 256) % 256 = v
  OBVIOUS
<1>3. ASSUME NEW v \in 1 .. 255
      PROVE  /\ Byte(-v) \in SignedByte /\ Byte(-v) \in Delta /\ Byte(-v) # 0
             /\ Byte(Byte(-v)) = Byte(-v) /\ (v + Byte(-v) + 256) % 256 = 0
  <2>1. v \in Int /\ 1 <= v /\ v <= 255 /\ -v \in Int
    OBVIOUS
  <2>2. Byte(-v) = IF v <= 128 THEN -v ELSE 256 - v
    BY <2>1 DEF Byte
  <2>3. Byte(-v) \in SignedByte /\ Byte(-v) \in Delta /\ Byte(-v) # 0
    BY <2>1, <2>2 DEF Delta, SignedByte
  <2>4. Byte(Byte(-v)) = Byte(-v)
    BY <1>1, <2>3
  <2>5. (v + Byte(-v) + 256) % 256 = 0
    <3>1. v + Byte(-v) + 256 = 256 \/ v + Byte(-v) + 256 = 512
      BY <2>1, <2>2
    <3> QED BY <3>1
  <2> QED BY <2>3, <2>4, <2>5
<1> QED BY <1>1, <1>2, <1>3

\* A list that ends early is taken whole and gives the same list; and it does not
\* end earlier if it is ended once more.
LEMMA EndsEarly ==
  ASSUME NEW list \in [1 .. ListMax -> 1 .. 255], NEW deltas, AreDifferences(deltas, list),
         \A j \in 1 .. ListMax : deltas[j] \in SignedByte
  PROVE  LET short == EndedEarly(deltas)
         IN /\ TakenWhole(short) /\ read_scaling_list(short) = [list |-> list, default |-> 0]
            /\ BytesOf(short) = short /\ EndedEarly(short) = short
<1>0. /\ ListMax \in Nat /\ ListMax >= 1 /\ Len(deltas) = ListMax /\ DOMAIN deltas = 1 .. ListMax
      /\ deltas \in Seq(Delta)
  BY ListsHaveEntries DEF AreDifferences
<1>0a. \A j \in 1 .. ListMax : list[j] \in 1 .. 255
  BY BeforeIsScale, ZenonT(40)
<1> DEFINE last == Max({1} \cup {j \in DOMAIN deltas : deltas[j] # 0})
           stop == Byte(-list[last])
           short == Append(SubSeq(deltas, 1, last), stop)
<1>1. last \in 1 .. ListMax /\ \A j \in 1 .. ListMax : j > last => deltas[j] = 0
  <2> DEFINE S == {1} \cup {j \in DOMAIN deltas : deltas[j] # 0}
  <2>1. S \subseteq 0 .. ListMax /\ S # {}
    BY <1>0
  <2>2. S \subseteq 1 .. ListMax
    BY <1>0
  <2>3. Max(S) \in S /\ \A y \in S : y <= Max(S)
    <3> HIDE DEF S
    <3> QED BY <1>0, <2>1, MaxOf
  <2>4. Max(S) \in 1 .. ListMax
    <3> HIDE DEF S
    <3> QED BY <2>2, <2>3
  <2>5. ASSUME NEW j \in 1 .. ListMax, j > Max(S), deltas[j] # 0 PROVE FALSE
    <3>1. j \in S
      BY <1>0, <2>5
    <3> HIDE DEF S
    <3> QED BY <2>3, <2>4, <2>5, <3>1
  <2> QED BY <2>4, <2>5
<1>2. read_scaling_list(deltas) = [list |-> list, default |-> 0] /\ TakenWhole(deltas)
  BY ReadsDifferences
<1>3. BytesOf(deltas) = deltas
  <2>1. \A j \in 1 .. ListMax : Byte(deltas[j]) = deltas[j]
    BY ScalesAndBytes, Zenon
  <2>2. deltas = [j \in 1 .. ListMax |-> deltas[j]]
    BY <1>0
  <2> QED BY <1>0, <2>1, <2>2 DEF BytesOf
<1>4. EndedEarly(deltas) = IF last = ListMax THEN deltas ELSE short
  BY <1>0, <1>2 DEF EndedEarly
<1>5. CASE last = ListMax
  BY <1>2, <1>3, <1>4, <1>5
<1> HIDE DEF last
<1>6. CASE last # ListMax
  <2>1. last \in 1 .. ListMax /\ last \in Nat /\ last < ListMax /\ last + 1 \in 1 .. ListMax
    BY <1>0, <1>1, <1>6
  <2>2. list[last] \in 1 .. 255
    BY <1>0a, <2>1, Zenon
  <2>3. /\ stop \in SignedByte /\ stop \in Delta /\ stop # 0 /\ Byte(stop) = stop
        /\ (list[last] + stop + 256) % 256 = 0
    BY <2>2, ScalesAndBytes, ZenonT(60)
  <2> HIDE DEF stop
  <2> DEFINE head == SubSeq(deltas, 1, last)
  <2>4. /\ head \in Seq(Delta) /\ Len(head) = last
        /\ \A j \in 1 .. last : head[j] = deltas[j]
    BY <1>0, <2>1
  <2> HIDE DEF head
  <2>5. /\ short \in Seq(Delta) /\ Len(short) = last + 1 /\ short[last + 1] = stop
        /\ \A j \in 1 .. last : short[j] = deltas[j]
    BY <2>3, <2>4 DEF head
  <2> HIDE DEF short
  <2>6. DOMAIN short = 1 .. last + 1 /\ short = [j \in 1 .. last + 1 |-> short[j]]
    BY <2>1, <2>5
  <2>7. ArePart(short, list, last)
    <3>1. \A j \in 1 .. Len(short) : short[j] \in Delta
      BY <2>5
    <3>2. \A j \in 1 .. last : (Before(list, j) + short[j] + 256) % 256 = list[j]
      <4>1. \A j \in 1 .. last : j \in 1 .. ListMax
        BY <1>0, <2>1
      <4> QED BY <2>5, <4>1 DEF AreDifferences
    <3>3. \A j \in last .. ListMax : list[j] = list[last]
      <4> DEFINE S == {i \in Nat : list[last + i] = list[last]}
      <4>1. 0 \in S
        BY <2>1
      <4>2. ASSUME NEW i \in 0 .. (ListMax - last) - 1, i \in S PROVE i + 1 \in S
        <5> DEFINE j == last + (i + 1)
        <5>1. j \in 1 .. ListMax /\ j > last /\ j # 1 /\ j - 1 = last + i /\ last + i \in 1 .. ListMax
          BY <1>0, <2>1
        <5>2. deltas[j] = 0 /\ Before(list, j) = list[last + i]
          BY <1>1, <5>1 DEF Before
        <5>3. (Before(list, j) + deltas[j] + 256) % 256 = list[j]
          BY <5>1 DEF AreDifferences
        <5> HIDE DEF j
        <5>4. list[last + i] \in 1 .. 255
          BY <1>0a, <5>1, Zenon
        <5>5. list[j] = list[last + i]
          <6>1. (list[last + i] + 0 + 256) % 256 = list[j]
            BY <5>2, <5>3
          <6>2. (list[last + i] + 0 + 256) % 256 = list[last + i]
            BY <5>4, ScalesAndBytes, Zenon
          <6> QED BY <6>1, <6>2
        <5> QED BY <4>2, <5>5 DEF j
      <4>3. \A i \in 0 .. ListMax - last : i \in S
        <5>1. ListMax - last \in Nat
          BY <1>0, <2>1
        <5> HIDE DEF S
        <5> QED BY <4>1, <4>2, <5>1, BoundedInduction
      <4> TAKE j \in last .. ListMax
      <4>4. j - last \in 0 .. ListMax - last /\ last + (j - last) = j
        BY <1>0, <2>1
      <4>5. j - last \in S
        <5> HIDE DEF S
        <5> QED BY <4>3, <4>4
      <4> QED BY <4>4, <4>5
    <3> QED BY <2>1, <2>3, <2>5, <3>1, <3>2, <3>3 DEF ArePart
  <2>8. TakenWhole(short) /\ read_scaling_list(short) = [list |-> list, default |-> 0]
    BY <2>1, <2>7, ReadsPart
  <2>9. BytesOf(short) = short
    <3>1. ASSUME NEW j \in 1 .. last + 1 PROVE Byte(short[j]) = short[j]
      <4>1. CASE j = last + 1
        BY <2>3, <2>5, <4>1
      <4>2. CASE j \in 1 .. last
        <5>1. j \in 1 .. ListMax /\ short[j] = deltas[j] /\ deltas[j] \in SignedByte
          BY <1>0, <2>1, <2>5, <4>2
        <5> QED BY <5>1, ScalesAndBytes, Zenon
      <4> QED BY <2>1, <4>1, <4>2
    <3> QED BY <2>6, <3>1 DEF BytesOf
  <2>10. EndedEarly(short) = short
    <3> DEFINE S == {1} \cup {j \in DOMAIN short : short[j] # 0}
    <3>1. S \subseteq 0 .. last + 1 /\ S # {} /\ last + 1 \in S /\ last + 1 \in Nat
      BY <2>1, <2>3, <2>5, <2>6
    <3> HIDE DEF S
    <3>2. Max(S) = last + 1
      <4>1. Max(S) \in S /\ \A y \in S : y <= Max(S)
        BY <3>1, MaxOf
      <4>2. Max(S) \in 0 .. last + 1 /\ last + 1 <= Max(S)
        BY <3>1, <4>1
      <4> QED BY <3>1, <4>2
    <3> QED BY <2>5, <3>2 DEF EndedEarly, S
  <2> QED BY <1>4, <1>6, <2>8, <2>9, <2>10
<1> QED BY <1>5, <1>6

\* The ways in which a list may be on the wire.
OnWire(value) ==
  LET deltas == write_scaling_list(value)
  IN {deltas, BytesOf(deltas), EndedEarly(BytesOf(deltas))}

\* A list comes out of its deltas as it went in.
LEMMA ListCarried ==
  ASSUME NEW value \in Scales, value.default = 1 => value.list = [j \in 1 .. ListMax |-> 8],
         NEW deltas \in OnWire(value)
  PROVE  /\ TakenWhole(deltas) /\ read_scaling_list(deltas) = value
         /\ EndedEarly(BytesOf(deltas)) = EndedEarly(BytesOf(write_scaling_list(value)))
<1> DEFINE w == write_scaling_list(value)
<1>1. /\ value.list \in [1 .. ListMax -> 1 .. 255] /\ value.default \in {0, 1}
      /\ value = [list |-> value.list, default |-> value.default]
  BY DEF Scales
<1>2. deltas \in {w, BytesOf(w), EndedEarly(BytesOf(w))}
  BY DEF OnWire
<1>3. CASE value.default = 0
  <2> DEFINE list == value.list
  <2>1. AreDifferences(w, list)
    BY <1>1, <1>3, WritesDifferences
  <2> HIDE DEF w, list
  <2>2. list \in [1 .. ListMax -> 1 .. 255]
    BY <1>1 DEF list
  <2>3. /\ AreDifferences(BytesOf(w), list) /\ BytesOf(BytesOf(w)) = BytesOf(w)
        /\ \A j \in 1 .. ListMax : BytesOf(w)[j] \in SignedByte
    BY <2>1, <2>2, BytesAreDifferences
  <2> DEFINE b == BytesOf(w)
             s == EndedEarly(b)
  <2>4. /\ TakenWhole(s) /\ read_scaling_list(s) = [list |-> list, default |-> 0]
        /\ BytesOf(s) = s /\ EndedEarly(s) = s
    BY <2>2, <2>3, EndsEarly
  <2>5. /\ TakenWhole(w) /\ read_scaling_list(w) = [list |-> list, default |-> 0]
        /\ TakenWhole(b) /\ read_scaling_list(b) = [list |-> list, default |-> 0]
    BY <2>1, <2>2, <2>3, ReadsDifferences
  <2>6. value = [list |-> list, default |-> 0]
    BY <1>1, <1>3 DEF list
  <2> QED BY <1>2, <2>3, <2>4, <2>5, <2>6 DEF w
<1>4. CASE value.default = 1
  <2>1. w = <<-8>>
    BY <1>4, WritesDefault
  <2>2. BytesOf(<<-8>>) = <<-8>>
    <3>1. Byte(-8) = -8
      BY DEF Byte
    <3>2. DOMAIN <<-8>> = 1 .. 1 /\ <<-8>>[1] = -8
      OBVIOUS
    <3> DEFINE b == BytesOf(<<-8>>)
    <3>3. b = [j \in 1 .. 1 |-> b[j]] /\ b[1] = -8
      BY <3>1, <3>2 DEF BytesOf
    <3> HIDE DEF b
    <3>4. b = <<-8>>
      BY <3>3
    <3> QED BY <3>4 DEF b
  <2>3. EndedEarly(<<-8>>) = <<-8>>
    <3> DEFINE S == {1} \cup {j \in DOMAIN <<-8>> : <<-8>>[j] # 0}
    <3>1. S = {1}
      OBVIOUS
    <3>2. Max({1}) = 1
      <4>1. {1} \subseteq 0 .. 1 /\ {1} # {} /\ 1 \in Nat
        OBVIOUS
      <4> QED BY <4>1, MaxOf
    <3>3. Len(<<-8>>) = 1
      OBVIOUS
    <3> QED BY <3>1, <3>2, <3>3 DEF EndedEarly
  <2>4. TakenWhole(<<-8>>) /\ read_scaling_list(<<-8>>) = value
    BY <1>1, <1>4, ReadsDefault
  <2> HIDE DEF w
  <2> QED BY <1>2, <2>1, <2>2, <2>3, <2>4 DEF w
<1> QED BY <1>1, <1>3, <1>4

(***************************************************************************)
(* Codings.                                                                *)
(***************************************************************************)

\* A table of codings says how each name is coded that one of its parts has.
LEMMA CodingRules ==
  /\ \A f, g : DOMAIN (f ++ g) = DOMAIN f \cup DOMAIN g
  /\ \A f, g : \A n \in DOMAIN f \cup DOMAIN g :
       (f ++ g)[n] = IF n \in DOMAIN f THEN f[n] ELSE g[n]
  /\ \A c, names : /\ DOMAIN Coded(c, names) = names
                   /\ \A n \in names : Coded(c, names)[n] = c
<1>1. ASSUME NEW f, NEW g PROVE DOMAIN (f ++ g) = DOMAIN f \cup DOMAIN g
  BY DEF ++
<1>2. ASSUME NEW f, NEW g, NEW n \in DOMAIN f \cup DOMAIN g
      PROVE  (f ++ g)[n] = IF n \in DOMAIN f THEN f[n] ELSE g[n]
  BY DEF ++
<1>3. \A c, names : /\ DOMAIN Coded(c, names) = names
                    /\ \A n \in names : Coded(c, names)[n] = c
  BY DEF Coded
<1> QED BY <1>1, <1>2, <1>3, Zenon

\* No name of a table is coded in bits whose number depends on other fields.
NoVaries(f) == \A n \in DOMAIN f : f[n] # Varies

\* Structures without elements of varying length.
LEMMA NoVariesRules ==
  /\ \A f, g : NoVaries(f) /\ NoVaries(g) => NoVaries(f ++ g)
  /\ \A c, names : c \in Int /\ c # -3 => NoVaries(Coded(c, names))
<1>1. ASSUME NEW f, NEW g, NoVaries(f), NoVaries(g) PROVE NoVaries(f ++ g)
  <2> DEFINE k == f ++ g
  <2>1. DOMAIN k = DOMAIN f \cup DOMAIN g
    BY CodingRules
  <2>2. \A n \in DOMAIN f \cup DOMAIN g : k[n] = IF n \in DOMAIN f THEN f[n] ELSE g[n]
    BY CodingRules
  <2> HIDE DEF k
  <2>3. NoVaries(k)
    BY <1>1, <2>1, <2>2 DEF NoVaries
  <2> QED BY <2>3 DEF k
<1>2. ASSUME NEW c, NEW names, c \in Int, c # -3 PROVE NoVaries(Coded(c, names))
  BY <1>2, CodingRules DEF NoVaries, Varies
<1> QED BY <1>1, <1>2

LEMMA SpsCodingVariesNot == NoVaries(SpsCoding)
<1>1. \A names : /\ NoVaries(Coded(1, names)) /\ NoVaries(Coded(3, names))
                 /\ NoVaries(Coded(4, names)) /\ NoVaries(Coded(5, names))
                 /\ NoVaries(Coded(6, names)) /\ NoVaries(Coded(8, names))
                 /\ NoVaries(Coded(16, names)) /\ NoVaries(Coded(32, names))
                 /\ NoVaries(Coded(Golomb, names)) /\ NoVaries(Coded(Deltas, names))
  BY NoVariesRules DEF Golomb, Deltas
<1>2. \A kind : NoVaries(HrdCoding(kind))
  BY <1>1, NoVariesRules DEF HrdCoding
<1>3. NoVaries(VuiCoding)
  BY <1>1, <1>2, NoVariesRules DEF VuiCoding
<1> QED BY <1>1, <1>3, NoVariesRules DEF SpsCoding

\* Each structure has its table.
LEMMA StructuresOfCoding ==
  /\ DOMAIN Coding = {"nal", "nal_svc_ext", "prefix_nal_svc", "sps", "subset", "sps_svc_ext",
                      "sps_subset", "pps", "sh", "sh_svc_ext", "aud"}
  /\ Coding["nal"] = NalCoding /\ Coding["nal_svc_ext"] = NalSvcExtCoding
  /\ Coding["sps"] = SpsCoding /\ Coding["subset"] = SpsCoding /\ Coding["pps"] = PpsCoding
  /\ Coding["sh"] = SliceCoding /\ Coding["sh_svc_ext"] = SvcSliceCoding
  /\ Coding["sps_svc_ext"] = SvcExtCoding
BY DEF Coding

\* Flags that are inferred to be zero are coded in a bit.
InferredFields(s) ==
  CASE s = "sh" -> {"field_pic_flag"}
    [] s = "sh_svc_ext" -> {"base_pred_weight_table_flag", "slice_skip_flag",
                            "default_base_mode_flag"}
    [] s = "pps" -> {"transform_8x8_mode_flag", "pic_scaling_matrix_present_flag"}
    [] OTHER -> {}

\* A field that the first table has keeps its coding.
LEMMA KeptCoding ==
  ASSUME NEW f, NEW g, NEW n \in DOMAIN f, NEW c, f[n] = c
  PROVE  n \in DOMAIN (f ++ g) /\ (f ++ g)[n] = c
<1> DEFINE k == f ++ g
<1>1. DOMAIN k = DOMAIN f \cup DOMAIN g
      /\ \A m \in DOMAIN f \cup DOMAIN g : k[m] = IF m \in DOMAIN f THEN f[m] ELSE g[m]
  BY CodingRules, ZenonT(40)
<1> HIDE DEF k
<1>2. n \in DOMAIN k /\ k[n] = c
  BY <1>1
<1> QED BY <1>2 DEF k

\* Fields that may be inferred are single flags.
LEMMA InferredFieldsAreFlags ==
  ASSUME NEW s \in {"sh", "sh_svc_ext", "pps"}, NEW n \in InferredFields(s)
  PROVE  n \in DOMAIN Coding[s] /\ Coding[s][n] = 1
<1>1. CASE s = "sh"
  <2> DEFINE flags == {"field_pic_flag", "bottom_field_flag", "direct_spatial_mv_pred_flag",
                       "num_ref_idx_active_override_flag", "sp_for_switch_flag"}
             f == Coded(1, flags)
  <2>1. n \in flags
    BY <1>1 DEF InferredFields
  <2>2. n \in DOMAIN f /\ f[n] = 1
    <3> HIDE DEF flags
    <3> QED BY <2>1, CodingRules
  <2> HIDE DEF f
  <2>3. \A g1, g2, g3, g4 : /\ n \in DOMAIN (f ++ g1 ++ g2 ++ g3 ++ g4)
                            /\ (f ++ g1 ++ g2 ++ g3 ++ g4)[n] = 1
    BY <2>2, KeptCoding
  <2> QED BY <1>1, <2>3, StructuresOfCoding DEF SliceCoding, f
<1>2. CASE s = "sh_svc_ext"
  <2> DEFINE flags == {"base_pred_weight_table_flag", "store_ref_base_pic_flag",
            "constrained_intra_resampling_flag",
            "ref_layer_chroma_phase_x_plus1_flag", "slice_skip_flag",
            "adaptive_base_mode_flag", "default_base_mode_flag",
            "adaptive_motion_prediction_flag", "default_motion_prediction_flag",
            "adaptive_residual_prediction_flag", "default_residual_prediction_flag",
            "tcoeff_level_prediction_flag"}
             f == Coded(1, flags)
  <2>1. n \in flags
    BY <1>2 DEF InferredFields
  <2>2. n \in DOMAIN f /\ f[n] = 1
    <3> HIDE DEF flags
    <3> QED BY <2>1, CodingRules
  <2> HIDE DEF f
  <2>3. \A g1, g2, g3 : n \in DOMAIN (f ++ g1 ++ g2 ++ g3) /\ (f ++ g1 ++ g2 ++ g3)[n] = 1
    BY <2>2, KeptCoding
  <2> QED BY <1>2, <2>3, StructuresOfCoding DEF SvcSliceCoding, f
<1>3. CASE s = "pps"
  <2> DEFINE flags == {"entropy_coding_mode_flag", "pic_order_present_flag",
            "slice_group_change_direction_flag", "weighted_pred_flag",
            "deblocking_filter_control_present_flag", "constrained_intra_pred_flag",
            "redundant_pic_cnt_present_flag", "transform_8x8_mode_flag",
            "pic_scaling_matrix_present_flag"}
           \cup {At("pic_scaling_list_present_flag", i) : i \in 0..7}
             f == Coded(1, flags)
  <2>1. n \in flags
    BY <1>3 DEF InferredFields
  <2>2. n \in DOMAIN f /\ f[n] = 1
    <3> HIDE DEF flags
    <3> QED BY <2>1, CodingRules
  <2> HIDE DEF f
  <2>3. \A g1, g2, g3, g4 : /\ n \in DOMAIN (f ++ g1 ++ g2 ++ g3 ++ g4)
                            /\ (f ++ g1 ++ g2 ++ g3 ++ g4)[n] = 1
    BY <2>2, KeptCoding
  <2> QED BY <1>3, <2>3, StructuresOfCoding DEF PpsCoding, f
<1> QED BY <1>1, <1>2, <1>3

\* So is the start of a PPS, in one or two bits or as a Golomb code; and so is its
\* last field.
LEMMA PpsFieldsAreNumbers ==
  ASSUME NEW n \in ToSet(PpsStart) \cup {"second_chroma_qp_index_offset"}
  PROVE  n \in DOMAIN Coding["pps"] /\ Coding["pps"][n] \in {1, 2, Golomb}
<1> DEFINE flags == {"entropy_coding_mode_flag", "pic_order_present_flag",
            "slice_group_change_direction_flag", "weighted_pred_flag",
            "deblocking_filter_control_present_flag", "constrained_intra_pred_flag",
            "redundant_pic_cnt_present_flag", "transform_8x8_mode_flag",
            "pic_scaling_matrix_present_flag"}
           \cup {At("pic_scaling_list_present_flag", i) : i \in 0..7}
           codes == {"pic_parameter_set_id", "seq_parameter_set_id",
                    "num_slice_groups_minus1", "slice_group_map_type",
                    "slice_group_change_rate_minus1",
                    "pic_size_in_map_units_minus1", "num_ref_idx_l0_active_minus1",
                    "num_ref_idx_l1_active_minus1", "pic_init_qp_minus26",
                    "pic_init_qs_minus26", "chroma_qp_index_offset",
                    "second_chroma_qp_index_offset"}
                   \cup Arrays({"run_length_minus1", "top_left", "bottom_right"})
           f == Coded(1, flags)
           g == Coded(2, {"weighted_bipred_idc"})
           k == Coded(Golomb, codes)
           fgk == f ++ g ++ k
<1>1. n \in flags \/ n \in codes
  <2>1. n \in {"pic_parameter_set_id", "seq_parameter_set_id", "entropy_coding_mode_flag",
              "pic_order_present_flag", "num_slice_groups_minus1", "second_chroma_qp_index_offset"}
    BY DEF PpsStart, ToSet
  <2> QED BY <2>1
<1>2. /\ DOMAIN f = flags /\ \A m \in DOMAIN f : f[m] = 1
      /\ \A m \in DOMAIN g : g[m] = 2
      /\ DOMAIN k = codes /\ \A m \in DOMAIN k : k[m] = Golomb
  <2>1. \A c, names : /\ DOMAIN Coded(c, names) = names
                      /\ \A m \in DOMAIN Coded(c, names) : Coded(c, names)[m] = c
    BY DEF Coded
  <2> HIDE DEF flags, codes
  <2> QED BY <2>1
<1> HIDE DEF flags, codes, f, g, k
<1>3. n \in DOMAIN fgk /\ fgk[n] \in {1, 2, Golomb}
  <2> DEFINE fg == f ++ g
  <2>0a. fg = f ++ g /\ fgk = fg ++ k
    BY DEF fgk
  <2> HIDE DEF fgk, fg
  <2>1. /\ DOMAIN fg = DOMAIN f \cup DOMAIN g
        /\ \A m \in DOMAIN f \cup DOMAIN g : fg[m] = IF m \in DOMAIN f THEN f[m] ELSE g[m]
    BY <2>0a DEF ++
  <2>2. /\ DOMAIN fgk = DOMAIN fg \cup DOMAIN k
        /\ \A m \in DOMAIN fg \cup DOMAIN k : fgk[m] = IF m \in DOMAIN fg THEN fg[m] ELSE k[m]
    BY <2>0a DEF ++
  <2> QED BY <1>1, <1>2, <2>1, <2>2
<1> HIDE DEF fgk
<1>4. \A g1, g2 : /\ n \in DOMAIN (fgk ++ g1 ++ g2) /\ (fgk ++ g1 ++ g2)[n] = fgk[n]
  BY <1>3, KeptCoding
<1> QED BY <1>3, <1>4, StructuresOfCoding, SMTT(20) DEF PpsCoding, fgk, f, g, k, flags, codes

\* u is the elements of a and then those of b.
IsJoin(u, a, b) ==
  /\ IsSeq(u) /\ Len(u) = Len(a) + Len(b)
  /\ \A i \in 1 .. Len(a) : u[i] = a[i]
  /\ \A i \in 1 .. Len(b) : u[Len(a) + i] = b[i]

LEMMA JoinIsUnique ==
  ASSUME NEW a, NEW b, IsSeq(a), IsSeq(b), NEW u, IsJoin(u, a, b), NEW v, IsJoin(v, a, b)
  PROVE  u = v
<1>1. /\ Len(a) \in Nat /\ Len(b) \in Nat
      /\ DOMAIN u = 1 .. Len(u) /\ DOMAIN v = 1 .. Len(v)
      /\ u = [i \in DOMAIN u |-> u[i]] /\ v = [i \in DOMAIN v |-> v[i]]
  BY SeqFacts DEF IsJoin
<1>2. Len(u) = Len(a) + Len(b) /\ Len(v) = Len(a) + Len(b)
  BY DEF IsJoin
<1>3. ASSUME NEW i \in 1 .. Len(u) PROVE u[i] = v[i]
  <2>1. CASE i <= Len(a)
    <3>1. i \in 1 .. Len(a)
      BY <1>1, <1>2, <2>1
    <3> QED BY <3>1 DEF IsJoin
  <2>2. CASE Len(a) < i
    <3>1. i - Len(a) \in 1 .. Len(b) /\ i = Len(a) + (i - Len(a))
      BY <1>1, <1>2, <2>2
    <3>2. PICK j \in 1 .. Len(b) : i = Len(a) + j
      BY <3>1
    <3>3. u[Len(a) + j] = b[j] /\ v[Len(a) + j] = b[j]
      BY DEF IsJoin
    <3> QED BY <3>2, <3>3
  <2> QED BY <1>1, <1>2, <2>1, <2>2
<1> QED BY <1>1, <1>2, <1>3

\* Joining is associative.
LEMMA Associative ==
  ASSUME NEW a, NEW b, NEW c, IsSeq(a), IsSeq(b), IsSeq(c),
         NEW ab, IsJoin(ab, a, b), NEW bc, IsJoin(bc, b, c),
         NEW l, IsJoin(l, ab, c), NEW r, IsJoin(r, a, bc)
  PROVE  l = r
<1>1. /\ Len(a) \in Nat /\ Len(b) \in Nat /\ Len(c) \in Nat
      /\ Len(ab) = Len(a) + Len(b) /\ Len(bc) = Len(b) + Len(c)
      /\ Len(l) = Len(ab) + Len(c) /\ IsSeq(bc) /\ IsSeq(l)
  BY SeqFacts DEF IsJoin
<1>2. Len(l) = Len(a) + Len(bc)
  BY <1>1
<1>3. ASSUME NEW i \in 1 .. Len(a) PROVE l[i] = a[i]
  <2>1. i \in 1 .. Len(ab)
    BY <1>1
  <2> QED BY <2>1 DEF IsJoin
<1>4. ASSUME NEW i \in 1 .. Len(bc) PROVE l[Len(a) + i] = bc[i]
  <2>1. CASE i <= Len(b)
    <3>1. i \in 1 .. Len(b) /\ Len(a) + i \in 1 .. Len(ab)
      BY <1>1, <2>1
    <3>2. l[Len(a) + i] = ab[Len(a) + i] /\ ab[Len(a) + i] = b[i] /\ bc[i] = b[i]
      BY <3>1 DEF IsJoin
    <3> QED BY <3>2
  <2>2. CASE Len(b) < i
    <3>1. i - Len(b) \in 1 .. Len(c) /\ i = Len(b) + (i - Len(b))
      BY <1>1, <2>2
    <3>2. PICK j \in 1 .. Len(c) : i = Len(b) + j
      BY <3>1
    <3>3. l[Len(ab) + j] = c[j] /\ bc[Len(b) + j] = c[j]
      BY DEF IsJoin
    <3>4. Len(ab) + j = Len(a) + i
      BY <1>1, <3>2
    <3> QED BY <3>2, <3>3, <3>4
  <2> QED BY <1>1, <2>1, <2>2
<1>5. IsJoin(l, a, bc)
  BY <1>1, <1>2, <1>3, <1>4 DEF IsJoin
<1> QED BY <1>1, <1>5, JoinIsUnique

\* And so for four.
LEMMA JoinedFour ==
  ASSUME NEW a, NEW b, NEW c, NEW e, IsSeq(a), IsSeq(b), IsSeq(c), IsSeq(e),
         NEW ab, IsJoin(ab, a, b), NEW bc, IsJoin(bc, b, c), NEW ce, IsJoin(ce, c, e),
         NEW bce, IsJoin(bce, bc, e), NEW abc, IsJoin(abc, ab, c),
         NEW u, IsJoin(u, a, bce), NEW v, IsJoin(v, abc, e), NEW w, IsJoin(w, b, ce),
         NEW m, IsJoin(m, ab, ce)
  PROVE  u = v
<1>1. IsSeq(ab) /\ IsSeq(bc) /\ IsSeq(ce) /\ IsSeq(bce)
  BY DEF IsJoin
<1>2. bce = w
  BY Associative
<1>3. m = u
  BY <1>1, <1>2, Associative
<1>4. v = m
  BY <1>1, Associative
<1> QED BY <1>3, <1>4

\* A PPS begins with the same five elements.
LEMMA PpsBegins ==
  ASSUME NEW x, NEW mode, NEW more, x.nal.nal_unit_type = 8
  PROVE  /\ Len(NalUnit(mode, x, more)) >= 7
         /\ \A i \in 3 .. 7 : NalUnit(mode, x, more)[i] = [s |-> "pps", n |-> PpsStart[i - 2]]
<1> DEFINE two == In("nal", <<"nal_ref_idc", "nal_unit_type">>)
           rest == When(x.pps.num_slice_groups_minus1 > 0, SliceGroups(x.pps)) \o PpsMiddle
                   \o When(have_more_data(mode, x.pps, more), OptionalEnd(x.pps))
           names == PpsStart \o rest
           p == In("pps", names)
<1>1. IsSeq(PpsStart) /\ Len(PpsStart) = 5 /\ IsSeq(PpsMiddle)
  BY LongLiterals DEF PpsStart, PpsMiddle
<1>2. IsSeq(SliceGroups(x.pps)) /\ IsSeq(OptionalEnd(x.pps))
  <2>1. Follows(SliceGroups(x.pps), SliceGroups(x.pps), {})
    BY SliceGroupsFollow DEF Agree
  <2>2. Follows(OptionalEnd(x.pps), OptionalEnd(x.pps), {})
    BY OptionalEndFollows DEF Agree
  <2> QED BY <2>1, <2>2 DEF Follows
<1>3. IsSeq(rest)
  BY <1>1, <1>2, FollowRules
<1>4. PicParameterSet(mode, x.pps, more) = names
  <2>2. /\ IsSeq(When(x.pps.num_slice_groups_minus1 > 0, SliceGroups(x.pps)))
        /\ IsSeq(When(have_more_data(mode, x.pps, more), OptionalEnd(x.pps)))
    BY <1>2, FollowRules
  <2>3. PicParameterSet(mode, x.pps, more)
        = PpsStart \o When(x.pps.num_slice_groups_minus1 > 0, SliceGroups(x.pps))
          \o PpsMiddle \o When(have_more_data(mode, x.pps, more), OptionalEnd(x.pps))
    BY DEF PicParameterSet, PpsStart, PpsMiddle
  <2> DEFINE groups == When(x.pps.num_slice_groups_minus1 > 0, SliceGroups(x.pps))
             end == When(have_more_data(mode, x.pps, more), OptionalEnd(x.pps))
  <2> HIDE DEF groups, end
  <2>4. PpsStart \o (groups \o PpsMiddle \o end) = PpsStart \o groups \o PpsMiddle \o end
    <3>1. IsSeq(groups) /\ IsSeq(end) /\ IsSeq(PpsStart) /\ IsSeq(PpsMiddle)
      BY <1>1, <2>2 DEF groups, end
    <3>2. \A s, q : IsSeq(s) /\ IsSeq(q) => IsJoin(s \o q, s, q)
      BY Joined DEF IsJoin
    <3>3. \A s, q : IsSeq(s) /\ IsSeq(q) => IsSeq(s \o q)
      BY Joined
    <3> HIDE DEF PpsStart, PpsMiddle, groups, end
    <3>4. IsSeq(groups \o PpsMiddle) /\ IsSeq(PpsMiddle \o end) /\ IsSeq(groups \o PpsMiddle \o end)
          /\ IsSeq(PpsStart \o groups) /\ IsSeq(PpsStart \o groups \o PpsMiddle)
      BY <3>1, <3>3, Zenon
    <3>5. /\ IsJoin(PpsStart \o groups, PpsStart, groups)
          /\ IsJoin(groups \o PpsMiddle, groups, PpsMiddle)
          /\ IsJoin(PpsMiddle \o end, PpsMiddle, end)
          /\ IsJoin(groups \o PpsMiddle \o end, groups \o PpsMiddle, end)
          /\ IsJoin(PpsStart \o groups \o PpsMiddle, PpsStart \o groups, PpsMiddle)
          /\ IsJoin(PpsStart \o (groups \o PpsMiddle \o end), PpsStart, groups \o PpsMiddle \o end)
          /\ IsJoin(PpsStart \o groups \o PpsMiddle \o end, PpsStart \o groups \o PpsMiddle, end)
          /\ IsJoin(groups \o (PpsMiddle \o end), groups, PpsMiddle \o end)
          /\ IsJoin((PpsStart \o groups) \o (PpsMiddle \o end), PpsStart \o groups, PpsMiddle \o end)
      BY <3>1, <3>2, <3>4, Zenon
    <3> QED BY <3>1, <3>5, JoinedFour
  <2> QED BY <2>3, <2>4 DEF groups, end
<1> HIDE DEF rest
<1>5. /\ IsSeq(names) /\ Len(names) = 5 + Len(rest) /\ Len(rest) \in Nat
      /\ \A i \in 1 .. 5 : names[i] = PpsStart[i]
  <2>1. /\ IsSeq(names) /\ Len(names) = Len(PpsStart) + Len(rest)
        /\ \A i \in 1 .. Len(PpsStart) : names[i] = PpsStart[i]
    BY <1>1, <1>3, Joined
  <2>2. Len(rest) \in Nat
    BY <1>3, SeqFacts
  <2> QED BY <1>1, <2>1, <2>2
<1>6. IsSeq(two) /\ Len(two) = 2
  <2>1. IsSeq(two)
    BY LiteralRules, InRules
  <2> QED BY <2>1 DEF In
<1>7. NalUnit(mode, x, more) = two \o p
  <2>1. two \o <<>> = two
    <3>1. two \in Seq(ToSet(two))
      BY <1>6, SeqFacts
    <3> HIDE DEF two
    <3> QED BY <3>1
  <2> QED BY <1>4, <2>1 DEF NalUnit, NalHeader, Payload, When
<1> HIDE DEF names
<1>8. /\ IsSeq(p) /\ Len(p) = 5 + Len(rest)
      /\ \A i \in 1 .. 5 : p[i] = [s |-> "pps", n |-> PpsStart[i]]
  <2>1. IsSeq(p)
    BY <1>5, InRules
  <2>2. DOMAIN names = 1 .. 5 + Len(rest)
    BY <1>5, SeqFacts
  <2>3. DOMAIN p = DOMAIN names /\ \A i \in DOMAIN names : p[i] = [s |-> "pps", n |-> names[i]]
    BY DEF In
  <2>4. Len(p) \in Nat /\ DOMAIN p = 1 .. Len(p)
    BY <2>1, SeqFacts
  <2>5. \A i \in 1 .. 5 : i \in DOMAIN names
    BY <1>5, <2>2
  <2> HIDE DEF p
  <2> QED BY <1>5, <2>1, <2>2, <2>3, <2>4, <2>5
<1> HIDE DEF two, p
<1>9. /\ Len(two \o p) = 2 + Len(p)
      /\ \A i \in 1 .. Len(p) : (two \o p)[2 + i] = p[i]
  <2>1. /\ Len(two \o p) = Len(two) + Len(p)
        /\ \A i \in 1 .. Len(p) : (two \o p)[Len(two) + i] = p[i]
    <3>1. IsSeq(two) /\ IsSeq(p)
      BY <1>6, <1>8
    <3> QED BY <3>1, Joined
  <2> QED BY <1>6, <2>1
<1>10. ASSUME NEW i \in 3 .. 7 PROVE (two \o p)[i] = [s |-> "pps", n |-> PpsStart[i - 2]]
  <2>1. i - 2 \in 1 .. 5 /\ i - 2 \in 1 .. Len(p) /\ i = 2 + (i - 2)
    BY <1>5, <1>8
  <2> QED BY <1>8, <1>9, <2>1
<1> QED BY <1>5, <1>7, <1>8, <1>9, <1>10

\* All elements have a field.
HaveFields(es) == \A i \in DOMAIN es : es[i].s \in DOMAIN Coding /\ es[i].n \in DOMAIN Coding[es[i].s]

\* The sets in force that the unit x is not about are the same in z.
Sets == {"sps", "subset", "pps"}
SameSets(x, z) == \A s \in Sets \ Structures(x.nal.nal_unit_type) : x[s] = z[s]

\* A reader who has taken the first elements of a unit off the wire knows how the
\* next one is coded.
LEMMA CodingShared ==
  ASSUME NEW x, NEW z, NEW mode, NEW more, NEW es, es = NalUnit(mode, x, more), HaveFields(es),
         NEW k \in 0 .. Len(es) - 1, AgreeOn(x, z, {es[i] : i \in 1 .. k}),
         k >= 2 => SameSets(x, z)
  PROVE  CodingOf(es[k + 1], z, ActiveSps(z)) = CodingOf(es[k + 1], x, ActiveSps(x))
<1> DEFINE t == x.nal.nal_unit_type
           e == es[k + 1]
           A == {es[i] : i \in 1 .. k}
<1>1. /\ IsSeq(es) /\ Len(es) \in Nat /\ Len(es) >= 2 /\ DOMAIN es = 1 .. Len(es)
      /\ es[1] = [s |-> "nal", n |-> "nal_ref_idc"] /\ es[2] = [s |-> "nal", n |-> "nal_unit_type"]
  BY FirstElements, SeqFacts
<1>2. e.s \in DOMAIN Coding /\ e.n \in DOMAIN Coding[e.s] /\ k + 1 \in 1 .. Len(es)
  BY <1>1 DEF HaveFields
<1>3. /\ \A n \in DOMAIN Coding["nal"] : Coding["nal"][n] # Varies
      /\ \A n \in DOMAIN Coding["nal_svc_ext"] : Coding["nal_svc_ext"][n] # Varies
      /\ \A n \in DOMAIN Coding["sps"] : Coding["sps"][n] # Varies
  <2>1. \A n \in DOMAIN NalCoding : NalCoding[n] # Varies
    BY DEF NalCoding, Varies
  <2>2. \A n \in DOMAIN NalSvcExtCoding : NalSvcExtCoding[n] # Varies
    BY DEF NalSvcExtCoding, Varies
  <2> QED BY <2>1, <2>2, SpsCodingVariesNot, StructuresOfCoding DEF NoVaries
<1>4. ASSUME Coding[e.s][e.n] # Varies
      PROVE  CodingOf(e, z, ActiveSps(z)) = CodingOf(e, x, ActiveSps(x))
  BY <1>4 DEF CodingOf
<1>5. CASE k < 2
  <2>1. e.s = "nal"
    <3>1. k = 0 \/ k = 1
      BY <1>5
    <3> QED BY <1>1, <3>1
  <2> QED BY <1>2, <1>3, <1>4, <2>1
<1>6. CASE k >= 2
  <2>1. z.nal.nal_unit_type = t
    <3>1. [s |-> "nal", n |-> "nal_unit_type"] \in A
      BY <1>1, <1>6
    <3>2. "nal_unit_type" \in NamesIn("nal", A)
      BY <3>1, NamesInA
    <3> QED BY <3>2 DEF AgreeOn, Agree
  <2>2. \A s \in Sets \ Structures(t) : x[s] = z[s]
    BY <1>6 DEF SameSets
  <2>3. e.s \in {"nal", "nal_svc_ext"} \cup PayloadStructures(t)
    BY <1>1, <1>2, UnitStructures DEF OfStructures
  <2>4. CASE t \notin {7, 8}
    <3>1. z.pps = x.pps /\ z.sps = x.sps /\ (t # 15 => z.subset = x.subset)
      BY <2>2, <2>4 DEF Sets, Structures
    <3>2. ActiveSps(z) = ActiveSps(x)
      BY <2>1, <3>1 DEF ActiveSps
    <3> QED BY <3>1, <3>2 DEF CodingOf
  <2>5. CASE t = 7
    <3>1. e.s \in {"nal", "nal_svc_ext", "sps"}
      BY <2>3, <2>5 DEF PayloadStructures
    <3> QED BY <1>2, <1>3, <1>4, <3>1
  <2>6. CASE t = 8
    <3>1. e.s \in {"nal", "nal_svc_ext", "pps"}
      BY <2>3, <2>6 DEF PayloadStructures
    <3>2. CASE e.s \in {"nal", "nal_svc_ext"}
      BY <1>2, <1>3, <1>4, <3>2
    <3>3. CASE e.s = "pps" /\ k + 1 <= 7
      <4>1. k + 1 \in 3 .. 7 /\ (k + 1) - 2 \in 1 .. 5
        BY <1>6, <3>3
      <4>2. e.n = PpsStart[(k + 1) - 2]
        BY <2>6, <4>1, PpsBegins
      <4>3. PpsStart[(k + 1) - 2] \in ToSet(PpsStart)
        <5>1. DOMAIN PpsStart = 1 .. 5
          BY DEF PpsStart
        <5> QED BY <4>1, <5>1 DEF ToSet
      <4>4. Coding["pps"][e.n] \in {1, 2, Golomb}
        BY <4>2, <4>3, PpsFieldsAreNumbers
      <4> QED BY <1>4, <3>3, <4>4 DEF Golomb, Varies
    <3>4. CASE e.s = "pps" /\ k >= 7
      <4>1. es[7] = [s |-> "pps", n |-> "num_slice_groups_minus1"]
        <5>1. 7 \in 3 .. 7 /\ 7 - 2 = 5 /\ PpsStart[5] = "num_slice_groups_minus1"
          BY DEF PpsStart
        <5> QED BY <2>6, <5>1, PpsBegins
      <4>2. [s |-> "pps", n |-> "num_slice_groups_minus1"] \in A
        BY <3>4, <4>1
      <4>3. "num_slice_groups_minus1" \in NamesIn("pps", A)
        BY <4>2, NamesInA
      <4>4. z.pps.num_slice_groups_minus1 = x.pps.num_slice_groups_minus1
        BY <4>3 DEF AgreeOn, Agree
      <4> QED BY <3>4, <4>4 DEF CodingOf
    <3> QED BY <1>1, <1>2, <3>1, <3>2, <3>3, <3>4
  <2> QED BY <2>4, <2>5, <2>6
<1> QED BY <1>5, <1>6

(***************************************************************************)
(* Fields are stored and cleared.                                          *)
(***************************************************************************)

\* x has all fields, and only those.
Shaped(x) == x = [s \in DOMAIN Coding |-> [n \in DOMAIN Coding[s] |-> x[s][n]]]

\* What a reader clears a structure to.
Empty(s) == IF s \in {"sps", "subset"} THEN ClearedSps ELSE Zeros(s)

\* Two streams of the same shape are equal if all their fields are.
LEMMA ShapedRules ==
  /\ \A x : Shaped(x) => /\ DOMAIN x = DOMAIN Coding
                         /\ \A s \in DOMAIN Coding : DOMAIN x[s] = DOMAIN Coding[s]
                         /\ \A s \in DOMAIN Coding : x[s] = [n \in DOMAIN Coding[s] |-> x[s][n]]
  /\ \A x, z : /\ Shaped(x) /\ Shaped(z)
               /\ \A s \in DOMAIN Coding : \A n \in DOMAIN Coding[s] : x[s][n] = z[s][n]
               => x = z
<1>1. ASSUME NEW x, Shaped(x)
      PROVE  /\ DOMAIN x = DOMAIN Coding
             /\ \A s \in DOMAIN Coding : DOMAIN x[s] = DOMAIN Coding[s]
             /\ \A s \in DOMAIN Coding : x[s] = [n \in DOMAIN Coding[s] |-> x[s][n]]
  <2>1. x = [s \in DOMAIN Coding |-> [n \in DOMAIN Coding[s] |-> x[s][n]]]
    BY <1>1 DEF Shaped
  <2>2. DOMAIN x = DOMAIN Coding
    BY <2>1
  <2>3. \A s \in DOMAIN Coding : x[s] = [n \in DOMAIN Coding[s] |-> x[s][n]]
    BY <2>1
  <2> QED BY <2>2, <2>3
<1>2. ASSUME NEW x, NEW z, Shaped(x), Shaped(z),
             \A s \in DOMAIN Coding : \A n \in DOMAIN Coding[s] : x[s][n] = z[s][n]
      PROVE  x = z
  <2>1. \A s \in DOMAIN Coding : x[s] = z[s]
    <3> TAKE s \in DOMAIN Coding
    <3>1. x[s] = [n \in DOMAIN Coding[s] |-> x[s][n]] /\ z[s] = [n \in DOMAIN Coding[s] |-> z[s][n]]
      BY <1>1, <1>2
    <3> QED BY <1>2, <3>1
  <2>2. x = [s \in DOMAIN Coding |-> x[s]] /\ z = [s \in DOMAIN Coding |-> z[s]]
    BY <1>2 DEF Shaped
  <2> QED BY <2>1, <2>2
<1> QED BY <1>1, <1>2

LEMMA StructuresHaveTables ==
  /\ \A type : Structures(type) \subseteq {"sps", "subset", "pps", "sh", "sh_svc_ext"}
  /\ {"sps", "subset", "pps", "sh", "sh_svc_ext", "nal", "nal_svc_ext", "sps_svc_ext"}
       \subseteq DOMAIN Coding
  /\ DOMAIN Coding["sps"] = DOMAIN Coding["subset"]
BY StructuresOfCoding DEF Structures

LEMMA EmptyIsShaped ==
  ASSUME NEW s \in DOMAIN Coding
  PROVE  Empty(s) = [n \in DOMAIN Coding[s] |-> Empty(s)[n]]
<1>1. \A r : DOMAIN Zeros(r) = DOMAIN Coding[r]
  BY DEF Zeros
<1>2. Zeros(s) = [n \in DOMAIN Coding[s] |-> Zeros(s)[n]]
  BY DEF Zeros
<1>3. ClearedSps = [n \in DOMAIN Coding["sps"] |-> ClearedSps[n]]
  BY <1>1 DEF ClearedSps, Zeros
<1>4. CASE s \in {"sps", "subset"}
  <2>1. DOMAIN Coding[s] = DOMAIN Coding["sps"] /\ Empty(s) = ClearedSps
    BY <1>4, StructuresHaveTables DEF Empty
  <2> QED BY <1>3, <2>1
<1>5. CASE s \notin {"sps", "subset"}
  BY <1>2, <1>5 DEF Empty
<1> QED BY <1>4, <1>5

\* Clearing empties the structures of the payload, and no others.
LEMMA ClearedIsEmpty ==
  ASSUME NEW z, Shaped(z), NEW type, z.nal.nal_unit_type = type
  PROVE  /\ Shaped(Cleared(z))
         /\ \A s \in DOMAIN Coding :
              Cleared(z)[s] = IF s \in Structures(type) THEN Empty(s) ELSE z[s]
<1> DEFINE c == [s \in DOMAIN Coding |-> IF s \in Structures(type) THEN Empty(s) ELSE z[s]]
<1>1. z = [s \in DOMAIN Coding |-> z[s]]
  BY DEF Shaped
<1>2. {"sps", "subset", "pps", "sh", "sh_svc_ext"} \subseteq DOMAIN Coding
  BY StructuresHaveTables
<1>3. Cleared(z) = c
  <2> DEFINE k == Cleared(z)
  <2>1. CASE type = 7
    BY <1>1, <1>2, <2>1 DEF Cleared, Structures, Empty
  <2>2. CASE type = 15
    BY <1>1, <1>2, <2>2 DEF Cleared, Structures, Empty
  <2>3. CASE type = 8
    BY <1>1, <1>2, <2>3 DEF Cleared, Structures, Empty
  <2>4. CASE type \in {1, 5, 19}
    BY <1>1, <1>2, <2>4 DEF Cleared, Structures, Empty
  <2>5. CASE type = 20
    <3> DEFINE w == [z EXCEPT !.sh = Zeros("sh"), !.sh_svc_ext = Zeros("sh_svc_ext")]
    <3>1. Structures(20) = {"sh", "sh_svc_ext"} /\ "sh" \in DOMAIN Coding
          /\ "sh_svc_ext" \in DOMAIN Coding
      BY <1>2 DEF Structures
    <3>2. Cleared(z) = w
      BY <2>5 DEF Cleared
    <3>3. w = [s \in DOMAIN Coding |-> w[s]]
      BY <1>1
    <3>4. \A s \in DOMAIN Coding :
            w[s] = IF s = "sh" THEN Zeros("sh")
                   ELSE IF s = "sh_svc_ext" THEN Zeros("sh_svc_ext") ELSE z[s]
      BY <1>1
    <3> HIDE DEF w
    <3>5. \A s \in DOMAIN Coding : w[s] = IF s \in Structures(20) THEN Empty(s) ELSE z[s]
      BY <3>1, <3>4 DEF Empty
    <3> QED BY <2>5, <3>2, <3>3, <3>5
  <2>6. CASE type \notin {1, 5, 7, 8, 15, 19, 20}
    BY <1>1, <1>2, <2>6 DEF Cleared, Structures, Empty
  <2> QED BY <2>1, <2>2, <2>3, <2>4, <2>5, <2>6
<1>4. /\ DOMAIN c = DOMAIN Coding
      /\ \A s \in DOMAIN Coding : c[s] = IF s \in Structures(type) THEN Empty(s) ELSE z[s]
      /\ c = [s \in DOMAIN Coding |-> c[s]]
  OBVIOUS
<1> HIDE DEF c
<1>5. \A s \in DOMAIN Coding : c[s] = [n \in DOMAIN Coding[s] |-> c[s][n]]
  <2> TAKE s \in DOMAIN Coding
  <2>1. z[s] = [n \in DOMAIN Coding[s] |-> z[s][n]]
    BY ShapedRules
  <2>2. Empty(s) = [n \in DOMAIN Coding[s] |-> Empty(s)[n]]
    BY EmptyIsShaped
  <2>3. c[s] = Empty(s) \/ c[s] = z[s]
    BY <1>4
  <2> QED BY <2>1, <2>2, <2>3
<1>6. Shaped(c)
  BY <1>4, <1>5 DEF Shaped
<1> QED BY <1>3, <1>4, <1>6

\* What a code says of a field.
ValueOf(code) == IF code.c = Deltas THEN read_scaling_list(code.v) ELSE code.v[1]

\* What storing one code changes.
LEMMA Stored ==
  ASSUME NEW z, Shaped(z), NEW e, e.s \in DOMAIN Coding, e.n \in DOMAIN Coding[e.s], NEW code
  PROVE  /\ Shaped(Store(z, e, code))
         /\ \A s \in DOMAIN Coding : \A n \in DOMAIN Coding[s] :
              Store(z, e, code)[s][n] = IF s = e.s /\ n = e.n THEN ValueOf(code) ELSE z[s][n]
<1> DEFINE v == ValueOf(code)
           w == [z EXCEPT ![e.s][e.n] = v]
<1>1. Store(z, e, code) = w
  BY DEF Store, ValueOf
<1> HIDE DEF v
<1>2. DOMAIN z = DOMAIN Coding /\ \A s \in DOMAIN Coding : DOMAIN z[s] = DOMAIN Coding[s]
  BY ShapedRules
<1>3. DOMAIN w = DOMAIN Coding /\ w = [s \in DOMAIN Coding |-> w[s]]
  BY <1>2
<1>4. \A s \in DOMAIN Coding : s # e.s => w[s] = z[s]
  BY <1>2
<1>5. w[e.s] = [z[e.s] EXCEPT ![e.n] = v]
  BY <1>2
<1> HIDE DEF w
<1>6. /\ DOMAIN w[e.s] = DOMAIN Coding[e.s] /\ w[e.s][e.n] = v
      /\ w[e.s] = [n \in DOMAIN Coding[e.s] |-> w[e.s][n]]
      /\ \A n \in DOMAIN Coding[e.s] : n # e.n => w[e.s][n] = z[e.s][n]
  BY <1>2, <1>5
<1>7. ASSUME NEW s \in DOMAIN Coding
      PROVE  /\ w[s] = [n \in DOMAIN Coding[s] |-> w[s][n]]
             /\ \A n \in DOMAIN Coding[s] : w[s][n] = IF s = e.s /\ n = e.n THEN v ELSE z[s][n]
  <2>1. CASE s = e.s
    BY <1>6, <2>1
  <2>2. CASE s # e.s
    <3>1. w[s] = z[s] /\ z[s] = [n \in DOMAIN Coding[s] |-> z[s][n]]
      BY <1>4, <2>2, ShapedRules
    <3> QED BY <2>2, <3>1
  <2> QED BY <2>1, <2>2
<1>8. Shaped(w)
  BY <1>3, <1>7 DEF Shaped
<1> QED BY <1>1, <1>7, <1>8 DEF v

(***************************************************************************)
(* A reader takes a unit code by code.                                     *)
(***************************************************************************)

\* A reader in step with the unit, and the result of one who has taken all codes.
InStep(x) == [x |-> x, ok |-> TRUE]
AtEnd(mode, s, unit) == [s EXCEPT !.ok = @ /\ Len(NalUnit(mode, s.x, FALSE)) <= Len(unit)]

\* The steps of Parsed.
StepsOf(mode, x, unit) ==
  CHOOSE r : r = [i \in 0 .. Len(unit) |->
                    IF i = 0 THEN [x |-> x, ok |-> TRUE]
                    ELSE Step(mode, r[i - 1], i, unit[i])]

\* What Parsed does, step by step.
LEMMA ParsedDefined ==
  ASSUME NEW mode, NEW x, NEW unit, Len(unit) \in Nat,
         NEW r, r = StepsOf(mode, x, unit)
  PROVE  /\ r[0] = InStep(x)
         /\ \A i \in 1 .. Len(unit) : r[i] = Step(mode, r[i - 1], i, unit[i])
         /\ Parsed(mode, x, unit) = AtEnd(mode, r[Len(unit)], unit)
<1> DEFINE N == Len(unit)
           To(n, g) == g = [i \in 0 .. n |-> IF i = 0 THEN [x |-> x, ok |-> TRUE]
                                            ELSE Step(mode, g[i - 1], i, unit[i])]
           S == {n \in Nat : \E g : To(n, g)}
<1>1. 0 \in S
  <2>1. To(0, [i \in 0 .. 0 |-> [x |-> x, ok |-> TRUE]])
    OBVIOUS
  <2> QED BY <2>1
<1>2. ASSUME NEW n \in Nat, n \in S PROVE n + 1 \in S
  <2>1. PICK g : To(n, g)
    BY <1>2
  <2> DEFINE k == [i \in 0 .. n + 1 |->
                     IF i <= n THEN g[i] ELSE Step(mode, g[n], n + 1, unit[n + 1])]
  <2>2. /\ DOMAIN k = 0 .. n + 1 /\ k = [i \in 0 .. n + 1 |-> k[i]]
        /\ \A i \in 0 .. n : k[i] = g[i]
        /\ k[n + 1] = Step(mode, g[n], n + 1, unit[n + 1])
    OBVIOUS
  <2> HIDE DEF k
  <2>3. ASSUME NEW i \in 0 .. n + 1
        PROVE  k[i] = IF i = 0 THEN [x |-> x, ok |-> TRUE] ELSE Step(mode, k[i - 1], i, unit[i])
    <3>1. CASE i = n + 1
      <4>1. i # 0 /\ i - 1 = n /\ n \in 0 .. n
        BY <3>1
      <4> QED BY <2>2, <3>1, <4>1
    <3>2. CASE i \in 0 .. n
      <4>1. i # 0 => i - 1 \in 0 .. n
        BY <3>2
      <4> QED BY <2>1, <2>2, <3>2, <4>1
    <3> QED BY <3>1, <3>2
  <2>4. To(n + 1, k)
    BY <2>2, <2>3
  <2> QED BY <2>4
<1>3. \E g : To(N, g)
  <2> HIDE DEF To
  <2>1. Nat \subseteq S
    BY <1>1, <1>2, Induction
  <2> QED BY <2>1
<1>4. r = CHOOSE g : To(N, g)
  BY DEF StepsOf
<1>5. To(N, r)
  <2> HIDE DEF To
  <2> QED BY <1>3, <1>4
<1>6. 0 \in 0 .. N /\ \A i \in 1 .. N : i \in 0 .. N /\ i # 0
  OBVIOUS
<1>7. Parsed(mode, x, unit)
      = [r[N] EXCEPT !.ok = @ /\ Len(NalUnit(mode, r[N].x, FALSE)) <= N]
  BY DEF Parsed, StepsOf
<1> QED BY <1>5, <1>6, <1>7 DEF InStep, AtEnd

\* The first is the beginning of the second.
Begins(a, b) ==
  /\ IsSeq(a) /\ IsSeq(b) /\ Len(a) <= Len(b)
  /\ \A i \in 1 .. Len(a) : a[i] = b[i]

\* Beginnings of sequences.
LEMMA BeginRules ==
  /\ \A a : IsSeq(a) => Begins(a, a)
  /\ \A a, b : IsSeq(a) /\ IsSeq(b) => Begins(a, a \o b)
  /\ \A a, b, c : IsSeq(a) /\ Begins(b, c) => Begins(a \o b, a \o c)
  /\ \A s, a, b : Begins(a, b) => Begins(In(s, a), In(s, b))
<1>1. ASSUME NEW a, IsSeq(a) PROVE Begins(a, a)
  BY <1>1, SeqFacts DEF Begins
<1>2. ASSUME NEW a, NEW b, IsSeq(a), IsSeq(b) PROVE Begins(a, a \o b)
  <2>1. Len(a) \in Nat /\ Len(b) \in Nat
    BY <1>2, SeqFacts
  <2>2. IsSeq(a \o b) /\ Len(a \o b) = Len(a) + Len(b)
        /\ \A i \in 1 .. Len(a) : (a \o b)[i] = a[i]
    BY <1>2, Joined
  <2> QED BY <1>2, <2>1, <2>2 DEF Begins
<1>3. ASSUME NEW a, NEW b, NEW c, IsSeq(a), Begins(b, c) PROVE Begins(a \o b, a \o c)
  <2>1. IsSeq(b) /\ IsSeq(c) /\ Len(b) <= Len(c) /\ \A i \in 1 .. Len(b) : b[i] = c[i]
    BY <1>3 DEF Begins
  <2>2. Len(a) \in Nat /\ Len(b) \in Nat /\ Len(c) \in Nat
    BY <1>3, <2>1, SeqFacts
  <2>3. /\ IsSeq(a \o b) /\ Len(a \o b) = Len(a) + Len(b)
        /\ \A i \in 1 .. Len(a) : (a \o b)[i] = a[i]
        /\ \A i \in 1 .. Len(b) : (a \o b)[Len(a) + i] = b[i]
    BY <1>3, <2>1, Joined
  <2>4. /\ IsSeq(a \o c) /\ Len(a \o c) = Len(a) + Len(c)
        /\ \A i \in 1 .. Len(a) : (a \o c)[i] = a[i]
        /\ \A i \in 1 .. Len(c) : (a \o c)[Len(a) + i] = c[i]
    BY <1>3, <2>1, Joined
  <2>5. ASSUME NEW i \in 1 .. Len(a) + Len(b) PROVE (a \o b)[i] = (a \o c)[i]
    <3>1. CASE i \in 1 .. Len(a)
      BY <2>3, <2>4, <3>1
    <3>2. CASE i \notin 1 .. Len(a)
      <4>1. i - Len(a) \in 1 .. Len(b) /\ i - Len(a) \in 1 .. Len(c) /\ i = Len(a) + (i - Len(a))
        BY <2>1, <2>2, <3>2
      <4>2. (a \o b)[Len(a) + (i - Len(a))] = b[i - Len(a)]
            /\ (a \o c)[Len(a) + (i - Len(a))] = c[i - Len(a)]
        BY <2>3, <2>4, <4>1
      <4> QED BY <2>1, <4>1, <4>2
    <3> QED BY <3>1, <3>2
  <2> QED BY <2>1, <2>2, <2>3, <2>4, <2>5 DEF Begins
<1>4. ASSUME NEW s, NEW a, NEW b, Begins(a, b) PROVE Begins(In(s, a), In(s, b))
  <2>1. IsSeq(a) /\ IsSeq(b) /\ Len(a) <= Len(b) /\ \A i \in 1 .. Len(a) : a[i] = b[i]
    BY <1>4 DEF Begins
  <2>2. /\ Len(a) \in Nat /\ DOMAIN a = 1 .. Len(a) /\ Len(b) \in Nat /\ DOMAIN b = 1 .. Len(b)
    BY <2>1, SeqFacts
  <2> DEFINE m == In(s, a)
             k == In(s, b)
  <2>3. /\ m = [i \in DOMAIN a |-> m[i]] /\ k = [i \in DOMAIN b |-> k[i]]
        /\ \A i \in DOMAIN a : m[i] = [s |-> s, n |-> a[i]]
        /\ \A i \in DOMAIN b : k[i] = [s |-> s, n |-> b[i]]
    BY DEF In
  <2> HIDE DEF m, k
  <2>4. IsSeq(m) /\ Len(m) = Len(a) /\ IsSeq(k) /\ Len(k) = Len(b)
    BY <2>1, <2>3, Mapped
  <2>5. \A i \in 1 .. Len(a) : m[i] = k[i]
    BY <2>1, <2>2, <2>3
  <2>6. Begins(m, k)
    BY <2>1, <2>4, <2>5 DEF Begins
  <2> QED BY <2>6 DEF m, k
<1> QED BY <1>1, <1>2, <1>3, <1>4

\* A PPS up to its optional end.
PpsBody(f) ==
  PpsStart \o When(f.num_slice_groups_minus1 > 0, SliceGroups(f)) \o PpsMiddle

\* A picture parameter set is its body, and an optional end if there is more data.
LEMMA PpsInTwo ==
  ASSUME NEW z, NEW mode, mode # "write"
  PROVE  /\ IsSeq(NalHeader(z.nal)) /\ IsSeq(PpsBody(z.pps)) /\ IsSeq(OptionalEnd(z.pps))
         /\ z.nal.nal_unit_type = 8 =>
              /\ NalUnit(mode, z, FALSE) = NalHeader(z.nal) \o In("pps", PpsBody(z.pps))
              /\ NalUnit(mode, z, TRUE)
                   = NalHeader(z.nal) \o In("pps", PpsBody(z.pps) \o OptionalEnd(z.pps))
              /\ \A most : \/ NalUnit(mode, z, most) = NalUnit(mode, z, FALSE)
                           \/ NalUnit(mode, z, most) = NalUnit(mode, z, TRUE)
<1> DEFINE f == z.pps
           a == NalHeader(z.nal)
           groups == When(f.num_slice_groups_minus1 > 0, SliceGroups(f))
           body == PpsBody(f)
           end == OptionalEnd(f)
<1>1. IsSeq(a)
  <2>1. Follows(NalHeader(z.nal), NalHeader(z.nal), {})
    BY NalHeaderFollows DEF AgreeOn, Agree
  <2> QED BY <2>1 DEF Follows
<1>2. IsSeq(body) /\ IsSeq(end)
  <2>1. Follows(SliceGroups(f), SliceGroups(f), {})
    BY SliceGroupsFollow DEF Agree
  <2>2. Follows(OptionalEnd(f), OptionalEnd(f), {})
    BY OptionalEndFollows DEF Agree
  <2>3. IsSeq(PpsStart) /\ IsSeq(PpsMiddle)
    BY LongLiterals DEF PpsStart, PpsMiddle
  <2>4. IsSeq(groups) /\ IsSeq(end)
    <3>1. IsSeq(SliceGroups(f)) /\ IsSeq(OptionalEnd(f))
      BY <2>1, <2>2 DEF Follows
    <3> QED BY <3>1, FollowRules
  <2>5. body = PpsStart \o groups \o PpsMiddle
    BY DEF PpsBody
  <2> HIDE DEF groups, end, body
  <2> QED BY <2>3, <2>4, <2>5, FollowRules
<1>3. \A more : PicParameterSet(mode, f, more) = body \o When(more, end)
  BY DEF PicParameterSet, have_more_data, PpsBody, PpsStart, PpsMiddle
<1> HIDE DEF body, end, a
<1>4. ASSUME z.nal.nal_unit_type = 8
      PROVE  /\ NalUnit(mode, z, FALSE) = a \o In("pps", body)
             /\ NalUnit(mode, z, TRUE) = a \o In("pps", body \o end)
             /\ \A most : \/ NalUnit(mode, z, most) = NalUnit(mode, z, FALSE)
                          \/ NalUnit(mode, z, most) = NalUnit(mode, z, TRUE)
  <2>1. \A more : NalUnit(mode, z, more) = a \o In("pps", body \o When(more, end))
    <3> TAKE more
    <3>1. Payload(mode, z, more) = In("pps", PicParameterSet(mode, f, more))
      BY <1>4 DEF Payload
    <3>2. PicParameterSet(mode, f, more) = body \o When(more, end)
      BY <1>3
    <3>3. NalUnit(mode, z, more) = a \o Payload(mode, z, more)
      BY DEF NalUnit, a
    <3> QED BY <3>1, <3>2, <3>3
  <2>2. /\ When(FALSE, end) = <<>> /\ When(TRUE, end) = end
        /\ \A most : When(most, end) \in {<<>>, end}
    BY DEF When
  <2>3. body \o <<>> = body
    <3>1. body \in Seq(ToSet(body))
      BY <1>2, SeqFacts
    <3> QED BY <3>1
  <2>4. \A most : \/ NalUnit(mode, z, most) = NalUnit(mode, z, FALSE)
                  \/ NalUnit(mode, z, most) = NalUnit(mode, z, TRUE)
    BY <2>1, <2>2
  <2> QED BY <2>1, <2>2, <2>3, <2>4
<1> QED BY <1>1, <1>2, <1>4 DEF a, body, end

\* What a reader expects of a unit if there is less data is the beginning of what
\* it expects if there is more.
LEMMA LessDataBegins ==
  ASSUME NEW z, NEW mode, mode # "write"
  PROVE  /\ Begins(NalUnit(mode, z, FALSE), NalUnit(mode, z, TRUE))
         /\ \A most : NalUnit(mode, z, most) \in {NalUnit(mode, z, FALSE), NalUnit(mode, z, TRUE)}
<1>1. CASE z.nal.nal_unit_type = 8
  <2> DEFINE a == NalHeader(z.nal)
             body == PpsBody(z.pps)
             end == OptionalEnd(z.pps)
  <2>1. /\ IsSeq(a) /\ IsSeq(body) /\ IsSeq(end)
        /\ NalUnit(mode, z, FALSE) = a \o In("pps", body)
        /\ NalUnit(mode, z, TRUE) = a \o In("pps", body \o end)
        /\ \A most : \/ NalUnit(mode, z, most) = NalUnit(mode, z, FALSE)
                     \/ NalUnit(mode, z, most) = NalUnit(mode, z, TRUE)
    BY <1>1, PpsInTwo
  <2> HIDE DEF a, body, end
  <2>2. Begins(a \o In("pps", body), a \o In("pps", body \o end))
    <3>1. Begins(body, body \o end)
      BY <2>1, BeginRules
    <3>2. Begins(In("pps", body), In("pps", body \o end))
      BY <3>1, BeginRules
    <3> QED BY <2>1, <3>2, BeginRules
  <2> QED BY <2>1, <2>2
<1>2. CASE z.nal.nal_unit_type # 8
  <2>1. \A more : Payload(mode, z, more) = Payload(mode, z, TRUE)
    BY <1>2 DEF Payload
  <2>2. \A more : NalUnit(mode, z, more) = NalUnit(mode, z, TRUE)
    BY <2>1 DEF NalUnit
  <2>3. IsSeq(NalUnit(mode, z, TRUE))
    BY FirstElements
  <2> QED BY <2>2, <2>3, BeginRules
<1> QED BY <1>1, <1>2

(***************************************************************************)
(* A reader in step with the one who writes.                               *)
(***************************************************************************)

\* The first k of the elements have a field n of s.
Got(es, k, s, n) == \E i \in 1 .. k : es[i].s = s /\ es[i].n = n

\* One who has read the first k elements es of the unit x into y has z: after the
\* second element, the type, the structures of the payload were cleared.
HasRead(x, y, z, es, k) ==
  /\ Shaped(z)
  /\ \A s \in DOMAIN Coding : \A n \in DOMAIN Coding[s] :
       z[s][n] = IF Got(es, k, s, n) THEN x[s][n]
                 ELSE IF k >= 2 /\ s \in Structures(x.nal.nal_unit_type) THEN Empty(s)[n]
                 ELSE y[s][n]

\* What the reader y of a unit x must have in common with its writer.
Ready(mode, x, other, y) ==
  LET type == x.nal.nal_unit_type
  IN /\ Shaped(x) /\ Shaped(y) /\ SameSets(x, y) /\ Inferred(x, TRUE)
     /\ type = 20 => /\ x.nal.svc_extension_flag = 1
                     /\ \A n \in SvcFieldsOfSlices : x.sps_svc_ext[n] = y.sps_svc_ext[n]
     /\ type = 7 => ~ Lists444(x.sps) \/ mode = other
     /\ type = 15 => ~ Lists444(x.subset) \/ mode = other

\* The codes say the coding and the value of each element.
Says(unit, es, x) ==
  /\ Len(unit) = Len(es)
  /\ \A i \in 1 .. Len(es) :
       /\ unit[i].c = CodingOf(es[i], x, ActiveSps(x))
       /\ unit[i].c = Deltas => TakenWhole(unit[i].v)
       /\ ValueOf(unit[i]) = x[es[i].s][es[i].n]

\* A reader agrees with the writer on the elements it has taken.
LEMMA ReadAgrees ==
  ASSUME NEW x, NEW y, NEW z, NEW es, HaveFields(es), NEW k, 1 .. k \subseteq DOMAIN es,
         HasRead(x, y, z, es, k)
  PROVE  AgreeOn(x, z, {es[i] : i \in 1 .. k})
<1> DEFINE A == {es[i] : i \in 1 .. k}
<1>1. ASSUME NEW s, NEW n \in NamesIn(s, A) PROVE x[s][n] = z[s][n]
  <2>1. [s |-> s, n |-> n] \in A
    BY NamesInA
  <2>2. PICK i \in 1 .. k : es[i] = [s |-> s, n |-> n]
    BY <2>1
  <2>3. es[i].s = s /\ es[i].n = n /\ s \in DOMAIN Coding /\ n \in DOMAIN Coding[s]
    BY <2>2 DEF HaveFields
  <2>4. Got(es, k, s, n)
    BY <2>3 DEF Got
  <2> QED BY <2>3, <2>4 DEF HasRead
<1> HIDE DEF A
<1>2. AgreeOn(x, z, A)
  BY <1>1 DEF AgreeOn, Agree
<1> QED BY <1>2 DEF A

\* And has the sets of the writer.
LEMMA ReadHasSets ==
  ASSUME NEW mode, NEW x, NEW other, NEW y, Ready(mode, x, other, y), NEW es, NEW k, NEW z,
         HasRead(x, y, z, es, k)
  PROVE  SameSets(x, z)
<1> DEFINE t == x.nal.nal_unit_type
<1>1. ASSUME NEW s \in Sets \ Structures(t) PROVE x[s] = z[s]
  <2>1. s \in DOMAIN Coding
    BY StructuresHaveTables DEF Sets
  <2>2. x[s] = y[s] /\ Shaped(x) /\ Shaped(z)
    BY DEF Ready, SameSets, HasRead
  <2>3. \A n \in DOMAIN Coding[s] : z[s][n] = x[s][n]
    BY <2>1, <2>2 DEF HasRead
  <2>4. /\ x[s] = [n \in DOMAIN Coding[s] |-> x[s][n]]
        /\ z[s] = [n \in DOMAIN Coding[s] |-> z[s][n]]
    BY <2>1, <2>2, ShapedRules
  <2> QED BY <2>3, <2>4
<1> QED BY <1>1 DEF SameSets

\* Inferred fields have the value of a flag never set.
LEMMA InferredAreEmpty ==
  ASSUME NEW s \in {"sh", "sh_svc_ext", "pps"}, NEW n \in InferredFields(s)
  PROVE  n \in DOMAIN Coding[s] /\ Empty(s)[n] = 0
<1>1. n \in DOMAIN Coding[s] /\ Coding[s][n] = 1
  BY InferredFieldsAreFlags
<1>2. Zeros(s)[n] = 0
  BY <1>1 DEF Zeros, Deltas
<1> QED BY <1>1, <1>2 DEF Empty

\* The fields of the extension of a subset SPS that slices depend on.
LEMMA SvcFieldsHaveCodings == SvcFieldsOfSlices \subseteq DOMAIN Coding["sps_svc_ext"]
<1> DEFINE flags == {"inter_layer_deblocking_filter_control_present_flag",
            "chroma_phase_x_plus1_flag", "seq_ref_layer_chroma_phase_x_plus1_flag",
            "seq_tcoeff_level_prediction_flag",
            "adaptive_tcoeff_level_prediction_flag",
            "slice_header_restriction_flag", "svc_vui_parameters_present_flag"}
           numbers == {"extended_spatial_scalability_idc", "chroma_phase_y_plus1",
               "seq_ref_layer_chroma_phase_y_plus1"}
           f == Coded(1, flags)
           g == Coded(2, numbers)
<1>1. SvcFieldsOfSlices \subseteq flags \cup numbers
  BY DEF SvcFieldsOfSlices
<1>2. DOMAIN f = flags /\ DOMAIN g = numbers
  <2>1. \A c, names : DOMAIN Coded(c, names) = names
    BY DEF Coded
  <2> HIDE DEF flags, numbers
  <2> QED BY <2>1
<1> HIDE DEF flags, numbers, f, g
<1>3. DOMAIN (f ++ g) = flags \cup numbers
  BY <1>2 DEF ++
<1>4. \A k, m : DOMAIN (f ++ g) \subseteq DOMAIN (f ++ g ++ k ++ m)
  BY DEF ++
<1>5. \E k, m : SvcExtCoding = f ++ g ++ k ++ m
  BY DEF SvcExtCoding, f, g, flags, numbers
<1> QED BY <1>1, <1>3, <1>4, <1>5, StructuresOfCoding

\* So both have in common what the next element depends on.
LEMMA ReadInCommon ==
  ASSUME NEW mode, NEW x, NEW other \in {"read", "debug"}, NEW y, Ready(mode, x, other, y),
         NEW more, NEW es, es = NalUnit(mode, x, more), HaveFields(es),
         NEW k \in 2 .. Len(es), NEW z, HasRead(x, y, z, es, k)
  PROVE  InCommon(mode, x, more, other, z, have_more_data(mode, x.pps, more))
<1> DEFINE t == x.nal.nal_unit_type
<1>1. k \in Nat /\ k >= 2
  <2>1. Len(es) \in Nat
    BY FirstElements
  <2> QED BY <2>1
<1>2. SameSets(x, z)
  BY ReadHasSets
<1>3. t \in {1, 5, 19, 20} => x.pps = z.pps /\ x.sps = z.sps /\ x.subset = z.subset
  BY <1>2 DEF SameSets, Sets, Structures
<1>4. ASSUME NEW s \in Structures(t), s \in {"sh", "sh_svc_ext"}, NEW n \in InferredFields(s),
             x[s][n] = 0
      PROVE  z[s][n] = 0
  <2>1. s \in DOMAIN Coding /\ n \in DOMAIN Coding[s] /\ Empty(s)[n] = 0
    BY <1>4, InferredAreEmpty, StructuresHaveTables
  <2> QED BY <1>1, <1>4, <2>1 DEF HasRead
<1>5. ASSUME t \in {1, 5, 19, 20}, NEW sps,
             sps = IF t = 20 THEN x.subset ELSE x.sps
      PROVE  SameFieldFlag(x, z, sps)
  <2>1. sps.frame_mbs_only_flag # 0 => x.sh.field_pic_flag = 0
    BY <1>5 DEF Ready, Inferred
  <2>2. "sh" \in Structures(t) /\ "field_pic_flag" \in InferredFields("sh")
    BY <1>5 DEF Structures, InferredFields
  <2>3. x.sh.field_pic_flag = 0 => z.sh.field_pic_flag = 0
    BY <1>4, <2>2
  <2> QED BY <2>1, <2>3 DEF SameFieldFlag
<1>6. ASSUME t = 20 PROVE SameInferred(x, z)
  <2>1. "sh_svc_ext" \in Structures(t)
    BY <1>6 DEF Structures
  <2>2. \A n \in InferredFields("sh_svc_ext") : x.sh_svc_ext[n] = 0 => z.sh_svc_ext[n] = 0
    BY <1>4, <2>1
  <2>3. InferredFields("sh_svc_ext")
        = {"base_pred_weight_table_flag", "slice_skip_flag", "default_base_mode_flag"}
    BY DEF InferredFields
  <2>4. /\ x.nal_svc_ext.no_inter_layer_pred_flag # 0 =>
             x.sh_svc_ext.slice_skip_flag = 0 /\ x.sh_svc_ext.base_pred_weight_table_flag = 0
        /\ x.sh_svc_ext.adaptive_base_mode_flag # 0 => x.sh_svc_ext.default_base_mode_flag = 0
    BY <1>6 DEF Ready, Inferred
  <2> QED BY <2>2, <2>3, <2>4 DEF SameInferred
<1>7. ASSUME t = 20, NEW n \in SvcFieldsOfSlices PROVE x.sps_svc_ext[n] = z.sps_svc_ext[n]
  <2>1. n \in DOMAIN Coding["sps_svc_ext"] /\ "sps_svc_ext" \in DOMAIN Coding
    BY StructuresHaveTables, SvcFieldsHaveCodings
  <2>2. "sps_svc_ext" \notin Structures(t) /\ x.sps_svc_ext[n] = y.sps_svc_ext[n]
    BY <1>7, StructuresHaveTables DEF Ready
  <2> QED BY <2>1, <2>2 DEF HasRead
<1>8. have_more_data(other, z.pps, have_more_data(mode, x.pps, more)) = have_more_data(mode, x.pps, more)
  BY DEF have_more_data
<1> QED BY <1>3, <1>5, <1>6, <1>7, <1>8 DEF InCommon, Ready

\* What a reader expects as long as there are more codes.
WithMore(mode, z) == NalUnit(mode, z, TRUE)

\* The next element that the reader expects is the one that the writer put there.
LEMMA NextElement ==
  ASSUME NEW mode, NEW x, NEW other \in {"read", "debug"}, NEW y, Ready(mode, x, other, y),
         NEW more, NEW es, es = NalUnit(mode, x, more), HaveFields(es),
         NEW k \in Nat, k + 1 <= Len(es), NEW z, HasRead(x, y, z, es, k),
         NEW expected, expected = WithMore(other, z)
  PROVE  k + 1 <= Len(expected) /\ expected[k + 1] = es[k + 1]
<1>1. /\ IsSeq(es) /\ Len(es) \in Nat /\ Len(es) >= 2 /\ DOMAIN es = 1 .. Len(es)
      /\ es[1] = [s |-> "nal", n |-> "nal_ref_idc"] /\ es[2] = [s |-> "nal", n |-> "nal_unit_type"]
  BY FirstElements, SeqFacts
<1>2. /\ IsSeq(expected) /\ Len(expected) \in Nat /\ Len(expected) >= 2
      /\ expected[1] = es[1] /\ expected[2] = es[2]
  BY <1>1, FirstElements DEF WithMore
<1>3. CASE k < 2
  <2>1. k = 0 \/ k = 1
    BY <1>3
  <2>2. /\ k = 0 => k + 1 = 1
        /\ k = 1 => k + 1 = 2
    BY <2>1
  <2>3. Len(expected) \in Nat /\ Len(expected) >= 2 /\ expected[1] = es[1] /\ expected[2] = es[2]
    BY <1>2
  <2> QED BY <2>1, <2>2, <2>3
<1>4. CASE k >= 2
  <2> DEFINE A == {es[i] : i \in 1 .. k}
             most == have_more_data(mode, x.pps, more)
             b == NalUnit(other, z, most)
  <2>1. k \in 2 .. Len(es) /\ k \in Nat /\ k + 1 \in 1 .. Len(es) /\ 1 .. k \subseteq DOMAIN es
    BY <1>1, <1>4
  <2>2. InCommon(mode, x, more, other, z, most)
    BY <2>1, ReadInCommon
  <2>3. AgreeOn(x, z, A)
    BY <2>1, ReadAgrees, SMTT(20)
  <2> HIDE DEF A, most
  <2>4. Follows(es, b, A)
    BY <2>2, <2>3, NalUnitFollows
  <2>5. k + 1 <= Len(b) /\ b[k + 1] = es[k + 1]
    <3>1. CASE es = b
      BY <1>1, <2>1, <3>1
    <3>2. ASSUME NEW j \in 1 .. Len(es), j <= Len(b), \A i \in 1 .. j : es[i] = b[i], es[j] \notin A
          PROVE  k + 1 <= Len(b) /\ b[k + 1] = es[k + 1]
      <4>1. j \notin 1 .. k
        BY <3>2 DEF A
      <4>2. k + 1 <= j /\ k + 1 \in 1 .. j
        BY <1>1, <2>1, <4>1
      <4>3. Len(b) \in Nat
        BY <2>4, SeqFacts DEF Follows
      <4> QED BY <2>1, <3>2, <4>2, <4>3
    <3> QED BY <2>4, <3>1, <3>2 DEF Follows
  <2>6. Begins(b, expected)
    <3>1. other # "write"
      OBVIOUS
    <3>2. /\ Begins(NalUnit(other, z, FALSE), expected)
          /\ b = NalUnit(other, z, FALSE) \/ b = expected
      BY <3>1, LessDataBegins DEF WithMore
    <3> QED BY <1>2, <3>2, BeginRules
  <2>7. Len(b) \in Nat
    BY <2>4, SeqFacts DEF Follows
  <2>8. /\ Len(b) <= Len(expected) /\ \A i \in 1 .. Len(b) : b[i] = expected[i]
        /\ Len(expected) \in Nat
    BY <1>2, <2>6 DEF Begins
  <2>9. k + 1 \in 1 .. Len(b)
    BY <2>1, <2>5, <2>7
  <2> HIDE DEF b
  <2>10. expected[k + 1] = b[k + 1]
    BY <2>8, <2>9
  <2>11. k + 1 <= Len(expected)
    BY <2>1, <2>5, <2>7, <2>8
  <2> QED BY <2>5, <2>10, <2>11
<1> QED BY <1>3, <1>4

\* What the record of a reader in step is.
LEMMA RecordRead ==
  /\ \A v, r : r = InStep(v) => r = InStep(r.x) /\ r.x = v
  /\ \A v : InStep(v).x = v /\ InStep(v).ok
BY DEF InStep

\* The reader takes it.
LEMMA ElementRead ==
  ASSUME NEW mode, NEW x, NEW other \in {"read", "debug"}, NEW y, Ready(mode, x, other, y),
         NEW more, NEW es, es = NalUnit(mode, x, more), HaveFields(es),
         NEW unit, Says(unit, es, x),
         NEW k \in Nat, k + 1 <= Len(es), NEW z, HasRead(x, y, z, es, k),
         NEW s, s = InStep(z),
         NEW r, r = Step(other, s, k + 1, unit[k + 1])
  PROVE  r = InStep(r.x) /\ HasRead(x, y, r.x, es, k + 1)
<1> DEFINE e == es[k + 1]
           code == unit[k + 1]
           t == x.nal.nal_unit_type
           w == Store(z, e, code)
<1>1. /\ IsSeq(es) /\ Len(es) \in Nat /\ Len(es) >= 2 /\ DOMAIN es = 1 .. Len(es)
      /\ es[1] = [s |-> "nal", n |-> "nal_ref_idc"] /\ es[2] = [s |-> "nal", n |-> "nal_unit_type"]
      /\ k \in Nat /\ k + 1 \in 1 .. Len(es) /\ 1 .. k \subseteq DOMAIN es
  <2>1. /\ IsSeq(es) /\ Len(es) \in Nat /\ Len(es) >= 2 /\ DOMAIN es = 1 .. Len(es)
        /\ es[1] = [s |-> "nal", n |-> "nal_ref_idc"] /\ es[2] = [s |-> "nal", n |-> "nal_unit_type"]
    BY FirstElements, SeqFacts
  <2> QED BY <2>1
<1>2a. PICK expected : expected = WithMore(other, z)
  OBVIOUS
<1>2. k + 1 <= Len(expected) /\ expected[k + 1] = e
  BY <1>2a, NextElement
<1>3. CodingOf(e, z, ActiveSps(z)) = CodingOf(e, x, ActiveSps(x))
  <2>1. AgreeOn(x, z, {es[i] : i \in 1 .. k})
    BY <1>1, ReadAgrees
  <2>2. SameSets(x, z)
    BY ReadHasSets
  <2>3. k \in 0 .. Len(es) - 1
    BY <1>1
  <2> QED BY <2>1, <2>2, <2>3, CodingShared
<1>4. /\ code.c = CodingOf(e, x, ActiveSps(x)) /\ (code.c = Deltas => TakenWhole(code.v))
      /\ ValueOf(code) = x[e.s][e.n]
  BY <1>1 DEF Says
<1>5. e.s \in DOMAIN Coding /\ e.n \in DOMAIN Coding[e.s]
  BY <1>1 DEF HaveFields
<1> HIDE DEF e, code
<1>6. r = InStep(IF k + 1 = 2 THEN Cleared(w) ELSE w)
  <2>0. s.x = z
    BY RecordRead
  <2>1. r = Taken(s, expected, k + 1, code)
    <3>1. Step(other, s, k + 1, code) = Taken(s, WithMore(other, s.x), k + 1, code)
      BY DEF Step, WithMore
    <3> QED BY <1>2a, <2>0, <3>1 DEF code
  <2>2. s.x = z /\ s.ok = TRUE /\ s = [x |-> z, ok |-> TRUE]
    BY DEF InStep
  <2>3. r = [s EXCEPT !.x = IF k + 1 = 2 THEN Cleared(Store(@, expected[k + 1], code))
                            ELSE Store(@, expected[k + 1], code)]
    BY <1>2, <1>3, <1>4, <2>1, <2>2 DEF Taken
  <2> HIDE DEF w
  <2>4. r = [s EXCEPT !.x = IF k + 1 = 2 THEN Cleared(w) ELSE w]
    BY <1>2, <2>2, <2>3 DEF w
  <2> QED BY <2>2, <2>4 DEF InStep
<1>7. /\ Shaped(z)
      /\ \A s1 \in DOMAIN Coding : \A n \in DOMAIN Coding[s1] :
           z[s1][n] = IF Got(es, k, s1, n) THEN x[s1][n]
                      ELSE IF k >= 2 /\ s1 \in Structures(t) THEN Empty(s1)[n]
                      ELSE y[s1][n]
  BY DEF HasRead
<1>8. /\ Shaped(w)
      /\ \A s1 \in DOMAIN Coding : \A n \in DOMAIN Coding[s1] :
           w[s1][n] = IF s1 = e.s /\ n = e.n THEN x[s1][n] ELSE z[s1][n]
  <2>1. /\ Shaped(w)
        /\ \A s1 \in DOMAIN Coding : \A n \in DOMAIN Coding[s1] :
             w[s1][n] = IF s1 = e.s /\ n = e.n THEN ValueOf(code) ELSE z[s1][n]
    BY <1>5, <1>7, Stored
  <2> QED BY <1>4, <2>1
<1> HIDE DEF w
<1>9. \A s1, n : Got(es, k + 1, s1, n) <=> Got(es, k, s1, n) \/ (s1 = e.s /\ n = e.n)
  <2> TAKE s1, n
  <2>1. \A i \in 1 .. k + 1 : i \in 1 .. k \/ i = k + 1
    BY <1>1
  <2>2. 1 .. k \subseteq 1 .. k + 1 /\ k + 1 \in 1 .. k + 1
    BY <1>1
  <2> QED BY <2>1, <2>2 DEF Got, e
<1>10. CASE k + 1 # 2
  <2>1. r = InStep(w) /\ r.x = w
    <3>1. r = InStep(w)
      BY <1>6, <1>10
    <3> QED BY <3>1, RecordRead, Zenon
  <2>2. k + 1 >= 2 <=> k >= 2
    BY <1>1, <1>10
  <2>3. HasRead(x, y, w, es, k + 1)
    BY <1>7, <1>8, <1>9, <2>2 DEF HasRead
  <2> QED BY <2>1, <2>3
<1>11. CASE k + 1 = 2
  <2> DEFINE v == Cleared(w)
  <2>1. r = InStep(v) /\ r.x = v
    <3>1. r = InStep(v)
      BY <1>6, <1>11
    <3> QED BY <3>1, RecordRead, Zenon
  <2>2. e = [s |-> "nal", n |-> "nal_unit_type"]
    BY <1>1, <1>11 DEF e
  <2>3. w.nal.nal_unit_type = t
    BY <1>5, <1>8, <2>2
  <2>4. /\ Shaped(v)
        /\ \A s1 \in DOMAIN Coding : v[s1] = IF s1 \in Structures(t) THEN Empty(s1) ELSE w[s1]
    BY <1>8, <2>3, ClearedIsEmpty
  <2>5. \A s1, n : Got(es, k + 1, s1, n) => s1 = "nal"
    <3>1. \A i \in 1 .. k + 1 : i = 1 \/ i = 2
      BY <1>11
    <3> QED BY <1>1, <3>1 DEF Got
  <2>6. "nal" \notin Structures(t)
    BY StructuresHaveTables
  <2> HIDE DEF v
  <2>7. k + 1 >= 2 /\ ~ (k >= 2)
    BY <1>1, <1>11
  <2>8. ASSUME NEW s1 \in DOMAIN Coding, NEW n \in DOMAIN Coding[s1]
        PROVE  v[s1][n] = IF Got(es, k + 1, s1, n) THEN x[s1][n]
                          ELSE IF k + 1 >= 2 /\ s1 \in Structures(t) THEN Empty(s1)[n]
                          ELSE y[s1][n]
    <3>1. CASE s1 \in Structures(t)
      <4>1. ~ Got(es, k + 1, s1, n) /\ v[s1] = Empty(s1)
        BY <2>4, <2>5, <2>6, <3>1
      <4> QED BY <2>7, <3>1, <4>1
    <3>2. CASE s1 \notin Structures(t)
      <4>1. v[s1][n] = w[s1][n]
        BY <2>4, <3>2
      <4> QED BY <1>7, <1>8, <1>9, <2>7, <3>2, <4>1
    <3> QED BY <3>1, <3>2
  <2>9. HasRead(x, y, v, es, k + 1)
    BY <2>4, <2>8 DEF HasRead
  <2> QED BY <2>1, <2>9
<1> QED BY <1>10, <1>11

\* A unit whose codes say what its writer had is taken whole, and leaves the reader
\* with that.
LEMMA UnitIsRead ==
  ASSUME NEW mode, NEW x, NEW other \in {"read", "debug"}, NEW y, Ready(mode, x, other, y),
         NEW more, NEW es, es = NalUnit(mode, x, more), HaveFields(es),
         NEW unit, Says(unit, es, x), NEW p, p = Parsed(other, y, unit)
  PROVE  p.ok /\ HasRead(x, y, p.x, es, Len(es))
<1>1. /\ IsSeq(es) /\ Len(es) \in Nat /\ Len(es) >= 2 /\ DOMAIN es = 1 .. Len(es)
  BY FirstElements, SeqFacts
<1>2. Len(unit) = Len(es) /\ Len(unit) \in Nat
  BY <1>1 DEF Says
<1>3. PICK r : r = StepsOf(other, y, unit)
  OBVIOUS
<1>4. /\ r[0] = InStep(y)
      /\ \A i \in 1 .. Len(unit) : r[i] = Step(other, r[i - 1], i, unit[i])
      /\ p = AtEnd(other, r[Len(unit)], unit)
  BY <1>2, <1>3, ParsedDefined
<1> DEFINE N == Len(es)
           S == {k \in 0 .. N : r[k] = InStep(r[k].x) /\ HasRead(x, y, r[k].x, es, k)}
<1>5. 0 \in S
  <2>1. r[0] = InStep(r[0].x) /\ r[0].x = y
    BY <1>4, RecordRead, Zenon
  <2>2. Shaped(y)
    BY DEF Ready
  <2>3. \A s, n : ~ Got(es, 0, s, n)
    BY DEF Got
  <2>4. HasRead(x, y, y, es, 0)
    BY <2>2, <2>3 DEF HasRead
  <2>5. 0 \in 0 .. N
    BY <1>1
  <2> QED BY <2>1, <2>4, <2>5
<1>6. ASSUME NEW k \in 0 .. N - 1, k \in S PROVE k + 1 \in S
  <2>1. k \in Nat /\ k + 1 \in 0 .. N /\ k + 1 <= Len(es) /\ k + 1 \in 1 .. Len(unit) /\ (k + 1) - 1 = k
    BY <1>1, <1>2
  <2>2. PICK z : z = r[k].x
    OBVIOUS
  <2>3. r[k] = InStep(z) /\ HasRead(x, y, z, es, k)
    BY <1>6, <2>2
  <2>4. r[k + 1] = Step(other, r[k], k + 1, unit[k + 1])
    BY <1>4, <2>1
  <2>5. r[k + 1] = InStep(r[k + 1].x) /\ HasRead(x, y, r[k + 1].x, es, k + 1)
    BY <2>1, <2>3, <2>4, ElementRead
  <2> QED BY <2>1, <2>5
<1>7. N \in S
  <2> HIDE DEF S
  <2>1. \A k \in 0 .. N : k \in S
    BY <1>1, <1>5, <1>6, BoundedInduction
  <2> QED BY <1>1, <2>1
<1>8. PICK z : z = r[N].x
  OBVIOUS
<1>9. r[N] = InStep(z) /\ HasRead(x, y, z, es, N)
  BY <1>7, <1>8
<1>10. N \in 2 .. Len(es) /\ 1 .. N \subseteq DOMAIN es
  BY <1>1
<1> DEFINE most == have_more_data(mode, x.pps, more)
           b == NalUnit(other, z, most)
<1>11. InCommon(mode, x, more, other, z, most)
  BY <1>9, <1>10, ReadInCommon
<1>12. Follows(es, b, {es[i] : i \in 1 .. N})
  <2>1. AgreeOn(x, z, {es[i] : i \in 1 .. N})
    BY <1>9, <1>10, ReadAgrees, SMTT(20)
  <2> HIDE DEF most
  <2> QED BY <1>11, <2>1, NalUnitFollows
<1>13. b = es
  <2>1. Held(es, {es[i] : i \in 1 .. N})
    BY <1>1 DEF Held
  <2> HIDE DEF b
  <2> QED BY <1>12, <2>1, HeldFollows
<1>14. Len(NalUnit(other, z, FALSE)) <= Len(unit)
  <2>1. other # "write"
    OBVIOUS
  <2>2. /\ Begins(NalUnit(other, z, FALSE), WithMore(other, z))
        /\ b = NalUnit(other, z, FALSE) \/ b = WithMore(other, z)
    BY <2>1, LessDataBegins DEF WithMore
  <2>3. Len(NalUnit(other, z, FALSE)) <= Len(WithMore(other, z))
    BY <2>2 DEF Begins
  <2>4. PICK n : n = Len(NalUnit(other, z, FALSE))
    OBVIOUS
  <2>5. n \in Nat
    BY <2>4, FirstElements
  <2>6. n = Len(b) \/ Len(b) = Len(WithMore(other, z))
    BY <2>2, <2>4, Zenon
  <2> HIDE DEF b
  <2>7. n <= Len(WithMore(other, z))
    BY <2>3, <2>4, Zenon
  <2>8. n <= Len(unit)
    BY <1>2, <1>13, <2>5, <2>6, <2>7
  <2> QED BY <2>4, <2>8, Zenon
<1>15. p = InStep(z)
  <2>1. p = AtEnd(other, InStep(z), unit)
    BY <1>2, <1>4, <1>9
  <2>2. AtEnd(other, InStep(z), unit)
        = [InStep(z) EXCEPT !.ok = @ /\ Len(NalUnit(other, z, FALSE)) <= Len(unit)]
    BY RecordRead DEF AtEnd
  <2>3. AtEnd(other, InStep(z), unit) = [[x |-> z, ok |-> TRUE] EXCEPT !.ok = @ /\ TRUE]
    BY <1>14, <2>2 DEF InStep
  <2> QED BY <2>1, <2>3 DEF InStep
<1> QED BY <1>9, <1>15, RecordRead

(***************************************************************************)
(* What holds of the readers, the writer and the unit on the wire.         *)
(***************************************************************************)

\* Whether the unit of x has the field n of s.
HasElement(x, more, s, n) ==
  LET es == NalUnit("encode", x, more) IN Got(es, Len(es), s, n)

\* What a program is taken to send: no scaling lists for 4:4:4, which only one of
\* the copies knows; slices of layers with the extension of the header; and
\* subset SPSs whose fields that such slices depend on are in the unit, or are
\* what the readers have from the one before.
Sendable ==
  turn = "read" =>
    LET type == enc.nal.nal_unit_type
    IN /\ type = 7 => ~ Lists444(enc.sps)
       /\ type = 15 => ~ Lists444(enc.subset)
       /\ type = 15 => \A n \in SvcFieldsOfSlices :
            \/ HasElement(enc, tail, "sps_svc_ext", n)
            \/ h.sps_svc_ext[n] = enc.sps_svc_ext[n] /\ d.sps_svc_ext[n] = enc.sps_svc_ext[n]
       /\ type = 20 => enc.nal.svc_extension_flag = 1

\* A unit that a program has written: its elements have fields that fit, and the
\* rest of the structures of its payload is empty.
Sound(x, more) ==
  LET es == NalUnit("encode", x, more)
      type == x.nal.nal_unit_type
  IN /\ Shaped(x) /\ HaveFields(es) /\ Inferred(x, more)
     /\ \A i \in DOMAIN es : Fits(CodingOf(es[i], x, ActiveSps(x)), x[es[i].s][es[i].n])
     /\ \A s \in Structures(type) : \A n \in DOMAIN Coding[s] :
          HasElement(x, more, s, n) \/ x[s][n] = Empty(s)[n]
     /\ type = 7 => ~ Lists444(x.sps)
     /\ type = 15 => ~ Lists444(x.subset)
     /\ type = 20 => x.nal.svc_extension_flag = 1

\* The ways in which a unit may be on the wire.
Wires(codes) == {codes, Signed(codes), Short(Signed(codes))}
OnTheWire(x, more, unit) == Sound(x, more) /\ unit \in Wires(Codes("encode", x, more))

\* A reader w between two units: it has the sets in force of the writer x.
Knows(x, w) ==
  /\ Shaped(w) /\ \A s \in Sets : w[s] = x[s]
  /\ \A n \in SvcFieldsOfSlices : w.sps_svc_ext[n] = x.sps_svc_ext[n]

\* A reader who is to take the unit of x.
Awaits(x, more, w) ==
  /\ Shaped(w) /\ SameSets(x, w)
  /\ \A n \in SvcFieldsOfSlices :
       HasElement(x, more, "sps_svc_ext", n) \/ w.sps_svc_ext[n] = x.sps_svc_ext[n]

\* A reader who has taken it.
HasTaken(x, more, w) ==
  /\ Knows(x, w)
  /\ \A s \in DOMAIN Coding : \A n \in DOMAIN Coding[s] :
       HasElement(x, more, s, n) => w[s][n] = x[s][n]
  /\ \A s \in Structures(x.nal.nal_unit_type) : w[s] = x[s]

IInv ==
  /\ sent \in Nat /\ stream \in DOMAIN Streams /\ tail \in BOOLEAN
  /\ in_step = TRUE /\ Shaped(enc)
  /\ turn \in {"encode", "read", "debug", "write"}
  /\ turn # "encode" => OnTheWire(enc, tail, wire) /\ out = <<>>
  /\ turn = "encode" => Knows(enc, h) /\ Knows(enc, d)
  /\ turn = "encode" /\ out # <<>> =>
       OnTheWire(enc, tail, wire) /\ HasTaken(enc, tail, h) /\ out = Codes("write", h, FALSE)
  /\ turn = "read" => Awaits(enc, tail, h) /\ Awaits(enc, tail, d)
  /\ turn = "debug" => HasTaken(enc, tail, h) /\ Awaits(enc, tail, d)
  /\ turn = "write" => HasTaken(enc, tail, h) /\ HasTaken(enc, tail, d)

(***************************************************************************)
(* The codes of a unit, in whatever way they are on the wire.              *)
(***************************************************************************)

\* A unit with its deltas as signed bytes, code by code.
LEMMA SignedOf ==
  ASSUME NEW unit, IsSeq(unit)
  PROVE  /\ IsSeq(Signed(unit)) /\ Len(Signed(unit)) = Len(unit) /\ DOMAIN Signed(unit) = DOMAIN unit
         /\ \A i \in DOMAIN unit : \A c, v : unit[i] = [c |-> c, v |-> v] =>
              Signed(unit)[i] = [c |-> c, v |-> IF c = Deltas THEN BytesOf(v) ELSE v]
<1> DEFINE s == Signed(unit)
<1>1. /\ s = [i \in DOMAIN unit |-> s[i]]
      /\ \A i \in DOMAIN unit :
           s[i] = IF unit[i].c # Deltas THEN unit[i]
                  ELSE [unit[i] EXCEPT !.v = [j \in DOMAIN @ |-> Byte(@[j])]]
  BY DEF Signed
<1> HIDE DEF s
<1>2. IsSeq(s) /\ Len(s) = Len(unit) /\ DOMAIN s = DOMAIN unit
  <2>1. IsSeq(s) /\ Len(s) = Len(unit)
    BY <1>1, Mapped
  <2> QED BY <1>1, <2>1
<1>3. ASSUME NEW i \in DOMAIN unit, NEW c, NEW v, unit[i] = [c |-> c, v |-> v]
      PROVE  s[i] = [c |-> c, v |-> IF c = Deltas THEN BytesOf(v) ELSE v]
  <2>1. unit[i].c = c /\ unit[i].v = v
    BY <1>3
  <2>2. CASE c # Deltas
    BY <1>1, <1>3, <2>1, <2>2
  <2>3. CASE c = Deltas
    <3>1. s[i] = [unit[i] EXCEPT !.v = [j \in DOMAIN @ |-> Byte(@[j])]]
      BY <1>1, <2>1, <2>3
    <3>2. s[i] = [c |-> c, v |-> [j \in DOMAIN v |-> Byte(v[j])]]
      BY <1>3, <3>1
    <3> QED BY <2>3, <3>2 DEF BytesOf
  <2> QED BY <2>2, <2>3
<1> QED BY <1>2, <1>3 DEF s

LEMMA ShortOf ==
  ASSUME NEW unit, IsSeq(unit)
  PROVE  /\ IsSeq(Short(unit)) /\ Len(Short(unit)) = Len(unit) /\ DOMAIN Short(unit) = DOMAIN unit
         /\ \A i \in DOMAIN unit : \A c, v : unit[i] = [c |-> c, v |-> v] =>
              Short(unit)[i] = [c |-> c, v |-> IF c = Deltas THEN EndedEarly(v) ELSE v]
<1> DEFINE s == Short(unit)
<1>1. /\ s = [i \in DOMAIN unit |-> s[i]]
      /\ \A i \in DOMAIN unit :
           s[i] = IF unit[i].c # Deltas THEN unit[i] ELSE [unit[i] EXCEPT !.v = EndedEarly(@)]
  BY DEF Short
<1> HIDE DEF s
<1>2. IsSeq(s) /\ Len(s) = Len(unit) /\ DOMAIN s = DOMAIN unit
  <2>1. IsSeq(s) /\ Len(s) = Len(unit)
    BY <1>1, Mapped
  <2> QED BY <1>1, <2>1
<1>3. ASSUME NEW i \in DOMAIN unit, NEW c, NEW v, unit[i] = [c |-> c, v |-> v]
      PROVE  s[i] = [c |-> c, v |-> IF c = Deltas THEN EndedEarly(v) ELSE v]
  <2>1. unit[i].c = c /\ unit[i].v = v
    BY <1>3
  <2>2. CASE c # Deltas
    BY <1>1, <1>3, <2>1, <2>2
  <2>3. CASE c = Deltas
    <3>1. s[i] = [unit[i] EXCEPT !.v = EndedEarly(@)]
      BY <1>1, <2>1, <2>3
    <3>2. s[i] = [c |-> c, v |-> EndedEarly(v)]
      BY <1>3, <3>1
    <3> QED BY <2>3, <3>2
  <2> QED BY <2>2, <2>3
<1> QED BY <1>2, <1>3 DEF s

\* A list on the wire; and any other code.
OnWireAs(c, v) ==
  {v, IF c = Deltas THEN BytesOf(v) ELSE v,
      IF c = Deltas THEN EndedEarly(BytesOf(v)) ELSE v}

LEMMA WiresOf ==
  ASSUME NEW codes, IsSeq(codes), NEW unit \in Wires(codes)
  PROVE  /\ IsSeq(unit) /\ Len(unit) = Len(codes) /\ DOMAIN unit = DOMAIN codes
         /\ \A i \in DOMAIN codes : \A c, v : codes[i] = [c |-> c, v |-> v] =>
              \E w \in OnWireAs(c, v) : unit[i] = [c |-> c, v |-> w]
<1>1. CASE unit = codes
  BY <1>1 DEF OnWireAs
<1>2. CASE unit = Signed(codes)
  <2>1. /\ IsSeq(unit) /\ Len(unit) = Len(codes) /\ DOMAIN unit = DOMAIN codes
        /\ \A i \in DOMAIN codes : \A c, v : codes[i] = [c |-> c, v |-> v] =>
             unit[i] = [c |-> c, v |-> IF c = Deltas THEN BytesOf(v) ELSE v]
    BY <1>2, SignedOf
  <2>2. \A c, v : (IF c = Deltas THEN BytesOf(v) ELSE v) \in OnWireAs(c, v)
    BY DEF OnWireAs
  <2> QED BY <2>1, <2>2
<1>3. CASE unit = Short(Signed(codes))
  <2> DEFINE s == Signed(codes)
  <2>1. /\ IsSeq(s) /\ Len(s) = Len(codes) /\ DOMAIN s = DOMAIN codes
        /\ \A i \in DOMAIN codes : \A c, v : codes[i] = [c |-> c, v |-> v] =>
             s[i] = [c |-> c, v |-> IF c = Deltas THEN BytesOf(v) ELSE v]
    BY SignedOf
  <2> HIDE DEF s
  <2>2. unit = Short(s)
    BY <1>3 DEF s
  <2>3. /\ IsSeq(unit) /\ Len(unit) = Len(s) /\ DOMAIN unit = DOMAIN s
        /\ \A i \in DOMAIN s : \A c, v : s[i] = [c |-> c, v |-> v] =>
             unit[i] = [c |-> c, v |-> IF c = Deltas THEN EndedEarly(v) ELSE v]
    BY <2>1, <2>2, ShortOf
  <2>4. ASSUME NEW i \in DOMAIN codes, NEW c, NEW v, codes[i] = [c |-> c, v |-> v]
        PROVE  \E w \in OnWireAs(c, v) : unit[i] = [c |-> c, v |-> w]
    <3>1. PICK b : b = IF c = Deltas THEN BytesOf(v) ELSE v
      OBVIOUS
    <3>2. s[i] = [c |-> c, v |-> b]
      BY <2>1, <2>4, <3>1
    <3>3. PICK w : w = IF c = Deltas THEN EndedEarly(b) ELSE b
      OBVIOUS
    <3>4. unit[i] = [c |-> c, v |-> w]
      BY <2>1, <2>3, <3>2, <3>3
    <3>5. w \in OnWireAs(c, v)
      BY <3>1, <3>3 DEF OnWireAs
    <3> QED BY <3>4, <3>5
  <2> QED BY <2>1, <2>3, <2>4
<1> QED BY <1>1, <1>2, <1>3 DEF Wires

\* The codes of fields that fit say what the fields hold, in whatever way they are
\* on the wire, and do not differ when lists are bytes and end early.
LEMMA WireSays ==
  ASSUME NEW x, NEW es, IsSeq(es),
         \A i \in DOMAIN es : Fits(CodingOf(es[i], x, ActiveSps(x)), x[es[i].s][es[i].n]),
         NEW codes, codes = CodesOf(es, x, ActiveSps(x)), NEW unit \in Wires(codes)
  PROVE  Says(unit, es, x) /\ Short(Signed(unit)) = Short(Signed(codes))
<1> DEFINE C(i) == CodingOf(es[i], x, ActiveSps(x))
           V(i) == x[es[i].s][es[i].n]
           W(i) == IF C(i) = Deltas THEN write_scaling_list(V(i)) ELSE <<Cut(C(i), V(i))>>
<1>1. /\ codes = [i \in DOMAIN es |-> codes[i]]
      /\ \A i \in DOMAIN es : codes[i] = [c |-> C(i), v |-> W(i)]
  BY DEF CodesOf, Code
<1>2. IsSeq(codes) /\ Len(codes) = Len(es) /\ DOMAIN codes = DOMAIN es
  <2>1. IsSeq(codes) /\ Len(codes) = Len(es)
    BY <1>1, Mapped
  <2> QED BY <1>1, <2>1
<1>3. DOMAIN es = 1 .. Len(es) /\ Len(es) \in Nat
  BY SeqFacts
<1>4. /\ IsSeq(unit) /\ Len(unit) = Len(codes) /\ DOMAIN unit = DOMAIN codes
      /\ \A i \in DOMAIN codes : \A c, v : codes[i] = [c |-> c, v |-> v] =>
           \E w \in OnWireAs(c, v) : unit[i] = [c |-> c, v |-> w]
  BY <1>2, WiresOf
<1>5. \A i \in DOMAIN es : Fits(C(i), V(i))
  OBVIOUS
<1> DEFINE su == Signed(unit)
           sc == Signed(codes)
           a == Short(su)
           b == Short(sc)
<1>6. /\ IsSeq(su) /\ Len(su) = Len(unit) /\ DOMAIN su = DOMAIN unit
      /\ \A i \in DOMAIN unit : \A c, v : unit[i] = [c |-> c, v |-> v] =>
           su[i] = [c |-> c, v |-> IF c = Deltas THEN BytesOf(v) ELSE v]
  BY <1>4, SignedOf
<1>7. /\ IsSeq(sc) /\ Len(sc) = Len(codes) /\ DOMAIN sc = DOMAIN codes
      /\ \A i \in DOMAIN codes : \A c, v : codes[i] = [c |-> c, v |-> v] =>
           sc[i] = [c |-> c, v |-> IF c = Deltas THEN BytesOf(v) ELSE v]
  BY <1>2, SignedOf
<1> HIDE DEF su, sc
<1>8. /\ IsSeq(a) /\ Len(a) = Len(su) /\ DOMAIN a = DOMAIN su
      /\ \A i \in DOMAIN su : \A c, v : su[i] = [c |-> c, v |-> v] =>
           a[i] = [c |-> c, v |-> IF c = Deltas THEN EndedEarly(v) ELSE v]
  BY <1>6, ShortOf
<1>9. /\ IsSeq(b) /\ Len(b) = Len(sc) /\ DOMAIN b = DOMAIN sc
      /\ \A i \in DOMAIN sc : \A c, v : sc[i] = [c |-> c, v |-> v] =>
           b[i] = [c |-> c, v |-> IF c = Deltas THEN EndedEarly(v) ELSE v]
  BY <1>7, ShortOf
<1> HIDE DEF a, b, C, V, W
<1>10. ASSUME NEW i \in 1 .. Len(es)
       PROVE  /\ unit[i].c = C(i) /\ (unit[i].c = Deltas => TakenWhole(unit[i].v))
              /\ ValueOf(unit[i]) = V(i) /\ a[i] = b[i]
  <2>1. codes[i] = [c |-> C(i), v |-> W(i)] /\ i \in DOMAIN codes /\ Fits(C(i), V(i))
    BY <1>1, <1>2, <1>3, <1>5
  <2>2. PICK w \in OnWireAs(C(i), W(i)) : unit[i] = [c |-> C(i), v |-> w]
    BY <1>4, <2>1
  <2>3. unit[i].c = C(i) /\ unit[i].v = w
    BY <2>2
  <2>4. CASE C(i) = Deltas
    <3>1. W(i) = write_scaling_list(V(i))
      BY <2>4 DEF W
    <3>2. V(i) \in Scales /\ (V(i).default = 1 => V(i).list = [j \in 1 .. ListMax |-> 8])
      BY <2>1, <2>4 DEF Fits, Scales
    <3>3. w \in OnWire(V(i))
      BY <2>4, <3>1 DEF OnWireAs, OnWire
    <3>4. /\ TakenWhole(w) /\ read_scaling_list(w) = V(i)
          /\ EndedEarly(BytesOf(w)) = EndedEarly(BytesOf(write_scaling_list(V(i))))
      BY <3>2, <3>3, ListCarried
    <3>5. su[i] = [c |-> C(i), v |-> BytesOf(w)] /\ sc[i] = [c |-> C(i), v |-> BytesOf(W(i))]
      <4>1. \A v : (IF C(i) = Deltas THEN BytesOf(v) ELSE v) = BytesOf(v)
        BY <2>4
      <4>2. i \in DOMAIN unit /\ i \in DOMAIN codes
        BY <1>4, <2>1
      <4>3. /\ su[i] = [c |-> C(i), v |-> IF C(i) = Deltas THEN BytesOf(w) ELSE w]
            /\ sc[i] = [c |-> C(i), v |-> IF C(i) = Deltas THEN BytesOf(W(i)) ELSE W(i)]
        BY <1>6, <1>7, <2>1, <2>2, <4>2
      <4> QED BY <4>1, <4>3
    <3>6. /\ a[i] = [c |-> C(i), v |-> EndedEarly(BytesOf(w))]
          /\ b[i] = [c |-> C(i), v |-> EndedEarly(BytesOf(W(i)))]
      <4>1. \A v : (IF C(i) = Deltas THEN EndedEarly(v) ELSE v) = EndedEarly(v)
        BY <2>4
      <4>2. i \in DOMAIN su /\ i \in DOMAIN sc
        BY <1>4, <1>6, <1>7, <2>1
      <4>3. /\ a[i] = [c |-> C(i), v |-> IF C(i) = Deltas THEN EndedEarly(BytesOf(w)) ELSE BytesOf(w)]
            /\ b[i] = [c |-> C(i), v |-> IF C(i) = Deltas THEN EndedEarly(BytesOf(W(i))) ELSE BytesOf(W(i))]
        BY <1>8, <1>9, <3>5, <4>2
      <4> QED BY <4>1, <4>3
    <3> QED BY <2>3, <2>4, <3>1, <3>4, <3>6 DEF ValueOf
  <2>5. CASE C(i) # Deltas
    <3>1. W(i) = <<Cut(C(i), V(i))>> /\ Cut(C(i), V(i)) = V(i)
      BY <2>1, <2>5 DEF W, Fits
    <3>2. w = W(i)
      BY <2>5 DEF OnWireAs
    <3>3. W(i)[1] = V(i)
      BY <3>1
    <3>4. su[i] = [c |-> C(i), v |-> w] /\ sc[i] = [c |-> C(i), v |-> w]
      <4>2. i \in DOMAIN unit /\ i \in DOMAIN codes
        BY <1>4, <2>1
      <4>3. /\ su[i] = [c |-> C(i), v |-> IF C(i) = Deltas THEN BytesOf(w) ELSE w]
            /\ sc[i] = [c |-> C(i), v |-> IF C(i) = Deltas THEN BytesOf(w) ELSE w]
        BY <1>6, <1>7, <2>1, <2>2, <3>2, <4>2
      <4> QED BY <2>5, <4>3
    <3>5. a[i] = b[i]
      <4>1. i \in DOMAIN su /\ i \in DOMAIN sc
        BY <1>4, <1>6, <1>7, <2>1
      <4> QED BY <1>8, <1>9, <3>4, <4>1
    <3> QED BY <2>3, <2>5, <3>2, <3>3, <3>5 DEF ValueOf
  <2> QED BY <2>4, <2>5
<1>11. Says(unit, es, x)
  BY <1>2, <1>4, <1>10 DEF Says, C, V
<1>12. a = b
  <2>1. /\ IsSeq(a) /\ IsSeq(b) /\ Len(a) = Len(es) /\ Len(b) = Len(es)
    BY <1>2, <1>4, <1>6, <1>7, <1>8, <1>9
  <2>2. a \in Seq(ToSet(a)) /\ b \in Seq(ToSet(b))
    BY <2>1, SeqFacts
  <2> QED BY <1>3, <1>10, <2>1, <2>2
<1> QED BY <1>11, <1>12 DEF a, b, su, sc

\* A reader who awaits a unit takes it, in whatever way it is on the wire.
LEMMA UnitIsTaken ==
  ASSUME NEW x, NEW more, NEW unit, OnTheWire(x, more, unit),
         NEW w, Awaits(x, more, w), NEW other \in {"read", "debug"},
         NEW p, p = Parsed(other, w, unit)
  PROVE  p.ok /\ HasTaken(x, more, p.x)
<1> DEFINE t == x.nal.nal_unit_type
<1>1. PICK es : es = NalUnit("encode", x, more)
  OBVIOUS
<1>2. IsSeq(es) /\ Len(es) \in Nat /\ DOMAIN es = 1 .. Len(es)
  BY <1>1, FirstElements, SeqFacts
<1>3. /\ Shaped(x) /\ HaveFields(es) /\ Inferred(x, more)
      /\ \A i \in DOMAIN es : Fits(CodingOf(es[i], x, ActiveSps(x)), x[es[i].s][es[i].n])
      /\ \A s \in Structures(t) : \A n \in DOMAIN Coding[s] :
           HasElement(x, more, s, n) \/ x[s][n] = Empty(s)[n]
      /\ t = 7 => ~ Lists444(x.sps)
      /\ t = 15 => ~ Lists444(x.subset)
      /\ t = 20 => x.nal.svc_extension_flag = 1
  BY <1>1 DEF OnTheWire, Sound
<1>4. PICK codes : codes = CodesOf(es, x, ActiveSps(x))
  OBVIOUS
<1>5. Says(unit, es, x)
  <2>1. unit \in Wires(codes)
    BY <1>1, <1>4 DEF OnTheWire, Codes
  <2> QED BY <1>2, <1>3, <1>4, <2>1, WireSays
<1>6. \A s, n : HasElement(x, more, s, n) <=> Got(es, Len(es), s, n)
  BY <1>1 DEF HasElement
<1>7. Ready("encode", x, other, w)
  <2>1. Inferred(x, TRUE)
    BY <1>3 DEF Inferred
  <2>2. /\ Shaped(w) /\ SameSets(x, w)
        /\ \A n \in SvcFieldsOfSlices :
             HasElement(x, more, "sps_svc_ext", n) \/ w.sps_svc_ext[n] = x.sps_svc_ext[n]
    BY DEF Awaits
  <2>3. ASSUME t = 20, NEW n \in SvcFieldsOfSlices PROVE x.sps_svc_ext[n] = w.sps_svc_ext[n]
    <3>1. OfStructures(es, {"nal", "nal_svc_ext"} \cup PayloadStructures(20))
      BY <1>1, <2>3, UnitStructures
    <3>2. "sps_svc_ext" \notin {"nal", "nal_svc_ext"} \cup PayloadStructures(20)
      BY DEF PayloadStructures
    <3>3. ~ Got(es, Len(es), "sps_svc_ext", n)
      BY <1>2, <3>1, <3>2 DEF Got, OfStructures
    <3> QED BY <1>6, <2>2, <3>3
  <2> QED BY <1>3, <2>1, <2>2, <2>3 DEF Ready
<1>8. p.ok /\ HasRead(x, w, p.x, es, Len(es))
  BY <1>1, <1>3, <1>5, <1>7, UnitIsRead
<1> DEFINE z == p.x
<1> HIDE DEF z
<1>9. /\ Shaped(z) /\ Len(es) >= 2
      /\ \A s \in DOMAIN Coding : \A n \in DOMAIN Coding[s] :
           z[s][n] = IF Got(es, Len(es), s, n) THEN x[s][n]
                     ELSE IF s \in Structures(t) THEN Empty(s)[n] ELSE w[s][n]
  <2>1. Len(es) >= 2
    BY <1>1, FirstElements
  <2> QED BY <1>8, <2>1 DEF HasRead, z
<1>10. ASSUME NEW s \in Structures(t) PROVE z[s] = x[s]
  <2>1. s \in DOMAIN Coding
    BY StructuresHaveTables
  <2>2. \A n \in DOMAIN Coding[s] : z[s][n] = x[s][n]
    BY <1>3, <1>6, <1>9, <2>1
  <2>3. z[s] = [n \in DOMAIN Coding[s] |-> z[s][n]] /\ x[s] = [n \in DOMAIN Coding[s] |-> x[s][n]]
    BY <1>3, <1>9, <2>1, ShapedRules
  <2> QED BY <2>2, <2>3
<1>11. SameSets(x, z)
  BY <1>7, <1>8, ReadHasSets DEF z
<1>12. \A s \in Sets : z[s] = x[s]
  BY <1>10, <1>11 DEF SameSets
<1>13. ASSUME NEW n \in SvcFieldsOfSlices PROVE z.sps_svc_ext[n] = x.sps_svc_ext[n]
  <2>1. n \in DOMAIN Coding["sps_svc_ext"] /\ "sps_svc_ext" \in DOMAIN Coding
    BY StructuresHaveTables, SvcFieldsHaveCodings
  <2>2. "sps_svc_ext" \notin Structures(t)
    BY StructuresHaveTables
  <2>3. HasElement(x, more, "sps_svc_ext", n) \/ w.sps_svc_ext[n] = x.sps_svc_ext[n]
    BY DEF Awaits
  <2> QED BY <1>6, <1>9, <2>1, <2>2, <2>3
<1>14. HasTaken(x, more, z)
  BY <1>6, <1>9, <1>10, <1>12, <1>13 DEF HasTaken, Knows
<1> QED BY <1>8, <1>14 DEF z

\* Writable, with the fields x from which the program starts.
WrittenAfter(x, y, more) ==
  LET blank == Blank(x, y.nal.nal_unit_type)
      held == ToSet(NalUnit("encode", y, more))
  IN /\ \A e \in held : /\ e.s \in DOMAIN Coding /\ e.n \in DOMAIN Coding[e.s]
                         /\ Fits(CodingOf(e, y, ActiveSps(y)), y[e.s][e.n])
     /\ y = [s \in DOMAIN Coding |-> [n \in DOMAIN Coding[s] |->
               IF [s |-> s, n |-> n] \in held THEN y[s][n] ELSE blank[s][n]]]
     /\ Inferred(y, more)

\* What a unit that is written holds fits; the other fields are those the writer
\* started from.
LEMMA WrittenFields ==
  ASSUME NEW x, NEW y, NEW more, WrittenAfter(x, y, more)
  PROVE  /\ Shaped(y) /\ HaveFields(NalUnit("encode", y, more)) /\ Inferred(y, more)
         /\ \A i \in DOMAIN NalUnit("encode", y, more) :
              LET e == NalUnit("encode", y, more)[i]
              IN Fits(CodingOf(e, y, ActiveSps(y)), y[e.s][e.n])
         /\ \A s \in DOMAIN Coding : \A n \in DOMAIN Coding[s] :
              HasElement(y, more, s, n) \/ y[s][n] = Blank(x, y.nal.nal_unit_type)[s][n]
<1>1. PICK es : es = NalUnit("encode", y, more)
  OBVIOUS
<1>2. PICK held : held = ToSet(es)
  OBVIOUS
<1>3. PICK blank : blank = Blank(x, y.nal.nal_unit_type)
  OBVIOUS
<1>4. /\ \A e \in held : /\ e.s \in DOMAIN Coding /\ e.n \in DOMAIN Coding[e.s]
                         /\ Fits(CodingOf(e, y, ActiveSps(y)), y[e.s][e.n])
      /\ y = [s \in DOMAIN Coding |-> [n \in DOMAIN Coding[s] |->
                IF [s |-> s, n |-> n] \in held THEN y[s][n] ELSE blank[s][n]]]
      /\ Inferred(y, more)
  BY <1>1, <1>2, <1>3 DEF WrittenAfter
<1>5. \A i \in DOMAIN es : es[i] \in held
  <2>1. IsSeq(es)
    BY <1>1, FirstElements
  <2> QED BY <1>2, <2>1, SeqFacts DEF ToSet
<1>6. ASSUME NEW s, NEW n, [s |-> s, n |-> n] \in held PROVE HasElement(y, more, s, n)
  <2>1. IsSeq(es) /\ DOMAIN es = 1 .. Len(es)
    BY <1>1, FirstElements, SeqFacts
  <2>2. PICK i \in 1 .. Len(es) : es[i] = [s |-> s, n |-> n]
    BY <1>2, <1>6, <2>1 DEF ToSet
  <2>3. PICK e : e = es[i]
    OBVIOUS
  <2>4. e.s = s /\ e.n = n
    BY <2>2, <2>3
  <2>5. Got(es, Len(es), s, n)
    BY <2>3, <2>4 DEF Got
  <2> QED BY <1>1, <2>5 DEF HasElement
<1>7. ASSUME NEW s \in DOMAIN Coding, NEW n \in DOMAIN Coding[s]
      PROVE  HasElement(y, more, s, n) \/ y[s][n] = blank[s][n]
  <2>1. y[s][n] = IF [s |-> s, n |-> n] \in held THEN y[s][n] ELSE blank[s][n]
    BY <1>4
  <2> QED BY <1>6, <2>1
<1>8. Shaped(y)
  BY <1>4 DEF Shaped
<1>9. HaveFields(es)
  BY <1>4, <1>5 DEF HaveFields
<1>10. \A i \in DOMAIN es : Fits(CodingOf(es[i], y, ActiveSps(y)), y[es[i].s][es[i].n])
  BY <1>4, <1>5
<1> QED BY <1>1, <1>3, <1>4, <1>7, <1>8, <1>9, <1>10

\* What a program writes next, with the sets in force of x, is a unit that readers
\* who know these sets await.
LEMMA UnitIsWritten ==
  ASSUME NEW x, Shaped(x), NEW y, NEW more, WrittenAfter(x, y, more),
         NEW type, type = y.nal.nal_unit_type,
         type = 7 => ~ Lists444(y.sps),
         type = 15 => ~ Lists444(y.subset),
         type = 20 => y.nal.svc_extension_flag = 1
  PROVE  /\ Sound(y, more)
         /\ \A w : /\ Knows(x, w)
                   /\ type = 15 => \A n \in SvcFieldsOfSlices :
                        \/ HasElement(y, more, "sps_svc_ext", n)
                        \/ w.sps_svc_ext[n] = y.sps_svc_ext[n]
                   => Awaits(y, more, w)
<1>0a. PICK es : es = NalUnit("encode", y, more)
  OBVIOUS
<1>0b. PICK blank : blank = Blank(x, type)
  OBVIOUS
<1>1. IsSeq(es) /\ Len(es) \in Nat /\ DOMAIN es = 1 .. Len(es)
  BY <1>0a, FirstElements, SeqFacts
<1>3. \A s, n : HasElement(y, more, s, n) <=> Got(es, Len(es), s, n)
  BY <1>0a DEF HasElement
<1>4. /\ Shaped(y) /\ HaveFields(es) /\ Inferred(y, more)
      /\ \A i \in DOMAIN es : Fits(CodingOf(es[i], y, ActiveSps(y)), y[es[i].s][es[i].n])
      /\ \A s \in DOMAIN Coding : \A n \in DOMAIN Coding[s] :
           HasElement(y, more, s, n) \/ y[s][n] = blank[s][n]
  BY <1>0a, <1>0b, WrittenFields
<1>8. /\ DOMAIN x = DOMAIN Coding
      /\ \A s \in DOMAIN Coding :
           blank[s] = IF s \in Structures(type) THEN Empty(s)
                      ELSE IF s = "nal" THEN [Zeros("nal") EXCEPT !.nal_unit_type = type]
                      ELSE IF s \in {"nal_svc_ext", "prefix_nal_svc"} THEN Zeros(s)
                      ELSE IF type = 15 /\ s = "sps_svc_ext" THEN Zeros(s) ELSE x[s]
  <2>1. DOMAIN x = DOMAIN Coding
    BY ShapedRules
  <2>2. Structures(type) \subseteq {"sps", "subset", "pps", "sh", "sh_svc_ext"}
    BY StructuresHaveTables
  <2>3. ASSUME NEW s \in DOMAIN Coding
        PROVE blank[s] = IF s \in Structures(type) THEN Empty(s)
                      ELSE IF s = "nal" THEN [Zeros("nal") EXCEPT !.nal_unit_type = type]
                      ELSE IF s \in {"nal_svc_ext", "prefix_nal_svc"} THEN Zeros(s)
                      ELSE IF type = 15 /\ s = "sps_svc_ext" THEN Zeros(s) ELSE x[s]
    <3>1. blank[s] = CASE s \in Structures(type) \cap {"sps", "subset"} -> ClearedSps
                       [] s \in Structures(type) \ {"sps", "subset"} -> Zeros(s)
                       [] s = "nal" -> [Zeros("nal") EXCEPT !.nal_unit_type = type]
                       [] s \in {"nal_svc_ext", "prefix_nal_svc"} -> Zeros(s)
                       [] type = 15 /\ s = "sps_svc_ext" -> Zeros(s)
                       [] OTHER -> x[s]
      BY <1>0b, <2>1 DEF Blank
    <3>2. CASE s \in Structures(type) /\ s \in {"sps", "subset"}
      BY <2>2, <3>1, <3>2 DEF Empty
    <3>3. CASE s \in Structures(type) /\ s \notin {"sps", "subset"}
      BY <2>2, <3>1, <3>3 DEF Empty
    <3>4. CASE s \notin Structures(type)
      BY <2>2, <3>1, <3>4
    <3> QED BY <3>2, <3>3, <3>4
  <2> QED BY <2>1, <2>3
<1>9. ASSUME NEW s \in Structures(type), NEW n \in DOMAIN Coding[s]
      PROVE  HasElement(y, more, s, n) \/ y[s][n] = Empty(s)[n]
  <2>1. s \in DOMAIN Coding
    BY StructuresHaveTables
  <2> QED BY <1>4, <1>8, <2>1
<1>10. Sound(y, more)
  BY <1>0a, <1>4, <1>9 DEF Sound
<1>11. OfStructures(es, {"nal", "nal_svc_ext"} \cup PayloadStructures(type))
  BY <1>0a, UnitStructures
<1>12. ASSUME NEW s \in DOMAIN Coding, s \notin {"nal", "nal_svc_ext"} \cup PayloadStructures(type),
              NEW n
       PROVE  ~ HasElement(y, more, s, n)
  BY <1>1, <1>3, <1>11, <1>12 DEF Got, OfStructures
<1>13. ASSUME NEW s \in Sets \ Structures(type) PROVE y[s] = x[s]
  <2>1. s \in DOMAIN Coding /\ s \in {"sps", "subset", "pps"}
    BY StructuresHaveTables DEF Sets
  <2>2. s \notin {"nal", "nal_svc_ext"} \cup PayloadStructures(type)
    BY <2>1 DEF Structures, PayloadStructures
  <2>3. blank[s] = x[s]
    BY <1>8, <2>1
  <2>4. \A n \in DOMAIN Coding[s] : y[s][n] = x[s][n]
    BY <1>4, <1>12, <2>1, <2>2, <2>3
  <2>5. y[s] = [n \in DOMAIN Coding[s] |-> y[s][n]] /\ x[s] = [n \in DOMAIN Coding[s] |-> x[s][n]]
    BY <1>4, <2>1, ShapedRules
  <2> QED BY <2>4, <2>5
<1>14. ASSUME type # 15, NEW n \in SvcFieldsOfSlices PROVE y.sps_svc_ext[n] = x.sps_svc_ext[n]
  <2>1. n \in DOMAIN Coding["sps_svc_ext"] /\ "sps_svc_ext" \in DOMAIN Coding
    BY StructuresHaveTables, SvcFieldsHaveCodings
  <2>2. "sps_svc_ext" \notin {"nal", "nal_svc_ext"} \cup PayloadStructures(type)
    BY <1>14 DEF PayloadStructures
  <2>3. blank["sps_svc_ext"] = x["sps_svc_ext"]
    <3>1. "sps_svc_ext" \notin Structures(type)
      BY StructuresHaveTables
    <3> QED BY <1>8, <1>14, <2>1, <3>1
  <2> QED BY <1>4, <1>12, <2>1, <2>2, <2>3
<1>15. ASSUME NEW w, Knows(x, w),
              type = 15 => \A n \in SvcFieldsOfSlices :
                \/ HasElement(y, more, "sps_svc_ext", n) \/ w.sps_svc_ext[n] = y.sps_svc_ext[n]
       PROVE  Awaits(y, more, w)
  <2>1. Shaped(w) /\ SameSets(y, w)
    BY <1>13, <1>15 DEF Knows, SameSets
  <2>2. \A n \in SvcFieldsOfSlices :
          HasElement(y, more, "sps_svc_ext", n) \/ w.sps_svc_ext[n] = y.sps_svc_ext[n]
    BY <1>14, <1>15 DEF Knows
  <2> QED BY <2>1, <2>2 DEF Awaits
<1> QED BY <1>10, <1>15

(***************************************************************************)
(* A unit that was taken is written again.                                 *)
(***************************************************************************)

\* Elements of the optional end of a PPS without lists.
EndNames ==
  {"transform_8x8_mode_flag", "pic_scaling_matrix_present_flag", "second_chroma_qp_index_offset"}

\* Without its optional end a picture parameter set only lacks the elements of that.
LEMMA WithoutEnd ==
  ASSUME NEW z, z.nal.nal_unit_type = 8, z.pps.pic_scaling_matrix_present_flag = 0,
         NEW a, a = NalUnit("encode", z, TRUE), NEW b, b = NalUnit("encode", z, FALSE)
  PROVE  \A s, n : Got(a, Len(a), s, n) => Got(b, Len(b), s, n) \/ (s = "pps" /\ n \in EndNames)
<1> DEFINE head == NalHeader(z.nal)
           body == PpsBody(z.pps)
           end == OptionalEnd(z.pps)
           A == ToSet(b) \cup {e \in ToSet(a) : e.s = "pps" /\ e.n \in EndNames}
<1>1. /\ IsSeq(head) /\ IsSeq(body) /\ IsSeq(end)
      /\ b = head \o In("pps", body) /\ a = head \o In("pps", body \o end)
  <2>1. "encode" # "write"
    OBVIOUS
  <2> QED BY <2>1, PpsInTwo
<1>2. /\ DOMAIN end = 1 .. 3
      /\ end[1] = "transform_8x8_mode_flag" /\ end[2] = "pic_scaling_matrix_present_flag"
      /\ end[3] = "second_chroma_qp_index_offset"
  <2>1. When(z.pps.pic_scaling_matrix_present_flag = 1,
             FlaggedLists("pic_scaling_list_present_flag", z.pps,
                          6 + 2 * z.pps.transform_8x8_mode_flag)) = <<>>
    BY DEF When
  <2>2. end = <<"transform_8x8_mode_flag", "pic_scaling_matrix_present_flag">> \o <<>>
              \o <<"second_chroma_qp_index_offset">>
    BY <2>1 DEF OptionalEnd
  <2> QED BY <2>2
<1> HIDE DEF head, body, end
<1>3. IsSeq(In("pps", body)) /\ IsSeq(body \o end) /\ IsSeq(In("pps", body \o end))
  BY <1>1, Joined, InRules
<1>4. IsSeq(a) /\ IsSeq(b) /\ ToSet(b) = ToSet(head) \cup ToSet(In("pps", body))
      /\ ToSet(a) = ToSet(head) \cup ToSet(In("pps", body \o end))
  BY <1>1, <1>3, Joined
<1>5. ASSUME NEW e \in ToSet(In("pps", body \o end)) PROVE e \in A
  <2> DEFINE be == body \o end
             N == Len(body)
  <2>1. /\ IsSeq(be) /\ Len(be) = N + Len(end) /\ DOMAIN be = 1 .. Len(be)
        /\ \A i \in 1 .. N : be[i] = body[i]
        /\ \A i \in 1 .. Len(end) : be[N + i] = end[i]
        /\ N \in Nat /\ DOMAIN body = 1 .. N /\ DOMAIN end = 1 .. Len(end) /\ Len(end) \in Nat
    BY <1>1, <1>3, Joined, SeqFacts
  <2> HIDE DEF be
  <2>2. PICK i \in DOMAIN be : e.s = "pps" /\ e.n = be[i] /\ e = [s |-> "pps", n |-> be[i]]
    BY <1>5 DEF ToSet, In, be
  <2>3. CASE i \in 1 .. N
    <3>1. be[i] = body[i] /\ i \in DOMAIN body
      BY <2>1, <2>3
    <3>2. e \in ToSet(In("pps", body))
      <4>1. e = [s |-> "pps", n |-> body[i]]
        BY <2>2, <3>1
      <4> QED BY <3>1, <4>1 DEF ToSet, In
    <3> QED BY <1>4, <3>2
  <2>4. CASE i \notin 1 .. N
    <3>1. i - N \in 1 .. Len(end) /\ i = N + (i - N)
      BY <2>1, <2>4
    <3>2. be[i] = end[i - N] /\ i - N \in 1 .. 3
      BY <1>2, <2>1, <3>1
    <3>3. i - N = 1 \/ i - N = 2 \/ i - N = 3
      BY <3>2
    <3>4. e.n \in EndNames
      BY <1>2, <2>2, <3>2, <3>3 DEF EndNames
    <3>5. e \in ToSet(a)
      BY <1>4, <1>5
    <3> QED BY <2>2, <3>4, <3>5
  <2> QED BY <2>3, <2>4
<1>6. \A e \in ToSet(a) : e \in A
  BY <1>4, <1>5
<1>7. ASSUME NEW s, NEW n, Got(a, Len(a), s, n)
      PROVE  Got(b, Len(b), s, n) \/ (s = "pps" /\ n \in EndNames)
  <2>1. PICK i \in 1 .. Len(a) : a[i].s = s /\ a[i].n = n
    BY <1>7 DEF Got
  <2>2. DOMAIN a = 1 .. Len(a) /\ DOMAIN b = 1 .. Len(b)
    BY <1>4, SeqFacts
  <2>3. a[i] \in A
    BY <1>6, <2>1, <2>2 DEF ToSet
  <2>4. ASSUME a[i] \in ToSet(b) PROVE Got(b, Len(b), s, n)
    BY <2>1, <2>2, <2>4 DEF ToSet, Got
  <2> QED BY <2>1, <2>3, <2>4
<1> QED BY <1>7

\* Flags of a PPS that fit are 0 or 1.
LEMMA FlagsOfPps ==
  ASSUME NEW x, NEW more, Sound(x, more), x.nal.nal_unit_type = 8, NEW n \in InferredFields("pps")
  PROVE  x.pps[n] \in {0, 1}
<1>1. PICK es : es = NalUnit("encode", x, more)
  OBVIOUS
<1>2. /\ IsSeq(es) /\ DOMAIN es = 1 .. Len(es)
  BY <1>1, FirstElements, SeqFacts
<1>3. n \in DOMAIN Coding["pps"] /\ Coding["pps"][n] = 1 /\ Empty("pps")[n] = 0
  BY InferredFieldsAreFlags, InferredAreEmpty
<1>4. CASE HasElement(x, more, "pps", n)
  <2>1. PICK i \in 1 .. Len(es) : es[i].s = "pps" /\ es[i].n = n
    BY <1>1, <1>4 DEF HasElement, Got
  <2>2. Fits(CodingOf(es[i], x, ActiveSps(x)), x.pps[n])
    BY <1>1, <1>2, <2>1 DEF Sound
  <2>3. CodingOf(es[i], x, ActiveSps(x)) = 1
    BY <1>3, <2>1 DEF CodingOf, Varies
  <2>4. x.pps[n] \in Int /\ Cut(1, x.pps[n]) = x.pps[n]
    BY <2>2, <2>3 DEF Fits, Deltas
  <2>5. x.pps[n] % 2^1 = x.pps[n]
    BY <2>4 DEF Cut
  <2> QED BY <2>4, <2>5
<1>5. CASE ~ HasElement(x, more, "pps", n)
  <2>1. "pps" \in Structures(x.nal.nal_unit_type)
    BY DEF Structures
  <2>2. x.pps[n] = 0
    BY <1>3, <1>5, <2>1 DEF Sound
  <2> QED BY <2>2
<1> QED BY <1>4, <1>5

\* A reader who has taken a unit agrees on all its elements.
LEMMA TakenAgrees ==
  ASSUME NEW x, NEW more, Sound(x, more), NEW z, HasTaken(x, more, z),
         NEW es, es = NalUnit("encode", x, more), NEW A, A = {es[i] : i \in 1 .. Len(es)}
  PROVE  /\ AgreeOn(x, z, A) /\ Held(es, A) /\ Held(NalHeader(x.nal), A)
         /\ z.nal.nal_unit_type = x.nal.nal_unit_type
         /\ x.nal.nal_unit_type = 20 =>
              /\ z.nal.svc_extension_flag = 1
              /\ \A n \in HeaderFieldsUsed : x.nal_svc_ext[n] = z.nal_svc_ext[n]
<1>1. IsSeq(es) /\ DOMAIN es = 1 .. Len(es) /\ HaveFields(es)
  BY FirstElements, SeqFacts DEF Sound
<1>2. ASSUME NEW s, NEW n \in NamesIn(s, A) PROVE x[s][n] = z[s][n]
  <2>1. [s |-> s, n |-> n] \in A
    BY NamesInA
  <2>2. PICK i \in 1 .. Len(es) : es[i] = [s |-> s, n |-> n]
    BY <2>1
  <2>3. PICK e : e = es[i]
    OBVIOUS
  <2>4. e.s = s /\ e.n = n
    BY <2>2, <2>3
  <2>5. s \in DOMAIN Coding /\ n \in DOMAIN Coding[s]
    BY <1>1, <2>3, <2>4 DEF HaveFields
  <2>6. HasElement(x, more, s, n)
    BY <2>3, <2>4 DEF HasElement, Got
  <2> QED BY <2>5, <2>6 DEF HasTaken
<1>3. AgreeOn(x, z, A)
  BY <1>2 DEF AgreeOn, Agree
<1>4. Held(es, A)
  BY <1>1 DEF Held
<1>5. Held(NalHeader(x.nal), A)
  <2> DEFINE a == NalHeader(x.nal)
             p == Payload("encode", x, more)
  <2>1. IsSeq(p) /\ IsSeq(a)
    <3>1. Follows(a, a, {})
      BY NalHeaderFollows DEF AgreeOn, Agree
    <3> QED BY <3>1, PayloadIsSeq DEF Follows
  <2>2. es = a \o p
    BY DEF NalUnit
  <2> HIDE DEF a, p
  <2>3. Held(a \o p, A)
    BY <1>4, <2>2
  <2>4. Held(a, A)
    BY <2>1, <2>3, Joined
  <2> QED BY <2>4 DEF a
<1>6. /\ x.nal.nal_unit_type = z.nal.nal_unit_type
      /\ x.nal.nal_unit_type \in {14, 20} =>
           /\ x.nal.svc_extension_flag = z.nal.svc_extension_flag
           /\ x.nal.svc_extension_flag = 1 =>
                \A n \in HeaderFieldsUsed : x.nal_svc_ext[n] = z.nal_svc_ext[n]
  BY <1>3, <1>5, NalHeaderFollows
<1>7. x.nal.nal_unit_type = 20 => x.nal.svc_extension_flag = 1
  BY DEF Sound
<1> QED BY <1>3, <1>4, <1>5, <1>6, <1>7

\* The unit that writing again gives, and its codes, are named: the provers do not
\* take a truth value as an argument beside a variable one.
Rewrite(z) == NalUnit("write", z, FALSE)
CodesAgain(z) == Codes("write", z, FALSE)

\* The unit that such a reader writes is the one that came; or it is the beginning
\* of a PPS that came with an optional end of zeros.
ZerosAtEnd(f) ==
  /\ f.transform_8x8_mode_flag = 0 /\ f.pic_scaling_matrix_present_flag = 0
  /\ f.second_chroma_qp_index_offset = 0

LEMMA Rewritten ==
  ASSUME NEW x, NEW more \in BOOLEAN, Sound(x, more), NEW z, HasTaken(x, more, z),
         NEW es, es = NalUnit("encode", x, more), NEW es2, es2 = Rewrite(z)
  PROVE  \/ es2 = es
         \/ /\ x.nal.nal_unit_type = 8 /\ more /\ ZerosAtEnd(z.pps)
            /\ Begins(es2, es)
            /\ \A s, n : Got(es, Len(es), s, n) =>
                 Got(es2, Len(es2), s, n) \/ (s = "pps" /\ n \in EndNames)
<1> DEFINE t == x.nal.nal_unit_type
           A == {es[i] : i \in 1 .. Len(es)}
           E(most) == NalUnit("encode", z, most)
           again == have_more_data("write", z.pps, FALSE)
<1>1. /\ AgreeOn(x, z, A) /\ Held(es, A) /\ z.nal.nal_unit_type = t
      /\ t = 20 => /\ z.nal.svc_extension_flag = 1
                   /\ \A n \in HeaderFieldsUsed : x.nal_svc_ext[n] = z.nal_svc_ext[n]
  BY TakenAgrees
<1>2. /\ x.pps = z.pps /\ x.sps = z.sps /\ x.subset = z.subset
      /\ \A n \in SvcFieldsOfSlices : x.sps_svc_ext[n] = z.sps_svc_ext[n]
      /\ t \in {1, 5, 19, 20} => x.sh = z.sh
      /\ t = 20 => x.sh_svc_ext = z.sh_svc_ext
  <2>1. \A s \in Sets : z[s] = x[s]
    BY DEF HasTaken, Knows
  <2>2. t \in {1, 5, 19, 20} => "sh" \in Structures(t)
    BY DEF Structures
  <2>3. t = 20 => "sh_svc_ext" \in Structures(t)
    BY DEF Structures
  <2>4. \A s \in Structures(t) : z[s] = x[s]
    BY DEF HasTaken
  <2> QED BY <2>1, <2>2, <2>3, <2>4 DEF HasTaken, Knows, Sets
<1>3. es = E(more)
  <2>1. InCommon("encode", x, more, "encode", z, more)
    <3>1. SameFieldFlag(x, z, x.sps) \/ t \notin {1, 5, 19}
      BY <1>2 DEF SameFieldFlag
    <3>2. t = 20 => SameFieldFlag(x, z, x.subset) /\ SameInferred(x, z)
      BY <1>2 DEF SameFieldFlag, SameInferred
    <3>3. t = 20 => x.nal.svc_extension_flag = 1
      BY DEF Sound
    <3>4. have_more_data("encode", x.pps, more) = have_more_data("encode", z.pps, more)
      BY <1>2
    <3> QED BY <1>2, <3>1, <3>2, <3>3, <3>4 DEF InCommon
  <2>2. Follows(es, E(more), A)
    BY <1>1, <2>1, NalUnitFollows
  <2> HIDE DEF A, E
  <2> QED BY <1>1, <2>2, HeldFollows
<1>4. es2 = E(again)
  <2> DEFINE b == E(again)
             K == ToSet(b)
  <2>1. InCommon("encode", z, again, "write", z, FALSE)
    <3>1. /\ t = 7 => ~ Lists444(z.sps)
          /\ t = 15 => ~ Lists444(z.subset)
      BY <1>2 DEF Sound
    <3>2. have_more_data("encode", z.pps, again) = again
      BY DEF have_more_data
    <3> HIDE DEF again
    <3>3. SameFieldFlag(z, z, z.sps) /\ SameFieldFlag(z, z, z.subset) /\ SameInferred(z, z)
      BY DEF SameFieldFlag, SameInferred
    <3>4. have_more_data("write", z.pps, FALSE) = again
      BY DEF again
    <3> QED BY <1>1, <3>1, <3>2, <3>3, <3>4 DEF InCommon
  <2>2. AgreeOn(z, z, K)
    BY DEF AgreeOn, Agree
  <2>3. Follows(b, es2, K)
    <3> HIDE DEF again, K
    <3>1. es2 = NalUnit("write", z, FALSE)
      BY DEF Rewrite
    <3> QED BY <2>1, <2>2, <3>1, NalUnitFollows
  <2>4. Held(b, K)
    <3> HIDE DEF again
    <3>1. IsSeq(b)
      BY FirstElements
    <3> HIDE DEF b
    <3> QED BY <3>1, SeqFacts DEF Held, ToSet
  <2> HIDE DEF b, K
  <2>5. b = es2
    BY <2>3, <2>4, HeldFollows
  <2> QED BY <2>5 DEF b
<1>5. again \in BOOLEAN
  BY DEF have_more_data
<1>6. CASE t # 8
  <2>1. Payload("encode", z, more) = Payload("encode", z, again)
    <3> HIDE DEF again
    <3> QED BY <1>1, <1>6 DEF Payload
  <2>2. E(more) = E(again)
    BY <2>1 DEF NalUnit
  <2> QED BY <1>3, <1>4, <2>2
<1>7. CASE again = more
  BY <1>3, <1>4, <1>7
<1>8. CASE t = 8 /\ again = TRUE /\ more = FALSE
  <2>1. Inferred(x, FALSE)
    BY <1>8 DEF Sound
  <2>2. /\ z.pps.transform_8x8_mode_flag = 0 /\ z.pps.pic_scaling_matrix_present_flag = 0
        /\ z.pps.second_chroma_qp_index_offset = 0
    BY <1>2, <1>8, <2>1 DEF Inferred
  <2>3. again = FALSE
    BY <2>2 DEF have_more_data
  <2> QED BY <1>8, <2>3
<1>9. CASE t = 8 /\ again = FALSE /\ more = TRUE
  <2>1. /\ z.pps.transform_8x8_mode_flag # 1 /\ z.pps.pic_scaling_matrix_present_flag # 1
        /\ z.pps.second_chroma_qp_index_offset = 0
    BY <1>9 DEF have_more_data
  <2>2. z.pps.transform_8x8_mode_flag \in {0, 1} /\ z.pps.pic_scaling_matrix_present_flag \in {0, 1}
    <3>1. "transform_8x8_mode_flag" \in InferredFields("pps")
          /\ "pic_scaling_matrix_present_flag" \in InferredFields("pps")
      BY DEF InferredFields
    <3> QED BY <1>2, <1>9, <3>1, FlagsOfPps
  <2>3. ZerosAtEnd(z.pps)
    BY <2>1, <2>2 DEF ZerosAtEnd
  <2>4. es = NalUnit("encode", z, TRUE) /\ es2 = NalUnit("encode", z, FALSE)
    BY <1>3, <1>4, <1>9
  <2>5. Begins(es2, es)
    <3>1. "encode" # "write"
      OBVIOUS
    <3> QED BY <2>4, <3>1, LessDataBegins
  <2>6. \A s, n : Got(es, Len(es), s, n) => Got(es2, Len(es2), s, n) \/ (s = "pps" /\ n \in EndNames)
    BY <1>1, <1>9, <2>3, <2>4, WithoutEnd DEF ZerosAtEnd
  <2> QED BY <1>9, <2>3, <2>5, <2>6
<1> HIDE DEF again
<1> QED BY <1>5, <1>6, <1>7, <1>8, <1>9

LEMMA RewriteRules ==
  ASSUME NEW z
  PROVE  /\ CodesAgain(z) = CodesOf(Rewrite(z), z, ActiveSps(z))
         /\ IsSeq(Rewrite(z)) /\ Len(Rewrite(z)) >= 2
         /\ Len(Rewrite(z)) \in Nat /\ DOMAIN Rewrite(z) = 1 .. Len(Rewrite(z))
<1>1. CodesAgain(z) = CodesOf(Rewrite(z), z, ActiveSps(z))
  BY DEF CodesAgain, Rewrite, Codes
<1>2. IsSeq(Rewrite(z)) /\ Len(Rewrite(z)) >= 2
  BY FirstElements DEF Rewrite
<1> QED BY <1>1, <1>2, SeqFacts
LEMMA RewriteIsRead ==
  ASSUME NEW z, Ready("write", z, "read", z), NEW es, es = Rewrite(z), HaveFields(es),
         NEW unit, Says(unit, es, z), NEW p, p = Parsed("read", z, unit)
  PROVE  p.ok /\ HasRead(z, z, p.x, es, Len(es))
BY UnitIsRead DEF Rewrite

\* What is written again says what was taken, and is what came if it is all of it.
LEMMA WrittenAgain ==
  ASSUME NEW x, NEW more \in BOOLEAN, NEW unit, OnTheWire(x, more, unit),
         NEW z, HasTaken(x, more, z), NEW es, es = NalUnit("encode", x, more),
         NEW es2, es2 = Rewrite(z), NEW codes, codes = CodesAgain(z)
  PROVE  /\ HaveFields(es2) /\ Says(codes, es2, z)
         /\ es2 = es => Short(Signed(codes)) = Short(Signed(unit))
<1> DEFINE A == {es[i] : i \in 1 .. Len(es)}
<1>1. /\ IsSeq(es) /\ Len(es) \in Nat /\ DOMAIN es = 1 .. Len(es)
      /\ IsSeq(es2) /\ Len(es2) \in Nat /\ DOMAIN es2 = 1 .. Len(es2)
  BY FirstElements, RewriteRules, SeqFacts
<1>2. /\ Sound(x, more) /\ HaveFields(es)
      /\ \A i \in DOMAIN es : Fits(CodingOf(es[i], x, ActiveSps(x)), x[es[i].s][es[i].n])
  BY DEF OnTheWire, Sound
<1>3. AgreeOn(x, z, A)
  BY <1>2, TakenAgrees
<1>4. Len(es2) <= Len(es) /\ \A i \in 1 .. Len(es2) : es2[i] = es[i]
  <2>1. Begins(es2, es)
    <3>1. es2 = es \/ Begins(es2, es)
      BY <1>2, Rewritten
    <3> QED BY <1>1, <3>1, BeginRules
  <2> QED BY <2>1 DEF Begins
<1>5. SameSets(x, z)
  BY DEF HasTaken, Knows, SameSets
<1>6. ASSUME NEW i \in DOMAIN es
      PROVE  /\ CodingOf(es[i], z, ActiveSps(z)) = CodingOf(es[i], x, ActiveSps(x))
             /\ z[es[i].s][es[i].n] = x[es[i].s][es[i].n]
  <2>1. i - 1 \in 0 .. Len(es) - 1 /\ (i - 1) + 1 = i
    BY <1>1
  <2>2. AgreeOn(x, z, {es[j] : j \in 1 .. i - 1})
    <3>1. {es[j] : j \in 1 .. i - 1} \subseteq A
      BY <1>1
    <3> HIDE DEF A
    <3>2. \A s : NamesIn(s, {es[j] : j \in 1 .. i - 1}) \subseteq NamesIn(s, A)
      BY <3>1, NamesInA
    <3> QED BY <1>3, <3>2 DEF AgreeOn, Agree
  <2>3. CodingOf(es[(i - 1) + 1], z, ActiveSps(z)) = CodingOf(es[(i - 1) + 1], x, ActiveSps(x))
    BY <1>2, <1>5, <2>1, <2>2, CodingShared
  <2>4. PICK e : e = es[i]
    OBVIOUS
  <2>5. e.s \in DOMAIN Coding /\ e.n \in DOMAIN Coding[e.s]
    BY <1>2, <2>4 DEF HaveFields
  <2>6. HasElement(x, more, e.s, e.n)
    BY <1>1, <2>4 DEF HasElement, Got
  <2>7. z[e.s][e.n] = x[e.s][e.n]
    BY <2>5, <2>6 DEF HasTaken
  <2> QED BY <2>1, <2>3, <2>4, <2>7
<1>7. HaveFields(es2)
  BY <1>1, <1>2, <1>4 DEF HaveFields
<1>8. \A i \in DOMAIN es2 : Fits(CodingOf(es2[i], z, ActiveSps(z)), z[es2[i].s][es2[i].n])
  <2> TAKE i \in DOMAIN es2
  <2>1. i \in DOMAIN es /\ es2[i] = es[i]
    BY <1>1, <1>4
  <2> QED BY <1>2, <1>6, <2>1
<1>9. codes = CodesOf(es2, z, ActiveSps(z))
  BY RewriteRules
<1>10. Says(codes, es2, z)
  <2>1. codes \in Wires(codes)
    BY DEF Wires
  <2> QED BY <1>1, <1>8, <1>9, <2>1, WireSays
<1>11. ASSUME es2 = es PROVE Short(Signed(codes)) = Short(Signed(unit))
  <2>1. PICK k : k = CodesOf(es, x, ActiveSps(x))
    OBVIOUS
  <2>2. unit \in Wires(k)
    BY <2>1 DEF OnTheWire, Codes
  <2>3. Short(Signed(unit)) = Short(Signed(k))
    BY <1>1, <1>2, <2>1, <2>2, WireSays
  <2>4. codes = k
    BY <1>6, <1>9, <1>11, <2>1 DEF CodesOf
  <2> QED BY <2>3, <2>4
<1> QED BY <1>7, <1>10, <1>11

\* The same elements written again are the same unit.
LEMMA SameAgain ==
  ASSUME NEW x, NEW more \in BOOLEAN, NEW unit, OnTheWire(x, more, unit),
         NEW z, HasTaken(x, more, z)
  PROVE  Rewrite(z) = NalUnit("encode", x, more) =>
           Short(Signed(CodesAgain(z))) = Short(Signed(unit))
<1>1. PICK es : es = NalUnit("encode", x, more)
  OBVIOUS
<1>2. PICK es2 : es2 = Rewrite(z)
  OBVIOUS
<1>3. PICK codes : codes = CodesAgain(z)
  OBVIOUS
<1>4. /\ HaveFields(es2) /\ Says(codes, es2, z)
      /\ es2 = es => Short(Signed(codes)) = Short(Signed(unit))
  BY <1>1, <1>2, <1>3, WrittenAgain
<1> QED BY <1>1, <1>2, <1>3, <1>4

\* A reader who has taken a unit has the header that was sent.
LEMMA TakenHeader ==
  ASSUME NEW x, NEW more, Sound(x, more), NEW z, HasTaken(x, more, z)
  PROVE  /\ z.nal.nal_unit_type = x.nal.nal_unit_type
         /\ x.nal.nal_unit_type = 20 =>
              /\ z.nal.svc_extension_flag = 1
              /\ \A n \in HeaderFieldsUsed : x.nal_svc_ext[n] = z.nal_svc_ext[n]
<1>1. PICK es : es = NalUnit("encode", x, more)
  OBVIOUS
<1> DEFINE A == {es[i] : i \in 1 .. Len(es)}
<1>2. /\ AgreeOn(x, z, A) /\ Held(es, A) /\ z.nal.nal_unit_type = x.nal.nal_unit_type
      /\ x.nal.nal_unit_type = 20 =>
           /\ z.nal.svc_extension_flag = 1
           /\ \A n \in HeaderFieldsUsed : x.nal_svc_ext[n] = z.nal_svc_ext[n]
  BY <1>1, TakenAgrees
<1> QED BY <1>2

\* A reader who has written again what it has taken, and reads that, has what it
\* had.
LEMMA NothingNew ==
  ASSUME NEW x, NEW more \in BOOLEAN, NEW unit, OnTheWire(x, more, unit),
         NEW z, HasTaken(x, more, z), NEW codes, codes = CodesAgain(z),
         NEW p, p = Parsed("read", z, codes)
  PROVE  p.ok /\ p.x = z
<1> DEFINE t == x.nal.nal_unit_type
<1>1. PICK es : es = NalUnit("encode", x, more)
  OBVIOUS
<1>2. PICK es2 : es2 = Rewrite(z)
  OBVIOUS
<1>3. HaveFields(es2) /\ Says(codes, es2, z)
  BY <1>1, <1>2, WrittenAgain
<1>4. /\ Sound(x, more) /\ Inferred(x, more)
      /\ \A s \in Structures(t) : \A n \in DOMAIN Coding[s] :
           HasElement(x, more, s, n) \/ x[s][n] = Empty(s)[n]
      /\ t = 7 => ~ Lists444(x.sps)
      /\ t = 15 => ~ Lists444(x.subset)
  BY DEF OnTheWire, Sound
<1>5. /\ z.nal.nal_unit_type = t
      /\ t = 20 => /\ z.nal.svc_extension_flag = 1
                   /\ \A n \in HeaderFieldsUsed : x.nal_svc_ext[n] = z.nal_svc_ext[n]
  <2>1. Sound(x, more)
    BY <1>4
  <2> QED BY <2>1, TakenHeader
<1>6. Shaped(z) /\ (\A s \in Sets : z[s] = x[s]) /\ \A s \in Structures(t) : z[s] = x[s]
  BY DEF HasTaken, Knows
<1>7. Ready("write", z, "read", z)
  <2>1. z.sps = x.sps /\ z.subset = x.subset
    BY <1>6 DEF Sets
  <2>2. t \in {1, 5, 19, 20} => z.sh = x.sh
    <3>1. t \in {1, 5, 19, 20} => "sh" \in Structures(t)
      BY DEF Structures
    <3> QED BY <1>6, <3>1
  <2>3. t = 20 => z.sh_svc_ext = x.sh_svc_ext
    <3>1. t = 20 => "sh_svc_ext" \in Structures(t)
      BY DEF Structures
    <3> QED BY <1>6, <3>1
  <2>4. t = 20 => z.nal_svc_ext.no_inter_layer_pred_flag = x.nal_svc_ext.no_inter_layer_pred_flag
    BY <1>5 DEF HeaderFieldsUsed
  <2>5. Inferred(z, TRUE)
    BY <1>4, <1>5, <2>1, <2>2, <2>3, <2>4 DEF Inferred
  <2>6. SameSets(z, z)
    BY DEF SameSets
  <2> QED BY <1>4, <1>5, <1>6, <2>1, <2>5, <2>6 DEF Ready
<1>8. p.ok /\ HasRead(z, z, p.x, es2, Len(es2))
  BY <1>2, <1>3, <1>7, RewriteIsRead
<1>9. Len(es2) >= 2
  BY <1>2, RewriteRules
<1>10. ASSUME NEW s \in Structures(t), NEW n \in DOMAIN Coding[s], ~ Got(es2, Len(es2), s, n)
       PROVE  Empty(s)[n] = z[s][n]
  <2>1. CASE ~ Got(es, Len(es), s, n)
    BY <1>1, <1>4, <1>6, <2>1 DEF HasElement
  <2>2. CASE Got(es, Len(es), s, n)
    <3>1. es2 # es
      BY <1>10, <2>2
    <3>2. s = "pps" /\ n \in EndNames /\ ZerosAtEnd(z.pps)
      BY <1>1, <1>2, <1>4, <1>10, <2>2, <3>1, Rewritten
    <3>3. z.pps[n] = 0
      BY <3>2 DEF EndNames, ZerosAtEnd
    <3>4. CASE n = "second_chroma_qp_index_offset"
      <4>1. n \in DOMAIN Coding["pps"] /\ Coding["pps"][n] \in {1, 2, Golomb}
        BY <3>4, PpsFieldsAreNumbers
      <4>2. Coding["pps"][n] # Deltas
        BY <4>1 DEF Golomb, Deltas
      <4>3. Zeros("pps")[n] = 0
        BY <4>1, <4>2 DEF Zeros
      <4> QED BY <3>2, <3>3, <4>3 DEF Empty
    <3>5. CASE n # "second_chroma_qp_index_offset"
      <4>1. n \in InferredFields("pps")
        BY <3>2, <3>5 DEF EndNames, InferredFields
      <4>2. Empty("pps")[n] = 0
        BY <4>1, InferredAreEmpty
      <4> QED BY <3>2, <3>3, <4>2
    <3> QED BY <3>4, <3>5
  <2> QED BY <2>1, <2>2
<1>11. \A s \in DOMAIN Coding : \A n \in DOMAIN Coding[s] : p.x[s][n] = z[s][n]
  <2> TAKE s \in DOMAIN Coding
  <2> TAKE n \in DOMAIN Coding[s]
  <2>1. p.x[s][n] = IF Got(es2, Len(es2), s, n) THEN z[s][n]
                    ELSE IF Len(es2) >= 2 /\ s \in Structures(z.nal.nal_unit_type) THEN Empty(s)[n]
                    ELSE z[s][n]
    BY <1>8 DEF HasRead
  <2> QED BY <1>5, <1>10, <2>1
<1>12. Shaped(p.x)
  BY <1>8 DEF HasRead
<1> QED BY <1>6, <1>8, <1>11, <1>12, ShapedRules

(***************************************************************************)
(* The invariant.                                                          *)
(***************************************************************************)

\* All three sides start from the same new stream.
LEMMA NewIsShaped == Shaped(h264_new)
<1> DEFINE x == h264_new
<1>1. x = [s \in DOMAIN Coding |-> x[s]] /\ \A s \in DOMAIN Coding : x[s] = Zeros(s)
  BY DEF h264_new
<1>2. \A s : Zeros(s) = [n \in DOMAIN Coding[s] |-> Zeros(s)[n]]
  BY DEF Zeros
<1> HIDE DEF x
<1>3. \A s \in DOMAIN Coding : x[s] = [n \in DOMAIN Coding[s] |-> x[s][n]]
  BY <1>1, <1>2
<1>4. Shaped(x)
  BY <1>1, <1>3 DEF Shaped
<1> QED BY <1>4 DEF x

LEMMA InitInvariant == Init => IInv
<1> SUFFICES ASSUME Init PROVE IInv
  OBVIOUS
<1>1. \A x : Shaped(x) => Knows(x, x)
  BY DEF Knows
<1>2. Shaped(enc) /\ Knows(enc, h) /\ Knows(enc, d)
  BY <1>1, NewIsShaped DEF Init
<1> QED BY <1>2 DEF Init, IInv

\* The invariant is kept by each of the steps.
LEMMA EncodeStep ==
  ASSUME IInv, Encode, Sendable'
  PROVE  IInv'
<1>1. /\ turn = "encode" /\ sent < Len(Streams[stream]) /\ sent \in Nat
      /\ stream \in DOMAIN Streams /\ in_step = TRUE /\ Shaped(enc)
      /\ Knows(enc, h) /\ Knows(enc, d)
  BY DEF Encode, IInv
<1>2. /\ sent' = sent + 1 /\ out' = <<>> /\ turn' = "read"
      /\ stream' = stream /\ h' = h /\ d' = d /\ in_step' = in_step
  BY DEF Encode
<1>3. PICK more \in Streams[stream][sent + 1].tail : \E x :
        /\ Writable(x, more) /\ enc' = x /\ tail' = more
        /\ \/ wire' = Codes("encode", x, more)
           \/ wire' = Signed(Codes("encode", x, more))
           \/ wire' = Short(Signed(Codes("encode", x, more)))
  BY DEF Encode
<1>4. PICK x : /\ Writable(x, more) /\ enc' = x /\ tail' = more
               /\ wire' \in Wires(Codes("encode", x, more))
  BY <1>3 DEF Wires
<1>5. more \in BOOLEAN
  <2>1. Len(Streams[stream]) \in Nat
    BY <1>1, TailsAreFlags
  <2>2. sent + 1 \in 1 .. Len(Streams[stream])
    BY <1>1, <2>1
  <2>3. Streams[stream][sent + 1].tail \subseteq BOOLEAN
    BY <1>1, <2>2, TailsAreFlags
  <2> QED BY <2>3
<1>6. WrittenAfter(enc, x, more)
  BY <1>4 DEF Writable, WrittenAfter
<1>7. LET type == x.nal.nal_unit_type
      IN /\ type = 7 => ~ Lists444(x.sps)
         /\ type = 15 => ~ Lists444(x.subset)
         /\ type = 15 => \A n \in SvcFieldsOfSlices :
              \/ HasElement(x, more, "sps_svc_ext", n)
              \/ h.sps_svc_ext[n] = x.sps_svc_ext[n] /\ d.sps_svc_ext[n] = x.sps_svc_ext[n]
         /\ type = 20 => x.nal.svc_extension_flag = 1
  <2>1. Sendable'
    OBVIOUS
  <2> QED BY <1>2, <1>4, <2>1 DEF Sendable
<1>8. /\ Sound(x, more)
      /\ \A w : /\ Knows(enc, w)
                /\ x.nal.nal_unit_type = 15 => \A n \in SvcFieldsOfSlices :
                     HasElement(x, more, "sps_svc_ext", n) \/ w.sps_svc_ext[n] = x.sps_svc_ext[n]
                => Awaits(x, more, w)
  BY <1>1, <1>6, <1>7, UnitIsWritten
<1>9. Awaits(x, more, h) /\ Awaits(x, more, d)
  BY <1>1, <1>7, <1>8
<1>10. OnTheWire(x, more, wire')
  BY <1>4, <1>8 DEF OnTheWire
<1>11. Shaped(x)
  BY <1>8 DEF Sound
<1>12. sent + 1 \in Nat
  BY <1>1
<1> QED BY <1>1, <1>2, <1>4, <1>5, <1>9, <1>10, <1>11, <1>12 DEF IInv

LEMMA ReadStep ==
  ASSUME IInv, ReadNalUnit
  PROVE  IInv'
<1>1. /\ turn = "read" /\ OnTheWire(enc, tail, wire) /\ out = <<>>
      /\ Awaits(enc, tail, h) /\ Awaits(enc, tail, d) /\ in_step = TRUE
  BY DEF ReadNalUnit, IInv
<1>2. PICK p : p = Parsed("read", h, wire)
  OBVIOUS
<1>3. h' = p.x /\ in_step' = (in_step /\ p.ok) /\ turn' = "debug"
      /\ UNCHANGED <<stream, sent, enc, tail, wire, d, out>>
  BY <1>2 DEF ReadNalUnit
<1>4. p.ok /\ HasTaken(enc, tail, p.x)
  BY <1>1, <1>2, UnitIsTaken
<1>5. in_step' = TRUE
  BY <1>1, <1>3, <1>4
<1> QED BY <1>1, <1>3, <1>4, <1>5 DEF IInv

LEMMA DebugStep ==
  ASSUME IInv, ReadDebugNalUnit
  PROVE  IInv'
<1>1. /\ turn = "debug" /\ OnTheWire(enc, tail, wire) /\ out = <<>>
      /\ HasTaken(enc, tail, h) /\ Awaits(enc, tail, d) /\ in_step = TRUE
  BY DEF ReadDebugNalUnit, IInv
<1>2. PICK p : p = Parsed("debug", d, wire)
  OBVIOUS
<1>3. d' = p.x /\ in_step' = (in_step /\ p.ok) /\ turn' = "write"
      /\ UNCHANGED <<stream, sent, enc, tail, wire, h, out>>
  BY <1>2 DEF ReadDebugNalUnit
<1>4. p.ok /\ HasTaken(enc, tail, p.x)
  BY <1>1, <1>2, UnitIsTaken
<1>5. in_step' = TRUE
  BY <1>1, <1>3, <1>4
<1> QED BY <1>1, <1>3, <1>4, <1>5 DEF IInv

LEMMA WriteStep ==
  ASSUME IInv, WriteNalUnit
  PROVE  IInv'
<1>1. /\ turn = "write" /\ OnTheWire(enc, tail, wire)
      /\ HasTaken(enc, tail, h) /\ HasTaken(enc, tail, d)
  BY DEF WriteNalUnit, IInv
<1>2. /\ turn' = "encode" /\ UNCHANGED <<stream, sent, enc, tail, wire, h, d, in_step>>
      /\ out' # <<>> => out' = Codes("write", h, FALSE)
  BY DEF WriteNalUnit
<1>3. Knows(enc, h) /\ Knows(enc, d)
  BY <1>1 DEF HasTaken
<1> QED BY <1>1, <1>2, <1>3 DEF IInv

\* And so by all of them.
LEMMA NextInvariant == IInv /\ Sendable' /\ [Next]_vars => IInv'
<1> SUFFICES ASSUME IInv, Sendable', [Next]_vars PROVE IInv'
  OBVIOUS
<1>1. CASE Encode
  BY <1>1, EncodeStep
<1>2. CASE ReadNalUnit
  BY <1>2, ReadStep
<1>3. CASE ReadDebugNalUnit
  BY <1>3, DebugStep
<1>4. CASE WriteNalUnit
  BY <1>4, WriteStep
<1>5. CASE UNCHANGED vars
  BY <1>5 DEF IInv, vars
<1> QED BY <1>1, <1>2, <1>3, <1>4, <1>5 DEF Next

\* As long as units are sendable, readers know the sets of the writer between
\* units, await the unit on the wire, and have taken it after their turn.
THEOREM ReadersKeepStep == Spec /\ []Sendable => []IInv
<1>1. Init => IInv
  BY InitInvariant
<1>2. IInv /\ Sendable' /\ [Next]_vars => IInv'
  BY NextInvariant
<1> QED BY <1>1, <1>2, PTL DEF Spec

\* Both readers take the fields of each unit as they were written.
THEOREM FieldsAreReadAsWritten == Spec /\ []Sendable => []ReadAsWritten
<1>1. ASSUME IInv PROVE ReadAsWritten
  <2>1. ASSUME NEW x \in Readers PROVE in_step /\ HasTaken(enc, tail, x) /\ Sound(enc, tail)
    <3>1. CASE turn = "debug"
      BY <1>1, <2>1, <3>1 DEF Readers, IInv, OnTheWire
    <3>2. CASE turn = "write"
      BY <1>1, <2>1, <3>2 DEF Readers, IInv, OnTheWire
    <3> QED BY <2>1, <3>1, <3>2 DEF Readers
  <2>2. ASSUME NEW x \in Readers, NEW e \in Sent PROVE x[e.s][e.n] = enc[e.s][e.n]
    <3>1. PICK es : es = NalUnit("encode", enc, tail)
      OBVIOUS
    <3>2. DOMAIN es = 1 .. Len(es)
      BY <3>1, FirstElements, SeqFacts
    <3>3. PICK i \in 1 .. Len(es) : es[i] = e
      BY <2>2, <3>1, <3>2 DEF Sent, ToSet
    <3>4. HasElement(enc, tail, e.s, e.n)
      BY <3>1, <3>3 DEF HasElement, Got
    <3>5. e.s \in DOMAIN Coding /\ e.n \in DOMAIN Coding[e.s]
      BY <2>1, <3>1, <3>2, <3>3 DEF Sound, HaveFields
    <3> QED BY <2>1, <3>4, <3>5 DEF HasTaken
  <2> QED BY <2>1, <2>2 DEF ReadAsWritten
<1> QED BY <1>1, ReadersKeepStep, PTL

\* Fields that a unit does not hold are those of a writer who never filled them in.
THEOREM NothingIsLeftOver == Spec /\ []Sendable => []NothingLeftOver
<1>1. ASSUME IInv PROVE NothingLeftOver
  <2>1. ASSUME NEW x \in Readers PROVE HasTaken(enc, tail, x) /\ Sound(enc, tail)
    <3>1. CASE turn = "debug"
      BY <1>1, <2>1, <3>1 DEF Readers, IInv, OnTheWire
    <3>2. CASE turn = "write"
      BY <1>1, <2>1, <3>2 DEF Readers, IInv, OnTheWire
    <3> QED BY <2>1, <3>1, <3>2 DEF Readers
  <2>2. ASSUME NEW x \in Readers, NEW s \in Structures(x.nal.nal_unit_type) PROVE x[s] = enc[s]
    <3>1. x.nal.nal_unit_type = enc.nal.nal_unit_type
      BY <2>1, TakenHeader
    <3> QED BY <2>1, <2>2, <3>1 DEF HasTaken
  <2> QED BY <2>2 DEF NothingLeftOver
<1> QED BY <1>1, ReadersKeepStep, PTL

\* A unit that was read is written again as it came, but for an optional end of
\* zeros of a PPS.
THEOREM UnitsAreWrittenBack == Spec /\ []Sendable => []WrittenBack
<1>1. ASSUME IInv PROVE WrittenBack
  <2>1. SUFFICES ASSUME out # <<>>
                 PROVE  Short(Signed(out)) = Short(Signed(wire)) \/ TailOfZeros
    BY DEF WrittenBack
  <2>2. /\ OnTheWire(enc, tail, wire) /\ HasTaken(enc, tail, h)
        /\ out = CodesAgain(h) /\ tail \in BOOLEAN
    BY <1>1, <2>1 DEF IInv, CodesAgain
  <2>3. PICK es : es = NalUnit("encode", enc, tail)
    OBVIOUS
  <2>4. PICK es2 : es2 = Rewrite(h)
    OBVIOUS
  <2>5. es2 = es => Short(Signed(out)) = Short(Signed(wire))
    <3>1. Rewrite(h) = NalUnit("encode", enc, tail) =>
            Short(Signed(CodesAgain(h))) = Short(Signed(wire))
      BY <2>2, SameAgain
    <3> QED BY <2>2, <2>3, <2>4, <3>1
  <2>6. Sound(enc, tail)
    BY <2>2 DEF OnTheWire
  <2>7. es2 = es \/ (enc.nal.nal_unit_type = 8 /\ tail /\ ZerosAtEnd(h.pps))
    BY <2>2, <2>3, <2>4, <2>6, Rewritten
  <2>8. h.nal.nal_unit_type = enc.nal.nal_unit_type
    BY <2>2, <2>6, TakenHeader
  <2> QED BY <2>5, <2>7, <2>8 DEF TailOfZeros, ZerosAtEnd
<1> QED BY <1>1, ReadersKeepStep, PTL

\* Reading again what was written from what was read brings nothing new.
THEOREM UnitsSettle == Spec /\ []Sendable => []Settled
<1>1. ASSUME IInv PROVE Settled
  <2>1. SUFFICES ASSUME out # <<>>
                 PROVE  Parsed("read", h, out).ok /\ Parsed("read", h, out).x = h
    BY DEF Settled
  <2>2. /\ OnTheWire(enc, tail, wire) /\ HasTaken(enc, tail, h)
        /\ out = CodesAgain(h) /\ tail \in BOOLEAN
    BY <1>1, <2>1 DEF IInv, CodesAgain
  <2> QED BY <2>2, NothingNew
<1> QED BY <1>1, ReadersKeepStep, PTL
=============================================================================
