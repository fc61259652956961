--------------------------- MODULE PayloadProofs ---------------------------
(***************************************************************************)
(* Proofs about what a unit has after its header: fields, in BitStream,    *)
(* for every width of an int, size of the buffer and set of fields; and a  *)
(* slice, in SliceLayer, for headers and data of any lengths.              *)
(***************************************************************************)
EXTENDS BitStream, SliceLayer, SequenceTheorems, WellFoundedInduction, TLAPS

(***************************************************************************)
(* Powers of two, shifts, and the numbers that bits make.                  *)
(***************************************************************************)

\* Induction over the naturals, for a set of them, and up to a bound.
LEMMA Induction ==
  ASSUME NEW S, 0 \in S, \A n \in Nat : n \in S => n + 1 \in S
  PROVE  Nat \subseteq S
<1> SUFFICES ASSUME Nat \ S # {} PROVE FALSE
  OBVIOUS
<1>1. PICK m \in Nat \ S : \A y \in Nat \ S : <<y, m>> \notin OpToRel(<, Nat)
  BY NatLessThanWellFounded, WFMin
<1>2. \A y \in Nat : y < m => <<y, m>> \in OpToRel(<, Nat)
  BY DEF OpToRel
<1>3. m # 0 /\ m - 1 \in Nat /\ m - 1 < m
  OBVIOUS
<1>4. m - 1 \in S
  BY <1>1, <1>2, <1>3
<1> QED BY <1>3, <1>4

LEMMA BoundedInduction ==
  ASSUME NEW N \in Nat, NEW S, 0 \in S,
         \A n \in 0 .. N - 1 : n \in S => n + 1 \in S
  PROVE  \A n \in 0 .. N : n \in S
<1> DEFINE T == {n \in Nat : n <= N => n \in S}
<1>1. 0 \in T
  OBVIOUS
<1>2. ASSUME NEW n \in Nat, n \in T PROVE n + 1 \in T
  BY <1>2
<1>3. Nat \subseteq T
  <2> HIDE DEF T
  <2> QED BY <1>1, <1>2, Induction
<1> QED BY <1>3

\* The least of some naturals.
LEMMA MinOf ==
  ASSUME NEW S, S \subseteq Nat, NEW x \in S
  PROVE  Min(S) \in S /\ \A y \in S : Min(S) <= y
<1>1. PICK m \in S : \A y \in S : <<y, m>> \notin OpToRel(<, Nat)
  BY NatLessThanWellFounded, WFMin
<1>2. ASSUME NEW y \in S PROVE m <= y
  <2>1. \A z \in Nat : z < m => <<z, m>> \in OpToRel(<, Nat)
    BY DEF OpToRel
  <2>2. y \in Nat /\ m \in Nat /\ ~(y < m)
    BY <1>1, <2>1
  <2> QED BY <2>2
<1> QED BY <1>2 DEF Min

\* A function may be defined by its first value and each next one.
LEMMA Recursion ==
  ASSUME NEW N \in Nat, NEW V, NEW a \in V, NEW F \in [1 .. N -> [V -> V]]
  PROVE  \E g \in [0 .. N -> V] :
           g[0] = a /\ \A k \in 1 .. N : g[k] = F[k][g[k - 1]]
<1> DEFINE To(n, g) == /\ g \in [0 .. n -> V] /\ g[0] = a
                       /\ \A k \in 1 .. n : g[k] = F[k][g[k - 1]]
           S == {n \in Nat : \E g : To(n, g)}
<1>1. 0 \in S
  <2>1. To(0, [k \in 0 .. 0 |-> a])
    OBVIOUS
  <2> QED BY <2>1
<1>2. ASSUME NEW n \in 0 .. N - 1, n \in S PROVE n + 1 \in S
  <2>1. PICK g : To(n, g)
    BY <1>2
  <2> DEFINE e == F[n + 1][g[n]]
             h == [k \in 0 .. n + 1 |-> IF k <= n THEN g[k] ELSE e]
  <2>2. e \in V
    BY <2>1
  <2> HIDE DEF e
  <2>3. /\ h \in [0 .. n + 1 -> V] /\ h[n + 1] = e
        /\ \A k \in 0 .. n : h[k] = g[k]
    BY <2>1, <2>2
  <2> HIDE DEF h
  <2>4. ASSUME NEW k \in 1 .. n + 1 PROVE h[k] = F[k][h[k - 1]]
    <3>1. CASE k = n + 1
      <4>1. k - 1 = n /\ h[k - 1] = g[n]
        BY <2>3, <3>1
      <4> QED BY <2>3, <3>1, <4>1 DEF e
    <3>2. CASE k \in 1 .. n
      <4>1. h[k - 1] = g[k - 1] /\ h[k] = g[k]
        BY <2>3, <3>2
      <4> QED BY <2>1, <3>2, <4>1
    <3>3. k = n + 1 \/ k \in 1 .. n
      OBVIOUS
    <3> QED BY <3>1, <3>2, <3>3
  <2>5. To(n + 1, h)
    BY <2>1, <2>3, <2>4
  <2> HIDE DEF To
  <2> QED BY <2>5
<1>3. \A n \in 0 .. N : n \in S
  <2> HIDE DEF S
  <2> QED BY <1>1, <1>2, BoundedInduction
<1>4. \E g : To(N, g)
  <2> HIDE DEF To
  <2> QED BY <1>3
<1> QED BY <1>4

LEMMA NaturalRecursion ==
  ASSUME NEW N \in Nat, NEW a \in Nat, NEW F \in [1 .. N -> [Nat -> Nat]]
  PROVE  \E g \in [0 .. N -> Nat] :
           g[0] = a /\ \A k \in 1 .. N : g[k] = F[k][g[k - 1]]
<1> DEFINE V == Nat
<1>1. a \in V /\ F \in [1 .. N -> [V -> V]]
  OBVIOUS
<1>2. ASSUME NEW g, g \in [0 .. N -> V] PROVE g \in [0 .. N -> Nat]
  BY <1>2
<1> HIDE DEF V
<1>3. \E g \in [0 .. N -> V] : g[0] = a /\ \A k \in 1 .. N : g[k] = F[k][g[k - 1]]
  <2> DEFINE Runs(W) == \A b \in W : \A G \in [1 .. N -> [W -> W]] :
        \E g \in [0 .. N -> W] : g[0] = b /\ \A k \in 1 .. N : g[k] = G[k][g[k - 1]]
  <2>1. \A W : Runs(W)
    BY Recursion, Zenon
  <2>2. Runs(V)
    <3> HIDE DEF Runs
    <3> QED BY <2>1
  <2> QED BY <1>1, <2>2, Zenon
<1> QED BY <1>2, <1>3

LEMMA Pow2Defined ==
  /\ Pow2 \in [0 .. Width -> Nat]
  /\ Pow2[0] = 1
  /\ \A k \in 1 .. Width : Pow2[k] = 2 * Pow2[k - 1]
<1> DEFINE F == [k \in 1 .. Width |-> [v \in Nat |-> 2 * v]]
           Eqn(g) == g = [k \in 0 .. Width |-> IF k = 0 THEN 1 ELSE 2 * g[k - 1]]
<1>0. Width \in Nat /\ 1 \in Nat /\ Width >= 1
  BY IntWidth
<1>1. F \in [1 .. Width -> [Nat -> Nat]]
  OBVIOUS
<1>2. \A k \in 1 .. Width, v \in Nat : F[k][v] = 2 * v
  OBVIOUS
<1> HIDE DEF F
<1>3. PICK g \in [0 .. Width -> Nat] :
        g[0] = 1 /\ \A k \in 1 .. Width : g[k] = F[k][g[k - 1]]
  BY <1>0, <1>1, NaturalRecursion, ZenonT(40)
<1>4. ASSUME NEW k \in 1 .. Width PROVE g[k] = 2 * g[k - 1]
  <2>1. k - 1 \in 0 .. Width
    BY <1>0
  <2>2. g[k - 1] \in Nat
    BY <1>3, <2>1
  <2> QED BY <1>2, <1>3, <2>2
<1>5. Eqn(g)
  <2> DEFINE h == [k \in 0 .. Width |-> IF k = 0 THEN 1 ELSE 2 * g[k - 1]]
  <2>1. ASSUME NEW k \in 0 .. Width PROVE g[k] = h[k]
    <3>1. CASE k = 0
      BY <1>3, <3>1
    <3>2. CASE k # 0
      <4>1. k \in 1 .. Width
        BY <1>0, <3>2
      <4> QED BY <1>4, <3>2, <4>1
    <3> QED BY <3>1, <3>2
  <2>2. DOMAIN g = DOMAIN h
    BY <1>3
  <2> QED BY <1>3, <2>1, <2>2
<1>6. Pow2 = CHOOSE f : Eqn(f)
  BY DEF Pow2
<1>7. Pow2 = [k \in 0 .. Width |-> IF k = 0 THEN 1 ELSE 2 * Pow2[k - 1]]
  <2>1. Eqn(Pow2)
    <3> HIDE DEF Eqn
    <3> QED BY <1>5, <1>6
  <2> QED BY <2>1
<1>8. Pow2[0] = 1 /\ \A k \in 1 .. Width : Pow2[k] = 2 * Pow2[k - 1]
  <2>1. ASSUME NEW k \in 1 .. Width PROVE Pow2[k] = 2 * Pow2[k - 1]
    <3>1. k \in 0 .. Width /\ k # 0
      BY <1>0
    <3> QED BY <1>7, <3>1
  <2> QED BY <1>0, <1>7, <2>1
<1>9. \A k \in 0 .. Width : Pow2[k] \in Nat
  <2> DEFINE S == {k \in Nat : Pow2[k] \in Nat}
  <2>1. 0 \in S
    BY <1>8
  <2>2. ASSUME NEW n \in 0 .. Width - 1, n \in S PROVE n + 1 \in S
    <3>1. n + 1 \in 1 .. Width /\ n + 1 - 1 = n
      BY <1>0
    <3> QED BY <1>8, <2>2, <3>1
  <2>3. \A n \in 0 .. Width : n \in S
    <3> HIDE DEF S
    <3> QED BY <1>0, <2>1, <2>2, BoundedInduction
  <2> QED BY <2>3
<1> QED BY <1>7, <1>8, <1>9

LEMMA PowersGrow ==
  /\ \A k \in 0 .. Width : Pow2[k] \in Nat /\ Pow2[k] >= 1
  /\ \A j, k \in 0 .. Width : j <= k => Pow2[j] <= Pow2[k]
<1>0. Width \in Nat
  BY IntWidth
<1>1. \A k \in 0 .. Width : Pow2[k] \in Nat
  BY Pow2Defined
<1>2. \A k \in 0 .. Width : Pow2[k] >= 1
  <2> DEFINE S == {k \in Nat : Pow2[k] >= 1}
  <2>1. 0 \in S
    BY Pow2Defined
  <2>2. ASSUME NEW n \in 0 .. Width - 1, n \in S PROVE n + 1 \in S
    <3>1. n + 1 \in 1 .. Width /\ n + 1 - 1 = n /\ n \in 0 .. Width
      BY <1>0
    <3> QED BY Pow2Defined, <1>1, <2>2, <3>1
  <2>3. \A n \in 0 .. Width : n \in S
    <3> HIDE DEF S
    <3> QED BY <1>0, <2>1, <2>2, BoundedInduction
  <2> QED BY <2>3
<1>3. ASSUME NEW j \in 0 .. Width
      PROVE  \A k \in 0 .. Width : j <= k => Pow2[j] <= Pow2[k]
  <2> DEFINE S == {k \in Nat : j <= k => Pow2[j] <= Pow2[k]}
  <2>1. 0 \in S
    <3>1. j <= 0 => j = 0
      OBVIOUS
    <3> QED BY <3>1, <1>1, <1>0
  <2>2. ASSUME NEW n \in 0 .. Width - 1, n \in S PROVE n + 1 \in S
    <3>1. n + 1 \in 1 .. Width /\ n + 1 - 1 = n /\ n \in 0 .. Width /\ n \in Nat
      BY <1>0
    <3>2. Pow2[n + 1] = 2 * Pow2[n] /\ Pow2[n] \in Nat /\ Pow2[j] \in Nat
      BY Pow2Defined, <1>1, <3>1
    <3>3. CASE j <= n
      BY <2>2, <3>1, <3>2, <3>3
    <3>4. CASE j = n + 1
      BY <3>1, <3>2, <3>4
    <3>5. CASE j > n + 1
      BY <3>1, <3>5
    <3> QED BY <3>1, <3>3, <3>4, <3>5
  <2>3. \A n \in 0 .. Width : n \in S
    <3> HIDE DEF S
    <3> QED BY <1>0, <2>1, <2>2, BoundedInduction
  <2> QED BY <2>3
<1> QED BY <1>1, <1>2, <1>3

LEMMA ShiftedDefined ==
  ASSUME NEW v \in Nat
  PROVE  /\ Shifted(v) \in [0 .. Width -> Nat]
         /\ Shifted(v)[0] = v
         /\ \A k \in 1 .. Width : Shifted(v)[k] = Shifted(v)[k - 1] \div 2
<1> DEFINE F == [k \in 1 .. Width |-> [x \in Nat |-> x \div 2]]
           Eqn(g) == g = [k \in 0 .. Width |-> IF k = 0 THEN v ELSE g[k - 1] \div 2]
           R == Shifted(v)
<1>0. Width \in Nat /\ Width >= 1
  BY IntWidth
<1>1. F \in [1 .. Width -> [Nat -> Nat]]
  <2>1. \A x \in Nat : x \div 2 \in Nat
    OBVIOUS
  <2> QED BY <2>1
<1>2. \A k \in 1 .. Width, x \in Nat : F[k][x] = x \div 2
  OBVIOUS
<1> HIDE DEF F
<1>3. PICK g \in [0 .. Width -> Nat] :
        g[0] = v /\ \A k \in 1 .. Width : g[k] = F[k][g[k - 1]]
  BY <1>0, <1>1, NaturalRecursion, ZenonT(40)
<1>4. ASSUME NEW k \in 1 .. Width PROVE g[k] = g[k - 1] \div 2
  <2>1. k - 1 \in 0 .. Width
    BY <1>0
  <2>2. g[k - 1] \in Nat
    BY <1>3, <2>1
  <2> QED BY <1>2, <1>3, <2>2
<1>5. Eqn(g)
  <2> DEFINE h == [k \in 0 .. Width |-> IF k = 0 THEN v ELSE g[k - 1] \div 2]
  <2>1. ASSUME NEW k \in 0 .. Width PROVE g[k] = h[k]
    <3>1. CASE k = 0
      BY <1>3, <3>1
    <3>2. CASE k # 0
      <4>1. k \in 1 .. Width
        BY <1>0, <3>2
      <4> QED BY <1>4, <3>2, <4>1
    <3> QED BY <3>1, <3>2
  <2>2. DOMAIN g = DOMAIN h
    BY <1>3
  <2> QED BY <1>3, <2>1, <2>2
<1>6. R = CHOOSE f : Eqn(f)
  BY DEF Shifted
<1> HIDE DEF R
<1>7. R = [k \in 0 .. Width |-> IF k = 0 THEN v ELSE R[k - 1] \div 2]
  <2>1. Eqn(R)
    <3> HIDE DEF Eqn
    <3> QED BY <1>5, <1>6
  <2> QED BY <2>1
<1>8. R[0] = v /\ \A k \in 1 .. Width : R[k] = R[k - 1] \div 2
  <2>1. ASSUME NEW k \in 1 .. Width PROVE R[k] = R[k - 1] \div 2
    <3>1. k \in 0 .. Width /\ k # 0
      BY <1>0
    <3> QED BY <1>7, <3>1
  <2> QED BY <1>0, <1>7, <2>1
<1>9. \A k \in 0 .. Width : R[k] \in Nat
  <2> DEFINE S == {k \in Nat : R[k] \in Nat}
  <2>1. 0 \in S
    BY <1>8
  <2>2. ASSUME NEW n \in 0 .. Width - 1, n \in S PROVE n + 1 \in S
    <3>1. n + 1 \in 1 .. Width /\ n + 1 - 1 = n
      BY <1>0
    <3> QED BY <1>8, <2>2, <3>1
  <2>3. \A n \in 0 .. Width : n \in S
    <3> HIDE DEF S
    <3> QED BY <1>0, <2>1, <2>2, BoundedInduction
  <2> QED BY <2>3
<1>10. R \in [0 .. Width -> Nat]
  BY <1>7, <1>9
<1> QED BY <1>8, <1>10 DEF R

LEMMA Halving ==
  ASSUME NEW x \in Nat, NEW y \in Nat
  PROVE  /\ x < 2 * y => x \div 2 < y
         /\ x >= 2 * y => x \div 2 >= y
         /\ x = 2 * (x \div 2) + (x % 2)
         /\ x % 2 \in {0, 1} /\ x \div 2 \in Nat
OBVIOUS

LEMMA SmallModulo ==
  ASSUME NEW x \in Nat, NEW y \in Nat, x < y
  PROVE  x % y = x
<1> DEFINE q == x \div y
           r == x % y
<1>1. q \in Int /\ r \in Int /\ x = y * q + r /\ 0 <= r /\ r < y
  OBVIOUS
<1> HIDE DEF q, r
<1>2. CASE q = 0
  <2>1. x = r
    BY <1>1, <1>2
  <2> QED BY <2>1 DEF r
<1>3. CASE q >= 1
  <2>1. \A a, b \in Nat : a * b \in Nat
    OBVIOUS
  <2>2. q - 1 \in Nat /\ y * q = y + y * (q - 1)
    BY <1>1, <1>3
  <2>3. y * (q - 1) \in Nat
    BY <2>1, <2>2
  <2> QED BY <1>1, <2>2, <2>3
<1>4. CASE q <= -1
  <2>1. \A a, b \in Nat : a * b \in Nat
    OBVIOUS
  <2>2. -q - 1 \in Nat /\ y * q = -y - y * (-q - 1)
    BY <1>1, <1>4
  <2>3. y * (-q - 1) \in Nat
    BY <2>1, <2>2
  <2> QED BY <1>1, <2>2, <2>3
<1> QED BY <1>1, <1>2, <1>3, <1>4

\* What is left of a number of n bits after k shifts has n - k bits.
LEMMA ShiftedBounds ==
  ASSUME NEW v \in Nat, NEW n \in 0 .. Width, NEW k \in 0 .. n
  PROVE  /\ v < Pow2[n] => Shifted(v)[k] < Pow2[n - k]
         /\ v >= Pow2[n] => Shifted(v)[k] >= Pow2[n - k]
         /\ v < 2 * Pow2[n] => Shifted(v)[k] < 2 * Pow2[n - k]
<1> DEFINE R == Shifted(v)
           Below(c) == v < Pow2[n] => R[c] < Pow2[n - c]
           Above(c) == v >= Pow2[n] => R[c] >= Pow2[n - c]
           Twice(c) == v < 2 * Pow2[n] => R[c] < 2 * Pow2[n - c]
           S == {c \in Nat : Below(c) /\ Above(c) /\ Twice(c)}
<1>0. Width \in Nat /\ n \in Nat
  BY IntWidth
<1>1. R \in [0 .. Width -> Nat] /\ R[0] = v
      /\ \A c \in 1 .. Width : R[c] = R[c - 1] \div 2
  BY ShiftedDefined
<1> HIDE DEF R
<1>2. 0 \in S
  BY <1>0, <1>1
<1>3. ASSUME NEW c \in 0 .. n - 1, c \in S PROVE c + 1 \in S
  <2>1. /\ c + 1 \in 1 .. Width /\ c + 1 - 1 = c /\ c \in 0 .. Width /\ c + 1 \in Nat
        /\ n - c \in 1 .. Width /\ n - (c + 1) = n - c - 1 /\ n - c - 1 \in 0 .. Width
    BY <1>0
  <2>2. R[c + 1] = R[c] \div 2 /\ R[c] \in Nat
    BY <1>1, <2>1, SMTT(30)
  <2>3. Pow2[n - c] = 2 * Pow2[n - c - 1] /\ Pow2[n - c - 1] \in Nat
    BY Pow2Defined, <2>1
  <2> DEFINE x == R[c]
             y == Pow2[n - c - 1]
  <2>4. R[c + 1] = x \div 2 /\ Pow2[n - c] = 2 * y /\ Pow2[n - (c + 1)] = y
        /\ x \in Nat /\ y \in Nat
    BY <2>1, <2>2, <2>3
  <2>5. Below(c) /\ Above(c) /\ Twice(c)
    BY <1>3
  <2> HIDE DEF x, y
  <2>6. /\ x < 2 * y => x \div 2 < y
        /\ x >= 2 * y => x \div 2 >= y
        /\ x < 2 * (2 * y) => x \div 2 < 2 * y
    BY <2>4, Halving
  <2>7. Below(c + 1)
    BY <2>4, <2>5, <2>6 DEF x
  <2>8. Above(c + 1)
    BY <2>4, <2>5, <2>6 DEF x
  <2>9. Twice(c + 1)
    BY <2>4, <2>5, <2>6 DEF x
  <2> QED BY <2>1, <2>7, <2>8, <2>9
<1>4. \A c \in 0 .. n : c \in S
  <2> HIDE DEF S
  <2> QED BY <1>0, <1>2, <1>3, BoundedInduction
<1> QED BY <1>4 DEF R

LEMMA NumbersDefined ==
  ASSUME NEW at \in Nat, \A q \in Nat : BitAt(q) \in {0, 1}
  PROVE  /\ Numbers(at) \in [0 .. Width -> Nat]
         /\ Numbers(at)[0] = 0
         /\ \A k \in 1 .. Width : Numbers(at)[k] = 2 * Numbers(at)[k - 1] + BitAt(at + k - 1)
<1> DEFINE F == [k \in 1 .. Width |-> [x \in Nat |-> 2 * x + BitAt(at + k - 1)]]
           Eqn(g) == g = [k \in 0 .. Width |-> IF k = 0 THEN 0 ELSE 2 * g[k - 1] + BitAt(at + k - 1)]
           R == Numbers(at)
<1>0. Width \in Nat /\ Width >= 1
  BY IntWidth
<1>10. \A k \in 1 .. Width : BitAt(at + k - 1) \in Nat
  BY <1>0
<1>1. F \in [1 .. Width -> [Nat -> Nat]]
  <2>1. ASSUME NEW k \in 1 .. Width, NEW x \in Nat
        PROVE  2 * x + BitAt(at + k - 1) \in Nat
    BY <1>0, <1>10
  <2> QED BY <2>1
<1>2. \A k \in 1 .. Width, x \in Nat : F[k][x] = 2 * x + BitAt(at + k - 1)
  OBVIOUS
<1> HIDE DEF F
<1>3. PICK g \in [0 .. Width -> Nat] :
        g[0] = 0 /\ \A k \in 1 .. Width : g[k] = F[k][g[k - 1]]
  <2> DEFINE Runs(N, a, G) == \E g \in [0 .. N -> Nat] :
                g[0] = a /\ \A k \in 1 .. N : g[k] = G[k][g[k - 1]]
  <2>1. \A N, a \in Nat : \A G \in [1 .. N -> [Nat -> Nat]] : Runs(N, a, G)
    BY NaturalRecursion, Zenon
  <2>2. Runs(Width, 0, F)
    <3> HIDE DEF Runs
    <3> QED BY <1>0, <1>1, <2>1
  <2> QED BY <2>2
<1>4. ASSUME NEW k \in 1 .. Width PROVE g[k] = 2 * g[k - 1] + BitAt(at + k - 1)
  <2>1. k - 1 \in 0 .. Width
    BY <1>0
  <2>2. g[k - 1] \in Nat
    BY <1>3, <2>1
  <2> QED BY <1>2, <1>3, <2>2
<1>5. Eqn(g)
  <2> DEFINE h == [k \in 0 .. Width |-> IF k = 0 THEN 0 ELSE 2 * g[k - 1] + BitAt(at + k - 1)]
  <2>1. ASSUME NEW k \in 0 .. Width PROVE g[k] = h[k]
    <3>1. CASE k = 0
      BY <1>3, <3>1
    <3>2. CASE k # 0
      <4>1. k \in 1 .. Width
        BY <1>0, <3>2
      <4> QED BY <1>4, <3>2, <4>1
    <3> QED BY <3>1, <3>2
  <2>2. DOMAIN g = DOMAIN h
    BY <1>3
  <2> QED BY <1>3, <2>1, <2>2
<1>6. R = CHOOSE f : Eqn(f)
  BY DEF Numbers
<1> HIDE DEF R
<1>7. R = [k \in 0 .. Width |-> IF k = 0 THEN 0 ELSE 2 * R[k - 1] + BitAt(at + k - 1)]
  <2>1. Eqn(R)
    <3> HIDE DEF Eqn
    <3> QED BY <1>5, <1>6
  <2> QED BY <2>1
<1>8. R[0] = 0 /\ \A k \in 1 .. Width : R[k] = 2 * R[k - 1] + BitAt(at + k - 1)
  <2>1. ASSUME NEW k \in 1 .. Width PROVE R[k] = 2 * R[k - 1] + BitAt(at + k - 1)
    <3>1. k \in 0 .. Width /\ k # 0
      BY <1>0
    <3> QED BY <1>7, <3>1
  <2> QED BY <1>0, <1>7, <2>1
<1>9. \A k \in 0 .. Width : R[k] \in Nat
  <2> DEFINE S == {k \in Nat : R[k] \in Nat}
  <2>1. 0 \in S
    BY <1>8
  <2>2. ASSUME NEW n \in 0 .. Width - 1, n \in S PROVE n + 1 \in S
    <3>1. n + 1 \in 1 .. Width /\ n + 1 - 1 = n
      BY <1>0
    <3> QED BY <1>8, <1>10, <2>2, <3>1
  <2>3. \A n \in 0 .. Width : n \in S
    <3> HIDE DEF S
    <3> QED BY <1>0, <2>1, <2>2, BoundedInduction
  <2> QED BY <2>3
<1>11. R \in [0 .. Width -> Nat]
  BY <1>7, <1>9
<1> QED BY <1>8, <1>11 DEF R

\* Bits that are those of a number of n bits, or of the last n of one bit more,
\* are read as that number.
LEMMA NumberOf ==
  ASSUME NEW at \in Nat, \A q \in Nat : BitAt(q) \in {0, 1},
         NEW n \in 0 .. Width, NEW v \in Nat, v < 2 * Pow2[n],
         \A k \in 1 .. n : BitAt(at + k - 1) = Bit(v, n - k)
  PROVE  Number(at, n) = IF v < Pow2[n] THEN v ELSE v - Pow2[n]
<1> DEFINE R == Numbers(at)
           Q == Shifted(v)
           Top(k) == IF v < Pow2[n] THEN 0 ELSE Pow2[k]
           S == {k \in Nat : R[k] = Q[n - k] - Top(k)}
<1>0. Width \in Nat /\ n \in Nat
  BY IntWidth
<1>1. R \in [0 .. Width -> Nat] /\ R[0] = 0
      /\ \A k \in 1 .. Width : R[k] = 2 * R[k - 1] + BitAt(at + k - 1)
  BY NumbersDefined
<1>2. Q \in [0 .. Width -> Nat] /\ Q[0] = v
      /\ \A k \in 1 .. Width : Q[k] = Q[k - 1] \div 2
  BY ShiftedDefined
<1>3. \A k \in 1 .. n : BitAt(at + k - 1) = Q[n - k] % 2
  BY DEF Bit
<1>4. /\ v < Pow2[n] => Q[n] < 1
      /\ v >= Pow2[n] => Q[n] >= 1
      /\ Q[n] < 2
  <2>1. n \in 0 .. n /\ n - n = 0
    BY <1>0
  <2> QED BY <2>1, ShiftedBounds, Pow2Defined
<1> HIDE DEF R, Q
<1>5. 0 \in S
  <2>1. n - 0 = n /\ Pow2[0] = 1 /\ Pow2[n] \in Nat /\ Q[n] \in Nat
    BY <1>0, <1>2, Pow2Defined
  <2> QED BY <1>1, <1>4, <2>1
<1>6. ASSUME NEW k \in 0 .. n - 1, k \in S PROVE k + 1 \in S
  <2>1. /\ k + 1 \in 1 .. Width /\ k + 1 \in 1 .. n /\ k + 1 - 1 = k
        /\ n - k \in 1 .. Width /\ n - (k + 1) = n - k - 1 /\ n - k - 1 \in 0 .. Width
        /\ k \in 0 .. Width
    BY <1>0
  <2> DEFINE x == Q[n - k - 1]
             y == R[k]
             z == BitAt(at + (k + 1) - 1)
  <2>2. x \in Nat /\ Q[n - k] = x \div 2 /\ Q[n - (k + 1)] = x
    BY <1>2, <2>1
  <2>3. R[k + 1] = 2 * y + z
    BY <1>1, <2>1
  <2>4. z = x % 2
    BY <1>3, <2>1
  <2>5. y = x \div 2 - Top(k)
    BY <1>6, <2>2
  <2>6. Top(k + 1) = 2 * Top(k) /\ Top(k) \in Nat
    BY Pow2Defined, <2>1, SMTT(30)
  <2> HIDE DEF x, y, z, Top
  <2>7. x = 2 * (x \div 2) + (x % 2) /\ x \div 2 \in Nat /\ x % 2 \in Nat
    BY <2>2, Halving
  <2>8. 2 * y + z = x - 2 * Top(k)
    BY <2>2, <2>4, <2>5, <2>6, <2>7
  <2>9. R[k + 1] = x - Top(k + 1)
    BY <2>3, <2>6, <2>8
  <2> QED BY <2>1, <2>2, <2>9
<1>7. \A k \in 0 .. n : k \in S
  <2> HIDE DEF S
  <2> QED BY <1>0, <1>5, <1>6, BoundedInduction
<1>8. R[n] = Q[0] - Top(n)
  <2>1. n \in S /\ n - n = 0
    BY <1>0, <1>7
  <2> QED BY <2>1
<1>9. R[n] = IF v < Pow2[n] THEN v ELSE v - Pow2[n]
  BY <1>2, <1>8
<1> QED BY <1>9 DEF R, Number

(***************************************************************************)
(* The codes.                                                              *)
(***************************************************************************)

LEMMA WidthFacts ==
  /\ Width \in Nat /\ Width >= 4
  /\ Width \div 2 \in Nat /\ Width \div 2 >= 2 /\ 2 * (Width \div 2) = Width
  /\ \A k \in 0 .. Width : Pow2[k] \in Nat /\ Pow2[k] >= 1 /\ Pow2[k] <= Pow2[Width]
BY IntWidth, PowersGrow

\* A natural number modulo another.
LEMMA Modulo ==
  ASSUME NEW x \in Int, NEW y \in Nat, y >= 1
  PROVE  x % y \in Nat /\ x % y < y
OBVIOUS

LEMMA BitTyped ==
  ASSUME NEW v \in Nat, NEW k \in 0 .. Width
  PROVE  Bit(v, k) \in {0, 1}
<1>1. Shifted(v)[k] \in Nat
  BY ShiftedDefined
<1> QED BY <1>1, Halving DEF Bit

\* The bits above those of a number are zeros, and its first is a one.
LEMMA BitsAbove ==
  ASSUME NEW v \in Nat, NEW n \in 0 .. Width, v < Pow2[n], NEW k \in n .. Width
  PROVE  Bit(v, k) = 0
<1>1. n \in Nat /\ k \in 0 .. Width /\ k \in 0 .. k /\ k - k = 0 /\ Width \in Nat
  BY WidthFacts
<1>2. v < Pow2[k]
  BY <1>1, PowersGrow
<1>3. Shifted(v)[k] < Pow2[0]
  BY <1>1, <1>2, ShiftedBounds
<1>4. Shifted(v)[k] \in Nat
  BY <1>1, ShiftedDefined
<1>5. Shifted(v)[k] = 0
  BY <1>3, <1>4, Pow2Defined
<1> QED BY <1>5 DEF Bit

LEMMA FirstBit ==
  ASSUME NEW v \in Nat, NEW n \in 0 .. Width, Pow2[n] <= v, v < 2 * Pow2[n]
  PROVE  Bit(v, n) = 1
<1>1. n \in 0 .. n /\ n - n = 0
  BY WidthFacts
<1>2. Shifted(v)[n] < 2 * Pow2[0] /\ Shifted(v)[n] >= Pow2[0]
  <2>1. Pow2[n] \in Nat /\ v >= Pow2[n]
    BY WidthFacts
  <2> QED BY <1>1, <2>1, ShiftedBounds
<1>3. Shifted(v)[n] \in Nat
  BY <1>1, ShiftedDefined
<1>4. Shifted(v)[n] = 1
  BY <1>2, <1>3, Pow2Defined
<1> QED BY <1>4 DEF Bit

LEMMA BitsOfTyped ==
  ASSUME NEW n \in Nat, NEW v \in Nat, NEW masked
  PROVE  BitsOf(n, v, masked) \in [1 .. n -> {0, 1}]
<1>1. ASSUME NEW k \in 1 .. n
      PROVE  (IF n - k < Width THEN Bit(v, n - k)
              ELSE IF masked THEN Bit(v, (n - k) % Width) ELSE 0) \in {0, 1}
  <2>1. n - k \in Nat /\ (n - k < Width => n - k \in 0 .. Width)
    BY WidthFacts
  <2>2. (n - k) % Width \in 0 .. Width
    BY <2>1, WidthFacts, Modulo
  <2>3. n - k < Width => Bit(v, n - k) \in {0, 1}
    BY <2>1, BitTyped
  <2>4. Bit(v, (n - k) % Width) \in {0, 1}
    BY <2>2, BitTyped
  <2> QED BY <2>3, <2>4
<1> QED BY <1>1 DEF BitsOf

LEMMA LengthBounds ==
  ASSUME NEW v \in Nat \ {0}, NEW n \in 1 .. Width, v < Pow2[n]
  PROVE  /\ LengthOf(v) \in 1 .. n
         /\ Pow2[LengthOf(v) - 1] <= v /\ v < Pow2[LengthOf(v)]
<1> DEFINE S == {l \in 1 .. Width : v < Pow2[l]}
           l == Min(S)
<1>1. n \in S /\ S \subseteq Nat
  OBVIOUS
<1>2. l \in S /\ \A y \in S : l <= y
  <2> HIDE DEF S
  <2> QED BY <1>1, MinOf
<1>3. LengthOf(v) = l
  BY DEF LengthOf
<1> HIDE DEF l
<1>4. l \in 1 .. n /\ v < Pow2[l]
  BY <1>1, <1>2, WidthFacts
<1>5. Pow2[l - 1] <= v
  <2>1. CASE l = 1
    BY <2>1, Pow2Defined
  <2>2. CASE l # 1
    <3>1. l - 1 \in 1 .. Width /\ l - 1 < l
      BY <1>4, <2>2, WidthFacts
    <3>2. l - 1 \notin S
      BY <1>2, <1>4, <3>1
    <3> QED BY <3>1, <3>2, WidthFacts
  <2> QED BY <2>1, <2>2
<1> QED BY <1>3, <1>4, <1>5

\* A code of bs_write_ue: zeros, a one, and as many bits of v + 1.
Shaped(code, w, l) ==
  /\ l \in 1 .. Width \div 2 /\ Pow2[l - 1] <= w /\ w < Pow2[l]
  /\ code \in Seq({0, 1}) /\ Len(code) = 2 * l - 1
  /\ \A k \in 1 .. l - 1 : code[k] = 0
  /\ code[l] = 1
  /\ \A k \in 1 .. l - 1 : code[l + k] = Bit(w, l - 1 - k)

LEMMA UeCodeTyped ==
  ASSUME NEW v \in Nat, NEW masked
  PROVE  UeCode(v, masked) \in Seq({0, 1})
<1> DEFINE w == (v + 1) % Pow2[Width]
<1>1. w \in Nat /\ w < Pow2[Width]
  <2>1. Pow2[Width] \in Nat /\ Pow2[Width] >= 1
    BY WidthFacts
  <2> QED BY <2>1, Modulo
<1>2. CASE v = 0
  <2>1. UeCode(v, masked) = <<1>>
    BY <1>2 DEF UeCode
  <2> QED BY <2>1
<1>3. CASE v # 0
  <2>1. UeCode(v, masked) = BitsOf(2 * LengthOf(w) - 1, w, masked)
    BY <1>3 DEF UeCode
  <2> HIDE DEF w
  <2>2. LengthOf(w) \in Nat /\ LengthOf(w) >= 1
    <3>1. CASE w = 0
      BY <3>1 DEF LengthOf
    <3>2. CASE w # 0
      <4>1. Width \in 1 .. Width
        BY WidthFacts
      <4>2. LengthOf(w) \in 1 .. Width
        BY <1>1, <3>2, <4>1, LengthBounds
      <4> QED BY <4>2, WidthFacts
    <3> QED BY <3>1, <3>2
  <2>3. 2 * LengthOf(w) - 1 \in Nat
    BY <2>2
  <2>4. BitsOf(2 * LengthOf(w) - 1, w, masked) \in [1 .. 2 * LengthOf(w) - 1 -> {0, 1}]
    BY <1>1, <2>3, BitsOfTyped
  <2> QED BY <2>1, <2>3, <2>4
<1> QED BY <1>2, <1>3

LEMMA UeCodeShape ==
  ASSUME NEW v \in Nat, v + 1 < Pow2[Width \div 2], NEW masked
  PROVE  \E l \in 1 .. Width \div 2 : Shaped(UeCode(v, masked), v + 1, l)
<1> DEFINE w == v + 1
           H == Width \div 2
<1>1. Width \in Nat /\ H \in Nat /\ H >= 2 /\ 2 * H = Width /\ H \in 1 .. Width
  BY WidthFacts
<1>2. CASE v = 0
  <2>1. UeCode(v, masked) = <<1>>
    BY <1>2 DEF UeCode
  <2>2. Pow2[0] = 1 /\ Pow2[1] = 2
    <3>1. 1 \in 1 .. Width /\ 1 - 1 = 0
      BY <1>1
    <3> QED BY <3>1, Pow2Defined
  <2>3. Shaped(<<1>>, w, 1)
    BY <1>1, <1>2, <2>2 DEF Shaped
  <2> QED BY <1>1, <2>1, <2>3
<1>3. CASE v # 0
  <2> DEFINE l == LengthOf(w)
             c == BitsOf(2 * l - 1, w, masked)
  <2>1. w % Pow2[Width] = w
    <3>1. w < Pow2[Width] /\ Pow2[Width] \in Nat /\ w \in Nat
      BY <1>1, WidthFacts
    <3> HIDE DEF w
    <3> QED BY <3>1, SmallModulo
  <2>2. UeCode(v, masked) = c
    BY <1>3, <2>1 DEF UeCode
  <2>3. l \in 1 .. H /\ Pow2[l - 1] <= w /\ w < Pow2[l] /\ w \in Nat
    <3>1. w \in Nat \ {0} /\ w < Pow2[H]
      OBVIOUS
    <3> HIDE DEF w, H
    <3> QED BY <1>1, <3>1, LengthBounds
  <2> HIDE DEF w, l, H
  <2>4. 2 * l - 1 \in Nat /\ l \in Nat /\ l \in 0 .. Width /\ l - 1 \in 0 .. Width
    BY <1>1, <2>3
  <2>5. c \in [1 .. 2 * l - 1 -> {0, 1}]
    BY <2>3, <2>4, BitsOfTyped
  <2>6. \A k \in 1 .. 2 * l - 1 :
          c[k] = Bit(w, 2 * l - 1 - k) /\ 2 * l - 1 - k \in 0 .. Width
    <3>1. ASSUME NEW k \in 1 .. 2 * l - 1
          PROVE  2 * l - 1 - k < Width /\ 2 * l - 1 - k \in 0 .. Width
      BY <1>1, <2>3
    <3> QED BY <3>1 DEF BitsOf
  <2> HIDE DEF c
  <2>7. ASSUME NEW k \in 1 .. l - 1 PROVE c[k] = 0
    <3>1. k \in 1 .. 2 * l - 1 /\ 2 * l - 1 - k \in l .. Width
      BY <1>1, <2>3, <2>4
    <3>2. Bit(w, 2 * l - 1 - k) = 0
      BY <2>3, <2>4, <3>1, BitsAbove
    <3> QED BY <2>6, <3>1, <3>2
  <2>8. c[l] = 1
    <3>1. l \in 1 .. 2 * l - 1 /\ 2 * l - 1 - l = l - 1
      BY <2>3, <2>4
    <3>2. w < 2 * Pow2[l - 1]
      <4>1. l \in 1 .. Width
        BY <1>1, <2>3
      <4> QED BY <2>3, <4>1, Pow2Defined
    <3>3. Bit(w, l - 1) = 1
      BY <2>3, <2>4, <3>2, FirstBit
    <3> QED BY <2>6, <3>1, <3>3
  <2>9. ASSUME NEW k \in 1 .. l - 1 PROVE c[l + k] = Bit(w, l - 1 - k)
    <3>1. l + k \in 1 .. 2 * l - 1 /\ 2 * l - 1 - (l + k) = l - 1 - k
      BY <2>3, <2>4
    <3> QED BY <2>6, <3>1
  <2>10. c \in Seq({0, 1}) /\ Len(c) = 2 * l - 1
    BY <2>4, <2>5
  <2>11. Shaped(c, w, l)
    BY <2>3, <2>7, <2>8, <2>9, <2>10 DEF Shaped, H
  <2> QED BY <2>2, <2>3, <2>11 DEF w, H
<1> QED BY <1>2, <1>3

LEMMA SeToUeTyped ==
  ASSUME NEW v \in Int
  PROVE  Doubled(v) \in Nat /\ SeToUe(v) \in Nat
         /\ (Doubled(v) + 1 < Pow2[Width \div 2] => SeToUe(v) = Doubled(v))
<1>1. Doubled(v) \in Nat
  BY DEF Doubled
<1>2. Pow2[Width] \in Nat /\ Pow2[Width] >= 1 /\ Pow2[Width \div 2] \in Nat
      /\ Pow2[Width \div 2] <= Pow2[Width]
  BY WidthFacts
<1>3. Doubled(v) % Pow2[Width] \in Nat
  BY <1>1, <1>2, Modulo
<1>4. ASSUME Doubled(v) + 1 < Pow2[Width \div 2]
      PROVE  Doubled(v) % Pow2[Width] = Doubled(v)
  BY <1>1, <1>2, <1>4, SmallModulo
<1> QED BY <1>1, <1>3, <1>4 DEF SeToUe

LEMMA CodesTyped ==
  ASSUME NEW f \in Fields, NEW code \in Codes(f)
  PROVE  code \in Seq({0, 1})
<1>1. f \in FieldType
  BY FieldsAreTyped
<1>2. f.n \in Nat /\ f.v \in Int /\ (f.kind \in {"u", "ue"} => f.v \in Nat)
      /\ f.kind \in {"u", "ue", "se"}
  BY <1>1, WidthFacts DEF FieldType
<1>3. CASE f.kind = "u"
  <2>1. code = BitsOf(f.n, f.v, FALSE)
    BY <1>3 DEF Codes
  <2>2. code \in [1 .. f.n -> {0, 1}]
    BY <1>2, <1>3, <2>1, BitsOfTyped
  <2> QED BY <1>2, <2>2
<1>4. CASE f.kind = "ue"
  <2>1. PICK masked \in BOOLEAN : code = UeCode(f.v, masked)
    BY <1>4 DEF Codes
  <2> QED BY <1>2, <1>4, <2>1, UeCodeTyped
<1>5. CASE f.kind = "se"
  <2>1. PICK masked \in BOOLEAN : code = UeCode(SeToUe(f.v), masked)
    BY <1>5 DEF Codes
  <2>2. SeToUe(f.v) \in Nat
    BY <1>2, SeToUeTyped
  <2> QED BY <2>1, <2>2, UeCodeTyped
<1> QED BY <1>2, <1>3, <1>4, <1>5

(***************************************************************************)
(* Reading them back.                                                      *)
(***************************************************************************)

LEMMA NegativeModulo ==
  ASSUME NEW x \in Nat \ {0}, NEW y \in Nat, x <= y
  PROVE  (-x) % y = y - x
<1> DEFINE q == (-x) \div y
           r == (-x) % y
<1>1. q \in Int /\ r \in Int /\ -x = y * q + r /\ 0 <= r /\ r < y
  OBVIOUS
<1> HIDE DEF q, r
<1>2. CASE q = -1
  <2>1. r = y - x
    BY <1>1, <1>2
  <2> QED BY <2>1 DEF r
<1>3. CASE q >= 0
  <2>1. \A a, b \in Nat : a * b \in Nat
    OBVIOUS
  <2>2. y * q \in Nat
    BY <1>1, <1>3, <2>1
  <2> QED BY <1>1, <2>2
<1>4. CASE q <= -2
  <2>1. \A a, b \in Nat : a * b \in Nat
    OBVIOUS
  <2>2. -q - 2 \in Nat /\ y * q = -2 * y - y * (-q - 2)
    BY <1>1, <1>4
  <2>3. y * (-q - 2) \in Nat
    BY <2>1, <2>2
  <2> QED BY <1>1, <2>2, <2>3
<1> QED BY <1>1, <1>2, <1>3, <1>4

\* bs_read_se undoes what bs_write_se does to a small number.
LEMMA SignedBack ==
  ASSUME NEW v \in Int, Doubled(v) + 1 < Pow2[Width \div 2]
  PROVE  UeToSe(Doubled(v)) = v
<1> DEFINE u == Doubled(v)
           M == Pow2[Width]
           N == Pow2[Width - 1]
           half(x) == IF x >= 0 THEN x \div 2 ELSE -((-x) \div 2)
<1>1. u \in Nat
  BY SeToUeTyped
<1>2. M \in Nat /\ N \in Nat /\ M = 2 * N /\ u + 1 < N
  <2>1. Width - 1 \in 0 .. Width /\ Width \in 1 .. Width
        /\ Width \div 2 \in 0 .. Width /\ Width \div 2 <= Width - 1
    BY WidthFacts
  <2>2. Pow2[Width \div 2] <= Pow2[Width - 1] /\ Pow2[Width \div 2] \in Nat
        /\ Pow2[Width - 1] \in Nat
    BY <2>1, PowersGrow
  <2> QED BY <1>1, <2>1, <2>2, Pow2Defined
<1>3. v <= 0 => u = -v * 2
  BY DEF Doubled
<1>4. v > 0 => u = v * 2 - 1
  BY DEF Doubled
<1>5. UeToSe(u) = IF u % 2 = 1 THEN half(Signed((u + 1) % M))
                  ELSE Signed((-half(Signed(u))) % M)
  BY DEF UeToSe
<1>6. \A x : Signed(x) = IF x < N THEN x ELSE x - M
  BY DEF Signed
<1> HIDE DEF u, M, N
<1>7. Signed(u) = u /\ (u + 1) % M = u + 1 /\ Signed(u + 1) = u + 1
  <2>1. u + 1 \in Nat /\ u + 1 < M
    BY <1>1, <1>2
  <2>2. (u + 1) % M = u + 1
    BY <1>2, <2>1, SmallModulo
  <2> QED BY <1>1, <1>2, <1>6, <2>2
<1>8. CASE v > 0
  <2>1. u % 2 = 1 /\ half(u + 1) = v
    BY <1>4, <1>8
  <2> QED BY <1>5, <1>7, <2>1 DEF u
<1>9. CASE v <= 0
  <2>1. u % 2 = 0 /\ half(u) = -v
    BY <1>3, <1>9
  <2>2. UeToSe(u) = Signed((-half(u)) % M)
    BY <1>5, <1>7, <2>1
  <2>3. -half(u) = v
    BY <2>1
  <2>4. UeToSe(u) = Signed(v % M)
    BY <2>2, <2>3
  <2>5. CASE v = 0
    <3>1. v % M = 0
      BY <1>1, <1>2, <2>5, SmallModulo
    <3> QED BY <1>1, <1>2, <1>6, <2>4, <2>5, <3>1 DEF u
  <2>6. CASE v < 0
    <3> DEFINE x == -v
    <3>1. x \in Nat \ {0} /\ x <= M /\ x < N /\ -x = v
      BY <1>1, <1>2, <1>3, <2>6
    <3> HIDE DEF x
    <3>2. (-x) % M = M - x
      BY <1>2, <3>1, NegativeModulo
    <3>3. Signed(M - x) = -x
      BY <1>2, <1>6, <3>1
    <3> QED BY <2>4, <3>1, <3>2, <3>3 DEF u
  <2> QED BY <1>9, <2>5, <2>6
<1> QED BY <1>8, <1>9

LEMMA UeToSeTyped ==
  ASSUME NEW u \in Nat
  PROVE  UeToSe(u) \in Int
<1> DEFINE M == Pow2[Width]
           N == Pow2[Width - 1]
           half(x) == IF x >= 0 THEN x \div 2 ELSE -((-x) \div 2)
<1>1. M \in Nat /\ M >= 1 /\ N \in Nat
  <2>1. Width - 1 \in 0 .. Width
    BY WidthFacts
  <2> QED BY <2>1, WidthFacts
<1>2. UeToSe(u) = IF u % 2 = 1 THEN half(Signed((u + 1) % M))
                  ELSE Signed((-half(Signed(u))) % M)
  BY DEF UeToSe
<1>3. \A x : Signed(x) = IF x < N THEN x ELSE x - M
  BY DEF Signed
<1> HIDE DEF M, N
<1>4. \A x \in Int : Signed(x) \in Int
  BY <1>1, <1>3
<1>5. \A x \in Int : half(x) \in Int
  OBVIOUS
<1> HIDE DEF half
<1>6. \A x \in Int : x % M \in Int
  BY <1>1
<1>7. half(Signed((u + 1) % M)) \in Int
  BY <1>4, <1>5, <1>6
<1>8. Signed((-half(Signed(u))) % M) \in Int
  <2>1. -half(Signed(u)) \in Int
    BY <1>4, <1>5
  <2> QED BY <1>4, <1>6, <2>1
<1> QED BY <1>2, <1>7, <1>8

LEMMA BitAtTyped ==
  ASSUME size \in Nat, mem \in [0 .. 8 * size - 1 -> {0, 1}]
  PROVE  \A q \in Nat : /\ BitAt(q) \in {0, 1}
                        /\ q >= 8 * size => BitAt(q) = 0
                        /\ q < 8 * size => BitAt(q) = mem[q]
                        /\ bs_eof(q) <=> q >= 8 * size
BY DEF BitAt, bs_eof

LEMMA NumberTyped ==
  ASSUME NEW at \in Nat, \A q \in Nat : BitAt(q) \in {0, 1}, NEW n \in 0 .. Width
  PROVE  Number(at, n) \in Nat
<1>1. Numbers(at) \in [0 .. Width -> Nat]
  BY NumbersDefined
<1> QED BY <1>1 DEF Number

LEMMA LeadingZerosOf ==
  ASSUME NEW at \in Nat
  PROVE  /\ LeadingZeros(at) \in 0 .. Width /\ LeadingZeros(at) \in Nat
         /\ \/ BitAt(at + LeadingZeros(at)) = 1
            \/ LeadingZeros(at) = Width
            \/ bs_eof(at + LeadingZeros(at) + 1)
         /\ \A k \in 0 .. Width : BitAt(at + k) = 1 => LeadingZeros(at) <= k
<1> DEFINE S == {k \in 0 .. Width :
                   BitAt(at + k) = 1 \/ k = Width \/ bs_eof(at + k + 1)}
<1>1. Width \in S /\ S \subseteq Nat
  BY WidthFacts
<1>2. Min(S) \in S /\ \A y \in S : Min(S) <= y
  <2> HIDE DEF S
  <2> QED BY <1>1, MinOf
<1>3. LeadingZeros(at) = Min(S)
  BY DEF LeadingZeros
<1> QED BY <1>1, <1>2, <1>3

LEMMA ReadUeTyped ==
  ASSUME NEW at \in Nat, \A q \in Nat : BitAt(q) \in {0, 1}, NEW r \in ReadUe(at)
  PROVE  /\ r.v \in Nat /\ r.next = at + 2 * LeadingZeros(at) + 1
         /\ r = [v |-> r.v, next |-> r.next] /\ r.next \in Nat
<1> DEFINE n == LeadingZeros(at)
           powers == IF n < Width THEN {Pow2[n]} ELSE {0, 1}
<1>1. n \in 0 .. Width /\ n \in Nat
  BY LeadingZerosOf, WidthFacts
<1>2. PICK power \in powers :
        r = [v |-> (Number(at + n + 1, n) + power - 1) % Pow2[Width],
             next |-> at + 2 * n + 1]
  BY DEF ReadUe
<1>3. Number(at + n + 1, n) \in Nat
  <2>1. at + n + 1 \in Nat
    BY <1>1
  <2> HIDE DEF n
  <2> QED BY <1>1, <2>1, NumberTyped
<1>4. power \in Nat
  BY <1>1, <1>2, WidthFacts
<1>5. (Number(at + n + 1, n) + power - 1) % Pow2[Width] \in Nat
  <2>1. Number(at + n + 1, n) + power - 1 \in Int
    BY <1>3, <1>4
  <2>2. Pow2[Width] \in Nat /\ Pow2[Width] >= 1
    BY WidthFacts
  <2> QED BY <2>1, <2>2, Modulo
<1> QED BY <1>1, <1>2, <1>5

\* A code that arrived is read as the number it was made from.
LEMMA ReadUeWhole ==
  ASSUME size \in Nat, mem \in [0 .. 8 * size - 1 -> {0, 1}],
         NEW at \in Nat, NEW w \in Nat, w >= 1, w < Pow2[Width \div 2],
         NEW code, NEW l \in 1 .. Width \div 2, Shaped(code, w, l),
         at + 2 * l - 1 <= 8 * size,
         \A k \in 1 .. 2 * l - 1 : BitAt(at + k - 1) = code[k]
  PROVE  \A r \in ReadUe(at) : r.v = w - 1 /\ r.next = at + Len(code)
<1> DEFINE n == LeadingZeros(at)
<1>1. Width \in Nat /\ l \in Nat /\ l >= 1 /\ l < Width /\ l - 1 \in 0 .. Width
      /\ l \in 1 .. Width
  BY WidthFacts
<1>2. \A q \in Nat : BitAt(q) \in {0, 1}
  BY BitAtTyped
<1>0. /\ n \in 0 .. Width /\ n \in Nat
      /\ BitAt(at + n) = 1 \/ n = Width \/ bs_eof(at + n + 1)
      /\ \A k \in 0 .. Width : BitAt(at + k) = 1 => n <= k
  BY LeadingZerosOf
<1> HIDE DEF n
<1>3. n = l - 1
  <2>1. BitAt(at + (l - 1)) = 1
    <3>1. l \in 1 .. 2 * l - 1 /\ at + l - 1 = at + (l - 1)
      BY <1>1
    <3> QED BY <3>1 DEF Shaped
  <2>2. n <= l - 1
    <3> QED BY <1>0, <1>1, <2>1
  <2>3. ASSUME n < l - 1 PROVE FALSE
    <3>1. n + 1 \in 1 .. 2 * l - 1 /\ n + 1 \in 1 .. l - 1 /\ at + (n + 1) - 1 = at + n
      BY <1>0, <1>1, <2>3
    <3>2. BitAt(at + n) = 0
      BY <3>1 DEF Shaped
    <3>3. at + n + 1 \in Nat /\ at + n + 1 < 8 * size
      BY <1>0, <1>1, <2>3
    <3>4. ~bs_eof(at + n + 1)
      BY <3>3, BitAtTyped
    <3> QED BY <1>0, <1>1, <2>3, <3>2, <3>4
  <2> QED BY <1>0, <1>1, <2>2, <2>3
<1>4. Number(at + n + 1, n) = w - Pow2[n]
  <2> DEFINE a == at + n + 1
  <2>1. a \in Nat /\ n \in 0 .. Width /\ w \in Nat
    BY <1>1, <1>3
  <2>2. w < 2 * Pow2[n] /\ w >= Pow2[n]
    BY <1>1, <1>3, Pow2Defined, WidthFacts DEF Shaped
  <2>3. ASSUME NEW k \in 1 .. n PROVE BitAt(a + k - 1) = Bit(w, n - k)
    <3>1. k \in 1 .. l - 1 /\ l + k \in 1 .. 2 * l - 1 /\ at + (l + k) - 1 = a + k - 1
          /\ l - 1 - k = n - k
      BY <1>1, <1>3
    <3>2. code[l + k] = Bit(w, l - 1 - k)
      BY <3>1 DEF Shaped
    <3> QED BY <3>1, <3>2
  <2>4. Pow2[n] \in Nat
    BY <2>1, WidthFacts
  <2> HIDE DEF a
  <2>5. Number(a, n) = IF w < Pow2[n] THEN w ELSE w - Pow2[n]
    BY <1>2, <2>1, <2>2, <2>3, NumberOf
  <2> QED BY <2>1, <2>2, <2>4, <2>5 DEF a
<1>5. ASSUME NEW r \in ReadUe(at) PROVE r.v = w - 1 /\ r.next = at + Len(code)
  <2>1. r = [v |-> (Number(at + n + 1, n) + Pow2[n] - 1) % Pow2[Width],
             next |-> at + 2 * n + 1]
    <3>1. n < Width
      BY <1>1, <1>3
    <3> QED BY <3>1 DEF ReadUe, n
  <2>2. w - Pow2[n] + Pow2[n] - 1 = w - 1
    <3>1. Pow2[n] \in Nat
      BY <1>1, <1>3, WidthFacts
    <3>2. \A a, b \in Nat : a - b + b - 1 = a - 1
      OBVIOUS
    <3> QED BY <3>1, <3>2
  <2>3. (w - 1) % Pow2[Width] = w - 1
    <3>1. Width \div 2 \in 0 .. Width /\ Width \in 0 .. Width
      BY WidthFacts
    <3>2. /\ Pow2[Width \div 2] \in Nat /\ Pow2[Width] \in Nat
          /\ Pow2[Width \div 2] <= Pow2[Width]
      BY <3>1, WidthFacts
    <3>3. w - 1 \in Nat /\ w - 1 < Pow2[Width]
      BY <3>2
    <3> QED BY <3>2, <3>3, SmallModulo
  <2>4. Len(code) = 2 * l - 1
    BY DEF Shaped
  <2> QED BY <1>1, <1>3, <1>4, <2>1, <2>2, <2>3, <2>4
<1> QED BY <1>5

\* Of a code that did not arrive whole, the reader does not find the end.
LEMMA ReadUeCut ==
  ASSUME size \in Nat, mem \in [0 .. 8 * size - 1 -> {0, 1}],
         NEW at \in Nat, NEW w \in Nat,
         NEW code, NEW l \in 1 .. Width \div 2, Shaped(code, w, l),
         at + 2 * l - 1 > 8 * size,
         \A k \in 1 .. 2 * l - 1 : at + k <= 8 * size => BitAt(at + k - 1) = code[k]
  PROVE  \A r \in ReadUe(at) : r.next >= 8 * size
<1> DEFINE n == LeadingZeros(at)
<1>1. Width \in Nat /\ l \in Nat /\ l >= 1 /\ l < Width
  BY WidthFacts
<1>2. n \in 0 .. Width /\ n \in Nat
      /\ (BitAt(at + n) = 1 \/ n = Width \/ bs_eof(at + n + 1))
  BY LeadingZerosOf, WidthFacts
<1>3. \A r \in ReadUe(at) : r.next = at + 2 * n + 1
  BY BitAtTyped, ReadUeTyped
<1> HIDE DEF n
<1>4. at + 2 * n + 1 >= 8 * size
  <2>1. CASE bs_eof(at + n + 1)
    <3>1. at + n + 1 >= 8 * size
      BY <1>2, <2>1, BitAtTyped
    <3> QED BY <1>2, <3>1
  <2>2. CASE n = Width
    BY <1>1, <2>2
  <2>3. CASE BitAt(at + n) = 1 /\ n < l - 1
    <3>1. at + n < 8 * size
      BY <1>2, <2>3, BitAtTyped
    <3>2. n + 1 \in 1 .. 2 * l - 1 /\ n + 1 \in 1 .. l - 1 /\ at + (n + 1) - 1 = at + n
          /\ at + (n + 1) <= 8 * size
      BY <1>1, <1>2, <2>3, <3>1
    <3>3. BitAt(at + n) = code[n + 1]
      BY <3>2
    <3>4. code[n + 1] = 0
      BY <3>2 DEF Shaped
    <3> QED BY <2>3, <3>3, <3>4
  <2>4. CASE n >= l - 1
    BY <1>1, <1>2, <2>4
  <2> QED BY <1>1, <1>2, <2>1, <2>2, <2>3, <2>4
<1> QED BY <1>3, <1>4

LEMMA ReadFieldTyped ==
  ASSUME size \in Nat, mem \in [0 .. 8 * size - 1 -> {0, 1}], pos \in Nat,
         NEW f \in Fields, NEW r \in ReadField(f)
  PROVE  r.v \in Int /\ r.next \in Nat /\ r.next >= pos
<1>1. f \in FieldType
  BY FieldsAreTyped
<1>2. f.n \in 0 .. Width /\ f.n \in Nat /\ f.kind \in {"u", "ue", "se"}
  BY <1>1, WidthFacts DEF FieldType
<1>3. \A q \in Nat : BitAt(q) \in {0, 1}
  BY BitAtTyped
<1>4. \A q \in ReadUe(pos) : q.v \in Nat /\ q.next \in Nat /\ q.next >= pos
  <2>1. ASSUME NEW q \in ReadUe(pos)
        PROVE  q.v \in Nat /\ q.next \in Nat /\ q.next >= pos
    <3>1. q.v \in Nat /\ q.next = pos + 2 * LeadingZeros(pos) + 1 /\ q.next \in Nat
      BY <1>3, ReadUeTyped
    <3>2. LeadingZeros(pos) \in Nat
      BY LeadingZerosOf
    <3> QED BY <3>1, <3>2
  <2> QED BY <2>1
<1>5. CASE f.kind = "u"
  <2>1. r = [v |-> Number(pos, f.n), next |-> pos + f.n]
    BY <1>5 DEF ReadField
  <2>2. Number(pos, f.n) \in Nat
    BY <1>2, <1>3, NumberTyped
  <2> QED BY <1>2, <2>1, <2>2
<1>6. CASE f.kind = "ue"
  <2>1. r \in ReadUe(pos)
    BY <1>6 DEF ReadField
  <2> QED BY <1>4, <2>1
<1>7. CASE f.kind = "se"
  <2>1. PICK q \in ReadUe(pos) : r = [q EXCEPT !.v = UeToSe(@)]
    BY <1>7 DEF ReadField
  <2>2. q = [v |-> q.v, next |-> q.next]
    BY <1>3, ReadUeTyped
  <2>3. r.v = UeToSe(q.v) /\ r.next = q.next
    BY <2>1, <2>2
  <2> QED BY <1>4, <2>3, UeToSeTyped
<1> QED BY <1>2, <1>5, <1>6, <1>7

\* A small field at the cursor is read as it was written if it arrived, and
\* else the reader is at the end of the bytes after it.
LEMMA FieldRead ==
  ASSUME size \in Nat, mem \in [0 .. 8 * size - 1 -> {0, 1}], pos \in Nat,
         NEW f \in Fields, Small(f), NEW code \in Codes(f), NEW r \in ReadField(f),
         \A k \in 1 .. Len(code) : pos + k <= 8 * size => BitAt(pos + k - 1) = code[k]
  PROVE  /\ pos + Len(code) <= 8 * size => r.v = f.v /\ r.next = pos + Len(code)
         /\ pos + Len(code) > 8 * size => r.next >= 8 * size
<1>1. f \in FieldType
  BY FieldsAreTyped
<1>2. f.n \in 0 .. Width /\ f.n \in Nat /\ f.v \in Int
      /\ (f.kind \in {"u", "ue"} => f.v \in Nat) /\ f.kind \in {"u", "ue", "se"}
  BY <1>1, WidthFacts DEF FieldType
<1>3. \A q \in Nat : BitAt(q) \in {0, 1}
  BY BitAtTyped
<1>4. ASSUME NEW v \in Nat, v + 1 < Pow2[Width \div 2], NEW masked,
             code = UeCode(v, masked), NEW q \in ReadUe(pos)
      PROVE  /\ pos + Len(code) <= 8 * size => q.v = v /\ q.next = pos + Len(code)
             /\ pos + Len(code) > 8 * size => q.next >= 8 * size
  <2>1. PICK l \in 1 .. Width \div 2 : Shaped(code, v + 1, l)
    BY <1>4, UeCodeShape
  <2>2. Len(code) = 2 * l - 1 /\ l \in Nat /\ l >= 1
    BY <2>1, WidthFacts DEF Shaped
  <2>3. CASE pos + Len(code) <= 8 * size
    <3>1. pos + 2 * l - 1 <= 8 * size
      BY <2>2, <2>3
    <3>2. \A k \in 1 .. 2 * l - 1 : BitAt(pos + k - 1) = code[k]
      BY <2>2, <2>3
    <3>3. v + 1 < Pow2[Width \div 2] /\ v + 1 \in Nat /\ v + 1 >= 1
      BY <1>4
    <3>4. \A u \in ReadUe(pos) : u.v = v + 1 - 1 /\ u.next = pos + Len(code)
      <4> DEFINE w == v + 1
      <4> HIDE DEF w
      <4> QED BY <2>1, <3>1, <3>2, <3>3, ReadUeWhole DEF w
    <3> QED BY <1>4, <2>2, <2>3, <3>4
  <2>4. CASE pos + Len(code) > 8 * size
    <3>1. pos + 2 * l - 1 > 8 * size
      BY <2>2, <2>4
    <3>2. \A k \in 1 .. 2 * l - 1 : pos + k <= 8 * size => BitAt(pos + k - 1) = code[k]
      BY <2>2
    <3>3. v + 1 \in Nat
      OBVIOUS
    <3>4. q.next >= 8 * size
      BY <2>1, <3>1, <3>2, <3>3, ReadUeCut
    <3> QED BY <2>2, <2>4, <3>4
  <2> QED BY <2>2, <2>3, <2>4
<1>5. CASE f.kind = "u"
  <2>1. f.v < Pow2[f.n] /\ f.v \in Nat
    BY <1>2, <1>5 DEF Small
  <2>2. code = BitsOf(f.n, f.v, FALSE)
    BY <1>5 DEF Codes
  <2>3. Len(code) = f.n
    BY <1>2, <2>2 DEF BitsOf
  <2>4. r = [v |-> Number(pos, f.n), next |-> pos + f.n]
    BY <1>5 DEF ReadField
  <2>5. CASE pos + f.n <= 8 * size
    <3>1. ASSUME NEW k \in 1 .. f.n PROVE BitAt(pos + k - 1) = Bit(f.v, f.n - k)
      <4>1. pos + k <= 8 * size /\ f.n - k < Width
        BY <1>2, <2>5, WidthFacts
      <4>2. code[k] = Bit(f.v, f.n - k)
        BY <2>2, <4>1 DEF BitsOf
      <4> QED BY <2>3, <4>1, <4>2
    <3>2. f.v < 2 * Pow2[f.n]
      BY <1>2, <2>1, WidthFacts
    <3>3. Number(pos, f.n) = f.v
      BY <1>2, <1>3, <2>1, <3>1, <3>2, NumberOf
    <3> QED BY <1>2, <2>3, <2>4, <2>5, <3>3
  <2>6. CASE pos + f.n > 8 * size
    BY <1>2, <2>3, <2>4, <2>6
  <2> QED BY <1>2, <2>5, <2>6
<1>6. CASE f.kind = "ue"
  <2>1. r \in ReadUe(pos) /\ f.v + 1 < Pow2[Width \div 2] /\ f.v \in Nat
    BY <1>2, <1>6 DEF ReadField, Small
  <2>2. PICK masked \in BOOLEAN : code = UeCode(f.v, masked)
    BY <1>6 DEF Codes
  <2> QED BY <1>4, <2>1, <2>2
<1>7. CASE f.kind = "se"
  <2> DEFINE u == Doubled(f.v)
  <2>1. u + 1 < Pow2[Width \div 2]
    BY <1>7 DEF Small
  <2>2. u \in Nat /\ SeToUe(f.v) = u
    BY <1>2, <2>1, SeToUeTyped
  <2>3. PICK masked \in BOOLEAN : code = UeCode(u, masked)
    BY <1>7, <2>2 DEF Codes
  <2>4. PICK q \in ReadUe(pos) : r = [q EXCEPT !.v = UeToSe(@)]
    BY <1>7 DEF ReadField
  <2>5. q = [v |-> q.v, next |-> q.next]
    BY <1>3, ReadUeTyped
  <2>6. r.v = UeToSe(q.v) /\ r.next = q.next
    BY <2>4, <2>5
  <2>7. UeToSe(u) = f.v
    BY <1>2, <2>1, SignedBack
  <2> HIDE DEF u
  <2>8. /\ pos + Len(code) <= 8 * size => q.v = u /\ q.next = pos + Len(code)
        /\ pos + Len(code) > 8 * size => q.next >= 8 * size
    BY <1>4, <2>1, <2>2, <2>3
  <2> QED BY <2>6, <2>7, <2>8
<1> QED BY <1>2, <1>5, <1>6, <1>7

(***************************************************************************)
(* The invariant behind what a reader gets.                                *)
(***************************************************************************)

Types ==
  /\ size \in Nat /\ pos \in Nat /\ mem \in [0 .. 8 * size - 1 -> {0, 1}]
  /\ phase \in {"write", "unwritten", "read", "done", "failed"}
  /\ written \in Seq([field : Fields, at : Nat, code : Seq({0, 1})])
  /\ \A k \in 1 .. Len(written) : written[k].code \in Codes(written[k].field)
  /\ seen \in Seq(Int) /\ Len(seen) <= Len(written)

\* The codes lie one after another, and so far the writer is at their end.
Chained ==
  /\ \A k \in 1 .. Len(written) : written[k].at = EndOf(k - 1)
  /\ phase = "write" =>
       pos = EndOf(Len(written)) /\ size = Size /\ seen = <<>>

\* The bits that are there, of the codes and of the trailing bits.
Held ==
  phase # "unwritten" =>
    \A k \in 1 .. Len(written) : \A m \in 1 .. Len(written[k].code) :
      written[k].at + m <= 8 * size
        => mem[written[k].at + m - 1] = written[k].code[m]

Ended ==
  phase \in {"read", "done", "failed"} =>
    /\ size <= Whole
    /\ EndOf(Len(written)) < 8 * size => mem[EndOf(Len(written))] = 1
    /\ \A k \in EndOf(Len(written)) + 1 .. 8 * size - 1 : mem[k] = 0

\* A reader of small fields is at the end of one, or at the end of the bytes.
Placed ==
  phase = "read" /\ (\A m \in 1 .. Len(seen) : Small(written[m].field))
    => IF EndOf(Len(seen)) <= 8 * size THEN pos = EndOf(Len(seen))
                                       ELSE pos >= 8 * size

IInv == Types /\ Chained /\ Held /\ Ended /\ Placed /\ ReadsBack /\ CutDetected

LEMMA WrittenTyped ==
  ASSUME Types
  PROVE  /\ Len(written) \in Nat /\ Len(seen) \in Nat
         /\ \A k \in 1 .. Len(written) :
              written[k] \in [field : Fields, at : Nat, code : Seq({0, 1})]
<1> DEFINE R == [field : Fields, at : Nat, code : Seq({0, 1})]
<1>1. Len(written) \in Nat /\ Len(seen) \in Nat
  BY DEF Types
<1>2. written \in Seq(R)
  BY DEF Types
<1>3. \A k \in 1 .. Len(written) : written[k] \in R
  <2> HIDE DEF R
  <2> QED BY <1>1, <1>2
<1> QED BY <1>1, <1>3

LEMMA EndsTyped ==
  ASSUME Types, Chained
  PROVE  /\ EndOf(0) = 0 /\ \A k \in 0 .. Len(written) : EndOf(k) \in Nat
         /\ \A k \in 1 .. Len(written) :
              EndOf(k) = EndOf(k - 1) + Len(written[k].code)
              /\ Len(written[k].code) \in Nat /\ written[k].at = EndOf(k - 1)
<1>1. Len(written) \in Nat
  BY DEF Types
<1>2. ASSUME NEW k \in 1 .. Len(written)
      PROVE  /\ written[k].at \in Nat /\ Len(written[k].code) \in Nat
             /\ EndOf(k) = written[k].at + Len(written[k].code)
             /\ written[k].at = EndOf(k - 1)
  <2>1. written[k] \in [field : Fields, at : Nat, code : Seq({0, 1})]
    BY WrittenTyped
  <2> QED BY <1>1, <2>1 DEF EndOf, Chained
<1>3. EndOf(0) = 0
  BY DEF EndOf
<1>4. ASSUME NEW k \in 1 .. Len(written)
      PROVE  /\ EndOf(k) = EndOf(k - 1) + Len(written[k].code)
             /\ Len(written[k].code) \in Nat /\ written[k].at = EndOf(k - 1)
             /\ EndOf(k) \in Nat
  BY <1>2
<1>5. ASSUME NEW k \in 0 .. Len(written) PROVE EndOf(k) \in Nat
  <2>1. CASE k = 0
    BY <1>3, <2>1
  <2>2. CASE k \in 1 .. Len(written)
    BY <1>4, <2>2
  <2> QED BY <1>1, <2>1, <2>2
<1> QED BY <1>3, <1>4, <1>5

LEMMA EndsGrow ==
  ASSUME Types, Chained, NEW j \in 0 .. Len(written)
  PROVE  \A k \in 0 .. Len(written) : j <= k => EndOf(j) <= EndOf(k)
<1> DEFINE S == {k \in Nat : j <= k => EndOf(j) <= EndOf(k)}
<1>0. Len(written) \in Nat
  BY DEF Types
<1>1. 0 \in S
  <2>1. j <= 0 => j = 0
    BY <1>0
  <2>2. EndOf(j) \in Nat
    BY EndsTyped
  <2> QED BY <2>1, <2>2
<1>2. ASSUME NEW k \in 0 .. Len(written) - 1, k \in S PROVE k + 1 \in S
  <2>1. k + 1 \in 1 .. Len(written) /\ k + 1 - 1 = k /\ k \in 0 .. Len(written)
        /\ k + 1 \in 0 .. Len(written)
    BY <1>0
  <2>2. EndOf(k + 1) = EndOf(k) + Len(written[k + 1].code)
        /\ Len(written[k + 1].code) \in Nat /\ EndOf(k) \in Nat /\ EndOf(j) \in Nat
    BY <2>1, EndsTyped
  <2>3. CASE j <= k
    <3>1. EndOf(j) <= EndOf(k)
      BY <1>2, <2>3
    <3>2. EndOf(j) <= EndOf(k + 1)
      <4>1. \A a, b, c \in Nat : a <= b => a <= b + c
        OBVIOUS
      <4> QED BY <2>2, <3>1, <4>1
    <3> QED BY <2>1, <3>2
  <2>4. CASE j = k + 1
    BY <2>1, <2>2, <2>4
  <2>5. CASE j > k + 1
    BY <1>0, <2>1, <2>5
  <2> QED BY <1>0, <2>1, <2>3, <2>4, <2>5
<1>3. \A k \in 0 .. Len(written) : k \in S
  <2> HIDE DEF S
  <2> QED BY <1>0, <1>1, <1>2, BoundedInduction
<1> QED BY <1>3

\* Two ends differ exactly if a code between them has bits.
LEMMA EndsDiffer ==
  ASSUME Types, Chained, NEW j \in 0 .. Len(written)
  PROVE  EndOf(j) < EndOf(Len(written)) <=>
           \E k \in j + 1 .. Len(written) : written[k].code # <<>>
<1> DEFINE n == Len(written)
           S == {k \in Nat : j <= k => EndOf(k) = EndOf(j)}
<1>0. n \in Nat /\ j \in Nat
  BY DEF Types
<1>1. ASSUME NEW k \in j + 1 .. n, written[k].code # <<>>
      PROVE  EndOf(j) < EndOf(n)
  <2>1. k \in 1 .. n /\ k - 1 \in 0 .. n /\ k \in 0 .. n /\ j <= k - 1 /\ k <= n /\ n \in 0 .. n
    BY <1>0
  <2>2. Len(written[k].code) # 0
    <3>1. written[k].code \in Seq({0, 1})
      <4>1. written[k] \in [field : Fields, at : Nat, code : Seq({0, 1})]
        BY <2>1, WrittenTyped
      <4> QED BY <4>1
    <3> QED BY <1>1, <3>1
  <2>3. EndOf(j) <= EndOf(k - 1) /\ EndOf(k) <= EndOf(n)
    BY <2>1, EndsGrow
  <2>4. EndOf(k) = EndOf(k - 1) + Len(written[k].code) /\ Len(written[k].code) \in Nat
    BY <2>1, EndsTyped
  <2>5. EndOf(j) \in Nat /\ EndOf(k - 1) \in Nat /\ EndOf(k) \in Nat /\ EndOf(n) \in Nat
    BY <2>1, EndsTyped
  <2> DEFINE a == EndOf(j)
             b == EndOf(k - 1)
             c == EndOf(k)
             d == EndOf(n)
             m == Len(written[k].code)
  <2>6. /\ a \in Nat /\ b \in Nat /\ c \in Nat /\ d \in Nat /\ m \in Nat
        /\ m # 0 /\ c = b + m /\ a <= b /\ c <= d
    BY <2>2, <2>3, <2>4, <2>5
  <2> HIDE DEF a, b, c, d, m
  <2>7. a < d
    BY <2>6
  <2> QED BY <2>7 DEF a, d
<1>2. ASSUME \A k \in j + 1 .. n : written[k].code = <<>>
      PROVE  EndOf(n) = EndOf(j)
  <2>1. 0 \in S
    <3>1. j <= 0 => j = 0
      BY <1>0
    <3> QED BY <3>1
  <2>2. ASSUME NEW k \in 0 .. n - 1, k \in S PROVE k + 1 \in S
    <3>1. k + 1 \in 1 .. n /\ k + 1 - 1 = k /\ k \in 0 .. n /\ k \in Nat /\ k + 1 \in Nat
      BY <1>0
    <3>2. EndOf(k + 1) = EndOf(k) + Len(written[k + 1].code) /\ EndOf(k) \in Nat
      BY <3>1, EndsTyped
    <3>3. CASE j <= k
      <4>1. written[k + 1].code = <<>>
        BY <1>0, <1>2, <3>1, <3>3
      <4>2. Len(written[k + 1].code) = 0
        BY <4>1
      <4>3. EndOf(k + 1) = EndOf(k)
        <5>1. \A a \in Nat : a + 0 = a
          OBVIOUS
        <5> QED BY <3>2, <4>2, <5>1
      <4>4. EndOf(k) = EndOf(j)
        BY <2>2, <3>3
      <4> QED BY <3>1, <4>3, <4>4
    <3>4. CASE j = k + 1
      BY <3>1, <3>4
    <3>5. CASE j > k + 1
      BY <1>0, <3>1, <3>5
    <3> QED BY <1>0, <3>1, <3>3, <3>4, <3>5
  <2>3. \A k \in 0 .. n : k \in S
    <3> HIDE DEF S, n
    <3> QED BY <1>0, <2>1, <2>2, BoundedInduction
  <2> QED BY <1>0, <2>3
<1>3. EndOf(j) \in Nat
  BY EndsTyped
<1>4. CASE \E k \in j + 1 .. n : written[k].code # <<>>
  BY <1>1, <1>4
<1>5. CASE \A k \in j + 1 .. n : written[k].code = <<>>
  <2>1. EndOf(n) = EndOf(j)
    BY <1>2, <1>5
  <2>2. ~(EndOf(j) < EndOf(n))
    BY <1>3, <2>1
  <2> QED BY <1>5, <2>2
<1> QED BY <1>4, <1>5

LEMMA PutIs ==
  ASSUME size \in Nat, mem \in [0 .. 8 * size - 1 -> {0, 1}], pos \in Nat,
         NEW bits \in Seq({0, 1})
  PROVE  /\ Put(bits, mem) \in [0 .. 8 * size - 1 -> {0, 1}]
         /\ \A q \in 0 .. 8 * size - 1 :
              /\ q < pos => Put(bits, mem)[q] = mem[q]
              /\ \A k \in 1 .. Len(bits) :
                   q = pos + k - 1 => Put(bits, mem)[q] = bits[k]
<1>1. ASSUME NEW q \in 0 .. 8 * size - 1
      PROVE  (IF q - pos + 1 \in 1 .. Len(bits) THEN bits[q - pos + 1] ELSE mem[q])
               \in {0, 1}
  OBVIOUS
<1>2. DOMAIN mem = 0 .. 8 * size - 1
  OBVIOUS
<1>3. Put(bits, mem) \in [0 .. 8 * size - 1 -> {0, 1}]
  BY <1>1, <1>2 DEF Put
<1>4. ASSUME NEW q \in 0 .. 8 * size - 1
      PROVE  Put(bits, mem)[q] = IF q - pos + 1 \in 1 .. Len(bits)
                                 THEN bits[q - pos + 1] ELSE mem[q]
  BY <1>2 DEF Put
<1>5. ASSUME NEW q \in 0 .. 8 * size - 1, q < pos PROVE Put(bits, mem)[q] = mem[q]
  <2>1. q - pos + 1 \notin 1 .. Len(bits)
    BY <1>5
  <2> QED BY <1>4, <2>1
<1>6. ASSUME NEW q \in 0 .. 8 * size - 1, NEW k \in 1 .. Len(bits), q = pos + k - 1
      PROVE  Put(bits, mem)[q] = bits[k]
  <2>1. q - pos + 1 = k
    BY <1>6
  <2> QED BY <1>4, <2>1
<1> QED BY <1>3, <1>5, <1>6

LEMMA AlignedIs ==
  ASSUME NEW x \in Nat
  PROVE  /\ Aligned(x) \in Nat /\ Aligned(x) \div 8 \in Nat
         /\ Aligned(x) = 8 * (Aligned(x) \div 8) /\ x <= Aligned(x)
BY DEF Aligned, bs_byte_aligned

LEMMA InitIsIInv ==
  ASSUME Init
  PROVE  IInv
<1>1. Types
  <2>1. size \in Nat /\ pos \in Nat
    BY BufferSize DEF Init
  <2>2. mem \in [0 .. 8 * size - 1 -> {0, 1}]
    BY DEF Init
  <2> QED BY <2>1, <2>2 DEF Init, Types
<1>2. Chained
  BY DEF Init, Chained, EndOf
<1> QED BY <1>1, <1>2 DEF Init, IInv, Held, Ended, Placed, ReadsBack, CutDetected

LEMMA FieldWritten ==
  ASSUME IInv, NEW f \in Fields, Write(f)
  PROVE  IInv'
<1> DEFINE F == [field : Fields, at : Nat, code : Seq({0, 1})]
<1>0. PICK n \in Nat : n = Len(written)
  BY WrittenTyped DEF IInv
<1>1. PICK code \in Codes(f) :
        /\ mem' = Put(code, mem)
        /\ pos' = pos + Len(code)
        /\ written' = Append(written, [field |-> f, at |-> pos, code |-> code])
  BY DEF Write
<1> DEFINE e == [field |-> f, at |-> pos, code |-> code]
<1>2. /\ phase = "write" /\ phase' = "write" /\ size' = size /\ seen' = seen
      /\ seen = <<>> /\ pos = EndOf(n) /\ size = Size
  BY <1>0 DEF Write, IInv, Chained
<1>3. /\ size \in Nat /\ pos \in Nat /\ mem \in [0 .. 8 * size - 1 -> {0, 1}]
      /\ n \in Nat /\ written \in Seq(F) /\ Len(written) = n
  BY <1>0 DEF IInv, Types
<1>4. code \in Seq({0, 1}) /\ Len(code) \in Nat
  BY CodesTyped
<1>5. e \in F /\ e.field = f /\ e.at = pos /\ e.code = code
  BY <1>3, <1>4
<1> HIDE DEF e
<1>6. written' = Append(written, e)
  BY <1>1 DEF e
<1>7. /\ written' \in Seq(F) /\ Len(written') = n + 1 /\ written'[n + 1] = e
      /\ \A k \in 1 .. n : written'[k] = written[k]
  <2> HIDE DEF F
  <2> QED BY <1>3, <1>5, <1>6
<1>8. \A k \in 1 .. Len(written') : k \in 1 .. n \/ k = n + 1
  BY <1>3, <1>7
<1>9. mem' \in [0 .. 8 * size - 1 -> {0, 1}]
  BY <1>1, <1>3, <1>4, PutIs
<1>10. Types'
  <2>1. size' \in Nat /\ pos' \in Nat /\ mem' \in [0 .. 8 * size' - 1 -> {0, 1}]
    BY <1>1, <1>2, <1>3, <1>4, <1>9
  <2>2. ASSUME NEW k \in 1 .. Len(written')
        PROVE  written'[k].code \in Codes(written'[k].field)
    <3>1. CASE k \in 1 .. n
      BY <1>3, <1>7, <3>1 DEF IInv, Types
    <3>2. CASE k = n + 1
      BY <1>5, <1>7, <3>2
    <3> QED BY <1>8, <3>1, <3>2
  <2>3. seen' \in Seq(Int) /\ Len(seen') <= Len(written')
    BY <1>2, <1>3, <1>7
  <2> QED BY <1>2, <1>7, <2>1, <2>2, <2>3 DEF Types
<1>11. \A k \in 0 .. n : EndOf(k)' = EndOf(k)
  <2>1. ASSUME NEW k \in 0 .. n PROVE EndOf(k)' = EndOf(k)
    <3>1. CASE k = 0
      BY <3>1 DEF EndOf
    <3>2. CASE k \in 1 .. n
      <4>1. written'[k] = written[k]
        BY <1>7, <3>2
      <4> QED BY <4>1, Zenon DEF EndOf
    <3> QED BY <1>3, <3>1, <3>2
  <2> QED BY <2>1
<1>12. EndOf(n + 1)' = pos'
  <2>1. EndOf(n + 1)' = written'[n + 1].at + Len(written'[n + 1].code)
    BY <1>3 DEF EndOf
  <2>2. written'[n + 1].at = pos /\ written'[n + 1].code = code
    BY <1>5, <1>7
  <2> QED BY <1>1, <2>1, <2>2
<1>13. Chained'
  <2>1. ASSUME NEW k \in 1 .. Len(written') PROVE written'[k].at = EndOf(k - 1)'
    <3>1. CASE k \in 1 .. n
      <4>1. k - 1 \in 0 .. n
        BY <1>3, <3>1
      <4> QED BY <1>3, <1>7, <1>11, <3>1, <4>1 DEF IInv, Chained
    <3>2. CASE k = n + 1
      <4>1. k - 1 = n /\ n \in 0 .. n
        BY <1>3, <3>2
      <4> QED BY <1>2, <1>5, <1>7, <1>11, <3>2, <4>1
    <3> QED BY <1>8, <3>1, <3>2
  <2>2. pos' = EndOf(Len(written))'
    BY <1>7, <1>12, Zenon
  <2> QED BY <1>2, <2>1, <2>2 DEF Chained
<1>14. Held'
  <2>1. ASSUME NEW k \in 1 .. Len(written'), NEW m \in 1 .. Len(written'[k].code),
               written'[k].at + m <= 8 * size
        PROVE  mem'[written'[k].at + m - 1] = written'[k].code[m]
    <3>1. CASE k \in 1 .. n
      <4> DEFINE a == written[k].at
                 q == a + m - 1
      <4>1. written'[k] = written[k] /\ written[k] \in F
        BY <1>3, <1>7, <3>1, WrittenTyped DEF IInv
      <4>2. a \in Nat /\ m \in Nat /\ m >= 1 /\ q \in 0 .. 8 * size - 1
        BY <1>3, <2>1, <4>1, SMTT(30)
      <4>3. mem[q] = written[k].code[m]
        BY <1>2, <1>3, <2>1, <3>1, <4>1 DEF IInv, Held
      <4>4. q < pos
        <5>1. EndOf(k) <= EndOf(n)
          <6>1. k \in 0 .. n /\ n \in 0 .. n /\ k <= n
            BY <1>3, <3>1
          <6> QED BY <1>3, <6>1, EndsGrow DEF IInv
        <5>2. EndOf(k) = EndOf(k - 1) + Len(written[k].code)
              /\ written[k].at = EndOf(k - 1) /\ Len(written[k].code) \in Nat
          BY <1>3, <3>1, EndsTyped DEF IInv
        <5>3. m <= Len(written[k].code)
          BY <4>1, <5>2
        <5>4. EndOf(k) = a + Len(written[k].code)
          BY <5>2
        <5>5. \A x, y, z \in Nat : y <= z => x + y - 1 < x + z
          OBVIOUS
        <5>6. q < EndOf(k)
          BY <4>2, <5>2, <5>3, <5>4, <5>5
        <5>7. EndOf(k) \in Nat
          <6>1. k \in 0 .. n
            BY <1>3, <3>1
          <6> QED BY <1>3, <6>1, EndsTyped DEF IInv
        <5> HIDE DEF q
        <5> QED BY <1>2, <1>3, <4>2, <5>1, <5>6, <5>7
      <4> HIDE DEF q
      <4>5. Put(code, mem)[q] = mem[q]
        BY <1>3, <1>4, <4>2, <4>4, PutIs
      <4> QED BY <1>1, <4>1, <4>3, <4>5 DEF q
    <3>2. CASE k = n + 1
      <4>1. written'[k].at = pos /\ written'[k].code = code
        BY <1>5, <1>7, <3>2
      <4>2. m \in 1 .. Len(code) /\ pos + m - 1 \in 0 .. 8 * size - 1
        BY <1>3, <1>4, <2>1, <4>1
      <4>3. Put(code, mem)[pos + m - 1] = code[m]
        BY <1>3, <1>4, <4>2, PutIs
      <4> QED BY <1>1, <4>1, <4>3
    <3> QED BY <1>8, <3>1, <3>2
  <2> QED BY <1>2, <2>1 DEF Held
<1>15. Ended' /\ Placed' /\ ReadsBack' /\ CutDetected'
  BY <1>2 DEF Ended, Placed, ReadsBack, CutDetected
<1> QED BY <1>10, <1>13, <1>14, <1>15 DEF IInv

LEMMA TrailingBitsAre ==
  ASSUME NEW at \in Nat
  PROVE  /\ TrailingBits(at) \in Seq({0, 1}) /\ Len(TrailingBits(at)) \in Nat
         /\ at + Len(TrailingBits(at)) = Aligned(at + 1)
         /\ Len(TrailingBits(at)) >= 1
         /\ \A k \in 1 .. Len(TrailingBits(at)) :
              TrailingBits(at)[k] = IF k = 1 THEN 1 ELSE 0
<1> DEFINE n == Aligned(at + 1) - at
<1>1. n \in Nat /\ n >= 1 /\ Aligned(at + 1) \in Nat
  BY AlignedIs
<1>2. TrailingBits(at) = [k \in 1 .. n |-> IF k = 1 THEN 1 ELSE 0]
  BY DEF TrailingBits
<1>3. at + n = Aligned(at + 1)
  BY <1>1
<1> HIDE DEF n
<1>4. TrailingBits(at) \in [1 .. n -> {0, 1}]
  BY <1>2
<1>5. TrailingBits(at) \in Seq({0, 1}) /\ Len(TrailingBits(at)) = n
  BY <1>1, <1>4
<1> QED BY <1>1, <1>2, <1>3, <1>5

LEMMA PayloadFinished ==
  ASSUME IInv, Finish
  PROVE  IInv'
<1> DEFINE stop == TrailingBits(pos)
           end == (pos + Len(stop)) \div 8
<1>0. PICK n \in Nat : n = Len(written)
  BY WrittenTyped DEF IInv
<1>1. /\ phase = "write" /\ written' = written /\ seen' = seen /\ seen = <<>>
      /\ pos = EndOf(n) /\ size = Size
  BY <1>0 DEF Finish, IInv, Chained
<1>2. size \in Nat /\ pos \in Nat /\ mem \in [0 .. 8 * size - 1 -> {0, 1}]
  BY DEF IInv, Types
<1>3. /\ stop \in Seq({0, 1}) /\ Len(stop) \in Nat /\ Len(stop) >= 1
      /\ pos + Len(stop) = Aligned(pos + 1)
      /\ \A k \in 1 .. Len(stop) : stop[k] = IF k = 1 THEN 1 ELSE 0
  BY <1>2, TrailingBitsAre
<1>4. end \in Nat /\ 8 * end = Aligned(pos + 1) /\ pos + Len(stop) = 8 * end
  BY <1>2, <1>3, AlignedIs, SMTT(30)
<1>5. /\ Put(stop, mem) \in [0 .. 8 * size - 1 -> {0, 1}]
      /\ \A q \in 0 .. 8 * size - 1 :
           /\ q < pos => Put(stop, mem)[q] = mem[q]
           /\ \A k \in 1 .. Len(stop) :
                q = pos + k - 1 => Put(stop, mem)[q] = stop[k]
  BY <1>2, <1>3, PutIs
<1>6. \A k : EndOf(k)' = EndOf(k)
  BY <1>1, Zenon DEF EndOf
<1>7. CASE /\ end > size
           /\ pos' = pos + Len(stop) /\ mem' = Put(stop, mem)
           /\ phase' = "unwritten" /\ UNCHANGED size
  <2>1. Types'
    <3>1. pos' \in Nat
      BY <1>2, <1>3, <1>7
    <3>2. size' \in Nat /\ mem' \in [0 .. 8 * size' - 1 -> {0, 1}]
      BY <1>2, <1>5, <1>7
    <3> QED BY <1>1, <1>7, <3>1, <3>2 DEF IInv, Types
  <2>2. Chained'
    BY <1>1, <1>6, <1>7 DEF IInv, Chained
  <2> QED BY <1>1, <1>7, <2>1, <2>2
          DEF IInv, Held, Ended, Placed, ReadsBack, CutDetected
<1>8. CASE /\ end <= size
           /\ \E cut \in 0 .. end :
                /\ mem' = [k \in 0 .. 8 * cut - 1 |-> Put(stop, mem)[k]]
                /\ size' = cut
           /\ pos' = 0 /\ phase' = "read"
  <2>1. PICK cut \in 0 .. end :
          mem' = [k \in 0 .. 8 * cut - 1 |-> Put(stop, mem)[k]] /\ size' = cut
    BY <1>8
  <2>2. cut \in Nat /\ cut <= end /\ cut <= size
        /\ \A q \in 0 .. 8 * cut - 1 : q \in 0 .. 8 * size - 1
    BY <1>2, <1>4, <1>8, <2>1
  <2>3. mem' \in [0 .. 8 * cut - 1 -> {0, 1}]
        /\ \A q \in 0 .. 8 * cut - 1 : mem'[q] = Put(stop, mem)[q]
    BY <1>5, <2>1, <2>2
  <2> HIDE DEF stop, end
  <2>4. Types'
    BY <1>1, <1>8, <2>1, <2>2, <2>3 DEF IInv, Types
  <2>5. Chained'
    BY <1>1, <1>6, <1>8 DEF IInv, Chained
  <2>6. Held'
    <3>1. ASSUME NEW k \in 1 .. Len(written), NEW m \in 1 .. Len(written[k].code),
                 written[k].at + m <= 8 * cut
          PROVE  mem'[written[k].at + m - 1] = written[k].code[m]
      <4> DEFINE a == written[k].at
                 q == a + m - 1
      <4>1. written[k] \in [field : Fields, at : Nat, code : Seq({0, 1})]
        BY WrittenTyped DEF IInv
      <4>2. a \in Nat /\ m \in Nat /\ m >= 1 /\ q \in 0 .. 8 * cut - 1
            /\ written[k].at + m <= 8 * size
        <5>1. a \in Nat /\ Len(written[k].code) \in Nat
          BY <4>1
        <5>2. m \in Nat /\ m >= 1 /\ a + m <= 8 * cut
          BY <3>1, <5>1
        <5> HIDE DEF a
        <5>3. q \in 0 .. 8 * cut - 1 /\ a + m <= 8 * size
          BY <1>2, <2>2, <5>1, <5>2
        <5> QED BY <5>1, <5>2, <5>3 DEF a
      <4>3. mem[q] = written[k].code[m]
        BY <1>1, <4>2 DEF IInv, Held
      <4>4. q < pos
        <5>1. k \in 0 .. n /\ n \in 0 .. n /\ k <= n
          BY <1>0
        <5>2. EndOf(k) <= EndOf(n)
          BY <1>0, <5>1, EndsGrow DEF IInv
        <5>3. EndOf(k) = EndOf(k - 1) + Len(written[k].code)
              /\ written[k].at = EndOf(k - 1) /\ Len(written[k].code) \in Nat
          BY EndsTyped DEF IInv
        <5>4. EndOf(k) \in Nat
          BY <1>0, <5>1, EndsTyped DEF IInv
        <5>5. EndOf(k) = a + Len(written[k].code) /\ m <= Len(written[k].code)
          BY <5>3
        <5>6. \A x, y, z \in Nat : y <= z => x + y - 1 < x + z
          OBVIOUS
        <5>7. q < EndOf(k)
          BY <4>2, <5>3, <5>5, <5>6
        <5> HIDE DEF q
        <5> QED BY <1>1, <1>2, <4>2, <5>2, <5>4, <5>7
      <4> HIDE DEF q
      <4>5. mem'[q] = mem[q]
        BY <1>5, <2>2, <2>3, <4>2, <4>4
      <4> QED BY <4>3, <4>5 DEF q
    <3>2. ASSUME NEW k \in 1 .. Len(written'), NEW m \in 1 .. Len(written'[k].code),
                 written'[k].at + m <= 8 * size'
          PROVE  mem'[written'[k].at + m - 1] = written'[k].code[m]
      <4>1. k \in 1 .. Len(written) /\ m \in 1 .. Len(written[k].code)
            /\ written[k].at + m <= 8 * cut
        BY <1>1, <2>1, <3>2
      <4>2. mem'[written[k].at + m - 1] = written[k].code[m]
        BY <3>1, <4>1
      <4> QED BY <1>1, <4>2
    <3> QED BY <3>2 DEF Held
  <2>7. Ended'
    <3>1. EndOf(Len(written))' = pos /\ EndOf(Len(written)) = pos
      BY <1>0, <1>1, <1>6
    <3>2. Whole' = end
      <4>1. Whole' = Aligned(pos + 1) \div 8
        BY <3>1 DEF Whole, Aligned, bs_byte_aligned
      <4> QED BY <1>4, <4>1
    <3>3. ASSUME pos < 8 * cut PROVE mem'[pos] = 1
      <4>1. pos \in 0 .. 8 * cut - 1 /\ 1 \in 1 .. Len(stop) /\ pos = pos + 1 - 1
        BY <1>2, <1>3, <2>2, <3>3
      <4> QED BY <1>3, <1>5, <2>2, <2>3, <4>1
    <3>4. ASSUME NEW k \in pos + 1 .. 8 * cut - 1 PROVE mem'[k] = 0
      <4> DEFINE m == k - pos + 1
      <4>1. k \in 0 .. 8 * cut - 1 /\ m \in 1 .. Len(stop) /\ m # 1 /\ k = pos + m - 1
        BY <1>2, <1>3, <1>4, <2>2
      <4> HIDE DEF m
      <4> QED BY <1>3, <1>5, <2>2, <2>3, <4>1
    <3> QED BY <1>1, <2>1, <2>2, <3>1, <3>2, <3>3, <3>4 DEF Ended
  <2>8. Placed'
    <3>1. EndOf(Len(seen))' = 0
      BY <1>1 DEF EndOf
    <3>2. 0 <= 8 * size'
      BY <2>1, <2>2
    <3> QED BY <1>8, <3>1, <3>2 DEF Placed
  <2>9. ReadsBack' /\ CutDetected'
    BY <1>1, <1>8 DEF ReadsBack, CutDetected
  <2> QED BY <2>4, <2>5, <2>6, <2>7, <2>8, <2>9 DEF IInv
<1> QED BY <1>7, <1>8 DEF Finish

\* A bit of the code at the cursor, if it arrived.
LEMMA CodeAtCursor ==
  ASSUME IInv, phase = "read", NEW k \in 1 .. Len(written), pos = EndOf(k - 1),
         NEW m \in 1 .. Len(written[k].code), pos + m <= 8 * size
  PROVE  BitAt(pos + m - 1) = written[k].code[m]
<1>1. /\ size \in Nat /\ pos \in Nat /\ mem \in [0 .. 8 * size - 1 -> {0, 1}]
  BY DEF IInv, Types
<1>2. written[k].at = pos /\ Len(written[k].code) \in Nat
  BY EndsTyped DEF IInv
<1>3. mem[written[k].at + m - 1] = written[k].code[m]
  BY <1>2 DEF IInv, Held
<1>4. pos + m - 1 \in Nat /\ pos + m - 1 < 8 * size
  <2>1. m \in Nat /\ m >= 1
    BY <1>2
  <2>2. \A a, b, c \in Nat : b >= 1 /\ a + b <= c => a + b - 1 \in Nat /\ a + b - 1 < c
    OBVIOUS
  <2>3. 8 * size \in Nat
    BY <1>1
  <2> QED BY <1>1, <2>1, <2>2, <2>3
<1> QED BY <1>1, <1>2, <1>3, <1>4, BitAtTyped

LEMMA FieldIsRead ==
  ASSUME IInv, Read
  PROVE  IInv'
<1>0. PICK n \in Nat : n = Len(written)
  BY WrittenTyped DEF IInv
<1>1. PICK j \in Nat : j = Len(seen)
  BY WrittenTyped DEF IInv
<1> DEFINE e == written[j + 1]
           f == e.field
<1>2. PICK r \in ReadField(f) : seen' = Append(seen, r.v) /\ pos' = r.next
  BY <1>1 DEF Read
<1>3. /\ phase = "read" /\ phase' = "read" /\ mem' = mem /\ size' = size
      /\ written' = written /\ j + 1 \in 1 .. n /\ j \in 0 .. n /\ j + 1 \in 0 .. n
  BY <1>0, <1>1 DEF Read
<1>4. /\ size \in Nat /\ pos \in Nat /\ mem \in [0 .. 8 * size - 1 -> {0, 1}]
      /\ seen \in Seq(Int)
  BY DEF IInv, Types
<1>5. e \in [field : Fields, at : Nat, code : Seq({0, 1})] /\ e.code \in Codes(f)
  BY <1>0, <1>3, WrittenTyped DEF IInv, Types
<1>6. f \in Fields /\ Len(e.code) \in Nat
  BY <1>5
<1>7. r.v \in Int /\ r.next \in Nat /\ r.next >= pos
  BY <1>2, <1>4, <1>6, ReadFieldTyped
<1>8. /\ seen' \in Seq(Int) /\ Len(seen') = j + 1 /\ seen'[j + 1] = r.v
      /\ \A k \in 1 .. j : seen'[k] = seen[k]
  BY <1>1, <1>2, <1>4, <1>7
<1>9. \A k : EndOf(k)' = EndOf(k)
  BY <1>3, Zenon DEF EndOf
<1>10. Types'
  <2>1. pos' \in Nat /\ Len(seen') <= Len(written')
    BY <1>0, <1>2, <1>3, <1>7, <1>8
  <2> QED BY <1>3, <1>8, <2>1 DEF IInv, Types
<1>11. Chained' /\ Held'
  BY <1>3, <1>9 DEF IInv, Chained, Held
<1>12. Ended'
  <2>1. EndOf(Len(written))' = EndOf(Len(written))
    BY <1>0, <1>3, <1>9
  <2>2. Whole' = Whole
    BY <2>1 DEF Whole, Aligned, bs_byte_aligned
  <2> QED BY <1>3, <2>1, <2>2 DEF IInv, Ended
<1>13. /\ EndOf(j) \in Nat /\ EndOf(j + 1) \in Nat /\ EndOf(j + 1) = EndOf(j) + Len(e.code)
  <2>1. j + 1 - 1 = j
    BY <1>1
  <2> QED BY <1>0, <1>3, <2>1, EndsTyped DEF IInv
<1>14. ASSUME \A m \in 1 .. j + 1 : Small(written[m].field)
       PROVE  /\ EndOf(j + 1) <= 8 * size => r.v = f.v /\ pos' = EndOf(j + 1)
              /\ EndOf(j + 1) > 8 * size => pos' >= 8 * size
  <2>1. Small(f) /\ \A m \in 1 .. j : Small(written[m].field)
    BY <1>1, <1>14
  <2>2. CASE EndOf(j) <= 8 * size
    <3>1. pos = EndOf(j)
      BY <1>1, <1>3, <2>1, <2>2 DEF IInv, Placed
    <3>2. \A k \in 1 .. Len(e.code) : pos + k <= 8 * size => BitAt(pos + k - 1) = e.code[k]
      <4>1. pos = EndOf(j + 1 - 1) /\ j + 1 \in 1 .. Len(written)
        BY <1>0, <1>1, <1>3, <3>1
      <4> QED BY <1>3, <4>1, CodeAtCursor
    <3> DEFINE code == e.code
    <3>3. code \in Codes(f)
      BY <1>5
    <3> HIDE DEF f, e
    <3>4. /\ pos + Len(code) <= 8 * size => r.v = f.v /\ r.next = pos + Len(code)
          /\ pos + Len(code) > 8 * size => r.next >= 8 * size
      <4>1. \A k \in 1 .. Len(code) : pos + k <= 8 * size => BitAt(pos + k - 1) = code[k]
        BY <3>2
      <4> HIDE DEF code
      <4> QED BY <1>2, <1>4, <1>6, <2>1, <3>3, <4>1, FieldRead
    <3> QED BY <1>2, <1>13, <3>1, <3>4
  <2>3. CASE EndOf(j) > 8 * size
    <3>1. pos >= 8 * size
      BY <1>1, <1>3, <1>4, <1>13, <2>1, <2>3 DEF IInv, Placed
    <3>2. EndOf(j + 1) > 8 * size
      <4>1. \A a, b, c \in Nat : a > c => a + b > c
        OBVIOUS
      <4>2. 8 * size \in Nat
        BY <1>4
      <4> QED BY <1>6, <1>13, <2>3, <4>1, <4>2
    <3>3. pos' >= 8 * size
      <4>1. \A a, b, c \in Nat : a >= b /\ b >= c => a >= c
        OBVIOUS
      <4>2. 8 * size \in Nat
        BY <1>4
      <4> QED BY <1>2, <1>4, <1>7, <3>1, <4>1, <4>2
    <3>4. ~(EndOf(j + 1) <= 8 * size)
      BY <1>4, <1>13, <3>2
    <3> QED BY <3>3, <3>4
  <2> QED BY <1>4, <1>13, <2>2, <2>3
<1>15. Placed'
  <2>1. EndOf(Len(seen))' = EndOf(j + 1)
    BY <1>8, <1>9
  <2>2. ASSUME (\A m \in 1 .. Len(seen) : Small(written[m].field))'
        PROVE  IF EndOf(j + 1) <= 8 * size' THEN pos' = EndOf(j + 1) ELSE pos' >= 8 * size'
    <3>1. \A m \in 1 .. j + 1 : Small(written[m].field)
      BY <1>3, <1>8, <2>2 DEF Small
    <3> QED BY <1>3, <1>4, <1>13, <1>14, <3>1
  <2> QED BY <2>1, <2>2 DEF Placed
<1>16. ReadsBack'
  <2>1. ASSUME NEW k \in 1 .. j + 1, EndOf(k) <= 8 * size,
               \A m \in 1 .. k : Small(written[m].field)
        PROVE  seen'[k] = written[k].field.v
    <3>1. CASE k \in 1 .. j
      <4>1. seen[k] = written[k].field.v
        BY <1>1, <2>1, <3>1 DEF IInv, ReadsBack
      <4> QED BY <1>8, <3>1, <4>1
    <3>2. CASE k = j + 1
      <4>1. r.v = f.v
        BY <1>14, <2>1, <3>2
      <4> QED BY <1>8, <3>2, <4>1
    <3> QED BY <1>1, <3>1, <3>2
  <2>2. ASSUME NEW k \in 1 .. Len(seen'), (EndOf(k) <= 8 * size)',
               (\A m \in 1 .. k : Small(written[m].field))'
        PROVE  seen'[k] = written'[k].field.v
    <3>1. k \in 1 .. j + 1 /\ EndOf(k) <= 8 * size
      BY <1>3, <1>8, <1>9, <2>2
    <3>2. \A m \in 1 .. k : Small(written[m].field)
      BY <1>3, <2>2 DEF Small
    <3>3. seen'[k] = written[k].field.v
      BY <2>1, <3>1, <3>2
    <3> QED BY <1>3, <3>3
  <2> QED BY <2>2 DEF ReadsBack
<1>17. CutDetected'
  BY <1>3 DEF CutDetected
<1> QED BY <1>10, <1>11, <1>12, <1>15, <1>16, <1>17 DEF IInv

LEMMA TrailingIsRead ==
  ASSUME IInv, ReadTrailing
  PROVE  IInv'
<1> DEFINE end == Aligned(pos + 1)
<1>0. PICK n \in Nat : n = Len(written)
  BY WrittenTyped DEF IInv
<1>1. /\ phase = "read" /\ mem' = mem /\ size' = size /\ written' = written
      /\ seen' = seen /\ Len(seen) = n /\ pos' = end
      /\ phase' = IF end \div 8 > size THEN "failed" ELSE "done"
  BY <1>0 DEF ReadTrailing
<1>2. size \in Nat /\ pos \in Nat
  BY DEF IInv, Types
<1>3. end \in Nat /\ end \div 8 \in Nat /\ end = 8 * (end \div 8) /\ end >= pos + 1
  BY <1>2, AlignedIs
<1>4. \A k : EndOf(k)' = EndOf(k)
  BY <1>1, Zenon DEF EndOf
<1>5. EndOf(Len(written))' = EndOf(Len(written))
  BY <1>0, <1>1, <1>4
<1>6. Whole' = Whole
  BY <1>5 DEF Whole, Aligned, bs_byte_aligned
<1>7. EndOf(n) \in Nat /\ Whole = Aligned(EndOf(n) + 1) \div 8 /\ size <= Whole
  <2>1. n \in 0 .. n
    OBVIOUS
  <2>2. EndOf(n) \in Nat
    BY <1>0, <2>1, EndsTyped DEF IInv
  <2>3. size <= Whole
    BY <1>1 DEF IInv, Ended
  <2> QED BY <1>0, <2>2, <2>3 DEF Whole
<1>8. Whole \in Nat /\ 8 * Whole >= EndOf(n) + 1
  BY <1>7, AlignedIs
<1>9. Types'
  BY <1>1, <1>3 DEF IInv, Types
<1>10. Chained' /\ Held'
  BY <1>1, <1>4 DEF IInv, Chained, Held
<1>11. Ended'
  BY <1>1, <1>5, <1>6 DEF IInv, Ended
<1>12. Placed'
  BY <1>1 DEF Placed
<1>13. ReadsBack'
  BY <1>1, <1>4 DEF IInv, ReadsBack, Small
<1>14. CutDetected'
  <2>1. AllSmall' => AllSmall
    BY <1>1 DEF AllSmall, Small
  <2>2. ASSUME AllSmall
        PROVE  (end \div 8 > size => size < Whole) /\ (~(end \div 8 > size) => size = Whole)
    <3>1. \A m \in 1 .. Len(seen) : Small(written[m].field)
      BY <1>0, <1>1, <2>2 DEF AllSmall
    <3>2. CASE EndOf(n) <= 8 * size
      <4>1. pos = EndOf(n)
        BY <1>1, <3>1, <3>2 DEF IInv, Placed
      <4>2. end \div 8 = Whole
        BY <1>7, <4>1
      <4> HIDE DEF end
      <4> QED BY <1>2, <1>7, <1>8, <4>2
    <3>3. CASE EndOf(n) > 8 * size
      <4>1. pos >= 8 * size
        BY <1>1, <1>2, <1>7, <3>1, <3>3 DEF IInv, Placed
      <4> HIDE DEF end
      <4>2. end \div 8 > size
        <5> DEFINE d == end \div 8
        <5>1. d \in Nat /\ 8 * d >= pos + 1
          BY <1>3
        <5> HIDE DEF d
        <5>2. d > size
          BY <1>2, <4>1, <5>1
        <5> QED BY <5>2 DEF d
      <4>3. size < Whole
        BY <1>2, <1>7, <1>8, <3>3
      <4> QED BY <4>2, <4>3
    <3> QED BY <1>2, <1>7, <3>2, <3>3
  <2> HIDE DEF end
  <2> QED BY <1>1, <1>6, <2>1, <2>2 DEF CutDetected
<1> QED BY <1>9, <1>10, <1>11, <1>12, <1>13, <1>14 DEF IInv

LEMMA PayloadInvariance == Spec => []IInv
<1>1. Init => IInv
  BY InitIsIInv
<1>2. IInv /\ [Next]_vars => IInv'
  <2> SUFFICES ASSUME IInv, [Next]_vars PROVE IInv'
    OBVIOUS
  <2>1. ASSUME NEW f \in Fields, Write(f) PROVE IInv'
    BY <2>1, FieldWritten
  <2>2. CASE Finish
    BY <2>2, PayloadFinished
  <2>3. CASE Read
    BY <2>3, FieldIsRead
  <2>4. CASE ReadTrailing
    BY <2>4, TrailingIsRead
  <2>5. CASE UNCHANGED vars
    <3>1. \A k : EndOf(k)' = EndOf(k)
      BY <2>5, Zenon DEF EndOf, vars
    <3>2. EndOf(Len(written))' = EndOf(Len(written))
      BY <2>5, Zenon DEF EndOf, vars
    <3>3. Whole' = Whole
      BY <3>2 DEF Whole, Aligned, bs_byte_aligned
    <3>4. EndOf(Len(seen))' = EndOf(Len(seen))
      BY <2>5, Zenon DEF EndOf, vars
    <3>5. Types' /\ Chained' /\ Held'
      BY <2>5, <3>1, <3>2 DEF vars, IInv, Types, Chained, Held
    <3>6. Ended' /\ Placed'
      BY <2>5, <3>2, <3>3, <3>4 DEF vars, IInv, Ended, Placed, Small
    <3>7. ReadsBack' /\ CutDetected'
      BY <2>5, <3>1, <3>3 DEF vars, IInv, ReadsBack, CutDetected, AllSmall, Small
    <3> QED BY <3>5, <3>6, <3>7 DEF IInv
  <2> QED BY <2>1, <2>2, <2>3, <2>4, <2>5 DEF Next
<1> QED BY <1>1, <1>2, PTL DEF Spec

\* A field that arrived whole, after others that did, is read as it was
\* written: for every width of an int, every buffer and all fields.
THEOREM FieldsReadBack == Spec => []ReadsBack
<1>1. IInv => ReadsBack
  BY DEF IInv
<1> QED BY <1>1, PayloadInvariance, PTL

\* A reader is told of an overrun exactly if bytes of the payload are missing.
THEOREM CutIsDetected == Spec => []CutDetected
<1>1. IInv => CutDetected
  BY DEF IInv
<1> QED BY <1>1, PayloadInvariance, PTL

\* A writer that is not told of an overrun has put every bit of every code
\* into the buffer, and no later code has changed one.
THEOREM NoBitIsLost == Spec => []NothingLost
<1>1. IInv => NothingLost
  BY DEF IInv, Held, NothingLost
<1> QED BY <1>1, PayloadInvariance, PTL

\* more_rbsp_data tells the stop bit from the fields that are still to come.
THEOREM MoreDataIsExact == Spec => []MoreDataExact
<1>1. IInv => MoreDataExact
  <2> SUFFICES ASSUME IInv, AllSmall, phase = "read", size = Whole
               PROVE  more_rbsp_data <=>
                        \E k \in Len(seen) + 1 .. Len(written) : written[k].code # <<>>
    BY DEF MoreDataExact
  <2>0. PICK n \in Nat : n = Len(written)
    BY WrittenTyped DEF IInv
  <2>1. PICK j \in Nat : j = Len(seen) /\ j \in 0 .. n
    BY <2>0, WrittenTyped DEF IInv, Types
  <2>2. size \in Nat /\ pos \in Nat /\ mem \in [0 .. 8 * size - 1 -> {0, 1}]
    BY DEF IInv, Types
  <2> DEFINE e == EndOf(n)
  <2>3. EndOf(j) \in Nat /\ e \in Nat /\ EndOf(j) <= e
    <3>1. j \in 0 .. n /\ n \in 0 .. n /\ j <= n
      BY <2>1
    <3> QED BY <2>0, <3>1, EndsTyped, EndsGrow DEF IInv
  <2>4. e < 8 * size
    <3>1. size = Aligned(e + 1) \div 8
      BY <2>0 DEF Whole
    <3>2. Aligned(e + 1) = 8 * size /\ e + 1 <= Aligned(e + 1)
      BY <2>3, <3>1, AlignedIs
    <3> QED BY <2>2, <2>3, <3>2
  <2>5. pos = EndOf(j) /\ pos <= e
    <3>1. \A m \in 1 .. Len(seen) : Small(written[m].field)
      BY <2>0, <2>1 DEF AllSmall
    <3>2. EndOf(j) <= 8 * size
      BY <2>2, <2>3, <2>4
    <3>3. pos = EndOf(j)
      BY <2>1, <3>1, <3>2 DEF IInv, Placed
    <3> QED BY <2>3, <3>3
  <2>6. mem[e] = 1 /\ \A k \in e + 1 .. 8 * size - 1 : mem[k] = 0
    BY <2>0, <2>4 DEF IInv, Ended
  <2>7. pos < e <=> \E k \in Len(seen) + 1 .. Len(written) : written[k].code # <<>>
    BY <2>0, <2>1, <2>5, EndsDiffer DEF IInv
  <2> HIDE DEF e
  <2>8. /\ bs_eof(pos) <=> pos >= 8 * size
        /\ \A k \in pos + 1 .. 8 * size - 1 : BitAt(k) = mem[k]
        /\ pos < 8 * size => BitAt(pos) = mem[pos]
    BY <2>2, BitAtTyped
  <2>9. pos < 8 * size
    BY <2>2, <2>3, <2>4, <2>5
  <2>10. CASE pos < e
    <3>1. e \in pos + 1 .. 8 * size - 1
      BY <2>2, <2>3, <2>4, <2>10
    <3>2. more_rbsp_data
      BY <2>2, <2>6, <2>8, <2>9, <3>1 DEF more_rbsp_data
    <3> QED BY <2>7, <2>10, <3>2
  <2>11. CASE pos = e
    <3>1. ~more_rbsp_data
      BY <2>6, <2>8, <2>9, <2>11 DEF more_rbsp_data
    <3>2. ~(pos < e)
      BY <2>3, <2>11
    <3> QED BY <2>7, <3>1, <3>2
  <2> QED BY <2>2, <2>3, <2>5, <2>10, <2>11
<1> QED BY <1>1, PayloadInvariance, PTL

(***************************************************************************)
(* Slices.                                                                 *)
(***************************************************************************)

\* A header ends in the byte before sptr, or where it does not end on a byte
\* boundary, in that of sptr.
LEMMA HeaderBounds ==
  ASSUME NEW bits \in HeaderBits
  PROVE  /\ bits \in Nat /\ p(bits) \in Nat /\ sptr(bits) \in 1 .. Room
         /\ HeaderBytes(bits) \in Nat
         /\ HeaderBytes(bits) = IF bits % 8 = 0 THEN p(bits) ELSE sptr(bits)
BY HeadersFit DEF p, sptr, HeaderBytes

LEMMA UnitsTyped ==
  ASSUME NEW u \in Units
  PROVE  /\ u.bits \in HeaderBits /\ u.data \in Seq(Bytes)
         /\ u.len \in Nat /\ u.len <= Len(Content(u))
BY HeadersFit, DataBound DEF Units

\* What is kept is data of the unit, and where the header does not end on a
\* byte boundary, all that arrived.
LEMMA RestIsData ==
  ASSUME NEW u \in Units
  PROVE  LET rest == Rest(SubSeq(Content(u), 1, u.len), u.bits)
         IN  /\ rest \in Seq(Bytes)
             /\ rest = <<>> <=> u.len <= sptr(u.bits)
             /\ u.bits % 8 # 0 /\ HeaderBytes(u.bits) <= u.len
                  => rest = SubSeq(u.data, 1, u.len - HeaderBytes(u.bits))
<1> DEFINE bits == u.bits
           h == HeaderBytes(u.bits)
           c == sptr(u.bits)
           data == u.data
           len == u.len
           part == SubSeq(Content(u), 1, u.len)
           rest == Rest(part, u.bits)
<1>1. /\ c \in Nat \ {0} /\ h \in Nat /\ h <= c
      /\ bits % 8 # 0 => h = c
      /\ data \in Seq(Bytes) /\ len \in Nat /\ len <= Len(Content(u))
  BY UnitsTyped, HeaderBounds DEF p, sptr
<1>2. /\ Len(Content(u)) = h + Len(data) /\ Len(data) \in Nat
      /\ \A k \in h + 1 .. h + Len(data) :
           Content(u)[k] = data[k - h] /\ data[k - h] \in Bytes
      /\ Content(u) \in Seq(Bytes \cup {Header})
  <2>1. [k \in 1 .. h |-> Header] \in Seq({Header})
    BY <1>1
  <2> HIDE DEF h, data
  <2>2. Content(u) = [k \in 1 .. h |-> Header] \o data
    BY DEF Content, h, data
  <2> QED BY <1>1, <2>1, <2>2
<1> HIDE DEF c, h, data, len
<1>3. /\ part \in Seq(Bytes \cup {Header}) /\ Len(part) = len
      /\ \A k \in 1 .. len : part[k] = Content(u)[k]
  BY <1>1, <1>2 DEF len
<1>4. rest = SubSeq(part, c + 1, len)
  BY <1>3 DEF Rest, c
<1> HIDE DEF part, rest
<1>5. /\ rest \in Seq(Bytes \cup {Header})
      /\ Len(rest) = IF len <= c THEN 0 ELSE len - c
      /\ \A k \in 1 .. Len(rest) : rest[k] = part[c + k]
  BY <1>1, <1>3, <1>4
<1>6. \A k \in 1 .. Len(rest) : rest[k] = data[c - h + k] /\ rest[k] \in Bytes
  <2> SUFFICES ASSUME NEW k \in 1 .. Len(rest)
               PROVE  rest[k] = data[c - h + k] /\ rest[k] \in Bytes
    OBVIOUS
  <2>1. PICK j \in Int : j = c + k
    BY <1>1, <1>5
  <2>2. j \in 1 .. len /\ j \in h + 1 .. h + Len(data) /\ j - h = c - h + k
    BY <1>1, <1>2, <1>5, <2>1
  <2>3. rest[k] = part[j] /\ part[j] = Content(u)[j]
    BY <1>3, <1>5, <2>1, <2>2
  <2>4. Content(u)[j] = data[j - h] /\ data[j - h] \in Bytes
    BY <1>2, <2>2
  <2> QED BY <2>2, <2>3, <2>4
<1>7. rest \in Seq(Bytes)
  BY <1>5, <1>6
<1>8. rest = <<>> <=> len <= c
  BY <1>1, <1>5
<1>9. ASSUME bits % 8 # 0, h <= len
      PROVE  rest = SubSeq(data, 1, len - h)
  <2>1. h = c
    BY <1>1, <1>9
  <2>2. /\ SubSeq(data, 1, len - h) \in Seq(Bytes)
        /\ Len(SubSeq(data, 1, len - h)) = len - h
        /\ \A k \in 1 .. len - h : SubSeq(data, 1, len - h)[k] = data[k]
    BY <1>1, <1>2, <1>9
  <2>3. Len(rest) = len - h
    BY <1>1, <1>5, <1>9, <2>1
  <2>4. \A k \in 1 .. Len(rest) : rest[k] = data[k]
    BY <1>1, <1>6, <2>1
  <2> QED BY <1>7, <2>2, <2>3, <2>4, SeqEqual
<1> QED BY <1>7, <1>8, <1>9 DEF rest, part, c, h, data, len

\* Reading a slice keeps its data, and none of another.
LEMMA SliceReadKeeps ==
  ASSUME TypeOK, NEW u \in Units, ReadSlice(u)
  PROVE  TypeOK' /\ DataRead'
<1> DEFINE rest == Rest(SubSeq(Content(u), 1, u.len), u.bits)
<1>1. /\ rest \in Seq(Bytes)
      /\ rest = <<>> <=> u.len <= sptr(u.bits)
      /\ u.bits % 8 # 0 /\ HeaderBytes(u.bits) <= u.len
           => rest = SubSeq(u.data, 1, u.len - HeaderBytes(u.bits))
  BY RestIsData
<1>2. /\ u.len \in Nat /\ HeaderBytes(u.bits) \in Nat /\ sptr(u.bits) \in Nat
      /\ HeaderBytes(u.bits) <= sptr(u.bits) /\ sptr(u.bits) = p(u.bits) + 1
      /\ p(u.bits) \in Nat
  BY UnitsTyped, HeaderBounds DEF sptr
<1>3. unit' = {u} /\ out' = {}
  BY DEF ReadSlice
<1>4. CASE ReadDebug(u)
  <2>1. /\ rbsp_buf' = rest /\ status' \in {"ok", "error"}
        /\ status' = "ok" => ~(rest = <<>> /\ u.len < sptr(u.bits))
    BY <1>2, <1>4 DEF ReadDebug, Overrun
  <2> HIDE DEF rest
  <2>2. status' = "ok" => HeaderBytes(u.bits) <= u.len
    BY <1>1, <1>2, <2>1
  <2>3. DataRead'
    BY <1>1, <1>2, <1>3, <2>1, <2>2 DEF DataRead
  <2>4. rbsp_buf' \in Seq(Bytes \cup {Zero})
    BY <1>1, <2>1
  <2> QED BY <1>3, <2>1, <2>3, <2>4 DEF TypeOK
<1>5. CASE ReadPlain(u)
  <2>1. CASE u.len < sptr(u.bits)
    <3>1. status' = "undefined" /\ rbsp_buf' = <<>>
      BY <1>2, <1>5, <2>1 DEF ReadPlain
    <3> QED BY <1>3, <3>1 DEF TypeOK, DataRead
  <2>2. CASE u.len >= sptr(u.bits)
    <3>1. status' = "ok" /\ rbsp_buf' = rest
      BY <1>2, <1>5, <2>2 DEF ReadPlain
    <3> HIDE DEF rest
    <3>2. HeaderBytes(u.bits) <= u.len
      BY <1>2, <2>2
    <3>3. DataRead'
      BY <1>1, <1>2, <1>3, <3>1, <3>2 DEF DataRead
    <3>4. rbsp_buf' \in Seq(Bytes \cup {Zero})
      BY <1>1, <3>1
    <3> QED BY <1>3, <3>1, <3>3, <3>4 DEF TypeOK
  <2> QED BY <1>2, <2>1, <2>2
<1> QED BY <1>4, <1>5 DEF ReadSlice

\* Writing a slice takes the data away: the buffer is then of zeros.
LEMMA SliceWriteKeeps ==
  ASSUME TypeOK, NEW bits \in HeaderBits, WriteSlice(bits)
  PROVE  TypeOK' /\ DataRead'
<1>1. Room - sptr(bits) \in Nat
  BY HeaderBounds, HeadersFit
<1>2. rbsp_buf' \in Seq(Bytes \cup {Zero})
  BY <1>1 DEF WriteSlice
<1>3. out' # {} /\ status' = "ok" /\ unit' = unit
  BY DEF WriteSlice
<1> QED BY <1>2, <1>3 DEF TypeOK, DataRead

LEMMA SliceInvariance == SliceSpec => [](TypeOK /\ DataRead)
<1>1. SliceInit => TypeOK /\ DataRead
  BY DEF SliceInit, TypeOK, DataRead
<1>2. TypeOK /\ DataRead /\ [SliceNext]_slice_vars => (TypeOK /\ DataRead)'
  <2> SUFFICES ASSUME TypeOK, DataRead, [SliceNext]_slice_vars PROVE (TypeOK /\ DataRead)'
    OBVIOUS
  <2>1. CASE \E u \in Units : ReadSlice(u)
    BY <2>1, SliceReadKeeps
  <2>2. CASE \E bits \in HeaderBits : WriteSlice(bits)
    BY <2>2, SliceWriteKeeps
  <2>3. CASE UNCHANGED slice_vars
    BY <2>3 DEF slice_vars, TypeOK, DataRead
  <2> QED BY <2>1, <2>2, <2>3 DEF SliceNext
<1> QED BY <1>1, <1>2, PTL DEF SliceSpec

\* No byte of a header is ever kept as slice data.
THEOREM SliceTypeCorrect == SliceSpec => []TypeOK
<1>1. SliceSpec => [](TypeOK /\ DataRead)
  BY SliceInvariance
<1> QED BY <1>1, PTL

\* What h->slice_data holds after a slice was read is the data of that slice,
\* as much of it as arrived.
THEOREM DataIsOfTheSlice == SliceSpec => []DataRead
<1>1. SliceSpec => [](TypeOK /\ DataRead)
  BY SliceInvariance
<1> QED BY <1>1, PTL
=============================================================================
