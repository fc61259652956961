------------------------- MODULE NalEscapingProofs -------------------------
(***************************************************************************)
(* Proofs about NalEscaping, for all payloads and all buffer sizes: types, *)
(* no start code emulation, the buffer size the source documents, the      *)
(* round trip, and what unescaping is for any unit.                        *)
(***************************************************************************)
EXTENDS NalEscaping, WellFoundedInduction, TLAPS

(***************************************************************************)
(* TypeOK is inductive.                                                    *)
(***************************************************************************)

\* Every initial state is well typed.
LEMMA InitTypeOK == Init => TypeOK
<1> SUFFICES ASSUME Init PROVE TypeOK
  OBVIOUS
<1>1. CASE \E s \in Rbsps, size \in NalSizes : BeginEscaping(s, size)
  <2>1. PICK s \in Rbsps, size \in NalSizes : BeginEscaping(s, size)
    BY <1>1
  <2>2. s \in Seq(Byte) /\ size \in Nat
    BY PayloadsAreBytes, SizesAreNaturals
  <2>3. dst \in Seq(Byte) /\ Len(dst) <= size
    <3>1. 0 \in Byte
      BY DEF Byte
    <3>2. <<0>> \in Seq(Byte) /\ Len(<<0>>) = 1
      BY <3>1
    <3>3. dst = IF size > 0 THEN <<0>> ELSE <<>>
      BY <2>1 DEF BeginEscaping
    <3> QED BY <2>2, <3>2, <3>3
  <2> QED BY <2>1, <2>2, <2>3 DEF BeginEscaping, TypeOK
<1>2. CASE \E s \in Nals, size \in RbspSizes : BeginUnescaping(s, size)
  <2>1. PICK s \in Nals, size \in RbspSizes : BeginUnescaping(s, size)
    BY <1>2
  <2>2. s \in Seq(Byte) /\ size \in Nat
    BY PayloadsAreBytes, SizesAreNaturals
  <2> QED BY <2>1, <2>2 DEF BeginUnescaping, TypeOK
<1> QED BY <1>1, <1>2 DEF Init

\* A return changes only pc and ret.
LEMMA ReturnTypeOK ==
  ASSUME TypeOK, NEW v \in Int, Return(v)
  PROVE  TypeOK'
  BY DEF TypeOK, Return

\* Copying a byte of a unit keeps the types, if the zeros before it are few.
LEMMA CopyFromTypeOK ==
  ASSUME TypeOK, NEW k \in 0 .. Len(src) - 1, NEW z \in 0 .. 2,
         src[k + 1] = 0 => z < 2,
         CopyFrom(k, z)
  PROVE  TypeOK'
<1>1. CASE Len(dst) >= cap
  <2>1. Return(-1)
    BY <1>1 DEF CopyFrom, TypeOK
  <2> QED BY <2>1, ReturnTypeOK
<1>2. CASE Len(dst) < cap
  <2>1. src[k + 1] \in Byte
    BY DEF TypeOK
  <2>2. /\ dst' = Append(dst, src[k + 1])
        /\ count' = IF src[k + 1] = 0 THEN z + 1 ELSE 0
        /\ i' = k + 1
        /\ UNCHANGED <<op, pc, ret, src, cap, payload>>
    BY <1>2 DEF CopyFrom, TypeOK
  <2>3. dst' \in Seq(Byte) /\ Len(dst') <= cap'
    BY <1>2, <2>1, <2>2 DEF TypeOK
  <2>4. count' \in 0 .. 2 /\ i' \in 0 .. Len(src')
    BY <2>2 DEF TypeOK
  <2> QED BY <2>2, <2>3, <2>4 DEF TypeOK
<1> QED BY <1>1, <1>2 DEF TypeOK

\* Every step of either conversion keeps the types.
LEMMA NextTypeOK == TypeOK /\ [Next]_vars => TypeOK'
<1> SUFFICES ASSUME TypeOK, [Next]_vars PROVE TypeOK'
  OBVIOUS
<1>0. j \in Int /\ Len(dst) \in Int /\ Len(src) \in Nat
  BY DEF TypeOK, j
<1>1. CASE EscapingOutOfRoom
  BY <1>1, ReturnTypeOK DEF EscapingOutOfRoom
<1>2. CASE InsertEpb
  BY <1>2 DEF InsertEpb, TypeOK, Byte, RoomForNal, j
<1>3. CASE EscapeByte
  <2>1. src[i + 1] \in Byte
    BY <1>3 DEF EscapeByte, TypeOK
  <2>2. dst' \in Seq(Byte) /\ Len(dst') <= cap'
    BY <1>3, <2>1 DEF EscapeByte, TypeOK, RoomForNal, j
  <2>3. count' \in 0 .. 2 /\ i' \in 0 .. Len(src')
    BY <1>3, <2>1 DEF EscapeByte, TypeOK, MustEscape, ZerosAfter, Byte
  <2> QED BY <1>3, <2>2, <2>3 DEF EscapeByte, TypeOK
<1>4. CASE EscapingDone
  BY <1>0, <1>4, ReturnTypeOK DEF EscapingDone
<1>5. CASE ForbiddenBytes
  BY <1>5, ReturnTypeOK DEF ForbiddenBytes
<1>6. CASE ForbiddenEscape
  BY <1>6, ReturnTypeOK DEF ForbiddenEscape
<1>7. CASE CabacZeroWord
  BY <1>0, <1>7, ReturnTypeOK DEF CabacZeroWord
<1>8. CASE SkipEpb
  <2>1. i + 1 \in 0 .. Len(src) - 1
    BY <1>8 DEF SkipEpb, TypeOK, Unescaping
  <2> QED BY <1>8, <2>1, CopyFromTypeOK DEF SkipEpb
<1>9. CASE UnescapeByte
  <2>1. i \in 0 .. Len(src) - 1 /\ count \in 0 .. 2
    BY <1>9 DEF UnescapeByte, TypeOK, Unescaping
  <2>2. src[i + 1] = 0 => count < 2
    BY <1>9, <2>1 DEF UnescapeByte
  <2> QED BY <1>9, <2>1, <2>2, CopyFromTypeOK DEF UnescapeByte
<1>10. CASE UnescapingDone
  BY <1>0, <1>10, ReturnTypeOK DEF UnescapingDone
<1>11. CASE ReadBack
  <2>1. dst # <<>>
    BY <1>11 DEF ReadBack, TypeOK
  <2>2. src' \in Seq(Byte) /\ cap' \in Nat
    BY <1>11, <2>1, SizesAreNaturals DEF ReadBack, TypeOK
  <2> QED BY <1>11, <2>1, <2>2 DEF ReadBack, TypeOK
<1>12. CASE UNCHANGED vars
  BY <1>12 DEF vars, TypeOK
<1> QED
  BY <1>1, <1>2, <1>3, <1>4, <1>5, <1>6, <1>7, <1>8, <1>9, <1>10, <1>11,
     <1>12 DEF Next

\* The types hold in every reachable state: in particular neither conversion
\* writes past the end of its output buffer, whatever bytes it is given.
THEOREM TypeCorrect == Spec => []TypeOK
  BY InitTypeOK, NextTypeOK, PTL DEF Spec

(***************************************************************************)
(* The escaped form of the first n bytes of a payload p, stated without    *)
(* the loop.  The inductive invariant of rbsp_to_nal says that its output  *)
(* has this form; nal_to_rbsp undoes it byte by byte.                      *)
(***************************************************************************)

\* f[k] bytes of p come before position k of u.
Trace(u, p, n, f) ==
  /\ f \in [1 .. Len(u) + 1 -> 0 .. n]
  /\ f[1] = 0 /\ f[Len(u) + 1] = n
  /\ \A k \in 1 .. Len(u) :
       /\ IsEpb(u, k) => f[k + 1] = f[k]
       /\ ~IsEpb(u, k) => f[k + 1] = f[k] + 1 /\ u[k] = p[f[k] + 1]

Clean(u) == \A k \in 1 .. Len(u) - 2 : ~Forbidden(u, k)

EpbBeforeSmallByte(u) ==
  \A k \in 1 .. Len(u) - 1 : IsEpb(u, k) => u[k + 1] <= 3

\* The first m bytes of u end with c zero bytes, and no more unless c is 2.
ZeroRunAt(u, m, c) ==
  /\ c \in 0 .. 2 /\ c <= m
  /\ c >= 1 => u[m] = 0
  /\ c = 2 => u[m - 1] = 0
  /\ m >= 1 /\ u[m] = 0 => c >= 1
  /\ m >= 2 /\ u[m] = 0 /\ u[m - 1] = 0 => c = 2

ZeroRun(u, c) == ZeroRunAt(u, Len(u), c)

EscapedPrefix(u, p, n, c) ==
  /\ n \in 0 .. Len(p)
  /\ \E f : Trace(u, p, n, f)
  /\ Clean(u) /\ EpbBeforeSmallByte(u) /\ ZeroRun(u, c)
  /\ Len(u) >= 1 /\ IsEpb(u, Len(u)) => n < Len(p) /\ p[n + 1] <= 3
  /\ 2 * (Len(u) - n) + c <= n

\* Appending a byte changes no position before it.
LEMMA AppendLocal ==
  ASSUME NEW u \in Seq(Byte), NEW b \in Byte
  PROVE  /\ Append(u, b) \in Seq(Byte)
         /\ Len(Append(u, b)) = Len(u) + 1
         /\ Append(u, b)[Len(u) + 1] = b
         /\ \A k \in 1 .. Len(u) : Append(u, b)[k] = u[k]
         /\ \A k \in 1 .. Len(u) : IsEpb(Append(u, b), k) <=> IsEpb(u, k)
<1>1. /\ Append(u, b) \in Seq(Byte)
      /\ Len(Append(u, b)) = Len(u) + 1
      /\ Append(u, b)[Len(u) + 1] = b
      /\ \A k \in 1 .. Len(u) : Append(u, b)[k] = u[k]
  OBVIOUS
<1>2. ASSUME NEW k \in 1 .. Len(u)
      PROVE  IsEpb(Append(u, b), k) <=> IsEpb(u, k)
  BY <1>1 DEF IsEpb
<1> QED BY <1>1, <1>2

\* What the byte at the new end makes of the zero run.
LEMMA AppendAtEnd ==
  ASSUME NEW u \in Seq(Byte), NEW b \in Byte, NEW c \in 0 .. 2, ZeroRun(u, c)
  PROVE  /\ IsEpb(Append(u, b), Len(u) + 1) <=> c = 2 /\ b = 3
         /\ ~(c = 2 /\ b = 0) =>
              ZeroRun(Append(u, b), IF b = 0 THEN c + 1 ELSE 0)
         /\ Clean(u) /\ ~(c = 2 /\ b < 3) => Clean(Append(u, b))
<1> DEFINE w == Append(u, b)
<1>0. /\ w \in Seq(Byte) /\ Len(w) = Len(u) + 1 /\ w[Len(u) + 1] = b
      /\ \A k \in 1 .. Len(u) : w[k] = u[k]
  BY AppendLocal
<1> HIDE DEF w
<1>1. IsEpb(w, Len(u) + 1) <=> c = 2 /\ b = 3
  BY <1>0 DEF IsEpb, ZeroRun, ZeroRunAt
<1>2. ASSUME ~(c = 2 /\ b = 0) PROVE ZeroRun(w, IF b = 0 THEN c + 1 ELSE 0)
  BY <1>0, <1>2 DEF ZeroRun, ZeroRunAt, Byte
<1>3. ASSUME Clean(u), ~(c = 2 /\ b < 3) PROVE Clean(w)
  <2> SUFFICES ASSUME NEW k \in 1 .. Len(w) - 2, Forbidden(w, k) PROVE FALSE
    BY DEF Clean
  <2>1. CASE k <= Len(u) - 2
    BY <1>0, <1>3, <2>1 DEF Clean, Forbidden
  <2>2. CASE k = Len(u) - 1
    BY <1>0, <1>3, <2>2 DEF Forbidden, ZeroRun, ZeroRunAt
  <2> QED BY <1>0, <2>1, <2>2
<1> QED BY <1>1, <1>2, <1>3 DEF w

\* Inserting an emulation prevention byte keeps the escaped form.
LEMMA EpbKeepsEscaped ==
  ASSUME NEW u \in Seq(Byte), NEW p \in Seq(Byte), NEW n \in Nat,
         EscapedPrefix(u, p, n, 2), n < Len(p), p[n + 1] <= 3
  PROVE  EscapedPrefix(Append(u, 3), p, n, 0)
<1> DEFINE w == Append(u, 3)
<1>0. 3 \in Byte
  BY DEF Byte
<1>1. /\ w \in Seq(Byte) /\ Len(w) = Len(u) + 1 /\ w[Len(u) + 1] = 3
      /\ \A k \in 1 .. Len(u) : w[k] = u[k]
      /\ \A k \in 1 .. Len(u) : IsEpb(w, k) <=> IsEpb(u, k)
  BY <1>0, AppendLocal
<1>2. ZeroRun(u, 2) /\ Clean(u)
  BY DEF EscapedPrefix
<1>3. /\ IsEpb(w, Len(u) + 1)
      /\ ZeroRun(w, 0) /\ Clean(w)
  BY <1>0, <1>2, AppendAtEnd
<1> HIDE DEF w
<1>4. \E g : Trace(w, p, n, g)
  <2>1. PICK f : Trace(u, p, n, f)
    BY DEF EscapedPrefix
  <2> DEFINE g == [k \in 1 .. Len(w) + 1 |-> IF k <= Len(u) + 1 THEN f[k] ELSE n]
  <2>2. g \in [1 .. Len(w) + 1 -> 0 .. n] /\ g[1] = 0 /\ g[Len(w) + 1] = n
    BY <1>1, <2>1 DEF Trace
  <2>3. ASSUME NEW k \in 1 .. Len(w)
        PROVE  /\ IsEpb(w, k) => g[k + 1] = g[k]
               /\ ~IsEpb(w, k) => g[k + 1] = g[k] + 1 /\ w[k] = p[g[k] + 1]
    <3>1. CASE k <= Len(u)
      BY <1>1, <2>1, <3>1 DEF Trace
    <3>2. CASE k = Len(u) + 1
      BY <1>1, <1>3, <2>1, <3>2 DEF Trace
    <3> QED BY <1>1, <3>1, <3>2
  <2>4. Trace(w, p, n, g)
    BY <2>2, <2>3 DEF Trace
  <2> QED BY <2>4
<1>5. EpbBeforeSmallByte(w)
  <2> SUFFICES ASSUME NEW k \in 1 .. Len(w) - 1, IsEpb(w, k)
               PROVE  w[k + 1] <= 3
    BY DEF EpbBeforeSmallByte
  <2>1. CASE k < Len(u)
    BY <1>1, <2>1 DEF EscapedPrefix, EpbBeforeSmallByte
  <2>2. CASE k = Len(u)
    BY <1>1, <2>2
  <2> QED BY <1>1, <2>1, <2>2
<1> QED BY <1>1, <1>3, <1>4, <1>5 DEF EscapedPrefix, w

\* Copying the next byte where it needs no escape keeps the escaped form.
LEMMA ByteKeepsEscaped ==
  ASSUME NEW u \in Seq(Byte), NEW p \in Seq(Byte), NEW n \in Nat,
         NEW c \in 0 .. 2,
         EscapedPrefix(u, p, n, c), n < Len(p), ~(c = 2 /\ p[n + 1] <= 3)
  PROVE  EscapedPrefix(Append(u, p[n + 1]), p, n + 1,
                       IF p[n + 1] = 0 THEN c + 1 ELSE 0)
<1> DEFINE b == p[n + 1]
           w == Append(u, b)
<1>0. b \in Byte
  OBVIOUS
<1> HIDE DEF b
<1>1. /\ w \in Seq(Byte) /\ Len(w) = Len(u) + 1 /\ w[Len(u) + 1] = b
      /\ \A k \in 1 .. Len(u) : w[k] = u[k]
      /\ \A k \in 1 .. Len(u) : IsEpb(w, k) <=> IsEpb(u, k)
  BY <1>0, AppendLocal
<1>2. ZeroRun(u, c) /\ Clean(u)
  BY DEF EscapedPrefix
<1>3. ~(c = 2 /\ b <= 3)
  BY DEF b
<1>4. /\ ~IsEpb(w, Len(u) + 1)
      /\ ZeroRun(w, IF b = 0 THEN c + 1 ELSE 0) /\ Clean(w)
  <2>1. ~(c = 2 /\ b < 3) /\ ~(c = 2 /\ b = 0) /\ ~(c = 2 /\ b = 3)
    BY <1>0, <1>3 DEF Byte
  <2> HIDE DEF w
  <2>2. /\ IsEpb(w, Len(u) + 1) <=> c = 2 /\ b = 3
        /\ ~(c = 2 /\ b = 0) => ZeroRun(w, IF b = 0 THEN c + 1 ELSE 0)
        /\ Clean(u) /\ ~(c = 2 /\ b < 3) => Clean(w)
    BY <1>0, <1>2, AppendAtEnd DEF w
  <2> QED BY <1>2, <2>1, <2>2
<1> HIDE DEF w
<1>5. \E g : Trace(w, p, n + 1, g)
  <2>1. PICK f : Trace(u, p, n, f)
    BY DEF EscapedPrefix
  <2> DEFINE g == [k \in 1 .. Len(w) + 1 |->
                     IF k <= Len(u) + 1 THEN f[k] ELSE n + 1]
  <2>2. /\ g \in [1 .. Len(w) + 1 -> 0 .. n + 1]
        /\ g[1] = 0 /\ g[Len(w) + 1] = n + 1
    BY <1>1, <2>1 DEF Trace
  <2>3. ASSUME NEW k \in 1 .. Len(w)
        PROVE  /\ IsEpb(w, k) => g[k + 1] = g[k]
               /\ ~IsEpb(w, k) => g[k + 1] = g[k] + 1 /\ w[k] = p[g[k] + 1]
    <3>1. CASE k <= Len(u)
      BY <1>1, <2>1, <3>1 DEF Trace
    <3>2. CASE k = Len(u) + 1
      BY <1>1, <1>4, <2>1, <3>2 DEF Trace, b
    <3> QED BY <1>1, <3>1, <3>2
  <2>4. Trace(w, p, n + 1, g)
    BY <2>2, <2>3 DEF Trace
  <2> QED BY <2>4
<1>6. EpbBeforeSmallByte(w)
  <2> SUFFICES ASSUME NEW k \in 1 .. Len(w) - 1, IsEpb(w, k)
               PROVE  w[k + 1] <= 3
    BY DEF EpbBeforeSmallByte
  <2>1. CASE k < Len(u)
    BY <1>1, <2>1 DEF EscapedPrefix, EpbBeforeSmallByte
  <2>2. CASE k = Len(u)
    BY <1>1, <2>2 DEF EscapedPrefix, b
  <2> QED BY <1>1, <2>1, <2>2
<1>7. 2 * (Len(w) - (n + 1)) + (IF b = 0 THEN c + 1 ELSE 0) <= n + 1
  BY <1>1 DEF EscapedPrefix
<1> QED BY <1>1, <1>4, <1>5, <1>6, <1>7 DEF EscapedPrefix, w, b

(***************************************************************************)
(* The inductive invariant of rbsp_to_nal.                                 *)
(***************************************************************************)

EscInv ==
  op = "rbsp_to_nal" =>
    /\ dst = <<>> => i = 0 /\ cap = 0 /\ count = 0
    /\ dst # <<>> => dst[1] = 0 /\ EscapedPrefix(Tail(dst), src, i, count)
    /\ pc = "returned" => \/ ret = -1 /\ i < Len(src) /\ j >= cap
                          \/ ret = j /\ i = Len(src)

\* Appending to a buffer appends to what follows its first byte.
LEMMA TailOfAppend ==
  ASSUME NEW u \in Seq(Byte), u # <<>>, NEW b \in Byte
  PROVE  /\ Append(u, b) \in Seq(Byte) /\ Append(u, b) # <<>>
         /\ Append(u, b)[1] = u[1]
         /\ Tail(Append(u, b)) = Append(Tail(u), b)
         /\ Tail(u) \in Seq(Byte)
<1>1. Append(u, b) \in Seq(Byte) /\ Len(Append(u, b)) = Len(u) + 1
  OBVIOUS
<1>2. Tail(u) \in Seq(Byte) /\ Len(Tail(u)) = Len(u) - 1
  OBVIOUS
<1>3. Tail(Append(u, b)) = Append(Tail(u), b)
  BY <1>1, <1>2
<1> QED BY <1>1, <1>2, <1>3

\* Nothing has been written yet: the escaped form of no byte.
LEMMA NothingEscaped == ASSUME NEW p \in Seq(Byte)
                        PROVE  EscapedPrefix(<<>>, p, 0, 0)
<1>1. Trace(<<>>, p, 0, [k \in 1 .. 1 |-> 0])
  BY DEF Trace
<1> QED BY <1>1 DEF EscapedPrefix, Clean, EpbBeforeSmallByte, ZeroRun, ZeroRunAt

\* The invariant holds before the first iteration.
LEMMA InitEscInv == Init => EscInv
<1> SUFFICES ASSUME Init, op = "rbsp_to_nal" PROVE EscInv
  BY DEF EscInv
<1>1. PICK s \in Rbsps, size \in NalSizes : BeginEscaping(s, size)
  BY DEF Init, BeginUnescaping
<1>2. s \in Seq(Byte) /\ size \in Nat
  BY PayloadsAreBytes, SizesAreNaturals
<1>3. CASE size = 0
  BY <1>1, <1>3 DEF BeginEscaping, EscInv
<1>4. CASE size > 0
  <2>1. dst = <<0>> /\ pc = "running" /\ src = s /\ i = 0 /\ count = 0
    BY <1>1, <1>4 DEF BeginEscaping
  <2>2. Tail(dst) = <<>> /\ dst # <<>> /\ dst[1] = 0
    BY <2>1
  <2>3. EscapedPrefix(Tail(dst), src, 0, 0)
    BY <1>2, <2>1, <2>2, NothingEscaped
  <2> QED BY <2>1, <2>2, <2>3 DEF EscInv
<1> QED BY <1>2, <1>3, <1>4

\* Every step keeps it.
LEMMA NextEscInv == TypeOK /\ EscInv /\ [Next]_vars => EscInv'
<1> SUFFICES ASSUME TypeOK, EscInv, [Next]_vars, op' = "rbsp_to_nal"
             PROVE  EscInv'
  BY DEF EscInv
<1>0. j \in Int /\ Len(src) \in Nat /\ cap \in Nat /\ i \in 0 .. Len(src)
  BY DEF TypeOK, j
<1>1. CASE EscapingOutOfRoom
  BY <1>0, <1>1 DEF EscapingOutOfRoom, Escaping, RoomForNal, Return, EscInv, j
<1>2. CASE InsertEpb
  <2>1. /\ dst # <<>> /\ count = 2 /\ i < Len(src) /\ src[i + 1] <= 3
        /\ EscapedPrefix(Tail(dst), src, i, count) /\ dst[1] = 0
    BY <1>2 DEF InsertEpb, MustEscape, EscInv, Escaping
  <2>2. dst \in Seq(Byte) /\ src \in Seq(Byte) /\ i \in Nat /\ 3 \in Byte
    BY DEF TypeOK, Byte
  <2>3. /\ dst' = Append(dst, 3) /\ count' = 0
        /\ src' = src /\ i' = i /\ pc' = "running"
    BY <1>2 DEF InsertEpb, Escaping
  <2>4. /\ dst' # <<>> /\ dst'[1] = 0 /\ Tail(dst') = Append(Tail(dst), 3)
        /\ Tail(dst) \in Seq(Byte)
    BY <2>1, <2>2, <2>3, TailOfAppend
  <2>5. EscapedPrefix(Tail(dst'), src', i', count')
    BY <2>1, <2>2, <2>3, <2>4, EpbKeepsEscaped
  <2> QED BY <2>3, <2>4, <2>5 DEF EscInv
<1>3. CASE EscapeByte
  <2>1. dst # <<>>
    BY <1>0, <1>3 DEF EscapeByte, RoomForNal, EscInv, Escaping, j
  <2>2. /\ i < Len(src) /\ ~(count = 2 /\ src[i + 1] <= 3)
        /\ EscapedPrefix(Tail(dst), src, i, count) /\ dst[1] = 0
    BY <1>3, <2>1 DEF EscapeByte, MustEscape, EscInv, Escaping
  <2>3. /\ dst \in Seq(Byte) /\ src \in Seq(Byte) /\ i \in Nat
        /\ count \in 0 .. 2
    BY DEF TypeOK
  <2>4. src[i + 1] \in Byte
    BY <1>0, <2>2, <2>3
  <2>5. /\ dst' = Append(dst, src[i + 1])
        /\ count' = IF src[i + 1] = 0 THEN count + 1 ELSE 0
        /\ src' = src /\ i' = i + 1 /\ pc' = "running"
    BY <1>3 DEF EscapeByte, Escaping, ZerosAfter
  <2>6. /\ dst' # <<>> /\ dst'[1] = 0 /\ Tail(dst) \in Seq(Byte)
        /\ Tail(dst') = Append(Tail(dst), src[i + 1])
    BY <2>1, <2>2, <2>3, <2>4, <2>5, TailOfAppend
  <2>7. EscapedPrefix(Tail(dst'), src', i', count')
    BY <2>2, <2>3, <2>5, <2>6, ByteKeepsEscaped
  <2> QED BY <2>5, <2>6, <2>7 DEF EscInv
<1>4. CASE EscapingDone
  BY <1>0, <1>4 DEF EscapingDone, Escaping, Return, EscInv, j
<1>5. CASE UNCHANGED vars
  BY <1>5 DEF vars, EscInv, j
<1>6. CASE ForbiddenBytes \/ ForbiddenEscape \/ CabacZeroWord \/ SkipEpb
             \/ UnescapeByte \/ UnescapingDone \/ ReadBack
  BY <1>6 DEF ForbiddenBytes, ForbiddenEscape, CabacZeroWord, SkipEpb,
     UnescapeByte, UnescapingDone, ReadBack, Unescaping, CopyFrom, Return
<1> QED BY <1>1, <1>2, <1>3, <1>4, <1>5, <1>6 DEF Next

\* The output of rbsp_to_nal is the escaped form of what it consumed.
THEOREM EscInvHolds == Spec => [](TypeOK /\ EscInv)
  BY InitTypeOK, NextTypeOK, InitEscInv, NextEscInv, PTL DEF Spec

\* Whatever the payload, the bytes rbsp_to_nal writes contain no start code.
THEOREM NoEmulation == Spec => []NoStartCodeEmulation
<1>1. TypeOK /\ EscInv => NoStartCodeEmulation
  <2> SUFFICES ASSUME TypeOK, EscInv, op = "rbsp_to_nal", src # <<>>,
                      src[1] # 0, NEW k \in 1 .. Len(dst) - 2,
                      Forbidden(dst, k)
               PROVE  FALSE
    BY DEF NoStartCodeEmulation
  <2>1. dst \in Seq(Byte) /\ src \in Seq(Byte) /\ dst # <<>> /\ Len(dst) >= 3
    BY DEF TypeOK
  <2> DEFINE u == Tail(dst)
  <2>2. /\ u \in Seq(Byte) /\ Len(u) = Len(dst) - 1
        /\ \A m \in 1 .. Len(u) : u[m] = dst[m + 1]
    BY <2>1
  <2>3. EscapedPrefix(u, src, i, count)
    BY <2>1 DEF EscInv
  <2> HIDE DEF u
  <2>4. CASE k >= 2
    <3>0. k - 1 \in 1 .. Len(u) - 2
      BY <2>1, <2>2, <2>4
    <3>1. u[k - 1] = dst[k] /\ u[k] = dst[k + 1] /\ u[k + 1] = dst[k + 2]
      BY <2>1, <2>2, <3>0
    <3>2. Forbidden(u, k - 1)
      BY <3>0, <3>1 DEF Forbidden
    <3> QED BY <2>3, <3>0, <3>2 DEF EscapedPrefix, Clean
  <2>5. CASE k = 1
    <3>1. u[1] = 0
      BY <2>1, <2>2, <2>5 DEF Forbidden
    <3>2. ~IsEpb(u, 1)
      BY DEF IsEpb
    <3>3. PICK f : Trace(u, src, i, f)
      BY <2>3 DEF EscapedPrefix
    <3>4. u[1] = src[1]
      BY <2>1, <2>2, <3>2, <3>3 DEF Trace
    <3> QED BY <3>1, <3>4
  <2> QED BY <2>1, <2>4, <2>5
<1> QED BY <1>1, EscInvHolds, PTL

\* The size the comment of rbsp_to_nal asks for always suffices: an escape is
\* paid for by the two zero bytes before it.
THEOREM DocumentedSize == Spec => []DocumentedSizeSuffices
<1>1. TypeOK /\ EscInv => DocumentedSizeSuffices
  <2> SUFFICES ASSUME TypeOK, EscInv, op = "rbsp_to_nal", pc = "returned",
                      2 * cap >= 3 * Len(src), src # <<>>
               PROVE  ret = Len(dst) /\ ret > 0
    BY DEF DocumentedSizeSuffices
  <2>1. /\ dst \in Seq(Byte) /\ src \in Seq(Byte) /\ Len(src) >= 1
        /\ cap \in Nat /\ i \in 0 .. Len(src) /\ count \in 0 .. 2
    BY DEF TypeOK
  <2>2. dst # <<>> /\ j = Len(dst) /\ Len(dst) >= 1
    BY <2>1 DEF EscInv, j
  <2>3. 2 * (Len(Tail(dst)) - i) + count <= i
    BY <2>2 DEF EscInv, EscapedPrefix
  <2>4. Len(Tail(dst)) = Len(dst) - 1
    BY <2>1, <2>2
  <2>5. ~(i < Len(src) /\ j >= cap)
    BY <2>1, <2>2, <2>3, <2>4
  <2> QED BY <2>1, <2>2, <2>5 DEF EscInv
<1> QED BY <1>1, EscInvHolds, PTL

(***************************************************************************)
(* The inductive invariant of nal_to_rbsp on a unit rbsp_to_nal wrote: it  *)
(* has restored the bytes of the payload that the bytes consumed stand     *)
(* for, and meets nothing to complain about.                               *)
(***************************************************************************)

\* The complete escaped form of p.
EscapedForm(u, p) ==
  /\ Len(u) >= 1 /\ ~IsEpb(u, Len(u))
  /\ Clean(u) /\ EpbBeforeSmallByte(u)
  /\ \E f : Trace(u, p, Len(p), f)

Restored(f) ==
  /\ Len(dst) = f[i + 1]
  /\ \A k \in 1 .. Len(dst) : dst[k] = payload[k]

ReadBackInv ==
  op = "nal_to_rbsp" /\ payload # <<>> =>
    /\ EscapedForm(src, payload)
    /\ ZeroRunAt(src, i, count)
    /\ Len(dst) <= i
    /\ \A f : Trace(src, payload, Len(payload), f) => Restored(f)
    /\ pc = "returned" /\ cap >= Len(src) => ret = Len(dst) /\ i = Len(src)

\* No payload is known of a buffer that is being escaped, or that came from
\* elsewhere, so the invariant has nothing to say initially.
LEMMA InitReadBackInv == Init => ReadBackInv
  BY DEF Init, BeginEscaping, BeginUnescaping, ReadBackInv

\* Copying the payload byte at offset k of the unit, k being past an escape
\* or not, keeps the invariant.
LEMMA CopyKeepsRestored ==
  ASSUME TypeOK, ReadBackInv, op = "nal_to_rbsp", payload # <<>>,
         pc = "running", i < Len(src),
         NEW k \in i .. Len(src) - 1, NEW z \in 0 .. 2,
         ZeroRunAt(src, k, z), ~IsEpb(src, k + 1), src[k + 1] = 0 => z < 2,
         k = i \/ (k = i + 1 /\ IsEpb(src, i + 1)),
         CopyFrom(k, z)
  PROVE  ReadBackInv'
<1>0. /\ src \in Seq(Byte) /\ dst \in Seq(Byte) /\ payload \in Seq(Byte)
      /\ i \in Nat /\ cap \in Nat /\ Len(src) \in Nat /\ Len(dst) \in Nat
  BY DEF TypeOK
<1>1. /\ EscapedForm(src, payload) /\ Len(dst) <= i
      /\ \A f : Trace(src, payload, Len(payload), f) => Restored(f)
  BY DEF ReadBackInv
<1>2. CASE Len(dst) >= cap
  <2>1. /\ UNCHANGED <<op, src, cap, dst, i, count, payload>>
    BY <1>0, <1>2 DEF CopyFrom, Return
  <2>2. ~(cap >= Len(src))
    BY <1>0, <1>1, <1>2
  <2> QED BY <2>1, <2>2 DEF ReadBackInv, Restored
<1>3. CASE Len(dst) < cap
  <2> DEFINE b == src[k + 1]
  <2>1. /\ dst' = Append(dst, b)
        /\ count' = IF b = 0 THEN z + 1 ELSE 0
        /\ i' = k + 1
        /\ UNCHANGED <<op, pc, ret, src, cap, payload>>
    BY <1>0, <1>3 DEF CopyFrom
  <2>2. b \in Byte
    BY <1>0
  <2>3. Len(dst') = Len(dst) + 1 /\ Len(dst') <= i'
    BY <1>0, <1>1, <2>1, <2>2
  <2>4. ZeroRunAt(src', i', count')
    BY <1>0, <2>1, <2>2 DEF ZeroRunAt, Byte
  <2>5. ASSUME NEW f, Trace(src, payload, Len(payload), f)
        PROVE  Restored(f)'
    <3>1. Restored(f)
      BY <1>1, <2>5
    <3>2. f[k + 1] = Len(dst)
      BY <1>0, <2>5, <3>1 DEF Trace, Restored
    <3>3. f[k + 2] = f[k + 1] + 1 /\ b = payload[f[k + 1] + 1]
      BY <1>0, <2>5 DEF Trace
    <3>4. dst'[Len(dst) + 1] = payload[Len(dst) + 1]
      BY <1>0, <2>1, <2>2, <3>2, <3>3
    <3>5. \A m \in 1 .. Len(dst) : dst'[m] = payload[m]
      BY <1>0, <2>1, <2>2, <3>1 DEF Restored
    <3>6. \A m \in 1 .. Len(dst') : dst'[m] = payload'[m]
      BY <1>0, <2>1, <2>3, <3>4, <3>5
    <3>7. Len(dst') = f[i' + 1]
      BY <1>0, <2>1, <2>3, <3>2, <3>3
    <3> QED BY <3>6, <3>7 DEF Restored
  <2> QED BY <1>1, <2>1, <2>3, <2>4, <2>5 DEF ReadBackInv
<1> QED BY <1>0, <1>2, <1>3

\* Every step keeps the invariant.
LEMMA NextReadBackInv ==
  TypeOK /\ EscInv /\ ReadBackInv /\ [Next]_vars => ReadBackInv'
<1> SUFFICES ASSUME TypeOK, EscInv, ReadBackInv, [Next]_vars,
                    op' = "nal_to_rbsp", payload' # <<>>
             PROVE  ReadBackInv'
  BY DEF ReadBackInv
<1>0. /\ src \in Seq(Byte) /\ dst \in Seq(Byte) /\ i \in 0 .. Len(src)
      /\ count \in 0 .. 2 /\ Len(src) \in Nat
  BY DEF TypeOK
<1>1. ASSUME Unescaping, payload # <<>>
      PROVE  /\ op = "nal_to_rbsp" /\ pc = "running"
             /\ i < Len(src) /\ src[i + 1] \in Byte
             /\ EscapedForm(src, payload) /\ ZeroRunAt(src, i, count)
             /\ IsEpb(src, i + 1) <=> AtEpb
  <2>1. op = "nal_to_rbsp" /\ pc = "running" /\ i < Len(src)
    BY <1>1 DEF Unescaping
  <2>2. EscapedForm(src, payload) /\ ZeroRunAt(src, i, count)
    BY <1>1, <2>1 DEF ReadBackInv
  <2>3. IsEpb(src, i + 1) <=> AtEpb
    BY <1>0, <2>1, <2>2 DEF IsEpb, AtEpb, ZeroRunAt
  <2> QED BY <1>0, <2>1, <2>2, <2>3
<1>2. CASE EscapingOutOfRoom \/ InsertEpb \/ EscapeByte \/ EscapingDone
  BY <1>2 DEF EscapingOutOfRoom, InsertEpb, EscapeByte, EscapingDone, Escaping,
     Return
<1>3. CASE ForbiddenBytes
  <2>1. Unescaping /\ count = 2 /\ src[i + 1] < 3 /\ payload # <<>>
    BY <1>3 DEF ForbiddenBytes, Return
  <2>2. i - 1 \in 1 .. Len(src) - 2 /\ Forbidden(src, i - 1)
    BY <1>0, <1>1, <2>1 DEF ZeroRunAt, Forbidden
  <2> QED BY <1>1, <2>1, <2>2 DEF EscapedForm, Clean
<1>4. CASE ForbiddenEscape
  <2>1. /\ Unescaping /\ AtEpb /\ payload # <<>>
        /\ i < Len(src) - 1 /\ src[i + 2] > 3
    BY <1>4 DEF ForbiddenEscape, Return
  <2>2. IsEpb(src, i + 1) /\ EpbBeforeSmallByte(src)
    BY <1>1, <2>1 DEF EscapedForm
  <2>3. src[i + 2] <= 3
    BY <1>0, <2>1, <2>2 DEF EpbBeforeSmallByte
  <2>4. i + 2 \in 1 .. Len(src)
    BY <1>0, <2>1
  <2>5. src[i + 2] \in Byte
    BY <1>0, <2>4
  <2>6. ASSUME NEW b \in Byte PROVE ~(b > 3 /\ b <= 3)
    BY DEF Byte
  <2> QED BY <2>1, <2>3, <2>5, <2>6
<1>5. CASE CabacZeroWord
  <2>1. Unescaping /\ AtEpb /\ i = Len(src) - 1 /\ payload # <<>>
    BY <1>5 DEF CabacZeroWord, Return
  <2>2. IsEpb(src, Len(src))
    BY <1>0, <1>1, <2>1
  <2> QED BY <1>1, <2>1, <2>2 DEF EscapedForm
<1>6. CASE SkipEpb
  <2>1. /\ Unescaping /\ AtEpb /\ i < Len(src) - 1 /\ CopyFrom(i + 1, 0)
        /\ payload # <<>>
    BY <1>6 DEF SkipEpb, CopyFrom, Return
  <2>2. src[i + 1] = 3 /\ IsEpb(src, i + 1)
    BY <1>1, <2>1 DEF AtEpb
  <2>3. /\ i + 1 \in i .. Len(src) - 1 /\ ZeroRunAt(src, i + 1, 0)
        /\ ~IsEpb(src, (i + 1) + 1)
    BY <1>0, <2>1, <2>2 DEF ZeroRunAt, IsEpb
  <2> QED BY <1>1, <2>1, <2>2, <2>3, CopyKeepsRestored
<1>7. CASE UnescapeByte
  <2>1. /\ Unescaping /\ CopyFrom(i, count) /\ payload # <<>>
        /\ ~(count = 2 /\ src[i + 1] <= 3)
    BY <1>7 DEF UnescapeByte, CopyFrom, Return
  <2>2. ~AtEpb /\ (src[i + 1] = 0 => count < 2)
    BY <1>0, <2>1 DEF AtEpb
  <2>3. i \in i .. Len(src) - 1 /\ ~IsEpb(src, i + 1)
    BY <1>0, <1>1, <2>1, <2>2
  <2> QED BY <1>0, <1>1, <2>1, <2>2, <2>3, CopyKeepsRestored
<1>8. CASE UnescapingDone
  <2>1. /\ op = "nal_to_rbsp" /\ i >= Len(src) /\ ret' = Len(dst)
        /\ UNCHANGED <<op, src, cap, dst, i, count, payload>>
    BY <1>8 DEF UnescapingDone, Return
  <2>2. i = Len(src) /\ payload # <<>>
    BY <1>0, <2>1
  <2> QED BY <2>1, <2>2 DEF ReadBackInv, Restored
<1>9. CASE ReadBack
  <2>1. /\ op = "rbsp_to_nal" /\ pc = "returned" /\ ret # -1 /\ Len(dst) > 1
        /\ src' = Tail(dst) /\ dst' = <<>> /\ i' = 0 /\ count' = 0
        /\ payload' = src /\ pc' = "running"
    BY <1>9 DEF ReadBack
  <2>2. dst # <<>> /\ Tail(dst) \in Seq(Byte) /\ Len(Tail(dst)) = Len(dst) - 1
    BY <1>0, <2>1
  <2>3. EscapedPrefix(Tail(dst), src, Len(src), count)
    BY <1>0, <2>1, <2>2 DEF EscInv
  <2>4. EscapedForm(src', payload')
    BY <1>0, <2>1, <2>2, <2>3 DEF EscapedForm, EscapedPrefix
  <2>5. ZeroRunAt(src', i', count')
    BY <2>1 DEF ZeroRunAt
  <2>6. ASSUME NEW f, Trace(src', payload', Len(payload'), f)
        PROVE  Restored(f)'
    BY <2>1, <2>6 DEF Trace, Restored
  <2> QED BY <2>1, <2>4, <2>5, <2>6 DEF ReadBackInv
<1>10. CASE UNCHANGED vars
  BY <1>10 DEF vars, ReadBackInv, Restored
<1> QED
  BY <1>2, <1>3, <1>4, <1>5, <1>6, <1>7, <1>8, <1>9, <1>10 DEF Next

\* Whatever rbsp_to_nal accepts to write, nal_to_rbsp accepts to read, and it
\* gives the payload back byte for byte.
THEOREM RoundTripHolds == Spec => []RoundTrip
<1>1. TypeOK /\ ReadBackInv => RoundTrip
  <2> SUFFICES ASSUME TypeOK, ReadBackInv, op = "nal_to_rbsp",
                      pc = "returned", payload # <<>>, cap >= Len(src)
               PROVE  ret = Len(payload) /\ dst = payload
    BY DEF RoundTrip
  <2>1. /\ ret = Len(dst) /\ i = Len(src) /\ EscapedForm(src, payload)
        /\ \A f : Trace(src, payload, Len(payload), f) => Restored(f)
    BY DEF ReadBackInv
  <2>2. PICK f : Trace(src, payload, Len(payload), f)
    BY <2>1 DEF EscapedForm
  <2>3. Restored(f)
    BY <2>1, <2>2
  <2>4. Len(dst) = Len(payload) /\ \A k \in 1 .. Len(dst) : dst[k] = payload[k]
    BY <2>1, <2>2, <2>3 DEF Trace, Restored
  <2>5. dst \in Seq(Byte) /\ payload \in Seq(Byte)
    BY DEF TypeOK
  <2>6. dst = payload
    BY <2>4, <2>5
  <2> QED BY <2>1, <2>4, <2>6
<1> QED
  BY <1>1, InitTypeOK, NextTypeOK, InitEscInv, NextEscInv, InitReadBackInv,
     NextReadBackInv, PTL DEF Spec

(***************************************************************************)
(* What Unescaped is, byte by byte.                                        *)
(***************************************************************************)

\* Induction over the naturals, for a set of them.
LEMMA Induction ==
  ASSUME NEW S, 0 \in S, \A n \in Nat : n \in S => n + 1 \in S
  PROVE  Nat \subseteq S
<1> SUFFICES ASSUME Nat \ S # {} PROVE FALSE
  OBVIOUS
<1>1. PICK m \in Nat \ S : \A y \in Nat \ S : <<y, m>> \notin OpToRel(<, Nat)
  BY NatLessThanWellFounded, WFMin
<1>2. \A y \in Nat : y < m => <<y, m>> \in OpToRel(<, Nat)
  BY DEF OpToRel
<1>3. m # 0 /\ m - 1 \in Nat /\ m - 1 < m
  OBVIOUS
<1>4. m - 1 \in S
  BY <1>1, <1>2, <1>3
<1> QED BY <1>3, <1>4

\* The equation that defines Kept has a solution, so Kept is one.
LEMMA KeptDefined ==
  ASSUME NEW s \in Seq(Byte)
  PROVE  Kept(s) = [k \in 0 .. Len(s) |->
                      IF k = 0 THEN <<>>
                      ELSE IF IsEpb(s, k) THEN Kept(s)[k - 1]
                      ELSE Append(Kept(s)[k - 1], s[k])]
<1> DEFINE Add(v, k) == IF IsEpb(s, k) THEN v ELSE Append(v, s[k])
           To(n, g) == g = [k \in 0 .. n |-> IF k = 0 THEN <<>> ELSE Add(g[k - 1], k)]
           S == {n \in Nat : \E g : To(n, g)}
<1>1. 0 \in S
  <2>1. To(0, [k \in 0 .. 0 |-> <<>>])
    OBVIOUS
  <2> QED BY <2>1
<1> HIDE DEF Add
<1>2. ASSUME NEW n \in Nat, n \in S PROVE n + 1 \in S
  <2>1. PICK g : To(n, g)
    BY <1>2
  <2> DEFINE h == [k \in 0 .. n + 1 |-> IF k <= n THEN g[k] ELSE Add(g[n], n + 1)]
  <2>2. /\ DOMAIN h = 0 .. n + 1 /\ h = [k \in 0 .. n + 1 |-> h[k]]
        /\ \A k \in 0 .. n : h[k] = g[k]
        /\ h[n + 1] = Add(g[n], n + 1)
    OBVIOUS
  <2> HIDE DEF h
  <2>3. ASSUME NEW k \in 0 .. n + 1
        PROVE  h[k] = IF k = 0 THEN <<>> ELSE Add(h[k - 1], k)
    <3>1. CASE k = n + 1
      <4>1. k # 0 /\ k - 1 = n /\ n \in 0 .. n
        BY <3>1
      <4> QED BY <2>2, <3>1, <4>1
    <3>2. CASE k \in 0 .. n
      <4>1. k # 0 => k - 1 \in 0 .. n
        BY <3>2
      <4> QED BY <2>1, <2>2, <3>2, <4>1
    <3> QED BY <3>1, <3>2
  <2>4. To(n + 1, h)
    BY <2>2, <2>3
  <2> QED BY <2>4
<1>3. \E g : To(Len(s), g)
  <2> HIDE DEF To
  <2>1. Nat \subseteq S
    BY <1>1, <1>2, Induction
  <2> QED BY <2>1
<1>4. Kept(s) = CHOOSE g : To(Len(s), g)
  BY DEF Kept, Add
<1>5. To(Len(s), Kept(s))
  <2> HIDE DEF To
  <2> QED BY <1>3, <1>4
<1> QED BY <1>5 DEF Add

\* Each byte is kept or not, and nothing that was kept is dropped again.
LEMMA KeptSteps ==
  ASSUME NEW s \in Seq(Byte)
  PROVE  /\ Kept(s)[0] = <<>>
         /\ \A k \in 0 .. Len(s) - 1 :
              Kept(s)[k + 1] = IF IsEpb(s, k + 1) THEN Kept(s)[k]
                               ELSE Append(Kept(s)[k], s[k + 1])
         /\ \A k \in 0 .. Len(s) : Kept(s)[k] \in Seq(Byte)
         /\ \A m \in 0 .. Len(s) : \A k \in 0 .. m :
              Len(Kept(s)[k]) <= Len(Kept(s)[m])
<1> DEFINE f == Kept(s)
           Add(v, k) == IF IsEpb(s, k) THEN v ELSE Append(v, s[k])
<1>1. f = [k \in 0 .. Len(s) |-> IF k = 0 THEN <<>> ELSE Add(f[k - 1], k)]
  BY KeptDefined
<1> HIDE DEF f, Add
<1>2. f[0] = <<>>
  BY <1>1
<1>3. ASSUME NEW k \in 0 .. Len(s) - 1 PROVE f[k + 1] = Add(f[k], k + 1)
  <2>1. k + 1 \in 0 .. Len(s) /\ k + 1 # 0 /\ (k + 1) - 1 = k
    OBVIOUS
  <2> QED BY <1>1, <2>1
<1>4. ASSUME NEW k \in 0 .. Len(s) - 1, f[k] \in Seq(Byte)
      PROVE  f[k + 1] \in Seq(Byte) /\ Len(f[k]) <= Len(f[k + 1])
  <2>1. s[k + 1] \in Byte
    OBVIOUS
  <2>2. f[k + 1] = f[k] \/ f[k + 1] = Append(f[k], s[k + 1])
    BY <1>3 DEF Add
  <2>3. CASE f[k + 1] = f[k]
    <3>1. Len(f[k]) <= Len(f[k])
      BY <1>4
    <3> QED BY <1>4, <2>3, <3>1, Zenon
  <2>4. CASE f[k + 1] = Append(f[k], s[k + 1])
    <3>1. /\ Append(f[k], s[k + 1]) \in Seq(Byte)
          /\ Len(f[k]) <= Len(Append(f[k], s[k + 1]))
      BY <1>4, <2>1
    <3> QED BY <2>4, <3>1, Zenon
  <2> QED BY <2>2, <2>3, <2>4
<1> DEFINE Good(m) == /\ f[m] \in Seq(Byte)
                      /\ \A k \in 0 .. m : Len(f[k]) <= Len(f[m])
           S == {m \in Nat : m <= Len(s) => \A k \in 0 .. m : Good(k)}
<1>5. 0 \in S
  <2>1. Good(0)
    BY <1>2
  <2> HIDE DEF Good
  <2> QED BY <2>1
<1>6. ASSUME NEW m \in Nat, m \in S PROVE m + 1 \in S
  <2> SUFFICES ASSUME m + 1 <= Len(s) PROVE \A k \in 0 .. m + 1 : Good(k)
    OBVIOUS
  <2>1. \A k \in 0 .. m : Good(k)
    BY <1>6
  <2>2. f[m + 1] \in Seq(Byte) /\ Len(f[m]) <= Len(f[m + 1])
    BY <1>4, <2>1
  <2>3. f[m] \in Seq(Byte)
    BY <2>1
  <2>4. ASSUME NEW k \in 0 .. m + 1 PROVE Len(f[k]) <= Len(f[m + 1])
    <3>1. CASE k = m + 1
      BY <2>2, <3>1
    <3>2. CASE k \in 0 .. m
      <4>1. f[k] \in Seq(Byte) /\ Len(f[k]) <= Len(f[m])
        BY <2>1, <3>2
      <4>2. Len(f[k]) \in Nat /\ Len(f[m]) \in Nat /\ Len(f[m + 1]) \in Nat
        BY <2>2, <2>3, <4>1
      <4> QED BY <2>2, <4>1, <4>2
    <3> QED BY <3>1, <3>2
  <2>5. Good(m + 1)
    BY <2>2, <2>4
  <2> HIDE DEF Good
  <2> QED BY <2>1, <2>5
<1> HIDE DEF Good
<1>7. \A k \in 0 .. Len(s) : Good(k)
  <2>1. Nat \subseteq S
    <3> HIDE DEF S
    <3> QED BY <1>5, <1>6, Induction
  <2> QED BY <2>1
<1> QED BY <1>2, <1>3, <1>7 DEF Good, f, Add

(***************************************************************************)
(* The inductive invariant of nal_to_rbsp, for any unit.                   *)
(***************************************************************************)

UnescInv ==
  op = "nal_to_rbsp" =>
    /\ ZeroRunAt(src, i, count)
    /\ \A k \in 1 .. i - 2 : ~Forbidden(src, k)
    /\ \A k \in 1 .. i - 1 : IsEpb(src, k) => src[k + 1] <= 3
    /\ ~IsEpb(src, i)
    /\ dst = Kept(src)[i]
    /\ UnescapesAsDefined

\* The first byte of the unit is not consumed yet.
LEMMA UnescInvAtStart ==
  ASSUME NEW s \in Seq(Byte)
  PROVE  ZeroRunAt(s, 0, 0) /\ ~IsEpb(s, 0) /\ Kept(s)[0] = <<>>
BY KeptSteps DEF ZeroRunAt, IsEpb

LEMMA InitUnescInv == Init => UnescInv
<1> SUFFICES ASSUME Init, op = "nal_to_rbsp" PROVE UnescInv
  BY DEF UnescInv
<1>1. PICK s \in Nals, size \in RbspSizes : BeginUnescaping(s, size)
  BY DEF Init, BeginEscaping
<1>2. s \in Seq(Byte)
  BY PayloadsAreBytes
<1>3. ZeroRunAt(s, 0, 0) /\ ~IsEpb(s, 0) /\ Kept(s)[0] = <<>>
  BY <1>2, UnescInvAtStart
<1>4. /\ src = s /\ dst = <<>> /\ i = 0 /\ count = 0 /\ pc = "running"
  BY <1>1 DEF BeginUnescaping
<1>5. UnescapesAsDefined
  BY <1>4 DEF UnescapesAsDefined
<1> QED BY <1>3, <1>4, <1>5 DEF UnescInv

\* An answer changes nothing but pc and ret.
LEMMA ReturnKeepsUnescInv ==
  ASSUME UnescInv, NEW v, Return(v), UnescapesAsDefined'
  PROVE  UnescInv'
BY DEF UnescInv, Return

\* The byte at offset k, past an escape or not, is copied or does not fit.
LEMMA CopyKeepsUnescInv ==
  ASSUME TypeOK, UnescInv, op = "nal_to_rbsp", pc = "running", i < Len(src),
         NEW k \in i .. Len(src) - 1, NEW z \in 0 .. 2,
         ZeroRunAt(src, k, z), ~IsEpb(src, k + 1), ~(z = 2 /\ src[k + 1] <= 3),
         k = i \/ (k = i + 1 /\ IsEpb(src, i + 1) /\ src[i + 2] <= 3),
         CopyFrom(k, z)
  PROVE  UnescInv'
<1>0. /\ src \in Seq(Byte) /\ dst \in Seq(Byte)
      /\ i \in Nat /\ cap \in Nat /\ Len(src) \in Nat /\ Len(dst) \in Nat
      /\ src[k + 1] \in Byte
  BY DEF TypeOK
<1>1. /\ ZeroRunAt(src, i, count)
      /\ \A m \in 1 .. i - 2 : ~Forbidden(src, m)
      /\ \A m \in 1 .. i - 1 : IsEpb(src, m) => src[m + 1] <= 3
      /\ ~IsEpb(src, i) /\ dst = Kept(src)[i]
  BY DEF UnescInv
<1>2. Kept(src)[k] = dst
  <2>1. CASE k = i
    BY <1>1, <2>1
  <2>2. CASE k = i + 1 /\ IsEpb(src, i + 1)
    BY <1>0, <1>1, <2>2, KeptSteps
  <2> QED BY <2>1, <2>2
<1>3. Kept(src)[k + 1] = Append(dst, src[k + 1])
  <2>1. k \in 0 .. Len(src) - 1
    BY <1>0
  <2> QED BY <1>0, <1>2, <2>1, KeptSteps
<1>4. CASE Len(dst) >= cap
  <2>1. Return(-1)
    BY <1>0, <1>4 DEF CopyFrom
  <2>2. Len(Kept(src)[k + 1]) = Len(dst) + 1
    BY <1>0, <1>3
  <2>3. /\ Kept(src)[Len(src)] \in Seq(Byte)
        /\ Len(Kept(src)[k + 1]) <= Len(Kept(src)[Len(src)])
    <3>1. Len(src) \in 0 .. Len(src) /\ k + 1 \in 0 .. Len(src)
      BY <1>0
    <3> QED BY <1>0, <3>1, KeptSteps
  <2>4. Len(Unescaped(src)) > cap
    <3>1. Len(Kept(src)[Len(src)]) \in Nat
      BY <2>3
    <3> QED BY <1>0, <1>4, <2>2, <2>3, <3>1 DEF Unescaped
  <2>5. UnescapesAsDefined'
    BY <2>1, <2>4 DEF Return, UnescapesAsDefined
  <2> QED BY <2>1, <2>5, ReturnKeepsUnescInv
<1>5. CASE Len(dst) < cap
  <2> DEFINE b == src[k + 1]
  <2>1. /\ dst' = Append(dst, b)
        /\ count' = IF b = 0 THEN z + 1 ELSE 0
        /\ i' = k + 1
        /\ UNCHANGED <<op, pc, ret, src, cap, payload>>
    BY <1>0, <1>5 DEF CopyFrom
  <2>2. ZeroRunAt(src, k + 1, count')
    BY <1>0, <2>1 DEF ZeroRunAt, Byte
  <2>3. ASSUME NEW m \in 1 .. (k + 1) - 2, Forbidden(src, m) PROVE FALSE
    <3>1. CASE m <= i - 2
      BY <1>0, <1>1, <2>3, <3>1
    <3>2. CASE m + 2 = k + 1
      <4>1. k >= 2 /\ m = k - 1 /\ m + 1 = k /\ m + 2 = k + 1
        BY <1>0, <3>2
      <4>2. src[k - 1] = 0 /\ src[k] = 0 /\ src[k + 1] < 3
        BY <2>3, <4>1 DEF Forbidden
      <4>3. z = 2
        BY <1>0, <4>1, <4>2 DEF ZeroRunAt
      <4>4. \A w \in Byte : w < 3 => w <= 3
        BY DEF Byte
      <4> QED BY <1>0, <4>2, <4>3, <4>4
    <3>3. CASE m + 2 = i + 1 /\ k = i + 1 /\ IsEpb(src, i + 1)
      BY <1>0, <2>3, <3>3 DEF Forbidden, IsEpb
    <3> QED BY <1>0, <3>1, <3>2, <3>3
  <2>4. ASSUME NEW m \in 1 .. (k + 1) - 1, IsEpb(src, m) PROVE src[m + 1] <= 3
    <3>1. CASE m <= i - 1
      BY <1>0, <1>1, <2>4, <3>1
    <3>2. CASE m = i
      BY <1>1, <2>4, <3>2
    <3>3. CASE m = i + 1 /\ k = i + 1
      <4>1. src[i + 2] <= 3 /\ m + 1 = i + 2
        BY <1>0, <3>3
      <4> QED BY <4>1
    <3> QED BY <1>0, <3>1, <3>2, <3>3
  <2>5. UnescapesAsDefined'
    BY <2>1 DEF UnescapesAsDefined
  <2>6. dst' = Kept(src)[k + 1]
    BY <1>3, <2>1
  <2> QED BY <2>1, <2>2, <2>3, <2>4, <2>5, <2>6 DEF UnescInv
<1> QED BY <1>0, <1>4, <1>5

\* Every step keeps the invariant.
LEMMA NextUnescInv == TypeOK /\ UnescInv /\ [Next]_vars => UnescInv'
<1> SUFFICES ASSUME TypeOK, UnescInv, [Next]_vars, op' = "nal_to_rbsp"
             PROVE  UnescInv'
  BY DEF UnescInv
<1>0. /\ src \in Seq(Byte) /\ dst \in Seq(Byte) /\ i \in 0 .. Len(src)
      /\ count \in 0 .. 2 /\ Len(src) \in Nat /\ cap \in Nat /\ Len(dst) \in Nat
      /\ Len(dst) # -1
  BY DEF TypeOK
<1>1. ASSUME Unescaping
      PROVE  /\ op = "nal_to_rbsp" /\ pc = "running" /\ i < Len(src)
             /\ src[i + 1] \in Byte /\ ZeroRunAt(src, i, count)
             /\ IsEpb(src, i + 1) <=> AtEpb
  <2>1. op = "nal_to_rbsp" /\ pc = "running" /\ i < Len(src)
    BY <1>1 DEF Unescaping
  <2>2. ZeroRunAt(src, i, count)
    BY <2>1 DEF UnescInv
  <2>3. IsEpb(src, i + 1) <=> AtEpb
    BY <1>0, <2>1, <2>2 DEF IsEpb, AtEpb, ZeroRunAt
  <2> QED BY <1>0, <2>1, <2>2, <2>3
<1>2. CASE EscapingOutOfRoom \/ InsertEpb \/ EscapeByte \/ EscapingDone
  BY <1>2 DEF EscapingOutOfRoom, InsertEpb, EscapeByte, EscapingDone, Escaping,
     Return
<1>3. CASE ForbiddenBytes
  <2>1. Unescaping /\ count = 2 /\ src[i + 1] < 3 /\ Return(-1)
    BY <1>3 DEF ForbiddenBytes
  <2>2. i - 1 \in 1 .. Len(src) - 2 /\ Forbidden(src, i - 1)
    BY <1>0, <1>1, <2>1 DEF ZeroRunAt, Forbidden
  <2>3. UnescapesAsDefined'
    BY <2>1, <2>2 DEF Malformed, Return, UnescapesAsDefined
  <2> QED BY <2>1, <2>3, ReturnKeepsUnescInv
<1>4. CASE ForbiddenEscape
  <2>1. /\ Unescaping /\ AtEpb
        /\ i < Len(src) - 1 /\ src[i + 2] > 3 /\ Return(-1)
    BY <1>4 DEF ForbiddenEscape
  <2>2. i + 1 \in 1 .. Len(src) - 1 /\ IsEpb(src, i + 1) /\ src[(i + 1) + 1] > 3
    BY <1>0, <1>1, <2>1
  <2>3. UnescapesAsDefined'
    BY <2>1, <2>2 DEF Malformed, Return, UnescapesAsDefined
  <2> QED BY <2>1, <2>3, ReturnKeepsUnescInv
<1>5. ASSUME op = "nal_to_rbsp", Return(Len(dst)),
             \/ i = Len(src)
             \/ i = Len(src) - 1 /\ Unescaping /\ AtEpb
      PROVE  UnescInv'
  <2>1. /\ \A k \in 1 .. i - 2 : ~Forbidden(src, k)
        /\ \A k \in 1 .. i - 1 : IsEpb(src, k) => src[k + 1] <= 3
        /\ ~IsEpb(src, i) /\ dst = Kept(src)[i]
    BY <1>5 DEF UnescInv
  <2>2. IsEpb(src, Len(src)) <=> i = Len(src) - 1
    BY <1>0, <1>1, <1>5, <2>1
  <2>3. ASSUME NEW k \in 1 .. Len(src) - 2 PROVE ~Forbidden(src, k)
    <3>1. CASE k <= i - 2
      BY <1>0, <2>1, <3>1
    <3>2. CASE k = i - 1 /\ i = Len(src) - 1
      <4>1. k + 2 = i + 1 /\ src[i + 1] = 3
        BY <1>0, <1>5, <3>2 DEF AtEpb
      <4> QED BY <4>1 DEF Forbidden
    <3> QED BY <1>0, <1>5, <3>1, <3>2
  <2>4. ASSUME NEW k \in 1 .. Len(src) - 1, IsEpb(src, k)
        PROVE  ~(src[k + 1] > 3)
    <3>1. CASE k <= i - 1
      <4>1. src[k + 1] <= 3 /\ src[k + 1] \in Byte
        BY <1>0, <2>1, <2>4, <3>1
      <4>2. \A b \in Byte : b <= 3 => ~(b > 3)
        BY DEF Byte
      <4> QED BY <4>1, <4>2
    <3>2. CASE k = i
      BY <2>1, <2>4, <3>2
    <3> QED BY <1>0, <1>5, <3>1, <3>2
  <2>5. ~Malformed(src)
    BY <2>3, <2>4 DEF Malformed
  <2>6. dst = Unescaped(src)
    <3>1. CASE i = Len(src)
      BY <2>1, <3>1 DEF Unescaped
    <3>2. CASE i = Len(src) - 1
      <4>1. i \in 0 .. Len(src) - 1 /\ Len(src) = i + 1 /\ IsEpb(src, i + 1)
        BY <1>0, <2>2, <3>2
      <4> QED BY <1>0, <2>1, <4>1, KeptSteps DEF Unescaped
    <3> QED BY <1>5, <3>1, <3>2
  <2>7. i = IF IsEpb(src, Len(src)) THEN Len(src) - 1 ELSE Len(src)
    BY <1>0, <1>5, <2>2
  <2>8. UnescapesAsDefined'
    BY <1>0, <1>5, <2>5, <2>6, <2>7 DEF Return, UnescapesAsDefined
  <2> QED BY <1>5, <2>8, ReturnKeepsUnescInv
<1>6. CASE CabacZeroWord
  BY <1>1, <1>5, <1>6 DEF CabacZeroWord
<1>7. CASE SkipEpb
  <2>1. /\ Unescaping /\ AtEpb /\ i < Len(src) - 1 /\ CopyFrom(i + 1, 0)
        /\ src[i + 2] <= 3
    BY <1>7 DEF SkipEpb
  <2>2. src[i + 1] = 3 /\ IsEpb(src, i + 1)
    BY <1>1, <2>1 DEF AtEpb
  <2>3. /\ i + 1 \in i .. Len(src) - 1 /\ ZeroRunAt(src, i + 1, 0)
        /\ ~IsEpb(src, (i + 1) + 1)
    BY <1>0, <2>1, <2>2 DEF ZeroRunAt, IsEpb
  <2> QED BY <1>1, <2>1, <2>2, <2>3, CopyKeepsUnescInv
<1>8. CASE UnescapeByte
  <2>1. /\ Unescaping /\ CopyFrom(i, count) /\ ~(count = 2 /\ src[i + 1] <= 3)
    BY <1>8 DEF UnescapeByte
  <2>2. ~AtEpb
    BY <2>1 DEF AtEpb
  <2>3. i \in i .. Len(src) - 1 /\ ~IsEpb(src, i + 1)
    BY <1>0, <1>1, <2>1, <2>2
  <2> QED BY <1>0, <1>1, <2>1, <2>3, CopyKeepsUnescInv
<1>9. CASE UnescapingDone
  <2>1. op = "nal_to_rbsp" /\ i >= Len(src) /\ Return(Len(dst))
    BY <1>9 DEF UnescapingDone
  <2>2. i = Len(src)
    BY <1>0, <2>1
  <2> QED BY <1>5, <2>1, <2>2
<1>10. CASE ReadBack
  <2>1. /\ src' = Tail(dst) /\ dst' = <<>> /\ i' = 0 /\ count' = 0
        /\ pc' = "running" /\ Len(dst) > 1
    BY <1>10 DEF ReadBack
  <2>2. Tail(dst) \in Seq(Byte)
    BY <1>0, <2>1
  <2>3. /\ ZeroRunAt(src', 0, 0) /\ ~IsEpb(src', 0) /\ Kept(src')[0] = <<>>
    BY <2>1, <2>2, UnescInvAtStart
  <2>4. UnescapesAsDefined'
    BY <2>1 DEF UnescapesAsDefined
  <2> QED BY <2>1, <2>3, <2>4 DEF UnescInv
<1>11. CASE UNCHANGED vars
  BY <1>11 DEF vars, UnescInv, UnescapesAsDefined
<1> QED
  BY <1>2, <1>3, <1>4, <1>6, <1>7, <1>8, <1>9, <1>10, <1>11 DEF Next

\* nal_to_rbsp refuses exactly the units that are malformed or do not fit, and
\* gives of any other one the bytes that are not emulation prevention bytes.
THEOREM UnescapingAsDefined == Spec => []UnescapesAsDefined
<1>1. op \in {"rbsp_to_nal", "nal_to_rbsp"} /\ UnescInv => UnescapesAsDefined
  BY DEF UnescInv, UnescapesAsDefined
<1>2. TypeOK /\ UnescInv => UnescapesAsDefined
  BY <1>1 DEF TypeOK
<1> QED
  BY <1>2, InitTypeOK, NextTypeOK, InitUnescInv, NextUnescInv, PTL DEF Spec
============================================================================
