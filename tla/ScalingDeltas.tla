---------------------------- MODULE ScalingDeltas ----------------------------
(***************************************************************************)
(* Scaling lists are coded as the differences from one scale to the next,  *)
(* modulo 256 (write_scaling_list and read_scaling_list of h264_stream.c). *)
(* A difference to 0 ends the list: its last scale is repeated, and if     *)
(* there is none the default list is meant.                                *)
(***************************************************************************)
EXTENDS Integers, Sequences

CONSTANT ListMax  \* entries of a scaling list, 16 and 64 in the code

ASSUME ListsHaveEntries == ListMax \in Nat \ {0}

\* The remainder of C has the sign of the dividend.
CRem(x, m) == IF x >= 0 THEN x % m ELSE -((-x) % m)

\* A list is a record of its scales and of its UseDefaultScalingMatrixFlag.  The
\* local variables of the writer, and what it has written, after each turn of
\* its loop.
WriterStarts == [last |-> 8, next |-> 8, deltas |-> <<>>]

WriterTurn(s, l, j) ==
  LET next == IF s.next = 0 \/ l.default = 1 THEN 0 ELSE l.list[j]
  IN [last |-> l.list[j], next |-> next,
      deltas |-> IF s.next = 0 THEN s.deltas
                 ELSE Append(s.deltas, CRem(next - s.last, 256))]

WriterOf(l) ==
  LET w[j \in 0..ListMax] ==
        IF j = 0 THEN WriterStarts ELSE WriterTurn(w[j - 1], l, j)
  IN w

write_scaling_list(l) == WriterOf(l)[ListMax].deltas

\* The same of the reader.  It has taken so many differences; one more than there
\* are if it asks for another.
ReaderStarts == [last |-> 8, next |-> 8, list |-> <<>>, default |-> 0, taken |-> 0]

ReaderTurn(s, deltas, j) ==
  LET asks == s.next # 0
      next == IF asks /\ j <= Len(deltas)
              THEN CRem(s.last + deltas[j] + 256, 256) ELSE 0
      scale == IF next = 0 THEN s.last ELSE next
  IN [last |-> scale, next |-> next, list |-> Append(s.list, scale),
      default |-> IF ~asks THEN s.default ELSE IF j = 1 /\ next = 0 THEN 1 ELSE 0,
      taken |-> IF asks THEN s.taken + 1 ELSE s.taken]

ReaderOf(deltas) ==
  LET r[j \in 0..ListMax] ==
        IF j = 0 THEN ReaderStarts ELSE ReaderTurn(r[j - 1], deltas, j)
  IN r

read_scaling_list(deltas) ==
  LET end == ReaderOf(deltas)[ListMax] IN [list |-> end.list, default |-> end.default]

\* The reader takes all the differences and asks for no more.
TakenWhole(deltas) == ReaderOf(deltas)[ListMax].taken = Len(deltas)
=============================================================================
