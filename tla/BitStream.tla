------------------------------ MODULE BitStream ------------------------------
(***************************************************************************)
(* The bit streams of bs.h.  A program writes fields into a buffer, ends   *)
(* them with rbsp_trailing_bits, and the bytes, or the first few of them,  *)
(* are read back field by field: what write_nal_unit and read_nal_unit do  *)
(* around the payload of a unit.                                           *)
(*                                                                         *)
(* The cursor of a bs_t is one number: b->p - b->start is pos \div 8, and  *)
(* b->bits_left is 8 - pos % 8.  Bit 0 is the first bit of the first byte. *)
(* bs_write_u8 and bs_write_bytes on a byte boundary, the only place where *)
(* the code has them, write what bs_write_u does.                          *)
(***************************************************************************)
EXTENDS Integers, Sequences, FiniteSetsExt

CONSTANTS
  Size,      \* the bytes of the buffer written to
  Width,     \* the bits of an int: 32
  Fields,    \* the fields that may be written, see FieldType
  MaxFields  \* bound of the model: fields in a buffer

\* 1 << k, and v >> k.
Pow2[k \in 0 .. Width] == IF k = 0 THEN 1 ELSE 2 * Pow2[k - 1]

Shifted(v) ==
  LET right[k \in 0 .. Width] == IF k = 0 THEN v ELSE right[k - 1] \div 2
  IN  right

\* A field of n bits, or of an Exp-Golomb code, for which n is not used.  The
\* values are a uint32_t's, or for signed codes an int's.
FieldType ==
  [kind : {"u", "ue"}, n : 0 .. Width, v : 0 .. Pow2[Width] - 1]
  \cup [kind : {"se"}, n : 0 .. Width, v : -Pow2[Width - 1] .. Pow2[Width - 1] - 1]

ASSUME BufferSize == Size \in Nat
ASSUME IntWidth == Width \in Nat /\ Width >= 4 /\ Width % 2 = 0
ASSUME FieldsAreTyped == Fields \subseteq FieldType
ASSUME FieldBound == MaxFields \in Nat

VARIABLES
  mem,      \* the bits of the buffer
  size,     \* b->end - b->start
  pos,      \* the cursor
  phase,    \* writing, or given up; reading, or done, or given up
  written,  \* history: the fields written, each with where its code begins
  seen      \* history: the values read

vars == <<mem, size, pos, phase, written, seen>>

\* A buffer from calloc, or one that held something else.
Init ==
  /\ \E junk \in {0, 1} : mem = [k \in 0 .. 8 * Size - 1 |-> junk]
  /\ size = Size /\ pos = 0
  /\ phase = "write" /\ written = <<>> /\ seen = <<>>

----------------------------------------------------------------------------
bs_byte_aligned(at) == at % 8 = 0
bs_eof(at) == at \div 8 >= size
bs_overrun == pos \div 8 > size
bs_pos == IF bs_overrun THEN size ELSE pos \div 8

\* To the next byte boundary, if this is none.
Aligned(at) == IF bs_byte_aligned(at) THEN at ELSE 8 * (at \div 8 + 1)

\* Mutant: a bit is set but not cleared first (the FIXME of bs_write_u1).
Mut_Put(bits, into) ==
  [k \in DOMAIN into |->
     IF k - pos + 1 \in 1 .. Len(bits) /\ bits[k - pos + 1] = 1
     THEN 1 ELSE into[k]]

\* Bits are written inside of the buffer and ignored outside of it.
Put(bits, into) ==
  [k \in DOMAIN into |->
     IF k - pos + 1 \in 1 .. Len(bits) THEN bits[k - pos + 1] ELSE into[k]]

Bit(v, k) == Shifted(v)[k] % 2

\* bs_write_u(b, n, v).  A shift by the width or more is undefined: the shift
\* count is masked, or the result is zero.
BitsOf(n, v, masked) ==
  [k \in 1 .. n |-> IF n - k < Width THEN Bit(v, n - k)
                    ELSE IF masked THEN Bit(v, (n - k) % Width) ELSE 0]

\* len_table and the three shifts into it.
LengthOf(v) == IF v = 0 THEN 1 ELSE Min({l \in 1 .. Width : v < Pow2[l]})

\* bs_write_ue(b, v); v++ wraps.
UeCode(v, masked) ==
  IF v = 0 THEN <<1>>
  ELSE LET w == (v + 1) % Pow2[Width] IN BitsOf(2 * LengthOf(w) - 1, w, masked)

\* Mutant: zero and the positive numbers are told apart at one.
Mut_SeToUe(v) == (IF v < 0 THEN -v * 2 ELSE v * 2 + 1) % Pow2[Width]

\* What bs_write_se gives bs_write_ue; the int is taken for a uint32_t.
Doubled(v) == IF v <= 0 THEN -v * 2 ELSE v * 2 - 1

SeToUe(v) == Doubled(v) % Pow2[Width]

Codes(f) ==
  CASE f.kind = "u"  -> {BitsOf(f.n, f.v, FALSE)}
    [] f.kind = "ue" -> {UeCode(f.v, masked) : masked \in BOOLEAN}
    [] f.kind = "se" -> {UeCode(SeToUe(f.v), masked) : masked \in BOOLEAN}

Write(f) ==
  /\ phase = "write" /\ Len(written) < MaxFields
  /\ \E code \in Codes(f) :
       /\ mem' = Put(code, mem)
       /\ pos' = pos + Len(code)
       /\ written' = Append(written, [field |-> f, at |-> pos, code |-> code])
  /\ UNCHANGED <<size, phase, seen>>

\* write_rbsp_trailing_bits, and the check for an overrun.  A reader then opens
\* the bytes written, or those of them that arrived.
TrailingBits(at) == [k \in 1 .. Aligned(at + 1) - at |-> IF k = 1 THEN 1 ELSE 0]

Finish ==
  LET stop == TrailingBits(pos)
      end  == (pos + Len(stop)) \div 8
  IN  /\ phase = "write"
      /\ \/ /\ end > size
            /\ pos' = pos + Len(stop) /\ mem' = Put(stop, mem)
            /\ phase' = "unwritten" /\ UNCHANGED size
         \/ /\ end <= size
            /\ \E cut \in 0 .. end :
                 /\ mem' = [k \in 0 .. 8 * cut - 1 |-> Put(stop, mem)[k]]
                 /\ size' = cut
            /\ pos' = 0 /\ phase' = "read"
      /\ UNCHANGED <<written, seen>>

----------------------------------------------------------------------------
\* bs_read_u1 or bs_peek_u1 at a place: a zero past the end.
BitAt(at) == IF bs_eof(at) THEN 0 ELSE mem[at]

\* bs_read_u: the number of the first bits, one more at a time.
Numbers(at) ==
  LET r[k \in 0 .. Width] ==
        IF k = 0 THEN 0 ELSE 2 * r[k - 1] + BitAt(at + k - 1)
  IN  r

Number(at, n) == Numbers(at)[n]

\* The loop of bs_read_ue: the bits read before the one that ends it.
LeadingZeros(at) ==
  Min({k \in 0 .. Width :
         BitAt(at + k) = 1 \/ k = Width \/ bs_eof(at + k + 1)})

\* bs_read_ue: its value, and where it leaves the cursor.  One is shifted by
\* Width after that many zeros, which is undefined.
ReadUe(at) ==
  LET n      == LeadingZeros(at)
      powers == IF n < Width THEN {Pow2[n]} ELSE {0, 1}
  IN  {[v |-> (Number(at + n + 1, n) + power - 1) % Pow2[Width],
        next |-> at + 2 * n + 1] : power \in powers}

\* bs_read_se of that value as an int; r + 1 wraps.
Signed(v) == IF v < Pow2[Width - 1] THEN v ELSE v - Pow2[Width]

UeToSe(v) ==
  LET r      == Signed(v)
      up     == Signed((v + 1) % Pow2[Width])
      half(x) == IF x >= 0 THEN x \div 2 ELSE -((-x) \div 2)
  IN  IF v % 2 = 1 THEN half(up) ELSE Signed((-half(r)) % Pow2[Width])

ReadField(f) ==
  CASE f.kind = "u"  -> {[v |-> Number(pos, f.n), next |-> pos + f.n]}
    [] f.kind = "ue" -> ReadUe(pos)
    [] f.kind = "se" -> {[r EXCEPT !.v = UeToSe(@)] : r \in ReadUe(pos)}

Read ==
  /\ phase = "read" /\ Len(seen) < Len(written)
  /\ \E r \in ReadField(written[Len(seen) + 1].field) :
       seen' = Append(seen, r.v) /\ pos' = r.next
  /\ UNCHANGED <<mem, size, phase, written>>

\* Mutant: the bits of an unfinished byte need not be there.
Mut_ReadTrailing ==
  /\ phase = "read" /\ Len(seen) = Len(written)
  /\ pos' = pos + 1
  /\ phase' = IF (pos + 1) \div 8 > size THEN "failed" ELSE "done"
  /\ UNCHANGED <<mem, size, written, seen>>

\* read_rbsp_trailing_bits, and the check for an overrun.
ReadTrailing ==
  /\ phase = "read" /\ Len(seen) = Len(written)
  /\ pos' = Aligned(pos + 1)
  /\ phase' = IF Aligned(pos + 1) \div 8 > size THEN "failed" ELSE "done"
  /\ UNCHANGED <<mem, size, written, seen>>

\* Mutant: the stop bit is looked for in the current byte only.
Mut_more_rbsp_data ==
  /\ ~bs_eof(pos)
  /\ \/ BitAt(pos) = 0
     \/ \E k \in pos + 1 .. 8 * (pos \div 8 + 1) - 1 : BitAt(k) = 1

\* more_rbsp_data: it does not move the cursor, but that of a clone.
more_rbsp_data ==
  /\ ~bs_eof(pos)
  /\ \/ BitAt(pos) = 0
     \/ \E k \in pos + 1 .. 8 * size - 1 : BitAt(k) = 1

Next == (\E f \in Fields : Write(f)) \/ Finish \/ Read \/ ReadTrailing

Spec == Init /\ [][Next]_vars

----------------------------------------------------------------------------
\* The values whose code bs_write_ue shifts by less than Width.
Small(f) ==
  CASE f.kind = "u"  -> f.v < Pow2[f.n]
    [] f.kind = "ue" -> f.v + 1 < Pow2[Width \div 2]
    [] f.kind = "se" -> Doubled(f.v) + 1 < Pow2[Width \div 2]

EndOf(k) == IF k = 0 THEN 0 ELSE written[k].at + Len(written[k].code)

\* The bytes of the whole payload, with its trailing bits.
Whole == Aligned(EndOf(Len(written)) + 1) \div 8

AllSmall == \A k \in 1 .. Len(written) : Small(written[k].field)

\* A field that arrived is read as it was written, whatever the buffer held
\* before, whichever fields follow, and whatever is missing after it, as long
\* as it and the fields before it are small.
ReadsBack ==
  \A k \in 1 .. Len(seen) :
    EndOf(k) <= 8 * size /\ (\A m \in 1 .. k : Small(written[m].field))
      => seen[k] = written[k].field.v

\* A reader fails exactly when bytes of the payload did not arrive, however few
\* and wherever the cut is: in a code, between two, or in the trailing bits.
CutDetected ==
  AllSmall => /\ phase = "done" => size = Whole
              /\ phase = "failed" => size < Whole

\* Of a payload that arrived whole, more_rbsp_data tells before each field, and
\* after the last, whether another one follows that has any bits.
MoreDataExact ==
  AllSmall /\ phase = "read" /\ size = Whole
    => (more_rbsp_data <=>
          \E k \in Len(seen) + 1 .. Len(written) : written[k].code # <<>>)

\* A writer that is told of no overrun has lost no bit: every code is where it
\* was put, and no later one has changed it.
NothingLost ==
  phase = "read" =>
    \A k \in 1 .. Len(written) : \A m \in 1 .. Len(written[k].code) :
      written[k].at + m <= 8 * size
        => mem[written[k].at + m - 1] = written[k].code[m]
============================================================================
