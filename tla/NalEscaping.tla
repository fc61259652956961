---------------------------- MODULE NalEscaping ----------------------------
(***************************************************************************)
(* The two conversions of h264_nal.c between an RBSP (the payload of a NAL *)
(* unit) and the escaped bytes of the unit in an Annex B stream:           *)
(* rbsp_to_nal inserts an emulation prevention byte 03 after 00 00, and    *)
(* nal_to_rbsp removes it and refuses bytes no NAL unit may hold.          *)
(*                                                                         *)
(* Each is a loop over its input; a step of this specification is one      *)
(* iteration, or the return.  A behaviour converts one buffer, and a unit  *)
(* rbsp_to_nal produced may then be read back by nal_to_rbsp.              *)
(***************************************************************************)
EXTENDS Integers, Sequences

CONSTANTS
  Rbsps,      \* the payloads given to rbsp_to_nal
  NalSizes,   \* the sizes of the buffer rbsp_to_nal writes to
  Nals,       \* the NAL units, written by anybody, given to nal_to_rbsp
  RbspSizes   \* the sizes of the buffer nal_to_rbsp writes to

Byte == 0 .. 255

ASSUME PayloadsAreBytes == Rbsps \subseteq Seq(Byte) /\ Nals \subseteq Seq(Byte)
ASSUME SizesAreNaturals == NalSizes \subseteq Nat /\ RbspSizes \subseteq Nat

VARIABLES
  op,       \* the conversion that runs or ran last
  pc,       \* whether it runs or has returned
  ret,      \* what it returned
  src,      \* its input buffer
  cap,      \* the size of its output buffer
  dst,      \* the bytes it has written
  i,        \* how many bytes of src it has consumed
  count,    \* zero bytes in a row, since the last escape
  payload   \* history: the RBSP whose escaped form src is, when it is known

vars == <<op, pc, ret, src, cap, dst, i, count, payload>>

ZerosAfter(b) == IF b = 0 THEN count + 1 ELSE 0

Return(value) ==
  /\ pc' = "returned"
  /\ ret' = value
  /\ UNCHANGED <<op, src, cap, dst, i, count, payload>>

----------------------------------------------------------------------------
\* rbsp_to_nal.  Its first byte is a zero nobody reads from src.

BeginEscaping(s, size) ==
  /\ op = "rbsp_to_nal" /\ pc = "running" /\ ret = 0
  /\ src = s /\ cap = size
  /\ dst = IF size > 0 THEN <<0>> ELSE <<>>
  /\ i = 0 /\ count = 0
  /\ payload = <<>>

\* The local j: it counts the first byte even where there was no room for it.
j == IF dst = <<>> THEN 1 ELSE Len(dst)

\* Mutant: the bound check is off by one.
Mut_RoomForNal == j <= cap
RoomForNal == j < cap

Escaping == op = "rbsp_to_nal" /\ pc = "running"

\* Mutants: an escape one zero too late; the byte 03 itself not escaped.
Mut_MustEscape_Late == count = 3 /\ src[i + 1] <= 3
Mut_MustEscape_Below3 == count = 2 /\ src[i + 1] < 3
MustEscape == count = 2 /\ src[i + 1] <= 3

EscapingOutOfRoom ==
  /\ Escaping /\ i < Len(src) /\ ~RoomForNal
  /\ Return(-1)

\* Mutant: the zero counter survives the escape.
Mut_InsertEpb ==
  /\ Escaping /\ i < Len(src) /\ RoomForNal /\ MustEscape
  /\ dst' = Append(dst, 3)
  /\ UNCHANGED <<op, pc, ret, src, cap, i, count, payload>>

InsertEpb ==
  /\ Escaping /\ i < Len(src) /\ RoomForNal /\ MustEscape
  /\ dst' = Append(dst, 3)
  /\ count' = 0
  /\ UNCHANGED <<op, pc, ret, src, cap, i, payload>>

EscapeByte ==
  /\ Escaping /\ i < Len(src) /\ RoomForNal /\ ~MustEscape
  /\ dst' = Append(dst, src[i + 1])
  /\ count' = ZerosAfter(src[i + 1])
  /\ i' = i + 1
  /\ UNCHANGED <<op, pc, ret, src, cap, payload>>

EscapingDone ==
  /\ Escaping /\ i = Len(src)
  /\ Return(j)

----------------------------------------------------------------------------
\* nal_to_rbsp.

BeginUnescaping(s, size) ==
  /\ op = "nal_to_rbsp" /\ pc = "running" /\ ret = 0
  /\ src = s /\ cap = size /\ dst = <<>>
  /\ i = 0 /\ count = 0
  /\ payload = <<>>

Unescaping == op = "nal_to_rbsp" /\ pc = "running" /\ i < Len(src)
AtEpb == count = 2 /\ src[i + 1] = 3

ForbiddenBytes ==
  /\ Unescaping /\ count = 2 /\ src[i + 1] < 3
  /\ Return(-1)

ForbiddenEscape ==
  /\ Unescaping /\ AtEpb
  /\ i < Len(src) - 1 /\ src[i + 2] > 3
  /\ Return(-1)

\* A final 00 00 03 stands for a cabac_zero_word: its 03 is not consumed.
CabacZeroWord ==
  /\ Unescaping /\ AtEpb /\ i = Len(src) - 1
  /\ Return(Len(dst))

\* The byte at offset k goes to the output, or there is no room for it;
\* zeros is the number of zero bytes just before it.
CopyFrom(k, zeros) ==
  LET b == src[k + 1] IN
  \/ /\ Len(dst) >= cap
     /\ Return(-1)
  \/ /\ Len(dst) < cap
     /\ dst' = Append(dst, b)
     /\ count' = IF b = 0 THEN zeros + 1 ELSE 0
     /\ i' = k + 1
     /\ UNCHANGED <<op, pc, ret, src, cap, payload>>

\* Mutant: the zero counter survives the removed byte.
Mut_SkipEpb ==
  /\ Unescaping /\ AtEpb
  /\ i < Len(src) - 1 /\ src[i + 2] <= 3
  /\ CopyFrom(i + 1, count)

SkipEpb ==
  /\ Unescaping /\ AtEpb
  /\ i < Len(src) - 1 /\ src[i + 2] <= 3
  /\ CopyFrom(i + 1, 0)

UnescapeByte ==
  /\ Unescaping /\ ~(count = 2 /\ src[i + 1] <= 3)
  /\ CopyFrom(i, count)

UnescapingDone ==
  /\ op = "nal_to_rbsp" /\ pc = "running" /\ i >= Len(src)
  /\ Return(Len(dst))

----------------------------------------------------------------------------
\* A reader takes the unit just written, without its leading zero.
ReadBack ==
  /\ op = "rbsp_to_nal" /\ pc = "returned" /\ ret # -1 /\ Len(dst) > 1
  /\ op' = "nal_to_rbsp" /\ pc' = "running" /\ ret' = 0
  /\ src' = Tail(dst) /\ dst' = <<>>
  /\ cap' \in RbspSizes
  /\ i' = 0 /\ count' = 0
  /\ payload' = src

Init ==
  \/ \E s \in Rbsps, size \in NalSizes : BeginEscaping(s, size)
  \/ \E s \in Nals, size \in RbspSizes : BeginUnescaping(s, size)

Next ==
  \/ EscapingOutOfRoom \/ InsertEpb \/ EscapeByte \/ EscapingDone
  \/ ForbiddenBytes \/ ForbiddenEscape \/ CabacZeroWord
  \/ SkipEpb \/ UnescapeByte \/ UnescapingDone
  \/ ReadBack

Spec == Init /\ [][Next]_vars

----------------------------------------------------------------------------
(***************************************************************************)
(* What the conversions promise.                                           *)
(***************************************************************************)

\* The variables have their types, no buffer is written past its size, and
\* the zero counter never passes two.
TypeOK ==
  /\ op \in {"rbsp_to_nal", "nal_to_rbsp"}
  /\ pc \in {"running", "returned"}
  /\ ret \in Int
  /\ src \in Seq(Byte) /\ dst \in Seq(Byte) /\ payload \in Seq(Byte)
  /\ cap \in Nat /\ Len(dst) <= cap
  /\ i \in 0 .. Len(src)
  /\ count \in 0 .. 2

\* Three bytes in a row that only a start code or its prefix may hold.
Forbidden(s, k) == s[k] = 0 /\ s[k + 1] = 0 /\ s[k + 2] < 3

\* A payload whose first byte is not zero (every NAL header) is written, up to
\* the point reached, without 00 00 00, 00 00 01 or 00 00 02: no reader takes a
\* part of it for a start code.  The leading zero of rbsp_to_nal is included.
NoStartCodeEmulation ==
  op = "rbsp_to_nal" /\ src # <<>> /\ src[1] # 0
    => \A k \in 1 .. Len(dst) - 2 : ~Forbidden(dst, k)

\* "The size of nal_buf must be 3/2 * the size of the rbsp_buf (rounded up) ...
\* If that is true, there is no possible error": the comment of rbsp_to_nal,
\* for a payload that is not empty.
DocumentedSizeSuffices ==
  op = "rbsp_to_nal" /\ pc = "returned" /\ 2 * cap >= 3 * Len(src) /\ src # <<>>
    => ret = Len(dst) /\ ret > 0

\* The bytes nal_to_rbsp removes, stated without its counter.
IsEpb(s, k) == k > 2 /\ s[k] = 3 /\ s[k - 1] = 0 /\ s[k - 2] = 0

\* What is kept of the first bytes of s, by their number.
Kept(s) ==
  LET kept[k \in 0 .. Len(s)] ==
        IF k = 0 THEN <<>>
        ELSE IF IsEpb(s, k) THEN kept[k - 1]
        ELSE Append(kept[k - 1], s[k])
  IN  kept

Unescaped(s) == Kept(s)[Len(s)]

Malformed(s) ==
  \/ \E k \in 1 .. Len(s) - 2 : Forbidden(s, k)
  \/ \E k \in 1 .. Len(s) - 1 : IsEpb(s, k) /\ s[k + 1] > 3

\* nal_to_rbsp answers what the standard defines: an error exactly for a unit
\* that is malformed or does not fit, and otherwise the unit without its
\* emulation prevention bytes, consumed to its end (a final 03 excepted).
UnescapesAsDefined ==
  op = "nal_to_rbsp" /\ pc = "returned" =>
    IF ret = -1
    THEN Malformed(src) \/ Len(Unescaped(src)) > cap
    ELSE /\ ~Malformed(src)
         /\ dst = Unescaped(src) /\ ret = Len(dst)
         /\ i = IF IsEpb(src, Len(src)) THEN Len(src) - 1 ELSE Len(src)

\* Reading back what rbsp_to_nal wrote, into a buffer of the unit's size,
\* never fails and gives the payload.
RoundTrip ==
  op = "nal_to_rbsp" /\ pc = "returned" /\ payload # <<>> /\ cap >= Len(src)
    => ret = Len(payload) /\ dst = payload
============================================================================
