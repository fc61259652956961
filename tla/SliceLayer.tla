----------------------------- MODULE SliceLayer -----------------------------
(***************************************************************************)
(* The slice data of an h264_stream_t.  Slice data is not parsed: after    *)
(* the slice header, read_slice_layer_rbsp keeps the rest of the unit as   *)
(* an array of bytes, h->slice_data, and write_slice_layer_rbsp is to      *)
(* write it.  What the header says is left out: it has a length in bits,   *)
(* with the NAL unit header in front of it.                                *)
(***************************************************************************)
EXTENDS Integers, Sequences

CONSTANTS
  HeaderBits,  \* the lengths a header may have
  Bytes,       \* bytes of slice data
  MaxData,     \* bound of the model: bytes of slice data in a unit
  Room         \* the bytes write_nal_unit has for a unit

ASSUME HeadersFit == Room \in Nat /\ HeaderBits \subseteq 8 .. 8 * (Room - 1)
ASSUME DataBound == MaxData \in Nat

Zero == "zero"      \* a byte of the buffer from calloc
Header == "header"  \* a byte of the header, with bits of the data perhaps

\* A slice of CABAC: from the end of the header to the next byte boundary there
\* are ones, and then the bytes of slice data.  The first len bytes arrive.
HeaderBytes(bits) == (bits + 7) \div 8

Content(u) == [k \in 1 .. HeaderBytes(u.bits) |-> Header] \o u.data

Units ==
  {u \in [bits : HeaderBits, data : UNION {[1 .. n -> Bytes] : n \in 1 .. MaxData},
          len : 1 .. Room + MaxData] : u.len <= Len(Content(u))}

VARIABLES
  rbsp_buf,  \* h->slice_data->rbsp_buf
  status,    \* of the last call: the unit is fine, an error, or the memory is
             \* not the program's own any more
  unit,      \* history: the unit read last, a set of at most one
  out        \* history: the unit written just now, likewise

slice_vars == <<rbsp_buf, status, unit, out>>

SliceInit == rbsp_buf = <<>> /\ status = "ok" /\ unit = {} /\ out = {}

\* b->p - b->start after the header.
p(bits) == bits \div 8

\* The byte that sptr points to.  There are always bits left of the current
\* byte: eight of them if it is not begun.
sptr(bits) == p(bits) + 1

\* What is left of n bytes of memory.
Rest(memory, bits) == SubSeq(memory, sptr(bits) + 1, Len(memory))

\* read_rbsp_slice_trailing_bits, where it is reached, moves past the byte.
Overrun(u) == p(u.bits) + 1 > u.len

\* Mutant: the debugging reader keeps the buffer of the slice before.
Mut_ReadDebug(u) ==
  LET rest == Rest(SubSeq(Content(u), 1, u.len), u.bits) IN
  /\ rbsp_buf' = IF rest = <<>> THEN rbsp_buf ELSE rest
  /\ status' = IF rest = <<>> /\ Overrun(u) THEN "error" ELSE "ok"

\* Without a byte left read_debug_nal_unit keeps none and goes on to the
\* trailing bits.
ReadDebug(u) ==
  LET rest == Rest(SubSeq(Content(u), 1, u.len), u.bits) IN
  /\ rbsp_buf' = rest
  /\ status' = IF rest = <<>> /\ Overrun(u) THEN "error" ELSE "ok"

\* read_nal_unit copies rbsp_size bytes, which may be negative.
ReadPlain(u) ==
  \/ /\ u.len - sptr(u.bits) < 0
     /\ status' = "undefined" /\ rbsp_buf' = <<>>
  \/ /\ u.len - sptr(u.bits) >= 0
     /\ status' = "ok"
     /\ rbsp_buf' = Rest(SubSeq(Content(u), 1, u.len), u.bits)

ReadSlice(u) ==
  /\ status # "undefined"
  /\ ReadDebug(u) \/ ReadPlain(u)
  /\ unit' = {u} /\ out' = {}

\* write_nal_unit of a slice with this header: the slice data is taken from the
\* buffer that is being written, and the unit ends at the cursor.
WriteSlice(bits) ==
  /\ status # "undefined"
  /\ rbsp_buf' = [k \in 1 .. Room - sptr(bits) |-> Zero]
  /\ out' = {[k \in 1 .. p(bits) |-> Header]}
  /\ status' = "ok"
  /\ UNCHANGED unit

SliceNext ==
  \/ \E u \in Units : ReadSlice(u)
  \/ \E bits \in HeaderBits : WriteSlice(bits)

SliceSpec == SliceInit /\ [][SliceNext]_slice_vars

----------------------------------------------------------------------------
\* No byte of a header is ever kept as slice data.
TypeOK ==
  /\ rbsp_buf \in Seq(Bytes \cup {Zero})
  /\ status \in {"ok", "error", "undefined"}
  /\ unit \subseteq Units

\* After a slice was read, and until one is written, its data is that of the
\* unit, as much of it as arrived, and never that of a slice before it; if not
\* even the header arrived whole, that was an error.  The data is that of
\* headers that do not end on a byte boundary: if one does, the byte the code skips for the
\* alignment bits is the first of the data.
DataRead ==
  \A u \in unit :
    status = "ok" /\ out = {} =>
      /\ u.len >= HeaderBytes(u.bits)
      /\ u.bits % 8 # 0 => rbsp_buf = SubSeq(u.data, 1, u.len - HeaderBytes(u.bits))

\* "read/write slice data correctly" (CHANGES): a slice that was read and is
\* written with a header of the same length has its data.
DataWritten ==
  [][\A u \in unit :
       status = "ok" /\ out = {} /\ u.len = Len(Content(u)) /\ WriteSlice(u.bits)
         => out' = {Content(u)}]_slice_vars
============================================================================
