------------------------------- MODULE Syntax -------------------------------
(***************************************************************************)
(* Units go from a program that writes them with this library, or with     *)
(* another encoder, to one that reads and writes each of them again.  A    *)
(* second stream object reads them with read_debug_nal_unit.               *)
(*                                                                         *)
(* A unit is a sequence of codes, each of them with its coding: the bits   *)
(* themselves are the subject of BitStream.  A reader that expects another *)
(* coding than that of the next code, or another number of codes, is out   *)
(* of step with the unit; what the code would then read is left open.      *)
(*                                                                         *)
(* Parameter sets all have the id 0.  Which of several is used for a slice *)
(* is the subject of ParameterSets.                                        *)
(***************************************************************************)
EXTENDS SyntaxElements

CONSTANTS
  Streams,     \* the streams by name, each a sequence of units: the types and
               \* the values of each field to choose from, and whether the
               \* optional end of a PPS may be there
  MaxElements  \* elements of a unit at most

ASSUME TailsAreFlags ==
  \A s \in DOMAIN Streams :
    /\ Len(Streams[s]) \in Nat
    /\ \A i \in 1 .. Len(Streams[s]) : Streams[s][i].tail \subseteq BOOLEAN

VARIABLES
  stream,   \* the name of the stream
  sent,     \* how many of its units have been sent
  enc,      \* the fields of the program that writes
  tail,     \* whether it wrote the optional end of a PPS
  wire,     \* the unit it has written
  h, d,     \* the fields of the two readers
  in_step,  \* whether both readers have been in step with all units
  out,      \* the unit written again, empty if that failed
  turn

vars == <<stream, sent, enc, tail, wire, h, d, in_step, out, turn>>

Init ==
  /\ stream \in DOMAIN Streams /\ sent = 0
  /\ enc = h264_new /\ h = h264_new /\ d = h264_new
  /\ wire = <<>> /\ out = <<>> /\ tail = FALSE /\ in_step = TRUE
  /\ turn = "encode"

----------------------------------------------------------------------------
(***************************************************************************)
(* Writing and reading a unit.                                             *)
(***************************************************************************)

\* What a field of c bits holds of v.
Cut(c, v) == IF c \in 0..30 THEN v % 2^c ELSE v

Code(coding, value) ==
  [c |-> coding, v |-> IF coding = Deltas THEN write_scaling_list(value)
                                          ELSE <<Cut(coding, value)>>]

Store(x, e, code) ==
  [x EXCEPT ![e.s][e.n] = IF code.c = Deltas THEN read_scaling_list(code.v)
                                             ELSE code.v[1]]

CodesOf(es, x, sps) ==
  [i \in DOMAIN es |-> Code(CodingOf(es[i], x, sps), x[es[i].s][es[i].n])]
Codes(mode, x, more) == CodesOf(NalUnit(mode, x, more), x, ActiveSps(x))

ClearedSps == [Zeros("sps") EXCEPT !.chroma_format_idc = 1]

\* Mutant: the slice header keeps what the slice before it has left.
Mut_Cleared(x) ==
  CASE x.nal.nal_unit_type = 7  -> [x EXCEPT !.sps = ClearedSps]
    [] x.nal.nal_unit_type = 15 -> [x EXCEPT !.subset = ClearedSps]
    [] x.nal.nal_unit_type = 8  -> [x EXCEPT !.pps = Zeros("pps")]
    [] OTHER -> x

\* The structures that a reader clears before it reads the payload.  Those of
\* the NAL unit header and the extensions of a subset SPS are not among them.
Cleared(x) ==
  CASE x.nal.nal_unit_type = 7  -> [x EXCEPT !.sps = ClearedSps]
    [] x.nal.nal_unit_type = 15 -> [x EXCEPT !.subset = ClearedSps]
    [] x.nal.nal_unit_type = 8  -> [x EXCEPT !.pps = Zeros("pps")]
    [] x.nal.nal_unit_type \in {1, 5, 19} -> [x EXCEPT !.sh = Zeros("sh")]
    [] x.nal.nal_unit_type = 20 -> [x EXCEPT !.sh = Zeros("sh"),
                                             !.sh_svc_ext = Zeros("sh_svc_ext")]
    [] OTHER -> x

\* One more code is read, as the element that comes next; the second element of
\* a unit is its type, and the payload begins after it.
Taken(s, es, i, code) ==
  IF /\ s.ok /\ i <= Len(es) /\ CodingOf(es[i], s.x, ActiveSps(s.x)) = code.c
     /\ code.c = Deltas => TakenWhole(code.v)
  THEN [s EXCEPT !.x = IF i = 2 THEN Cleared(Store(@, es[i], code))
                                ELSE Store(@, es[i], code)]
  ELSE [s EXCEPT !.ok = FALSE]

Step(mode, s, i, code) == Taken(s, NalUnit(mode, s.x, TRUE), i, code)

\* There is more data as long as there is another code, and none after the last.
Parsed(mode, x, unit) ==
  LET r[i \in 0..Len(unit)] ==
        IF i = 0 THEN [x |-> x, ok |-> TRUE]
        ELSE Step(mode, r[i - 1], i, unit[i])
      end == r[Len(unit)]
  IN [end EXCEPT !.ok = @ /\ Len(NalUnit(mode, end.x, FALSE)) <= Len(unit)]

----------------------------------------------------------------------------

\* The structures of a payload that its reader is to fill or clear.
Structures(type) ==
  CASE type = 7 -> {"sps"} [] type = 15 -> {"subset"} [] type = 8 -> {"pps"}
    [] type \in {1, 5, 19} -> {"sh"} [] type = 20 -> {"sh", "sh_svc_ext"}
    [] OTHER -> {}

\* The program that writes starts from fields of zeros, so that every field it
\* does not write is zero, or 1 for the format.
Blank(x, type) ==
  [s \in DOMAIN x |->
     CASE s \in Structures(type) \cap {"sps", "subset"} -> ClearedSps
       [] s \in Structures(type) \ {"sps", "subset"} -> Zeros(s)
       [] s = "nal" -> [Zeros("nal") EXCEPT !.nal_unit_type = type]
       [] s \in {"nal_svc_ext", "prefix_nal_svc"} -> Zeros(s)
       [] type = 15 /\ s = "sps_svc_ext" -> Zeros(s)
       [] OTHER -> x[s]]

\* What a field may hold for another program to find it in the unit: a number in
\* its bits, or scales; the default list is a list of eights.
Fits(coding, value) ==
  IF coding = Deltas
  THEN /\ value \in [list : [1..ListMax -> 1..255], default : {0, 1}]
       /\ value.default = 1 => value.list = [j \in 1..ListMax |-> 8]
  ELSE value \in Int /\ Cut(coding, value) = value

\* Fields that a unit leaves out and that others depend on are inferred to be
\* zero.
Inferred(x, more) ==
  LET type == x.nal.nal_unit_type
      frames == IF type = 20 THEN x.subset.frame_mbs_only_flag ELSE x.sps.frame_mbs_only_flag
      svc == x.sh_svc_ext
  IN /\ type \in {1, 5, 19, 20} /\ frames # 0 => x.sh.field_pic_flag = 0
     /\ type = 20 /\ x.nal_svc_ext.no_inter_layer_pred_flag # 0 =>
          svc.slice_skip_flag = 0 /\ svc.base_pred_weight_table_flag = 0
     /\ type = 20 /\ svc.adaptive_base_mode_flag # 0 => svc.default_base_mode_flag = 0
     /\ type = 8 /\ ~ more => /\ x.pps.transform_8x8_mode_flag = 0
                              /\ x.pps.pic_scaling_matrix_present_flag = 0
                              /\ x.pps.second_chroma_qp_index_offset = 0

\* A unit has fields for its elements, arrays included, and the rest is blank.
Writable(x, more) ==
  LET blank == Blank(enc, x.nal.nal_unit_type)
      held == ToSet(NalUnit("encode", x, more))
  IN /\ \A e \in held : /\ e.s \in DOMAIN Coding /\ e.n \in DOMAIN Coding[e.s]
                         /\ Fits(CodingOf(e, x, ActiveSps(x)), x[e.s][e.n])
     /\ x = [s \in DOMAIN Coding |-> [n \in DOMAIN Coding[s] |->
               IF [s |-> s, n |-> n] \in held THEN x[s][n] ELSE blank[s][n]]]
     /\ Inferred(x, more)

\* Every way to fill in the i-th of the elements es.
WaysToFill(x, es, i, values) ==
  CASE i > Len(es) -> {x}
    [] i = 2 -> {x}  \* the type
    [] OTHER -> {[x EXCEPT ![es[i].s][es[i].n] = v] : v \in values[es[i].n]}

\* Every way to fill in the elements of a unit, one after the other.
Filled(unit, type, more) ==
  LET f[i \in 0..MaxElements] ==
        IF i = 0 THEN {Blank(enc, type)}
        ELSE UNION {WaysToFill(x, NalUnit("encode", x, more), i, unit.values) : x \in f[i - 1]}
  IN f[MaxElements]

\* A difference as a signed byte.
Byte(delta) == ((delta + 128) % 256) - 128

\* Differences of scaling lists in the range of a signed byte, as the standard
\* has them; write_scaling_list does not reduce them.
Signed(unit) ==
  [i \in DOMAIN unit |->
     IF unit[i].c # Deltas THEN unit[i]
     ELSE [unit[i] EXCEPT !.v = [j \in DOMAIN @ |-> Byte(@[j])]]]

\* A list whose last scales are equal may end after the first of them.
EndedEarly(deltas) ==
  LET last == Max({1} \cup {j \in DOMAIN deltas : deltas[j] # 0})
      list == read_scaling_list(deltas).list
  IN IF last = Len(deltas) THEN deltas
     ELSE Append(SubSeq(deltas, 1, last), Byte(-list[last]))

Short(unit) ==
  [i \in DOMAIN unit |->
     IF unit[i].c # Deltas THEN unit[i] ELSE [unit[i] EXCEPT !.v = EndedEarly(@)]]

\* By this library, or by another encoder, whose scaling lists are signed and
\* may end early.
Encode ==
  /\ turn = "encode" /\ sent < Len(Streams[stream])
  /\ LET unit == Streams[stream][sent + 1]
     IN \E type \in unit.types, more \in unit.tail :
          \E x \in Filled(unit, type, more) :
          /\ Writable(x, more)
          /\ enc' = x /\ tail' = more
          /\ \/ wire' = Codes("encode", x, more)
             \/ wire' = Signed(Codes("encode", x, more))
             \/ wire' = Short(Signed(Codes("encode", x, more)))
  /\ sent' = sent + 1 /\ out' = <<>> /\ turn' = "read"
  /\ UNCHANGED <<stream, h, d, in_step>>

ReadNalUnit ==
  /\ turn = "read"
  /\ LET p == Parsed("read", h, wire)
     IN h' = p.x /\ in_step' = (in_step /\ p.ok)
  /\ turn' = "debug"
  /\ UNCHANGED <<stream, sent, enc, tail, wire, d, out>>

ReadDebugNalUnit ==
  /\ turn = "debug"
  /\ LET p == Parsed("debug", d, wire)
     IN d' = p.x /\ in_step' = (in_step /\ p.ok)
  /\ turn' = "write"
  /\ UNCHANGED <<stream, sent, enc, tail, wire, h, out>>

\* A prefix NAL unit of a picture that is no reference may end in data for the
\* future.  The writer asks, as the reader does, whether there is more data; in a
\* buffer of zeros there always is, up to its end.
DataForTheFuture ==
  /\ h.nal.nal_unit_type = 14 /\ h.nal.nal_ref_idc = 0
  /\ h.nal.svc_extension_flag = 1

WriteNalUnit ==
  /\ turn = "write"
  /\ out' = IF DataForTheFuture THEN <<>> ELSE Codes("write", h, FALSE)
  /\ turn' = "encode"
  /\ UNCHANGED <<stream, sent, enc, tail, wire, h, d, in_step>>

Next == Encode \/ ReadNalUnit \/ ReadDebugNalUnit \/ WriteNalUnit

Spec == Init /\ [][Next]_vars

----------------------------------------------------------------------------
\* The readers that have taken the unit on the wire.
Readers == CASE turn = "debug" -> {h} [] turn = "write" -> {h, d} [] OTHER -> {}
Sent == ToSet(NalUnit("encode", enc, tail))

\* Both readers take the fields of each unit off the wire as they were put there,
\* whatever units came before: the conditions of their grammars are about fields
\* of this unit or of sets that both sides have.
ReadAsWritten ==
  \A x \in Readers : in_step /\ \A e \in Sent : x[e.s][e.n] = enc[e.s][e.n]

\* Fields that a unit does not hold do not keep what an earlier one has left in
\* them: they are those of a writer who never filled them in.
NothingLeftOver ==
  \A x \in Readers : \A s \in Structures(x.nal.nal_unit_type) :
    \A n \in DOMAIN x[s] \ {e.n : e \in {g \in Sent : g.s = s}} : x[s][n] = enc[s][n]

\* An optional end of a PPS that says nothing but zeros.
TailOfZeros ==
  /\ h.nal.nal_unit_type = 8 /\ tail
  /\ h.pps.transform_8x8_mode_flag = 0 /\ h.pps.pic_scaling_matrix_present_flag = 0
  /\ h.pps.second_chroma_qp_index_offset = 0

\* What was read and is written again, with nothing changed, is the unit that
\* came, code by code; differences of scaling lists are the same as bytes, and
\* a list does not end early.  This includes the reordering of reference lists and
\* the marking of reference pictures, which README.md:195 says cannot be written
\* and CHANGES:9 says are.
WrittenBack ==
  out # <<>> => (Short(Signed(out)) = Short(Signed(wire)) \/ TailOfZeros)

\* Reading a unit that was written from what was read brings nothing new.
Settled ==
  out # <<>> => LET again == Parsed("read", h, out) IN again.ok /\ again.x = h
============================================================================
