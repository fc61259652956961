---------------------------- MODULE MCPayloads ----------------------------
(***************************************************************************)
(* Instances of BitStream and of SliceLayer: a payload is fields, or a     *)
(* slice, whose header has its fields and is a length here.                *)
(*                                                                         *)
(* Ints have eight bits, so that codes of up to 15 bits are shifted by as  *)
(* much as the width, as codes of up to 63 are in ints of 32.  The headers *)
(* of slices end at every alignment.                                       *)
(***************************************************************************)
EXTENDS BitStream, SliceLayer, TLC

Field(kind, n, v) == [kind |-> kind, n |-> n, v |-> v]

SomeFields ==
  {Field("u", 0, 0)}
  \cup {Field("u", 1, v) : v \in 0 .. 1} \cup {Field("u", 3, v) : v \in {0, 4, 7}}
  \cup {Field("u", 8, v) : v \in {0, 1, 128, 255}}
  \cup {Field("ue", 0, v) : v \in {0, 1, 2, 6, 7, 14, 254}}
  \cup {Field("se", 0, v) : v \in {-128, -7, -1, 0, 1, 7}}

HeaderLengths == 15 .. 24
Symmetry == Permutations(Bytes)

VARIABLE payload

MCInit == Init /\ SliceInit /\ payload \in {"fields", "slices"}

MCNext ==
  /\ \/ payload = "fields" /\ Next /\ UNCHANGED slice_vars
     \/ payload = "slices" /\ SliceNext /\ UNCHANGED vars
  /\ UNCHANGED payload

MCSpec == MCInit /\ [][MCNext]_<<vars, slice_vars, payload>>
============================================================================
