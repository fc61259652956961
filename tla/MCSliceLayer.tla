---------------------------- MODULE MCSliceLayer ----------------------------
(***************************************************************************)
(* Instances of SliceLayer: headers of all alignments, cut off anywhere.   *)
(***************************************************************************)
EXTENDS SliceLayer, TLC

HeaderLengths == 15 .. 24
Symmetry == Permutations(Bytes)
============================================================================
