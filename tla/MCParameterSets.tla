-------------------------- MODULE MCParameterSets --------------------------
(***************************************************************************)
(* Instances of ParameterSets: two sequence parameter sets whose contents  *)
(* change, one or two picture parameter sets.                              *)
(***************************************************************************)
EXTENDS ParameterSets, TLC

Symmetry == Permutations(Contents)
============================================================================
