------------------------------- MODULE MCGui -------------------------------
(* Instances of Gui for TLC: a stream of three units, a video of two. *)
EXTENDS Gui

Lengths32 == [f \in Files |-> IF f \in Streams THEN 3 ELSE 2]
=============================================================================
