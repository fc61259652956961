---------------------------- MODULE MCNalStream ----------------------------
(***************************************************************************)
(* Instances of NalStream: files put together from a few pieces, start     *)
(* codes of both lengths, unit bytes, stray zeros, and every very short    *)
(* file; a buffer that holds about one unit, so that units cross its end,  *)
(* fit it exactly, and do not fit.                                         *)
(***************************************************************************)
EXTENDS NalStream, SequencesExt

CONSTANT Pieces   \* how many pieces a file has at most

PieceSet == {<<0, 0, 1>>, <<0, 0, 1, 2>>, <<0, 0, 0, 1, 2, 2>>, <<2>>, <<0>>}

Composed == {FlattenSeq(f) : f \in UNION {[1 .. n -> PieceSet] : n \in 0 .. Pieces}}
Short == UNION {[1 .. n -> {0, 1, 2}] : n \in 0 .. 6}

FileSet == Composed \cup Short

JunkSet == {<<0, 0, 0, 0, 0, 0, 0>>, <<2, 2, 2, 2, 2, 2, 2>>,
            <<0, 0, 1, 2, 0, 0, 1>>, <<0, 1, 2, 0, 0, 0, 1>>,
            <<1, 2, 0, 0, 1, 0, 0>>}
============================================================================
