--------------------------- MODULE MCNalEscaping ---------------------------
(***************************************************************************)
(* Instances of NalEscaping: every buffer of at most MaxLen bytes over the *)
(* byte values the two loops tell apart.                                   *)
(***************************************************************************)
EXTENDS NalEscaping

CONSTANTS Alphabet, MaxLen

Buffers == UNION { [1 .. n -> Alphabet] : n \in 0 .. MaxLen }
NalSizeRange == 0 .. (3 * MaxLen + 1) \div 2
RbspSizeRange == {MaxLen - 1, (3 * MaxLen + 1) \div 2}

============================================================================
