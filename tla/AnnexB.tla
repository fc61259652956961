------------------------------- MODULE AnnexB -------------------------------
(***************************************************************************)
(* The NAL units of an Annex B byte stream, and the function that looks    *)
(* for the first one in a buffer, find_nal_unit of h264_nal.c.             *)
(*                                                                         *)
(* Offsets count from 0, as in the code; byte k of a sequence is s[k + 1]. *)
(***************************************************************************)
EXTENDS Integers, Sequences, FiniteSetsExt

\* 00 00 01 at offset k: a start code.
StartCodeAt(s, k) ==
  s[k + 1] = 0 /\ s[k + 2] = 0 /\ s[k + 3] = 1

\* 00 00 00 or 00 00 01 at offset k: what ends a unit.
EndCodeAt(s, k) ==
  s[k + 1] = 0 /\ s[k + 2] = 0 /\ s[k + 3] \in {0, 1}

----------------------------------------------------------------------------
(***************************************************************************)
(* The reference: a unit follows every start code and ends at the first    *)
(* end code after it, or with the stream.                                  *)
(***************************************************************************)

Ends(s, start) == {k \in start .. Len(s) - 3 : EndCodeAt(s, k)}

Units(s) ==
  {[start |-> k + 3, end |-> Min(Ends(s, k + 3) \cup {Len(s)})] :
     k \in {k \in 0 .. Len(s) - 3 : StartCodeAt(s, k)}}

\* The units that an end code follows: all but the last of a stream, and that
\* too if zeros trail it.
Ended(s) == {u \in Units(s) : Ends(s, u.start) # {}}

----------------------------------------------------------------------------
(***************************************************************************)
(* find_nal_unit(buf, size).  The loops look at bytes they have not        *)
(* checked against size: "mem" is buf followed by whatever lies after it.  *)
(* The result is the return value, with *nal_start and *nal_end.           *)
(***************************************************************************)

Found(value, start, end) == [ret |-> value, start |-> start, end |-> end]

\* The first loop tests offset 0, and a later one only while i+4 < size.
StartPrefixAt(mem, k) ==
  \/ StartCodeAt(mem, k)
  \/ mem[k + 1] = 0 /\ mem[k + 2] = 0 /\ mem[k + 3] = 0 /\ mem[k + 4] = 1

StartCandidates(mem, size) ==
  {k \in {0} \cup 1 .. size - 5 : StartPrefixAt(mem, k)}

\* Mutant: the test for the end of the buffer comes three bytes too late.
Mut_EndCandidates(mem, size, start) ==
  {k \in {start} \cup start + 1 .. size - 1 : EndCodeAt(mem, k)}

\* The second tests the first byte of the unit, then while i+3 < size.
EndCandidates(mem, size, start) ==
  {k \in {start} \cup start + 1 .. size - 4 : EndCodeAt(mem, k)}

FindNalUnit(mem, size) ==
  LET starts == StartCandidates(mem, size) IN
  IF starts = {} THEN Found(0, 0, 0)
  ELSE LET k     == Min(starts)
           start == IF StartCodeAt(mem, k) THEN k + 3 ELSE k + 4
           ends  == EndCandidates(mem, size, start)
       IN  IF ends = {} THEN Found(-1, start, size)
           ELSE Found(Min(ends) - start, start, Min(ends))
============================================================================
