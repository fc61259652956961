------------------------------- MODULE MCAvcc -------------------------------
(***************************************************************************)
(* Instances of Avcc: programs that read or write streams without records, *)
(* with two ids of each kind or with a scalable layer, and programs that   *)
(* use records, with one PPS id, beside a stream.                          *)
(***************************************************************************)
EXTENDS Avcc, TLC

Symmetry == Permutations(Contents)

\* The set with the other id fits.
Long == {s \in Sps : s.id = 1}

CONSTANT MaxCalls   \* bound of the model: calls of a program that uses records

VARIABLES
  program,
  calls     \* history: how many there were

\* Of the PPSs of a stream one is only read.
Steps ==
  CASE program = "stream" -> (ReadAvc \/ WriteAvc) /\ sent_pps'[1] = {}
    [] program = "layer"  -> OneLayer

\* Bounds for programs that use records: two SPSs of the same contents, which
\* their ids tell apart, and one PPS, at most once in a record.
OneContents == \A s, t \in met_sps' : s.v = t.v
OnePps == Len(avcc_pps') <= 1 /\ \A p \in met_pps' : p.id = 0 /\ p.sps = 1

MCInit == AvccInit /\ program \in {"stream", "layer", "records"} /\ calls = 0

MCNext ==
  /\ \/ program # "records" /\ Steps /\ Written
        /\ UNCHANGED <<record, pc, i, wire, history, calls>>
     \/ program = "records" /\ AvccNext
        /\ OneContents /\ OnePps
        /\ calls' = (IF pc = "idle" THEN calls + 1 ELSE calls)
        /\ calls' <= MaxCalls
  /\ UNCHANGED program

MCSpec == MCInit /\ [][MCNext]_<<avcc_vars, program, calls>>
=============================================================================
