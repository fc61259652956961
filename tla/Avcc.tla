-------------------------------- MODULE Avcc --------------------------------
(***************************************************************************)
(* The records of h264_avcc.c, over the parameter sets of an h264_stream_t *)
(* that read_avcc and write_avcc work with.  The tables of a record are    *)
(* arrays of pointers: read_avcc fills them with h->sps and h->pps, and    *)
(* write_avcc assigns their entries to h->sps and h->pps.                  *)
(*                                                                         *)
(* So h->sps may point to a structure of the program.  "sps" and "pps" of  *)
(* ParameterSets are what h->sps and h->pps point to at the moment.  The   *)
(* other members of a record are copied as they are and left out.          *)
(***************************************************************************)
EXTENDS ParameterSets, Sequences

CONSTANTS
  TooLong,  \* the sets whose unit does not fit the 1024 bytes of write_avcc
  MaxSets   \* bound of the model: sets of a kind in a record

ASSUME LongSets == TooLong \subseteq Sps \cup Pps
ASSUME RecordBound == MaxSets \in Nat

Null == "null"

\* The structures there are for a set of either kind: the one that h264_new
\* allocated, and one of the program.
Structures == {"h264_new", "program"}
Entries == Structures \cup {Null}

VARIABLES
  sps_at, pps_at,          \* the structures that h->sps and h->pps point to
  sps_mem, pps_mem,        \* the contents of all structures
  avcc_sps, avcc_pps,      \* avcc->sps_table, avcc->pps_table
  pc,                      \* where read_avcc or write_avcc is, if called
  i,                       \* the entry it is at
  wire,                    \* the record written: counts and sets
  met_sps, met_pps,        \* history: the sets met in units, or filled in
  sound                    \* history: each slice has named sets read before it

at == <<sps_at, pps_at>>
structures == <<sps_mem, pps_mem>>
record == <<avcc_sps, avcc_pps>>
met == <<met_sps, met_pps>>
history == <<met, sound>>
avcc_vars == <<vars, at, structures, record, pc, i, wire, history>>

AvccInit ==
  /\ Init
  /\ sps_at = "h264_new" /\ pps_at = "h264_new"
  /\ sps_mem = [l \in Structures |-> BlankSps]
  /\ pps_mem = [l \in Structures |-> BlankPps]
  /\ avcc_sps = <<>> /\ avcc_pps = <<>>
  /\ pc = "idle" /\ i = 1 /\ wire = <<>>
  /\ met_sps = {} /\ met_pps = {} /\ sound = TRUE

\* What h->sps and h->pps point to has changed, or not.
Written ==
  /\ sps_mem' = [sps_mem EXCEPT ![sps_at] = sps']
  /\ pps_mem' = [pps_mem EXCEPT ![pps_at] = pps']
  /\ UNCHANGED at

MeetSps(s) == met_sps' = met_sps \cup {s} /\ UNCHANGED <<met_pps, sound>>
MeetPps(p) == met_pps' = met_pps \cup {p} /\ UNCHANGED <<met_sps, sound>>

----------------------------------------------------------------------------
(***************************************************************************)
(* Units outside of a record, and the program's own assignments.           *)
(***************************************************************************)

\* A slice names sets that were read whole before it.
NamesKnownSets(id) == \E p \in got_pps[id] : got_sps[p.sps] # {}

Elsewhere ==
  /\ pc = "idle"
  /\ \/ \E s \in SpsUnits, cut \in BOOLEAN : ReadSps(s, cut) /\ MeetSps(s)
     \/ \E p \in Pps, cut \in BOOLEAN : ReadPps(p, cut) /\ MeetPps(p)
     \/ \E id \in PpsIds :
          /\ ReadSlice(id) \/ WriteSlice(id)
          /\ sound' = (sound /\ NamesKnownSets(id)) /\ UNCHANGED met
  /\ Written
  /\ wire' = <<>> /\ UNCHANGED <<record, pc, i>>

\* The program fills in structures of its own and makes a record of them.
\* h->sps or h->pps may point there, since a record was written.
Compose(s, p, n, m) ==
  /\ pc = "idle"
  /\ sps_mem' = [sps_mem EXCEPT !["program"] = s]
  /\ pps_mem' = [pps_mem EXCEPT !["program"] = p]
  /\ sps' = sps_mem'[sps_at] /\ pps' = pps_mem'[pps_at]
  /\ avcc_sps' = [k \in 1 .. n |-> "program"]
  /\ avcc_pps' = [k \in 1 .. m |-> "program"]
  /\ met_sps' = met_sps \cup {s} /\ met_pps' = met_pps \cup {p}
  /\ wire' = <<>> /\ used' = {}
  /\ UNCHANGED <<sps_table, pps_table, svc, got, sent, at, pc, i, sound>>

----------------------------------------------------------------------------
(***************************************************************************)
(* read_avcc.  If the record is cut off, the lengths that are missing read *)
(* as zeros, and the units of no bytes are among those that fail.          *)
(***************************************************************************)

StartReading(n) ==
  /\ pc = "idle" /\ n < 32
  /\ avcc_sps' = [k \in 1 .. n |-> Null]
  /\ pc' = "read_sps" /\ i' = 1 /\ wire' = <<>>
  /\ UNCHANGED <<vars, at, structures, avcc_pps, history>>

\* A unit that read_nal_unit makes nothing of.  (Slices are not looked for in
\* records.)
NoUnit == UNCHANGED vars /\ UNCHANGED history

\* One entry: the unit should be an SPS, and read without an error.
ReadSpsEntry ==
  /\ pc = "read_sps" /\ i <= Len(avcc_sps)
  /\ \/ \E s \in SpsUnits, cut \in BOOLEAN :
          /\ ReadSps(s, cut) /\ MeetSps(s)
          /\ avcc_sps' = [avcc_sps EXCEPT ![i] = IF cut THEN Null ELSE sps_at]
     \/ /\ NoUnit \/ \E p \in Pps, cut \in BOOLEAN : ReadPps(p, cut) /\ MeetPps(p)
        /\ UNCHANGED avcc_sps
  /\ Written
  /\ i' = i + 1
  /\ UNCHANGED <<avcc_pps, pc, wire>>

StartPpsEntries(n) ==
  /\ pc = "read_sps" /\ i > Len(avcc_sps) /\ n < 256
  /\ avcc_pps' = [k \in 1 .. n |-> Null]
  /\ pc' = "read_pps" /\ i' = 1
  /\ UNCHANGED <<vars, at, structures, avcc_sps, wire, history>>

ReadPpsEntry ==
  /\ pc = "read_pps" /\ i <= Len(avcc_pps)
  /\ \/ \E p \in Pps, cut \in BOOLEAN :
          /\ ReadPps(p, cut) /\ MeetPps(p)
          /\ avcc_pps' = [avcc_pps EXCEPT ![i] = IF cut THEN Null ELSE pps_at]
     \/ /\ NoUnit
           \/ \E s \in SpsUnits, cut \in BOOLEAN : ReadSps(s, cut) /\ MeetSps(s)
        /\ UNCHANGED avcc_pps
  /\ Written
  /\ i' = i + 1
  /\ UNCHANGED <<avcc_sps, pc, wire>>

Return ==
  /\ \/ pc = "read_pps" /\ i > Len(avcc_pps)
     \/ pc = "write_pps" /\ i > Len(avcc_pps)
  /\ pc' = "idle" /\ i' = 1
  /\ UNCHANGED <<vars, at, structures, record, wire, history>>

----------------------------------------------------------------------------
(***************************************************************************)
(* write_avcc.  The count is written before the sets, and a set that does  *)
(* not fit the buffer is skipped.  The buffer of the record itself is the  *)
(* caller's: it is taken to be long enough.                                *)
(***************************************************************************)

\* numOfSequenceParameterSets is an int of the program and a field of 5 bits,
\* numOfPictureParameterSets one of 8.
SpsCount(n) == [count |-> n % 32]
PpsCount(n) == [count |-> n % 256]

StartWriting ==
  /\ pc = "idle"
  /\ wire' = <<SpsCount(Len(avcc_sps))>>
  /\ pc' = "write_sps" /\ i' = 1
  /\ UNCHANGED <<vars, at, structures, record, history>>

\* write_nal_unit of the null pointer.
WriteNull(entry) ==
  /\ entry = Null
  /\ pc' = "undefined"
  /\ UNCHANGED <<vars, at, structures, record, i, wire, history>>

\* Mutant: the unit is written before h->sps has been moved to the entry.
Mut_WriteSpsEntry ==
  /\ pc = "write_sps" /\ i <= Len(avcc_sps)
  /\ \/ WriteNull(avcc_sps[i])
     \/ /\ avcc_sps[i] # Null
        /\ sps_at' = avcc_sps[i] /\ sps' = sps_mem[avcc_sps[i]]
        /\ wire' = Append(wire, sps)
        /\ sent_sps' = [sent_sps EXCEPT ![sps.id] = {sps}]
        /\ used' = {} /\ i' = i + 1
        /\ UNCHANGED <<pps, sps_table, pps_table, svc, got, sent_pps, pps_at,
                       structures, record, pc, history>>

WriteSpsEntry ==
  /\ pc = "write_sps" /\ i <= Len(avcc_sps)
  /\ \/ WriteNull(avcc_sps[i])
     \/ /\ avcc_sps[i] # Null
        /\ sps_at' = avcc_sps[i] /\ sps' = sps_mem[avcc_sps[i]]
        /\ \/ sps' \in TooLong /\ UNCHANGED <<wire, sent_sps>>
           \/ /\ sps' \notin TooLong
              /\ wire' = Append(wire, sps')
              /\ sent_sps' = [sent_sps EXCEPT ![sps'.id] = {sps'}]
        /\ used' = {} /\ i' = i + 1
        /\ UNCHANGED <<pps, sps_table, pps_table, svc, got, sent_pps, pps_at,
                       structures, record, pc, history>>

CountPps ==
  /\ pc = "write_sps" /\ i > Len(avcc_sps)
  /\ wire' = Append(wire, PpsCount(Len(avcc_pps)))
  /\ pc' = "write_pps" /\ i' = 1
  /\ UNCHANGED <<vars, at, structures, record, history>>

WritePpsEntry ==
  /\ pc = "write_pps" /\ i <= Len(avcc_pps)
  /\ \/ WriteNull(avcc_pps[i])
     \/ /\ avcc_pps[i] # Null
        /\ pps_at' = avcc_pps[i] /\ pps' = pps_mem[avcc_pps[i]]
        /\ \/ pps' \in TooLong /\ UNCHANGED <<wire, sent_pps>>
           \/ /\ pps' \notin TooLong
              /\ wire' = Append(wire, pps')
              /\ sent_pps' = [sent_pps EXCEPT ![pps'.id] = {pps'}]
        /\ used' = {} /\ i' = i + 1
        /\ UNCHANGED <<sps, sps_table, pps_table, svc, got, sent_sps, sps_at,
                       structures, record, pc, history>>

ReadRecord ==
  \/ \E n \in 0 .. MaxSets : StartReading(n) \/ StartPpsEntries(n)
  \/ ReadSpsEntry \/ ReadPpsEntry

WriteRecord ==
  StartWriting \/ WriteSpsEntry \/ CountPps \/ WritePpsEntry

AvccNext ==
  \/ Elsewhere \/ ReadRecord \/ WriteRecord \/ Return
  \/ \E s \in SpsUnits, p \in Pps, n, m \in 0 .. MaxSets : Compose(s, p, n, m)

AvccSpec == AvccInit /\ [][AvccNext]_avcc_vars

----------------------------------------------------------------------------
\* As long as a program meets one SPS, in records, in the stream or filled in,
\* every entry of the table shows it, whatever slices are read or written and
\* whichever structure h->sps points to by then; the same for PPSs.  (Of several
\* all entries show the last.)
RecordShowsItsSets ==
  sound =>
    /\ \A s \in met_sps, k \in 1 .. Len(avcc_sps) :
         met_sps = {s} /\ avcc_sps[k] # Null => sps_mem[avcc_sps[k]] = s
    /\ \A p \in met_pps, k \in 1 .. Len(avcc_pps) :
         met_pps = {p} /\ avcc_pps[k] # Null => pps_mem[avcc_pps[k]] = p

\* What a record written is: the counts, each with its sets.
AsWritten ==
  <<[count |-> Len(avcc_sps)]>>
  \o [k \in 1 .. Len(avcc_sps) |-> sps_mem[avcc_sps[k]]]
  \o <<[count |-> Len(avcc_pps)]>>
  \o [k \in 1 .. Len(avcc_pps) |-> pps_mem[avcc_pps[k]]]

AnyTooLong ==
  \/ \E k \in 1 .. Len(avcc_sps) : sps_mem[avcc_sps[k]] \in TooLong
  \/ \E k \in 1 .. Len(avcc_pps) : pps_mem[avcc_pps[k]] \in TooLong

CountsFit == Len(avcc_sps) < 32 /\ Len(avcc_pps) < 256

\* A reader of the record that was written, which goes by its counts, gets the
\* sets that the entries show: of up to 31 SPSs and 255 PPSs, which is what the
\* counts can say, and unless one of them did not fit the buffer.
RecordWritten ==
  pc = "idle" /\ wire # <<>> /\ CountsFit => AnyTooLong \/ wire = AsWritten
=============================================================================
