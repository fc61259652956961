------------------------------ MODULE SvcSplit ------------------------------
(***************************************************************************)
(* svc_split: every NAL unit of a scalable stream is saved to the file of  *)
(* its layer.  A picture parameter set is held back until a slice refers   *)
(* to it, which tells the layer it belongs to.                             *)
(*                                                                         *)
(* Units come from the loop that NalStream models, and are parsed by       *)
(* read_debug_nal_unit, whose result is not looked at: a unit that cannot  *)
(* be unescaped is handled as if it were the unit before it.               *)
(***************************************************************************)
EXTENDS Integers, Sequences

CONSTANTS
  SpsIds, PpsIds,  \* ids of the parameter sets, those H.264 allows
  PpsBufs,         \* 32, the size of pps_buf
  MaxUnits         \* bound of the model: units in a stream

ASSUME LegalIds == SpsIds \subseteq 0 .. 31 /\ PpsIds \subseteq 0 .. 255
ASSUME BufSize == PpsBufs \in Nat
ASSUME ZeroIsAnId == 0 \in SpsIds /\ 0 \in PpsIds
ASSUME Bound == MaxUnits \in Nat

\* A unit: an SPS, a subset SPS or a PPS with its id, a PPS with the SPS it
\* names as well, a slice with the id of its PPS.
Kinds == {"sps", "subset", "pps", "slice", "svc_slice", "other", "bad"}

Units ==
  [kind : {"pps"}, id : PpsIds, sps : SpsIds]
  \cup [kind : {"slice", "svc_slice"}, id : PpsIds, sps : {0}]
  \cup [kind : {"subset"}, id : SpsIds, sps : {0}]
  \cup [kind : {"sps", "other", "bad"}, id : {0}, sps : {0}]

\* The PPS ids that pps_buf has an entry for.  No code looks whether it has.
BufIds == {id \in PpsIds : id < PpsBufs}

\* The files: one for each layer, and two more.
Base == -1
Misc == -2
Files == SpsIds \cup {Base, Misc}

None == 0      \* NULL
Garbage == -1  \* what an array that is not initialised may hold

VARIABLES
  parsed,      \* what the h264_stream_t holds of the last unit parsed
  pps_table,   \* the SPS each PPS of the h264_stream_t names
  pps_buf,     \* the PPS held back for each id: its number in the stream
  open,        \* the layers whose file is open
  out,         \* the numbers of the units in each file
  pc,          \* running, or ended by an error or by the operating system
  stream       \* history: the units

vars == <<parsed, pps_table, pps_buf, open, out, pc, stream>>

Init ==
  /\ parsed = [kind |-> "other", id |-> 0, sps |-> 0]
  /\ pps_table = [id \in PpsIds |-> 0]
  /\ pps_buf \in [BufIds -> {None, Garbage}]
  /\ open = {} /\ out = [f \in Files |-> <<>>]
  /\ pc = "running" /\ stream = <<>>

----------------------------------------------------------------------------
\* The unit now being handled.
Number == Len(stream) + 1

Save(f) == out' = [out EXCEPT ![f] = Append(@, Number)]

\* There is no such entry, or nothing was ever put there.
Unfilled(id) == id \in BufIds => pps_buf[id] = Garbage

Crash ==
  /\ pc' = "undefined"
  /\ UNCHANGED <<pps_table, pps_buf, open, out>>

\* Mutant: the PPS is written again before every slice that refers to it.
Mut_SaveSlice(f, id) ==
  \/ Unfilled(id) /\ Crash
  \/ /\ ~Unfilled(id)
     /\ out' = [out EXCEPT ![f] =
                  @ \o (IF pps_buf[id] = None THEN <<>> ELSE <<pps_buf[id]>>)
                    \o <<Number>>]
     /\ UNCHANGED <<pps_table, pps_buf, open, pc>>

\* Mutant: the pointer to the PPS is not reset once it is freed.
Mut_SaveSlice_Dangling(f, id) ==
  \/ Unfilled(id) /\ Crash
  \/ /\ ~Unfilled(id)
     /\ out' = [out EXCEPT ![f] =
                  @ \o (IF pps_buf[id] = None THEN <<>> ELSE <<pps_buf[id]>>)
                    \o <<Number>>]
     /\ pps_buf' = [pps_buf EXCEPT ![id] = IF @ = None THEN None ELSE Garbage]
     /\ UNCHANGED <<pps_table, open, pc>>

\* The PPS that was held back goes before the first slice that refers to it.
SaveSlice(f, id) ==
  \/ Unfilled(id) /\ Crash
  \/ /\ ~Unfilled(id)
     /\ out' = [out EXCEPT ![f] =
                  @ \o (IF pps_buf[id] = None THEN <<>> ELSE <<pps_buf[id]>>)
                    \o <<Number>>]
     /\ pps_buf' = [pps_buf EXCEPT ![id] = None]
     /\ UNCHANGED <<pps_table, open, pc>>

Slice(v) == v.kind = "slice" /\ SaveSlice(Base, v.id)

\* A layer whose subset SPS has not come has no file to write to.
SvcSlice(v) ==
  /\ v.kind = "svc_slice"
  /\ \/ pps_table[v.id] \notin open /\ Crash
     \/ pps_table[v.id] \in open /\ SaveSlice(pps_table[v.id], v.id)

Sps(v) ==
  /\ v.kind = "sps" /\ Save(Base)
  /\ UNCHANGED <<pps_table, pps_buf, open, pc>>

\* Mutant: a PPS that is still held back is not replaced.
Mut_Pps(v) ==
  /\ v.kind = "pps" /\ v.id \in BufIds
  /\ pps_table' = [pps_table EXCEPT ![v.id] = v.sps]
  /\ pps_buf' = [pps_buf EXCEPT ![v.id] = IF @ > 0 THEN @ ELSE Number]
  /\ UNCHANGED <<open, out, pc>>

Pps(v) ==
  /\ v.kind = "pps"
  /\ \/ v.id \notin BufIds /\ Crash
     \/ /\ v.id \in BufIds
        /\ pps_table' = [pps_table EXCEPT ![v.id] = v.sps]
        /\ pps_buf' = [pps_buf EXCEPT ![v.id] = Number]
        /\ UNCHANGED <<open, out, pc>>

\* The file is opened for writing, each time: what it had is gone.
Subset(v) ==
  /\ v.kind = "subset"
  /\ open' = open \cup {v.id}
  /\ out' = [out EXCEPT ![v.id] = <<Number>>]
  /\ UNCHANGED <<pps_table, pps_buf, pc>>

Other(v) ==
  /\ v.kind = "other" /\ Save(Misc)
  /\ UNCHANGED <<pps_table, pps_buf, open, pc>>

Process(u) ==
  LET v == IF u.kind = "bad" THEN parsed ELSE u IN
  /\ pc = "running" /\ Len(stream) < MaxUnits
  /\ parsed' = v /\ stream' = Append(stream, u)
  /\ Slice(v) \/ SvcSlice(v) \/ Sps(v) \/ Pps(v) \/ Subset(v) \/ Other(v)

Next == \E u \in Units : Process(u)

Spec == Init /\ [][Next]_vars

----------------------------------------------------------------------------
\* Files hold numbers of units, and a layer without a file holds none.
TypeOK ==
  /\ parsed \in Units /\ parsed.kind # "bad"
  /\ pps_table \in [PpsIds -> SpsIds]
  /\ pps_buf \in [BufIds -> {None, Garbage} \cup 1 .. Len(stream)]
  /\ open \subseteq SpsIds
  /\ out \in [Files -> Seq(1 .. Len(stream))]
  /\ \A f \in SpsIds \ open : out[f] = <<>>
  /\ pc \in {"running", "undefined"}
  /\ stream \in Seq(Units)

Numbers == 1 .. Len(stream)
Slices == {k \in Numbers : stream[k].kind \in {"slice", "svc_slice"}}

\* The PPS in force for slice k.
Sent(id, k) == {m \in 1 .. k - 1 : stream[m].kind = "pps" /\ stream[m].id = id}
Latest(S) == CHOOSE m \in S : \A l \in S : l <= m
PpsOf(k) == Latest(Sent(stream[k].id, k))

\* A stream as an encoder makes it: every slice comes after its PPS, a slice of
\* a layer also after the subset SPS.  No unit is damaged.
WellFormed ==
  /\ \A k \in Numbers : stream[k].kind # "bad"
  /\ \A k \in Slices :
       /\ Sent(stream[k].id, k) # {}
       /\ stream[k].kind = "svc_slice" =>
            \E m \in 1 .. k - 1 :
              stream[m].kind = "subset" /\ stream[m].id = stream[PpsOf(k)].sps

\* No PPS has an id that pps_buf is too short for.
IdsFit == \A k \in Numbers : stream[k].kind = "pps" => stream[k].id \in BufIds

Supported == WellFormed /\ IdsFit

\* The file that slice k belongs to.
FileOf(k) == IF stream[k].kind = "slice" THEN Base ELSE stream[PpsOf(k)].sps

\* Each subset SPS is sent once (the file of a layer is opened anew for each), and
\* each PPS is used by one layer.
SentOnce ==
  \A k, m \in Numbers :
    stream[k].kind = "subset" /\ stream[k] = stream[m] => k = m

OneLayerEach ==
  \A k, m \in Slices : PpsOf(k) = PpsOf(m) => FileOf(k) = FileOf(m)

Places(k) ==
  {x \in UNION {{f} \X DOMAIN out[f] : f \in Files} : out[x[1]][x[2]] = k}

\* A layer can be decoded from its file, if the PPS ids fit: each slice is in the
\* file it belongs to, and the last PPS of its id in front of it there is the one
\* it was sent with, however PPSs were held back and replaced meanwhile.
LayersDecodable ==
  Supported /\ SentOnce /\ OneLayerEach =>
    \A k \in Slices : \E i \in 1 .. Len(out[FileOf(k)]) :
      LET file   == out[FileOf(k)]
          before == {j \in 1 .. i - 1 : stream[file[j]].kind = "pps"
                                        /\ stream[file[j]].id = stream[k].id}
      IN  /\ file[i] = k
          /\ before # {}
          /\ \A j \in before :
               (\A l \in before : l <= j) => file[j] = PpsOf(k)

\* "save nal to corresponding file" (svc_split.c), for a stream whose PPS ids fit
\* and that sends each subset SPS once: every unit is in one file, once, but for a PPS that no
\* slice has referred to.
SavedOnce ==
  Supported /\ SentOnce =>
    \A k \in Numbers :
      \/ \E x \in Places(k) : Places(k) = {x}
      \/ stream[k].kind = "pps" /\ Places(k) = {} /\ \A m \in Slices : PpsOf(m) # k

\* A well-formed stream never makes the program use an entry of the arrays that
\* was not filled, nor one that is not there, exactly as long as its PPS ids are
\* below the size of pps_buf.  A PPS with an id from 32 to 255, which H.264
\* allows and h->pps_table has room for, is stored behind the end of pps_buf.
NoGarbageUsed == WellFormed => (pc = "running" <=> IdsFit)
============================================================================
