# h264bitstream in TLA+

h264bitstream reads and writes the syntax of H.264 video streams. This
directory holds TLA+ models of its parts, TLC configurations that check them on
small instances, and proofs that TLAPS checks for all values of the constants.
Every definition is a translation of the code in `src/`; `PROJECT.json` gives
the lines each of them stands for, the runs, the hazards and the findings.

    tlc -config NalEscaping.cfg MCNalEscaping     # a run: see "The runs"
    tlapm NalEscapingProofs.tla                   # the proofs of a component

## 1. Inventory

The library is C, in one thread. It has no tests of its own: the CI compares
the output of the analyser on two samples with what it was before. Its parts
are these.

| Part | Source | State | Operations |
|---|---|---|---|
| NAL escaping | `h264_nal.c` | two byte buffers and a zero counter, on the stack | `rbsp_to_nal`, `nal_to_rbsp` |
| Annex B framing | `h264_nal.c`, `h264_analyzer.c` (copied in `svc_split.c`; all of the file at once in `dep_analyzer_main.c`) | the read buffer, the scan pointer, the file offset | `find_nal_unit`, the loop of `h264_analyze_file`, the callback |
| Bit streams | `bs.h`, helpers of `h264_stream.c` | `bs_t`: start, pointer, end, bits left | `bs_read_*`, `bs_write_*`, trailing bits, `more_rbsp_data` |
| Stream object: parameter sets | `h264_nal.c`, `h264_stream.c` | current SPS, PPS, subset SPS; a table of each | `h264_new`, `h264_free`, `read_nal_unit`, `read_debug_nal_unit`, `write_nal_unit`, assignments by the program |
| Stream object: slice data | `h264_stream.c` | `slice_data->rbsp_buf`, `rbsp_size` | `*_slice_layer_rbsp` |
| Syntax readers and writers | `h264_stream.in.c`, generated three times into `h264_stream.c` | the fields of the stream object | `*_seq_parameter_set_rbsp`, `*_slice_header`, ... |
| Dependency analyser | `dep_analyzer.*` | tables, log of frames, simulated DPB, POC state | `process_nal` per unit, `pass2_analyze_and_print` |
| svc_split | `svc_split.c` | a stream object, held-back PPSs, one file per layer | one pass over the units |
| avcC records | `h264_avcc.*` | tables of pointers to sets | `read_/write_debug_avcc` |
| SEI messages | `h264_sei.*` | list of messages | compiled out (`HAVE_SEI` is never defined) |
| Slice data parser | `h264_slice_data.*` | | in no build file |
| Command line analyser | `h264_analyze.c` | options | loop and printing |
| Graphical analyser | `h264_gui.cpp` | list of units and its rows, details shown, temporary files, files saved, a stream object | handlers of wxWidgets events: open, drop, select, save, exit |
| Code generator | `process.pl`, `macroize.pl` | | text |
| wxWidgets | `wxWidgets/` | vendored | |

How they interact. A program hands bytes to the loop around `find_nal_unit`,
which calls it back for each NAL unit. The callback calls a reader, which
unescapes the unit (`nal_to_rbsp`), opens a bit stream on the payload and fills
the fields of the stream object. Sets go to tables, and a slice header takes its
sets from there. `write_nal_unit` goes the other way. The dependency analyser
and svc_split are such callbacks, with state that lives from unit to unit. An
avcC record is read and written through the same stream object. In the library
there is no concurrency; the only callbacks are synchronous. The graphical
analyser has event handlers that wait for a process or show progress, and other
handlers run inside of them. What is hard is the long sequences of legal calls
on one stream object (what one unit leaves behind is what the next is read
with), boundaries (the last bytes of a buffer, a shift by the width of an int, a
full DPB), units cut off anywhere, with errors that are reported after the state
has changed, pointers copied where values are meant, and handlers nested in each
other.

What makes each part correct:

* *NAL escaping*: no start code in what is written; the documented size
  suffices; what is unescaped is what was escaped; no write past the output.
* *Framing*: the units of the file that an end code follows, in order, with true
  offsets, none skipped that fits the buffer, and an end. The last unit of a file,
  which no end code follows, is lost (section 4).
* *Bit streams*: what arrived is read as it was written; every cut is an error;
  a writer that reports no overrun has lost nothing.
* *Parameter sets*: a slice is read with the last sets of the ids it names and
  written with those its receiver has; every structure is freed once.
* *Slice data*: the data kept is that of the slice read last; it is written back.
* *Dependency analyser*: true POCs, display order, the DPB as a sliding window,
  dependencies on pictures of that window only, no array overflow.
* *svc_split*: each layer's file can be decoded, no unit lost or doubled, as long as
  PPS ids are below 32.
* *Syntax readers and writers*: readers take what was written, field by field,
  whatever units came before; what was read is written back as it came.
* *avcC records*: a record shows the sets it was read with, and is written with
  the number of its sets and with them.
* *Graphical analyser*: no temporary file is left over; a save skips and doubles no
  place of the list, and mixes two files only where the list was replaced under it.

`PROJECT.json` lists under "hazards" the places where this can go wrong, each at
its line, with the properties that would notice.

## 2. Plan

Done, in this order: `NalEscaping`, `AnnexB` / `NalStream` over `NalFraming`,
`DepAnalyzer`, `ParameterSets` over `ParameterSetStore`, `BitStream`,
`SliceLayer`, `SvcSplit`, `Syntax` over `SyntaxElements` and `ScalingDeltas`,
`Avcc` over `ParameterSets`, `Gui`; proofs for all of them (section 5).

What is left, in this order:

1. `NalUnit`, composing `BitStream` and `NalEscaping`: the whole of
   `write_nal_unit` and `read_nal_unit`, its buffer of 3/4 of the size and its
   return values.
2. `Syntax` further: several ids, by composition with `ParameterSets`; operations
   of the base marking, of which a stream object keeps one; and the bits of
   `BitStream` in place of codes.

## 3. The modules

**`NalEscaping`** (`h264_nal.c`, `rbsp_to_nal` and `nal_to_rbsp`). `src`, `cap`
are the arguments, `dst` what has been written, `i` and `count` the local
variables, `ret` the result. One action per way through the body of a loop:
`EscapingOutOfRoom`, `InsertEpb`, `EscapeByte`, `EscapingDone`,
`ForbiddenBytes`, `ForbiddenEscape`, `CabacZeroWord`, `SkipEpb`,
`UnescapeByte`, `UnescapingDone`. `ReadBack` is a program that unescapes what
has just been escaped. `payload` is a history variable: what was escaped.

**`AnnexB`** (`find_nal_unit`) is the scan as an operator, and the units of a byte
stream by definition: one after each start code (`Units`), of which those that
an end code follows are `Ended`. **`NalStream`** is the loop around it: `Read` and
`EndOfFile` are the `fread`, `Deliver` the call of the callback, `Discard` and
`KeepRest` the two ways to make room. The first tests of the scan read
bytes behind the buffer's contents; `Junk` is what may be there.
**`NalFraming`** is what such a loop promises of the units that are ended, without a
buffer; `NalStream` implements it, with the calls as the deliveries. What becomes
of the others `LosesOnlyTheEnd` says.

**`DepAnalyzer`** (`dep_analyzer.c`). `frames` is the log, `dpb` the simulated
buffer, `poc_state`, `max_poc_lsb` and the offsets the members of
`DepAnalyzer`; `ProcessSps` and `ProcessSlice` are `process_nal`, `Report`
the second pass with its `qsort`. `References` is the three list builders
with their sorting, `Evict` and `UpdateDpb` the sliding window. What
`read_nal_unit` parses is the input, an SPS cut off by its end included.
`stream` keeps the true POC of every picture beside the low bits in its
header.

**`ParameterSets`** (`h264_stream.c`, `h264_nal.c`). `sps`, `pps` and the
tables are values; `subset` and `subset_table` are locations in `heap`, for
they are structures of pointers. One action per kind of unit read or written and
`Assign` for a program that fills in fields. `Debug` tells `read_debug_nal_unit`,
which copies what is pointed to, from `read_nal_unit`, which copies pointers. A
unit may be cut off: it is an error, but the table has changed already.
**`ParameterSetStore`** is what this amounts to for a reader: a store with the last
set of each id.

**`BitStream`** (`bs.h`, `more_rbsp_data` and the trailing bits of
`h264_stream.c`). The cursor is a number of bits; `Write`, `Finish`, `Read` and
`ReadTrailing` are what a writer and a reader of a payload do. A shift by the
width of an int or more, which C leaves undefined, gives either of what compilers
give: a masked count or zero. Powers (`Pow2`), shifts (`Shifted`) and the number
that some bits make (`Numbers`) are recursive functions, so that proofs can
unfold them.

**`SliceLayer`** (`*_slice_layer_rbsp`). `rbsp_buf` is the slice data;
`ReadSlice` is one of the two readers, `ReadDebug` and `ReadPlain`, and `WriteSlice` the
writer, for a header of any length. `MCPayloads` instantiates both modules. It follows the CABAC case, in which alignment precedes the
data; for CAVLC the code does the same bytewise copy.

**`SvcSplit`** (`svc_split.c`). `pps_buf` is the array of PPSs held back, `open` and
`out` the files, `pps_table` and `parsed` what the stream object holds. One
action per kind of unit. The two arrays are not initialised by the code: an entry
is `Garbage` or `NULL` at the start. They have 32 entries, `PpsBufs` in the model;
a PPS or slice with an id beyond is undefined (`Crash`).

**`SyntaxElements`** is the grammar of `h264_stream.c`: for each structure the
elements its functions reach, in order, as a function of the fields. The file
has three copies of every function (`read_`, `write_`, `read_debug_`), made from
one source; they are one definition here, with the kind of function as an
argument in the two places where the copies differ: the number of scaling lists
of an SPS and the test for the optional end of a PPS. Names are those of the
code, with the index of an array at their end (`At`). **`SyntaxFields`** is the
table under it: for each structure of `h264_stream_t` its fields, and of each
field the coding, a number of bits, `Golomb` (Exp-Golomb, signed or not),
`Deltas` (a scaling list) or `Varies`, where `CodingOf` computes the width from
the sets in force. `h264_new` follows from it. **`ScalingDeltas`** is
`write_scaling_list` and `read_scaling_list`, turn by turn of their loops
(`WriterTurn`, `ReaderTurn`), with the differences taken (`TakenWhole`).

**`Syntax`** is the machine. `Encode` is a program (or another encoder) that fills
in the fields of the next unit of its stream and writes it; `wire` is the unit as a
sequence of codes, with the differences of scaling lists as the library writes them,
or reduced to a signed byte (`Signed`), or with lists ended early where the last scale
is repeated (`Short`): other encoders do that, and the reader takes it.
`ReadNalUnit` and `ReadDebugNalUnit` parse it into `h` and `d`:
a code goes to the element that the grammar expects next, given what has been read
so far and what earlier units left behind, and `Cleared` is the `memset` at the
start of a structure. If the grammar expects another coding, or the number of
codes is another, or a scaling list does not take its differences, the reader is
out of step (`in_step`). `WriteNalUnit` writes what
was read, unchanged, to `out`. Scaling lists are coded and decoded as in the code, on a
shorter list.

**`Avcc`** (`h264_avcc.c`) extends `ParameterSets`. `h->sps` and `h->pps` are
pointers, and so are the entries of a record's tables: `sps_at` and `pps_at` say
which structure the stream object points to, `sps_mem` and `pps_mem` what the
structures hold, `avcc_sps` and `avcc_pps` are the tables. `read_avcc` and
`write_avcc` are modelled entry by entry (`pc`, `i`): `StartReading`, `ReadSpsEntry`,
`StartPpsEntries`, `ReadPpsEntry`, `StartWriting`, `WriteSpsEntry`, `CountPps`,
`WritePpsEntry`, `Return`. An entry may hold a unit of any kind, or none; a set
may be too long for the 1024 bytes it is written to; a null entry is
dereferenced when it is written (`pc` is then "undefined"). The counts are written in
5 and 8 bits (`SpsCount`, `PpsCount`). `wire` is the record that was written. `Compose` is a program that fills in a record of its own,
`Elsewhere` the units it reads and writes outside of records, by the actions of
`ParameterSets`.

**`Gui`** (`h264_gui.cpp`). `m_nals` are the units, with a row of `m_nalList` for
each, `details` the unit shown, `tmp` the temporary files, `saved` the file of a save
and `m_h264` the stream object. `wxExecute` and `wxProgressDialog` dispatch events,
so that handlers nest: `calls` is the stack of those that wait. `OpenStream` and
`OpenVideo` are files opened or dropped; `FfmpegWrites` and `FfmpegEnds` the
process, which may fail at any point and leave any output; `ConversionFails` and
`AnalyzeOutput` the rest of the handler that waited for it; `StartSaving`,
`SaveLine` and `SaveEnds` the loop of `OnSaveDetails`, and `SaveView` its other
branch; `Select`, `OnExit` and `CloseWindow` are what their names say. `replaced` is a
history variable: after which lines of the save the list was replaced.

The `MC` modules hold the sets that TLC needs as values of the constants.
Definitions named `Mut_...` stand in front of the definition they are variants
of: each is a plausible mistake in it that some property notices, kept as
evidence that the property says something.

## 4. The runs

Runs that pass:

| Run | Bounds | What it shows |
|---|---|---|
| NalEscaping | every buffer of up to 6 bytes over {0, 1, 3, 4}; every output size | no start code is written, the documented size suffices, unescaping is the inverse, and agrees with its definition for malformed units too |
| NalStream | every file of up to 5 pieces (start codes of both lengths, unit bytes, zeros) or 6 bytes; a buffer of 9; 5 kinds of junk | the loop implements `NalFraming`, its buffer mirrors the file, only the end of the file is lost, it ends |
| DepAnalyzer | 5 pictures of all types with a DPB and list arrays of 2, or 4 pictures with POCs of both signs under SPSs that change and are cut | sliding window, dependencies within it, no overflow; POC reconstruction, order across IDR pictures, the report |
| ParamAvc | 2 SPS ids, 2 PPS ids, 2 contents, read and written; or one scalable layer with subset SPS id 0, under the plain reader and writer; or records of up to 2 SPSs and a PPS, in programs of 4 calls | slices use the last sets of the ids they name, a forwarding program writes with the sets that its receiver has, with one subset SPS id sharing pointers does no harm; a record shows its sets and is written as its counts and sets |
| ParamSvc | 2 SPS ids, 1 PPS id, the debugging reader | subset SPSs have one owner each, refinement of the store |
| Payloads | 3 fields of 23 in 3 bytes, cut at every byte, ints of 8 bits; or slices with headers of 15 to 24 bits and up to 3 bytes of data, cut anywhere | reads back, cuts are errors, `more_rbsp_data` is exact, nothing lost; the data kept is that of the slice read last, and a header that is cut is refused |
| Syntax | 21 streams of 2 to 6 units, over 5000 states: every conditional part of every structure present and absent; arrays of 2, scaling lists of 3 | both readers take each unit as it was written, nothing is left over from earlier units, it is written back code by code (reordering and marking operations too; a scaling list to its end), and that unit reads as the first did |
| SvcSplit | every stream of 5 units over 2 SPS and 3 PPS ids, with arrays of 2 entries | layers can be decoded and each unit is saved once if the PPS ids fit the arrays; no garbage pointer is followed exactly if they do |
| Gui | a stream of 3 units and a video of 2, 3 handlers nested, files dropped on a busy window | no temporary file is left, a save skips and doubles no place and mixes files only where the list was replaced |

Why the bounds are enough. *Escaping* looks at two zeros and a byte, and at the
byte after an escape: six bytes hold two escapes that interact, at either end,
and {0, 1, 3, 4} are the values the loops tell apart (2 behaves as 1).
*Framing*: nine bytes hold one unit with both codes or two short ones, so units
cross a refill, fit it exactly, and do not fit. *DPB*: with two places and five
pictures every slot is evicted and replaced, and lists ask for more than there
is. *POC*: the period is 16, steps reach half of it on both sides, and four
pictures wrap it twice. *Parameter sets*: no action touches more than one PPS
and the SPS it names; state spaces are finite without a bound. *Bits*: three
fields of up to 9 bits over a 3-byte buffer overrun it, meet it and leave it
short; codes reach 15 bits, as codes of 63 bits do for ints of 32. *Slice data*:
all eight alignments, with one more on each side. *Syntax*: a condition is on
one or two fields, and these vary together within a stream, with the sets a
slice depends on before it; fields that decide nothing have one value, not zero.
Arrays of two distinguish an entry from the last, and a scaling list of three
can be the default list, end early and not end at all. At most 80 elements make a
unit (`MaxElements`; the longest of the streams has fewer than 75). *svc_split*:
five units are an SPS or subset SPS, a PPS, its slice, and two more that replace
or reuse it; of three PPS ids two have an entry. *Records*: two SPSs fill, move and replace each other, and one does
not fit; a PPS is treated as an SPS is, so one is enough. *Window*: three
handlers are a save or a conversion with two conversions of the same video in
it; two and three units tell the first from the last, and a list from a shorter one
it is replaced by. Whether a disabled window takes
files depends on the platform; the run lets it.

Fairness is assumed in one place, `WF_vars(Next)` in `NalStream`: a single thread
runs the loop, nothing in it waits for another party, and each step of the
model is a finite piece of it. Other modules state safety only.
`CHECK_DEADLOCK FALSE` is set where the system ends: the conversion has returned,
the file has been read, the bound on pictures, fields or units has been reached, or
memory has been overwritten.

Runs whose property is a statement of the documentation that the code does not
keep, each with a counterexample:

| Run | Statement | What the code does |
|---|---|---|
| ParamWritten | `h264_stream.h`: "when writing it is written from those" | a slice is written with the entries of tables only reading fills |
| SyntaxLists | `h264_stream.h`: "When reading, data is read into those, and when writing it is written from those" | for `chroma_format_idc` 3 the reader expects 12 scaling lists, the writer writes 8 |
| SliceWritten | `CHANGES`: "read/write slice data correctly" | the slice data is not written |

Other disagreements are in the models, and the properties are stated around them, or
say what the code does:

* The last NAL unit of a file is lost, unless four zeros trail it: `find_nal_unit`
  returns -1 for a unit that no end code follows (the FIXME at `h264_nal.c:166`), and the
  loops of `h264_analyzer.c:24`, `svc_split.c` and `dep_analyzer_main.c` take that for no
  unit. A unit whose end code is the last three bytes of the file is lost too.
  `LosesOnlyTheEnd` says that exactly these are lost, and `NalFraming` promises no more.
* The dependency analyser keeps 16 reference frames (`MAX_REF_FRAMES`) whatever
  `num_ref_frames` of the SPS says, ignores memory management operations and sorts
  `frame_num` as if it did not wrap (`dep_analyzer.c:20-24`, 125, 243). A frame may
  therefore be said to depend on one that a decoder has dropped, or a reference list be
  taken in another order than a decoder's: `DependenciesInWindow` is about the window of
  the analysis.
* `pps_buf` of `svc_split.c` has 32 entries, and is indexed with PPS ids unchecked
  (lines 94, 111, 133), though they may be up to 255: a well-formed stream with a
  PPS id of 32 makes the program leave the array (`NoGarbageUsed`). `LayersDecodable` and
  `SavedOnce` ask for ids below that (`IdsFit`).
* `README.md:195` of the library lists as a known bug, with no version, that "attempting
  to write decoded reference picture marking or reference picture list reordering data
  results in unpredictable behaviour"; `CHANGES:9` says of 0.2.0 "read/write ref pic list
  and dec ref pic marking". The model agrees with the latter: the operations are arrays
  now, and streams `lists`, `marking` and `layer` of `Syntax` are written back as they came,
  as long as they have at most as many operations as the arrays have entries.
* `read_nal_unit` shares the structures of a subset SPS among all ids, and
  `h264_free` frees them twice: with `Debug = FALSE` the properties of `ParamSvc.cfg`
  fail, and `LatestSubsetUsed` fails there too.
* A slice is read with the sets of the ids it names, where `README.md` of the
  library says that ids are not looked at.
* After a slice header that ends on a byte boundary a whole byte is skipped as
  alignment; `DataRead` asks for headers that do not. After a header that is cut
  off, `read_slice_layer_rbsp` copies a negative number of bytes (`status` is then
  "undefined").
* Exp-Golomb codes of 33 bits and more are written wrong (values from 65535),
  where `README.md` of the library says that integers "can be assigned and read
  directly": `ReadsBack` asks for values whose code is shorter (`Small`).
* The extension of a subset SPS is not cleared before it is read. Without
  `seq_tcoeff_level_prediction_flag` the next field keeps the value of the subset SPS
  before, and slices are then out of step: in the streams of `Syntax` a second
  subset SPS has the flag set.
* A prefix NAL unit of a picture that is no reference is not written: the writer
  asks whether there is more data, and in its buffer there always is
  (`DataForTheFuture`). It does not return from a base marking operation other than
  0, for it writes the one field until it is zero. The reader leaves 0 there, and
  the operations it has read are not written back. The operation is 0 in `Syntax`.
* The optional end of a PPS is not written back if all of it is zero, though
  without it a decoder takes `second_chroma_qp_index_offset` to be that of the
  other plane (`TailOfZeros`).
* A scaling list that came ended early is written back with differences of zero to
  its end: the same list in a longer unit. `WrittenBack` compares what both would
  be if they ended early.
* `pred_weight_table` has as many entries as the PPS says, also if the slice
  overrides the number.
* `h264_stream.c` has been edited by hand: the 12 lists are not in
  `h264_stream.in.c`, from which it is generated.
* A subset SPS that is sent again empties the file of its layer: `SentOnce`.
* A picture with a POC below -1 after an IDR picture sorts before pictures of the
  period before it: the exception in `PeriodsInOrder`. The length of a reference
  list is never taken from the PPS (`NumL0`), where `dep_analyzer.h` says it is.
* `prev_poc_lsb` is a number of the period of the SPS before: with a period of 8
  and POCs 0, 4, 7, then a period of 4 without an IDR picture, POC 8 is not
  recovered. `PocReconstructed` asks for one SPS from an IDR picture to the next.
* All entries of an avcC record that was read show the set read last, for each is
  the pointer `h->sps`: `RecordShowsItsSets` asks for a program that meets one set of a
  kind in all, for an SPS read later changes the entries as well. A set that
  does not fit 1024 bytes is left out of the record written but counted
  (`AnyTooLong`), more than 31 SPSs or 255 PPSs are counted modulo 32 and 256
  (`CountsFit`), the null entry of a set that could not be read is dereferenced when
  it is written, and the tables are not freed when a record is read again.
* The graphical analyser converts to `<video>_output.264`, overwrites a file of the
  user of that name and then deletes it. The details of a unit stay when another
  file is opened, and can then be saved as if they were of that (`SaveView`). A
  file dropped during a save makes what is saved the lines of two files
  (`replaced`). Each unit is parsed by a stream object of its own, a slice
  therefore without its sets (`Select` shows only which unit it is). Closing the window
  otherwise than by its menu does not free the stream object (`CloseWindow`).

## 5. The proofs

**`NalEscapingProofs`**, for every payload, unit and size (assumption: the input
sets are sets of byte sequences and natural numbers). `TypeCorrect` includes that
`dst` never grows past `cap`. `NoEmulation`, `DocumentedSize`
and `RoundTripHolds` follow from two invariants. `EscInv` says that what has been
written is an escaped form of what has been read: a function from the positions of
the payload to those of the output, increasing, that gives each byte its place,
with an escape in each gap and two zeros before it; and that `count` is the number
of zeros at the end. It is needed because the properties speak of finished
conversions while the loop only knows the last two bytes. `ReadBackInv` says that
the unescaping loop is at a place of this function and has restored the payload
up to it; the escape must be seen there because the byte after it is at most 3.
`UnescInv` is about a unit of any origin: what has been unescaped is what the
definition `Kept` keeps of the bytes read, none of which is forbidden
(`UnescapingAsDefined`). It needs that the byte before the next is not an escape,
since the loop takes an escape and the byte after it in one turn.

**`NalStreamProofs`**, for every file of bytes, every buffer of at least 4 bytes
and whatever lies behind its contents. What `find_nal_unit` finds is proved
first: the next unit of the bytes it is given, or none. `StreamInv` has three
parts. `Typed`: the buffer is the part of the file from `off` to `pos`, and each
call got bytes of the file from its offset. `UnitsOnly`: the calls are units of
the file, and the scan is past them. `Kept`: if the units fit the buffer, the
scan is right behind the last of them unless nothing more can follow, what lies
ahead after a scan has not been read to its end, and what lies behind was
delivered. It is needed because the loop throws away what it did not find a unit
in. It gives `TypeCorrect`, `CallsAreOfTheFile`, `OnlyTheEndIsLost` (the units that
end four bytes or more before the file does are delivered, and no others), and
`LoopImplementsFraming`, the refinement of `NalFraming`.

**`DepAnalyzerProofs`**, for every stream, size of the DPB and length of the
lists. The invariant is `TypeOK`, `DpbInv` (each picture of the DPB is a
reference frame of the log since the last IDR picture, with distinct frame
numbers, at most `MaxRefFrames`) and `OffsetInv` (the offset bounds every POC of
earlier periods, the maximum those of this one). From it: `ArraysNeverOverflow`
(assuming `MAX_DEPS` is at least `MAX_REF_FRAMES`, as in the header) and
`PeriodsOrdered`. Three more invariants rest on it.
`WindowInv`: the DPB is the pictures of a set of candidates that holds with each
the newer ones, and is all of them or full, in whatever slots they are
(`DpbSlides`). The references of a picture are looked up in the DPB, so they are of
that window (`DependenciesSound`), and remain so as the log grows. `PocInv`: as long as the stream conforms, `prev_poc_msb` and
`prev_poc_lsb` are the parts of the true POC of the last reference frame,
whatever the even period; with it, that `calculate_poc` finds the POC is
arithmetic (`PocsAreTrue`). `OrderInv`: frames of a period have one offset, and
what is displayed is sorted (`ReportSorts`).

**`ParameterSetsProofs`**, for any number of ids and contents. `AvcInv`: the
tables hold the last set of each id that was read whole, and what the last slice
used is what they hold. It gives `LatestSets` and `ForwardedSets` for both
readers with any writes and assignments in between. With `Debug` true and a
program that only reads, `DebugInv` adds that pointers never move and the heap
at each id holds the last subset SPS: hence `Owned`, `LatestSubset`, and
`Implements`, the refinement of `ParameterSetStore`. With `Debug` false these
three fail.

The same module has the proofs about `Avcc`, for any number of ids and contents, and
as many entries as the counts can say. `RecordInv` is
`AvcInv` with the memory: `h->sps` and `h->pps` point to structures that hold
the current sets (`Memory`), and an entry shows the only set that was met, if
there is one (`SpsShown`, `PpsShown`). The latter must say where the tables of
the stream object come from, for a slice copies one of their sets through the
pointer (`RecordShows`). `WireInv` says what has been written after each entry:
the count, and the sets of the entries so far, unless one was too long
(`RecordIsWritten`); no entry met before was null.

**`SvcSplitProofs`**, for SPS ids up to 31 and PPS ids up to 255, arrays of any size
and any length of the stream. `FilledInv`: of
a well-formed stream an entry of the array is set once its PPS was sent, and the
file of a layer open once its subset SPS was; and while the program runs all its PPS
ids have fitted (`RunningFits`), hence `NoGarbage`. Of streams whose ids fit,
`OnceInv`: no unit
has two places, every unit other than a PPS has one, and the last PPS of an id
is held back or saved but not both (`EachSavedOnce`). `LayersInv`: each slice
finds its PPS, and another slice after the last one would, as long as the PPS is
in force (`LayersAreDecodable`).

**`GuiProofs`**, for any files, of any length, and any depth of nesting.
`GuiInv` has four parts. `CallsTyped` is the types. `ListIsPrefix`: the list is the
first units of one file. `SavesInv`: only the outermost handler may be a save, nothing
was replaced after a line that it does not have yet, and its lines are as
`SavedInOrder` says. `TempIsOwned`: a temporary file has a handler that waits and will
remove it; `NoTempLeft` follows from that, and is not inductive by itself.

**`PayloadProofs`** is about what a unit holds after its header.

Fields (`BitStream`), for ints of any even width from 4 bits, buffers of any size,
and any fields whose values an int has. The arithmetic comes first: powers, shifts
and numbers made of bits are what their recursive definitions say, by induction
(below); the shape of an Exp-Golomb code (zeros, a one, and as many bits) is what
`bs_write_ue` writes, for values that need at most half of the width (`Small`);
and `bs_read_ue` of a code that is all there gives the value and its end
(`ReadUeWhole`), of one that is cut a place at the end of the bytes or behind it
(`ReadUeCut`). The invariant `IInv` has, besides the types, `Chained`: the codes lie
one after another; `Held`: every bit of them that is still there has its value, so
that writing one changes no other; `Ended`: then comes a one, and zeros to the
end; `Placed`: the reader is at the end of a field, or the bytes have ended. The
last is needed because `CutDetected` says something about finished readers only;
`Held` and `Ended` because the buffer is cut at any byte between writing and
reading. It gives `FieldsReadBack`, `CutIsDetected`, `MoreDataIsExact` (whether more
data follows is told by the last one in the buffer, which is the trailing bit) and
`NoBitIsLost`.

Slices (`SliceLayer`), for headers and data of any lengths: the data kept is
that of the slice read last, as much as arrived (`DataIsOfTheSlice`), by the
type invariant and the arithmetic of bytes and bits.

**`SyntaxProofs`** is about `Syntax`, for all streams of units, of any length, whatever the
fields hold, with arrays and scaling lists of any length, and whichever way the codes
are on the wire. The theorems have a hypothesis, `[]Sendable`, which says what the
units on the wire are like:

* an SPS for 4:4:4 has no scaling lists: with them the copies of the grammar differ, and
  run `SyntaxLists` shows that the theorems would be false;
* a subset SPS has those of the four fields that slices of layers depend on, or leaves
  one out while both readers hold the value that the writer has. The extension is not
  cleared before it is read, as section 4 says, and the theorems would be false
  otherwise too;
* a slice of type 20 has the header extension of SVC (`svc_extension_flag`).

All units that the run `Syntax` sends meet it (TLC finds `Sendable` and the inductive
invariant `IInv` true in all states of the run), so that the theorems are about what the
run checks, without its bounds.

Scaling lists (`ScalingDeltas`) come first: after each turn the reader's loop
has the scales up to there, and the writer's their differences. What is written is
taken whole and read back, and so are the differences any other encoder may use
(`ScalingListsReadBack`); and any list that came, ended early or not, is read again
as it was from what it is written back as (`ScalingListsSettle`). Differences are in
-256 .. 255: beyond, the remainder of C is negative, and a scale with it.

Then the grammar. A reader decides what comes next from what it has read so far, so
what must be shown of each line is that the conditions in it are about elements before
it. `Follows(a, b, A)` says it of a group of elements, computed as `a` from the
fields of the writer and as `b` from those of the reader, which agree on the elements
in `A`: either `b` is `a`, or they part after an element that is in both and not in
`A`. So a reader who agrees on all elements before the next has that one next. Each group of
`SyntaxElements` has a lemma that says so (`HrdFollows`, `SliceHeaderFollows`, ...),
put together from those of its parts, up to `NalUnitFollows`. What two sides must
have in common besides is named there (`InCommon`): the sets in force, the fields
that a unit leaves out and infers, and the test for more data.

`UnitIsRead` is the induction over the codes of one unit: after `i` codes the reader is in
step, has stored the first `i` elements, has cleared the structures of the payload
and nothing else (`HasRead`); so it expects the element that the writer has next
(`NextElement`) with the same coding, and takes it (`ElementRead`).

The invariant `IInv` says what holds from unit to unit. Between units the readers
know the writer's sets (`Knows`); while a unit is on the wire it is `Sound`, that is,
its elements fit their codings and the rest of its structures is blank, and a
reader before its turn `Awaits` it and after its turn `HasTaken` it, field by field,
and structure by structure for those of the payload. None of the properties is
inductive without it: they speak of the unit just read, and whether the next
one is read depends on the sets that all those before it have left in three streams. It
gives `FieldsAreReadAsWritten`, `NothingIsLeftOver`, and, as the elements of the unit
that is written back are those that came (`Rewritten`), `UnitsAreWrittenBack` and
`UnitsSettle`. `Rewritten` has one exception, an optional end of zeros of a PPS
(`ZerosAtEnd`), the one that `WrittenBack` names.

Assumptions on constants are named where they are declared: the types of the
inputs; that buffers, arrays and bounds are numbers; that the buffer of the loop
holds its lookahead; that id 0 exists; that an int has an even number of bits, at
least 4, and fields are of its values (`IntWidth`, `FieldsAreTyped`); that arrays and
scaling lists have entries, and whether a unit has more data is true or false
(`TailsAreFlags`).

Induction over data. The induction theorems of the library take an operator as a
parameter, which the provers cannot instantiate. The proofs use sets of naturals
in its place: a set that holds 0, and with each number the next, holds them all
(`Induction`, from the least element that a well-founded order gives). With it a
recursive function is shown to exist, hence to satisfy its definition
(`KeptDefined`, `Pow2Defined`, `ReaderDefined`, ...), and what it computes.

Only model-checked: `Termination`, for liveness under fairness and `ENABLED` are out
of the prover's reach. All other properties of the passing runs are stated by a theorem.

## 6. Not modelled

* Of the syntax: type 21, filler data, SEI, the data behind extension flags (which are
  zero), slices of type 20 without the SVC header, `slice_type` above 9. The six
  constraint flags are one element, and the weights of the two chroma planes are one
  each. `BitStream` has the bits of fields, `ParameterSets` the choice among several
  sets, `SliceLayer` what follows a header. The other models take what the readers
  parse as input.
* SEI messages and the slice data parser are in no build: `HAVE_SEI` is never defined,
  and no build file names `h264_slice_data.c`.
* The command line analyser is options and printing around the loop of `NalStream`;
  the code generator is text processing. wxWidgets is a vendored library of which
  the repository holds the headers only: they are nineteen in twenty of its lines, and
  declare what the one window of `h264_gui.cpp` uses a little of. What that window
  depends on, the events dispatched by handlers that wait, is in `Gui`.
* Of the graphical analyser: the path of ffmpeg, the menus, the layout, and that
  dialogs are cancelled, which changes nothing. Of avcC records: the
  members other than the tables, which are copied, `avcc_free` and printing.
* `malloc` does not fail in the models, and ids are within the tables of the stream
  object: the code checks neither. (PPS ids beyond the arrays of svc_split are
  modelled.) The buffer an avcC record is written to is long enough.
* A slice that names sets never read is given those of `h264_new`, blank ones,
  as in the code; what a decoder makes of them is out of scope.
* `bs_next_bytes` and unaligned `bs_read_bytes`, which nothing built uses.
