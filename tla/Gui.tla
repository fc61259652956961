--------------------------------- MODULE Gui ---------------------------------
(***************************************************************************)
(* The window of h264_gui.cpp: the list of the units of a file, the        *)
(* details of the unit that is selected, and the files it writes.  A file  *)
(* that is no H.264 stream is converted by ffmpeg to a temporary file      *)
(* first, and all details can be saved.                                    *)
(*                                                                         *)
(* Both take long, and the program waits in an event loop inside of the    *)
(* event handler: wxExecute until ffmpeg has ended, wxProgressDialog at    *)
(* every step.  The window is disabled meanwhile, but a file may still be  *)
(* dropped on it, if the platform lets it.  So handlers nest: "calls" is   *)
(* the stack of those that wait, the innermost last.                       *)
(***************************************************************************)
EXTENDS Integers, SequencesExt

CONSTANTS
  Streams, Videos,   \* the files there are; videos need a conversion
  Length,            \* the units in each
  DropsWhileBusy,    \* whether a disabled window takes files
  MaxCalls           \* bound of the model: handlers at a time

ASSUME FilesApart == Streams \cap Videos = {}
ASSUME SomeFile == Streams \cup Videos # {}
ASSUME Lengths == Length \in [Streams \cup Videos -> Nat]
ASSUME CallBound == MaxCalls \in Nat \ {0}

Files == Streams \cup Videos

\* The units of a file, by their places in it, or the first n of them.
Prefix(f, n) == [k \in 1 .. n |-> [file |-> f, place |-> k]]

VARIABLES
  m_nals,     \* the units of the file analysed last; m_nalList has a row for each
  details,    \* the unit whose details are shown, a set of at most one
  tmp,        \* for each video the temporary file: none, or how much it holds
  calls,      \* the handlers that wait
  replaced,   \* history: the numbers of lines after which the save that waits, or
              \* the last one, had its list replaced
  saved,      \* the units whose details the file of OnSaveDetails holds
  m_h264      \* the stream object of the window, until it is closed

vars == <<m_nals, details, tmp, calls, replaced, saved, m_h264>>

Init ==
  /\ m_nals = <<>> /\ details = {}
  /\ tmp = [v \in Videos |-> "none"]
  /\ calls = <<>> /\ replaced = {} /\ saved = <<>>
  /\ m_h264 = "allocated"

----------------------------------------------------------------------------
Idle == calls = <<>>
Top == Last(calls)
Waiting(op) == calls # <<>> /\ Top.op = op
Call(c) == calls' = Append(calls, c)
HandlerReturns == calls' = Front(calls)

\* A handler may start: the window is not busy, or takes files all the same.
MayOpen ==
  /\ m_h264 = "allocated"
  /\ Idle \/ (DropsWhileBusy /\ Len(calls) < MaxCalls)

\* How many lines the save that waits has; it is the outermost handler.
LinesSoFar ==
  {Len(calls[k].lines) : k \in {j \in DOMAIN calls : calls[j].op = "save"}}

\* Mutant: m_nals is not cleared before the callback adds to it.
Mut_DoAnalyzeFile(f, n) ==
  /\ m_nals' = m_nals \o Prefix(f, n)
  /\ replaced' = replaced \cup LinesSoFar

\* DoAnalyzeFile, which dispatches no events; the callback adds a row for each
\* unit as well.
DoAnalyzeFile(f, n) ==
  /\ m_nals' = Prefix(f, n)
  /\ replaced' = replaced \cup LinesSoFar

\* OnOpenFile or OnDropFiles with a stream.
OpenStream(f) ==
  /\ MayOpen
  /\ DoAnalyzeFile(f, Length[f])
  /\ UNCHANGED <<details, tmp, calls, saved, m_h264>>

\* The same with a video: ffmpeg is started.
OpenVideo(v) ==
  /\ MayOpen
  /\ Call([op |-> "convert", file |-> v, ffmpeg |-> "starting"])
  /\ UNCHANGED <<m_nals, details, tmp, replaced, saved, m_h264>>

\* ffmpeg -y, one process for each handler, truncates the output, writes it and
\* ends.  A file that was removed under it stays removed.
FfmpegWrites(k) ==
  /\ calls[k].op = "convert" /\ calls[k].ffmpeg = "starting"
  /\ calls' = [calls EXCEPT ![k].ffmpeg = "writing"]
  /\ tmp' = [tmp EXCEPT ![calls[k].file] = "part"]
  /\ UNCHANGED <<m_nals, details, replaced, saved, m_h264>>

FfmpegEnds(k) ==
  /\ calls[k].op = "convert"
  /\ \/ /\ calls[k].ffmpeg = "starting"
        /\ calls' = [calls EXCEPT ![k].ffmpeg = "failed"]
        /\ UNCHANGED tmp
     \/ /\ calls[k].ffmpeg = "writing"
        /\ \E result \in {"failed", "done"} :
             calls' = [calls EXCEPT ![k].ffmpeg = result]
        /\ \E content \in {"empty", "part", "whole"} :
             tmp' = [tmp EXCEPT ![calls[k].file] =
                       IF @ = "none" THEN "none" ELSE content]
  /\ UNCHANGED <<m_nals, details, replaced, saved, m_h264>>

RemoveTmp(v) == tmp' = [tmp EXCEPT ![v] = "none"]

\* Mutant: an empty output is left where it is.
Mut_ConversionFails ==
  /\ Waiting("convert")
  /\ \/ Top.ffmpeg = "failed" /\ RemoveTmp(Top.file)
     \/ Top.ffmpeg = "done" /\ tmp[Top.file] \in {"none", "empty"} /\ UNCHANGED tmp
  /\ HandlerReturns
  /\ UNCHANGED <<m_nals, details, replaced, saved, m_h264>>

\* wxExecute returns once no handler is nested in it and its process has ended:
\* with an error, or without an output, which is removed if there is one.
ConversionFails ==
  /\ Waiting("convert")
  /\ \/ Top.ffmpeg = "failed"
     \/ Top.ffmpeg = "done" /\ tmp[Top.file] \in {"none", "empty"}
  /\ RemoveTmp(Top.file)
  /\ HandlerReturns
  /\ UNCHANGED <<m_nals, details, replaced, saved, m_h264>>

\* Or with an output, which is analysed and removed.
AnalyzeOutput ==
  /\ Waiting("convert") /\ Top.ffmpeg = "done"
  /\ \/ tmp[Top.file] = "whole" /\ DoAnalyzeFile(Top.file, Length[Top.file])
     \/ /\ tmp[Top.file] = "part"
        /\ \E n \in 0 .. Length[Top.file] : DoAnalyzeFile(Top.file, n)
  /\ RemoveTmp(Top.file)
  /\ HandlerReturns
  /\ UNCHANGED <<details, saved, m_h264>>

----------------------------------------------------------------------------
\* OnNalSelected, for a row of the list.
Select(index) ==
  /\ Idle /\ m_h264 = "allocated"
  /\ index \in DOMAIN m_nals
  /\ details' = {m_nals[index]}
  /\ UNCHANGED <<m_nals, tmp, calls, replaced, saved, m_h264>>

\* OnSaveDetails.  Without units the text that is shown is saved.
SaveView ==
  /\ Idle /\ m_h264 = "allocated" /\ m_nals = <<>> /\ details # {}
  /\ saved' = SetToSeq(details)
  /\ UNCHANGED <<m_nals, details, tmp, calls, replaced, m_h264>>

StartSaving ==
  /\ Idle /\ m_h264 = "allocated" /\ m_nals # <<>>
  /\ Call([op |-> "save", lines |-> <<>>])
  /\ replaced' = {}
  /\ UNCHANGED <<m_nals, details, tmp, saved, m_h264>>

\* The loop of OnSaveDetails: a line, then the progress dialog and its events.
\* It reads the list, and its size, as they are at each turn.
SaveLine ==
  LET i == Len(Top.lines) + 1 IN
    /\ Waiting("save") /\ i <= Len(m_nals)
    /\ calls' = [calls EXCEPT ![Len(calls)].lines = Append(@, m_nals[i])]
    /\ UNCHANGED <<m_nals, details, tmp, replaced, saved, m_h264>>

\* The file is opened, or not, before the loop, and written, or not, after it.
SaveEnds ==
  /\ Waiting("save")
  /\ \/ Top.lines = <<>> /\ UNCHANGED saved
     \/ Len(Top.lines) >= Len(m_nals) /\ saved' \in {Top.lines, saved}
  /\ HandlerReturns
  /\ UNCHANGED <<m_nals, details, tmp, replaced, m_h264>>

----------------------------------------------------------------------------
\* OnExit frees the stream; closing the window in another way does not.
OnExit ==
  /\ Idle /\ m_h264 = "allocated" /\ m_h264' = "freed"
  /\ UNCHANGED <<m_nals, details, tmp, calls, replaced, saved>>

CloseWindow ==
  /\ Idle /\ m_h264 = "allocated" /\ m_h264' = "leaked"
  /\ UNCHANGED <<m_nals, details, tmp, calls, replaced, saved>>

Next ==
  \/ \E f \in Streams : OpenStream(f)
  \/ \E v \in Videos : OpenVideo(v)
  \/ \E k \in DOMAIN calls : FfmpegWrites(k) \/ FfmpegEnds(k)
  \/ ConversionFails \/ AnalyzeOutput
  \/ \E index \in DOMAIN m_nals : Select(index)
  \/ SaveView \/ StartSaving \/ SaveLine \/ SaveEnds
  \/ OnExit \/ CloseWindow

Spec == Init /\ [][Next]_vars

----------------------------------------------------------------------------
Units == [file : Files, place : Nat]
Conversions == [op : {"convert"}, file : Videos,
                ffmpeg : {"starting", "writing", "failed", "done"}]
Saves == [op : {"save"}, lines : Seq(Units)]

\* Once no handler waits no temporary file is left, however the conversions
\* ended and whichever removed the file of another.
NoTempLeft == Idle => \A v \in Videos : tmp[v] = "none"

\* A handler that reads the output of its conversion finds what ffmpeg wrote
\* and no output of a conversion that is still to come: there is a temporary
\* file only while a handler waits that will remove it.
TempIsOwned ==
  \A v \in Videos : tmp[v] # "none" =>
    \E k \in DOMAIN calls :
      calls[k].op = "convert" /\ calls[k].file = v /\ calls[k].ffmpeg # "starting"

\* A save that is under way has a line for each place up to where it is, once and
\* in order, whatever files are dropped on the window meanwhile.  It may have lines
\* of two files, and then only where the list was replaced between two of its
\* lines; those since the last time are of the list that is shown now.
SavedInOrder ==
  \A k \in DOMAIN calls : calls[k].op = "save" =>
    LET lines == calls[k].lines IN
      /\ \A i \in DOMAIN lines : lines[i].place = i
      /\ \A i \in 1 .. Len(lines) - 1 :
           lines[i].file # lines[i + 1].file => i \in replaced
      /\ \A i \in DOMAIN lines :
           (\A r \in replaced : r < i) => i \in DOMAIN m_nals /\ lines[i] = m_nals[i]

TypeOK ==
  /\ m_nals \in Seq(Units)
  /\ details \subseteq Units
  /\ tmp \in [Videos -> {"none", "empty", "part", "whole"}]
  /\ calls \in Seq(Conversions \cup Saves)
  /\ replaced \subseteq Nat /\ saved \in Seq(Units)
  /\ m_h264 \in {"allocated", "freed", "leaked"}
=============================================================================
