------------------------------ MODULE GuiProofs ------------------------------
(***************************************************************************)
(* Proofs about Gui, for any files and any depth of nested handlers.       *)
(*                                                                         *)
(* Every property is about handlers that wait and what others did in the   *)
(* meantime, so the invariant speaks of each frame of the stack by itself. *)
(***************************************************************************)
EXTENDS Gui, SequenceTheorems, TLAPS

USE SomeFile, Lengths

Frames == Conversions \cup Saves
CallsTyped == calls \in Seq(Frames) /\ tmp \in [Videos -> {"none", "empty", "part", "whole"}]

\* The list has the units of one file, in order from its first.
ListIsPrefix == \E f \in Files : m_nals \in {Prefix(f, n) : n \in 0 .. Length[f]}

\* SavedInOrder, of these lines, this list and these replacements.
InOrder(lines, list, cuts) ==
  /\ \A i \in DOMAIN lines : lines[i].place = i
  /\ \A i \in 1 .. Len(lines) - 1 : lines[i].file # lines[i + 1].file => i \in cuts
  /\ \A i \in DOMAIN lines :
       (\A c \in cuts : c < i) => i \in DOMAIN list /\ lines[i] = list[i]

\* A save is the outermost handler, so there is one at most.
SavesInv ==
  \A k \in DOMAIN calls : calls[k].op = "save" =>
    /\ k = 1 /\ replaced \subseteq 0 .. Len(calls[k].lines)
    /\ InOrder(calls[k].lines, m_nals, replaced)

\* What a step does to the list is no harm to the saves there are.
SavesKept ==
  \A k \in DOMAIN calls : calls[k].op = "save" =>
    /\ k = 1 /\ replaced' \subseteq 0 .. Len(calls[k].lines)
    /\ InOrder(calls[k].lines, m_nals', replaced')

GuiInv == CallsTyped /\ ListIsPrefix /\ TempIsOwned /\ SavesInv

----------------------------------------------------------------------------
\* The first units of a file are units, each at its place.
LEMMA PrefixIsTyped ==
  ASSUME NEW f \in Files, NEW n \in Nat
  PROVE  /\ Prefix(f, n) \in Seq(Units) /\ Len(Prefix(f, n)) = n
         /\ \A k \in 1 .. n : Prefix(f, n)[k].place = k
<1>1. Prefix(f, n) \in [1 .. n -> Units]
  BY DEF Prefix, Units
<1>2. \A k \in 1 .. n : Prefix(f, n)[k].place = k
  BY DEF Prefix
<1> QED
  BY <1>1, <1>2

\* What the list holds are units, each at its place.
LEMMA ListIsTyped ==
  ASSUME ListIsPrefix
  PROVE  /\ m_nals \in Seq(Units) /\ \A k \in DOMAIN m_nals : m_nals[k].place = k
         /\ \A k, l \in DOMAIN m_nals : m_nals[k].file = m_nals[l].file
<1>1. PICK f \in Files : \E n \in 0 .. Length[f] : m_nals = Prefix(f, n)
  BY DEF ListIsPrefix
<1>2. PICK n \in 0 .. Length[f] : m_nals = Prefix(f, n)
  BY <1>1
<1>3. n \in Nat
  BY DEF Files
<1>4. /\ m_nals \in Seq(Units) /\ Len(m_nals) = n
      /\ \A k \in 1 .. n : m_nals[k].place = k
  BY <1>2, <1>3, PrefixIsTyped
<1>5. \A k \in 1 .. n : m_nals[k].file = f
  BY <1>2 DEF Prefix
<1>6. DOMAIN m_nals = 1 .. n
  BY <1>4
<1> QED
  BY <1>4, <1>5, <1>6

\* A conversion knows its video, a save its lines.
LEMMA FrameFields ==
  ASSUME NEW c \in Frames
  PROVE  /\ c.op = "convert" => c \in Conversions /\ c.file \in Videos
         /\ c.op = "save" => c \in Saves /\ c.lines \in Seq(Units)
BY DEF Frames, Conversions, Saves

\* The last frame is one of them, and without it the others are as they were.
LEMMA TopIsFrame ==
  ASSUME calls \in Seq(Frames), calls # <<>>
  PROVE  /\ Len(calls) \in DOMAIN calls /\ Top = calls[Len(calls)] /\ Top \in Frames
         /\ Front(calls) \in Seq(Frames) /\ Len(Front(calls)) = Len(calls) - 1
         /\ \A k \in 1 .. Len(calls) - 1 : Front(calls)[k] = calls[k]
<1>1. Len(calls) \in Nat /\ Len(calls) > 0 /\ DOMAIN calls = 1 .. Len(calls)
  BY EmptySeq
<1> QED
  BY <1>1 DEF Top, Last, Front

\* A handler called is the last frame.
LEMMA CalledIsLast ==
  ASSUME calls \in Seq(Frames), NEW c \in Frames, Call(c)
  PROVE  /\ calls' \in Seq(Frames) /\ Len(calls') = Len(calls) + 1
         /\ calls'[Len(calls) + 1] = c
         /\ \A k \in 1 .. Len(calls) : calls'[k] = calls[k]
BY DEF Call

\* Lines stay in order when the list is replaced after the last of them.
LEMMA ReplacedInOrder ==
  ASSUME NEW lines \in Seq(Units), NEW list, NEW cuts \in SUBSET (0 .. Len(lines)),
         InOrder(lines, list, cuts), NEW new
  PROVE  /\ cuts \cup {Len(lines)} \subseteq 0 .. Len(lines)
         /\ InOrder(lines, new, cuts \cup {Len(lines)})
<1>1. Len(lines) \in Nat /\ DOMAIN lines = 1 .. Len(lines)
  OBVIOUS
<1>2. PICK more : more = cuts \cup {Len(lines)}
  OBVIOUS
<1>3. \A i \in 1 .. Len(lines) : Len(lines) \in more /\ ~(Len(lines) < i)
  BY <1>1, <1>2
<1>4. \A i \in 1 .. Len(lines) : ~(\A c \in more : c < i)
  BY <1>3, Zenon
<1>5. \A i \in 1 .. Len(lines) - 1 : lines[i].file # lines[i + 1].file => i \in more
  BY <1>2 DEF InOrder
<1>6. \A i \in DOMAIN lines : lines[i].place = i
  BY DEF InOrder
<1>7. InOrder(lines, new, more)
  BY <1>1, <1>4, <1>5, <1>6, Zenon DEF InOrder
<1>8. Len(lines) \in 0 .. Len(lines)
  BY <1>1
<1> QED
  BY <1>2, <1>7, <1>8

\* They do with the next unit of the list, at the place it has there.
LEMMA ExtendedInOrder ==
  ASSUME NEW lines \in Seq(Units), NEW list \in Seq(Units),
         NEW cuts \in SUBSET (0 .. Len(lines)), InOrder(lines, list, cuts),
         \A k \in DOMAIN list : list[k].place = k,
         \A k, l \in DOMAIN list : list[k].file = list[l].file,
         Len(lines) + 1 \in DOMAIN list,
         NEW more \in Seq(Units), Len(more) = Len(lines) + 1,
         \A k \in 1 .. Len(lines) : more[k] = lines[k],
         more[Len(lines) + 1] = list[Len(lines) + 1]
  PROVE  cuts \subseteq 0 .. Len(more) /\ InOrder(more, list, cuts)
<1> DEFINE n == Len(lines)
<1>1. /\ n \in Nat /\ DOMAIN lines = 1 .. n /\ DOMAIN more = 1 .. n + 1
      /\ \A i \in 1 .. n + 1 : i \in 1 .. n \/ i = n + 1
  OBVIOUS
<1> HIDE DEF n
<1>2. \A i \in 1 .. n : more[i].place = i
  BY <1>1 DEF InOrder, n
<1>3. \A i \in 1 .. n : (\A c \in cuts : c < i) => i \in DOMAIN list /\ more[i] = list[i]
  BY <1>1 DEF InOrder, n
<1>4. ASSUME NEW i \in 1 .. n, more[i].file # more[i + 1].file PROVE i \in cuts
  <2>1. CASE i = n
    <3>1. SUFFICES ASSUME i \notin cuts PROVE FALSE
      OBVIOUS
    <3>2. \A c \in cuts : c < i
      BY <1>1, <2>1, <3>1 DEF n
    <3>3. i \in DOMAIN list /\ more[i] = list[i]
      BY <1>3, <3>2
    <3> QED
      BY <1>4, <2>1, <3>3 DEF n
  <2>2. CASE i # n
    <3>1. i \in 1 .. n - 1 /\ i + 1 \in 1 .. n
      BY <1>1, <2>2
    <3>2. more[i] = lines[i] /\ more[i + 1] = lines[i + 1]
      BY <3>1 DEF n
    <3> QED
      BY <1>4, <3>1, <3>2 DEF InOrder, n
  <2> QED
    BY <2>1, <2>2
<1>5. more[n + 1].place = n + 1 /\ n + 1 \in DOMAIN list /\ more[n + 1] = list[n + 1]
  BY DEF n
<1>6. \A i \in 1 .. n + 1 : more[i].place = i
  BY <1>1, <1>2, <1>5
<1>7. \A i \in 1 .. n + 1 : (\A c \in cuts : c < i) => i \in DOMAIN list /\ more[i] = list[i]
  BY <1>1, <1>3, <1>5
<1>8. Len(more) - 1 = n /\ cuts \subseteq 0 .. Len(more)
  BY <1>1 DEF n
<1> QED
  BY <1>1, <1>4, <1>6, <1>7, <1>8 DEF InOrder
----------------------------------------------------------------------------
\* The window opens with an empty list and no handler.
LEMMA InitGuiInv == Init => GuiInv
<1> SUFFICES ASSUME Init PROVE GuiInv
  OBVIOUS
<1>1. CallsTyped
  BY DEF Init, CallsTyped
<1>2. ListIsPrefix
  <2>1. PICK f \in Files : TRUE
    BY DEF Files
  <2>2. 0 \in 0 .. Length[f] /\ Prefix(f, 0) = <<>>
    BY DEF Files, Prefix
  <2> QED
    BY <2>2 DEF Init, ListIsPrefix
<1>3. TempIsOwned
  BY DEF Init, TempIsOwned
<1>4. SavesInv
  BY DEF Init, SavesInv
<1> QED
  BY <1>1, <1>2, <1>3, <1>4 DEF GuiInv

\* DoAnalyzeFile fills the list from one file, and the save that waits is told.
LEMMA AnalysedIsPrefix ==
  ASSUME GuiInv, NEW f \in Files, NEW n \in 0 .. Length[f], DoAnalyzeFile(f, n)
  PROVE  ListIsPrefix' /\ SavesKept
<1>1. ListIsPrefix'
  BY DEF DoAnalyzeFile, ListIsPrefix
<1>2. SavesKept
  <2> SUFFICES ASSUME NEW k \in DOMAIN calls, calls[k].op = "save"
               PROVE  /\ k = 1 /\ replaced' \subseteq 0 .. Len(calls[k].lines)
                      /\ InOrder(calls[k].lines, m_nals', replaced')
    BY DEF SavesKept
  <2>1. PICK lines : lines = calls[k].lines
    OBVIOUS
  <2>2. lines \in Seq(Units)
    BY <2>1, ElementOfSeq, FrameFields DEF GuiInv, CallsTyped
  <2>3. k = 1 /\ replaced \subseteq 0 .. Len(lines) /\ InOrder(lines, m_nals, replaced)
    BY <2>1 DEF GuiInv, SavesInv
  <2>4. LinesSoFar = {Len(lines)}
    BY <2>1, <2>3 DEF LinesSoFar, GuiInv, SavesInv
  <2>5. replaced' = replaced \cup {Len(lines)}
    BY <2>4 DEF DoAnalyzeFile
  <2>6. replaced' \subseteq 0 .. Len(lines) /\ InOrder(lines, m_nals', replaced')
    BY <2>2, <2>3, <2>5, ReplacedInOrder
  <2> QED
    BY <2>1, <2>3, <2>6
<1> QED
  BY <1>1, <1>2

\* Saves are as they were while the list is.
LEMMA UnchangedKept ==
  ASSUME GuiInv, UNCHANGED <<m_nals, replaced>>
  PROVE  SavesKept
BY DEF GuiInv, SavesInv, SavesKept

\* A handler that returns owns no temporary file any more, nor does it save.
LEMMA ReturnKeepsFrames ==
  ASSUME GuiInv, calls # <<>>, HandlerReturns,
         \/ Top.op = "convert" /\ RemoveTmp(Top.file)
         \/ Top.op # "convert" /\ UNCHANGED tmp,
         SavesKept
  PROVE  CallsTyped' /\ TempIsOwned' /\ SavesInv'
<1> DEFINE last == Len(calls)
<1>1. /\ last \in DOMAIN calls /\ Top = calls[last] /\ Top \in Frames
      /\ calls' \in Seq(Frames) /\ Len(calls') = last - 1
      /\ \A k \in 1 .. last - 1 : calls'[k] = calls[k]
  BY TopIsFrame DEF GuiInv, CallsTyped, HandlerReturns
<1>2. DOMAIN calls = 1 .. last /\ DOMAIN calls' = 1 .. last - 1 /\ last \in Nat
  BY <1>1 DEF GuiInv, CallsTyped
<1>3. CallsTyped'
  BY <1>1, FrameFields DEF GuiInv, CallsTyped, RemoveTmp
<1>4. TempIsOwned'
  <2> SUFFICES ASSUME NEW v \in Videos, tmp'[v] # "none"
               PROVE  \E k \in DOMAIN calls' :
                        /\ calls'[k].op = "convert" /\ calls'[k].file = v
                        /\ calls'[k].ffmpeg # "starting"
    BY DEF TempIsOwned
  <2>1. tmp[v] # "none" /\ ~(Top.op = "convert" /\ Top.file = v)
    BY DEF RemoveTmp, GuiInv, CallsTyped
  <2>2. PICK k \in DOMAIN calls :
          calls[k].op = "convert" /\ calls[k].file = v /\ calls[k].ffmpeg # "starting"
    BY <2>1 DEF GuiInv, TempIsOwned
  <2>3. k # last
    BY <1>1, <2>1, <2>2
  <2> QED
    BY <1>1, <1>2, <2>2, <2>3
<1>5. SavesInv'
  <2>1. \A k \in DOMAIN calls' : k \in DOMAIN calls /\ calls'[k] = calls[k]
    BY <1>1, <1>2
  <2> QED
    BY <2>1, Zenon DEF SavesKept, SavesInv
<1> QED
  BY <1>3, <1>4, <1>5

\* A frame that changes in place stays a frame.
LEMMA FrameChanges ==
  ASSUME calls \in Seq(Frames), NEW k \in DOMAIN calls, NEW c \in Frames,
         calls' = [calls EXCEPT ![k] = c]
  PROVE  /\ calls' \in Seq(Frames) /\ DOMAIN calls' = DOMAIN calls
         /\ calls'[k] = c /\ \A j \in DOMAIN calls \ {k} : calls'[j] = calls[j]
BY ExceptSeq

\* While ffmpeg runs its conversion owns the output from the first byte on.
LEMMA FfmpegGuiInv ==
  ASSUME GuiInv, NEW k \in DOMAIN calls, FfmpegWrites(k) \/ FfmpegEnds(k)
  PROVE  GuiInv'
<1>0. calls[k] \in Frames /\ calls[k].op = "convert" /\ calls \in Seq(Frames)
  BY ElementOfSeq DEF GuiInv, CallsTyped, FfmpegWrites, FfmpegEnds
<1>1. calls[k] \in Conversions /\ calls[k].file \in Videos
  BY <1>0, FrameFields
<1>2. PICK c \in Conversions :
        /\ calls' = [calls EXCEPT ![k] = c]
        /\ c.op = "convert" /\ c.file = calls[k].file
  <2>1. \A x \in {"writing", "failed", "done"} :
          /\ [calls[k] EXCEPT !.ffmpeg = x] \in Conversions
          /\ [calls[k] EXCEPT !.ffmpeg = x].op = "convert"
          /\ [calls[k] EXCEPT !.ffmpeg = x].file = calls[k].file
          /\ [calls[k] EXCEPT !.ffmpeg = x].ffmpeg = x
    BY <1>1 DEF Conversions
  <2>2. \E x \in {"writing", "failed", "done"} :
          calls' = [calls EXCEPT ![k] = [calls[k] EXCEPT !.ffmpeg = x]]
    BY <1>0 DEF FfmpegWrites, FfmpegEnds
  <2> QED
    BY <2>1, <2>2
<1>3. c \in Frames
  BY DEF Frames
<1>4. /\ calls' \in Seq(Frames) /\ DOMAIN calls' = DOMAIN calls /\ calls'[k] = c
      /\ \A j \in DOMAIN calls \ {k} : calls'[j] = calls[j]
  BY <1>0, <1>2, <1>3, FrameChanges
<1>5. /\ tmp' \in [Videos -> {"none", "empty", "part", "whole"}]
      /\ \A v \in Videos : tmp'[v] = tmp[v] \/ v = c.file
  BY <1>1, <1>2, ZenonT(60) DEF FfmpegWrites, FfmpegEnds, GuiInv, CallsTyped
<1>6. c.ffmpeg # "starting"
  <2>1. \E x \in {"writing", "failed", "done"} :
          calls' = [calls EXCEPT ![k].ffmpeg = x]
    BY <1>0 DEF FfmpegWrites, FfmpegEnds
  <2> QED
    BY <1>0, <1>1, <1>4, <2>1 DEF Conversions
<1>7. TempIsOwned'
  <2> SUFFICES ASSUME NEW v \in Videos, tmp'[v] # "none"
               PROVE  \E j \in DOMAIN calls' :
                        /\ calls'[j].op = "convert" /\ calls'[j].file = v
                        /\ calls'[j].ffmpeg # "starting"
    BY DEF TempIsOwned
  <2>1. CASE v = c.file
    BY <1>2, <1>4, <1>6, <2>1
  <2>2. CASE v # c.file
    <3>1. PICK j \in DOMAIN calls :
            calls[j].op = "convert" /\ calls[j].file = v /\ calls[j].ffmpeg # "starting"
      BY <1>5, <2>2 DEF GuiInv, TempIsOwned
    <3>2. j # k
      BY <1>2, <2>2, <3>1
    <3> QED
      BY <1>4, <3>1, <3>2
  <2> QED
    BY <2>1, <2>2
<1>8. UNCHANGED <<m_nals, replaced>>
  BY DEF FfmpegWrites, FfmpegEnds
<1>9. SavesInv'
  <2>1. \A j \in DOMAIN calls' : calls'[j].op = "save" => calls'[j] = calls[j]
    BY <1>2, <1>4
  <2> QED
    BY <1>4, <1>8, <2>1 DEF GuiInv, SavesInv
<1> QED
  BY <1>4, <1>5, <1>7, <1>8, <1>9 DEF GuiInv, CallsTyped, ListIsPrefix

\* A line is the next unit of the list, at the place it has there.
LEMMA SaveLineGuiInv == ASSUME GuiInv, SaveLine PROVE GuiInv'
<1> DEFINE last == Len(calls)
           i    == Len(Top.lines) + 1
           more == Append(Top.lines, m_nals[i])
           c    == [Top EXCEPT !.lines = more]
<1>1. /\ last \in DOMAIN calls /\ Top = calls[last] /\ Top \in Saves
      /\ Top.lines \in Seq(Units) /\ calls \in Seq(Frames)
  BY TopIsFrame, FrameFields DEF GuiInv, CallsTyped, SaveLine, Waiting
<1>2. i \in DOMAIN m_nals /\ m_nals \in Seq(Units) /\ m_nals[i].place = i
  <2>1. m_nals \in Seq(Units) /\ \A k \in DOMAIN m_nals : m_nals[k].place = k
    BY ListIsTyped DEF GuiInv
  <2>2. i \in 1 .. Len(m_nals)
    BY <1>1, <2>1 DEF SaveLine
  <2> QED
    BY <2>1, <2>2
<1>3. /\ more \in Seq(Units) /\ Len(more) = i
      /\ \A k \in 1 .. i - 1 : more[k] = Top.lines[k]
      /\ more[i] = m_nals[i]
  <2>1. m_nals[i] \in Units
    BY <1>2
  <2> QED
    BY <1>1, <2>1, AppendProperties
<1>4. c \in Saves /\ c.op = "save" /\ c.lines = more
  BY <1>1, <1>3 DEF Saves
<1>5. /\ calls' \in Seq(Frames) /\ DOMAIN calls' = DOMAIN calls /\ calls'[last] = c
      /\ \A j \in DOMAIN calls \ {last} : calls'[j] = calls[j]
  <2>1. calls' = [calls EXCEPT ![last] = c]
    BY <1>1 DEF SaveLine
  <2>2. c \in Frames
    BY <1>4 DEF Frames
  <2> QED
    BY <1>1, <2>1, <2>2, FrameChanges
<1>6. UNCHANGED <<m_nals, tmp, replaced>>
  BY DEF SaveLine
<1>7. TempIsOwned'
  <2>1. Top.op = "save"
    BY <1>1 DEF Saves
  <2> QED
    BY <1>1, <1>5, <1>6, <2>1 DEF GuiInv, TempIsOwned
<1>8. SavesInv'
  <2>1. /\ last = 1 /\ replaced \subseteq 0 .. Len(Top.lines)
        /\ InOrder(Top.lines, m_nals, replaced)
    BY <1>1 DEF GuiInv, SavesInv, Saves
  <2>2. /\ \A k \in DOMAIN m_nals : m_nals[k].place = k
        /\ \A k, l \in DOMAIN m_nals : m_nals[k].file = m_nals[l].file
    BY ListIsTyped DEF GuiInv
  <2>3. Len(Top.lines) \in Nat /\ i - 1 = Len(Top.lines)
    BY <1>1
  <2>4. replaced \subseteq 0 .. Len(more) /\ InOrder(more, m_nals, replaced)
    <3>1. i = Len(Top.lines) + 1
      OBVIOUS
    <3> HIDE DEF i, more
    <3>2. /\ Top.lines \in Seq(Units) /\ replaced \in SUBSET (0 .. Len(Top.lines))
          /\ Len(Top.lines) + 1 \in DOMAIN m_nals /\ Len(more) = Len(Top.lines) + 1
          /\ \A k \in 1 .. Len(Top.lines) : more[k] = Top.lines[k]
          /\ more[Len(Top.lines) + 1] = m_nals[Len(Top.lines) + 1]
      BY <1>1, <1>2, <1>3, <2>1, <2>3, <3>1
    <3> QED
      BY <1>2, <1>3, <2>1, <2>2, <3>2, ExtendedInOrder
  <2>5. \A k \in DOMAIN calls' : k = 1
    BY <1>5, <2>1 DEF GuiInv, CallsTyped
  <2>6. calls'[1].lines = more
    BY <1>4, <1>5, <2>1
  <2> HIDE DEF more, c, i
  <2> QED
    BY <1>6, <2>4, <2>5, <2>6 DEF SavesInv
<1> QED
  BY <1>5, <1>6, <1>7, <1>8 DEF GuiInv, CallsTyped, ListIsPrefix

\* A handler called owns nothing and has saved nothing yet.
LEMMA CallGuiInv ==
  ASSUME GuiInv, (\E v \in Videos : OpenVideo(v)) \/ StartSaving
  PROVE  GuiInv'
<1>1. UNCHANGED <<m_nals, tmp>>
  BY DEF OpenVideo, StartSaving
<1>2. PICK c \in Frames :
        /\ Call(c)
        /\ \/ c.op = "convert" /\ UNCHANGED replaced
           \/ c.op = "save" /\ c.lines = <<>> /\ calls = <<>> /\ replaced' = {}
  <2>1. ASSUME NEW v \in Videos, OpenVideo(v)
        PROVE  \E c \in Frames : Call(c) /\ c.op = "convert" /\ UNCHANGED replaced
    <3> DEFINE c == [op |-> "convert", file |-> v, ffmpeg |-> "starting"]
    <3>1. c \in Frames /\ c.op = "convert"
      BY DEF Frames, Conversions
    <3> QED
      BY <2>1, <3>1 DEF OpenVideo
  <2>2. ASSUME StartSaving
        PROVE  \E c \in Frames :
                 /\ Call(c) /\ c.op = "save" /\ c.lines = <<>>
                 /\ calls = <<>> /\ replaced' = {}
    <3> DEFINE c == [op |-> "save", lines |-> <<>>]
    <3>1. <<>> \in Seq(Units)
      BY EmptySeq
    <3>2. c \in Frames /\ c.op = "save" /\ c.lines = <<>>
      BY <3>1 DEF Frames, Saves
    <3> QED
      BY <2>2, <3>2 DEF StartSaving, Idle
  <2> QED
    BY <2>1, <2>2
<1>3. /\ calls' \in Seq(Frames) /\ Len(calls') = Len(calls) + 1
      /\ calls'[Len(calls) + 1] = c
      /\ \A k \in 1 .. Len(calls) : calls'[k] = calls[k]
  BY <1>2, CalledIsLast DEF GuiInv, CallsTyped
<1>4. /\ DOMAIN calls = 1 .. Len(calls) /\ DOMAIN calls' = 1 .. Len(calls) + 1
      /\ Len(calls) \in Nat
  BY <1>3 DEF GuiInv, CallsTyped
<1>5. TempIsOwned'
  BY <1>1, <1>3, <1>4 DEF GuiInv, TempIsOwned
<1>6. SavesInv'
  <2>1. CASE c.op = "convert" /\ UNCHANGED replaced
    <3>1. \A k \in DOMAIN calls' : calls'[k].op = "save" =>
            k \in DOMAIN calls /\ calls'[k] = calls[k]
      BY <1>3, <1>4, <2>1
    <3> QED
      BY <1>1, <2>1, <3>1 DEF GuiInv, SavesInv
  <2>2. CASE c.op = "save" /\ c.lines = <<>> /\ calls = <<>> /\ replaced' = {}
    <3>1. \A k \in DOMAIN calls' : k = 1 /\ calls'[k] = c
      BY <1>3, <1>4, <2>2
    <3>2. InOrder(c.lines, m_nals', replaced')
      BY <2>2 DEF InOrder
    <3> QED
      BY <2>2, <3>1, <3>2 DEF SavesInv
  <2> QED
    BY <1>2, <2>1, <2>2
<1> QED
  BY <1>1, <1>3, <1>5, <1>6 DEF GuiInv, CallsTyped, ListIsPrefix

\* The invariant is inductive.
LEMMA NextGuiInv == GuiInv /\ [Next]_vars => GuiInv'
<1> SUFFICES ASSUME GuiInv, [Next]_vars PROVE GuiInv'
  OBVIOUS
<1>1. ASSUME NEW f \in Streams, OpenStream(f) PROVE GuiInv'
  <2>1. ListIsPrefix' /\ SavesKept
    <3>1. f \in Files /\ Length[f] \in 0 .. Length[f]
      BY DEF Files
    <3> QED
      BY <1>1, <3>1, AnalysedIsPrefix DEF OpenStream
  <2> QED
    BY <1>1, <2>1 DEF OpenStream, GuiInv, CallsTyped, TempIsOwned, SavesKept, SavesInv
<1>2. ASSUME (\E v \in Videos : OpenVideo(v)) \/ StartSaving PROVE GuiInv'
  BY <1>2, CallGuiInv
<1>3. ASSUME NEW k \in DOMAIN calls, FfmpegWrites(k) \/ FfmpegEnds(k) PROVE GuiInv'
  BY <1>3, FfmpegGuiInv
<1>4. CASE ConversionFails
  <2>1. calls # <<>> /\ Top.op = "convert"
    BY <1>4 DEF ConversionFails, Waiting
  <2>2. CallsTyped' /\ TempIsOwned' /\ SavesInv'
    BY <1>4, <2>1, ReturnKeepsFrames, UnchangedKept DEF ConversionFails
  <2> QED
    BY <1>4, <2>2 DEF ConversionFails, GuiInv, ListIsPrefix
<1>5. CASE AnalyzeOutput
  <2>1. calls # <<>> /\ Top.op = "convert"
    BY <1>5 DEF AnalyzeOutput, Waiting
  <2>2. Top.file \in Videos
    BY <2>1, TopIsFrame, FrameFields DEF GuiInv, CallsTyped
  <2>3. ListIsPrefix' /\ SavesKept
    <3>1. Top.file \in Files /\ Length[Top.file] \in 0 .. Length[Top.file]
      BY <2>2 DEF Files
    <3> QED
      BY <1>5, <3>1, AnalysedIsPrefix DEF AnalyzeOutput
  <2>4. CallsTyped' /\ TempIsOwned' /\ SavesInv'
    BY <1>5, <2>1, <2>3, ReturnKeepsFrames DEF AnalyzeOutput
  <2> QED
    BY <2>3, <2>4 DEF GuiInv
<1>6. CASE SaveLine
  BY <1>6, SaveLineGuiInv
<1>7. CASE SaveEnds
  <2>1. calls # <<>> /\ Top.op = "save"
    BY <1>7 DEF SaveEnds, Waiting
  <2>2. CallsTyped' /\ TempIsOwned' /\ SavesInv'
    BY <1>7, <2>1, ReturnKeepsFrames, UnchangedKept DEF SaveEnds
  <2> QED
    BY <1>7, <2>2 DEF SaveEnds, GuiInv, ListIsPrefix
<1>8. ASSUME \/ \E index \in DOMAIN m_nals : Select(index)
             \/ SaveView \/ OnExit \/ CloseWindow \/ UNCHANGED vars
      PROVE  GuiInv'
  <2>1. UNCHANGED <<m_nals, tmp, calls, replaced>>
    BY <1>8 DEF Select, SaveView, OnExit, CloseWindow, vars
  <2> QED
    BY <2>1 DEF GuiInv, CallsTyped, ListIsPrefix, TempIsOwned, SavesInv
<1> QED
  BY <1>1, <1>2, <1>3, <1>4, <1>5, <1>6, <1>7, <1>8 DEF Next

\* The invariant holds whatever handlers are nested in each other.
THEOREM GuiInvariant == Spec => []GuiInv
BY InitGuiInv, NextGuiInv, PTL DEF Spec

\* Whenever the program is idle every temporary file has been removed: one that
\* is there has a conversion that waits, and there is none.
THEOREM TempRemoved == Spec => []NoTempLeft
<1>1. GuiInv => NoTempLeft
  BY DEF GuiInv, TempIsOwned, NoTempLeft, Idle
<1> QED
  BY <1>1, GuiInvariant, PTL

\* A save has a line for each place up to where it is, once and in order; lines of
\* two files meet only where the list was replaced between them.
THEOREM SavesInOrder == Spec => []SavedInOrder
<1>1. GuiInv => SavedInOrder
  BY DEF GuiInv, SavesInv, InOrder, SavedInOrder
<1> QED
  BY <1>1, GuiInvariant, PTL
=============================================================================
