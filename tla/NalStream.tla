------------------------------ MODULE NalStream ------------------------------
(***************************************************************************)
(* The loop of h264_analyze_file (h264_analyzer.c): a file is read through *)
(* a buffer of BufSize bytes, and each NAL unit find_nal_unit finds in it  *)
(* is given to a callback, with its offset in the file.  svc_split repeats *)
(* the same loop; dep_analyzer_main scans a buffer that holds all of the   *)
(* file, which is the case where BufSize exceeds the length of the file.   *)
(***************************************************************************)
EXTENDS AnnexB

CONSTANTS
  Files,    \* the contents a file may have
  BufSize,  \* BUFSIZE
  Junk      \* what memory may hold just after the bytes that were read

ASSUME BufferHoldsLookahead == BufSize \in Nat /\ BufSize >= 4
ASSUME FilesAreBytes == Files \subseteq Seq(0 .. 255) /\ Junk \subseteq Seq(0 .. 255)

VARIABLES
  file,
  pos,     \* how many bytes of file have been read
  buf,     \* the bytes the buffer holds
  p,       \* the offset in buf of the scan
  off,     \* the offset in file of buf[0], as the code keeps it
  calls,   \* history: the calls of the callback
  pc       \* at the fread, in the scan, or after the loop

vars == <<file, pos, buf, p, off, calls, pc>>

sz == Len(buf) - p

Init ==
  /\ file \in Files
  /\ pos = 0 /\ buf = <<>> /\ p = 0 /\ off = 0
  /\ calls = <<>>
  /\ pc = "read"

Readable == Min({BufSize - sz, Len(file) - pos})

Read ==
  /\ pc = "read" /\ Readable > 0
  /\ buf' = buf \o SubSeq(file, pos + 1, pos + Readable)
  /\ pos' = pos + Readable
  /\ pc' = "scan"
  /\ UNCHANGED <<file, p, off, calls>>

\* fread returned 0: the end of the file, as the code takes it.
EndOfFile ==
  /\ pc = "read" /\ Readable = 0
  /\ pc' = "done"
  /\ UNCHANGED <<file, pos, buf, p, off, calls>>

Scan(junk) == FindNalUnit(SubSeq(buf, p + 1, Len(buf)) \o junk, sz)

\* Mutant: the scan resumes a byte too far.
Mut_Deliver(junk) ==
  LET nal == Scan(junk) IN
  /\ pc = "scan" /\ nal.ret > 0
  /\ calls' = Append(calls, [start |-> off + p + nal.start,
                             end |-> off + p + nal.end,
                             data |-> SubSeq(buf, p + nal.start + 1, p + nal.end)])
  /\ p' = p + nal.end + 1
  /\ UNCHANGED <<file, pos, buf, off, pc>>

\* Mutant: the scan does not move.
Mut_Deliver_Stuck(junk) ==
  LET nal == Scan(junk) IN
  /\ pc = "scan" /\ nal.ret > 0
  /\ UNCHANGED <<file, pos, buf, p, off, calls, pc>>

Deliver(junk) ==
  LET nal == Scan(junk) IN
  /\ pc = "scan" /\ nal.ret > 0
  /\ calls' = Append(calls, [start |-> off + p + nal.start,
                             end |-> off + p + nal.end,
                             data |-> SubSeq(buf, p + nal.start + 1, p + nal.end)])
  /\ p' = p + nal.end
  /\ UNCHANGED <<file, pos, buf, off, pc>>

\* Mutant: the buffer is kept, in the hope that its unit ends further on.
Mut_Discard_Keeps(junk) ==
  /\ pc = "scan" /\ Scan(junk).ret <= 0 /\ p = 0
  /\ pc' = "read"
  /\ UNCHANGED <<file, pos, buf, p, off, calls>>

\* No unit was found since the read: all of the buffer is dropped.
Discard(junk) ==
  /\ pc = "scan" /\ Scan(junk).ret <= 0 /\ p = 0
  /\ buf' = <<>>
  /\ off' = off + Len(buf)
  /\ pc' = "read"
  /\ UNCHANGED <<file, pos, p, calls>>

\* Mutant: the offset of the buffer is not moved with its contents.
Mut_KeepRest(junk) ==
  /\ pc = "scan" /\ Scan(junk).ret <= 0 /\ p > 0
  /\ buf' = SubSeq(buf, p + 1, Len(buf))
  /\ p' = 0
  /\ pc' = "read"
  /\ UNCHANGED <<file, pos, off, calls>>

\* Otherwise what is left moves to the front of the buffer.
KeepRest(junk) ==
  /\ pc = "scan" /\ Scan(junk).ret <= 0 /\ p > 0
  /\ buf' = SubSeq(buf, p + 1, Len(buf))
  /\ off' = off + p
  /\ p' = 0
  /\ pc' = "read"
  /\ UNCHANGED <<file, pos, calls>>

Next ==
  \/ Read \/ EndOfFile
  \/ \E junk \in Junk : Deliver(junk) \/ Discard(junk) \/ KeepRest(junk)

\* One thread runs the loop until it leaves it.
Spec == Init /\ [][Next]_vars /\ WF_vars(Next)

----------------------------------------------------------------------------
\* Before a read there is room in the buffer, so that an empty read means the
\* end of the file and never a buffer that is full.
TypeOK ==
  /\ file \in Files
  /\ pos \in 0 .. Len(file)
  /\ Len(buf) <= BufSize /\ (pc = "read" => sz < BufSize)
  /\ p \in 0 .. Len(buf)
  /\ off \in 0 .. pos
  /\ pc \in {"read", "scan", "done"}

\* The buffer always holds the part of the file that ends where the last read
\* did, at the offset the code believes, and every call has had bytes of the
\* file from the offset it was told: moving the contents of the buffer makes no
\* unit stale or misplaced.
CallsShowTheFile ==
  /\ buf = SubSeq(file, off + 1, pos) /\ off + Len(buf) = pos
  /\ \A c \in 1 .. Len(calls) :
       calls[c].data = SubSeq(file, calls[c].start + 1, calls[c].end)

Framing == INSTANCE NalFraming
             WITH delivered <- [c \in 1 .. Len(calls) |->
                                  [start |-> calls[c].start, end |-> calls[c].end]]

\* The loop implements NalFraming: it never calls back with anything but a unit
\* of the file that an end code follows, in order, and skips none of these if
\* they fit, whatever lies beyond the bytes it read.
ImplementsFraming == Framing!Spec

\* When the loop ends, the units of the file that were not delivered are those
\* that end in its last three bytes or with it, provided that the others fit.
\* So the last unit of a file is lost, unless four zeros trail it: the "FIXME" of
\* find_nal_unit, which says -1 of such a unit, and the loop drops it.
LosesOnlyTheEnd ==
  pc = "done" /\ Framing!Fits(file) =>
    \A u \in Units(file) :
      (\E c \in 1 .. Len(calls) : calls[c].start = u.start /\ calls[c].end = u.end)
        <=> u.end + 4 <= Len(file)

\* The loop ends.
Termination == <>(pc = "done")
============================================================================
