----------------------------- MODULE NalFraming -----------------------------
(***************************************************************************)
(* What a reader of a byte stream promises, whatever buffer it reads       *)
(* through: it delivers NAL units of the stream that an end code follows,  *)
(* in the order of the stream, each at most once; and as long as every one *)
(* of them fits in its buffer, it skips none.  A unit that ends with the   *)
(* stream is never delivered.                                              *)
(***************************************************************************)
EXTENDS AnnexB

CONSTANTS Files, BufSize

VARIABLES file, delivered

\* Where the reader stands after what it has delivered.
Frontier == IF delivered = <<>> THEN 0 ELSE delivered[Len(delivered)].end

\* No unit that has an end is empty, and each fits in the buffer with the gap before it and
\* the four bytes of its end code and lookahead.
Fits(s) ==
  \A u \in Ended(s) :
    LET before == {v \in Ended(s) : v.end <= u.start}
        from   == Max({0} \cup {v.end : v \in before})
    IN  u.start < u.end /\ u.end + 4 - from <= BufSize

Pending(s, from) == {u \in Ended(s) : u.start >= from /\ u.start < u.end}

Init == file \in Files /\ delivered = <<>>

Deliver ==
  /\ \E u \in Pending(file, Frontier) :
       /\ Fits(file) => \A v \in Pending(file, Frontier) : u.end <= v.end
       /\ delivered' = Append(delivered, u)
  /\ UNCHANGED file

Next == Deliver

Spec == Init /\ [][Next]_<<file, delivered>>
============================================================================
