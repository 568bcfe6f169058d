--------------------------- MODULE SegmentLedger ---------------------------
(***************************************************************************)
(* What a segment allocator promises, whatever crashes, I/O errors and     *)
(* restarts happen behind it: segments leave the book in contiguous ranges,*)
(* each range lies beyond everything that left before, so no segment of    *)
(* one-time-pad material is ever given out twice.  Segments may be skipped *)
(* (fail to waste), never repeated.                                        *)
(***************************************************************************)
EXTENDS Integers

CONSTANT SegmentCount

VARIABLE times    \* times[s]: how often segment s was handed to a caller

Init == times = [s \in 0 .. SegmentCount - 1 |-> 0]

\* A caller receives the range first .. last; nothing at or beyond first
\* was ever handed out before.
Grant(first, last) ==
    /\ first <= last
    /\ \A s \in 0 .. SegmentCount - 1 : s >= first => times[s] = 0
    /\ times' = [s \in 0 .. SegmentCount - 1 |->
                    IF s \in first .. last THEN times[s] + 1 ELSE times[s]]

Next == \E first, last \in 0 .. SegmentCount - 1 : Grant(first, last)

Spec == Init /\ [][Next]_times

\* No segment is handed out twice.
NoReuse == \A s \in 0 .. SegmentCount - 1 : times[s] <= 1
============================================================================
