----------------------------- MODULE MCInstall -----------------------------
(* Two generations of a book of three segments in chunks of two, two runs  *)
(* of anchor init, one server; the path is free, or leads to a book with   *)
(* an equal pair of segments, or to one that must be refused.              *)
EXTENDS Install

Good == EncodeHeader(SuppliedId, 3)
Forged(h) == [h EXCEPT !.hash = Digest(h)]

\* The paths are interchangeable: the first run names them in one order.
MCOrders == {o \in [Runs -> {<<"A", "B">>, <<"B", "A">>}] : o[1] = <<"A", "B">>}

MCSupplied ==
    {[header |-> Good, segs |-> <<5, 6, 5>>],
     [header |-> Good, segs |-> <<5, 6>>],
     [header |-> Good, segs |-> <<5, 6, 7, 8>>],
     [header |-> [Good EXCEPT !.book_id = 1], segs |-> <<5, 6, 7>>],
     [header |-> [Good EXCEPT !.segment_count = 2], segs |-> <<5, 6>>],
     [header |-> Forged([Good EXCEPT !.version = 2]), segs |-> <<5, 6, 7>>],
     [header |-> Forged([Good EXCEPT !.segment_len = 32]), segs |-> <<5, 6, 7>>],
     [header |-> Forged([Good EXCEPT !.reserved = 1]), segs |-> <<5, 6, 7>>],
     [header |-> Forged([Good EXCEPT !.segment_count = 0]), segs |-> <<>>]}
============================================================================
