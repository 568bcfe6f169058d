-------------------------------- MODULE Book --------------------------------
(***************************************************************************)
(* The book file: its header (otp-book header.rs), its generation          *)
(* (generate.rs), the one validated way to open it and to read a segment   *)
(* (lib.rs), and the offline inspection (inspect.rs).                      *)
(*                                                                         *)
(* One path may lead to a book that was supplied, or to the file a run of  *)
(* "book generate" created there.  A file is a header and the segments     *)
(* written so far; a random segment is a value of its own, Zero is one     *)
(* whose data never reached the disk.                                      *)
(***************************************************************************)
EXTENDS Naturals, FiniteSets, Sequences, SequencesExt

CONSTANTS
    Gens,             \* runs of "book generate", positive numbers; also their book ids
    GenSegments,      \* segments asked of every run
    ChunkSegments,    \* segments of one write; 1024 in generate.rs
    Supplied          \* files that may be at the path to begin with

NoFile == 0             \* what the path leads to when it leads nowhere
SuppliedId == 99        \* the supplied file, and the id in its header
Zero == 0

FileIds == Gens \cup {SuppliedId}

-----------------------------------------------------------------------------
(***************************************************************************)
(* The header.  SHA-256 of the first 96 bytes is the tuple of what they    *)
(* hold: equal exactly when they are.                                      *)
(***************************************************************************)
BOOK_VERSION == 1
SEGMENT_LEN == 64
MAX_SEGMENT_COUNT == 1000       \* 2^40 - 1

Digest(h) == <<h.magic, h.version, h.segment_len, h.segment_count, h.book_id, h.reserved>>

\* BookHeader::encode.
EncodeHeader(id, count) ==
    LET h == [magic |-> "OTPB", version |-> BOOK_VERSION, segment_len |-> SEGMENT_LEN,
              segment_count |-> count, book_id |-> id, reserved |-> 0, hash |-> <<>>]
    IN [h EXCEPT !.hash = Digest(h)]

\* BookHeader::decode: every check must hold, the hash over all of them.
HeaderValid(h) ==
    /\ h.magic = "OTPB"
    /\ h.version = BOOK_VERSION
    /\ h.segment_len = SEGMENT_LEN
    /\ h.segment_count \in 1 .. MAX_SEGMENT_COUNT
    /\ h.reserved = 0
    /\ h.hash = Digest(h)

NoHeader == [magic |-> "", version |-> 0, segment_len |-> 0, segment_count |-> 0,
             book_id |-> 0, reserved |-> 0, hash |-> <<>>]

EmptyFile == [header |-> NoHeader, segs |-> <<>>]

\* generate_book refuses a count that decode would not accept.  A supplied file
\* whose header decodes has the one encode makes for the id it is named after.
ASSUME BookAssumption ==
    /\ Gens \subseteq Nat \ {0} /\ SuppliedId \notin Gens
    /\ GenSegments \in 1 .. MAX_SEGMENT_COUNT
    /\ ChunkSegments \in Nat \ {0}
    /\ \A s \in Supplied :
          /\ s = [header |-> s.header, segs |-> s.segs] /\ s.segs \in Seq(Nat)
          /\ HeaderValid(s.header) =>
                s.header = EncodeHeader(SuppliedId, s.header.segment_count)

\* A random segment: no other is like it.
Random(g, i) == 10 * g + i

-----------------------------------------------------------------------------
VARIABLES
    path,     \* the file the path leads to, or NoFile
    book,     \* book[f]: header and segments of file f
    synced,   \* synced[f]: the file has been fsynced, its entry in the directory too
    gen       \* gen[g]: the next step of run g, or what it returned

bookVars == <<path, book, synced, gen>>

BookInit ==
    /\ \/ path = NoFile /\ book = [f \in FileIds |-> EmptyFile]
       \/ \E s \in Supplied :
            /\ path = SuppliedId
            /\ book = [f \in FileIds |-> IF f = SuppliedId THEN s ELSE EmptyFile]
    /\ synced = [f \in FileIds |->
                   [file |-> f = SuppliedId, dir |-> f = SuppliedId]]
    /\ gen = [g \in Gens |-> "create"]

Failures == {"PathExists", "Io", "Csprng", "Killed"}

\* generate_book: the file is created with O_EXCL, and never over another.
GenCreate(g) ==
    /\ gen[g] = "create"
    /\ \/ /\ path = NoFile
          /\ path' = g
          /\ gen' = [gen EXCEPT ![g] = "header"]
       \/ /\ path # NoFile
          /\ UNCHANGED path
          /\ gen' = [gen EXCEPT ![g] = "PathExists"]
    /\ UNCHANGED <<book, synced>>

\* write_book_body: the header,
GenHeader(g) ==
    /\ gen[g] = "header"
    /\ book' = [book EXCEPT ![g].header = EncodeHeader(g, GenSegments)]
    /\ gen' = [gen EXCEPT ![g] = "chunk"]
    /\ UNCHANGED <<path, synced>>

\* How many segments the next write has.
Remaining(g) == GenSegments - Len(book[g].segs)
ChunkOf(g) == IF Remaining(g) < ChunkSegments THEN Remaining(g) ELSE ChunkSegments

Filled(g, n) ==
    [book EXCEPT ![g].segs = @ \o [i \in 1 .. n |-> Random(g, Len(@) + i)]]

\* then the segments, a chunk at a time.
GenChunk(g) ==
    /\ gen[g] = "chunk"
    /\ book' = Filled(g, ChunkOf(g))
    /\ gen' = [gen EXCEPT ![g] = IF Remaining(g) > ChunkOf(g) THEN "chunk" ELSE "fsync"]
    /\ UNCHANGED <<path, synced>>

\* Mutant of GenFsync: the directory alone is synced.
GenFsyncSkipped(g) ==
    /\ gen[g] = "fsync"
    /\ gen' = [gen EXCEPT ![g] = "fsync_dir"]
    /\ UNCHANGED <<path, book, synced>>

GenFsync(g) ==
    /\ gen[g] = "fsync"
    /\ synced' = [synced EXCEPT ![g].file = TRUE]
    /\ gen' = [gen EXCEPT ![g] = "fsync_dir"]
    /\ UNCHANGED <<path, book>>

GenFsyncDir(g) ==
    /\ gen[g] = "fsync_dir"
    /\ synced' = [synced EXCEPT ![g].dir = TRUE]
    /\ gen' = [gen EXCEPT ![g] = "Ok"]
    /\ UNCHANGED <<path, book>>

\* A write stops half-way, the random source fails, or an fsync does.
GenFails(g) ==
    /\ gen[g] \in {"header", "chunk", "fsync", "fsync_dir"}
    /\ \/ gen[g] # "chunk" /\ UNCHANGED book
       \/ gen[g] = "chunk" /\ \E n \in 0 .. ChunkOf(g) : book' = Filled(g, n)
    /\ gen' = [gen EXCEPT ![g] = "cleanup"]
    /\ UNCHANGED <<path, synced>>

\* cleanup_partial unlinks whatever the path leads to; an unlink that fails is
\* not reported.
GenCleanup(g) ==
    /\ gen[g] = "cleanup"
    /\ path' \in {NoFile, path}
    /\ gen' = [gen EXCEPT ![g] = "Io"]
    /\ UNCHANGED <<book, synced>>

GenKilled(g) ==
    /\ gen[g] \notin {"create", "Ok"} \cup Failures
    /\ gen' = [gen EXCEPT ![g] = "Killed"]
    /\ UNCHANGED <<path, book, synced>>

Generate(g) ==
    \/ GenCreate(g) \/ GenHeader(g) \/ GenChunk(g) \/ GenFsync(g) \/ GenFsyncDir(g)
    \/ GenFails(g) \/ GenCleanup(g) \/ GenKilled(g)

\* What a power loss leaves of a file that was not synced: it may be shorter,
\* its header or any of its segments may be missing.
Remains(f) ==
    IF synced[f].file THEN {book[f]}
    ELSE {[header |-> h, segs |-> [i \in 1 .. n |-> IF i \in kept THEN book[f].segs[i] ELSE Zero]] :
             h \in {NoHeader, book[f].header}, n \in {0, Len(book[f].segs)},
             kept \in {{}, 1 .. Len(book[f].segs)}}

BookPowerLoss ==
    /\ path' \in (IF path = NoFile \/ synced[path].dir THEN {path} ELSE {NoFile, path})
    /\ IF path' = NoFile
       THEN book' = [f \in FileIds |-> EmptyFile]
       ELSE \E r \in Remains(path) :
              book' = [f \in FileIds |-> IF f = path THEN r ELSE EmptyFile]
    /\ gen' = [g \in Gens |->
                 IF gen[g] \in {"create", "Ok"} \cup Failures THEN gen[g] ELSE "Killed"]
    /\ UNCHANGED synced

-----------------------------------------------------------------------------
(***************************************************************************)
(* Reading.                                                                *)
(***************************************************************************)

\* Mutant of Openable: the size of the file is not held against the header.
OpenableUnsized(f) == f # NoFile /\ HeaderValid(book[f].header)

\* open_validated: a valid header, and a file of exactly the size it promises.
Openable(f) ==
    /\ f # NoFile
    /\ HeaderValid(book[f].header)
    /\ Len(book[f].segs) = book[f].header.segment_count

\* Book::read_segment, of a segment number from 0.
ReadSegment(f, i) == book[f].segs[i + 1]

\* Mutant of Inspected: a segment is held against the one before it only.
InspectedNeighbours(segs) ==
    FoldLeft(LAMBDA r, x : [seen  |-> {x},
                            dups  |-> r.dups + (IF x \in r.seen THEN 1 ELSE 0),
                            zeros |-> r.zeros + (IF x = Zero THEN 1 ELSE 0)],
             [seen |-> {}, dups |-> 0, zeros |-> 0], segs)

\* inspect_book: one pass over the segments that remembers the first of each.
Inspected(segs) ==
    FoldLeft(LAMBDA r, x : [seen  |-> r.seen \cup {x},
                            dups  |-> r.dups + (IF x \in r.seen THEN 1 ELSE 0),
                            zeros |-> r.zeros + (IF x = Zero THEN 1 ELSE 0)],
             [seen |-> {}, dups |-> 0, zeros |-> 0], segs)

InspectOk(f) == Inspected(book[f].segs).dups = 0 /\ Inspected(book[f].segs).zeros = 0
=============================================================================
