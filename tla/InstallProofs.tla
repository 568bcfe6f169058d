--------------------------- MODULE InstallProofs ---------------------------
(***************************************************************************)
(* Proofs about the installation of an endpoint, for any number of runs of *)
(* "book generate" and "anchor init", any number of servers and any size   *)
(* of the book and of its chunks.                                          *)
(*                                                                         *)
(* Three invariants, of which the third needs the other two: what a run of *)
(* "book generate" has done at each of its steps (BookInv), which files    *)
(* belong to a run of "anchor init" at each of its steps (AnchorInv), and  *)
(* that servers are only ever on the pair at the paths (ServeInv).         *)
(***************************************************************************)
EXTENDS Install, TLAPS

-----------------------------------------------------------------------------
(* The book.                                                               *)

HeaderSet ==
    {NoHeader} \cup {EncodeHeader(g, GenSegments) : g \in Gens}
               \cup {s.header : s \in Supplied}

GenSteps == {"create", "header", "chunk", "fsync", "fsync_dir", "cleanup", "Ok"} \cup Failures

BookTypes ==
    /\ path \in FileIds \cup {NoFile}
    /\ book \in [FileIds -> [header : HeaderSet, segs : Seq(Nat)]]
    /\ synced \in [FileIds -> [file : BOOLEAN, dir : BOOLEAN]]
    /\ gen \in [Gens -> GenSteps]

\* The first n segments of file g are the random ones of its run.
FilledTo(g, n) ==
    /\ book[g].header = EncodeHeader(g, GenSegments)
    /\ Len(book[g].segs) = n
    /\ \A i \in 1 .. n : book[g].segs[i] = Random(g, i)

\* What run g of "book generate" has done: from its creation to its cleanup the
\* path leads to its file, and nobody else writes to that.
RunInv(g) ==
    /\ gen[g] = "create" => path # g
    /\ gen[g] \in {"header", "chunk", "fsync", "fsync_dir", "cleanup", "Ok"} => path = g
    /\ gen[g] \in {"create", "header"} => book[g] = EmptyFile
    /\ gen[g] = "chunk" =>
          \E n \in 0 .. GenSegments - 1 : FilledTo(g, n)
    /\ gen[g] \in {"fsync", "fsync_dir", "Ok"} => FilledTo(g, GenSegments)
    /\ gen[g] \in {"fsync_dir", "Ok"} => synced[g].file
    /\ gen[g] = "Ok" => synced[g].dir

\* A header is missing, or is the one of the file it is in.
HeaderOf(f) ==
    /\ HeaderValid(book[f].header) =>
          book[f].header = EncodeHeader(f, book[f].header.segment_count)
    /\ f \in Gens => book[f].header \in {NoHeader, EncodeHeader(f, GenSegments)}

BookInv ==
    /\ BookTypes
    /\ \A g \in Gens : RunInv(g)
    /\ \A f \in FileIds : HeaderOf(f)

LEMMA Constants ==
    /\ Gens \subseteq Nat \ {0} /\ SuppliedId \notin Gens /\ NoFile \notin FileIds
    /\ GenSegments \in Nat /\ GenSegments >= 1 /\ GenSegments <= MAX_SEGMENT_COUNT
    /\ ChunkSegments \in Nat /\ ChunkSegments >= 1
    /\ MAX_SEGMENT_COUNT \in Nat
<1>1. /\ Gens \subseteq Nat \ {0} /\ SuppliedId \notin Gens
      /\ GenSegments \in 1 .. MAX_SEGMENT_COUNT /\ ChunkSegments \in Nat \ {0}
  BY BookAssumption
<1>2. MAX_SEGMENT_COUNT \in Nat
  BY DEF MAX_SEGMENT_COUNT
<1>3. NoFile \notin FileIds
  BY <1>1 DEF FileIds, SuppliedId, NoFile
<1> QED
  BY <1>1, <1>2, <1>3

LEMMA Headers ==
    /\ ~HeaderValid(NoHeader)
    /\ \A f : EncodeHeader(f, GenSegments).segment_count = GenSegments
    /\ \A f, n : EncodeHeader(f, n).book_id = f
    /\ \A f : HeaderValid(EncodeHeader(f, GenSegments))
<1>1. ~HeaderValid(NoHeader)
  BY DEF HeaderValid, NoHeader
<1>2. /\ \A f, n : EncodeHeader(f, n).segment_count = n
      /\ \A f, n : EncodeHeader(f, n).book_id = f
  BY DEF EncodeHeader
<1>3. ASSUME NEW f PROVE HeaderValid(EncodeHeader(f, GenSegments))
  <2>1. GenSegments \in 1 .. MAX_SEGMENT_COUNT
    BY BookAssumption
  <2> QED
    BY <2>1 DEF HeaderValid, EncodeHeader, Digest
<1> QED
  BY <1>1, <1>2, <1>3

LEMMA EmptyFileType == EmptyFile \in [header : HeaderSet, segs : Seq(Nat)]
  BY DEF EmptyFile, HeaderSet

LEMMA BookInitHolds == BookInit => BookInv
<1> SUFFICES ASSUME BookInit PROVE BookInv
  OBVIOUS
<1>1. /\ gen = [g \in Gens |-> "create"]
      /\ synced = [f \in FileIds |-> [file |-> f = SuppliedId, dir |-> f = SuppliedId]]
  BY DEF BookInit
<1>2. synced \in [FileIds -> [file : BOOLEAN, dir : BOOLEAN]]
  BY <1>1
<1>3. gen \in [Gens -> GenSteps]
  BY <1>1 DEF GenSteps
<1>4. CASE path = NoFile /\ book = [f \in FileIds |-> EmptyFile]
  <2>1. BookTypes
    BY <1>2, <1>3, <1>4, EmptyFileType DEF BookTypes
  <2>2. ASSUME NEW g \in Gens PROVE RunInv(g)
    BY <1>1, <1>4, Constants DEF RunInv, FileIds
  <2>3. ASSUME NEW f \in FileIds PROVE HeaderOf(f)
    <3>1. book[f].header = NoHeader
      BY <1>4 DEF EmptyFile
    <3> QED
      BY <3>1, Headers DEF HeaderOf
  <2> QED
    BY <2>1, <2>2, <2>3 DEF BookInv
<1>5. ASSUME NEW s \in Supplied, path = SuppliedId,
             book = [f \in FileIds |-> IF f = SuppliedId THEN s ELSE EmptyFile]
      PROVE  BookInv
  <2>1. s \in [header : HeaderSet, segs : Seq(Nat)]
    <3>1. s = [header |-> s.header, segs |-> s.segs] /\ s.segs \in Seq(Nat)
      BY BookAssumption
    <3>2. s.header \in HeaderSet
      BY DEF HeaderSet
    <3> QED
      BY <3>1, <3>2
  <2>2. BookTypes
    BY <1>2, <1>3, <1>5, <2>1, EmptyFileType DEF BookTypes, FileIds
  <2>3. ASSUME NEW g \in Gens PROVE RunInv(g)
    BY <1>1, <1>5, Constants DEF RunInv, FileIds
  <2>4. ASSUME NEW f \in FileIds PROVE HeaderOf(f)
    <3>1. CASE f = SuppliedId
      <4>1. book[f] = s /\ f \notin Gens
        BY <1>5, <3>1, Constants
      <4> QED
        BY <3>1, <4>1, BookAssumption DEF HeaderOf
    <3>2. CASE f # SuppliedId
      <4>1. book[f].header = NoHeader
        BY <1>5, <3>2 DEF EmptyFile
      <4> QED
        BY <4>1, Headers DEF HeaderOf
    <3> QED
      BY <3>1, <3>2
  <2> QED
    BY <2>2, <2>3, <2>4 DEF BookInv
<1> QED
  BY <1>4, <1>5 DEF BookInit

\* A step of run g that leaves the path, the files and the syncs alone keeps
\* the invariant of every other run.
LEMMA OthersRun ==
    ASSUME BookInv, NEW g \in Gens, NEW l \in GenSteps,
           gen' = [gen EXCEPT ![g] = l],
           path' = path,
           \A f \in FileIds : f # g => book'[f] = book[f] /\ synced'[f] = synced[f]
    PROVE  \A h \in Gens : h # g => RunInv(h)'
<1> SUFFICES ASSUME NEW h \in Gens, h # g PROVE RunInv(h)'
  OBVIOUS
<1>1. gen'[h] = gen[h] /\ book'[h] = book[h] /\ synced'[h] = synced[h] /\ RunInv(h)
  BY DEF BookInv, BookTypes, FileIds
<1> QED
  BY <1>1 DEF RunInv, FilledTo

\* What a run appends are its own random segments.
LEMMA Appended ==
    ASSUME BookInv, NEW g \in Gens, NEW m \in Nat, FilledTo(g, m), NEW n \in Nat,
           book' = Filled(g, n)
    PROVE  /\ book' \in [FileIds -> [header : HeaderSet, segs : Seq(Nat)]]
           /\ FilledTo(g, m + n)'
           /\ \A f \in FileIds : f # g => book'[f] = book[f]
<1> DEFINE old == book[g].segs
           add == [i \in 1 .. n |-> Random(g, Len(old) + i)]
<1>1. /\ book \in [FileIds -> [header : HeaderSet, segs : Seq(Nat)]] /\ g \in FileIds
      /\ g \in Nat
  BY Constants DEF BookInv, BookTypes, FileIds
<1>2. old \in Seq(Nat) /\ Len(old) = m /\ \A i \in 1 .. m : old[i] = Random(g, i)
  BY <1>1 DEF FilledTo
<1>3. add \in Seq(Nat) /\ Len(add) = n /\ \A i \in 1 .. n : add[i] = Random(g, m + i)
  <2>1. \A i \in 1 .. n : Random(g, Len(old) + i) \in Nat
    BY <1>1, <1>2 DEF Random
  <2> QED
    BY <1>2, <2>1
<1>4. book' = [book EXCEPT ![g].segs = old \o add]
  BY DEF Filled
<1> HIDE DEF old, add
<1>5. old \o add \in Seq(Nat) /\ Len(old \o add) = m + n
  <2>1. old \o add \in Seq(Nat) /\ Len(old \o add) = Len(old) + Len(add)
    <3>1. old \in Seq(Nat) /\ add \in Seq(Nat)
      BY <1>2, <1>3
    <3> QED
      BY <3>1
  <2> QED
    BY <1>2, <1>3, <2>1
<1>6. ASSUME NEW i \in 1 .. m + n
      PROVE  (old \o add)[i] = Random(g, i)
  <2>1. CASE i \in 1 .. m
    BY <1>2, <1>3, <2>1
  <2>2. CASE i \notin 1 .. m
    <3>1. i - m \in 1 .. n /\ m + (i - m) = i
      BY <2>2
    <3>2. (old \o add)[i] = add[i - m]
      BY <1>2, <1>3, <1>6, <2>2
    <3> QED
      BY <1>3, <3>1, <3>2
  <2> QED
    BY <2>1, <2>2
<1>7. /\ book'[g].segs = old \o add /\ book'[g].header = book[g].header
      /\ book' \in [FileIds -> [header : HeaderSet, segs : Seq(Nat)]]
      /\ \A f \in FileIds : f # g => book'[f] = book[f]
  BY <1>1, <1>4, <1>5
<1> QED
  BY <1>5, <1>6, <1>7 DEF FilledTo

\* generate_book's steps keep what was established for the run.
LEMMA GenerateKeeps ==
    ASSUME BookInv, NEW g \in Gens, Generate(g)
    PROVE  BookInv'
<1>1. BookTypes /\ RunInv(g) /\ g \in FileIds /\ g # NoFile
  BY Constants DEF BookInv, FileIds
<1>2. /\ book \in [FileIds -> [header : HeaderSet, segs : Seq(Nat)]]
      /\ synced \in [FileIds -> [file : BOOLEAN, dir : BOOLEAN]]
      /\ gen \in [Gens -> GenSteps] /\ path \in FileIds \cup {NoFile}
  BY <1>1 DEF BookTypes
<1>3. CASE GenCreate(g)
  <2>1. gen[g] = "create" /\ book' = book /\ synced' = synced
    BY <1>3 DEF GenCreate
  <2>2. CASE path = NoFile
    <3>1. path' = g /\ gen' = [gen EXCEPT ![g] = "header"]
      BY <1>3, <2>2 DEF GenCreate
    <3>2. BookTypes'
      BY <1>1, <1>2, <2>1, <3>1 DEF BookTypes, GenSteps
    <3>3. RunInv(g)'
      BY <1>1, <1>2, <2>1, <3>1 DEF RunInv
    <3>4. ASSUME NEW h \in Gens, h # g PROVE RunInv(h)'
      <4>1. gen'[h] = gen[h] /\ RunInv(h) /\ h # NoFile
        BY <1>2, <3>1, <3>4, Constants DEF BookInv, FileIds
      <4> QED
        BY <2>1, <2>2, <3>1, <3>4, <4>1 DEF RunInv, FilledTo
    <3> QED
      BY <2>1, <3>2, <3>3, <3>4 DEF BookInv, HeaderOf
  <2>3. CASE path # NoFile
    <3>1. path' = path /\ gen' = [gen EXCEPT ![g] = "PathExists"]
      BY <1>3, <2>3 DEF GenCreate
    <3>2. BookTypes'
      BY <1>1, <1>2, <2>1, <3>1 DEF BookTypes, GenSteps, Failures
    <3>3. RunInv(g)'
      BY <1>1, <1>2, <2>1, <3>1 DEF RunInv
    <3>4. \A h \in Gens : h # g => RunInv(h)'
      BY <2>1, <3>1, OthersRun DEF GenSteps, Failures
    <3> QED
      BY <2>1, <3>2, <3>3, <3>4 DEF BookInv, HeaderOf
  <2> QED
    BY <2>2, <2>3
<1>4. CASE GenHeader(g)
  <2>1. /\ gen[g] = "header" /\ path' = path /\ synced' = synced
        /\ book' = [book EXCEPT ![g].header = EncodeHeader(g, GenSegments)]
        /\ gen' = [gen EXCEPT ![g] = "chunk"]
    BY <1>4 DEF GenHeader
  <2>2. EncodeHeader(g, GenSegments) \in HeaderSet
    BY DEF HeaderSet
  <2>3. BookTypes'
    BY <1>1, <1>2, <2>1, <2>2 DEF BookTypes, GenSteps
  <2>4. /\ book'[g].header = EncodeHeader(g, GenSegments) /\ book'[g].segs = book[g].segs
        /\ \A f \in FileIds : f # g => book'[f] = book[f]
    BY <1>1, <1>2, <2>1
  <2>5. book[g].segs = <<>> /\ path = g
    BY <1>1, <2>1 DEF RunInv, EmptyFile
  <2>6. FilledTo(g, 0)' /\ 0 \in 0 .. GenSegments - 1
    BY <2>4, <2>5, Constants DEF FilledTo
  <2>7. RunInv(g)'
    BY <1>2, <2>1, <2>5, <2>6 DEF RunInv
  <2>8. \A h \in Gens : h # g => RunInv(h)'
    BY <2>1, <2>4, OthersRun DEF GenSteps
  <2>9. \A f \in FileIds : HeaderOf(f)'
    <3>1. HeaderOf(g)'
      BY <2>4, Headers DEF HeaderOf
    <3> QED
      BY <2>4, <3>1 DEF BookInv, HeaderOf
  <2> QED
    BY <2>3, <2>7, <2>8, <2>9 DEF BookInv
<1>5. ASSUME NEW n \in 0 .. ChunkOf(g), gen[g] = "chunk", book' = Filled(g, n),
             path' = path, synced' = synced, NEW l \in {"chunk", "fsync", "cleanup"},
             gen' = [gen EXCEPT ![g] = l],
             l = "chunk" => n < Remaining(g),
             l = "fsync" => n = Remaining(g)
      PROVE  BookInv'
  <2>1. PICK m \in 0 .. GenSegments - 1 : FilledTo(g, m)
    BY <1>1, <1>5 DEF RunInv
  <2>2. Remaining(g) = GenSegments - m
    BY <2>1 DEF Remaining, FilledTo
  <2>3. n \in Nat /\ m \in Nat /\ n <= GenSegments - m
    BY <1>5, <2>1, <2>2, Constants DEF ChunkOf
  <2>4. /\ book' \in [FileIds -> [header : HeaderSet, segs : Seq(Nat)]]
        /\ FilledTo(g, m + n)'
        /\ \A f \in FileIds : f # g => book'[f] = book[f]
    BY <1>5, <2>1, <2>3, Appended
  <2>5. BookTypes'
    BY <1>2, <1>5, <2>4 DEF BookTypes, GenSteps
  <2>6. path = g /\ gen'[g] = l
    BY <1>1, <1>2, <1>5 DEF RunInv
  <2>7. l = "chunk" => m + n \in 0 .. GenSegments - 1
    BY <1>5, <2>2, <2>3, Constants
  <2>8. l = "fsync" => m + n = GenSegments
    BY <1>5, <2>2, <2>3, Constants
  <2>9. RunInv(g)'
    BY <1>5, <2>4, <2>6, <2>7, <2>8 DEF RunInv
  <2>10. \A h \in Gens : h # g => RunInv(h)'
    BY <1>5, <2>4, OthersRun DEF GenSteps
  <2>11. \A f \in FileIds : HeaderOf(f)'
    <3>1. HeaderOf(g)'
      BY <2>4, Headers DEF HeaderOf, FilledTo
    <3> QED
      BY <2>4, <3>1 DEF BookInv, HeaderOf
  <2> QED
    BY <2>5, <2>9, <2>10, <2>11 DEF BookInv
<1>6. CASE GenChunk(g)
  <2>1. PICK m \in 0 .. GenSegments - 1 : FilledTo(g, m)
    BY <1>1, <1>6 DEF RunInv, GenChunk
  <2>2. Remaining(g) = GenSegments - m
    BY <2>1 DEF Remaining, FilledTo
  <2>3. /\ ChunkOf(g) \in 0 .. ChunkOf(g) /\ ChunkOf(g) <= Remaining(g)
        /\ ChunkOf(g) \in Nat /\ Remaining(g) \in Nat
    BY <2>1, <2>2, Constants DEF ChunkOf
  <2>4. CASE Remaining(g) > ChunkOf(g)
    BY <1>5, <1>6, <2>3, <2>4 DEF GenChunk
  <2>5. CASE ~(Remaining(g) > ChunkOf(g))
    <3>1. ChunkOf(g) = Remaining(g)
      BY <2>3, <2>5
    <3> QED
      BY <1>5, <1>6, <2>3, <2>5, <3>1 DEF GenChunk
  <2> QED
    BY <2>4, <2>5
<1>7. ASSUME path' = path, book' = book,
             NEW l \in GenSteps, gen' = [gen EXCEPT ![g] = l],
             synced' \in [FileIds -> [file : BOOLEAN, dir : BOOLEAN]],
             \A f \in FileIds : f # g => synced'[f] = synced[f],
             RunInv(g)'
      PROVE  BookInv'
  <2>1. \A h \in Gens : h # g => RunInv(h)'
    BY <1>7, OthersRun
  <2>2. BookTypes'
    BY <1>2, <1>7 DEF BookTypes
  <2> QED
    BY <1>7, <2>1, <2>2 DEF BookInv, HeaderOf
<1>8. CASE GenFsync(g)
  <2>1. /\ gen[g] = "fsync" /\ path' = path /\ book' = book
        /\ synced' = [synced EXCEPT ![g].file = TRUE]
        /\ gen' = [gen EXCEPT ![g] = "fsync_dir"]
    BY <1>8 DEF GenFsync
  <2>2. /\ synced' \in [FileIds -> [file : BOOLEAN, dir : BOOLEAN]] /\ synced'[g].file
        /\ \A f \in FileIds : f # g => synced'[f] = synced[f]
    BY <1>1, <1>2, <2>1
  <2>3. RunInv(g)'
    BY <1>1, <1>2, <2>1, <2>2 DEF RunInv, FilledTo
  <2> QED
    BY <1>7, <2>1, <2>2, <2>3 DEF GenSteps
<1>9. CASE GenFsyncDir(g)
  <2>1. /\ gen[g] = "fsync_dir" /\ path' = path /\ book' = book
        /\ synced' = [synced EXCEPT ![g].dir = TRUE]
        /\ gen' = [gen EXCEPT ![g] = "Ok"]
    BY <1>9 DEF GenFsyncDir
  <2>2. /\ synced' \in [FileIds -> [file : BOOLEAN, dir : BOOLEAN]] /\ synced'[g].dir
        /\ synced'[g].file = synced[g].file
        /\ \A f \in FileIds : f # g => synced'[f] = synced[f]
    BY <1>1, <1>2, <2>1
  <2>3. RunInv(g)'
    BY <1>1, <1>2, <2>1, <2>2 DEF RunInv, FilledTo
  <2> QED
    BY <1>7, <2>1, <2>2, <2>3 DEF GenSteps
<1>10. CASE GenFails(g)
  <2>1. /\ gen[g] \in {"header", "chunk", "fsync", "fsync_dir"} /\ path' = path
        /\ synced' = synced /\ gen' = [gen EXCEPT ![g] = "cleanup"]
    BY <1>10 DEF GenFails
  <2>2. CASE gen[g] # "chunk"
    <3>1. book' = book
      BY <1>10, <2>2 DEF GenFails
    <3>2. RunInv(g)'
      BY <1>1, <1>2, <2>1, <3>1 DEF RunInv
    <3> QED
      BY <1>2, <1>7, <2>1, <3>1, <3>2 DEF GenSteps
  <2>3. CASE gen[g] = "chunk"
    <3>1. PICK n \in 0 .. ChunkOf(g) : book' = Filled(g, n)
      BY <1>10, <2>3 DEF GenFails
    <3> QED
      BY <1>5, <2>1, <2>3, <3>1
  <2> QED
    BY <2>2, <2>3
<1>11. CASE GenCleanup(g)
  <2>1. /\ gen[g] = "cleanup" /\ path' \in {NoFile, path} /\ path = g
        /\ gen' = [gen EXCEPT ![g] = "Io"] /\ book' = book /\ synced' = synced
    BY <1>1, <1>11 DEF GenCleanup, RunInv
  <2>2. BookTypes'
    BY <1>1, <1>2, <2>1 DEF BookTypes, GenSteps, Failures
  <2>3. RunInv(g)'
    BY <1>2, <2>1 DEF RunInv
  <2>4. ASSUME NEW h \in Gens, h # g PROVE RunInv(h)'
    <3>1. gen'[h] = gen[h] /\ RunInv(h) /\ h # NoFile
      BY <1>2, <2>1, <2>4, Constants DEF BookInv, FileIds
    <3> QED
      BY <2>1, <2>4, <3>1 DEF RunInv, FilledTo
  <2> QED
    BY <2>1, <2>2, <2>3, <2>4 DEF BookInv, HeaderOf
<1>12. CASE GenKilled(g)
  <2>1. /\ gen[g] \notin {"create", "Ok"} /\ path' = path /\ book' = book
        /\ synced' = synced /\ gen' = [gen EXCEPT ![g] = "Killed"]
    BY <1>12 DEF GenKilled
  <2>2. RunInv(g)'
    BY <1>2, <2>1 DEF RunInv
  <2> QED
    BY <1>2, <1>7, <2>1, <2>2 DEF GenSteps, Failures
<1> QED
  BY <1>3, <1>4, <1>6, <1>8, <1>9, <1>10, <1>11, <1>12 DEF Generate

\* A power loss leaves a file whole, or with the segments and the header it had
\* or none.
LEMMA RemainsOf ==
    ASSUME BookTypes, NEW f \in FileIds, NEW r \in Remains(f)
    PROVE  /\ r \in [header : HeaderSet, segs : Seq(Nat)]
           /\ r.header \in {NoHeader, book[f].header}
           /\ synced[f].file => r = book[f]
<1>1. /\ book[f] \in [header : HeaderSet, segs : Seq(Nat)]
      /\ book[f].segs \in Seq(Nat) /\ book[f].header \in HeaderSet
  BY DEF BookTypes
<1>2. CASE synced[f].file
  BY <1>1, <1>2 DEF Remains
<1>3. CASE ~synced[f].file
  <2>1. PICK h \in {NoHeader, book[f].header} :
          \E n \in {0, Len(book[f].segs)}, kept \in {{}, 1 .. Len(book[f].segs)} :
            r = [header |-> h,
                 segs |-> [i \in 1 .. n |-> IF i \in kept THEN book[f].segs[i] ELSE Zero]]
    BY <1>3 DEF Remains
  <2>2. PICK n \in {0, Len(book[f].segs)} : \E kept \in {{}, 1 .. Len(book[f].segs)} :
            r = [header |-> h,
                 segs |-> [i \in 1 .. n |-> IF i \in kept THEN book[f].segs[i] ELSE Zero]]
    BY <2>1
  <2>3. PICK kept \in {{}, 1 .. Len(book[f].segs)} :
            r = [header |-> h,
                 segs |-> [i \in 1 .. n |-> IF i \in kept THEN book[f].segs[i] ELSE Zero]]
    BY <2>2
  <2> DEFINE q == [i \in 1 .. n |-> IF i \in kept THEN book[f].segs[i] ELSE Zero]
  <2>4. n \in Nat /\ h \in HeaderSet
    BY <1>1 DEF HeaderSet
  <2>5. \A i \in 1 .. n : (IF i \in kept THEN book[f].segs[i] ELSE Zero) \in Nat
    BY <1>1, <2>3 DEF Zero
  <2>6. q \in Seq(Nat)
    BY <2>4, <2>5
  <2>7. r = [header |-> h, segs |-> q]
    BY <2>3
  <2> HIDE DEF q
  <2> QED
    BY <1>3, <2>1, <2>4, <2>6, <2>7
<1> QED
  BY <1>2, <1>3

LEMMA BookPowerLossKeeps ==
    ASSUME BookInv, BookPowerLoss
    PROVE  BookInv'
<1>1. BookTypes /\ path \in FileIds \cup {NoFile}
  BY DEF BookInv, BookTypes
<1>2. /\ synced' = synced
      /\ gen' = [g \in Gens |->
                   IF gen[g] \in {"create", "Ok"} \cup Failures THEN gen[g] ELSE "Killed"]
  BY DEF BookPowerLoss
<1>3. gen' \in [Gens -> GenSteps]
  BY <1>1, <1>2 DEF BookTypes, GenSteps, Failures
<1>4. ASSUME NEW g \in Gens
      PROVE  /\ gen'[g] \in {"create", "Ok"} \cup Failures
             /\ gen'[g] = "create" => gen[g] = "create"
             /\ gen'[g] = "Ok" => gen[g] = "Ok"
  BY <1>2 DEF Failures
<1>5. ASSUME NEW g \in Gens, gen[g] = "Ok"
      PROVE  path' = g /\ path = g
  <2>1. path = g /\ synced[g].dir
    BY <1>5 DEF BookInv, RunInv
  <2> QED
    BY <2>1 DEF BookPowerLoss
<1>6. CASE path' = NoFile
  <2>1. book' = [f \in FileIds |-> EmptyFile]
    BY <1>6 DEF BookPowerLoss
  <2>2. BookTypes'
    BY <1>1, <1>2, <1>3, <1>6, <2>1, EmptyFileType DEF BookTypes
  <2>3. ASSUME NEW g \in Gens PROVE RunInv(g)'
    <3>1. g # NoFile /\ g \in FileIds
      BY Constants DEF FileIds
    <3>2. gen[g] # "Ok"
      BY <1>5, <1>6, <3>1
    <3>3. gen'[g] \in {"create"} \cup Failures
      BY <1>4, <3>2
    <3> QED
      BY <1>6, <2>1, <3>1, <3>3 DEF RunInv, Failures
  <2>4. ASSUME NEW f \in FileIds PROVE HeaderOf(f)'
    <3>1. book'[f].header = NoHeader
      BY <2>1 DEF EmptyFile
    <3> QED
      BY <3>1, Headers DEF HeaderOf
  <2> QED
    BY <2>2, <2>3, <2>4 DEF BookInv
<1>7. CASE path' # NoFile
  <2>1. path' = path /\ path \in FileIds
    BY <1>1, <1>7 DEF BookPowerLoss
  <2>2. PICK r \in Remains(path) :
           book' = [f \in FileIds |-> IF f = path THEN r ELSE EmptyFile]
    BY <1>7 DEF BookPowerLoss
  <2>3. /\ r \in [header : HeaderSet, segs : Seq(Nat)]
        /\ r.header \in {NoHeader, book[path].header}
        /\ synced[path].file => r = book[path]
    BY <1>1, <2>1, <2>2, RemainsOf
  <2>4. BookTypes'
    BY <1>1, <1>2, <1>3, <2>1, <2>2, <2>3, EmptyFileType DEF BookTypes
  <2>5. ASSUME NEW g \in Gens PROVE RunInv(g)'
    <3>1. RunInv(g) /\ g \in FileIds
      BY DEF BookInv, FileIds
    <3>2. CASE gen[g] = "Ok"
      <4>1. path = g /\ synced[g].file /\ synced[g].dir /\ FilledTo(g, GenSegments)
        BY <3>1, <3>2 DEF RunInv
      <4>2. book'[g] = book[g]
        BY <2>2, <2>3, <3>1, <4>1
      <4>3. FilledTo(g, GenSegments)'
        BY <4>1, <4>2 DEF FilledTo
      <4>4. gen'[g] = "Ok"
        BY <1>2, <3>2
      <4> QED
        BY <1>2, <2>1, <4>1, <4>3, <4>4 DEF RunInv
    <3>3. CASE gen[g] = "create"
      <4>1. path # g /\ gen'[g] = "create"
        BY <1>2, <3>1, <3>3 DEF RunInv
      <4> QED
        BY <2>1, <2>2, <3>1, <4>1 DEF RunInv
    <3>4. CASE gen[g] \notin {"Ok", "create"}
      <4>1. gen'[g] \in Failures
        BY <1>4, <3>4
      <4> QED
        BY <4>1 DEF RunInv, Failures
    <3> QED
      BY <3>2, <3>3, <3>4
  <2>6. ASSUME NEW f \in FileIds PROVE HeaderOf(f)'
    <3>1. book'[f].header \in {NoHeader, book[f].header}
      BY <2>2, <2>3 DEF EmptyFile
    <3> QED
      BY <3>1, Headers DEF BookInv, HeaderOf
  <2> QED
    BY <2>4, <2>5, <2>6 DEF BookInv
<1> QED
  BY <1>6, <1>7

\* The steps of the anchors and of the servers do not write the book.
LEMMA BookSteps ==
    ASSUME BookInv, [InstallNext]_allVars
    PROVE  BookInv'
<1>1. CASE \E g \in Gens : GenerateRun(g)
  BY <1>1, GenerateKeeps DEF GenerateRun
<1>2. CASE InstallPowerLoss
  BY <1>2, BookPowerLossKeeps DEF InstallPowerLoss
<1>3. CASE UNCHANGED bookVars
  <2>1. path' = path /\ book' = book /\ synced' = synced /\ gen' = gen
    BY <1>3 DEF bookVars
  <2> QED
    BY <2>1 DEF BookInv, BookTypes, RunInv, FilledTo, HeaderOf
<1> QED
  BY <1>1, <1>2, <1>3 DEF InstallNext, BeginInit, AnchorRun, StartServer,
                          IssueFromBook, StopServer, allVars

\* Whatever commands and power losses come in between, the book invariant holds.
THEOREM BookInvariance == InstallSpec => []BookInv
<1>1. InstallInit => BookInv
  BY BookInitHolds DEF InstallInit
<1>2. BookInv /\ [InstallNext]_allVars => BookInv'
  BY BookSteps
<1> QED
  BY <1>1, <1>2, PTL DEF InstallSpec

\* A book whose generation returned success stays at the path, whole and random:
\* no other run's cleanup and no power loss takes anything from it.
THEOREM GeneratedHolds == InstallSpec => []GeneratedIsDurable
<1>1. BookInv => GeneratedIsDurable
  <2> SUFFICES ASSUME BookInv, NEW g \in Gens, gen[g] = "Ok"
               PROVE  /\ path = g
                      /\ Openable(g)
                      /\ \A i \in 0 .. GenSegments - 1 :
                            ReadSegment(g, i) = Random(g, i + 1)
    BY DEF GeneratedIsDurable
  <2>1. path = g /\ FilledTo(g, GenSegments) /\ g # NoFile
    BY Constants DEF BookInv, RunInv, FileIds
  <2>2. Openable(g)
    BY <2>1, Headers DEF Openable, FilledTo
  <2>3. ASSUME NEW i \in 0 .. GenSegments - 1
        PROVE  ReadSegment(g, i) = Random(g, i + 1)
    <3>1. i + 1 \in 1 .. GenSegments
      BY <2>3, Constants
    <3> QED
      BY <2>1, <3>1 DEF ReadSegment, FilledTo
  <2> QED
    BY <2>1, <2>2, <2>3
<1> QED
  BY <1>1, BookInvariance, PTL

-----------------------------------------------------------------------------
(* The anchors.                                                            *)

InitSteps ==
    {"check1", "check2", "create1", "write1", "create2", "write2", "verify1",
     "verify2", "cleanup1", "cleanupBoth", "done"}

Results ==
    {"none", "AnchorExists", "Io", "Ok", "VerifyFailed", "CleanupFailed", "Killed"}

AnchorTypes ==
    /\ file \in [Paths -> Runs \cup {Absent}]
    /\ content \in [Runs -> [Paths -> Nat \cup {Unreadable}]]
    /\ args \in [Runs -> {<<"A", "B">>, <<"B", "A">>}]
    /\ pc \in [Runs -> InitSteps]
    /\ result \in [Runs -> Results]
    /\ srv \in [Servers -> [on : [Paths -> Runs \cup {Absent}], next : Nat]]
    /\ issued \in [0 .. SegmentCount - 1 -> Nat]
    /\ bookOf \in [Runs -> FileIds \cup {NoFile}]
    /\ reads \in [Servers -> FileIds \cup {NoFile}]

\* The steps at which a run has created the first file, and both.
HoldsFirst == {"write1", "create2", "write2", "verify1", "verify2", "cleanup1", "cleanupBoth"}
HoldsBoth == {"write2", "verify1", "verify2", "cleanupBoth"}

\* A run removes only what it has created, and returns Ok only when both of its
\* files are readable.
OwnInv(i) ==
    /\ pc[i] # "check1" => bookOf[i] # NoFile
    /\ pc[i] \in HoldsFirst => file[Path(i, 1)] = i
    /\ pc[i] \in HoldsBoth => file[Path(i, 2)] = i
    /\ pc[i] \in {"create2", "write2", "verify1", "verify2"} =>
          content[i][Path(i, 1)] # Unreadable
    /\ pc[i] \in {"verify1", "verify2"} => content[i][Path(i, 2)] # Unreadable
    /\ result[i] = "Ok" =>
          /\ pc[i] = "done"
          /\ \A p \in Paths : file[p] = i /\ content[i][p] # Unreadable

AnchorInv == AnchorTypes /\ \A i \in Runs : OwnInv(i)

-----------------------------------------------------------------------------
(* The servers, when none is started while a run of "anchor init" is going *)
(* on.                                                                     *)

\* No run is past its first check, and the paths lead to a readable pair: from
\* here on no run gets past its first check.
Settled ==
    /\ \A i \in Runs : pc[i] \in {"check1", "done"}
    /\ \A p \in Paths : file[p] # Absent /\ content[file[p]][p] # Unreadable

\* Both files hold the number of segments issued, which are the first ones.
Ledger ==
    \/ /\ \A i \in Runs, p \in Paths : content[i][p] \in {Unreadable, 0}
       /\ \A n \in DOMAIN issued : issued[n] = 0
    \/ /\ Settled
       /\ \E k \in 0 .. SegmentCount :
             /\ \A p \in Paths : content[file[p]][p] = k
             /\ \A n \in DOMAIN issued : issued[n] = IF n < k THEN 1 ELSE 0

\* A running server is the only one, on the files at the paths, and the book it
\* has opened will not change any more.
Serving(s) ==
    /\ Settled
    /\ \A t \in Servers : srv[t] # Down => t = s
    /\ srv[s].on = file
    /\ \A p \in Paths : srv[s].next = content[file[p]][p]
    /\ reads[s] \in FileIds /\ Openable(reads[s])
    /\ reads[s] \in Gens => gen[reads[s]] \notin {"create", "header", "chunk"}
    /\ \A p \in Paths : bookOf[file[p]] = reads[s]

ServeInv == Ledger /\ \A s \in Servers : srv[s] # Down => Serving(s)

-----------------------------------------------------------------------------
(* The steps of "anchor init".                                             *)

LEMMA AnchorConstants ==
    /\ Absent \notin Runs /\ Unreadable \notin Nat /\ 0 \in Nat /\ 0 # Unreadable
    /\ SegmentCount \in Nat /\ NoFile \notin FileIds
  BY AnchorInitAssumption, Constants DEF Absent, Unreadable

\* The two paths of a run are the two paths.
LEMMA PathsOf ==
    ASSUME AnchorTypes, NEW i \in Runs
    PROVE  /\ Path(i, 1) \in Paths /\ Path(i, 2) \in Paths /\ Path(i, 1) # Path(i, 2)
           /\ \A p \in Paths : p = Path(i, 1) \/ p = Path(i, 2)
<1>1. args[i] = <<"A", "B">> \/ args[i] = <<"B", "A">>
  BY DEF AnchorTypes
<1>2. CASE args[i] = <<"A", "B">>
  BY <1>2 DEF Path, Paths
<1>3. CASE args[i] = <<"B", "A">>
  BY <1>3 DEF Path, Paths
<1> QED
  BY <1>1, <1>2, <1>3

\* What a run leaves alone: the other runs, their files and the servers.
Undisturbed(i) ==
    /\ args' = args /\ srv' = srv /\ issued' = issued
    /\ bookOf' = bookOf /\ reads' = reads
    /\ \A j \in Runs : j # i => /\ pc'[j] = pc[j] /\ result'[j] = result[j]
                                /\ content'[j] = content[j]
    /\ \A p \in Paths : file[p] \notin {i, Absent} => file'[p] = file[p]

LEMMA RunKeeps ==
    ASSUME AnchorInv, NEW i \in Runs, Undisturbed(i),
           pc' \in [Runs -> InitSteps], result' \in [Runs -> Results],
           file' \in [Paths -> Runs \cup {Absent}],
           content' \in [Runs -> [Paths -> Nat \cup {Unreadable}]],
           OwnInv(i)'
    PROVE  AnchorInv'
<1>1. AnchorTypes'
  BY DEF AnchorInv, AnchorTypes, Undisturbed
<1>2. ASSUME NEW j \in Runs, j # i PROVE OwnInv(j)'
  <2>1. /\ OwnInv(j) /\ pc'[j] = pc[j] /\ result'[j] = result[j] /\ content'[j] = content[j]
        /\ bookOf' = bookOf /\ j # Absent
        /\ \A p \in Paths : file[p] = j => file'[p] = j
    BY <1>2, AnchorConstants DEF AnchorInv, Undisturbed
  <2>2. /\ Path(j, 1) \in Paths /\ Path(j, 2) \in Paths
        /\ Path(j, 1)' = Path(j, 1) /\ Path(j, 2)' = Path(j, 2)
    BY PathsOf DEF AnchorInv, Path, Undisturbed
  <2> QED
    BY <2>1, <2>2 DEF OwnInv
<1> QED
  BY <1>1, <1>2 DEF AnchorInv

\* Where a step takes the run.
LEMMA Going ==
    ASSUME AnchorInv, NEW i \in Runs, NEW l \in InitSteps,
           Goto(i, l)
    PROVE  /\ pc' \in [Runs -> InitSteps] /\ pc'[i] = l /\ result' = result
           /\ result \in [Runs -> Results]
           /\ \A j \in Runs : j # i => pc'[j] = pc[j]
  BY DEF AnchorInv, AnchorTypes, Goto

LEMMA Returning ==
    ASSUME AnchorInv, NEW i \in Runs, NEW r \in Results,
           Return(i, r)
    PROVE  /\ pc' \in [Runs -> InitSteps] /\ pc'[i] = "done"
           /\ result' \in [Runs -> Results] /\ result'[i] = r
           /\ \A j \in Runs : j # i => pc'[j] = pc[j] /\ result'[j] = result[j]
  BY DEF AnchorInv, AnchorTypes, Return, InitSteps

\* A run that returns something else than Ok claims nothing.
LEMMA GivingUp ==
    ASSUME AnchorInv, NEW i \in Runs, pc[i] # "check1" \/ bookOf[i] # NoFile,
           NEW r \in Results, r # "Ok",
           Return(i, r), args' = args, srv' = srv, issued' = issued, bookOf' = bookOf,
           reads' = reads,
           file' \in [Paths -> Runs \cup {Absent}],
           content' \in [Runs -> [Paths -> Nat \cup {Unreadable}]],
           \A j \in Runs : j # i => content'[j] = content[j],
           \A p \in Paths : file[p] \notin {i, Absent} => file'[p] = file[p]
    PROVE  AnchorInv'
<1>1. /\ pc' \in [Runs -> InitSteps] /\ pc'[i] = "done"
      /\ result' \in [Runs -> Results] /\ result'[i] = r
      /\ \A j \in Runs : j # i => pc'[j] = pc[j] /\ result'[j] = result[j]
  BY Returning
<1>2. bookOf[i] # NoFile
  BY DEF AnchorInv, OwnInv
<1>3. OwnInv(i)'
  BY <1>1, <1>2 DEF OwnInv, HoldsFirst, HoldsBoth
<1>4. Undisturbed(i)
  BY <1>1 DEF Undisturbed
<1> QED
  BY <1>1, <1>3, <1>4, RunKeeps

LEMMA InitRunKeeps ==
    ASSUME AnchorInv, NEW i \in Runs, AnchorRun(i)
    PROVE  AnchorInv'
<1>1. AnchorTypes /\ OwnInv(i) /\ bookOf[i] # NoFile /\ InitRun(i)
  BY DEF AnchorInv, AnchorRun
<1>2. bookOf' = bookOf /\ reads' = reads
  BY DEF AnchorRun
<1>3. /\ file \in [Paths -> Runs \cup {Absent}]
      /\ content \in [Runs -> [Paths -> Nat \cup {Unreadable}]]
      /\ result \in [Runs -> Results]
  BY <1>1 DEF AnchorTypes
<1>4. /\ Path(i, 1) \in Paths /\ Path(i, 2) \in Paths /\ Path(i, 1) # Path(i, 2)
      /\ \A p \in Paths : p = Path(i, 1) \/ p = Path(i, 2)
  BY <1>1, PathsOf
<1>5. ASSUME args' = args PROVE Path(i, 1)' = Path(i, 1) /\ Path(i, 2)' = Path(i, 2)
  BY <1>5 DEF Path
<1>6. i # Absent
  BY AnchorConstants
<1>7. ASSUME pc[i] # "done", Return(i, "AnchorExists"), UNCHANGED <<file, content, args, srv, issued>>
      PROVE  AnchorInv'
  BY <1>1, <1>2, <1>3, <1>7, GivingUp DEF Results
<1>8. ASSUME result[i] = "Ok" PROVE pc[i] = "done"
  BY <1>1, <1>8 DEF OwnInv
<1>9. ASSUME NEW l \in InitSteps, l # "done", pc[i] # "done", Goto(i, l),
             UNCHANGED <<args, srv, issued>>,
             file' \in [Paths -> Runs \cup {Absent}],
             content' \in [Runs -> [Paths -> Nat \cup {Unreadable}]],
             \A j \in Runs : j # i => content'[j] = content[j],
             \A p \in Paths : file[p] \notin {i, Absent} => file'[p] = file[p],
             l \in HoldsFirst => file'[Path(i, 1)] = i,
             l \in HoldsBoth => file'[Path(i, 2)] = i,
             l \in {"create2", "write2", "verify1", "verify2"} =>
                content'[i][Path(i, 1)] # Unreadable,
             l \in {"verify1", "verify2"} => content'[i][Path(i, 2)] # Unreadable
      PROVE  AnchorInv'
  <2>1. /\ pc' \in [Runs -> InitSteps] /\ pc'[i] = l /\ result' = result
        /\ \A j \in Runs : j # i => pc'[j] = pc[j]
    BY <1>9, Going
  <2>2. result'[i] # "Ok"
    BY <1>8, <1>9, <2>1
  <2>3. Path(i, 1)' = Path(i, 1) /\ Path(i, 2)' = Path(i, 2)
    BY <1>5, <1>9
  <2>4. OwnInv(i)'
    BY <1>1, <1>2, <1>9, <2>1, <2>2, <2>3 DEF OwnInv
  <2>5. Undisturbed(i)
    BY <1>2, <1>9, <2>1 DEF Undisturbed
  <2> QED
    BY <1>3, <1>9, <2>1, <2>4, <2>5, RunKeeps
<1>10. ASSUME NEW n \in {1, 2}, Check(i, n) PROVE AnchorInv'
  <2>1. /\ pc[i] \in {"check1", "check2"} /\ UNCHANGED <<file, content, args, srv, issued>>
        /\ \/ Return(i, "AnchorExists")
           \/ \E l \in {"check2", "create1"} : Goto(i, l)
    BY <1>10 DEF Check
  <2>2. CASE Return(i, "AnchorExists")
    BY <1>7, <2>1, <2>2
  <2>3. ASSUME NEW l \in {"check2", "create1"}, Goto(i, l) PROVE AnchorInv'
    BY <1>3, <1>9, <2>1, <2>3 DEF InitSteps, HoldsFirst, HoldsBoth
  <2> QED
    BY <2>1, <2>2, <2>3
<1>11. ASSUME Create(i, 1) PROVE AnchorInv'
  <2>1. pc[i] = "create1" /\ UNCHANGED <<content, args, srv, issued>>
    BY <1>11 DEF Create
  <2>2. CASE file[Path(i, 1)] = Absent
    <3>1. file' = [file EXCEPT ![Path(i, 1)] = i] /\ Goto(i, "write1")
      BY <1>11, <2>2 DEF Create
    <3>2. /\ file' \in [Paths -> Runs \cup {Absent}] /\ file'[Path(i, 1)] = i
          /\ \A p \in Paths : file[p] \notin {i, Absent} => file'[p] = file[p]
      BY <1>3, <1>4, <2>2, <3>1
    <3> QED
      BY <1>3, <1>9, <2>1, <3>1, <3>2 DEF InitSteps, HoldsFirst, HoldsBoth
  <2>3. CASE file[Path(i, 1)] # Absent
    BY <1>7, <1>11, <2>1, <2>3 DEF Create
  <2> QED
    BY <2>2, <2>3
<1>12. ASSUME Create(i, 2) PROVE AnchorInv'
  <2>1. /\ pc[i] = "create2" /\ UNCHANGED <<content, args, srv, issued>>
        /\ file[Path(i, 1)] = i /\ content[i][Path(i, 1)] # Unreadable
    BY <1>1, <1>12 DEF Create, OwnInv, HoldsFirst
  <2>2. CASE file[Path(i, 2)] = Absent
    <3>1. file' = [file EXCEPT ![Path(i, 2)] = i] /\ Goto(i, "write2")
      BY <1>12, <2>2 DEF Create
    <3>2. /\ file' \in [Paths -> Runs \cup {Absent}] /\ file'[Path(i, 2)] = i
          /\ file'[Path(i, 1)] = i
          /\ \A p \in Paths : file[p] \notin {i, Absent} => file'[p] = file[p]
      BY <1>3, <1>4, <2>1, <2>2, <3>1
    <3> QED
      BY <1>3, <1>9, <2>1, <3>1, <3>2 DEF InitSteps, HoldsFirst, HoldsBoth
  <2>3. CASE file[Path(i, 2)] # Absent
    <3>1. file' = file /\ Goto(i, "cleanup1")
      BY <1>12, <2>3 DEF Create
    <3> QED
      BY <1>3, <1>9, <2>1, <3>1 DEF InitSteps, HoldsFirst, HoldsBoth
  <2> QED
    BY <2>2, <2>3
<1>13. ASSUME NEW p \in Paths, NEW v \in {Unreadable, 0},
              content' = [content EXCEPT ![i][p] = v]
       PROVE  /\ content' \in [Runs -> [Paths -> Nat \cup {Unreadable}]]
              /\ content'[i][p] = v
              /\ \A q \in Paths : q # p => content'[i][q] = content[i][q]
              /\ \A j \in Runs : j # i => content'[j] = content[j]
  BY <1>3, <1>13, AnchorConstants
<1>14. ASSUME Write(i, 1) PROVE AnchorInv'
  <2>1. /\ pc[i] = "write1" /\ UNCHANGED <<file, args, srv, issued>> /\ Goto(i, "create2")
        /\ content' = [content EXCEPT ![i][Path(i, 1)] = 0]
        /\ file[Path(i, 1)] = i
    BY <1>1, <1>14 DEF Write, OwnInv, HoldsFirst
  <2>2. /\ content' \in [Runs -> [Paths -> Nat \cup {Unreadable}]]
        /\ content'[i][Path(i, 1)] # Unreadable
        /\ \A j \in Runs : j # i => content'[j] = content[j]
    BY <1>4, <1>13, <2>1, AnchorConstants
  <2> QED
    BY <1>3, <1>9, <2>1, <2>2 DEF InitSteps, HoldsFirst, HoldsBoth
<1>15. ASSUME Write(i, 2) PROVE AnchorInv'
  <2>1. /\ pc[i] = "write2" /\ UNCHANGED <<file, args, srv, issued>> /\ Goto(i, "verify1")
        /\ content' = [content EXCEPT ![i][Path(i, 2)] = 0]
        /\ file[Path(i, 1)] = i /\ file[Path(i, 2)] = i
        /\ content[i][Path(i, 1)] # Unreadable
    BY <1>1, <1>15 DEF Write, OwnInv, HoldsFirst, HoldsBoth
  <2>2. /\ content' \in [Runs -> [Paths -> Nat \cup {Unreadable}]]
        /\ content'[i][Path(i, 2)] # Unreadable
        /\ content'[i][Path(i, 1)] # Unreadable
        /\ \A j \in Runs : j # i => content'[j] = content[j]
    BY <1>4, <1>13, <2>1, AnchorConstants
  <2> QED
    BY <1>3, <1>9, <2>1, <2>2 DEF InitSteps, HoldsFirst, HoldsBoth
<1>16. ASSUME NEW n \in {1, 2}, WriteFails(i, n) PROVE AnchorInv'
  <2>1. PICK v \in {Unreadable, 0} : content' = [content EXCEPT ![i][Path(i, n)] = v]
    BY <1>16 DEF WriteFails
  <2>2. /\ content' \in [Runs -> [Paths -> Nat \cup {Unreadable}]]
        /\ \A j \in Runs : j # i => content'[j] = content[j]
    BY <1>4, <1>13, <2>1
  <2>3. UNCHANGED <<file, args, srv, issued>> /\ pc[i] \in {"write1", "write2"}
    BY <1>16 DEF WriteFails
  <2>4. file[Path(i, 1)] = i
    BY <1>1, <2>3 DEF OwnInv, HoldsFirst
  <2>5. CASE n = 1
    <3>1. Return(i, "Io")
      BY <1>16, <2>5 DEF WriteFails
    <3> QED
      BY <1>1, <1>2, <1>3, <2>2, <2>3, <3>1, GivingUp DEF Results
  <2>6. CASE n = 2
    <3>1. Goto(i, "cleanup1")
      BY <1>16, <2>6 DEF WriteFails
    <3> QED
      BY <1>3, <1>9, <2>2, <2>3, <2>4, <3>1 DEF InitSteps, HoldsFirst, HoldsBoth
  <2> QED
    BY <2>5, <2>6
<1>17. ASSUME NEW n \in {1, 2}, Verify(i, n) PROVE AnchorInv'
  <2>1. pc[i] \in {"verify1", "verify2"} /\ UNCHANGED <<file, content, args, srv, issued>>
    BY <1>17 DEF Verify
  <2>2. /\ file[Path(i, 1)] = i /\ file[Path(i, 2)] = i
        /\ content[i][Path(i, 1)] # Unreadable /\ content[i][Path(i, 2)] # Unreadable
    BY <1>1, <2>1 DEF OwnInv, HoldsFirst, HoldsBoth
  <2>3. ASSUME NEW l \in {"verify2", "cleanupBoth"}, Goto(i, l) PROVE AnchorInv'
    BY <1>3, <1>9, <2>1, <2>2, <2>3 DEF InitSteps, HoldsFirst, HoldsBoth
  <2>4. ASSUME Return(i, "Ok") PROVE AnchorInv'
    <3>1. /\ pc' \in [Runs -> InitSteps] /\ pc'[i] = "done"
          /\ result' \in [Runs -> Results] /\ result'[i] = "Ok"
          /\ \A j \in Runs : j # i => pc'[j] = pc[j] /\ result'[j] = result[j]
      BY <2>4, Returning DEF Results
    <3>2. \A p \in Paths : file'[p] = i /\ content'[i][p] # Unreadable
      BY <1>4, <2>1, <2>2
    <3>3. OwnInv(i)'
      BY <1>1, <1>2, <3>1, <3>2 DEF OwnInv, HoldsFirst, HoldsBoth
    <3>4. Undisturbed(i)
      BY <1>2, <2>1, <3>1 DEF Undisturbed
    <3> QED
      BY <1>3, <2>1, <3>1, <3>3, <3>4, RunKeeps
  <2> QED
    BY <1>17, <2>3, <2>4 DEF Verify
<1>18. ASSUME Cleanup(i) PROVE AnchorInv'
  <2>1. /\ pc[i] \in {"cleanup1", "cleanupBoth"} /\ UNCHANGED <<content, args, srv, issued>>
        /\ file[Path(i, 1)] = i
        /\ pc[i] = "cleanupBoth" => file[Path(i, 2)] = i
    BY <1>1, <1>18 DEF Cleanup, OwnInv, HoldsFirst, HoldsBoth
  <2>2. \E r \in {"Io", "VerifyFailed", "CleanupFailed"} : Return(i, r)
    BY <1>18 DEF Cleanup
  <2>3. /\ file' \in [Paths -> Runs \cup {Absent}]
        /\ \A p \in Paths : file[p] \notin {i, Absent} => file'[p] = file[p]
    <3>1. CASE file' = [p \in Paths |-> IF p = Path(i, 1) \/ pc[i] = "cleanupBoth"
                                        THEN Absent ELSE file[p]]
      <4>1. file' \in [Paths -> Runs \cup {Absent}]
        BY <1>3, <3>1
      <4>2. ASSUME NEW p \in Paths, file[p] \notin {i, Absent}
            PROVE  file'[p] = file[p]
        <5>1. p # Path(i, 1) /\ pc[i] # "cleanupBoth"
          BY <1>4, <2>1, <4>2
        <5> QED
          BY <3>1, <5>1
      <4> QED
        BY <4>1, <4>2
    <3>2. CASE file' = file
      BY <1>3, <3>2
    <3>3. CASE file' = [file EXCEPT ![Path(i, 1)] = Absent]
      BY <1>3, <2>1, <3>3
    <3> QED
      BY <1>18, <3>1, <3>2, <3>3 DEF Cleanup
  <2> QED
    BY <1>1, <1>2, <1>3, <2>1, <2>2, <2>3, GivingUp DEF Results
<1>19. ASSUME Killed(i) PROVE AnchorInv'
  BY <1>1, <1>2, <1>3, <1>19, GivingUp DEF Killed, Results
<1> QED
  BY <1>1, <1>10, <1>11, <1>12, <1>14, <1>15, <1>16, <1>17, <1>18, <1>19 DEF InitRun

-----------------------------------------------------------------------------
(* The other steps, as the anchors see them.                               *)

\* A book that can be opened has the id of its file.
LEMMA OpenedId ==
    ASSUME BookInv, NEW f \in FileIds \cup {NoFile}, Openable(f)
    PROVE  /\ f \in FileIds /\ book[f].header.book_id = f
           /\ book[f].header = EncodeHeader(f, Len(book[f].segs))
<1>1. f \in FileIds /\ HeaderValid(book[f].header)
      /\ Len(book[f].segs) = book[f].header.segment_count
  BY DEF Openable
<1>2. book[f].header = EncodeHeader(f, book[f].header.segment_count)
  BY <1>1 DEF BookInv, HeaderOf
<1>3. EncodeHeader(f, book[f].header.segment_count).book_id = f
  BY Headers
<1> QED
  BY <1>1, <1>2, <1>3

LEMMA BeginKeeps ==
    ASSUME BookInv, AnchorInv, NEW i \in Runs, BeginInit(i)
    PROVE  AnchorInv' /\ bookOf'[i] \in FileIds /\ bookOf[i] = NoFile
<1>1. /\ file' = file /\ content' = content /\ args' = args /\ pc' = pc
      /\ result' = result /\ srv' = srv /\ issued' = issued /\ reads' = reads
      /\ Openable(path) /\ bookOf[i] = NoFile
      /\ bookOf' = [bookOf EXCEPT ![i] = book[path].header.book_id]
  BY DEF BeginInit, vars
<1>2. book[path].header.book_id \in FileIds
  BY <1>1, OpenedId DEF BookInv, BookTypes
<1>3. AnchorTypes'
  BY <1>1, <1>2 DEF AnchorInv, AnchorTypes
<1>4. bookOf \in [Runs -> FileIds \cup {NoFile}]
  BY DEF AnchorInv, AnchorTypes
<1>5. \A j \in Runs : bookOf[j] # NoFile => bookOf'[j] # NoFile
  BY <1>1, <1>2, <1>4, AnchorConstants
<1>6. ASSUME NEW j \in Runs PROVE OwnInv(j)'
  BY <1>1, <1>5 DEF AnchorInv, OwnInv, Path
<1> QED
  BY <1>1, <1>2, <1>3, <1>4, <1>6 DEF AnchorInv

\* What reading a path gives.
LEMMA ReadBackType ==
    ASSUME AnchorTypes, NEW p \in Paths, ReadBack(p) # Unreadable
    PROVE  file[p] \in Runs /\ ReadBack(p) = content[file[p]][p] /\ ReadBack(p) \in Nat
  BY DEF AnchorTypes, ReadBack

LEMMA StartKeeps ==
    ASSUME BookInv, AnchorInv, NEW s \in Servers, StartServer(s)
    PROVE  AnchorInv'
<1>1. AnchorTypes /\ BookTypes
  BY DEF AnchorInv, BookInv
<1>2. /\ file' = file /\ content' = content /\ args' = args /\ pc' = pc
      /\ result' = result /\ issued' = issued /\ bookOf' = bookOf
      /\ reads' = [reads EXCEPT ![s] = path]
      /\ srv' = [srv EXCEPT ![s] =
                    [on |-> file,
                     next |-> IF ReadBack("A") > ReadBack("B")
                              THEN ReadBack("A") ELSE ReadBack("B")]]
      /\ \A p \in Paths : ReadBack(p) # Unreadable
  BY DEF StartServer, Serve
<1>3. ReadBack("A") \in Nat /\ ReadBack("B") \in Nat
  BY <1>1, <1>2, ReadBackType DEF Paths
<1>4. (IF ReadBack("A") > ReadBack("B") THEN ReadBack("A") ELSE ReadBack("B")) \in Nat
  BY <1>3
<1>5. srv' \in [Servers -> [on : [Paths -> Runs \cup {Absent}], next : Nat]]
  BY <1>1, <1>2, <1>4 DEF AnchorTypes
<1>6. AnchorTypes'
  BY <1>1, <1>2, <1>5 DEF AnchorTypes, BookTypes
<1>7. ASSUME NEW j \in Runs PROVE OwnInv(j)'
  BY <1>2 DEF AnchorInv, OwnInv, Path
<1> QED
  BY <1>6, <1>7 DEF AnchorInv

LEMMA IssueKeeps ==
    ASSUME AnchorInv, NEW s \in Servers, IssueFromBook(s)
    PROVE  AnchorInv'
<1>1. AnchorTypes /\ srv[s].next \in Nat
  BY DEF AnchorInv, AnchorTypes
<1>2. /\ file' = file /\ args' = args /\ pc' = pc /\ result' = result
      /\ bookOf' = bookOf /\ reads' = reads
      /\ srv[s].next < SegmentCount
      /\ srv' = [srv EXCEPT ![s].next = @ + 1]
      /\ content' = [i \in Runs |-> [p \in Paths |->
             IF srv[s].on[p] = i THEN srv[s].next + 1 ELSE content[i][p]]]
      /\ issued' = [issued EXCEPT ![srv[s].next] = @ + 1]
  BY DEF IssueFromBook, Issue
<1>3. srv[s].next + 1 \in Nat /\ srv[s].next \in 0 .. SegmentCount - 1
  BY <1>1, <1>2, AnchorConstants
<1>4. content' \in [Runs -> [Paths -> Nat \cup {Unreadable}]]
  BY <1>1, <1>2, <1>3 DEF AnchorTypes
<1>5. issued' \in [0 .. SegmentCount - 1 -> Nat]
  BY <1>1, <1>2, <1>3 DEF AnchorTypes
<1>6. srv' \in [Servers -> [on : [Paths -> Runs \cup {Absent}], next : Nat]]
  BY ZenonT(40), <1>1, <1>2, <1>3 DEF AnchorTypes
<1>7. AnchorTypes'
  BY <1>1, <1>2, <1>4, <1>5, <1>6 DEF AnchorTypes
<1>8. ASSUME NEW j \in Runs, NEW p \in Paths, content[j][p] # Unreadable
      PROVE  content'[j][p] # Unreadable
  BY <1>2, <1>3, <1>8, AnchorConstants
<1>9. ASSUME NEW j \in Runs PROVE OwnInv(j)'
  <2>1. Path(j, 1) \in Paths /\ Path(j, 2) \in Paths
        /\ Path(j, 1)' = Path(j, 1) /\ Path(j, 2)' = Path(j, 2)
    BY <1>1, <1>2, PathsOf DEF Path
  <2> QED
    BY <1>2, <1>8, <2>1 DEF AnchorInv, OwnInv
<1> QED
  BY <1>7, <1>9 DEF AnchorInv

LEMMA StopKeeps ==
    ASSUME AnchorInv, NEW s \in Servers, StopServer(s)
    PROVE  AnchorInv'
<1>1. /\ file' = file /\ content' = content /\ args' = args /\ pc' = pc
      /\ result' = result /\ issued' = issued /\ bookOf' = bookOf
      /\ reads' = [reads EXCEPT ![s] = NoFile] /\ srv' = [srv EXCEPT ![s] = Down]
  BY DEF StopServer, Stop
<1>2. Down \in [on : [Paths -> Runs \cup {Absent}], next : Nat]
  BY DEF Down
<1>3. AnchorTypes'
  BY <1>1, <1>2 DEF AnchorInv, AnchorTypes
<1>4. ASSUME NEW j \in Runs PROVE OwnInv(j)'
  BY <1>1 DEF AnchorInv, OwnInv, Path
<1> QED
  BY <1>3, <1>4 DEF AnchorInv

\* A file that is readable survives a power loss.
LEMMA PowerLossKeeps ==
    ASSUME AnchorInv, InstallPowerLoss
    PROVE  /\ AnchorInv' /\ content' = content /\ issued' = issued /\ bookOf' = bookOf
           /\ \A i \in Runs : pc[i] \in {"check1", "done"} => pc'[i] \in {"check1", "done"}
           /\ \A p \in Paths : file[p] # Absent /\ content[file[p]][p] # Unreadable =>
                 file'[p] = file[p]
           /\ \A s \in Servers : srv'[s] = Down
<1>1. AnchorTypes
  BY DEF AnchorInv
<1>2. /\ content' = content /\ args' = args /\ issued' = issued /\ bookOf' = bookOf
      /\ srv' = [s \in Servers |-> Down] /\ reads' = [s \in Servers |-> NoFile]
      /\ pc' = [i \in Runs |-> IF bookOf[i] # NoFile THEN "done" ELSE pc[i]]
      /\ result' = [i \in Runs |->
            IF bookOf[i] # NoFile /\ pc[i] # "done" THEN "Killed" ELSE result[i]]
      /\ file' \in [Paths -> Runs \cup {Absent}]
      /\ \A p \in Paths : \/ file'[p] = file[p]
                          \/ /\ file'[p] = Absent /\ file[p] # Absent
                             /\ content[file[p]][p] = Unreadable
  BY DEF InstallPowerLoss
<1>3. Down \in [on : [Paths -> Runs \cup {Absent}], next : Nat]
  BY DEF Down
<1>4. pc' \in [Runs -> InitSteps] /\ result' \in [Runs -> Results]
  BY <1>1, <1>2 DEF AnchorTypes, InitSteps, Results
<1>5. AnchorTypes'
  BY <1>1, <1>2, <1>3, <1>4 DEF AnchorTypes
<1>6. ASSUME NEW j \in Runs PROVE OwnInv(j)'
  <2>1. OwnInv(j)
    BY DEF AnchorInv
  <2>2. pc'[j] \in {"check1", "done"} /\ (pc'[j] = "done" => bookOf[j] # NoFile)
    BY <1>2, <2>1 DEF OwnInv
  <2>3. ASSUME result'[j] = "Ok" PROVE pc[j] = "done" /\ result[j] = "Ok" /\ pc'[j] = "done"
    BY <1>2, <2>1, <2>3 DEF OwnInv
  <2>4. ASSUME result'[j] = "Ok"
        PROVE  pc'[j] = "done" /\ \A p \in Paths : file'[p] = j /\ content'[j][p] # Unreadable
    <3>1. pc'[j] = "done" /\ \A p \in Paths : file[p] = j /\ content[j][p] # Unreadable
      BY <2>1, <2>3, <2>4 DEF OwnInv
    <3> QED
      BY <1>2, <3>1
  <2> QED
    BY <1>2, <2>2, <2>4 DEF OwnInv, HoldsFirst, HoldsBoth
<1>7. \A i \in Runs : pc[i] \in {"check1", "done"} => pc'[i] \in {"check1", "done"}
  BY <1>2
<1>8. \A p \in Paths : file[p] # Absent /\ content[file[p]][p] # Unreadable =>
         file'[p] = file[p]
  BY <1>2
<1>9. \A s \in Servers : srv'[s] = Down
  BY <1>2
<1> QED
  BY <1>2, <1>5, <1>6, <1>7, <1>8, <1>9 DEF AnchorInv

LEMMA AnchorInitHolds ==
    ASSUME InstallInit
    PROVE  AnchorInv
<1>1. /\ file = [p \in Paths |-> Absent]
      /\ content = [i \in Runs |-> [p \in Paths |-> Unreadable]]
      /\ args \in Orders /\ pc = [i \in Runs |-> "check1"]
      /\ result = [i \in Runs |-> "none"] /\ srv = [s \in Servers |-> Down]
      /\ issued = [n \in 0 .. SegmentCount - 1 |-> 0]
      /\ bookOf = [i \in Runs |-> NoFile] /\ reads = [s \in Servers |-> NoFile]
  BY DEF InstallInit, Init
<1>2. Down \in [on : [Paths -> Runs \cup {Absent}], next : Nat]
  BY DEF Down
<1>3. AnchorTypes
  BY <1>1, <1>2, AnchorInitAssumption DEF AnchorTypes, InitSteps, Results
<1>4. ASSUME NEW i \in Runs PROVE OwnInv(i)
  BY <1>1 DEF OwnInv, HoldsFirst, HoldsBoth
<1> QED
  BY <1>3, <1>4 DEF AnchorInv

\* A run of "anchor init" owns the files it works on, whatever other runs,
\* servers and power losses do meanwhile.
THEOREM AnchorInvariance == InstallSpec => [](BookInv /\ AnchorInv)
<1>1. InstallInit => AnchorInv
  BY AnchorInitHolds
<1>2. BookInv /\ AnchorInv /\ [InstallNext]_allVars => AnchorInv'
  <2> SUFFICES ASSUME BookInv, AnchorInv, [InstallNext]_allVars PROVE AnchorInv'
    OBVIOUS
  <2>1. CASE UNCHANGED <<vars, bookOf, reads>>
    <3>1. /\ file' = file /\ content' = content /\ args' = args /\ pc' = pc
          /\ result' = result /\ srv' = srv /\ issued' = issued
          /\ bookOf' = bookOf /\ reads' = reads
      BY <2>1 DEF vars
    <3> QED
      BY <3>1 DEF AnchorInv, AnchorTypes, OwnInv, Path
  <2>2. CASE \E g \in Gens : GenerateRun(g)
    BY <2>1, <2>2 DEF GenerateRun
  <2>3. CASE \E i \in Runs : BeginInit(i) \/ AnchorRun(i)
    BY <2>3, BeginKeeps, InitRunKeeps
  <2>4. CASE \E s \in Servers : StartServer(s) \/ IssueFromBook(s) \/ StopServer(s)
    BY <2>4, StartKeeps, IssueKeeps, StopKeeps
  <2>5. CASE InstallPowerLoss
    BY <2>5, PowerLossKeeps
  <2> QED
    BY <2>1, <2>2, <2>3, <2>4, <2>5 DEF InstallNext, allVars
<1> QED
  BY <1>1, <1>2, BookInvariance, PTL DEF InstallSpec

\* A run of "anchor init" that returned Ok left a pair of its own, both files
\* readable, and no other run's cleanup, no server and no power loss takes one
\* of them away.
THEOREM SuccessHolds == InstallSpec => []SuccessIsPair
<1>1. AnchorInv => SuccessIsPair
  BY DEF AnchorInv, OwnInv, SuccessIsPair
<1> QED
  BY <1>1, AnchorInvariance, PTL

\* An anchor file that exists is never replaced by another one: it may only be
\* removed, by the run that created it or by a power loss.
THEOREM NeverOverwritesHolds == InstallSpec => NeverOverwrites
<1>1. ASSUME AnchorInv, [InstallNext]_allVars, NEW p \in Paths, file[p] # Absent
      PROVE  file'[p] \in {file[p], Absent}
  <2>1. CASE file' = file
    BY <2>1
  <2>2. ASSUME NEW i \in Runs, AnchorRun(i) PROVE file'[p] \in {file[p], Absent}
    <3>1. InitRun(i) /\ file \in [Paths -> Runs \cup {Absent}] /\ Path(i, 1) \in Paths
          /\ Path(i, 2) \in Paths
      BY <1>1, <2>2, PathsOf DEF AnchorRun, AnchorInv, AnchorTypes
    <3>2. ASSUME NEW n \in {1, 2}, Create(i, n) PROVE file'[p] \in {file[p], Absent}
      <4>1. CASE file' = file
        BY <4>1
      <4>2. CASE file[Path(i, n)] = Absent /\ file' = [file EXCEPT ![Path(i, n)] = i]
        BY <1>1, <3>1, <4>2
      <4> QED
        BY <3>2, <4>1, <4>2 DEF Create
    <3>3. CASE Cleanup(i)
      <4>1. CASE file' = [q \in Paths |-> IF q = Path(i, 1) \/ pc[i] = "cleanupBoth"
                                          THEN Absent ELSE file[q]]
        BY <4>1
      <4>2. CASE file' = file
        BY <4>2
      <4>3. CASE file' = [file EXCEPT ![Path(i, 1)] = Absent]
        BY <3>1, <4>3
      <4> QED
        BY <3>3, <4>1, <4>2, <4>3 DEF Cleanup
    <3> QED
      BY <2>1, <3>1, <3>2, <3>3 DEF InitRun, Check, Write, WriteFails, Verify, Killed
  <2>3. CASE InstallPowerLoss
    BY <2>3 DEF InstallPowerLoss
  <2> QED
    BY <1>1, <2>1, <2>2, <2>3 DEF InstallNext, GenerateRun, BeginInit, StartServer, Serve,
          IssueFromBook, Issue, StopServer, Stop, allVars, vars
<1>2. AnchorInv /\ [InstallNext]_allVars =>
         [\A p \in Paths : file[p] # Absent => file'[p] \in {file[p], Absent}]_vars
  BY <1>1
<1> QED
  BY <1>2, AnchorInvariance, PTL DEF InstallSpec, NeverOverwrites

-----------------------------------------------------------------------------
(* Servers on the pair.                                                    *)

\* On a settled pair both files hold the number of segments issued.
LEMMA Pointer ==
    ASSUME AnchorInv, Ledger, Settled
    PROVE  \E k \in 0 .. SegmentCount :
              /\ \A p \in Paths : content[file[p]][p] = k
              /\ \A n \in DOMAIN issued : issued[n] = IF n < k THEN 1 ELSE 0
<1>1. CASE /\ \A i \in Runs, p \in Paths : content[i][p] \in {Unreadable, 0}
           /\ \A n \in DOMAIN issued : issued[n] = 0
  <2>1. \A p \in Paths : file[p] \in Runs
    BY DEF Settled, AnchorInv, AnchorTypes
  <2>2. \A p \in Paths : content[file[p]][p] = 0
    BY <1>1, <2>1 DEF Settled
  <2>3. 0 \in 0 .. SegmentCount /\ \A n \in 0 .. SegmentCount - 1 : ~(n < 0)
    BY AnchorConstants
  <2>4. DOMAIN issued = 0 .. SegmentCount - 1
    BY DEF AnchorInv, AnchorTypes
  <2>5. \A n \in DOMAIN issued : issued[n] = IF n < 0 THEN 1 ELSE 0
    BY <1>1, <2>3, <2>4
  <2> QED
    BY <2>2, <2>3, <2>5
<1> QED
  BY <1>1 DEF Ledger

\* Once the pair is there no run of "anchor init" changes anything: it finds
\* the file of its first path, or is killed.
LEMMA SettledStays ==
    ASSUME AnchorInv, Settled, NEW i \in Runs, AnchorRun(i)
    PROVE  Settled' /\ file' = file /\ content' = content
<1>1. /\ pc[i] \in {"check1", "done"} /\ Path(i, 1) \in Paths
      /\ file[Path(i, 1)] # Absent /\ InitRun(i)
  BY PathsOf DEF Settled, AnchorInv, AnchorRun
<1>2. Check(i, 1) \/ Killed(i)
  BY <1>1 DEF InitRun, Check, Create, Write, WriteFails, Verify, Cleanup
<1>3. file' = file /\ content' = content /\ \E r : Return(i, r)
  BY <1>1, <1>2 DEF Check, Killed
<1>4. \A j \in Runs : pc'[j] \in {"check1", "done"}
  <2>1. pc' = [pc EXCEPT ![i] = "done"]
    BY <1>3 DEF Return
  <2>2. pc \in [Runs -> InitSteps] /\ \A j \in Runs : pc[j] \in {"check1", "done"}
    BY DEF AnchorInv, AnchorTypes, Settled
  <2> QED
    BY <2>1, <2>2
<1> QED
  BY <1>3, <1>4 DEF Settled

\* A run of "anchor init" before the pair is there finds or writes no pointer
\* but 0.
LEMMA FirstWrites ==
    ASSUME AnchorInv, NEW i \in Runs, AnchorRun(i),
           \A j \in Runs, p \in Paths : content[j][p] \in {Unreadable, 0}
    PROVE  \A j \in Runs, p \in Paths : content'[j][p] \in {Unreadable, 0}
<1>1. /\ content \in [Runs -> [Paths -> Nat \cup {Unreadable}]] /\ InitRun(i)
      /\ Path(i, 1) \in Paths /\ Path(i, 2) \in Paths
  BY PathsOf DEF AnchorInv, AnchorTypes, AnchorRun
<1>2. CASE content' = content
  BY <1>2
<1>3. ASSUME NEW n \in {1, 2}, NEW v \in {Unreadable, 0},
             content' = [content EXCEPT ![i][Path(i, n)] = v]
      PROVE  \A j \in Runs, p \in Paths : content'[j][p] \in {Unreadable, 0}
  <2>1. Path(i, n) \in Paths
    BY <1>1
  <2> QED
    BY <1>1, <1>3, <2>1
<1>4. ASSUME NEW n \in {1, 2}, Write(i, n) \/ WriteFails(i, n)
      PROVE  \A j \in Runs, p \in Paths : content'[j][p] \in {Unreadable, 0}
  BY <1>3, <1>4 DEF Write, WriteFails
<1> QED
  BY <1>1, <1>2, <1>4 DEF InitRun, Check, Create, Verify, Cleanup, Killed

\* The book a server has opened is not written to any more.
LEMMA BookStays ==
    ASSUME BookInv, NEW g \in Gens, Generate(g), NEW f \in FileIds,
           f \in Gens => gen[f] \notin {"create", "header", "chunk"}
    PROVE  /\ book'[f] = book[f]
           /\ f \in Gens => gen'[f] \notin {"create", "header", "chunk"}
<1>1. /\ gen \in [Gens -> GenSteps] /\ g \in FileIds
      /\ book \in [FileIds -> [header : HeaderSet, segs : Seq(Nat)]]
  BY DEF BookInv, BookTypes, FileIds
<1>2. CASE f # g
  <2>1. \E l : gen' = [gen EXCEPT ![g] = l]
    BY DEF Generate, GenCreate, GenHeader, GenChunk, GenFsync, GenFsyncDir,
           GenFails, GenCleanup, GenKilled
  <2>2. f \in Gens => gen'[f] = gen[f]
    BY <1>1, <1>2, <2>1
  <2>3. \/ book' = book
        \/ book' = [book EXCEPT ![g].header = EncodeHeader(g, GenSegments)]
        \/ \E n : book' = Filled(g, n)
    BY DEF Generate, GenCreate, GenHeader, GenChunk, GenFsync, GenFsyncDir,
           GenFails, GenCleanup, GenKilled
  <2>4. book'[f] = book[f]
    BY <1>1, <1>2, <2>3 DEF Filled
  <2> QED
    BY <2>2, <2>4
<1>3. CASE f = g
  <2>1. gen[g] \notin {"create", "header", "chunk"}
    BY <1>3
  <2>2. book' = book
    BY <2>1 DEF Generate, GenCreate, GenHeader, GenChunk, GenFsync, GenFsyncDir,
           GenFails, GenCleanup, GenKilled
  <2>3. \E l \in {"fsync_dir", "Ok", "cleanup", "Io", "Killed"} :
           gen' = [gen EXCEPT ![g] = l]
    BY <2>1 DEF Generate, GenCreate, GenHeader, GenChunk, GenFsync, GenFsyncDir,
           GenFails, GenCleanup, GenKilled
  <2>4. gen'[g] \notin {"create", "header", "chunk"}
    BY <1>1, <2>3
  <2> QED
    BY <1>3, <2>2, <2>4
<1> QED
  BY <1>2, <1>3

\* A book that can be opened has been written to its end.
LEMMA OpenedIsWritten ==
    ASSUME BookInv, NEW g \in Gens, Openable(g), path = g
    PROVE  gen[g] \notin {"create", "header", "chunk"}
<1>1. RunInv(g)
  BY DEF BookInv
<1>2. gen[g] # "create"
  BY <1>1 DEF RunInv
<1>3. ASSUME gen[g] = "header" PROVE FALSE
  <2>1. book[g].header = NoHeader
    BY <1>1, <1>3 DEF RunInv, EmptyFile
  <2> QED
    BY <2>1, Headers DEF Openable
<1>4. ASSUME gen[g] = "chunk" PROVE FALSE
  <2>1. PICK n \in 0 .. GenSegments - 1 : FilledTo(g, n)
    BY <1>1, <1>4 DEF RunInv
  <2>2. n = GenSegments
    BY <2>1, Headers DEF FilledTo, Openable
  <2> QED
    BY <2>1, <2>2, Constants
<1> QED
  BY <1>2, <1>3, <1>4

\* What a server keeps when neither the pair nor its own record changes.
LEMMA ServingStays ==
    ASSUME AnchorInv, NEW s \in Servers, Serving(s), Settled',
           file' = file, content' = content, srv' = srv, reads' = reads,
           book'[reads[s]] = book[reads[s]],
           reads[s] \in Gens => gen'[reads[s]] \notin {"create", "header", "chunk"},
           \A i \in Runs : bookOf[i] # NoFile => bookOf'[i] = bookOf[i]
    PROVE  Serving(s)'
<1>1. \A p \in Paths : file[p] \in Runs /\ bookOf[file[p]] = reads[s] /\ reads[s] # NoFile
  BY AnchorConstants DEF Serving, Settled, AnchorInv, AnchorTypes
<1>2. \A p \in Paths : bookOf'[file'[p]] = reads'[s]
  BY <1>1
<1>3. Openable(reads[s])'
  BY DEF Serving, Openable
<1> QED
  BY <1>2, <1>3 DEF Serving

-----------------------------------------------------------------------------
LEMMA ServeStart ==
    ASSUME ServeDuringInit = FALSE, BookInv, AnchorInv, ServeInv,
           NEW s \in Servers, StartServer(s)
    PROVE  ServeInv'
<1>1. /\ file' = file /\ content' = content /\ pc' = pc /\ issued' = issued
      /\ bookOf' = bookOf /\ path' = path /\ book' = book /\ gen' = gen
      /\ reads' = [reads EXCEPT ![s] = path]
      /\ srv' = [srv EXCEPT ![s] =
                    [on |-> file,
                     next |-> IF ReadBack("A") > ReadBack("B")
                              THEN ReadBack("A") ELSE ReadBack("B")]]
      /\ \A p \in Paths : ReadBack(p) # Unreadable
      /\ \A i \in Runs : pc[i] \in {"check1", "done"}
      /\ \A t \in Servers, p \in Paths : srv[t].on[p] # file[p]
      /\ Openable(path) /\ AnchorsNameBook(path)
  BY DEF StartServer, Serve, bookVars
<1>2. AnchorTypes /\ BookTypes
  BY DEF AnchorInv, BookInv
<1>3. \A p \in Paths : file[p] \in Runs /\ ReadBack(p) = content[file[p]][p]
  BY <1>1, <1>2, ReadBackType
<1>4. Settled
  BY <1>1, <1>3, AnchorConstants DEF Settled
<1>5. \A t \in Servers : srv[t] = Down
  BY <1>1 DEF ServeInv, Serving, Paths
<1>6. PICK k \in 0 .. SegmentCount :
              /\ \A p \in Paths : content[file[p]][p] = k
              /\ \A n \in DOMAIN issued : issued[n] = IF n < k THEN 1 ELSE 0
  BY <1>4, Pointer DEF ServeInv
<1>7. ReadBack("A") = k /\ ReadBack("B") = k
  BY <1>3, <1>6 DEF Paths
<1>8. srv'[s] = [on |-> file, next |-> k]
  BY <1>1, <1>2, <1>7 DEF AnchorTypes
<1>9. \A t \in Servers : t # s => srv'[t] = Down
  BY <1>1, <1>2, <1>5 DEF AnchorTypes
<1>10. path \in FileIds /\ book[path].header.book_id = path
  BY <1>1, <1>2, OpenedId DEF BookTypes
<1>11. reads'[s] = path
  BY <1>1, <1>2 DEF AnchorTypes
<1>12. path \in Gens => gen[path] \notin {"create", "header", "chunk"}
  BY <1>1, OpenedIsWritten
<1>13. \A p \in Paths : bookOf[file[p]] = path
  BY <1>1, <1>10 DEF AnchorsNameBook
<1>14. Settled'
  BY <1>1, <1>4 DEF Settled
<1>15. Openable(path)'
  BY <1>1 DEF Openable
<1>16. Serving(s)'
  <2>1. srv'[s].on = file' /\ \A p \in Paths : srv'[s].next = content'[file'[p]][p]
    BY <1>1, <1>6, <1>8
  <2>2. \A t \in Servers : srv'[t] # Down => t = s
    BY <1>9
  <2>3. reads'[s] \in FileIds /\ Openable(reads[s])'
    BY <1>1, <1>10, <1>11 DEF Openable
  <2>4. reads'[s] \in Gens => gen'[reads'[s]] \notin {"create", "header", "chunk"}
    BY <1>1, <1>11, <1>12
  <2>5. \A p \in Paths : bookOf'[file'[p]] = reads'[s]
    BY <1>1, <1>11, <1>13
  <2> QED
    BY <1>14, <2>1, <2>2, <2>3, <2>4, <2>5 DEF Serving
<1>17. Ledger'
  BY <1>1 DEF ServeInv, Ledger, Settled
<1> QED
  BY <1>9, <1>16, <1>17 DEF ServeInv

LEMMA ServeIssue ==
    ASSUME AnchorInv, ServeInv, NEW s \in Servers, IssueFromBook(s)
    PROVE  ServeInv'
<1>1. /\ file' = file /\ pc' = pc /\ bookOf' = bookOf /\ reads' = reads
      /\ path' = path /\ book' = book /\ gen' = gen
      /\ srv[s] # Down /\ srv[s].next < SegmentCount
      /\ srv' = [srv EXCEPT ![s].next = @ + 1]
      /\ content' = [i \in Runs |-> [p \in Paths |->
             IF srv[s].on[p] = i THEN srv[s].next + 1 ELSE content[i][p]]]
      /\ issued' = [issued EXCEPT ![srv[s].next] = @ + 1]
  BY DEF IssueFromBook, Issue, bookVars
<1>2. AnchorTypes /\ Serving(s) /\ Settled
  BY <1>1 DEF AnchorInv, ServeInv, Serving
<1>3. PICK k \in 0 .. SegmentCount :
              /\ \A p \in Paths : content[file[p]][p] = k
              /\ \A n \in DOMAIN issued : issued[n] = IF n < k THEN 1 ELSE 0
  BY <1>2, Pointer DEF ServeInv
<1>4. srv[s].next = k /\ srv[s].on = file
  BY <1>2, <1>3 DEF Serving, Paths
<1>5. /\ k \in Nat /\ k \in 0 .. SegmentCount - 1 /\ k + 1 \in 0 .. SegmentCount
      /\ k + 1 # Unreadable
  BY <1>1, <1>3, <1>4, AnchorConstants
<1>6. \A p \in Paths : file[p] \in Runs /\ file[p] # Absent
  BY <1>2 DEF Settled, AnchorTypes
<1>7. \A p \in Paths : content'[file'[p]][p] = k + 1
  BY <1>1, <1>4, <1>6
<1>8. Settled'
  BY <1>1, <1>2, <1>5, <1>6, <1>7 DEF Settled
<1>9. /\ DOMAIN issued' = DOMAIN issued /\ DOMAIN issued = 0 .. SegmentCount - 1
      /\ issued'[k] = issued[k] + 1
      /\ \A n \in DOMAIN issued : n # k => issued'[n] = issued[n]
  BY <1>1, <1>2, <1>4, <1>5 DEF AnchorTypes
<1>10. ASSUME NEW n \in DOMAIN issued
       PROVE  issued'[n] = IF n < k + 1 THEN 1 ELSE 0
  <2>1. n \in Int /\ issued[n] = IF n < k THEN 1 ELSE 0
    BY <1>3, <1>9
  <2>2. CASE n = k
    <3>1. issued[k] = 0 /\ k < k + 1
      BY <1>5, <2>1, <2>2
    <3> QED
      BY <1>9, <2>2, <3>1
  <2>3. CASE n # k
    <3>1. n < k + 1 <=> n < k
      BY <1>5, <2>1, <2>3
    <3> QED
      BY <1>9, <2>1, <2>3, <3>1
  <2> QED
    BY <2>2, <2>3
<1>11. Ledger'
  BY <1>5, <1>7, <1>8, <1>9, <1>10 DEF Ledger
<1>12. /\ srv'[s].on = file' /\ srv'[s].next = k + 1
       /\ \A t \in Servers : t # s => srv'[t] = Down
  <2>1. \A t \in Servers : t # s => srv[t] = Down
    BY <1>2 DEF Serving
  <2> QED
    BY <1>1, <1>2, <1>4, <2>1 DEF AnchorTypes
<1>13. Openable(reads[s])'
  BY <1>1, <1>2 DEF Serving, Openable
<1>14. Serving(s)'
  BY <1>1, <1>2, <1>7, <1>8, <1>12, <1>13 DEF Serving
<1> QED
  BY <1>11, <1>12, <1>14 DEF ServeInv

LEMMA ServeStep ==
    ASSUME ServeDuringInit = FALSE, BookInv, AnchorInv, ServeInv, [InstallNext]_allVars
    PROVE  ServeInv'
<1>1. ASSUME file' = file, content' = content, pc' = pc, issued' = issued
      PROVE  Ledger'
  BY <1>1 DEF ServeInv, Ledger, Settled
<1>2. CASE UNCHANGED allVars
  <2>1. /\ file' = file /\ content' = content /\ pc' = pc /\ issued' = issued
        /\ srv' = srv /\ bookOf' = bookOf /\ reads' = reads /\ book' = book /\ gen' = gen
    BY <1>2 DEF allVars, vars, bookVars
  <2> QED
    BY <1>1, <2>1 DEF ServeInv, Serving, Settled, Openable
<1>3. ASSUME NEW g \in Gens, GenerateRun(g) PROVE ServeInv'
  <2>1. /\ file' = file /\ content' = content /\ pc' = pc /\ issued' = issued
        /\ srv' = srv /\ bookOf' = bookOf /\ reads' = reads /\ Generate(g)
    BY <1>3 DEF GenerateRun, vars
  <2>2. ASSUME NEW s \in Servers, srv[s] # Down PROVE Serving(s)'
    <3>1. Serving(s)
      BY <2>2 DEF ServeInv
    <3>2. Settled'
      BY <2>1, <3>1 DEF Serving, Settled
    <3>3. /\ book'[reads[s]] = book[reads[s]]
          /\ reads[s] \in Gens => gen'[reads[s]] \notin {"create", "header", "chunk"}
      BY <2>1, <3>1, BookStays DEF Serving
    <3> QED
      BY <2>1, <3>1, <3>2, <3>3, ServingStays
  <2> QED
    BY <1>1, <2>1, <2>2 DEF ServeInv
<1>4. ASSUME NEW i \in Runs, BeginInit(i) PROVE ServeInv'
  <2>1. /\ file' = file /\ content' = content /\ pc' = pc /\ issued' = issued
        /\ srv' = srv /\ reads' = reads /\ book' = book /\ gen' = gen
        /\ bookOf' = [bookOf EXCEPT ![i] = book[path].header.book_id]
        /\ bookOf[i] = NoFile
    BY <1>4 DEF BeginInit, vars, bookVars
  <2>2. \A j \in Runs : bookOf[j] # NoFile => bookOf'[j] = bookOf[j]
    BY <2>1 DEF AnchorInv, AnchorTypes
  <2>3. ASSUME NEW s \in Servers, srv[s] # Down PROVE Serving(s)'
    <3>1. Serving(s)
      BY <2>3 DEF ServeInv
    <3>2. Settled'
      BY <2>1, <3>1 DEF Serving, Settled
    <3>3. reads[s] \in Gens => gen'[reads[s]] \notin {"create", "header", "chunk"}
      BY <2>1, <3>1 DEF Serving
    <3> QED
      BY <2>1, <2>2, <3>1, <3>2, <3>3, ServingStays
  <2> QED
    BY <1>1, <2>1, <2>3 DEF ServeInv
<1>5. ASSUME NEW i \in Runs, AnchorRun(i) PROVE ServeInv'
  <2>1. /\ issued' = issued /\ srv' = srv /\ reads' = reads /\ bookOf' = bookOf
        /\ book' = book /\ gen' = gen
    BY <1>5 DEF AnchorRun, InitRun, Check, Create, Write, WriteFails, Verify, Cleanup,
                Killed, bookVars
  <2>2. CASE Settled
    <3>1. Settled' /\ file' = file /\ content' = content
      BY <1>5, <2>2, SettledStays
    <3>2. Ledger'
      BY <2>1, <2>2, <3>1, Pointer DEF ServeInv, Ledger
    <3>3. ASSUME NEW s \in Servers, srv[s] # Down PROVE Serving(s)'
      <4>1. Serving(s)
        BY <3>3 DEF ServeInv
      <4>2. reads[s] \in Gens => gen'[reads[s]] \notin {"create", "header", "chunk"}
        BY <2>1, <4>1 DEF Serving
      <4> QED
        BY <2>1, <3>1, <4>1, <4>2, ServingStays
    <3> QED
      BY <2>1, <3>2, <3>3 DEF ServeInv
  <2>3. CASE ~Settled
    <3>1. /\ \A j \in Runs, p \in Paths : content[j][p] \in {Unreadable, 0}
          /\ \A n \in DOMAIN issued : issued[n] = 0
      BY <2>3 DEF ServeInv, Ledger
    <3>2. Ledger'
      BY <1>5, <2>1, <3>1, FirstWrites DEF Ledger
    <3>3. \A s \in Servers : srv'[s] = Down
      BY <2>1, <2>3 DEF ServeInv, Serving
    <3> QED
      BY <3>2, <3>3 DEF ServeInv
  <2> QED
    BY <2>2, <2>3
<1>6. ASSUME NEW s \in Servers, StopServer(s) PROVE ServeInv'
  <2>1. /\ file' = file /\ content' = content /\ pc' = pc /\ issued' = issued
        /\ bookOf' = bookOf /\ book' = book /\ gen' = gen
        /\ srv' = [srv EXCEPT ![s] = Down] /\ reads' = [reads EXCEPT ![s] = NoFile]
        /\ srv[s] # Down
    BY <1>6 DEF StopServer, Stop, bookVars
  <2>2. \A t \in Servers : t # s => srv[t] = Down
    BY <2>1 DEF ServeInv, Serving
  <2>3. \A t \in Servers : srv'[t] = Down
    BY <2>1, <2>2 DEF AnchorInv, AnchorTypes
  <2> QED
    BY <1>1, <2>1, <2>3 DEF ServeInv
<1>7. CASE InstallPowerLoss
  <2>1. /\ content' = content /\ issued' = issued
        /\ \A i \in Runs : pc[i] \in {"check1", "done"} => pc'[i] \in {"check1", "done"}
        /\ \A p \in Paths : file[p] # Absent /\ content[file[p]][p] # Unreadable =>
              file'[p] = file[p]
        /\ \A s \in Servers : srv'[s] = Down
    BY <1>7, PowerLossKeeps
  <2>2. Settled => Settled' /\ \A p \in Paths : file'[p] = file[p]
    BY <2>1 DEF Settled
  <2>3. Ledger'
    BY <2>1, <2>2 DEF ServeInv, Ledger
  <2> QED
    BY <2>1, <2>3 DEF ServeInv
<1> QED
  BY <1>2, <1>3, <1>4, <1>5, <1>6, <1>7, ServeStart, ServeIssue DEF InstallNext

\* When servers are started only between runs of "anchor init", the pair they
\* work on is never replaced and both files count the segments issued.
THEOREM ServeInvariance ==
    ASSUME ServeDuringInit = FALSE
    PROVE  InstallSpec => [](BookInv /\ AnchorInv /\ ServeInv)
<1>1. InstallInit => ServeInv
  <2> SUFFICES ASSUME InstallInit PROVE ServeInv
    OBVIOUS
  <2>1. /\ content = [i \in Runs |-> [p \in Paths |-> Unreadable]]
        /\ srv = [s \in Servers |-> Down]
        /\ issued = [n \in 0 .. SegmentCount - 1 |-> 0]
    BY DEF InstallInit, Init
  <2> QED
    BY <2>1 DEF ServeInv, Ledger
<1>2. BookInv /\ AnchorInv /\ ServeInv /\ [InstallNext]_allVars => ServeInv'
  BY ServeStep
<1> QED
  BY <1>1, <1>2, AnchorInvariance, PTL DEF InstallSpec

\* A server reads from a whole book with a good header, the one its anchors
\* name, and no segment is ever issued twice, provided no server is started
\* while a run of "anchor init" is going on.
THEOREM ServedHolds ==
    ASSUME ServeDuringInit = FALSE
    PROVE  InstallSpec => []ServedBookIsTheOne
<1>1. BookInv /\ AnchorInv /\ ServeInv => ServedBookIsTheOne
  <2> SUFFICES ASSUME BookInv, AnchorInv, ServeInv PROVE ServedBookIsTheOne
    OBVIOUS
  <2>1. ASSUME NEW s \in Servers, srv[s] # Down
        PROVE  /\ book[reads[s]].header = EncodeHeader(reads[s], Len(book[reads[s]].segs))
               /\ \A p \in Paths : bookOf[srv[s].on[p]] = reads[s]
    BY <2>1, OpenedId DEF ServeInv, Serving
  <2>2. ASSUME NEW n \in DOMAIN issued PROVE issued[n] <= 1
    <3>1. issued[n] = 0 \/ issued[n] = 1
      BY DEF ServeInv, Ledger
    <3> QED
      BY <3>1
  <2> QED
    BY <2>1, <2>2 DEF ServedBookIsTheOne
<1> QED
  BY <1>1, ServeInvariance, PTL

=============================================================================
