------------------------------ MODULE Install ------------------------------
(***************************************************************************)
(* Setting up an endpoint: "book generate" (Book), then "anchor init" for  *)
(* the book at the path (AnchorInit), then servers on both, with commands  *)
(* that run at the same time, fail, are killed or lose power.  run_anchor_ *)
(* init and run_serve each open the book by its path and take its id; the  *)
(* allocator refuses anchors that name another book.                       *)
(***************************************************************************)
EXTENDS AnchorInit, Book

VARIABLES
    bookOf,     \* bookOf[i]: the book id run i of anchor init writes, 0 before
    reads       \* reads[s]: the book server s has opened

allVars == <<vars, bookVars, bookOf, reads>>

InstallInit ==
    /\ Init
    /\ BookInit
    /\ bookOf = [i \in Runs |-> NoFile]
    /\ reads = [s \in Servers |-> NoFile]

\* run_anchor_init opens the book before it looks at the anchors.
BeginInit(i) ==
    /\ pc[i] = "check1"
    /\ bookOf[i] = NoFile
    /\ Openable(path)
    /\ bookOf' = [bookOf EXCEPT ![i] = book[path].header.book_id]
    /\ UNCHANGED <<vars, bookVars, reads>>

AnchorRun(i) ==
    /\ bookOf[i] # NoFile
    /\ InitRun(i)
    /\ UNCHANGED <<bookVars, bookOf, reads>>

\* Mutant of AnchorsNameBook: the allocator does not compare the ids.
AnchorsNameAnyBook(f) == TRUE

\* The book id in both anchor files is that of file f.
AnchorsNameBook(f) ==
    \A p \in Paths : bookOf[file[p]] = book[f].header.book_id

\* run_serve: Book::open, then recovery and Allocator::open on the anchors.
StartServer(s) ==
    /\ Openable(path)
    /\ Serve(s)
    /\ AnchorsNameBook(path)
    /\ reads' = [reads EXCEPT ![s] = path]
    /\ UNCHANGED <<bookVars, bookOf>>

\* issue(), and the read of the segment with the number it gave.
IssueFromBook(s) ==
    /\ reads[s] # NoFile
    /\ srv[s].next < book[reads[s]].header.segment_count
    /\ Issue(s)
    /\ UNCHANGED <<bookVars, bookOf, reads>>

StopServer(s) ==
    /\ Stop(s)
    /\ reads' = [reads EXCEPT ![s] = NoFile]
    /\ UNCHANGED <<bookVars, bookOf>>

GenerateRun(g) ==
    /\ Generate(g)
    /\ UNCHANGED <<vars, bookOf, reads>>

\* Power is lost: every command and server is gone; an anchor whose write had
\* not returned may be missing.
InstallPowerLoss ==
    /\ BookPowerLoss
    /\ pc' = [i \in Runs |-> IF bookOf[i] # NoFile THEN "done" ELSE pc[i]]
    /\ result' = [i \in Runs |->
                    IF bookOf[i] # NoFile /\ pc[i] # "done" THEN "Killed" ELSE result[i]]
    /\ file' \in {f \in [Paths -> Runs \cup {Absent}] :
                    \A p \in Paths :
                      \/ f[p] = file[p]
                      \/ f[p] = Absent /\ file[p] # Absent
                         /\ content[file[p]][p] = Unreadable}
    /\ srv' = [s \in Servers |-> Down]
    /\ reads' = [s \in Servers |-> NoFile]
    /\ UNCHANGED <<content, args, issued, bookOf>>

InstallNext ==
    \/ \E g \in Gens : GenerateRun(g)
    \/ \E i \in Runs : BeginInit(i) \/ AnchorRun(i)
    \/ \E s \in Servers : StartServer(s) \/ IssueFromBook(s) \/ StopServer(s)
    \/ InstallPowerLoss

InstallSpec == InstallInit /\ [][InstallNext]_allVars

-----------------------------------------------------------------------------
(***************************************************************************)
(* Properties.                                                             *)
(***************************************************************************)

\* A server reads from a whole book with a good header, the one its anchors
\* name, and no segment is issued twice, although commands and servers find
\* the book and the anchors by their paths at different moments.
ServedBookIsTheOne ==
    /\ \A s \in Servers : srv[s] # Down =>
         LET b == book[reads[s]] IN
         /\ b.header = EncodeHeader(reads[s], Len(b.segs))
         /\ \A p \in Paths : bookOf[srv[s].on[p]] = reads[s]
    /\ \A n \in DOMAIN issued : issued[n] <= 1

\* A book whose generation returned success stays at the path whole and random,
\* whatever fails, is killed or loses power afterwards (generate.rs: "fsync the
\* file and its parent directory").
GeneratedIsDurable ==
    \A g \in Gens : gen[g] = "Ok" =>
        /\ path = g
        /\ Openable(g)
        /\ \A i \in 0 .. GenSegments - 1 : ReadSegment(g, i) = Random(g, i + 1)

\* "book inspect" approves a book it can open exactly when no two of its
\* segments are equal and none is zero, wherever in the file the equal ones are.
InspectIsRight ==
    Openable(path) =>
        (InspectOk(path) <=>
           /\ IsInjective(book[path].segs)
           /\ Zero \notin ToSet(book[path].segs))
=============================================================================
