----------------------------- MODULE AnchorInit -----------------------------
(***************************************************************************)
(* "jbuu anchor init" (otp-cli, anchorinit.rs): creating the first pair of *)
(* anchor files, by operators who may run the command twice, kill it, or   *)
(* start a server before it has returned.                                  *)
(*                                                                         *)
(* A file is named after the run that created it, so file[p] tells which   *)
(* file the path p leads to, and a server keeps the files it has opened    *)
(* when their paths are removed.  A file holds nothing readable or a       *)
(* record, of which only the pointer matters here.                         *)
(***************************************************************************)
EXTENDS Integers, Sequences

CONSTANTS
    Runs,             \* runs of the command, positive numbers
    Orders,           \* orders in which the runs may be given the two paths
    Servers,          \* server processes
    SegmentCount,     \* segments of a book
    ServeDuringInit   \* whether a server may start while a run is going on

Paths == {"A", "B"}

ASSUME AnchorInitAssumption ==
    /\ Runs \subseteq Nat \ {0}
    /\ Orders \subseteq [Runs -> {<<"A", "B">>, <<"B", "A">>}]
    /\ SegmentCount \in Nat
    /\ ServeDuringInit \in BOOLEAN

Absent == 0
Unreadable == -1

VARIABLES
    file,      \* file[p]: creator of the file at path p, or Absent
    content,   \* content[i][p]: pointer in the file run i created at p
    args,      \* args[i]: the two paths, in the order of the command line
    pc,        \* pc[i]: the next step of run i
    result,    \* result[i]: what the run returned
    srv,       \* srv[s]: the files server s has opened and its pointer
    issued     \* issued[n]: how often segment n was issued

vars == <<file, content, args, pc, result, srv, issued>>

Down == [on |-> [p \in Paths |-> Absent], next |-> 0]

Init ==
    /\ file = [p \in Paths |-> Absent]
    /\ content = [i \in Runs |-> [p \in Paths |-> Unreadable]]
    /\ args \in Orders
    /\ pc = [i \in Runs |-> "check1"]
    /\ result = [i \in Runs |-> "none"]
    /\ srv = [s \in Servers |-> Down]
    /\ issued = [n \in 0 .. SegmentCount - 1 |-> 0]

Goto(i, l) == pc' = [pc EXCEPT ![i] = l] /\ UNCHANGED result
Return(i, r) ==
    pc' = [pc EXCEPT ![i] = "done"] /\ result' = [result EXCEPT ![i] = r]

\* Path number n of run i.
Path(i, n) == args[i][n]

------------------------------------------------------------------------------
(* init_anchor_pair.                                                       *)

\* Mutant of Check: an existing file is treated as a half-made one.
CheckCleansUp(i, n) ==
    /\ pc[i] = (IF n = 1 THEN "check1" ELSE "check2")
    /\ Goto(i, IF file[Path(i, n)] # Absent THEN "cleanupBoth"
               ELSE IF n = 1 THEN "check2" ELSE "create1")
    /\ UNCHANGED <<file, content, args, srv, issued>>

\* The existence check, one path after the other.
Check(i, n) ==
    /\ pc[i] = (IF n = 1 THEN "check1" ELSE "check2")
    /\ \/ file[Path(i, n)] # Absent /\ Return(i, "AnchorExists")
       \/ /\ file[Path(i, n)] = Absent
          /\ Goto(i, IF n = 1 THEN "check2" ELSE "create1")
    /\ UNCHANGED <<file, content, args, srv, issued>>

\* Mutant of Create: the open has no O_EXCL.
CreateOver(i, n) ==
    /\ pc[i] = (IF n = 1 THEN "create1" ELSE "create2")
    /\ file' = [file EXCEPT ![Path(i, n)] = i]
    /\ Goto(i, IF n = 1 THEN "write1" ELSE "write2")
    /\ UNCHANGED <<content, args, srv, issued>>

\* write_one, the open with O_CREAT and O_EXCL.
Create(i, n) ==
    /\ pc[i] = (IF n = 1 THEN "create1" ELSE "create2")
    /\ \/ /\ file[Path(i, n)] = Absent
          /\ file' = [file EXCEPT ![Path(i, n)] = i]
          /\ Goto(i, IF n = 1 THEN "write1" ELSE "write2")
       \/ /\ file[Path(i, n)] # Absent
          /\ UNCHANGED file
          /\ IF n = 1 THEN Return(i, "AnchorExists") ELSE Goto(i, "cleanup1")
    /\ UNCHANGED <<content, args, srv, issued>>

\* write_one, write_full and the two fsyncs.
Write(i, n) ==
    /\ pc[i] = (IF n = 1 THEN "write1" ELSE "write2")
    /\ content' = [content EXCEPT ![i][Path(i, n)] = 0]
    /\ Goto(i, IF n = 1 THEN "create2" ELSE "verify1")
    /\ UNCHANGED <<file, args, srv, issued>>

\* The same, failing: before the bytes are there, or at an fsync after.
WriteFails(i, n) ==
    /\ pc[i] = (IF n = 1 THEN "write1" ELSE "write2")
    /\ \E v \in {Unreadable, 0} : content' = [content EXCEPT ![i][Path(i, n)] = v]
    /\ IF n = 1 THEN Return(i, "Io") ELSE Goto(i, "cleanup1")
    /\ UNCHANGED <<file, args, srv, issued>>

\* What reading path p gives.
ReadBack(p) ==
    IF file[p] = Absent THEN Unreadable ELSE content[file[p]][p]

\* Each copy must read back as the record that was written; else, and when
\* the read fails, both are removed.
Verify(i, n) ==
    /\ pc[i] = (IF n = 1 THEN "verify1" ELSE "verify2")
    /\ \/ /\ ReadBack(Path(i, n)) = 0
          /\ IF n = 1 THEN Goto(i, "verify2") ELSE Return(i, "Ok")
       \/ Goto(i, "cleanupBoth")
    /\ UNCHANGED <<file, content, args, srv, issued>>

\* cleanup_partial of the first path, after the second could not be written,
\* or of both; it removes what the path leads to, or fails.
Cleanup(i) ==
    /\ pc[i] \in {"cleanup1", "cleanupBoth"}
    /\ \/ /\ file' = [p \in Paths |->
                         IF p = Path(i, 1) \/ pc[i] = "cleanupBoth"
                         THEN Absent ELSE file[p]]
          /\ Return(i, IF pc[i] = "cleanup1" THEN "Io" ELSE "VerifyFailed")
       \/ UNCHANGED file /\ Return(i, "CleanupFailed")
       \/ /\ pc[i] = "cleanupBoth"
          /\ file' = [file EXCEPT ![Path(i, 1)] = Absent]
          /\ Return(i, "CleanupFailed")
    /\ UNCHANGED <<content, args, srv, issued>>

\* The command is killed.
Killed(i) ==
    /\ pc[i] # "done" /\ Return(i, "Killed")
    /\ UNCHANGED <<file, content, args, srv, issued>>

------------------------------------------------------------------------------
(* The servers that use the pair: recovery and allocator as one step each. *)

\* startup_recover and Allocator::open, which lock the files they opened.
Serve(s) ==
    /\ srv[s] = Down
    /\ ServeDuringInit \/ \A i \in Runs : pc[i] \in {"check1", "done"}
    /\ \A p \in Paths : ReadBack(p) # Unreadable
    /\ \A t \in Servers, p \in Paths : srv[t].on[p] # file[p]
    /\ srv' = [srv EXCEPT ![s] =
                  [on |-> file,
                   next |-> IF ReadBack("A") > ReadBack("B")
                            THEN ReadBack("A") ELSE ReadBack("B")]]
    /\ UNCHANGED <<file, content, args, pc, result, issued>>

\* issue(): the pointer reaches both opened files before the segment leaves.
Issue(s) ==
    /\ srv[s] # Down /\ srv[s].next < SegmentCount
    /\ srv' = [srv EXCEPT ![s].next = @ + 1]
    /\ content' = [i \in Runs |-> [p \in Paths |->
           IF srv[s].on[p] = i THEN srv[s].next + 1 ELSE content[i][p]]]
    /\ issued' = [issued EXCEPT ![srv[s].next] = @ + 1]
    /\ UNCHANGED <<file, args, pc, result>>

Stop(s) ==
    /\ srv[s] # Down
    /\ srv' = [srv EXCEPT ![s] = Down]
    /\ UNCHANGED <<file, content, args, pc, result, issued>>

InitRun(i) ==
    \/ \E n \in {1, 2} : \/ Check(i, n) \/ Create(i, n) \/ Write(i, n)
                         \/ WriteFails(i, n) \/ Verify(i, n)
    \/ Cleanup(i) \/ Killed(i)

------------------------------------------------------------------------------
\* A run that returned Ok left a pair, both files its own and both readable;
\* nothing another run or a server does takes it away again.
SuccessIsPair ==
    \A i \in Runs : result[i] = "Ok" =>
        \A p \in Paths : file[p] = i /\ content[i][p] # Unreadable

\* A run never replaces a file that is there: the pointer in an anchor that
\* has been in use cannot be set back to 0 ("refuse if it exists").
NeverOverwrites ==
    [][\A p \in Paths : file[p] # Absent => file'[p] \in {file[p], Absent}]_vars
============================================================================
