------------------------------ MODULE Terminal ------------------------------
(***************************************************************************)
(* The terminal server (crate otp-terminal, hub.rs and server.rs): the     *)
(* registry of PTYs, their write leases, and one connection thread per     *)
(* client running drive().                                                 *)
(*                                                                         *)
(* A thread takes the lease mutex, the PTY mutex and the registry mutex    *)
(* for one call at a time; between two calls any other thread may run, and *)
(* the lease may expire.  Each such call is a step.                        *)
(*                                                                         *)
(* The registry mutex is held for the whole of TerminalRegistry::open, in  *)
(* which the spawn thread starts a shell: until it is there, or failed, no *)
(* other connection can open, attach or retire.                            *)
(*                                                                         *)
(* Abstractions: an Input frame is a number of slices; what the bytes of a *)
(* frame say is left out.  A read that reports Eof finds no more output,   *)
(* so pty_eof adds nothing to out and poll_exit and is not kept.  A client *)
(* may send any frame at any time.                                         *)
(***************************************************************************)
EXTENDS Pty

CONSTANT MaxSlices   \* bound on the slices of one Input frame

ASSUME TerminalAssumption == MaxSlices \in Nat

VARIABLES
    nextHandle,   \* RegInner::next_handle
    registered,   \* handles in RegInner::hubs
    opener,       \* connection that holds the registry mutex in open()
    lease,        \* lease[h]: LeaseInner of the hub with handle h
    exitSeen,     \* exitSeen[h]: PtySlot::exit is filled
    pc,           \* pc[c]: the next call of the thread of connection c
    on,           \* on[c]: handle of the hub c is attached to, 0 for none
    tok,          \* tok[c]: token of c's LeaseGrant, 0 for none
    slices,       \* slices[c]: slices of the current Input still to write
    ending,       \* ending[c]: end is set, the rest of this turn still runs
    exitSent,     \* exitSent[c]: exit_sent_at is set
    writer        \* writer[h]: token of the last write to the PTY

regVars == <<nextHandle, registered, opener>>
hubVars == <<regVars, lease, exitSeen, ptyVars>>
connVars == <<on, tok, slices, ending, exitSent>>
vars == <<regVars, lease, exitSeen, ptyVars, pc, connVars, writer>>

Labels == {"first", "open", "acquire", "granted", "recv", "resize", "write",
           "sliceDrain", "drain", "exit", "check", "finish", "retire", "done",
           "gone"}

\* The types of the hub's state and of each thread's locals in drive(); in
\* particular no thread writes more slices than its Input frame had.
TypeOK ==
    /\ nextHandle \in 1 .. MaxHandle + 1
    /\ registered \subseteq Handles
    /\ lease \in [Handles -> LeaseRecord]
    /\ opener \in Conn \cup {NoConn}
    /\ PtyTypeOK
    /\ exitSeen \in [Handles -> BOOLEAN]
    /\ pc \in [Conn -> Labels]
    /\ on \in [Conn -> Handles \cup {0}]
    /\ tok \in [Conn -> Nat]
    /\ slices \in [Conn -> 0 .. MaxSlices]
    /\ ending \in [Conn -> BOOLEAN]
    /\ exitSent \in [Conn -> BOOLEAN]
    /\ writer \in [Handles -> Nat]

Init ==
    /\ nextHandle = 1
    /\ registered = {}
    /\ lease = [h \in Handles |-> NewLease]
    /\ opener = NoConn
    /\ PtyInit
    /\ exitSeen = [h \in Handles |-> FALSE]
    /\ pc = [c \in Conn |-> "first"]
    /\ on = [c \in Conn |-> 0]
    /\ tok = [c \in Conn |-> 0]
    /\ slices = [c \in Conn |-> 0]
    /\ ending = [c \in Conn |-> FALSE]
    /\ exitSent = [c \in Conn |-> FALSE]
    /\ writer = [h \in Handles |-> 0]

Goto(c, l) == pc' = [pc EXCEPT ![c] = l]

Mine(c) == IsCurrent(lease[on[c]], tok[c])

\* The write gate is passed and the exit of the shell was not seen yet.
Gated(c) == Mine(c) /\ ~exitSeen[on[c]]

\* write_all_bounded of one slice: all of it reaches the PTY, or the budget
\* runs out or the PTY hangs up when none or a part of it has.
WriteAllBounded(c, ok) ==
    \/ writer' = [writer EXCEPT ![on[c]] = tok[c]]
    \/ ~ok /\ UNCHANGED writer

\* set_winsize: one TIOCSWINSZ, which may fail.
SetWinsize(c) == writer' = [writer EXCEPT ![on[c]] = tok[c]] \/ UNCHANGED writer

-----------------------------------------------------------------------------
(***************************************************************************)
(* The first frame and the arbitration of the lease.                       *)
(***************************************************************************)

\* The registry mutex is free, the calling thread may take it for one call.
Unlocked == opener = NoConn

\* The handle of the terminal that is being opened.
Opening == nextHandle - 1

\* Open: TerminalRegistry::open takes the next handle and asks the spawn
\* thread for a shell.
FirstOpen(c) ==
    /\ pc[c] = "first" /\ Unlocked
    /\ nextHandle \in Handles
    /\ nextHandle' = nextHandle + 1
    /\ opener' = c
    /\ Goto(c, "open")
    /\ UNCHANGED <<registered, lease, exitSeen, ptyVars, connVars, writer>>

\* The shell was executed: the terminal is registered.
OpenReturns(c) ==
    /\ pc[c] = "open"
    /\ shell[Opening] = "running" \/ Over(Opening)
    /\ registered' = registered \cup {Opening}
    /\ opener' = NoConn
    /\ on' = [on EXCEPT ![c] = Opening]
    /\ Goto(c, "acquire")
    /\ UNCHANGED <<nextHandle, lease, exitSeen, ptyVars, tok, slices, ending,
                   exitSent, writer>>

\* There is no spawn thread, no PTY or no child, or the exec failed: the
\* handle is used up, the connection ends.
OpenFails(c) ==
    /\ pc[c] = "open"
    /\ shell[Opening] \in {"none", "master", "aborted"}
    /\ shell' = [shell EXCEPT ![Opening] = "aborted"]
    /\ opener' = NoConn
    /\ Goto(c, "done")
    /\ UNCHANGED <<nextHandle, registered, lease, exitSeen, alive, anchor, out,
                   connVars, writer>>

\* Attach: an unregistered handle is denied as Gone.
FirstAttach(c, h) ==
    /\ pc[c] = "first" /\ Unlocked
    /\ IF h \in registered
       THEN on' = [on EXCEPT ![c] = h] /\ Goto(c, "acquire")
       ELSE UNCHANGED on /\ Goto(c, "done")
    /\ UNCHANGED <<hubVars, tok, slices, ending, exitSent, writer>>

\* Any other frame, a closed connection or no first frame in time.
FirstFails(c) ==
    /\ pc[c] = "first"
    /\ Goto(c, "done")
    /\ UNCHANGED <<hubVars, connVars, writer>>

\* hub.acquire: Denied{Busy} while the holder is active.
Acquire(c) ==
    /\ pc[c] = "acquire"
    /\ IF Busy(lease[on[c]])
       THEN UNCHANGED <<lease, tok>> /\ Goto(c, "done")
       ELSE /\ lease' = [lease EXCEPT ![on[c]] = Granted(lease[on[c]], c)]
            /\ tok' = [tok EXCEPT ![c] = lease'[on[c]].token]
            /\ Goto(c, "granted")
    /\ UNCHANGED <<regVars, exitSeen, ptyVars, on, slices, ending, exitSent,
                   writer>>

\* Granted is sent and the window aligned; a refused resize is ignored.
SendGranted(c) ==
    /\ pc[c] = "granted"
    /\ IF Gated(c) THEN SetWinsize(c) ELSE UNCHANGED writer
    /\ Goto(c, "recv")
    /\ UNCHANGED <<hubVars, connVars>>

DropGrant(c) ==
    lease' = [lease EXCEPT ![on[c]] = Dropped(lease[on[c]], tok[c])]

\* A frame cannot be sent where drive returns the error at once (Granted and
\* Exit): the guard is dropped, nothing is retired.
SendFails(c) ==
    /\ \/ pc[c] = "granted" /\ UNCHANGED exitSeen
       \/ /\ pc[c] = "exit" /\ ~exitSent[c] /\ Over(on[c])
          /\ exitSeen' = [exitSeen EXCEPT ![on[c]] = TRUE]
    /\ DropGrant(c)
    /\ Goto(c, "done")
    /\ UNCHANGED <<regVars, ptyVars, connVars, writer>>

-----------------------------------------------------------------------------
(***************************************************************************)
(* One turn of the data plane: receive, drain, exit path, lease check.     *)
(***************************************************************************)

\* A frame arrived: it renews the lease first, unless the lease is lost.
Heartbeat(c) ==
    lease' = IF Mine(c) THEN [lease EXCEPT ![on[c]] = Renewed(lease[on[c]])]
                        ELSE lease

RecvInput(c) ==
    /\ pc[c] = "recv"
    /\ Heartbeat(c)
    /\ IF Mine(c)
       THEN /\ \E n \in 1 .. MaxSlices : slices' = [slices EXCEPT ![c] = n]
            /\ Goto(c, "write")
       ELSE UNCHANGED slices /\ Goto(c, "finish")
    /\ UNCHANGED <<regVars, exitSeen, ptyVars, on, tok, ending, exitSent,
                   writer>>

RecvResize(c) ==
    /\ pc[c] = "recv"
    /\ Heartbeat(c)
    /\ Goto(c, IF Mine(c) THEN "resize" ELSE "finish")
    /\ UNCHANGED <<regVars, exitSeen, ptyVars, connVars, writer>>

RecvPing(c) ==
    /\ pc[c] = "recv"
    /\ Heartbeat(c)
    /\ Goto(c, "drain")
    /\ UNCHANGED <<regVars, exitSeen, ptyVars, connVars, writer>>

\* A frame a client may not send.
RecvUnexpected(c) ==
    /\ pc[c] = "recv"
    /\ Heartbeat(c)
    /\ Goto(c, "finish")
    /\ UNCHANGED <<regVars, exitSeen, ptyVars, connVars, writer>>

\* Nothing arrived within the poll slice.
RecvTimeout(c) ==
    /\ pc[c] = "recv"
    /\ Goto(c, "drain")
    /\ UNCHANGED <<hubVars, connVars, writer>>

\* The connection is gone or broken; expected once Exit was sent.
RecvClosed(c) ==
    /\ pc[c] = "recv"
    /\ Goto(c, IF exitSent[c] THEN "drain" ELSE "finish")
    /\ UNCHANGED <<hubVars, connVars, writer>>

\* The write gate around TIOCSWINSZ; only a stale token ends the connection.
Resize(c) ==
    /\ pc[c] = "resize"
    /\ IF Gated(c) THEN SetWinsize(c) ELSE UNCHANGED writer
    /\ Goto(c, IF Mine(c) THEN "drain" ELSE "finish")
    /\ UNCHANGED <<hubVars, connVars>>

\* The write gate around one slice of input.
WriteSlice(c) ==
    /\ pc[c] = "write"
    /\ Gated(c)
    /\ WriteAllBounded(c, TRUE)
    /\ slices' = [slices EXCEPT ![c] = @ - 1]
    /\ Goto(c, "sliceDrain")
    /\ UNCHANGED <<hubVars, on, tok, ending, exitSent>>

\* A stale token, an exited shell or a write over budget, part of which may
\* have reached the PTY: the remaining slices are dropped and the connection
\* ends after this turn.
WriteFails(c) ==
    /\ pc[c] = "write"
    /\ IF Gated(c) THEN WriteAllBounded(c, FALSE) ELSE UNCHANGED writer
    /\ slices' = [slices EXCEPT ![c] = 0]
    /\ ending' = [ending EXCEPT ![c] = TRUE]
    /\ Goto(c, "drain")
    /\ UNCHANGED <<hubVars, on, tok, exitSent>>

\* drain_pty reads until it has a chunk or the master is empty, with no look
\* at the lease.
Drained(c) == out' = [out EXCEPT ![on[c]] = @ - ReadTimeout(on[c])]

\* The echo is read before the next slice is written.
DrainBetweenSlices(c) ==
    /\ pc[c] = "sliceDrain"
    /\ Drained(c)
    /\ Goto(c, IF slices[c] > 0 THEN "write" ELSE "drain")
    /\ UNCHANGED <<regVars, lease, exitSeen, alive, shell, anchor, connVars,
                   writer>>

Drain(c) ==
    /\ pc[c] = "drain"
    /\ Drained(c)
    /\ Goto(c, "exit")
    /\ UNCHANGED <<regVars, lease, exitSeen, alive, shell, anchor, connVars,
                   writer>>

\* The output is read but the client cannot be reached.
DrainFails(c) ==
    /\ \/ /\ pc[c] = "sliceDrain"
          /\ slices' = [slices EXCEPT ![c] = 0]
          /\ ending' = [ending EXCEPT ![c] = TRUE]
          /\ Goto(c, "drain")
       \/ /\ pc[c] = "drain"
          /\ Goto(c, "finish")
          /\ UNCHANGED <<slices, ending>>
    /\ Drained(c)
    /\ UNCHANGED <<regVars, lease, exitSeen, alive, shell, anchor, on, tok,
                   exitSent, writer>>

\* The end of a turn that does not wait for the exit grace.
EndTurn(c) == Goto(c, IF ending[c] THEN "finish" ELSE "check")

\* poll_exit: the shell still runs.
NoExit(c) ==
    /\ pc[c] = "exit"
    /\ ~exitSent[c] /\ ~Over(on[c])
    /\ EndTurn(c)
    /\ UNCHANGED <<hubVars, connVars, writer>>

\* Mutant of SendExit: exit_sent_at is not set.
SendExitForgets(c) ==
    /\ pc[c] = "exit"
    /\ ~exitSent[c] /\ Over(on[c])
    /\ exitSeen' = [exitSeen EXCEPT ![on[c]] = TRUE]
    /\ EndTurn(c)
    /\ UNCHANGED <<regVars, lease, ptyVars, connVars, writer>>

\* poll_exit caches the exit code; it is sent to the client.
SendExit(c) ==
    /\ pc[c] = "exit"
    /\ ~exitSent[c] /\ Over(on[c])
    /\ exitSeen' = [exitSeen EXCEPT ![on[c]] = TRUE]
    /\ exitSent' = [exitSent EXCEPT ![c] = TRUE]
    /\ UNCHANGED <<pc, regVars, lease, ptyVars, on, tok, slices, ending,
                   writer>>

ExitWait(c) ==
    /\ pc[c] = "exit" /\ exitSent[c]
    /\ EndTurn(c)
    /\ UNCHANGED <<hubVars, connVars, writer>>

\* exit_grace is over.
ExitGrace(c) ==
    /\ pc[c] = "exit" /\ exitSent[c]
    /\ Goto(c, "finish")
    /\ UNCHANGED <<hubVars, connVars, writer>>

\* Mutant of Check: the lease is not looked at between turns.
CheckNothing(c) ==
    /\ pc[c] = "check"
    /\ Goto(c, "recv")
    /\ UNCHANGED <<hubVars, connVars, writer>>

\* Taken over or expired: Fenced or LeaseExpired.  Not asked after Exit.
Check(c) ==
    /\ pc[c] = "check"
    /\ Goto(c, IF exitSent[c] \/ Mine(c) THEN "recv" ELSE "finish")
    /\ UNCHANGED <<hubVars, connVars, writer>>

-----------------------------------------------------------------------------
(***************************************************************************)
(* The end of a connection: drop(grant), then retire an exited terminal.   *)
(***************************************************************************)
Finish(c) ==
    /\ pc[c] = "finish"
    /\ DropGrant(c)
    /\ Goto(c, "retire")
    /\ UNCHANGED <<regVars, exitSeen, ptyVars, connVars, writer>>

\* has_exited looks only at the cached exit code.
Retire(c) ==
    /\ pc[c] = "retire" /\ Unlocked
    /\ registered' = registered \ {h \in {on[c]} : exitSeen[h]}
    /\ Goto(c, "done")
    /\ UNCHANGED <<nextHandle, opener, lease, exitSeen, ptyVars, connVars,
                   writer>>

\* The thread of a connection ends and drops its reference to the hub; the
\* last one to a terminal that is no longer registered kills and reaps.
ThreadEnds(c) ==
    /\ pc[c] = "done"
    /\ ThreadDies(c, {h \in {on[c]} \ registered :
                        \A d \in Conn \ {c} : on[d] = h => pc[d] = "gone"})
    /\ Goto(c, "gone")
    /\ UNCHANGED <<regVars, lease, exitSeen, connVars, writer>>

-----------------------------------------------------------------------------
(***************************************************************************)
(* The spawn thread, the children, time and the end of the process.        *)
(***************************************************************************)
Spawn(c) ==
    /\ pc[c] = "open"
    /\ OpenMaster(Opening) \/ Fork(Opening, c)
    /\ UNCHANGED <<regVars, lease, exitSeen, pc, connVars, writer>>

Child(h) ==
    /\ ChildArms(h) \/ ChildExecs(h)
    /\ UNCHANGED <<regVars, lease, exitSeen, pc, connVars, writer>>

Shell(h) ==
    /\ ShellOutput(h) \/ ShellExits(h)
    /\ UNCHANGED <<regVars, lease, exitSeen, pc, connVars, writer>>

ServeKilled ==
    /\ ServeDies
    /\ UNCHANGED <<regVars, lease, exitSeen, pc, connVars, writer>>

\* Nothing renewed the lease for longer than the timeout.
LeaseExpires(h) ==
    /\ alive
    /\ lease[h].holder # NoConn /\ ~lease[h].expired
    /\ lease' = [lease EXCEPT ![h].expired = TRUE]
    /\ UNCHANGED <<regVars, exitSeen, ptyVars, pc, connVars, writer>>

Arrive(c) ==
    /\ alive
    /\ \/ FirstOpen(c) \/ FirstFails(c)
       \/ \E h \in Handles : FirstAttach(c, h)

\* A step of a thread that has its first frame.
Drive(c) ==
    /\ alive
    /\ \/ Spawn(c) \/ OpenReturns(c) \/ OpenFails(c)
       \/ Acquire(c) \/ SendGranted(c) \/ SendFails(c)
       \/ RecvInput(c) \/ RecvResize(c) \/ RecvPing(c) \/ RecvUnexpected(c)
       \/ RecvTimeout(c) \/ RecvClosed(c)
       \/ Resize(c) \/ WriteSlice(c) \/ WriteFails(c)
       \/ DrainBetweenSlices(c) \/ Drain(c) \/ DrainFails(c)
       \/ NoExit(c) \/ SendExit(c) \/ ExitWait(c) \/ ExitGrace(c) \/ Check(c)
       \/ Finish(c) \/ Retire(c) \/ ThreadEnds(c)

Next ==
    \/ \E c \in Conn : Arrive(c) \/ Drive(c)
    \/ \E h \in Handles : Child(h) \/ Shell(h) \/ LeaseExpires(h)
    \/ ServeKilled

Spec == Init /\ [][Next]_vars

(***************************************************************************)
(* Every call of a connection thread returns (receiving and PTY writes are *)
(* bounded by the poll slice and the write budget, and the mutexes are     *)
(* held for such calls only), so a thread that can run goes on; a child    *)
(* runs on to its exec; and the exit grace, 250 ms of monotonic time, ends.*)
(* The registry mutex is not fair: a thread gets it in the end because     *)
(* only finitely many terminals are opened (MaxHandle).                    *)
(***************************************************************************)
Fairness ==
    /\ \A c \in Conn : WF_vars(Drive(c)) /\ SF_vars(alive /\ ExitGrace(c))
    /\ \A h \in Handles : WF_vars(Child(h))

FairSpec == Spec /\ Fairness

-----------------------------------------------------------------------------
(***************************************************************************)
(* Properties.                                                             *)
(***************************************************************************)

Attached(c, h) == on[c] = h /\ tok[c] > 0

Ended(c) == pc[c] \in {"done", "gone"}

\* Fencing: once a later holder wrote to a PTY (input or window size), no
\* earlier holder ever writes to it again.
WritesFenced == [][ \A h \in Handles : writer'[h] >= writer[h] ]_vars

\* A PTY has one holder: each connection that was ever granted its lease has
\* a token of its own, the newest is the lease's token and holder, and only
\* the end of that connection marks the lease abandoned; a connection that
\* was taken over cannot release its successor's lease.
OneHolder ==
    \A h \in Handles : \A c \in Conn : Attached(c, h) =>
        /\ \A d \in Conn : Attached(d, h) /\ tok[c] = tok[d] => c = d
        /\ tok[c] <= lease[h].token
        /\ tok[c] = lease[h].token =>
             /\ lease[h].holder = c
             /\ lease[h].abandoned <=> pc[c] = "retire" \/ Ended(c)

\* Losing connections does not lose the terminal: a shell that runs goes on
\* and stays attachable until it exits by itself or serve is killed.  (The
\* end of a thread signals its children, the last reference to a hub kills.)
ShellOutlivesConnections ==
    [][ \A h \in Handles : shell[h] = "running" =>
          \/ shell'[h] = "running" /\ (h \in registered => h \in registered')
          \/ shell'[h] = "exited"
          \/ ~alive' ]_vars

\* A connection whose lease was taken over ends, whatever its client sends,
\* unless the whole process does.
FencedEnds ==
    \A c \in Conn : \A h \in Handles :
        (Attached(c, h) /\ tok[c] < lease[h].token) ~> (Ended(c) \/ ~alive)

\* The exit of a shell ends every connection attached to its terminal.
ExitEndsConnections ==
    \A c \in Conn : \A h \in Handles :
        (Attached(c, h) /\ Over(h)) ~> (Ended(c) \/ ~alive)
=============================================================================
