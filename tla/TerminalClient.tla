--------------------------- MODULE TerminalClient ---------------------------
(***************************************************************************)
(* The terminal client (crate otp-terminal, client.rs): attach, the        *)
(* interactive pump with its stdin thread, wait_exit; together with one    *)
(* connection of the server (server.rs, in detail in module Terminal) and  *)
(* the time that passes.                                                   *)
(*                                                                         *)
(* A tick is an upper bound on what one turn of either loop takes when     *)
(* nothing holds it up (the poll of 30 ms, the slice of 25 ms).  A turn    *)
(* may be shorter, so each loop makes at least one turn between two ticks, *)
(* and it may be held up: the client by its own stdout and by a full       *)
(* connection, the server by a PTY that takes no input.  Clocks stop       *)
(* counting one past the largest value they are compared with.             *)
(*                                                                         *)
(* A read of stdin (8192 bytes) is one Input frame, being shorter than     *)
(* DATA_CHUNK_MAX; a write of it to the PTY is held up as a whole.         *)
(***************************************************************************)
EXTENDS Naturals, Sequences

CONSTANTS
    PingInterval,    \* all times in ticks; CONNECT_PING_INTERVAL, 1 s
    PingDeadline,    \* 2 s
    DetachGrace,     \* 800 ms
    AttachTimeout,   \* ClientOptions::attach_timeout
    ExitBudget,      \* the budget of wait_exit
    LeaseTimeout,    \* --lease-timeout-ms
    ExitGraceTime,   \* ServeOptions::exit_grace, 250 ms
    MaxStall,        \* the longest a write to the client's stdout takes
    MaxHold,         \* the longest the write of an Input to the PTY takes
    Capacity,        \* frames the connection holds, each way
    MaxReads,        \* bound on the reads of stdin and changes of the window
    MaxChunks        \* bound on the output waiting in the PTY

ASSUME ClientAssumption ==
    /\ {PingInterval, PingDeadline, DetachGrace, AttachTimeout, ExitBudget,
        ExitGraceTime, Capacity} \subseteq Nat \ {0}
    /\ {MaxStall, MaxHold, MaxReads, MaxChunks} \subseteq Nat
    /\ LeaseTimeout \in Nat /\ LeaseTimeout >= MaxHold
    /\ LeaseTimeout >= PingInterval + 3 /\ LeaseTimeout >= PingInterval + MaxStall + 2

\* An upper bound on the ticks from one read of the pump to the next: its stdout,
\* and three sends that may each find the connection full.
TurnTime == MaxStall + 6

\* The exit grace is long enough for the client to read n frames.
InTime(n) == n * TurnTime < ExitGraceTime

\* A clock that has not been started; no clock that runs gets this far.
NotYet == DetachGrace + ExitGraceTime

VARIABLES
    cl,      \* the client: where it is, its clocks, its result
    sv,      \* the connection's thread in the server: the same, and sv.backlog,
             \* how many frames were in the connection once Exit was sent
    up,      \* frames on the way to the server, and whether the client closed
    down,    \* frames on the way to the client, and whether the server closed
    user,    \* reads of stdin left, channel of the reader thread, window changed
    child,   \* [alive, out]: the shell, and output chunks waiting in the PTY
    ran      \* ran.c, ran.s: the loop has made a turn, or is held up, since the tick

pairVars == <<cl, sv, up, down, user, child, ran>>

ClientInit ==
    [pc |-> "attach", driver |-> "interactive", result |-> "none", mode |-> "New",
     sincePing |-> 0, sinceEof |-> NotYet, waited |-> 0, deadline |-> 1,
     patience |-> 0, stall |-> 0]

ServerInit ==
    [pc |-> "first", end |-> "none", ending |-> FALSE, age |-> 0, hold |-> 0,
     exitAge |-> NotYet, backlog |-> 0]

PairInit ==
    /\ \E d \in {"interactive", "wait_exit"}, m \in {"New", "Recover"} :
         cl = [ClientInit EXCEPT !.driver = d, !.mode = m]
    /\ sv = ServerInit
    /\ up = [frames |-> <<>>, closed |-> FALSE]
    /\ down = [frames |-> <<>>, closed |-> FALSE]
    /\ user = [reads |-> MaxReads, queue |-> <<>>, eof |-> FALSE, resized |-> FALSE]
    /\ child = [alive |-> TRUE, out |-> 0]
    /\ ran = [c |-> FALSE, s |-> FALSE]

Sent(wire, f) == [wire EXCEPT !.frames = Append(@, f)]
Received(wire) == [wire EXCEPT !.frames = Tail(@)]
Room(wire) == Len(wire.frames) < Capacity

\* The client returns; session.close and io.close are part of it.
Return(r) ==
    /\ cl' = [ClientInit EXCEPT !.pc = "done", !.result = r, !.driver = cl.driver]
    /\ up' = [up EXCEPT !.closed = TRUE]
    /\ ran' = [ran EXCEPT !.c = TRUE]

Client(l) == cl' = [cl EXCEPT !.pc = l]

-----------------------------------------------------------------------------
(***************************************************************************)
(* attach.                                                                 *)
(***************************************************************************)
AttachSend ==
    /\ cl.pc = "attach"
    /\ up' = Sent(up, IF cl.mode = "New" THEN "Open" ELSE "Attach")
    /\ Client("wait")
    /\ UNCHANGED <<sv, down, user, child, ran>>

\* Granted starts the driver, whose first act is to start the ping clock.
AttachGranted ==
    /\ cl.pc = "wait" /\ down.frames # <<>> /\ Head(down.frames) = "Granted"
    /\ down' = Received(down)
    /\ cl' = [cl EXCEPT !.pc = IF cl.driver = "interactive" THEN "top" ELSE "waitExit",
                        !.sincePing = 0, !.waited = 0]
    /\ ran' = [ran EXCEPT !.c = TRUE]
    /\ UNCHANGED <<sv, up, user, child>>

AttachRefused ==
    /\ cl.pc = "wait" /\ down.frames # <<>> /\ Head(down.frames) # "Granted"
    /\ down' = Received(down)
    /\ Return(CASE Head(down.frames) = "Busy" -> "LeaseHeldByOther"
                [] Head(down.frames) = "Gone" -> "TerminalGone"
                [] OTHER -> "Protocol")
    /\ UNCHANGED <<sv, user, child>>

\* Nothing in 50 ms: give up after attach_timeout.
AttachWaits ==
    /\ cl.pc = "wait" /\ down.frames = <<>> /\ ~ran.c
    /\ \/ down.closed /\ Return("ClosedByPeer")
       \/ ~down.closed /\ cl.waited >= AttachTimeout /\ Return("Timeout")
       \/ /\ ~down.closed /\ cl.waited < AttachTimeout
          /\ ran' = [ran EXCEPT !.c = TRUE]
          /\ UNCHANGED <<cl, up>>
    /\ UNCHANGED <<sv, down, user, child>>

-----------------------------------------------------------------------------
(***************************************************************************)
(* pump: detach, ping, stdin, window, event.                               *)
(***************************************************************************)

\* The grace after the end of stdin is over: the client leaves, with code 0.
Detach ==
    /\ cl.pc = "top"
    /\ cl.sinceEof # NotYet /\ cl.sinceEof >= DetachGrace
    /\ Return("Detached")
    /\ UNCHANGED <<sv, down, user, child>>

\* The write of frame f is under way; it has until the deadline in force.
StartSend(l, deadline) ==
    cl' = [cl EXCEPT !.pc = l, !.deadline = deadline, !.patience = deadline]

PingDue ==
    /\ cl.pc = "top"
    /\ cl.sinceEof = NotYet \/ cl.sinceEof < DetachGrace
    /\ IF cl.sincePing >= PingInterval THEN StartSend("ping", PingDeadline)
                                       ELSE Client("stdin")
    /\ UNCHANGED <<sv, up, down, user, child, ran>>

\* rx.try_recv: the next read of the reader thread, its end, or nothing.
TakeStdin ==
    /\ cl.pc = "stdin"
    /\ \/ user.queue = <<>> /\ Client("window") /\ UNCHANGED user
       \/ /\ user.queue # <<>>
          /\ user' = [user EXCEPT !.queue = Tail(@)]
          /\ \/ Head(user.queue) = "chunk" /\ StartSend("input", cl.deadline)
             \/ /\ Head(user.queue) = "eof"
                /\ cl' = [cl EXCEPT !.pc = "window",
                                    !.sinceEof = IF @ = NotYet THEN 0 ELSE @]
    /\ UNCHANGED <<sv, up, down, child, ran>>

\* window_probe; Resize only when it differs from the last one.
ProbeWindow ==
    /\ cl.pc = "window"
    /\ user' = [user EXCEPT !.resized = FALSE]
    /\ IF user.resized THEN StartSend("resize", cl.deadline) ELSE Client("poll")
    /\ UNCHANGED <<sv, up, down, child, ran>>

\* send_frame returns: the frame is in the connection.  Ping and input restart
\* the ping clock.
SendDone ==
    /\ cl.pc \in {"ping", "input", "resize"}
    /\ Room(up)
    /\ up' = Sent(up, cl.pc)
    /\ cl' = [cl EXCEPT !.pc = CASE cl.pc = "ping" -> "stdin"
                                 [] cl.pc = "input" -> "window"
                                 [] OTHER -> "poll",
                        !.sincePing = IF cl.pc = "resize" THEN @ ELSE 0,
                        !.patience = 0]
    /\ UNCHANGED <<sv, down, user, child, ran>>

\* The connection is full, or the server has closed it.
SendBlocks ==
    /\ cl.pc \in {"ping", "input", "resize"} /\ ~Room(up) /\ cl.patience > 0
    /\ ~ran.c
    /\ ran' = [ran EXCEPT !.c = TRUE]
    /\ UNCHANGED <<cl, sv, up, down, user, child>>

SendError ==
    /\ cl.pc \in {"ping", "input", "resize"}
    /\ \/ ~Room(up) /\ cl.patience = 0 /\ Return("SendTimeout")
       \/ sv.pc = "done" /\ Return("Disconnected")
    /\ UNCHANGED <<sv, down, user, child>>

\* Mutant of PollOutput: output restarts the ping clock, as before the rework.
PollOutputResets ==
    /\ cl.pc = "poll" /\ down.frames # <<>> /\ Head(down.frames) = "Output"
    /\ down' = Received(down)
    /\ \/ /\ \E n \in 0 .. MaxStall :
               cl' = [cl EXCEPT !.pc = IF n = 0 THEN "top" ELSE "stdout",
                                !.stall = n, !.deadline = 1, !.sincePing = 0]
          /\ ran' = [ran EXCEPT !.c = TRUE]
          /\ UNCHANGED up
       \/ Return("Io")
    /\ UNCHANGED <<sv, user, child>>

\* Mutant of PollOutput: output restarts the grace after the end of stdin.
PollOutputExtends ==
    /\ cl.pc = "poll" /\ down.frames # <<>> /\ Head(down.frames) = "Output"
    /\ down' = Received(down)
    /\ \/ /\ \E n \in 0 .. MaxStall :
               cl' = [cl EXCEPT !.pc = IF n = 0 THEN "top" ELSE "stdout",
                                !.stall = n, !.deadline = 1,
                                !.sinceEof = IF @ = NotYet THEN @ ELSE 0]
          /\ ran' = [ran EXCEPT !.c = TRUE]
          /\ UNCHANGED up
       \/ Return("Io")
    /\ UNCHANGED <<sv, user, child>>

\* poll_event: output goes to stdout, which may take its time or fail.
PollOutput ==
    /\ cl.pc = "poll" /\ down.frames # <<>> /\ Head(down.frames) = "Output"
    /\ down' = Received(down)
    /\ \/ /\ \E n \in 0 .. MaxStall :
               cl' = [cl EXCEPT !.pc = IF n = 0 THEN "top" ELSE "stdout",
                                !.stall = n, !.deadline = 1]
          /\ ran' = [ran EXCEPT !.c = TRUE]
          /\ UNCHANGED up
       \/ Return("Io")
    /\ UNCHANGED <<sv, user, child>>

StdoutWritten ==
    /\ cl.pc = "stdout" /\ cl.stall = 0
    /\ Client("top")
    /\ UNCHANGED <<sv, up, down, user, child, ran>>

PollExit ==
    /\ cl.pc \in {"poll", "waitExit"} /\ down.frames # <<>> /\ Head(down.frames) = "Exit"
    /\ down' = Received(down)
    /\ Return("Exit")
    /\ UNCHANGED <<sv, user, child>>

\* Mutant of PollEmpty: the end of the connection is seen before what was sent.
PollEndFirst ==
    /\ cl.pc = "poll"
    /\ \/ down.closed /\ Return("ClosedByPeer")
       \/ /\ down.frames = <<>> /\ ~down.closed /\ ~ran.c
          /\ cl' = [cl EXCEPT !.pc = "top", !.deadline = 1]
          /\ ran' = [ran EXCEPT !.c = TRUE]
          /\ UNCHANGED up
    /\ UNCHANGED <<sv, down, user, child>>

\* Nothing within 30 ms, or the connection has ended with nothing left to read.
PollEmpty ==
    /\ cl.pc = "poll" /\ down.frames = <<>>
    /\ \/ down.closed /\ Return("ClosedByPeer")
       \/ /\ ~down.closed /\ ~ran.c
          /\ cl' = [cl EXCEPT !.pc = "top", !.deadline = 1]
          /\ ran' = [ran EXCEPT !.c = TRUE]
          /\ UNCHANGED up
    /\ UNCHANGED <<sv, down, user, child>>

\* wait_exit: the same events within a budget, without pings.
WaitExit ==
    /\ cl.pc = "waitExit"
    /\ \/ cl.waited >= ExitBudget /\ Return("Timeout") /\ UNCHANGED down
       \/ /\ cl.waited < ExitBudget
          /\ \/ /\ down.frames # <<>> /\ Head(down.frames) = "Output"
                /\ down' = Received(down)
                /\ ran' = [ran EXCEPT !.c = TRUE]
                /\ UNCHANGED <<cl, up>>
             \/ down.frames = <<>> /\ down.closed /\ Return("ClosedByPeer") /\ UNCHANGED down
             \/ /\ down.frames = <<>> /\ ~down.closed /\ ~ran.c
                /\ ran' = [ran EXCEPT !.c = TRUE]
                /\ UNCHANGED <<cl, up, down>>
    /\ UNCHANGED <<sv, user, child>>

\* send_input by a caller that drives the session itself.
DirectInput ==
    /\ cl.pc = "waitExit" /\ user.reads > 0 /\ Room(up) /\ sv.pc # "done"
    /\ user' = [user EXCEPT !.reads = @ - 1]
    /\ up' = Sent(up, "input")
    /\ UNCHANGED <<cl, sv, down, child, ran>>

ClientStep ==
    \/ AttachSend \/ AttachGranted \/ AttachRefused \/ AttachWaits
    \/ Detach \/ PingDue \/ TakeStdin \/ ProbeWindow
    \/ SendDone \/ SendBlocks \/ SendError
    \/ PollOutput \/ StdoutWritten \/ PollExit \/ PollEmpty \/ WaitExit
    \/ DirectInput

-----------------------------------------------------------------------------
(***************************************************************************)
(* The connection's thread in the server, a turn in three steps.           *)
(***************************************************************************)
Expired == sv.age > LeaseTimeout

\* drive returns and the connection is closed.
Returned(e) == [ServerInit EXCEPT !.pc = "done", !.end = e, !.backlog = sv.backlog]

EndServer(e) ==
    /\ sv' = Returned(e)
    /\ down' = [down EXCEPT !.closed = TRUE]
    /\ ran' = [ran EXCEPT !.s = TRUE]

\* The first frame: a grant, a denial and the end, or no shell and the end.
ServerFirst ==
    /\ sv.pc = "first" /\ up.frames # <<>>
    /\ up' = Received(up)
    /\ \/ /\ down' = Sent(down, "Granted")
          /\ sv' = [sv EXCEPT !.pc = "run", !.age = 0]
          /\ ran' = [ran EXCEPT !.s = TRUE]
       \/ /\ Head(up.frames) = "Attach"
          /\ \E d \in {"Busy", "Gone"} :
               down' = [Sent(down, d) EXCEPT !.closed = TRUE]
          /\ sv' = [sv EXCEPT !.pc = "done", !.end = "Denied"]
          /\ ran' = [ran EXCEPT !.s = TRUE]
       \/ Head(up.frames) = "Open" /\ EndServer("Failed")
    /\ UNCHANGED <<cl, user, child>>

ServerNoFrame ==
    /\ sv.pc \in {"first", "run"} /\ up.frames = <<>>
    /\ \/ /\ up.closed /\ sv.exitAge = NotYet
          /\ EndServer("PeerClosed")
       \/ /\ ~up.closed \/ sv.exitAge # NotYet
          /\ ~ran.s
          /\ sv' = [sv EXCEPT !.pc = IF sv.pc = "first" THEN "first" ELSE "drain"]
          /\ ran' = [ran EXCEPT !.s = TRUE]
          /\ UNCHANGED down
    /\ UNCHANGED <<cl, up, user, child>>

\* Any frame renews the lease; input may be held up in the PTY, or its write
\* fail, as it does once the exit of the shell was seen: the thread then ends,
\* after the rest of this turn.
ServerRecv ==
    /\ sv.pc = "run" /\ up.frames # <<>>
    /\ up' = Received(up)
    /\ \/ /\ Expired /\ Head(up.frames) # "ping"
          /\ EndServer("Fenced")
       \/ /\ ~Expired \/ Head(up.frames) = "ping"
          /\ \E n \in 0 .. (IF Head(up.frames) = "input" THEN MaxHold ELSE 0),
                fails \in (IF Head(up.frames) = "input" THEN BOOLEAN ELSE {FALSE}) :
               /\ Head(up.frames) = "input" /\ sv.exitAge # NotYet => fails /\ n = 0
               /\ sv' = [sv EXCEPT !.pc = IF n = 0 THEN "drain" ELSE "hold", !.hold = n,
                                   !.ending = fails, !.age = IF Expired THEN @ ELSE 0]
          /\ ran' = [ran EXCEPT !.s = TRUE]
          /\ UNCHANGED down
    /\ UNCHANGED <<cl, user, child>>

ServerHeld ==
    /\ sv.pc = "hold" /\ sv.hold = 0
    /\ sv' = [sv EXCEPT !.pc = "drain"]
    /\ UNCHANGED <<cl, up, down, user, child, ran>>

\* drain_pty: a chunk of output, unless the client cannot be reached.
ServerDrain ==
    /\ sv.pc = "drain"
    /\ \/ /\ child.out = 0
          /\ sv' = [sv EXCEPT !.pc = "exit"]
          /\ UNCHANGED <<down, child, ran>>
       \/ /\ child.out > 0
          /\ child' = [child EXCEPT !.out = @ - 1]
          /\ \/ /\ Room(down) /\ ~down.closed
                /\ down' = Sent(down, "Output")
                /\ sv' = [sv EXCEPT !.pc = "exit"]
                /\ UNCHANGED ran
             \/ /\ ~Room(down) \/ down.closed \/ cl.pc = "done"
                /\ EndServer("Failed")
    /\ UNCHANGED <<cl, up, user>>

\* The loop goes on, unless a write failed in this turn.
NextTurn ==
    \/ sv.ending /\ EndServer("Failed")
    \/ ~sv.ending /\ sv' = [sv EXCEPT !.pc = "run"] /\ UNCHANGED <<down, ran>>

\* The exit code and the end of the stream; else the lease is looked at.
ServerExit ==
    /\ sv.pc = "exit"
    /\ \/ /\ ~child.alive /\ sv.exitAge = NotYet /\ Room(down)
          /\ down' = [Sent(down, "Exit") EXCEPT !.closed = TRUE]
          /\ \/ sv.ending /\ sv' = Returned("Failed") /\ ran' = [ran EXCEPT !.s = TRUE]
             \/ /\ ~sv.ending /\ UNCHANGED ran
                /\ sv' = [sv EXCEPT !.pc = "run", !.exitAge = 0,
                                    !.backlog = Len(down.frames) + 1]
       \/ /\ ~child.alive /\ sv.exitAge = NotYet
          /\ ~Room(down) \/ cl.pc = "done"
          /\ EndServer("Failed")
       \/ sv.exitAge # NotYet /\ sv.exitAge >= ExitGraceTime /\ EndServer("ShellExited")
       \/ sv.exitAge # NotYet /\ sv.exitAge < ExitGraceTime /\ NextTurn
       \/ child.alive /\ Expired /\ ~sv.ending /\ EndServer("LeaseExpired")
       \/ child.alive /\ (~Expired \/ sv.ending) /\ NextTurn
    /\ UNCHANGED <<cl, up, user, child>>

ServerStep == ServerFirst \/ ServerNoFrame \/ ServerRecv \/ ServerHeld
              \/ ServerDrain \/ ServerExit

-----------------------------------------------------------------------------
(***************************************************************************)
(* The stdin thread, the window, the shell and time.                       *)
(***************************************************************************)

\* The reader thread sends what it read, and None once at the end.
ReaderReads ==
    /\ cl.driver = "interactive" /\ ~user.eof
    /\ \/ /\ user.reads > 0
          /\ user' = [user EXCEPT !.reads = @ - 1, !.queue = Append(@, "chunk")]
       \/ user' = [user EXCEPT !.eof = TRUE, !.queue = Append(@, "eof")]
    /\ UNCHANGED <<cl, sv, up, down, child, ran>>

WindowChanges ==
    /\ cl.driver = "interactive" /\ user.reads > 0 /\ ~user.resized
    /\ user' = [user EXCEPT !.resized = TRUE, !.reads = @ - 1]
    /\ UNCHANGED <<cl, sv, up, down, child, ran>>

ShellActs ==
    /\ child.alive /\ sv.pc # "first"
    /\ \/ child.out < MaxChunks /\ child' = [child EXCEPT !.out = @ + 1]
       \/ child' = [child EXCEPT !.alive = FALSE]
    /\ UNCHANGED <<cl, sv, up, down, user, ran>>

Later(clock, last) == IF clock < last THEN clock + 1 ELSE clock
Sooner(n) == IF n > 0 THEN n - 1 ELSE 0

Tick ==
    /\ ran.c \/ cl.pc = "done" \/ cl.stall > 0
    /\ ran.s \/ sv.pc = "done" \/ sv.hold > 0
    /\ cl' = [cl EXCEPT !.sincePing = IF cl.pc = "done" THEN @ ELSE Later(@, PingInterval),
                        !.sinceEof = Later(@, DetachGrace),
                        !.waited = IF cl.pc \in {"wait", "waitExit"}
                                   THEN Later(@, ExitBudget + AttachTimeout) ELSE @,
                        !.patience = Sooner(@), !.stall = Sooner(@)]
    /\ sv' = [sv EXCEPT !.age = IF sv.pc \in {"first", "done"} THEN @
                                ELSE Later(@, LeaseTimeout + 1),
                        !.exitAge = Later(@, ExitGraceTime),
                        !.hold = Sooner(@)]
    /\ ran' = [c |-> FALSE, s |-> FALSE]
    /\ UNCHANGED <<up, down, user, child>>

PairNext == ClientStep \/ ServerStep \/ ReaderReads \/ WindowChanges \/ ShellActs \/ Tick

PairSpec == PairInit /\ [][PairNext]_pairVars

(***************************************************************************)
(* Both loops run in threads of their own and every call in them is        *)
(* bounded in time, which passes.                                          *)
(***************************************************************************)
PairFairness == WF_pairVars(ClientStep) /\ WF_pairVars(ServerStep) /\ WF_pairVars(Tick)

PairFairSpec == PairSpec /\ PairFairness

-----------------------------------------------------------------------------
(***************************************************************************)
(* Properties.                                                             *)
(***************************************************************************)

Pumping == cl.driver = "interactive" /\ cl.pc \notin {"attach", "wait", "done"}

\* "Every ping_interval a ping, whatever goes in and out": as long as the pump
\* runs the server neither evicts the client for a lease that expired nor
\* refuses its input, through floods of output, held-up writes and full
\* connections, provided the lease outlasts the longest hold-up of the server,
\* and a ping interval and the longest hold-up of the client together.
LeaseKept == Pumping => sv.end \notin {"LeaseExpired", "Fenced"}

\* A shell that exits in an orderly way is not taken for a lost connection: the
\* exit code reaches a client that reads on before the end of the connection,
\* whatever the grace; and a client that is about to write does not find the
\* connection gone first, if the grace was in time for all the frames that were
\* in it when Exit was sent.  The code's grace is 250 ms whatever there is to read.
ExitNotLost ==
    sv.end = "ShellExited" =>
        /\ cl.result # "ClosedByPeer"
        /\ InTime(sv.backlog) => cl.result # "Disconnected"

\* The session ends: an attach is answered or given up; the client returns after
\* the end of stdin, the exit of the shell or the end of the connection, however
\* much output there is; and a client that returned leaves no thread behind.
SessionEnds ==
    /\ (cl.pc = "wait") ~> (cl.pc # "wait")
    /\ (cl.sinceEof # NotYet \/ ~child.alive \/ sv.pc = "done") ~> (cl.pc = "done")
    /\ (cl.pc = "done") ~> (sv.pc = "done")
=============================================================================
