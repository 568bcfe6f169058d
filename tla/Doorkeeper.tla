----------------------------- MODULE Doorkeeper -----------------------------
(***************************************************************************)
(* The doorkeeper (crate otp-doorkeeper, proxy.rs): a TCP proxy in front   *)
(* of sshd.  One accept loop takes connections up to a limit; a thread per *)
(* connection greets the client, connects to sshd and starts two threads,  *)
(* each of which copies one direction until it ends.                       *)
(*                                                                         *)
(* Each system call on a shared socket and each use of the shared counter  *)
(* or of first_err is a step.  A direction is named after the end it reads *)
(* from.  A chunk is a unit: sent and written count the chunks of a        *)
(* direction, which TCP keeps in order.  A write goes through, fails, or   *)
(* is held up, without a deadline, by an end that does not read.  Either   *)
(* end may send, finish (FIN) or reset its connection at any time.  A      *)
(* member of Conn stands for one client after another: what a connection   *)
(* kept is forgotten when its last socket handle is dropped.  Log lines    *)
(* other than the reason of a close, the signal handler and the version    *)
(* observer are left out.                                                  *)
(***************************************************************************)
EXTENDS Integers, FiniteSets

CONSTANTS
    Conn,       \* the connections clients may have open at a time
    MaxConns,   \* Config::max_conns
    WarnMode,   \* Config::warn_mode is On
    MaxChunks   \* bound on the chunks an end sends

ASSUME DoorkeeperAssumption ==
    /\ IsFiniteSet(Conn)
    /\ MaxConns \in Nat /\ MaxChunks \in Nat
    /\ WarnMode \in BOOLEAN

Side == {"client", "upstream"}

\* The side a direction writes to (write_side).
WriteSide(e) == IF e = "client" THEN "upstream" ELSE "client"

VARIABLES
    conns,      \* Shared::conns
    handler,    \* handler[c]: where the connection's own thread is
    pipe,       \* pipe[c][e]: where the thread that reads from e is
    sent,       \* sent[c][e]: chunks e has sent
    written,    \* written[c][e]: chunks of them written to the other side
    fin,        \* fin[c][e]: e has finished sending
    rst,        \* rst[c][e]: e has reset its connection
    shut,       \* shut[c][e]: the socket to e is shut down in both directions
    firstErr,   \* firstErr[c]: first_err, or "none"
    reason      \* reason[c]: the reason logged by conn_close, or "open"

ends == <<sent, fin, rst>>
data == <<pipe, ends, written, shut, firstErr>>
vars == <<conns, handler, reason, data>>

HandlerStep ==
    {"none", "spawn", "setup", "warn", "connect", "clone", "pipe1", "pipe2",
     "join", "guard", "refused", "panicked"}

\* "held": in write_all, to an end that does not read.
PipeStep == {"off", "read", "write", "held", "readErr", "writeErr", "close", "done"}

\* Types of the counter, the threads' places and the sockets.
TypeOK ==
    /\ handler \in [Conn -> HandlerStep]
    /\ pipe \in [Conn -> [Side -> PipeStep]]
    /\ conns \in Nat
    /\ \A v \in {sent, written} : v \in [Conn -> [Side -> 0 .. MaxChunks]]
    /\ \A v \in {fin, rst, shut} : v \in [Conn -> [Side -> BOOLEAN]]
    /\ firstErr \in [Conn -> Side \cup {"none"}]
    /\ reason \in [Conn -> {"open", "over_limit", "client_reset", "upstream_reset",
                            "warn_write_timeout", "upstream_unavailable", "normal"}]

Init ==
    /\ conns = 0
    /\ handler = [c \in Conn |-> "none"]
    /\ pipe = [c \in Conn |-> [e \in Side |-> "off"]]
    /\ sent = [c \in Conn |-> [e \in Side |-> 0]]
    /\ written = [c \in Conn |-> [e \in Side |-> 0]]
    /\ fin = [c \in Conn |-> [e \in Side |-> FALSE]]
    /\ rst = [c \in Conn |-> [e \in Side |-> FALSE]]
    /\ shut = [c \in Conn |-> [e \in Side |-> FALSE]]
    /\ firstErr = [c \in Conn |-> "none"]
    /\ reason = [c \in Conn |-> "open"]

Goto(c, l) == handler' = [handler EXCEPT ![c] = l]

\* The last handles of the connection's sockets are dropped.
Forget(c) ==
    /\ Goto(c, "none")
    /\ pipe' = [pipe EXCEPT ![c] = [e \in Side |-> "off"]]
    /\ sent' = [sent EXCEPT ![c] = [e \in Side |-> 0]]
    /\ written' = [written EXCEPT ![c] = [e \in Side |-> 0]]
    /\ fin' = [fin EXCEPT ![c] = [e \in Side |-> FALSE]]
    /\ rst' = [rst EXCEPT ![c] = [e \in Side |-> FALSE]]
    /\ shut' = [shut EXCEPT ![c] = [e \in Side |-> FALSE]]
    /\ firstErr' = [firstErr EXCEPT ![c] = "none"]
    /\ reason' = [reason EXCEPT ![c] = "open"]

-----------------------------------------------------------------------------
(* The accept loop, which handles one connection at a time.                *)

Accepting == \A c \in Conn : handler[c] \notin {"spawn", "refused"}

\* Mutant of TryInc: the limit is compared the wrong way at the boundary.
TryIncOneMore == conns <= MaxConns

\* try_inc succeeds.
TryInc == conns < MaxConns

Accept(c) ==
    /\ handler[c] = "none" /\ Accepting
    /\ IF TryInc
       THEN Goto(c, "spawn") /\ conns' = conns + 1 /\ UNCHANGED reason
       ELSE /\ Goto(c, "refused")
            /\ reason' = [reason EXCEPT ![c] = "over_limit"]
            /\ UNCHANGED conns
    /\ UNCHANGED data

\* The stream is dropped.
Refuse(c) ==
    /\ handler[c] = "refused"
    /\ Forget(c)
    /\ UNCHANGED conns

Spawn(c) ==
    /\ handler[c] = "spawn"
    /\ Goto(c, "setup")
    /\ UNCHANGED <<conns, reason, data>>

\* No thread can be started: the slot is given back, the stream dropped.
SpawnFails(c) ==
    /\ handler[c] = "spawn"
    /\ Forget(c)
    /\ conns' = conns - 1

-----------------------------------------------------------------------------
(* handle_conn: conn_close is logged, then the guard is dropped.           *)

Closing(c, why) ==
    /\ Goto(c, "guard")
    /\ reason' = [reason EXCEPT ![c] = why]

Setup(c) ==
    /\ handler[c] = "setup"
    /\ \/ Goto(c, IF WarnMode THEN "warn" ELSE "connect") /\ UNCHANGED reason
       \/ Closing(c, "client_reset")
    /\ UNCHANGED <<conns, data>>

\* The warning is written; it fails on a reset, or when SO_SNDTIMEO passes.
Warn(c) ==
    /\ handler[c] = "warn"
    /\ \/ ~rst[c]["client"] /\ Goto(c, "connect") /\ UNCHANGED reason
       \/ rst[c]["client"] /\ Closing(c, "client_reset")
       \/ ~rst[c]["client"] /\ Closing(c, "warn_write_timeout")
    /\ UNCHANGED <<conns, data>>

\* connect_upstream over its candidates; when all fail the failure line is
\* written, whatever becomes of it.
Connect(c) ==
    /\ handler[c] = "connect"
    /\ \/ Goto(c, "clone") /\ UNCHANGED reason
       \/ Closing(c, "upstream_unavailable")
    /\ UNCHANGED <<conns, data>>

\* The four handles of the two pipe threads.
Clone(c) ==
    /\ handler[c] = "clone"
    /\ \/ Goto(c, "pipe1") /\ UNCHANGED reason
       \/ Closing(c, "client_reset")
    /\ UNCHANGED <<conns, data>>

\* spawn_pipe_thread, for c2s and then for s2c.
SpawnPipe(c, e) ==
    /\ handler[c] = IF e = "client" THEN "pipe1" ELSE "pipe2"
    /\ Goto(c, IF e = "client" THEN "pipe2" ELSE "join")
    /\ pipe' = [pipe EXCEPT ![c][e] = "read"]
    /\ UNCHANGED <<conns, reason, ends, written, shut, firstErr>>

\* It cannot be started: the connection's thread panics.  Unwinding drops the
\* guard and the sockets, except the clones a first pipe thread owns.
SpawnPipeFails(c) ==
    /\ \/ handler[c] = "pipe1" /\ Forget(c)
       \/ handler[c] = "pipe2" /\ Goto(c, "panicked") /\ UNCHANGED <<reason, data>>
    /\ conns' = conns - 1

\* Both threads have been joined.
Join(c) ==
    /\ handler[c] = "join"
    /\ \A e \in Side : pipe[c][e] = "done"
    /\ Closing(c, CASE firstErr[c] = "client"   -> "client_reset"
                    [] firstErr[c] = "upstream" -> "upstream_reset"
                    [] OTHER                    -> "normal")
    /\ UNCHANGED <<conns, data>>

DropGuard(c) ==
    /\ handler[c] = "guard"
    /\ Forget(c)
    /\ conns' = conns - 1

-----------------------------------------------------------------------------
(* pipe_one: the thread that copies what e sends.                          *)

At(c, e, l) == pipe' = [pipe EXCEPT ![c][e] = l]
server == <<conns, handler, reason, ends>>

PipeRead(c, e) ==
    /\ pipe[c][e] = "read" /\ written[c][e] < sent[c][e]
    /\ At(c, e, "write")
    /\ UNCHANGED <<server, written, shut, firstErr>>

\* What read sees of e once everything e sent was read: the end of e's stream,
\* a shutdown by the other thread, or a reset that the other thread's write
\* has already been told of.
AtEnd(c, e) ==
    /\ written[c][e] = sent[c][e]
    /\ \/ fin[c][e] \/ shut[c][e]
       \/ rst[c][e] /\ pipe[c][WriteSide(e)] \in {"writeErr", "close"}

\* Mutant of PipeEof: the end of one direction ends the other one.
PipeEofClosesBoth(c, e) ==
    /\ pipe[c][e] = "read" /\ AtEnd(c, e)
    /\ shut' = [shut EXCEPT ![c] = [x \in Side |-> TRUE]]
    /\ At(c, e, "done")
    /\ UNCHANGED <<server, written, firstErr>>

\* read returns 0; shutdown(Write) passes the end on.
PipeEof(c, e) ==
    /\ pipe[c][e] = "read" /\ AtEnd(c, e)
    /\ At(c, e, "done")
    /\ UNCHANGED <<server, written, shut, firstErr>>

PipeReadFails(c, e) ==
    /\ pipe[c][e] = "read" /\ rst[c][e]
    /\ At(c, e, "readErr")
    /\ UNCHANGED <<server, written, shut, firstErr>>

CanWrite(c, e) == ~rst[c][WriteSide(e)] /\ ~shut[c][WriteSide(e)]

\* What was read is passed on.
PassOn(c, e) ==
    /\ CanWrite(c, e)
    /\ written' = [written EXCEPT ![c][e] = @ + 1]
    /\ At(c, e, "read")
    /\ UNCHANGED <<server, shut, firstErr>>

PipeWrite(c, e) == pipe[c][e] = "write" /\ PassOn(c, e)

\* The buffers are full and the other end does not read: clear_app_timeouts
\* took the send timeout away, so the write blocks.
PipeWriteBlocks(c, e) ==
    /\ pipe[c][e] = "write" /\ CanWrite(c, e)
    /\ At(c, e, "held")
    /\ UNCHANGED <<server, written, shut, firstErr>>

\* The other end reads again, which it need not do.
PipeWriteResumes(c, e) == pipe[c][e] = "held" /\ PassOn(c, e)

\* A reset, or a shutdown by the other thread, ends a blocked write too.
PipeWriteFails(c, e) ==
    /\ pipe[c][e] \in {"write", "held"} /\ ~CanWrite(c, e)
    /\ At(c, e, "writeErr")
    /\ UNCHANGED <<server, written, shut, firstErr>>

\* The side the thread found at fault.
Blamed(c, e) == IF pipe[c][e] = "readErr" THEN e ELSE WriteSide(e)

\* Mutant of RecordErr: the last error is kept.
RecordLastErr(c, e) ==
    /\ pipe[c][e] \in {"readErr", "writeErr"}
    /\ firstErr' = [firstErr EXCEPT ![c] = Blamed(c, e)]
    /\ At(c, e, "close")
    /\ UNCHANGED <<server, written, shut>>

RecordErr(c, e) ==
    /\ pipe[c][e] \in {"readErr", "writeErr"}
    /\ firstErr' = [firstErr EXCEPT ![c] = IF @ = "none" THEN Blamed(c, e) ELSE @]
    /\ At(c, e, "close")
    /\ UNCHANGED <<server, written, shut>>

\* Mutant of HardClose: the socket that is written to stays open.
HardCloseOne(c, e) ==
    /\ pipe[c][e] = "close"
    /\ shut' = [shut EXCEPT ![c][e] = TRUE]
    /\ At(c, e, "done")
    /\ UNCHANGED <<server, written, firstErr>>

HardClose(c, e) ==
    /\ pipe[c][e] = "close"
    /\ shut' = [shut EXCEPT ![c] = [x \in Side |-> TRUE]]
    /\ At(c, e, "done")
    /\ UNCHANGED <<server, written, firstErr>>

\* The only thread left of a connection whose handler panicked returns and
\* drops its handles.
LastPipeReturns(c) ==
    /\ handler[c] = "panicked" /\ pipe[c]["client"] = "done"
    /\ Forget(c)
    /\ UNCHANGED conns

-----------------------------------------------------------------------------
(* The two ends.  They act at any time; what an end does is seen only when *)
(* a thread waits for it or writes to it, and is a step of the model then. *)

Awaited(c, e) == pipe[c][e] = "read" /\ ~fin[c][e] /\ ~rst[c][e]

Used(c, e) ==
    \/ pipe[c][e] = "read" \/ pipe[c][WriteSide(e)] \in {"write", "held"}
    \/ handler[c] = "warn" /\ e = "client"

proxyVars == <<conns, handler, reason, pipe, written, shut, firstErr>>

EndSends(c, e) ==
    /\ Awaited(c, e) /\ sent[c][e] < MaxChunks
    /\ sent' = [sent EXCEPT ![c][e] = @ + 1]
    /\ UNCHANGED <<fin, rst, proxyVars>>

EndFinishes(c, e) ==
    /\ Awaited(c, e)
    /\ fin' = [fin EXCEPT ![c][e] = TRUE]
    /\ UNCHANGED <<sent, rst, proxyVars>>

EndResets(c, e) ==
    /\ Used(c, e) /\ ~rst[c][e]
    /\ rst' = [rst EXCEPT ![c][e] = TRUE]
    /\ UNCHANGED <<sent, fin, proxyVars>>

-----------------------------------------------------------------------------
Handle(c) ==
    \/ Setup(c) \/ Warn(c) \/ Connect(c) \/ Clone(c)
    \/ \E e \in Side : SpawnPipe(c, e)
    \/ SpawnPipeFails(c)
    \/ Join(c) \/ DropGuard(c)

Pipe(c, e) ==
    \/ PipeRead(c, e) \/ PipeEof(c, e) \/ PipeReadFails(c, e)
    \/ PipeWrite(c, e) \/ PipeWriteBlocks(c, e) \/ PipeWriteFails(c, e)
    \/ RecordErr(c, e) \/ HardClose(c, e)

End(c, e) == EndSends(c, e) \/ EndFinishes(c, e) \/ EndResets(c, e)

Next ==
    \E c \in Conn :
        \/ Accept(c) \/ Refuse(c) \/ Spawn(c) \/ SpawnFails(c)
        \/ Handle(c) \/ LastPipeReturns(c)
        \/ \E e \in Side : Pipe(c, e) \/ PipeWriteResumes(c, e) \/ End(c, e)

Spec == Init /\ [][Next]_vars

\* A thread whose next system call can return goes on.  Nothing is assumed of
\* the ends: a blocked write need not resume, but it does fail.
FairSpec ==
    /\ Spec
    /\ \A c \in Conn : WF_vars(Spawn(c) \/ SpawnFails(c) \/ Handle(c))
    /\ \A c \in Conn, e \in Side : WF_vars(Pipe(c, e))

-----------------------------------------------------------------------------
(* Properties.                                                             *)

\* The thread of c works on its connection and counts against the limit.
Counted(c) == handler[c] \notin {"none", "refused", "panicked"}

\* The limit holds and no slot is lost: whatever order threads end and clients
\* arrive in, the counter is the number of connections that are served, which
\* is never more than max_conns (wp14 5.1).  A connection whose second pipe
\* thread could not be started gave its slot back and is not counted, although
\* its first pipe thread goes on.
LimitHeld ==
    /\ TypeOK
    /\ conns = Cardinality({c \in Conn : Counted(c)})
    /\ conns <= MaxConns

\* A connection logged as "normal" lost nothing: both ends had finished, and
\* everything either of them sent was passed on (the end of one direction
\* does not cut off the other, wp14 5.4).
NormalIsComplete ==
    \A c \in Conn : reason[c] = "normal" =>
        \A e \in Side : fin[c][e] /\ written[c][e] = sent[c][e]

\* The error a closed pipe is blamed for is one that end made: the shutdown
\* by which one thread stops the other is never taken for a reset.
BlameIsRight ==
    \A c \in Conn : firstErr[c] # "none" => rst[c][firstErr[c]]

\* Nothing more is to come of c: an error was recorded, or each end has finished
\* or reset.
Over(c) ==
    /\ handler[c] = "join"
    /\ firstErr[c] # "none" \/ \A e \in Side : fin[c][e] \/ rst[c][e]

\* Slots come back: once an error was recorded, or both ends have finished or
\* reset, both threads stop and the connection gives its slot back, unless
\* what one end sent is held up for ever by an end that reads no more.  Where
\* an error was recorded nothing keeps the slot: the hard close of one thread
\* ends the blocked write of the other.
SlotReturns ==
    \A c \in Conn :
        Over(c) ~> \/ handler[c] = "none"
                   \/ [](firstErr[c] = "none" /\ \E e \in Side : pipe[c][e] = "held")
=============================================================================
