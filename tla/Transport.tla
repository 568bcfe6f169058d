----------------------------- MODULE Transport -----------------------------
(***************************************************************************)
(* The framed stream of otp-transport: send_frame and recv_frame (frame.rs)*)
(* over one bounded pipe per direction (loopback.rs), or over TCP (tcp.rs),*)
(* between two ends of one thread each.                                    *)
(*                                                                         *)
(* A step is what happens under one lock of a pipe: a short write, one     *)
(* pass of read_full, setting one flag of a close, waking the waiters.  A  *)
(* thread that finds nothing to do waits on the condition variable and     *)
(* runs again when it is notified or its deadline has passed.  Over TCP    *)
(* the kernel plays the part of the pipe and of its notifications.         *)
(*                                                                         *)
(* The callers are arbitrary within the contract of FramedStream: they     *)
(* send the frames of their outbox, receive, set deadlines, shut down and  *)
(* close in any order, and close after any error.  RetryTimeouts lets them *)
(* receive again after a time-out instead, as the loops of otp-terminal do.*)
(***************************************************************************)
EXTENDS Codec

CONSTANTS
    Messages,       \* messages, each DATA empty or with a frame of otp-terminal
    Outboxes,       \* what the two ends may have to send, [Side -> Seq(frame)]
    Adapters,       \* subset of {"loopback", "tcp"}
    Capacity,       \* bytes a pipe holds (DEFAULT_CAPACITY, or the kernel's buffer)
    WRITE_CHUNK,    \* most bytes of one write; 16384 in frame.rs
    RetryTimeouts   \* whether callers go on after a receive timed out

ASSUME TransportAssumption ==
    /\ Capacity \in Nat \ {0}
    /\ WRITE_CHUNK \in Nat \ {0}
    /\ RetryTimeouts \in BOOLEAN

Side == {"A", "B"}

Byte == 0 .. 255

ASSUME OutboxAssumption ==
    \A o \in Outboxes : o \in [Side -> Seq(Seq(Byte))]

Other(s) == IF s = "A" THEN "B" ELSE "A"

RoleOf(s) == IF s = "A" THEN "Client" ELSE "Server"

VARIABLES
    adapter,    \* which implementation carries the connection
    outbox,     \* outbox[s]: frames s has still to send
    pipe,       \* pipe[s]: the pipe s writes and the other end reads
    th,         \* th[s]: the thread of s and the call it is in
    closed,     \* closed[s]: close has begun, or the endpoint was dropped
    reset,      \* reset[s]: the kernel of s has received a reset (TCP only)
    sent,       \* sent[s]: frames of which s has put a byte into its pipe
    got,        \* got[s]: frames s was given by recv_frame
    heard       \* heard[s]: how recv_frame ended for s: "open", "eof", "broken"

vars == <<adapter, outbox, pipe, th, closed, reset, sent, got, heard>>

\* Where a thread is: between calls, having to close, in write_partial or
\* read_full, waiting in one of them, or between the steps of shutdown_write or
\* close (the value of at names the step that comes next).
Waiting == {"wait_writable", "wait_readable"}
\* th[s].frame and .off: send_frame's frame and offset; .header and .part: what
\* recv_frame has read; .deadline: set_deadline was called; .late: the deadline
\* of this read_full or write_partial has passed.
Idle(t) == [t EXCEPT !.at = "idle", !.frame = <<>>, !.off = 0, !.header = <<>>,
                     !.part = <<>>, !.late = FALSE]

Init ==
    /\ adapter \in Adapters
    /\ outbox \in Outboxes
    /\ pipe = [s \in Side |-> [buf |-> <<>>, write_closed |-> FALSE, reader_gone |-> FALSE]]
    /\ th = [s \in Side |-> [at |-> "idle", frame |-> <<>>, off |-> 0, header |-> <<>>,
                             part |-> <<>>, deadline |-> FALSE, late |-> FALSE]]
    /\ closed = [s \in Side |-> FALSE]
    /\ reset = [s \in Side |-> FALSE]
    /\ sent = [s \in Side |-> <<>>]
    /\ got = [s \in Side |-> <<>>]
    /\ heard = [s \in Side |-> "open"]

-----------------------------------------------------------------------------
(***************************************************************************)
(* Waking the other end: notify_all on the condition variable it waits on. *)
(***************************************************************************)
Wake(t, place, then) == IF t.at = place THEN [t EXCEPT !.at = then] ELSE t

WakeReader(t) == Wake(t, "wait_readable", "read")
WakeWriter(t) == Wake(t, "wait_writable", "write")

\* A call of s returned an error: the caller closes, and the direction it was
\* receiving in is over.
Failed(s) == th' = [th EXCEPT ![s] = [Idle(@) EXCEPT !.at = "failed"]]

-----------------------------------------------------------------------------
(***************************************************************************)
(* Sending.                                                                *)
(***************************************************************************)

\* The length a header declares, in the frame send_frame is asked to send and
\* in the bytes recv_frame has read.
Declared(header) == FromBE(SubSeq(header, 5, 8))

WellFramed(f) ==
    /\ Len(f) >= FRAME_HEADER_LEN
    /\ Declared(f) <= MAX_FRAME_PAYLOAD
    /\ Declared(f) = Len(f) - FRAME_HEADER_LEN

\* send_frame: a frame whose prefix does not match is refused before any byte.
\* That the end has shut its direction down is not looked at here.
SendFrame(s) ==
    /\ th[s].at = "idle"
    /\ outbox[s] # <<>>
    /\ outbox' = [outbox EXCEPT ![s] = Tail(@)]
    /\ IF WellFramed(Head(outbox[s]))
       THEN th' = [th EXCEPT ![s].at = "write", ![s].frame = Head(outbox[s])]
       ELSE Failed(s)
    /\ UNCHANGED <<adapter, pipe, closed, reset, sent, got, heard>>

\* EPIPE: the other end has closed or, over TCP only, this one has shut its
\* direction down.  The loopback takes the bytes of an end that has shut down.
Broken(s) == pipe[s].reader_gone \/ (adapter = "tcp" /\ pipe[s].write_closed)

\* write_partial with room in the pipe: as much as fits, at most a chunk, and
\* the reader is woken.
WritePartial(s) ==
    LET t == th[s]
        space == Capacity - Len(pipe[s].buf)
        want == IF Len(t.frame) - t.off < WRITE_CHUNK THEN Len(t.frame) - t.off
                ELSE WRITE_CHUNK
        n == IF space < want THEN space ELSE want
        whole == t.off + n = Len(t.frame)
    IN
    /\ t.at = "write"
    /\ ~Broken(s)
    /\ space > 0
    /\ pipe' = [pipe EXCEPT ![s].buf = @ \o SubSeq(t.frame, t.off + 1, t.off + n)]
    /\ th' = [th EXCEPT ![s] = IF whole THEN Idle(t)
                               ELSE [t EXCEPT !.off = @ + n, !.late = FALSE],
                        ![Other(s)] = WakeReader(@)]
    /\ sent' = IF t.off = 0 THEN [sent EXCEPT ![s] = Append(@, t.frame)] ELSE sent
    /\ UNCHANGED <<adapter, outbox, closed, reset, got, heard>>

\* The pipe is full: wait, or give up when the deadline has passed.
WriteBlocks(s) ==
    /\ th[s].at = "write"
    /\ ~Broken(s)
    /\ Len(pipe[s].buf) = Capacity
    /\ IF th[s].late THEN Failed(s)
       ELSE th' = [th EXCEPT ![s].at = "wait_writable"]
    /\ UNCHANGED <<adapter, outbox, pipe, closed, reset, sent, got, heard>>

WriteRefused(s) ==
    /\ th[s].at = "write"
    /\ Broken(s)
    /\ Failed(s)
    /\ UNCHANGED <<adapter, outbox, pipe, closed, reset, sent, got, heard>>

\* Over TCP a write may still be accepted by the local kernel when the other
\* end has closed; the bytes go nowhere and the other kernel answers with a
\* reset, which discards what s has not read.
WriteIntoVoid(s) ==
    LET t == th[s] IN
    /\ adapter = "tcp"
    /\ t.at = "write"
    /\ pipe[s].reader_gone /\ ~pipe[s].write_closed
    /\ ~reset[s]
    /\ th' = [th EXCEPT ![s] = Idle(t)]
    /\ reset' = [reset EXCEPT ![s] = TRUE]
    /\ pipe' = [pipe EXCEPT ![Other(s)].buf = <<>>]
    /\ UNCHANGED <<adapter, outbox, closed, sent, got, heard>>

-----------------------------------------------------------------------------
(***************************************************************************)
(* Receiving.                                                              *)
(***************************************************************************)
RecvFrame(s) ==
    /\ th[s].at = "idle"
    /\ th' = [th EXCEPT ![s].at = "read"]
    /\ UNCHANGED <<adapter, outbox, pipe, closed, reset, sent, got, heard>>

\* How many bytes this read_full wants: the header, then the payload.
Wanted(t) ==
    IF t.header = <<>> THEN FRAME_HEADER_LEN - Len(t.part)
    ELSE Declared(t.header) - Len(t.part)

\* recv_frame ends with an error.
Refused(s, how) ==
    /\ Failed(s)
    /\ heard' = [heard EXCEPT ![s] = how]

\* The bytes read_full takes in one pass, and what it has then.
Available(s) ==
    IF Len(pipe[Other(s)].buf) < Wanted(th[s]) THEN Len(pipe[Other(s)].buf)
    ELSE Wanted(th[s])

Read(s) == th[s].part \o SubSeq(pipe[Other(s)].buf, 1, Available(s))

Drained(s) == [pipe EXCEPT ![Other(s)].buf = SubSeq(@, Available(s) + 1, Len(@))]

\* read_full of the loopback looks into the pipe before it asks whether it has
\* all it wants; over TCP, one that wants nothing makes no system call.  They
\* differ for a frame that declares no payload.
MustLook(s) == Wanted(th[s]) > 0 \/ adapter = "loopback"

NothingToRead(s) == MustLook(s) /\ pipe[Other(s)].buf = <<>>

\* Finding bytes, even if it takes none, a pass wakes a writer that waits for room.
Woken(s) ==
    IF MustLook(s) /\ pipe[Other(s)].buf # <<>>
    THEN [th EXCEPT ![Other(s)] = WakeWriter(@)] ELSE th

\* read_full finds some of the bytes it wants: it keeps them and goes on.  The
\* pass that then finds no more is ReadEof or ReadBlocks.
ReadSome(s) ==
    /\ th[s].at = "read" /\ ~reset[s]
    /\ Available(s) > 0 /\ Available(s) < Wanted(th[s])
    /\ pipe' = Drained(s)
    /\ th' = [Woken(s) EXCEPT ![s].part = Read(s)]
    /\ UNCHANGED <<adapter, outbox, closed, reset, sent, got, heard>>

\* The header is complete; one that declares too much is refused unread.
ReadHeader(s) ==
    /\ th[s].at = "read" /\ ~reset[s]
    /\ th[s].header = <<>>
    /\ Available(s) = Wanted(th[s])
    /\ pipe' = Drained(s)
    /\ IF Declared(Read(s)) > MAX_FRAME_PAYLOAD
       THEN /\ th' = [Woken(s) EXCEPT ![s] = [Idle(@) EXCEPT !.at = "failed"]]
            /\ heard' = [heard EXCEPT ![s] = "broken"]
       ELSE /\ th' = [Woken(s) EXCEPT ![s].header = Read(s), ![s].part = <<>>,
                                      ![s].late = FALSE]
            /\ UNCHANGED heard
    /\ UNCHANGED <<adapter, outbox, closed, reset, sent, got>>

\* The payload is complete: recv_frame returns header and payload.  Over the
\* loopback a frame without payload is complete only when a pass finds a byte of
\* the next one.
ReadPayload(s) ==
    /\ th[s].at = "read" /\ ~reset[s]
    /\ th[s].header # <<>>
    /\ Available(s) = Wanted(th[s]) /\ ~NothingToRead(s)
    /\ pipe' = Drained(s)
    /\ th' = [Woken(s) EXCEPT ![s] = Idle(@)]
    /\ got' = [got EXCEPT ![s] = Append(@, th[s].header \o Read(s))]
    /\ UNCHANGED <<adapter, outbox, closed, reset, sent, heard>>

\* Mutant of CleanEnd: an end inside a payload passes for a clean one.
CleanEndAnywhere(t) == t.part = <<>>

\* An end of the stream is clean only where a frame could begin.
CleanEnd(t) == t.header = <<>> /\ t.part = <<>>

\* The other end has shut down and the pipe is drained: ClosedByPeer at a frame
\* boundary, FrameMalformed inside a frame.
ReadEof(s) ==
    /\ th[s].at = "read" /\ ~reset[s]
    /\ NothingToRead(s)
    /\ pipe[Other(s)].write_closed
    /\ Refused(s, IF CleanEnd(th[s]) THEN "eof" ELSE "broken")
    /\ UNCHANGED <<adapter, outbox, pipe, closed, reset, sent, got>>

\* Nothing to read yet: wait, or report Timeout when the deadline has passed.
\* What this call has read of a frame goes with it.
ReadBlocks(s) ==
    /\ th[s].at = "read" /\ ~reset[s]
    /\ NothingToRead(s)
    /\ ~pipe[Other(s)].write_closed
    /\ IF ~th[s].late
       THEN th' = [th EXCEPT ![s].at = "wait_readable"] /\ UNCHANGED heard
       ELSE IF RetryTimeouts
       THEN th' = [th EXCEPT ![s] = Idle(@)] /\ UNCHANGED heard
       ELSE Refused(s, "broken")
    /\ UNCHANGED <<adapter, outbox, pipe, closed, reset, sent, got>>

\* The connection was reset: Io.
ReadReset(s) ==
    /\ th[s].at = "read"
    /\ reset[s]
    /\ Refused(s, "broken")
    /\ UNCHANGED <<adapter, outbox, pipe, closed, reset, sent, got>>

-----------------------------------------------------------------------------
(***************************************************************************)
(* Deadlines, shutdown and close.                                          *)
(***************************************************************************)
SetDeadline(s) ==
    /\ th[s].at = "idle"
    /\ ~th[s].deadline
    /\ th' = [th EXCEPT ![s].deadline = TRUE]
    /\ UNCHANGED <<adapter, outbox, pipe, closed, reset, sent, got, heard>>

\* wait_timeout returns because the time is up; the call looks once more.
DeadlinePasses(s) ==
    /\ th[s].at \in Waiting
    /\ th[s].deadline
    /\ th' = [th EXCEPT ![s].at = IF @ = "wait_readable" THEN "read" ELSE "write",
                        ![s].late = TRUE]
    /\ UNCHANGED <<adapter, outbox, pipe, closed, reset, sent, got, heard>>

\* shutdown_write sets the flag under the lock and notifies after it; a second
\* one changes nothing.
ShutdownWrite(s) ==
    /\ th[s].at = "idle"
    /\ ~pipe[s].write_closed
    /\ pipe' = [pipe EXCEPT ![s].write_closed = TRUE]
    /\ th' = [th EXCEPT ![s].at = "notify"]
    /\ UNCHANGED <<adapter, outbox, closed, reset, sent, got, heard>>

\* close, called or by Drop: no more sending,
Close(s) ==
    /\ th[s].at \in {"idle", "failed"}
    /\ closed' = [closed EXCEPT ![s] = TRUE]
    /\ pipe' = [pipe EXCEPT ![s].write_closed = TRUE]
    /\ th' = [th EXCEPT ![s].at = "notify_close"]
    /\ UNCHANGED <<adapter, outbox, reset, sent, got, heard>>

\* the reader is told,
NotifyReader(s) ==
    /\ th[s].at \in {"notify", "notify_close"}
    /\ th' = [th EXCEPT ![s].at = IF @ = "notify" THEN "idle" ELSE "stop_recv",
                        ![Other(s)] = WakeReader(@)]
    /\ UNCHANGED <<adapter, outbox, pipe, closed, reset, sent, got, heard>>

\* no more receiving,
StopReceiving(s) ==
    /\ th[s].at = "stop_recv"
    /\ pipe' = [pipe EXCEPT ![Other(s)].reader_gone = TRUE]
    /\ th' = [th EXCEPT ![s].at = "notify_gone"]
    /\ UNCHANGED <<adapter, outbox, closed, reset, sent, got, heard>>

\* Mutant of NotifyWriter: a writer blocked on the full pipe is not woken.
NotifyNobody(s) ==
    /\ th[s].at = "notify_gone"
    /\ th' = [th EXCEPT ![s].at = "gone"]
    /\ UNCHANGED <<adapter, outbox, pipe, closed, reset, sent, got, heard>>

\* and the writer is told.
NotifyWriter(s) ==
    /\ th[s].at = "notify_gone"
    /\ th' = [th EXCEPT ![s].at = "gone", ![Other(s)] = WakeWriter(@)]
    /\ UNCHANGED <<adapter, outbox, pipe, closed, reset, sent, got, heard>>

-----------------------------------------------------------------------------
\* What a caller begins, and what a call that has begun goes on to do.
Call(s) == SendFrame(s) \/ RecvFrame(s) \/ SetDeadline(s) \/ ShutdownWrite(s) \/ Close(s)

Sending(s) == WritePartial(s) \/ WriteBlocks(s) \/ WriteRefused(s) \/ WriteIntoVoid(s)

Receiving(s) ==
    \/ ReadSome(s) \/ ReadHeader(s) \/ ReadPayload(s)
    \/ ReadEof(s) \/ ReadBlocks(s) \/ ReadReset(s)

Closing(s) == NotifyReader(s) \/ StopReceiving(s) \/ NotifyWriter(s)

Next ==
    \E s \in Side :
        Call(s) \/ Sending(s) \/ Receiving(s) \/ Closing(s) \/ DeadlinePasses(s)

Spec == Init /\ [][Next]_vars

\* Threads are scheduled, clocks advance, and a caller closes after an error.
FairSpec ==
    /\ Spec
    /\ \A s \in Side :
         /\ WF_vars(Sending(s) \/ Receiving(s) \/ Closing(s))
         /\ WF_vars(DeadlinePasses(s))
         /\ WF_vars(th[s].at = "failed" /\ Close(s))

-----------------------------------------------------------------------------
(***************************************************************************)
(* Properties.                                                             *)
(***************************************************************************)

\* Frames that may be sent.
Sendable == UNION {ToSet(o["A"]) \cup ToSet(o["B"]) : o \in Outboxes}

\* The connection implements FrameChannel: direction s is judged by what the
\* other end is given.
Channel == INSTANCE FrameChannel
    WITH Frame <- Sendable,
         sent <- sent,
         got <- [s \in Side |-> got[Other(s)]],
         state <- [s \in Side |-> heard[Other(s)]]

\* Frames arrive whole, once and in order; a clean end means none is missing,
\* and nothing is delivered after an end or an error (lib.rs: "never delivers
\* half a frame"), over both adapters and every placement of the chunks.
ChannelSpec == Channel!Spec

\* What recv_frame returns is, frame by frame, what the other end sent
\* (recv_frame "returns complete frames", lib.rs).
FramesIntact == \A s \in Side : IsPrefix(got[s], sent[Other(s)])

\* A call that has a deadline, or whose other end has closed, returns: no
\* wake-up is lost, "a blocked peer is never left behind" (Drop of the
\* loopback end), and two ends that both send into full pipes part again.
InCall(s) == th[s].at \in {"write", "read"} \cup Waiting

CallsEnd ==
    \A s \in Side :
        (InCall(s) /\ (th[s].deadline \/ closed[Other(s)])) ~> ~InCall(s)

\* The plaintext of a CONFIRM or a DATA, its tag cut off, and what it decodes to.
Plaintext(msg) == SubSeq(msg.blob, 1, Len(msg.blob) - TAG_LEN)

Inside(msg) ==
    IF msg.type = "Data" THEN DecodeTerminal(Plaintext(msg))
    ELSE DecodeConfirmBody(Plaintext(msg))

HasInside(msg) == msg.type \in {"ConfirmC2s", "ConfirmS2c", "Data"}

\* A message that can be encoded decodes to itself at an end that may receive
\* its type, is refused at one that may not, and so does what it carries.
RoundTrip ==
    \A m \in Messages : Encode(m).ok =>
        /\ \A role \in {"Client", "Server"} :
             Decode(role, Encode(m).val) =
                 IF role \in Receivers(m.type) THEN Ok(m) ELSE Err("WRONG_DIRECTION")
        /\ HasInside(m) /\ Plaintext(m) # <<>> => Inside(m).ok

\* decode is the inverse of encode (encode.rs: "encode(decode(x)) == x"): every
\* message decodes to itself at the end it is for, and a delivered frame, well
\* formed or not, that decodes to anything is the only encoding of that; the same
\* holds for the terminal frame in a DATA and for the body of a CONFIRM.
DecodeInvertsEncode ==
    /\ RoundTrip
    /\ \A s \in {x \in Side : got[x] # <<>>} :
        LET wire == Last(got[s])
            d == Decode(RoleOf(s), wire)
        IN
        d.ok =>
          /\ Encode(d.val) = Ok(wire)
          /\ HasInside(d.val) /\ Inside(d.val).ok =>
               Plaintext(d.val) = IF d.val.type = "Data"
                                  THEN EncodeTerminal(Inside(d.val).val)
                                  ELSE EncodeConfirmBody(Inside(d.val).val)
=============================================================================
