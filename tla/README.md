# Formal models of jbuu

jbuu is a remote terminal whose sessions are keyed by segments of a
pre-shared one-time book. Both ends hold a copy of the book and a pointer to
the first unused segment, kept in two *anchor* files. The promise everything
rests on is in the repository's README: a segment is used once, and a crash may
waste a segment but never gives one out again ("绝不回退、绝不重用").

This directory holds TLA+ modules of the parts of the program that carry this
promise and the ones built on it, TLC configurations that check them on small
instances, and TLAPS proofs of the central results.
`PROJECT.json` lists the runs, maps each definition to the lines it models, and
lists the hazards the properties are aimed at.

    tlc -workers 2 -config MCStartup.cfg MCStartup
    tlapm AllocatorProofs.tla

## The system

| component | state | operations | used by |
|---|---|---|---|
| book (`otp-book`) | file of a header and 64-byte segments | generate, open with validation, `pread` of one segment, inspect | allocator, `anchor init` |
| anchor spec (`otp-anchor-spec`) | record: book id, generation, next, INIT/INTENT/COMMIT | encode, verify, order, `decide` on two copies | allocator, recovery, init |
| allocator (`otp-book/allocator.rs`) | `current`, `halted`, OFD lock, two anchor files | `open`, `issue`, `reserve_range` | handshake, pump |
| startup recovery (`otp-recovery`, `recoveryio.rs`) | two anchor files | read both, decide, repair the stale copy | `serve`, `connect` |
| anchor init (`anchorinit.rs`) | two paths | check, create, verify, clean up | operator |
| handshake (`otp-handshake`, `proto.rs`) | phases, pointers, nonces, key | HELLO, ARBITRATE, ISSUE-REQUEST, CONFIRM both ways | `serve`, `connect` |
| session (`otp-session`) | `send_seq`, `recv_last`, active/terminated | `seal`, `open`, `close` | terminal |
| lease (`lease.rs`) | holder, fencing token, last heartbeat | `acquire`, `heartbeat`, `with_write_gate`, drop | terminal server |
| PTY (`otp-platform/pty.rs`) | master, child, the thread that forked it | open, spawn, bounded write, read, window size, kill | terminal server |
| terminal server (`hub.rs`, `server.rs`) | registry of PTYs with its mutex and spawn thread, a loop per connection | open, attach, input, resize, drain, exit, retire | `serve` |
| terminal client (`client.rs`) | attach mode, ping clock, detach clock, reader thread of stdin | attach, the pump of `run_interactive`, `wait_exit`, direct sends | `connect` |
| transport (`otp-transport`) | bounded pipe with two condition variables per direction, or a TCP socket; deadline | `send_frame`, `recv_frame`, `set_deadline`, `shutdown_write`, `close` | handshake, terminal |
| codec (`otp-codec`, `frame.rs`) | none | encode and decode of messages, confirm bodies and terminal frames | all ends |
| full-OTP pump (`otp-fullotp`) | current and next pad stream per direction, ACK gate | send, receive, prefetch, NEED/OFFER/ACK/CLOSE | (no caller in the CLI yet) |
| doorkeeper (`otp-doorkeeper/proxy.rs`) | connection counter, a thread and two pipe threads per connection | accept, refuse, warn, connect, copy, half-close, hard close | separate binary in front of sshd |
| audit log, doctor, process hardening | | | not modelled, see below |

How they interact: `serve` and `connect` run the startup recovery, then open
the allocator under the OFD lock of anchor A. Each connection has a server
thread that keeps the mutex around the allocator for its whole handshake. Both
ends issue the same segment, each from its own anchors; the halves of the
segment are the keys of the two directions of a `Session`, and the terminal
frames are its records, each carried in a frame of the transport. Connections
to one PTY compete for its lease; its shell is forked by a thread of its own
and lives on when they end.

What is hard to test in it, and what each part must guarantee:

* *book, allocator, recovery, init*: a crash between any two of the writes and fsyncs of
  two files, I/O errors after the pointer has moved, several processes on the
  same files. No segment twice; nothing given out that the disk could forget;
  never locked out by the program's own writes; a server reads the book its
  anchors name.
* *handshake*: two allocators that advance at different moments, a lost
  connection or restart between the two, several connections at once. One
  segment keys one connection; the ends agree; no honest pair is accused; every
  handshake ends.
* *session, pump*: replay, reordering, the last sequence number, the end of a
  pad half, bundles switched while records are in flight. No nonce and no
  pad position twice; what is opened is what was sealed.
* *terminal*: leases that expire between the check and the write, takeover,
  an exit seen by several threads. No write by a fenced connection; fenced
  connections and connections to an exited shell end; a shell outlives its
  connections and never its server.
* *terminal client*: pings against output floods and held-up writes, the exit
  code against the closing connection, the detach window against output that
  never pauses. The lease is kept, the exit code arrives, everybody returns.
* *transport, codec*: short writes, waits on two condition variables, ends that
  close or time out in the middle of a frame. Whole frames in order or an error;
  no call sleeps for ever; decoding inverts encoding.
* *doorkeeper*: two threads that share two sockets, a counter that is given back
  in another thread than it was taken in. The limit holds and slots come
  back; a half-close loses nothing; an error is blamed on the end that made it.

## The modules

| module | models | notes |
|---|---|---|
| `AnchorSpec` | `otp-anchor-spec` | records, canonical form, order, `decide`; a copy that does not decode is `Torn` |
| `SegmentLedger` | abstract | the promise: ranges leave the book, each beyond everything that left before |
| `Allocator` | `allocator.rs` and storage | extends `AnchorSpec`; refines `SegmentLedger` with `times` |
| `Startup` | `run_serve`/`run_connect` up to `Allocator::open`, `otp-recovery` | extends `Allocator` and composes recovery with it |
| `AnchorInit` | `anchorinit.rs` | the command's steps, and servers on the pair it creates |
| `Book` | `header.rs`, `generate.rs`, `inspect.rs`, `otp-book/lib.rs` | the file at one path, by whom it was made and what of it is durable |
| `Install` | `run_book`, `run_anchor_init`, the start of `run_serve` | composes `Book`, `AnchorInit` and the servers over one directory |
| `Handshake` | `otp-handshake`, `proto.rs`, `serve_one` | `issue` is one step with the outcomes `Allocator` shows possible |
| `Session` | `session.rs` | both ends and a network that may do anything but forge |
| `Lease`, `Pty`, `Terminal` | `lease.rs`; `pty.rs`; `hub.rs`, `server.rs` | operators on one lease record; the life of a child on a PTY; the threads that use both |
| `TerminalClient` | `client.rs`, and one connection of `server.rs` | in bounded time; the server is `Terminal`'s loop for one connection |
| `Codec` | `otp-codec`, `otp-terminal/frame.rs` | layouts in bytes, encoder and decoder defined apart |
| `FrameChannel` | abstract | the promise of `FramedStream`: whole frames, in order, then an end or an error |
| `Transport` | `frame.rs`, `loopback.rs`, `tcp.rs` | extends `Codec`; refines `FrameChannel` by `INSTANCE ... WITH` |
| `FullOtpPump` | `pump.rs`, `pad.rs`, `record.rs`, `control.rs` | both roles and the two channels |
| `Doorkeeper` | `otp-doorkeeper/proxy.rs` | accept loop, connection threads, pipe threads and the two ends |
| `MC*` | | constants, symmetry, fairness of an instance |
| `AllocatorProofs`, `SessionProofs`, `HandshakeProofs`, `TerminalProofs`, `PumpProofs`, `InstallProofs`, `DoorkeeperProofs`, `TransportProofs` | | theorems about the modules each extends (`AllocatorProofs`: also `Startup`; `TerminalProofs`: also `TerminalClient`) |

### State and atomicity

`Allocator`. `cache[c]` is what a read of copy `c` returns, `disk[c]` the set of
contents it may have after power is lost. A write adds the new record and
`Torn` to `disk[c]`, a successful fsync leaves only what was written, a failed
one leaves the set. `Kill` drops a process's memory and lock, `PowerLoss`
also replaces each copy by any member of `disk`. Each write and each fsync is
a step. `open`'s two reads are one step: the lock is held, so no other
allocator writes between them. `MaxGeneration` stands for the u64 limit of the
generation at which the code halts.

`Startup` adds the recovery that runs *before* the lock: read A, read B and
decide, truncate, write, fsync with read-back are separate steps, because
another process may do anything between them.

`Handshake`. A connection is a number; its nonces are fresh and so are the
number itself. Frames of a connection arrive in order; at most `MaxFaults` of
them arrive damaged or replaced by a frame sent earlier on any connection. A
receive may fail at any moment, which covers deadlines, resets and closes. A
confirm opens only with the key and the transcript that sealed it. Frames may
be carried from one connection to another, so who an end has really talked to
is the end whose nonce it works with (`server[c].cn`, `client[c].sn`), and the
properties speak of that peer: with four stray frames two connections can be
relayed crosswise and still end up with keys that agree.

`Terminal`. A thread takes the lease and the PTY mutex for one call, so each call
is a step; the registry mutex is held (`opener`) from `FirstOpen` to the end of
the open. Time appears only as `LeaseExpires` and the exit grace. Clients may
send any frame at any time. `Pty` follows a child from the master through fork,
`pre_exec` and exec: a kill of `serve` falls between any two of them. The
parent-death signal goes with the *thread* that forked, `getppid` tells of the
*process*, and both are in the model.

`TerminalClient`. The one module with clocks. A tick bounds a turn of either
loop; turns may be shorter, and may be held up by stdout (`MaxStall`) or by the
PTY (`MaxHold`). Clocks saturate one past what they are compared with. A write of
input may fail, and does once the exit of the shell was seen (`hub.rs:156`); the
rest of that turn still runs (`sv.ending`), so the exit code may go out in it. What
the times must satisfy is in `ClientAssumption`: a lease that outlasts the server's
hold-up, and a ping interval, the client's hold-up and two turns together. Nothing is
assumed of the exit grace, which in the code is 250 ms whatever the socket buffers
hold. `sv.backlog` is a history component: the frames the connection held once Exit
was in it. `InTime(n)` says that the grace leaves the client a turn for each of `n`
frames, and `ExitNotLost` promises that Exit is read where that is so.

`Transport`. A step is what happens under one lock of a pipe. A thread that waits
is woken by the notification the code sends, or by its deadline; nothing else
wakes it, so a missing notification shows. Callers obey the contract of
`FramedStream` (close after an error) unless `RetryTimeouts` is set. Where the two
adapters differ the model does too. A frame without payload is complete with its
header over TCP; the loopback's `read_full` waits even for no bytes
(`loopback.rs:206`), so the frame is delivered when a byte of the next one has
come, and a deadline or the peer's shutdown in that wait makes it a time-out
or malformed. A send after the end's own `shutdown_write` goes through over
the loopback and fails over TCP. A write to a peer that
closed fails, or over TCP may first be accepted and lost.

`Book`, `Install`. A file is named after the run that created it. A chunk that was
not fsynced may be gone or zero after a power loss, and so may the directory
entry; a path may lead to different files at different moments. Of a book that
was supplied from outside, `BookAssumption` says only that its header names
another book than any generated here, or is no header.

`FullOtpPump`. A segment holds one byte, so `base` addresses pad positions and
two records that used the same position are visible as such. `KeyLen` bytes of
every record go to its MAC key. The caller sends what the pump returns at once
and in order.

`Session`. The network delivers any record ever sealed, to either end, any
number of times, with any sequence number in its header and with damaged bits.

`AnchorInit`. A file is named after the run that created it, so an unlinked file
that a server still has open remains distinguishable from its successor.

`Doorkeeper`. Each system call on a socket, each use of the counter and each
`record_err` is a step; the two shutdowns of `hard_close` are one. What an end
does (send, FIN, RST) is a step where a thread waits for it or writes to it:
before that nobody can tell. In the pipe phase no time-out is left on the sockets
(`proxy.rs:233`), so a write may be held up by an end that does not read
(place `"held"`) for as long as that end likes; it goes on if the end reads again and
fails once the socket is shut down or reset. A read may return data, the
end or the reset in any order the kernel allows once the end was reset.

In each module the definitions named "Mutant of X" are plausible
mistakes in `X`; no specification uses them. Replacing `X` by its mutant makes
TLC report the property that is paired with it in `PROJECT.json`.

## The runs

| run | instance | distinct states | result |
|---|---|---|---|
| `allocator` | 2 processes with startup recovery, 4 segments, ranges up to 2, generations up to 3, own and foreign book id | 102 000 | passes |
| `startup_race` | 3 processes whose recoveries overlap, 2 segments, storage that never fails | | **violates** `NoReuse` |
| `handshake` | 3 clients (good copy, other book, other contents), 2 connections, 1 fault, 1 restart, 2 segments, fair | 557 000 | passes |
| `session` | last sequence number 5 | 12 500 | passes |
| `terminal` | 2 connections, 1 PTY, input of up to 2 slices, 2 unread chunks, serve killed anywhere, fair | 146 000 | passes |
| `client` | ping every tick, lease 4, hold-ups of 1, connection of 2 frames each way, exit grace 8, fair | 614 000 | passes |
| `pump` | halves of 3 bytes, 1 byte of MAC key, records up to 2, last sequence number 2, three bundles, fair with both sides sending | 377 000 | passes |
| `pump_one_way` | halves of 2 bytes, records of 1, nothing goes wrong, only the server sends | | **violates** `BackpressureEnds` |
| `install` | 2 generations, 2 inits, 1 server, 9 kinds of supplied book, 3 segments | 1 183 000 | passes |
| `transport` | both adapters, 36 pairs of outboxes, pipe of 48 bytes, writes of 30, fair | 497 000 | passes |
| `transport_retry` | two short frames one way, receiver goes on after a time-out | | **violates** `FramesIntact` |
| `doorkeeper` | 2 clients again and again, 1 slot, 1 chunk each way, fair | 367 000 | passes |

What the properties say is written above each of them. In short:

* `allocator`: `NoReuse`; `ReleasedIsDurable` (no readable record either disk may hold
  offers a released segment); `ReadIsBurnt` (a body is read only when that is
  already so); `OwnStateOpens` (any two readable contents the program's writes
  may leave are accepted by `open`); `RecoveryAdoptsNewest` (what a recovery
  writes is at or beyond everything the copies may hold); `AnchorsAdvance`;
  `LedgerSpec` (refinement); `IInv`, the inductive invariant of the proofs, which
  the recovery preserves too.
* `handshake`: `SegmentUsedOnce` (neither end keys two connections alike, a key two
  peers have is that of one connection, and its segment is burnt at both ends),
  `KeysAgree`, `NoFalseAccusation`, `HandshakesEnd` (both receives of a client, those of
  the server's thread).
* `session`: `NonceOnce`, `OpenedIsPrefix`.
* `terminal`: `OneHolder`, `WritesFenced`, `ShellOutlivesConnections`,
  `NoOrphanShell`, `FencedEnds`, `ExitEndsConnections`.
* `client`: `LeaseKept`; `ExitNotLost` (a connection the server ended with Exit is never
  taken for one the peer just closed, and not for a lost one where the grace was in time for
  what the connection held); `SessionEnds`.
* `pump*`: `PadUsedOnce`, `OpenedWasSealed`, `NeverRefused`, `AckedBeforeUse`,
  `BackpressureEnds`.
* `install`: `SuccessIsPair`, `NeverOverwrites`, `ServedBookIsTheOne`,
  `GeneratedIsDurable`, `InspectIsRight`.
* `transport*`: `ChannelSpec` (refinement), `CallsEnd`, `DecodeInvertsEncode`;
  `FramesIntact` for callers that retry.
* `doorkeeper`: `LimitHeld` (with the types), `NormalIsComplete`, `BlameIsRight`,
  `SlotReturns` (once it is over, the slot comes back unless a write is held up for ever).

The type invariants (`TypeOK`) of `Terminal`, `FullOtpPump`, `Handshake` and
`Session` hold in the same instances; the runs leave them out.

### Bounds

Four segments with ranges of two let a range be wasted, another follow it and
the book run out exactly; three generations allow a crash in every phase
followed by two more transactions. Two processes suffice for everything the
lock arbitrates, and the proofs remove the bound. The recovery race needs three:
one that decides early, one that issues, one that issues again. A handshake
touches one connection and the pointers; two connections of three clients allow
a lost one, a restart and a retry, and two segments let a pair use one up and
meet the end of the book.
Two connections per PTY are one takeover, and one attaches while the other
opens; MaxHandle = 1 leaves several PTYs out, which share nothing but the
registry and its mutex. Two unread chunks let output remain when a drain has
taken its share. In `client` the numbers keep the order and the sums of the real
ones: the lease is the shortest that `ClientAssumption` allows. An exit grace of 8 is in
time for one frame in the connection and not for two, and both occur, so both sides
of the premise of `ExitNotLost` do; that the premise is needed shows with a grace
of 2: without it TLC finds the client about to ping on a connection that is gone.
A pipe of 48
bytes holds a short frame whole and part of a long one, and 30 bytes a write
split both header and payload at different places. Every message type travels, alone and
in the direction it has in the code: each frame of the terminal, each result of the
arbitration and each reason of a denial, the shortest DATA and the longest
(`MAX_APP_PLAINTEXT`, 65536 in the code, is 107 here). With them go frames that decode
to nothing. `DecodeInvertsEncode` has two parts: each of these messages, and of those
that have no encoding (a DATA one byte too long, a refusal with a pointer), is
looked at by itself, and a frame received, well formed or not, that decodes to anything must
be the encoding of it. Books of three
segments, written two at a time, are interrupted inside and between chunks. The pump's book holds three
bundles; with the few records `MaxSeq = 2` allows, each direction switches at most once.
What holds beyond the first switch is in the proofs.
`MaxSeq = 5` in `session` is the u64 limit in the small: the last number is
reached and refused. One slot and two clients make every arrival race an end;
a chunk in each direction is enough for data to be in flight when the other
direction fails. Deadlock is not checked where the system may
rest: bounded books run out, connections end, sessions are closed.

### Fairness

`Handshake!FairSpec`: weak fairness of each client's and each server thread's steps;
every receive has a deadline, so a thread that waits takes the time-out step.
The lock is granted to some waiting thread whenever it is free.
`Terminal!FairSpec`: each call of a connection thread returns within its poll
slice or write budget, a child runs on to its exec, and the exit grace is
250 ms of monotonic time; nothing is assumed of clients, shells or of who gets a
mutex. `TerminalClient!PairFairSpec`: both loops and time go on. `Transport!FairSpec`:
a thread that was woken or can proceed does, deadlines pass, and a caller that
saw an error closes; a sleeping thread is owed nothing. `MCFullOtpPump!FairSpec`:
both callers handle what arrives and keep sending; `OneWaySpec`: the same with
only the server sending. `Doorkeeper!FairSpec`: a thread whose next system call can return goes
on, and a write that is held up need not, except that it fails once the socket is shut down or
reset; nothing is assumed of the ends. `SlotReturns` takes an error, or that both
ends have finished or reset, as its premise, and leaves two outcomes: the slot
returns, or no error was recorded and a write stays held up for ever.

### Disagreements with the documentation

1. `startup_race`. `startup_recover` decides from what it read and rewrites the
   stale copy with no lock held. If another process issues in between, the
   rewrite puts an older record into one copy; a second such rewrite sets the other back
   too, and the next process issues the same segment.
   `otp-recovery/src/lib.rs:145` says "No lower record is ever written".
   Starts that do not overlap are safe (`allocator`, `StartupNoReuse`), and so is
   the allocator by itself (`NoReuseHolds`): the lock just starts too late.
2. `pump_one_way`. Prefetch waits until *both* directions have consumed their
   next stream. With one idle direction the busy one gets one more bundle and then
   never another, where `pump.rs:6` expects only the tail of the
   idle direction to be wasted.
3. `transport_retry`. A receive that times out inside a frame discards what it has
   read. `otp-transport/src/lib.rs:86` therefore demands that the connection be
   closed after any error and not tried again; the loops of the terminal
   (`server.rs:151`, `client.rs:175`) poll with deadlines of some 25 ms and go on
   receiving. If the bytes of a frame arrive further apart than that, the rest
   of the frame is read as a header.

Other observations made while modelling, none of which a run reports:

* Two clients with copies of one book and their own anchors both issue a segment
  and seal under it before the server refuses the later one:
  `docs/specs/wp03-nonce-aad-key-lifecycle.md:74` derives that the keys of different
  sessions differ from each segment being issued once. `SegmentUsedOnce` says what
  remains true: each end by itself never repeats a key.
* The shell may write its last output and exit between the drain of a turn and
  `poll_exit`. The server then sends Exit and shuts its side down (`server.rs:434`)
  with that output unread; draining it later fails.
* The server's exit grace is a fixed 250 ms (`server.rs:444`) over a socket buffer of many frames:
  a client held up longer by its own stdout, or by the output before Exit, can find the
  connection closed. `ExitNotLost` therefore has `InTime(sv.backlog)` as its premise. Input that arrives within the
  grace ends the connection at once, as failed rather than exited. And one slice of input may be held for 5 s
  (`MASTER_WRITE_BUDGET`), longer than the lease timeout of 2000 ms that
  `main.rs:95` accepts: the client is then evicted although it pinged.
* A connection that opens a terminal and cannot be sent Granted leaves a shell
  behind whose handle no client was told.
* `loopback.rs:3` calls the loopback aligned with TCP. After its own `shutdown_write` a
  loopback end can still send, which a TCP end cannot; and a frame without
  payload that is the last before the shutdown is malformed over the loopback and
  delivered over TCP. `Transport` has both; `FrameChannel` allows a frame
  to be lost with the connection, so it holds over either.
* An end that has sent FIN and reads no more keeps the doorkeeper's slot for as long as it
  stays connected, if the other has more to send than the sockets hold: the pipe
  phase has no time-out (`proxy.rs:233`, `proxy.rs:351`).
* A detach returns code 0, where `main.rs:773` speaks of the shell's exit code.
* The JSON of `book inspect` lacks a comma after `book_id`.
* `anchor init` that is overtaken by a server starting on the new pair reads
  back a record that is no longer INIT and unlinks anchors in use. The constant
  `ServeDuringInit` is for it: with TRUE, TLC reports `ServedBookIsTheOne`
  violated. The run assumes that nobody serves before init has returned.
* An init whose first write fails, or that is killed, leaves one file; later
  inits refuse until it is removed by hand.
* A repair killed between truncation and write leaves an empty copy, which later
  starts quarantine rather than repair.
* A record the pump cannot decode is an error to the caller but does not close
  the pump, other than one that fails its checks. The sender has spent the pad of
  that record, so every later one is refused or both ends wait for ever;
  `BackpressureEnds` therefore allows for a network that tampers.
* When the doorkeeper cannot start the second pipe thread, the connection's thread
  panics and its slot is returned, while the first pipe thread keeps both
  sockets until its client ends. `LimitHeld` counts slots, not such leftovers.
* A connection may attach to a terminal whose shell has exited but was not yet
  retired, and output is drained to a connection before its lease is checked
  again in the same turn.
* A silent client holds the server's allocator mutex until its deadline; the
  other connections wait (`HandshakesEnd` shows that they wait finitely).

## The proofs

`AllocatorProofs` (for every set of processes, book, hash function and bounds
that satisfy `Allocator`'s assumptions):

* `Invariance`: `Spec => []IInv`. `NoReuse` alone is not inductive: a process could be
  about to hand out a segment below another's pointer. `IInv` adds that only the
  lock's holder is up (`LockInv`); that every content a copy may show now or
  after power loss is torn, foreign or sound (`CopyInv`) and that any two of
  them can be ordered by `decide` (`ChainInv`); and for the process that serves, that its
  record is at or above all of them (`Newest`), that nothing at or beyond its
  pointer was released (`Pointer`), that in the INTENT phase the first copy
  already keeps the INTENT while the second is written (`FirstCopy`), and that
  the range in memory is burnt (`Burnt`). There is one lemma per kind of step;
  `StorageStep` covers what any write does to the copies.
* `TypeCorrect`, `ReleasedDurable`, `ReadBurnt`, `NeverLockedOut`: consequences
  of `IInv` (the third is a conjunct of it, the last needs `ChainInv` and
  the soundness of each record).
* `ImplementsLedger`: `Spec => LedgerSpec`. The only step that changes `times`
  is the end of the COMMIT; by `Pointer` it is a `Grant`.
* `NoReuseHolds`, and `AnchorsOnlyAdvance` for the action property, from the same
  invariant.

The second part of `AllocatorProofs` is about `Startup` (under the hypothesis
`Overlap = FALSE`, which `startup_race` shows to be needed): `StartupInv` adds to `IInv` that a process in `startup_recover` is the only
one there is (`Alone`), that copy A still holds what was read of it (`SeenInv`), and
that the record being written over a copy is what the other copy holds, sound, and at
or above everything in play (`Planned`). `RepairStorage` is the counterpart of
`StorageStep` for a writer without the lock. `RecoveryHolds` follows; and what
the first part shows of `Spec` is shown again of `StartupSpec`, the specification the run
checks, in which the repairs write to the anchors too: `StartupAnchors`,
`StartupImplementsLedger`, `StartupNoReuse`, `StartupAnchorsAdvance`.

`SessionProofs` (for every last sequence number): `Invariance` of `IInv`, which
says that records are numbered in order, that the counter of a live session is
the number of its records, and that the receiver's counter follows what it
opened; `NonceNeverRepeats` and `OpensInOrder` follow.

`HandshakeProofs` (for every number of clients, connections, restarts and faults and
every content of the books): `IInv` follows a segment number on its way. A key at
an end is the segment the end agreed to and lies below its durable pointer
(`ClientInv`, `ServerInv`); until a client has its key, its allocator stands where
HELLO said, and the allocator of the server stands where the thread in the
handshake found it; what a frame that was sent says of its sender stays
true (`Honest`), and what is in flight was sent or is visibly damaged
(`InFlight`). `Grows` collects what no step takes back, so a step
has to be looked at only for the machine that takes it. `TypeCorrect`,
`SegmentUsedOnceHolds` and `KeysAgreeHolds` follow. `NoFalseAccusationHolds` needs a
second invariant, `Quiet`: without faults the frames in flight are exactly those
the receiver's phase waits for, with the pointers it will compare (`InStep`).

`TerminalProofs` (for every number of connections, handles and chunks): `IInv` says where
each thread is allowed to be with which lease, handle and child (`Threads`), that the
registry, its mutex and the children agree (`Registry`), and that every token in use
was granted and none is newer than the lease's (`WritersGranted`). `TypeCorrect`,
`OneHolderHolds`, `NoOrphan`, `WritesAreFenced` and `ShellsOutlive` follow;
the last two are action properties.

The second part of `TerminalProofs` is about `TerminalClient` (for every setting of the
times that meets `ClientAssumption`, every capacity and any amount of input and output).
`PairInv` turns the two races into bounds that a tick cannot exhaust. `UntilSend` bounds
the ticks until the pump has sent the next frame that restarts its ping clock, from wherever
it is and however long stdout still holds it up: `LeaseInv` says that age of the lease and
this bound stay within the lease timeout while nothing is on the way, and that a frame
on the way is taken in time. `UntilPoll` bounds the ticks to the client's next read,
and `UntilExit` adds a turn for each frame before Exit: `ExitInv` says that Exit is the last
frame, for every grace, and that this bound stays within the grace where `InTime` holds of
the frames the connection held when Exit was sent. Each step of either end
leaves the bounds or lowers them (`Closer`, `Progress`), and a tick, which both loops allow only
after a turn or while held up, lowers them by one (`TickSends`, `TickReads`).
`Phases` says which places of the two ends go together. `PairInvariance`, `LeaseIsKept`
and `ExitIsNotLost` are the results.

`PumpProofs` (for every length of pad, key, record and every number of bundles): the
bundles of a direction form a chain in which each begins where the one before it
ended (`Chain`), the current and the next stream of an end are in it (`StreamsOf`), each
record was sealed at its own place of it (`SealedBy`, `CountedFor`, `ReceivedBy`),
and the receiver's stream is where the sender's was when the record at the head
of the channel was sealed (`InSync`). `Negotiation` and `Outstanding` tie NEED, OFFER
and ACK in flight to the phase of both ends. `PadUsedOnceHolds`,
`OpenedWasSealedHolds`, `NeverRefusedHolds`, `AckedBeforeUseHolds` and `TypeCorrect` follow.

`InstallProofs` (for every number of runs, every layout of supplied books): `BookInv` says for
each run of `book generate` what of its file is written and what is durable
(`RunInv`, `HeaderOf`), `AnchorInv` which files an init may still remove (`OwnInv`) and what
a success leaves behind, `ServeInv` that the book at the path, the anchors and what a server has open
name the same book (`Settled`, `Ledger`, `Serving`). `GeneratedHolds`,
`SuccessHolds`, `NeverOverwritesHolds`; and `ServedHolds`, under the hypothesis
`ServeDuringInit = FALSE` that the observation above shows to be needed.

`DoorkeeperProofs` (for every number of clients and slots): the counter is the number of
connections that hold a slot, each connection's threads are where its phase says
(`Placed`; a held-up write is one of the places), and an outcome is explained by what an end did (`Explained`).
`LimitHolds`, `NormalHolds` and `BlameHolds` follow.

`TransportProofs` (for every capacity, every size of write and whatever the ends have to
send, under the hypothesis `RetryTimeouts = FALSE`, which `transport_retry` shows to be needed):
a direction is one stream of bytes. `Layout` says where each frame that was begun ends in it,
`Writer` up to where it has been written, `Reader` from where the receiver is
reading, and `Bytes` that header, part and pipe are the bytes between these positions. A
header read at a frame's beginning is therefore that frame's own, and the body that is read
has its length, also where it is empty and the loopback waits for it or gives it up:
`Invariance`. From it every step maps to a step of `FrameChannel` or to a
stutter (`Refinement`), and what was received is a prefix of what was sent, also when the
connection breaks (`FramesAreIntact`). `OutboxAssumption` says that frames are bytes;
that they are well framed is not assumed, `send_frame` refuses the others.

The inductive invariants of these modules were checked with TLC on the instances of
the runs before they were proved; only that of the allocator is also a property of a run.
Three proofs began with a failure that said something about the model: the handshake's
properties used to be stated per TCP connection, which TLC refutes from four
faults on; a supplied book with the id of one that is yet to be generated had to be
excluded, as ids are random; and a former `ClientAssumption` was too weak, TLC then
refuting `LeaseKept` for settings it allowed, while the failing write of an
input after the exit was seen was missing from `ServerRecv`.

Model-checked only:

* all liveness properties (`HandshakesEnd`, `FencedEnds`, `ExitEndsConnections`,
  `SessionEnds`, `BackpressureEnds`, `CallsEnd`, `SlotReturns`): fairness is outside what
  the prover handles;
* `InspectIsRight`, `DecodeInvertsEncode`: what a fold over the bytes or segments of
  a file computes, which needs induction over data.

## What is not modelled

* The kernel's side of a PTY: queue sizes, echo and line discipline. That a large
  paste cannot fill both queues depends on them; `Terminal` lets any write run
  over its budget. The raw mode of the client's own terminal.
* Of the doorkeeper: the stop flag and signals, the version observer, the log
  format and the configuration.
* Cryptography: AEAD and MACs are ideal, hashes are injective where `open` uses
  them; key splitting and zeroisation are left out.
* Doctor, process hardening, audit log, CLI parsing: sequential checks and output
  without shared state.
* `recover_with_options` with a watermark or a real commit verifier: the CLI
  never passes one.

## What would come next

Every safety property the runs check is proved, but for the two that compute with
folds. Worth doing beyond that: the watermark option of the recovery once the CLI
passes one, and a caller for the full-OTP pump, whose fairness is assumed here.
