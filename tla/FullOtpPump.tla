---------------------------- MODULE FullOtpPump ----------------------------
(***************************************************************************)
(* The full-OTP data pump (crate otp-fullotp, pump.rs, pad.rs, record.rs): *)
(* the client's and the server's FullOtpPump, joined by one ordered        *)
(* connection per direction that carries control messages and records.     *)
(*                                                                         *)
(* Each direction has a pad stream: the current bundle's half, consumed    *)
(* from the left, and at most one next half.  The server reserves bundles  *)
(* and offers them, the client reserves the same range and acknowledges.   *)
(*                                                                         *)
(* Abstractions: a segment holds one byte, so base_segment is the address  *)
(* of the half's first pad byte and a bundle is 2 * PadHalf segments.  A   *)
(* record is its header fields and whether its tag verifies.  The caller   *)
(* (no caller exists in the repository outside the tests) sends what the   *)
(* pump returns at once and in order, reports low water, and closes its    *)
(* pump when the connection is gone.                                       *)
(***************************************************************************)
EXTENDS Integers, Sequences, FiniteSets

CONSTANTS
    PadHalf,     \* PAD_HALF
    KeyLen,      \* MAC_KEY_LEN
    LowWater,    \* LOW_WATER
    MaxSeq,      \* u64::MAX, the last record_seq
    BookEnd,     \* segments of the book
    MaxSkip,     \* bound: segments other connections take from the server's book
    MaxLen,      \* bound: longest plaintext the caller sends
    MaxChan      \* bound: records on their way in one direction

ASSUME PumpAssumption ==
    /\ {PadHalf, KeyLen, LowWater, MaxSeq, BookEnd, MaxSkip, MaxLen, MaxChan} \subseteq Nat
    /\ KeyLen > 0 /\ KeyLen < PadHalf

Roles == {"client", "server"}
Dirs == {"c2s", "s2c"}
Peer(r) == IF r = "client" THEN "server" ELSE "client"
Out(r) == IF r = "client" THEN "c2s" ELSE "s2c"
In(r) == Out(Peer(r))

VARIABLES
    cur,       \* cur[r][d]: DirPlane::current at r
    next,      \* next[r][d]: DirPlane::next at r
    sendSeq,   \* send_seq
    recvSeq,   \* recv_seq
    nextId,    \* next_bundle_id
    acked,     \* next_acked (server)
    pending,   \* pending_ack (server), 0 for None
    closed,    \* closed
    ptr,       \* ptr[r]: allocator pointer of r's copy of the book
    chan,      \* chan[r]: messages on their way to r
    sealed,    \* sealed[r]: the records r sent
    opened,    \* opened[r]: the records r accepted, with the pad it used on them
    sum,       \* sum[r]: session_consumed of r's sending direction
    failed,    \* failed[r]: r's pump refused a record or a control message
    tampered   \* a record was altered on its way

pumpVars == <<cur, next, sendSeq, recvSeq, nextId, acked, pending, closed>>
ghosts == <<sealed, opened, sum, failed, tampered>>
vars == <<cur, next, sendSeq, recvSeq, nextId, acked, pending, closed,
          ptr, chan, sealed, opened, sum, failed, tampered>>

Stream == [id : Nat, base : Nat, off : 0 .. PadHalf]
NoStream == [id |-> 0, base |-> 0, off |-> 0]    \* None; bundle 0 is never next

\* split_bundle: C2S takes the first half of the range, S2C the second.
Half(id, base, d) ==
    [id |-> id, base |-> IF d = "c2s" THEN base ELSE base + PadHalf, off |-> 0]
SplitBundle(id, base) == [d \in Dirs |-> Half(id, base, d)]
NoNext == [d \in Dirs |-> NoStream]

Remaining(s) == PadHalf - s.off

\* Mutant of MaxRecordLen: no room is kept for the key.
MaxLenWithoutKey(s) == Remaining(s)

MaxRecordLen(s) == IF Remaining(s) > KeyLen THEN Remaining(s) - KeyLen ELSE 0
BelowLowWater(s) == Remaining(s) < LowWater

\* The record of l bytes sealed next on stream s: its header and its tag.
RecordOf(r, s, l) ==
    [kind |-> "data", dir |-> Out(r), bundle |-> s.id, base |-> s.base,
     seq |-> sendSeq[r], off |-> s.off, len |-> l, tag |-> TRUE]

\* The types of both pumps; no stream is read past the end of its half.
TypeOK ==
    /\ cur \in [Roles -> [Dirs -> Stream]]
    /\ next \in [Roles -> [Dirs -> Stream]]
    /\ sendSeq \in [Roles -> 0 .. MaxSeq]
    /\ recvSeq \in [Roles -> 0 .. MaxSeq]
    /\ nextId \in [Roles -> Nat]
    /\ acked \in BOOLEAN
    /\ pending \in Nat
    /\ closed \in [Roles -> BOOLEAN]
    /\ ptr \in [Roles -> Nat]
    /\ sum \in [Roles -> Nat]
    /\ failed \in [Roles -> BOOLEAN]
    /\ tampered \in BOOLEAN

\* Both ends hold bundle 0, reserved after the handshake segment.
Init ==
    /\ cur = [r \in Roles |-> SplitBundle(0, 1)]
    /\ next = [r \in Roles |-> NoNext]
    /\ sendSeq = [r \in Roles |-> 0]
    /\ recvSeq = [r \in Roles |-> 0]
    /\ nextId = [r \in Roles |-> 1]
    /\ acked = FALSE
    /\ pending = 0
    /\ closed = [r \in Roles |-> FALSE]
    /\ ptr = [r \in Roles |-> 1 + 2 * PadHalf]
    /\ chan = [r \in Roles |-> <<>>]
    /\ sealed = [r \in Roles |-> <<>>]
    /\ opened = [r \in Roles |-> <<>>]
    /\ sum = [r \in Roles |-> 0]
    /\ failed = [r \in Roles |-> FALSE]
    /\ tampered = FALSE

HasNext(r, d) == next[r][d] # NoStream

\* Mutant of NextHeld: only one direction is looked at.
NextHeldC2S(r) == HasNext(r, "c2s")

NextHeld(r) == \E d \in Dirs : HasNext(r, d)

\* fail_waste_all and the closed flag.
WasteAll(r) ==
    /\ cur' = [cur EXCEPT ![r] = [d \in Dirs |-> [cur[r][d] EXCEPT !.off = PadHalf]]]
    /\ next' = [next EXCEPT ![r] = NoNext]
    /\ closed' = [closed EXCEPT ![r] = TRUE]
    /\ UNCHANGED <<sendSeq, recvSeq, nextId, acked, pending>>

Refuse(r) == WasteAll(r) /\ failed' = [failed EXCEPT ![r] = TRUE]

Post(r, m) == chan' = [chan EXCEPT ![Peer(r)] = Append(@, m)]
Answer(r, m) == chan' = [chan EXCEPT ![r] = Tail(@), ![Peer(r)] = Append(@, m)]
Consume(r) == chan' = [chan EXCEPT ![r] = Tail(@)]

\* retire_into and refresh_ack_state_after_switch: direction d of r goes on
\* with stream s of the next bundle.  (A client never asks for its next_acked.)
Switched(r, d, s) ==
    /\ cur' = [cur EXCEPT ![r][d] = s]
    /\ next' = [next EXCEPT ![r][d] = NoStream]
    /\ acked' = IF r = "server" /\ \A e \in Dirs \ {d} : ~HasNext(r, e)
                THEN FALSE ELSE acked

Stays(r, d, s) ==
    /\ cur' = [cur EXCEPT ![r][d] = s]
    /\ UNCHANGED <<next, acked>>

\* Mutant of NextReadyForSend: the server does not wait for PAD_ACK.
NextReadyUnacked(r) == HasNext(r, Out(r))

NextReadyForSend(r) == HasNext(r, Out(r)) /\ (r = "client" \/ acked)

-----------------------------------------------------------------------------
(***************************************************************************)
(* The data plane.                                                         *)
(***************************************************************************)

\* Mutant of AfterRecord: the cursor passes over the pad but not the key.
AfterRecordShort(s, n) == [s EXCEPT !.off = @ + n]

\* PadStream::advance.
AfterRecord(s, n) == [s EXCEPT !.off = @ + KeyLen + n]

InFlight(r) ==
    Cardinality({i \in DOMAIN chan[r] : chan[r][i].kind \in {"data", "garbage"}})

\* send of n bytes: what fits is sealed; a bundle with no room is left for
\* the next one, and while that is not ready (Backpressure) nothing happens.
Send(r, n) ==
    LET d == Out(r)
        switch == MaxRecordLen(cur[r][d]) = 0
        s == IF switch THEN next[r][d] ELSE cur[r][d]
        l == IF n < MaxRecordLen(s) THEN n ELSE MaxRecordLen(s)
    IN
    /\ ~closed[r] /\ InFlight(Peer(r)) < MaxChan
    /\ switch => NextReadyForSend(r)
    /\ sendSeq[r] < MaxSeq
    /\ IF switch THEN Switched(r, d, AfterRecord(s, l)) ELSE Stays(r, d, AfterRecord(s, l))
    /\ sendSeq' = [sendSeq EXCEPT ![r] = @ + 1]
    /\ sum' = [sum EXCEPT ![r] = @ + KeyLen + l]
    /\ sealed' = [sealed EXCEPT ![r] = Append(@, RecordOf(r, s, l))]
    /\ Post(r, RecordOf(r, s, l))
    /\ UNCHANGED <<recvSeq, nextId, pending, closed, ptr, opened, failed, tampered>>

\* The record sealed with the last sequence number is never returned.
SendExhausted(r) ==
    /\ ~closed[r]
    /\ MaxRecordLen(cur[r][Out(r)]) = 0 => NextReadyForSend(r)
    /\ sendSeq[r] = MaxSeq
    /\ WasteAll(r)
    /\ UNCHANGED <<ptr, chan, ghosts>>

HeadIs(r, k) == chan[r] # <<>> /\ Head(chan[r]).kind = k

\* The stream receive looks at: a record of the following bundle switches.
SwitchesTo(r, m) ==
    m.bundle = cur[r][In(r)].id + 1 /\ next[r][In(r)].id = m.bundle

RecvStream(r, m) == IF SwitchesTo(r, m) THEN next[r][In(r)] ELSE cur[r][In(r)]

\* Mutant of Opens: the tag is not compared.
OpensAnyTag(r, m, s) ==
    /\ m.dir = In(r) /\ m.bundle = s.id /\ m.base = s.base
    /\ m.seq = recvSeq[r]
    /\ m.off = s.off /\ Remaining(s) >= KeyLen + m.len

\* What receive and open_record check, in this order.
Opens(r, m, s) ==
    /\ m.dir = In(r) /\ m.bundle = s.id /\ m.base = s.base
    /\ m.seq = recvSeq[r]
    /\ m.off = s.off /\ Remaining(s) >= KeyLen + m.len
    /\ m.tag

Receive(r) ==
    LET m == Head(chan[r])
        s == RecvStream(r, m)
        d == In(r)
    IN
    /\ HeadIs(r, "data") /\ ~closed[r]
    /\ Opens(r, m, s)
    /\ IF SwitchesTo(r, m) THEN Switched(r, d, AfterRecord(s, m.len))
                           ELSE Stays(r, d, AfterRecord(s, m.len))
    /\ recvSeq' = [recvSeq EXCEPT ![r] = @ + 1]
    /\ opened' = [opened EXCEPT ![r] =
                     Append(@, [m EXCEPT !.bundle = s.id, !.base = s.base, !.off = s.off])]
    /\ Consume(r)
    /\ UNCHANGED <<sendSeq, nextId, pending, closed, ptr, sealed, sum, failed, tampered>>

\* A record for another direction, bundle, place or with a wrong tag.
ReceiveRefused(r) ==
    /\ HeadIs(r, "data") /\ ~closed[r]
    /\ ~Opens(r, Head(chan[r]), RecvStream(r, Head(chan[r])))
    /\ Refuse(r)
    /\ Consume(r)
    /\ UNCHANGED <<ptr, sealed, opened, sum, tampered>>

\* A frame that is no record at all: the error of the first decode is
\* returned as it is.
ReceiveUndecodable(r) ==
    /\ HeadIs(r, "garbage") /\ ~closed[r]
    /\ Consume(r)
    /\ UNCHANGED <<pumpVars, ptr, sealed, opened, sum, failed, tampered>>

-----------------------------------------------------------------------------
(***************************************************************************)
(* The control plane.                                                      *)
(***************************************************************************)

\* The server's allocator hands out the next 2 * PadHalf segments.
Reserves(r) ==
    /\ ptr[r] + 2 * PadHalf <= BookEnd
    /\ ptr' = [ptr EXCEPT ![r] = @ + 2 * PadHalf]

\* r takes the bundle that starts at base as its next one.
Adopt(r, base) ==
    /\ next' = [next EXCEPT ![r] = SplitBundle(nextId[r], base)]
    /\ nextId' = [nextId EXCEPT ![r] = @ + 1]
    /\ UNCHANGED <<cur, sendSeq, recvSeq, closed>>

\* prefetch: reserve, keep, offer.
Prefetches ==
    /\ Reserves("server")
    /\ Adopt("server", ptr["server"])
    /\ acked' = FALSE
    /\ pending' = nextId["server"]

Offer == [kind |-> "offer", bundle |-> nextId["server"], base |-> ptr["server"]]

\* server_prefetch at the server's own low water.
ServerPrefetch ==
    /\ ~closed["server"] /\ ~NextHeld("server")
    /\ \E d \in Dirs : BelowLowWater(cur["server"][d])
    /\ Prefetches
    /\ Post("server", Offer)
    /\ UNCHANGED ghosts

\* The book is used up, or the reservation fails.
ServerPrefetchFails ==
    /\ ~closed["server"] /\ ~NextHeld("server")
    /\ \E d \in Dirs : BelowLowWater(cur["server"][d])
    /\ WasteAll("server")
    /\ UNCHANGED <<ptr, chan, ghosts>>

\* The client reports low water (once per message the server has not read).
ClientNeed ==
    /\ ~closed["client"]
    /\ \E d \in Dirs : BelowLowWater(cur["client"][d])
    /\ \A i \in DOMAIN chan["server"] : chan["server"][i].kind # "need"
    /\ Post("client", [kind |-> "need"])
    /\ UNCHANGED <<pumpVars, ptr, ghosts>>

\* PAD_NEED at the server: one bundle at a time is outstanding.
OnNeed ==
    /\ HeadIs("server", "need") /\ ~closed["server"]
    /\ IF NextHeld("server")
       THEN Consume("server") /\ UNCHANGED <<pumpVars, ptr>>
       ELSE \/ Prefetches /\ Answer("server", Offer)
            \/ WasteAll("server") /\ Consume("server") /\ UNCHANGED ptr
    /\ UNCHANGED ghosts

\* PAD_OFFER at the client: the sequence, the single outstanding bundle, and
\* that the local pointer is exactly the offered base.
Acceptable(m) == m.bundle = nextId["client"] /\ ~NextHeld("client")

OnOffer ==
    LET m == Head(chan["client"]) IN
    /\ HeadIs("client", "offer") /\ ~closed["client"]
    /\ Acceptable(m) /\ ptr["client"] = m.base
    /\ Reserves("client")
    /\ Adopt("client", m.base)
    /\ Answer("client", [kind |-> "ack", bundle |-> m.bundle])
    /\ UNCHANGED <<acked, pending, ghosts>>

\* The pointer differs or the reservation fails, or the offer is out of order
\* and refused: in either case the session is over.
OnOfferFails ==
    /\ HeadIs("client", "offer") /\ ~closed["client"]
    /\ IF Acceptable(Head(chan["client"]))
       THEN WasteAll("client") /\ UNCHANGED failed
       ELSE Refuse("client")
    /\ Consume("client")
    /\ UNCHANGED <<ptr, sealed, opened, sum, tampered>>

\* Mutant of OnAck: the acknowledgement does not open the send gate.
OnAckForgets ==
    LET m == Head(chan["server"]) IN
    /\ HeadIs("server", "ack") /\ ~closed["server"]
    /\ IF pending = m.bundle
       THEN /\ pending' = 0
            /\ UNCHANGED <<acked, cur, next, sendSeq, recvSeq, nextId, closed, failed>>
       ELSE Refuse("server")
    /\ Consume("server")
    /\ UNCHANGED <<ptr, sealed, opened, sum, tampered>>

\* PAD_ACK at the server must answer the one outstanding offer.
OnAck ==
    LET m == Head(chan["server"]) IN
    /\ HeadIs("server", "ack") /\ ~closed["server"]
    /\ IF pending = m.bundle
       THEN /\ acked' = TRUE
            /\ pending' = 0
            /\ UNCHANGED <<cur, next, sendSeq, recvSeq, nextId, closed, failed>>
       ELSE Refuse("server")
    /\ Consume("server")
    /\ UNCHANGED <<ptr, sealed, opened, sum, tampered>>

\* The caller ends the session and tells the peer; CLOSE at the peer.
Close(r) ==
    /\ ~closed[r]
    /\ WasteAll(r)
    /\ Post(r, [kind |-> "close"])
    /\ UNCHANGED <<ptr, ghosts>>

OnClose(r) ==
    /\ HeadIs(r, "close") /\ ~closed[r]
    /\ WasteAll(r)
    /\ Consume(r)
    /\ UNCHANGED <<ptr, ghosts>>

\* A closed pump takes no notice of messages.
Ignore(r) ==
    /\ closed[r] /\ chan[r] # <<>>
    /\ Consume(r)
    /\ UNCHANGED <<pumpVars, ptr, ghosts>>

\* The peer has closed and everything it sent was read.
PeerGone(r) ==
    /\ ~closed[r] /\ closed[Peer(r)] /\ chan[r] = <<>>
    /\ WasteAll(r)
    /\ UNCHANGED <<ptr, chan, ghosts>>

-----------------------------------------------------------------------------
(***************************************************************************)
(* The world.                                                              *)
(***************************************************************************)

\* Another connection of the server takes segments from the same book.
ServerBookMoves ==
    /\ ~closed["server"]
    /\ \E k \in 1 .. MaxSkip :
         /\ ptr["server"] + k <= BookEnd
         /\ ptr' = [ptr EXCEPT !["server"] = @ + k]
    /\ UNCHANGED <<pumpVars, chan, ghosts>>

\* A record is altered, or replaced by something that is no record.
Tamper(r) ==
    /\ ~tampered
    /\ \E i \in DOMAIN chan[r] :
         /\ chan[r][i].kind = "data"
         /\ \/ chan' = [chan EXCEPT ![r][i].tag = FALSE]
            \/ chan' = [chan EXCEPT ![r][i] = [kind |-> "garbage"]]
    /\ tampered' = TRUE
    /\ UNCHANGED <<pumpVars, ptr, sealed, opened, sum, failed>>

SendAny(r) == \E n \in 1 .. MaxLen : Send(r, n)

Handle(r) ==
    Receive(r) \/ ReceiveRefused(r) \/ ReceiveUndecodable(r) \/ OnClose(r) \/ Ignore(r)

Control ==
    \/ ServerPrefetch \/ ServerPrefetchFails \/ ClientNeed \/ OnNeed
    \/ OnOffer \/ OnOfferFails \/ OnAck

Next ==
    \/ \E r \in Roles : SendAny(r) \/ SendExhausted(r) \/ Handle(r)
    \/ \E r \in Roles : Close(r) \/ PeerGone(r) \/ Tamper(r)
    \/ Control
    \/ ServerBookMoves

Spec == Init /\ [][Next]_vars

-----------------------------------------------------------------------------
(***************************************************************************)
(* Properties.                                                             *)
(***************************************************************************)

\* The pad bytes of the records in sequence q: the key and the XOR pad of each.
PadOf(q) ==
    UNION {q[i].base + q[i].off .. q[i].base + q[i].off + KeyLen + q[i].len - 1 :
             i \in DOMAIN q}

\* Every pad byte enters at most one record, as key or as pad, and the two
\* directions never share one: the bytes used are as many as the accounting
\* of session_consumed says.
PadUsedOnce ==
    /\ \A r \in Roles : Cardinality(PadOf(sealed[r])) = sum[r]
    /\ PadOf(sealed["client"]) \cap PadOf(sealed["server"]) = {}

\* What one end accepted is a prefix of what the other sent, unaltered, each
\* record opened with the very pad bytes it was sealed with.
OpenedWasSealed ==
    \A r \in Roles :
        opened[r] = SubSeq(sealed[Peer(r)], 1, Len(opened[r]))

\* Nothing either end does makes the other refuse a message: as long as no
\* record is altered on its way, offers, acknowledgements, switches and data
\* always arrive in an order the receiver accepts.
NeverRefused == \A r \in Roles : failed[r] => tampered

\* "Switching only to an acknowledged bundle": the server sends no record
\* under a bundle before the client adopted it.
AckedBeforeUse ==
    cur["server"]["s2c"].id < nextId["client"]

\* send reports Backpressure.
Stuck(r) ==
    ~closed[r] /\ MaxRecordLen(cur[r][Out(r)]) = 0 /\ ~NextReadyForSend(r)

\* A sender that reports Backpressure can go on, or its session ends, as long
\* as no record is altered (one that cannot be decoded is dropped without
\* closing the pump, and then both ends may wait for ever).
BackpressureEnds ==
    \A r \in Roles : Stuck(r) ~> (~Stuck(r) \/ tampered)
============================================================================
