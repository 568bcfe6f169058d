------------------------------- MODULE Codec -------------------------------
(***************************************************************************)
(* The wire formats, byte by byte: protocol messages (otp-codec encode.rs  *)
(* and decode.rs), the confirm body inside a CONFIRM, and the terminal     *)
(* frames that travel as the plaintext of DATA (otp-terminal frame.rs).    *)
(*                                                                         *)
(* A message is its type and a record of its fields.  Numbers and          *)
(* identifiers are naturals below 2^16, written big-endian in their real   *)
(* width; a wider number read back from bytes that are no such field is    *)
(* Huge, which is beyond every limit.  Layouts of the encoder and of the   *)
(* decoder are two definitions, as they are two pieces of code.            *)
(***************************************************************************)
EXTENDS Naturals, Sequences, SequencesExt

CONSTANT MAX_APP_PLAINTEXT      \* 65536 in message.rs; scaled down for TLC

\* A DATA payload can be as long as any other, so MAX_FRAME_PAYLOAD bounds all.
ASSUME AppPlaintextAssumption ==
    MAX_APP_PLAINTEXT \in Nat /\ MAX_APP_PLAINTEXT >= 107

-----------------------------------------------------------------------------
(***************************************************************************)
(* Constants of the frame and the registry of types.                       *)
(***************************************************************************)
VERSION == 2
FRAME_HEADER_LEN == 8
TAG_LEN == 16
SEALED_LEN == 103
CONFIRM_BODY_LEN == 87
MIN_DATA_FIELD == TAG_LEN
MAX_DATA_FIELD == MAX_APP_PLAINTEXT + TAG_LEN
MAX_FRAME_PAYLOAD == 16 + MAX_DATA_FIELD

MsgTypes == <<"Hello", "Arbitrate", "IssueRequest", "ConfirmC2s", "ConfirmS2c", "Data">>

ArbitrateResults == <<"Ok", "ServerAhead", "Exhausted", "BookMismatch", "ClientAhead">>

\* payload_len_range: the closed interval of payload lengths of a type.
PayloadLenRange(t) ==
    CASE t = "Hello" -> 44 .. 44
      [] t = "Arbitrate" -> 25 .. 25
      [] t = "IssueRequest" -> 40 .. 40
      [] t \in {"ConfirmC2s", "ConfirmS2c"} -> 139 .. 139
      [] t = "Data" -> 32 .. MAX_FRAME_PAYLOAD

\* send_direction, as the set of roles that may receive the type.
Receivers(t) ==
    CASE t \in {"Hello", "IssueRequest", "ConfirmC2s"} -> {"Server"}
      [] t \in {"Arbitrate", "ConfirmS2c"} -> {"Client"}
      [] t = "Data" -> {"Client", "Server"}

-----------------------------------------------------------------------------
(***************************************************************************)
(* Bytes, results and the cursor.                                          *)
(***************************************************************************)
Ok(x) == [ok |-> TRUE, val |-> x]
Err(c) == [ok |-> FALSE, code |-> c]

Huge == 65536

\* to_be_bytes of a number below 2^16 in w bytes.
ToBE(v, w) ==
    [i \in 1 .. w |-> IF i = w THEN v % 256 ELSE IF i = w - 1 THEN v \div 256 ELSE 0]

\* from_be_bytes.
FromBE(s) ==
    LET n == Len(s) IN
    IF \E i \in 1 .. n - 2 : s[i] # 0 THEN Huge
    ELSE s[n] + (IF n > 1 THEN 256 * s[n - 1] ELSE 0)

\* Width in bytes of every field of fixed width.
Width ==
    [book_id |-> 16, client_nonce |-> 16, server_nonce |-> 16, session_nonce |-> 16,
     client_pointer |-> 8, server_pointer |-> 8, chosen_pointer |-> 8,
     segment_index |-> 8, features |-> 4, result |-> 1, epoch |-> 4, seq |-> 8,
     data_len |-> 4, version |-> 2, direction |-> 1, msg_type |-> 2, label |-> 14,
     rows |-> 2, cols |-> 2, handle |-> 8, token |-> 8, reason |-> 1, code |-> 4]

\* The bytes of the named fields, in that order.
Written(names, fields) ==
    FlattenSeq([i \in 1 .. Len(names) |-> ToBE(fields[names[i]], Width[names[i]])])

\* Cursor::take: the next n bytes, or BAD_LENGTH; an error sticks.
Take(c, name, n) ==
    IF c.code # "none" THEN c
    ELSE IF c.pos + n > Len(c.buf) THEN [c EXCEPT !.code = "BAD_LENGTH"]
    ELSE [c EXCEPT !.pos = @ + n,
                   !.got = (name :> SubSeq(c.buf, c.pos + 1, c.pos + n)) @@ @]

Cursor(buf) == [buf |-> buf, pos |-> 0, code |-> "none", got |-> <<>>]

\* The fixed-width fields read one after the other from a fresh cursor.
ReadFields(names, buf) ==
    FoldLeft(LAMBDA c, f : Take(c, f, Width[f]), Cursor(buf), names)

Numbers(c, names) == [f \in ToSet(names) |-> FromBE(c.got[f])]

\* Cursor::done: bytes that are left over are refused.
Done(c, msg) ==
    IF c.code # "none" THEN Err(c.code)
    ELSE IF c.pos # Len(c.buf) THEN Err("TRAILING_BYTES")
    ELSE msg

-----------------------------------------------------------------------------
(***************************************************************************)
(* Protocol messages: [type, fields, blob], where blob is the opaque bytes *)
(* of a CONFIRM (sealed) or of a DATA (data) and empty otherwise.          *)
(***************************************************************************)
EncodeLayout(t) ==
    CASE t = "Hello" -> <<"book_id", "client_nonce", "client_pointer", "features">>
      [] t = "Arbitrate" -> <<"server_nonce", "server_pointer", "result">>
      [] t = "IssueRequest" -> <<"chosen_pointer", "client_nonce", "server_nonce">>
      [] t \in {"ConfirmC2s", "ConfirmS2c"} ->
             <<"segment_index", "session_nonce", "epoch", "seq">>
      [] t = "Data" -> <<"epoch", "seq", "data_len">>

\* 4.2: a BOOK_MISMATCH carries no pointer.
BadCombination(fields) ==
    ArbitrateResults[fields.result + 1] = "BookMismatch" /\ fields.server_pointer # 0

\* encode: what is not canonical is refused before a byte is written.
Encode(msg) ==
    LET t == msg.type
        fields == IF t = "Data" THEN [data_len |-> Len(msg.blob)] @@ msg.fields
                  ELSE msg.fields
        payload == Written(EncodeLayout(t), fields) \o msg.blob
    IN
    IF t = "Arbitrate" /\ BadCombination(msg.fields) THEN Err("BAD_ENUM")
    ELSE IF t = "Data" /\ Len(msg.blob) \notin MIN_DATA_FIELD .. MAX_DATA_FIELD
    THEN Err("BAD_LENGTH")
    ELSE Ok(ToBE(VERSION, 2)
            \o ToBE(CHOOSE n \in DOMAIN MsgTypes : MsgTypes[n] = t, 2)
            \o ToBE(Len(payload), 4)
            \o payload)

HelloLayout == <<"book_id", "client_nonce", "client_pointer", "features">>
ArbitrateLayout == <<"server_nonce", "server_pointer", "result">>
IssueLayout == <<"chosen_pointer", "client_nonce", "server_nonce">>
ConfirmLayout == <<"segment_index", "session_nonce", "epoch", "seq">>
DataLayout == <<"epoch", "seq", "data_len">>

\* decode_hello, decode_issue: fixed fields and nothing after them.
DecodeFixed(t, layout, p) ==
    LET c == ReadFields(layout, p) IN
    Done(c, Ok([type |-> t, fields |-> Numbers(c, layout), blob |-> <<>>]))

\* decode_arbitrate: the result is looked up before done() is asked.
DecodeArbitrate(p) ==
    LET c == ReadFields(ArbitrateLayout, p)
        fields == Numbers(c, ArbitrateLayout)
    IN
    IF c.code = "none" /\ fields.result + 1 \notin DOMAIN ArbitrateResults
    THEN Err("BAD_ENUM")
    ELSE Done(c, IF BadCombination(fields) THEN Err("BAD_ENUM")
                 ELSE Ok([type |-> "Arbitrate", fields |-> fields, blob |-> <<>>]))

\* decode_confirm.
DecodeConfirm(t, p) ==
    LET c == Take(ReadFields(ConfirmLayout, p), "sealed", SEALED_LEN) IN
    Done(c, Ok([type |-> t, fields |-> Numbers(c, ConfirmLayout), blob |-> c.got.sealed]))

\* Mutant of DecodeData: the declared data length is not held against the bytes.
DecodeDataLoose(p) ==
    LET c == ReadFields(DataLayout, p)
        d == Take(c, "data", Len(p) - c.pos)
    IN
    Done(d, Ok([type |-> "Data", fields |-> Numbers(d, <<"epoch", "seq">>),
                blob |-> d.got.data]))

\* decode_data: the declared length is in bounds and consumes the payload.
DecodeData(p) ==
    LET c == ReadFields(DataLayout, p)
        n == FromBE(c.got.data_len)
        d == Take(c, "data", n)
    IN
    IF c.code = "none" /\ n \notin MIN_DATA_FIELD .. MAX_DATA_FIELD
    THEN Err("BAD_LENGTH")
    ELSE Done(d, Ok([type |-> "Data", fields |-> Numbers(d, <<"epoch", "seq">>),
                     blob |-> d.got.data]))

DecodePayload(t, p) ==
    CASE t = "Hello" -> DecodeFixed(t, HelloLayout, p)
      [] t = "Arbitrate" -> DecodeArbitrate(p)
      [] t = "IssueRequest" -> DecodeFixed(t, IssueLayout, p)
      [] t \in {"ConfirmC2s", "ConfirmS2c"} -> DecodeConfirm(t, p)
      [] t = "Data" -> DecodeData(p)

\* decode: the checks in the order that fixes the code of a malformed frame.
Decode(role, buf) ==
    LET n == Len(buf)
        raw == FromBE(SubSeq(buf, 3, 4))
        t == MsgTypes[raw]
        plen == FromBE(SubSeq(buf, 5, 8))
        end == FRAME_HEADER_LEN + plen
    IN
    IF n < FRAME_HEADER_LEN THEN Err("FRAME_TRUNCATED")
    ELSE IF FromBE(SubSeq(buf, 1, 2)) # VERSION THEN Err("BAD_VERSION")
    ELSE IF raw \notin DOMAIN MsgTypes THEN Err("UNKNOWN_MSG_TYPE")
    ELSE IF plen \notin PayloadLenRange(t) THEN Err("BAD_LENGTH")
    ELSE IF n < end THEN Err("FRAME_TRUNCATED")
    ELSE IF n > end THEN Err("TRAILING_BYTES")
    ELSE IF role \notin Receivers(t) THEN Err("WRONG_DIRECTION")
    ELSE DecodePayload(t, SubSeq(buf, FRAME_HEADER_LEN + 1, end))

-----------------------------------------------------------------------------
(***************************************************************************)
(* The confirm body: the 87 bytes inside a CONFIRM's sealed field.         *)
(***************************************************************************)
BodyLayout ==
    <<"version", "book_id", "segment_index", "client_nonce", "server_nonce",
      "direction", "epoch", "seq", "msg_type", "label">>

EncodeConfirmBody(body) == Written(BodyLayout, [version |-> VERSION] @@ body)

DecodeConfirmBody(buf) ==
    LET c == ReadFields(BodyLayout, buf)
        body == Numbers(c, BodyLayout)
    IN
    IF Len(buf) # CONFIRM_BODY_LEN THEN Err("BAD_LENGTH")
    ELSE IF body.version # VERSION THEN Err("BAD_VERSION")
    ELSE IF body.direction \notin {1, 2} THEN Err("BAD_ENUM")
    ELSE Done(c, Ok([f \in DOMAIN body \ {"version"} |-> body[f]]))

-----------------------------------------------------------------------------
(***************************************************************************)
(* Terminal frames: [type, fields, blob], blob being the data of an Input  *)
(* or an Output.                                                           *)
(***************************************************************************)
FRAME_OVERHEAD == 3
DATA_CHUNK_MAX == MAX_APP_PLAINTEXT - FRAME_OVERHEAD

TerminalTypes ==
    (1 :> "Open") @@ (2 :> "Attach") @@ (3 :> "Input") @@ (4 :> "Resize") @@ (5 :> "Ping")
    @@ (17 :> "Granted") @@ (18 :> "Denied") @@ (19 :> "Output") @@ (20 :> "Exit")

DenyReasons == (1 :> "Busy") @@ (2 :> "Gone") @@ (3 :> "Fenced")

TerminalLayout(t) ==
    CASE t \in {"Open", "Resize"} -> <<"rows", "cols">>
      [] t = "Attach" -> <<"handle", "rows", "cols">>
      [] t = "Granted" -> <<"handle", "token">>
      [] t = "Denied" -> <<"reason">>
      [] t = "Exit" -> <<"code">>
      [] t \in {"Ping", "Input", "Output"} -> <<>>

\* TerminalFrame::encode, of a frame within the limit its assert demands.
EncodeTerminal(f) ==
    <<CHOOSE n \in DOMAIN TerminalTypes : TerminalTypes[n] = f.type>>
    \o Written(TerminalLayout(f.type), f.fields)
    \o (IF f.type \in {"Input", "Output"} THEN ToBE(Len(f.blob), 2) \o f.blob ELSE <<>>)

\* decode_chunk.
DecodeChunk(t, rest) ==
    LET len == FromBE(SubSeq(rest, 1, 2)) IN
    IF Len(rest) < 2 \/ Len(rest) - 2 # len \/ len > DATA_CHUNK_MAX THEN Err("Protocol")
    ELSE Ok([type |-> t, fields |-> <<>>, blob |-> SubSeq(rest, 3, Len(rest))])

\* TerminalFrame::decode: exact lengths, known types and known reasons.
DecodeTerminal(bytes) ==
    LET t == TerminalTypes[Head(bytes)]
        rest == Tail(bytes)
        c == ReadFields(TerminalLayout(t), rest)
        fields == Numbers(c, TerminalLayout(t))
    IN
    IF bytes = <<>> \/ Head(bytes) \notin DOMAIN TerminalTypes THEN Err("Protocol")
    ELSE IF t \in {"Input", "Output"} THEN DecodeChunk(t, rest)
    ELSE IF c.code # "none" \/ c.pos # Len(rest) THEN Err("Protocol")
    ELSE IF t = "Denied" /\ fields.reason \notin DOMAIN DenyReasons THEN Err("Protocol")
    ELSE Ok([type |-> t, fields |-> fields, blob |-> <<>>])

\* chunk_input: the pieces of at most DATA_CHUNK_MAX bytes.
ChunkInput(data) ==
    LET n == (Len(data) + DATA_CHUNK_MAX - 1) \div DATA_CHUNK_MAX IN
    [i \in 1 .. n |-> SubSeq(data, (i - 1) * DATA_CHUNK_MAX + 1,
                             IF i = n THEN Len(data) ELSE i * DATA_CHUNK_MAX)]
=============================================================================
