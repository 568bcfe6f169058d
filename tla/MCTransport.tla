---------------------------- MODULE MCTransport ----------------------------
(* Instances of Transport for TLC: the frames, and who has which to send. *)
EXTENDS Transport

Tag == [i \in 1 .. TAG_LEN |-> 9]

Msg(t, fields, blob) == [type |-> t, fields |-> fields, blob |-> blob]

Data(seq, plain) == Msg("Data", [epoch |-> 0, seq |-> seq], plain \o Tag)

Body == [book_id |-> 1, segment_index |-> 3, client_nonce |-> 258, server_nonce |-> 6,
         direction |-> 1, epoch |-> 0, seq |-> 0, msg_type |-> 4, label |-> 7]

Hello == Msg("Hello", [book_id |-> 1, client_nonce |-> 258, client_pointer |-> 300,
                       features |-> 1], <<>>)
IssueRequest == Msg("IssueRequest", [chosen_pointer |-> 3, client_nonce |-> 258,
                                     server_nonce |-> 6], <<>>)
Confirm(t) == Msg(t, [segment_index |-> 3, session_nonce |-> 264, epoch |-> 0, seq |-> 0],
                  EncodeConfirmBody(Body) \o Tag)
Arbitrate(r, p) == Msg("Arbitrate", [server_nonce |-> 6, server_pointer |-> p,
                                     result |-> r], <<>>)

T(t, fields, blob) == EncodeTerminal([type |-> t, fields |-> fields, blob |-> blob])

Size == [rows |-> 24, cols |-> 80]
Bytes(n) == [i \in 1 .. n |-> i]

Open == Data(1, T("Open", Size, <<>>))
Attach == Data(1, T("Attach", [handle |-> 2] @@ Size, <<>>))
Input == Data(2, T("Input", <<>>, <<5, 6>>))
Resize == Data(3, T("Resize", Size, <<>>))
Ping == Data(3, T("Ping", <<>>, <<>>))
Granted == Data(0, T("Granted", [handle |-> 2, token |-> 300], <<>>))
Denied(r) == Data(1, T("Denied", [reason |-> r], <<>>))
Output == Data(1, T("Output", <<>>, <<8>>))
Exit == Data(2, T("Exit", [code |-> 130], <<>>))

\* The shortest and the longest DATA, and the longest that is refused.
Empty == Data(4, <<>>)
Full(t) == Data(5, T(t, <<>>, Bytes(DATA_CHUNK_MAX)))
TooLong == Data(5, Bytes(MAX_APP_PLAINTEXT + 1))

ToServer ==
    {Hello, IssueRequest, Confirm("ConfirmC2s"),
     Open, Attach, Input, Resize, Ping, Full("Input")}

ToClient ==
    {Arbitrate(r, 5) : r \in {0, 1, 2, 4}} \cup {Denied(r) : r \in 1 .. 3}
    \cup {Arbitrate(3, 0), Confirm("ConfirmS2c"), Granted, Output, Exit, Full("Output")}

\* With those that have no encoding.
MCMessages == ToServer \cup ToClient \cup {Empty, TooLong, Arbitrate(3, 5)}

Wire(m) == Encode(m).val

\* Frames that are well framed but decode to nothing: another version, a type
\* that is not assigned, a result that is not assigned, a refusal with a
\* pointer, a data length that is not the payload's, a payload too short.
Patched(f, i, b) == [f EXCEPT ![i] = b]
Malformed ==
    <<Patched(Wire(Hello), 2, 1), Patched(Wire(Hello), 4, 7), Patched(Wire(Hello), 4, 6),
      Patched(Wire(Arbitrate(0, 3)), 33, 5), Patched(Wire(Arbitrate(0, 3)), 33, 3),
      Patched(Wire(Input), 24, 17), Patched(Wire(Input), 24, 22),
      Patched(Wire(Ping), 25, 6), ToBE(VERSION, 2) \o ToBE(3, 2) \o ToBE(0, 4)>>

Box(a, b) == ("A" :> a) @@ ("B" :> b)

\* Every message alone; traffic both ways; two frames one after the other, one
\* of them without payload; and what does not decode.
MCOutboxes ==
    {Box(<<Wire(m)>>, <<>>) : m \in ToServer}
    \cup {Box(<<>>, <<Wire(m)>>) : m \in ToClient}
    \cup {Box(<<Wire(Hello)>>, <<Wire(Confirm("ConfirmS2c"))>>),
          Box(<<Patched(Wire(Hello), 8, 45)>>, <<Wire(Arbitrate(3, 0))>>),
          Box(<<Wire(Empty), Wire(Input)>>, <<>>),
          Box(<<Malformed[9], Malformed[9]>>, <<>>)}
    \cup {Box(<<Malformed[i]>>, <<>>) : i \in 1 .. 8}
    \cup {Box(<<>>, <<Malformed[i]>>) : i \in {4, 5}}

\* Two frames one way, for the callers that receive again after a time-out.
RetryOutboxes == {Box(<<Wire(Ping), Wire(Ping)>>, <<>>)}
============================================================================
