-------------------------- MODULE TransportProofs --------------------------
(***************************************************************************)
(* Proofs about Transport for callers that close after a time-out: the     *)
(* framed stream implements FrameChannel, for every capacity, every chunk  *)
(* and whatever well or badly framed sequences the ends have to send.      *)
(*                                                                         *)
(* A direction is a stream of bytes.  Where its frames end in it, and      *)
(* which byte is where, is stated by positions: cut[i] is the length of    *)
(* the first i frames and str the bytes of all of them.                    *)
(***************************************************************************)
EXTENDS Transport, SequenceTheorems, TLAPS

\* The steps of a thread that has failed, or that closes its endpoint.
Dead == {"failed", "notify_close", "stop_recv", "notify_gone", "gone"}

InWrite == {"write", "wait_writable"}
InRead == {"read", "wait_readable"}

Thread == [at : Dead \cup InWrite \cup InRead \cup {"idle", "notify"},
           frame : Seq(Byte), off : Nat, header : Seq(Byte), part : Seq(Byte),
           deadline : BOOLEAN, late : BOOLEAN]

TypeOK ==
    /\ outbox \in [Side -> Seq(Sendable)]
    /\ pipe \in [Side -> [buf : Seq(Byte), write_closed : BOOLEAN, reader_gone : BOOLEAN]]
    /\ th \in [Side -> Thread]
    /\ reset \in [Side -> BOOLEAN]
    /\ sent \in [Side -> Seq(Sendable)]
    /\ got \in [Side -> Seq(Seq(Byte))]
    /\ heard \in [Side -> {"open", "eof", "broken"}]

\* What a thread carries belongs to the call it is in.
Carries(t) ==
    /\ t.at \notin InWrite => t.frame = <<>> /\ t.off = 0
    /\ t.at \notin InRead => t.header = <<>> /\ t.part = <<>>
    /\ t.at \in InWrite =>
         t.frame \in Sendable /\ WellFramed(t.frame) /\ t.off < Len(t.frame)

\* An end that reported an error or an end of the stream closes, and only one
\* that closes is gone.
ThreadInv(s) ==
    /\ Carries(th[s])
    /\ heard[s] # "open" => th[s].at \in Dead
    /\ pipe[Other(s)].reader_gone => th[s].at \in Dead

-----------------------------------------------------------------------------
(***************************************************************************)
(* One direction: S are the frames begun, G those the receiver was given,  *)
(* h and p what it has of the next one, b the pipe and w the sender.       *)
(***************************************************************************)

\* cut and str lay out the frames of S one after the other.
Layout(S, cut, str) ==
    /\ cut \in [0 .. Len(S) -> Nat] /\ str \in Seq(Byte)
    /\ cut[0] = 0
    /\ \A i \in 1 .. Len(S) : WellFramed(S[i]) /\ cut[i] = cut[i - 1] + Len(S[i])
    /\ \A i, j \in 0 .. Len(S) : i <= j => cut[i] <= cut[j]
    /\ Len(str) = cut[Len(S)]
    /\ \A i \in 1 .. Len(S) : \A j \in 1 .. Len(S[i]) : str[cut[i - 1] + j] = S[i][j]

\* The sender has written put bytes: the last frame is in the stream with at
\* least a byte, and whole unless the sender is in the middle of it or has failed.
Writer(S, put, w, cut) ==
    /\ put <= cut[Len(S)]
    /\ Len(S) > 0 => cut[Len(S) - 1] < put
    /\ w.off > 0 => /\ Len(S) > 0 /\ w.frame = S[Len(S)]
                    /\ put = cut[Len(S) - 1] + w.off
    /\ w.off = 0 /\ w.at \notin Dead => put = cut[Len(S)]

\* The receiver was given the first frames, and what it has of the next is a part
\* of its header, or its header and a part of its payload.
Reader(S, G, h, p) ==
    /\ Len(G) <= Len(S)
    /\ \A i \in 1 .. Len(G) : G[i] = S[i]
    /\ Len(h) = 0 => Len(p) <= FRAME_HEADER_LEN
    /\ Len(h) # 0 =>
         /\ Len(G) < Len(S)
         /\ Declared(h) \in Nat /\ Len(h) + Declared(h) = Len(S[Len(G) + 1])
         /\ Len(p) <= Declared(h)

\* What it has, and what is in the pipe, are the bytes that follow position c.
Bytes(c, h, p, b, str) ==
    /\ \A i \in 1 .. Len(h) : h[i] = str[c + i]
    /\ \A i \in 1 .. Len(p) : p[i] = str[c + Len(h) + i]
    /\ \A i \in 1 .. Len(b) : b[i] = str[c + Len(h) + Len(p) + i]

Stream(S, G, h, p, b, w, cut, str) ==
    /\ Layout(S, cut, str)
    /\ Writer(S, cut[Len(G)] + Len(h) + Len(p) + Len(b), w, cut)
    /\ Reader(S, G, h, p)
    /\ Bytes(cut[Len(G)], h, p, b, str)

\* s can still be given frames.
Live(s) == ~reset[s] /\ th[s].at \notin Dead

StreamInv(s) ==
    Live(Other(s)) =>
        \E cut, str :
            Stream(sent[s], got[Other(s)], th[Other(s)].header, th[Other(s)].part,
                   pipe[s].buf, th[s], cut, str)

IInv == TypeOK /\ \A s \in Side : ThreadInv(s) /\ StreamInv(s)

-----------------------------------------------------------------------------
(***************************************************************************)
(* Steps of one direction.                                                 *)
(***************************************************************************)

\* The stream begins empty.
LEMMA StreamStarts ==
    ASSUME NEW e \in Seq(Byte), Len(e) = 0, NEW w \in Thread, w.off = 0
    PROVE  Stream(e, e, e, e, e, w, [i \in 0 .. 0 |-> 0], e)
BY DEF Stream, Layout, Writer, Reader, Bytes, FRAME_HEADER_LEN

\* A sender that begins no write, or that gives one up and fails, changes nothing.
LEMMA StreamKept ==
    ASSUME NEW S, NEW G, NEW h, NEW p, NEW b, NEW w, NEW v, NEW cut, NEW str,
           Stream(S, G, h, p, b, w, cut, str),
           v.off > 0 => v.off = w.off /\ v.frame = w.frame,
           v.off = 0 /\ v.at \notin Dead => w.off = 0 /\ w.at \notin Dead
    PROVE  Stream(S, G, h, p, b, v, cut, str)
BY DEF Stream, Writer

\* A read moves bytes from the pipe to what the receiver has.
LEMMA StreamTaken ==
    ASSUME NEW S \in Seq(Seq(Byte)), NEW G \in Seq(Seq(Byte)), NEW h \in Seq(Byte),
           NEW p \in Seq(Byte), NEW b \in Seq(Byte), NEW w \in Thread, NEW cut, NEW str,
           Stream(S, G, h, p, b, w, cut, str),
           NEW a \in 0 .. Len(b),
           Len(p) + a <= IF Len(h) = 0 THEN FRAME_HEADER_LEN ELSE Declared(h)
    PROVE  Stream(S, G, h, p \o SubSeq(b, 1, a), SubSeq(b, a + 1, Len(b)), w, cut, str)
<1> DEFINE q == p \o SubSeq(b, 1, a)
           c == SubSeq(b, a + 1, Len(b))
<1>1. /\ SubSeq(b, 1, a) \in Seq(Byte) /\ Len(SubSeq(b, 1, a)) = a
      /\ \A i \in 1 .. a : SubSeq(b, 1, a)[i] = b[i]
  <2>1. \A i \in 1 .. a : b[i] \in Byte
    BY ElementOfSeq
  <2> QED
    BY <2>1, SubSeqProperties, LenProperties
<1>2. /\ c \in Seq(Byte) /\ Len(c) = Len(b) - a
      /\ \A i \in 1 .. Len(b) - a : c[i] = b[a + i]
  <2>1. \A i \in a + 1 .. Len(b) : b[i] \in Byte
    BY ElementOfSeq
  <2>2. a + 1 \in Int /\ Len(b) \in Int
    BY LenProperties
  <2> QED
    BY <2>1, <2>2, SubSeqProperties
<1>3. /\ q \in Seq(Byte) /\ Len(q) = Len(p) + a
      /\ \A i \in 1 .. Len(p) + a : q[i] = IF i <= Len(p) THEN p[i] ELSE b[i - Len(p)]
  <2>1. /\ q \in Seq(Byte) /\ Len(q) = Len(p) + Len(SubSeq(b, 1, a))
        /\ \A i \in 1 .. Len(p) + Len(SubSeq(b, 1, a)) :
             q[i] = IF i <= Len(p) THEN p[i] ELSE SubSeq(b, 1, a)[i - Len(p)]
    BY <1>1, ConcatProperties
  <2> HIDE DEF q
  <2>2. Len(p) \in Nat
    BY LenProperties
  <2>3. \A i \in 1 .. Len(p) + a : ~(i <= Len(p)) => i - Len(p) \in 1 .. a
    BY <2>2
  <2> QED
    BY <2>1, <2>2, <2>3, <1>1
<1>4. Len(p) \in Nat /\ Len(h) \in Nat /\ Len(b) \in Nat /\ Len(G) \in Nat /\ Len(S) \in Nat
  BY LenProperties
<1>5. cut[Len(G)] \in Nat
  BY <1>4 DEF Stream, Layout, Reader
<1>6. cut[Len(G)] + Len(h) + Len(q) + Len(c) = cut[Len(G)] + Len(h) + Len(p) + Len(b)
  BY SMTT(30), <1>2, <1>3, <1>4, <1>5
<1>7. Reader(S, G, h, q)
  BY <1>3 DEF Stream, Reader
<1>8. Bytes(cut[Len(G)], h, q, c, str)
  <2>1. ASSUME NEW i \in 1 .. Len(q)
        PROVE  q[i] = str[cut[Len(G)] + Len(h) + i]
    <3>1. CASE i <= Len(p)
      BY <3>1, <1>3, <1>4 DEF Stream, Bytes
    <3>2. CASE ~(i <= Len(p))
      <4>1. i - Len(p) \in 1 .. Len(b)
        BY <3>2, <1>3, <1>4
      <4>2. b[i - Len(p)] = str[cut[Len(G)] + Len(h) + Len(p) + (i - Len(p))]
        BY <4>1 DEF Stream, Bytes
      <4>3. cut[Len(G)] + Len(h) + Len(p) + (i - Len(p)) = cut[Len(G)] + Len(h) + i
        BY <1>3, <1>4, <1>5
      <4> QED
        BY <4>2, <4>3, <3>2, <1>3
    <3> QED
      BY <3>1, <3>2
  <2>2. ASSUME NEW i \in 1 .. Len(c)
        PROVE  c[i] = str[cut[Len(G)] + Len(h) + Len(q) + i]
    <3>1. a + i \in 1 .. Len(b) /\ c[i] = b[a + i]
      BY <1>2, <1>4
    <3>2. b[a + i] = str[cut[Len(G)] + Len(h) + Len(p) + (a + i)]
      BY <3>1 DEF Stream, Bytes
    <3>3. cut[Len(G)] + Len(h) + Len(p) + (a + i) = cut[Len(G)] + Len(h) + Len(q) + i
      BY SMTT(30), <1>3, <1>4, <1>5, <1>2
    <3> QED
      BY <3>1, <3>2, <3>3
  <2> QED
    BY <2>1, <2>2 DEF Stream, Bytes
<1> QED
  BY <1>6, <1>7, <1>8 DEF Stream

LEMMA HeaderLength == FRAME_HEADER_LEN \in Nat /\ FRAME_HEADER_LEN >= 8
BY DEF FRAME_HEADER_LEN

\* Where the next frame lies.
LEMMA NextFrame ==
    ASSUME NEW S \in Seq(Seq(Byte)), NEW cut, NEW str, Layout(S, cut, str),
           NEW k \in Nat, k < Len(S)
    PROVE  /\ S[k + 1] \in Seq(Byte) /\ Len(S[k + 1]) \in Nat
           /\ Len(S[k + 1]) >= FRAME_HEADER_LEN
           /\ Declared(S[k + 1]) = Len(S[k + 1]) - FRAME_HEADER_LEN
           /\ cut[k] \in Nat /\ cut[k + 1] = cut[k] + Len(S[k + 1])
           /\ \A j \in 1 .. Len(S[k + 1]) : str[cut[k] + j] = S[k + 1][j]
<1>1. Len(S) \in Nat /\ k + 1 \in 1 .. Len(S) /\ k \in 0 .. Len(S) /\ (k + 1) - 1 = k
  BY LenProperties
<1>2. S[k + 1] \in Seq(Byte) /\ Len(S[k + 1]) \in Nat
  BY <1>1, ElementOfSeq, LenProperties
<1>3. cut[k] \in Nat
  BY <1>1 DEF Layout
<1>4. WellFramed(S[k + 1]) /\ cut[k + 1] = cut[k] + Len(S[k + 1])
  BY <1>1 DEF Layout
<1>5. \A j \in 1 .. Len(S[k + 1]) : str[cut[k] + j] = S[k + 1][j]
  BY <1>1 DEF Layout
<1> QED
  BY <1>2, <1>3, <1>4, <1>5 DEF WellFramed

\* A receiver that has a byte of a frame has it of one that was sent.
LEMMA MoreToCome ==
    ASSUME NEW S \in Seq(Seq(Byte)), NEW G \in Seq(Seq(Byte)), NEW h \in Seq(Byte),
           NEW p \in Seq(Byte), NEW b \in Seq(Byte), NEW w, NEW cut, NEW str,
           Stream(S, G, h, p, b, w, cut, str),
           Len(h) + Len(p) + Len(b) > 0
    PROVE  Len(G) < Len(S)
<1>1. Len(p) \in Nat /\ Len(h) \in Nat /\ Len(b) \in Nat /\ Len(G) \in Nat /\ Len(S) \in Nat
  BY LenProperties
<1>2. cut[Len(G)] \in Nat /\ cut[Len(S)] \in Nat
  BY <1>1 DEF Stream, Layout, Reader
<1>3. cut[Len(G)] + Len(h) + Len(p) + Len(b) <= cut[Len(S)]
  BY DEF Stream, Writer
<1>4. Len(G) <= Len(S)
  BY DEF Stream, Reader
<1>5. Len(G) # Len(S)
  BY <1>1, <1>2, <1>3
<1> QED
  BY <1>1, <1>4, <1>5

\* The bytes that are read as a header are the header of the next frame.
LEMMA StreamHeader ==
    ASSUME NEW S \in Seq(Seq(Byte)), NEW G \in Seq(Seq(Byte)), NEW e \in Seq(Byte),
           NEW p \in Seq(Byte), NEW b \in Seq(Byte), NEW w, NEW cut, NEW str,
           Stream(S, G, e, p, b, w, cut, str), Len(e) = 0, FRAME_HEADER_LEN <= Len(p)
    PROVE  Stream(S, G, p, e, b, w, cut, str)
<1> DEFINE f == S[Len(G) + 1]
<1>1. Len(p) >= 8 /\ Len(p) + 0 = FRAME_HEADER_LEN
  BY LenProperties, HeaderLength DEF Stream, Reader
<1>2. Len(b) \in Nat /\ Len(G) \in Nat /\ Len(S) \in Nat /\ Len(p) \in Nat
  BY LenProperties
<1>3. Len(G) < Len(S)
  <2>1. Len(e) + Len(p) + Len(b) > 0
    BY <1>1, <1>2
  <2> QED
    BY <2>1, MoreToCome
<1>4. /\ f \in Seq(Byte) /\ Len(f) \in Nat /\ Len(f) >= 8 /\ Len(f) >= FRAME_HEADER_LEN
      /\ Declared(f) = Len(f) - FRAME_HEADER_LEN
      /\ cut[Len(G)] \in Nat
      /\ \A j \in 1 .. Len(f) : str[cut[Len(G)] + j] = f[j]
  <2>1. Layout(S, cut, str)
    BY DEF Stream
  <2> QED
    BY <2>1, <1>2, <1>3, NextFrame, HeaderLength
<1> HIDE DEF f
<1>5. \A i \in 1 .. Len(p) : p[i] = str[cut[Len(G)] + i]
  BY SMTT(30), <1>1, <1>4 DEF Stream, Bytes
<1>6. ASSUME NEW i \in 1 .. 8
      PROVE  p[i] = f[i]
  <2>1. i \in 1 .. Len(p) /\ i \in 1 .. Len(f)
    BY <1>1, <1>2, <1>4
  <2> QED
    BY <2>1, <1>4, <1>5
<1>7. Declared(p) = Declared(f)
  <2>1. ASSUME NEW i \in 5 .. 8
        PROVE  p[i] = f[i] /\ p[i] \in Byte /\ f[i] \in Byte
    <3>1. i \in 1 .. 8
      OBVIOUS
    <3>2. i \in 1 .. Len(p) /\ i \in 1 .. Len(f)
      BY <1>1, <1>2, <1>4
    <3> QED
      BY <3>1, <3>2, <1>4, <1>6, ElementOfSeq
  <2>2. /\ SubSeq(p, 5, 8) \in Seq(Byte) /\ Len(SubSeq(p, 5, 8)) = 4
        /\ \A i \in 1 .. 4 : SubSeq(p, 5, 8)[i] = p[5 + i - 1]
    BY <2>1, SubSeqProperties
  <2>3. /\ SubSeq(f, 5, 8) \in Seq(Byte) /\ Len(SubSeq(f, 5, 8)) = 4
        /\ \A i \in 1 .. 4 : SubSeq(f, 5, 8)[i] = f[5 + i - 1]
    BY <2>1, SubSeqProperties
  <2>4. \A i \in 1 .. 4 : SubSeq(p, 5, 8)[i] = SubSeq(f, 5, 8)[i]
    BY <2>1, <2>2, <2>3
  <2>5. SubSeq(p, 5, 8) = SubSeq(f, 5, 8)
    BY <2>2, <2>3, <2>4, SeqEqual
  <2> QED
    BY <2>5 DEF Declared
<1>8. Reader(S, G, p, e)
  <2>1. Declared(p) = Len(f) - FRAME_HEADER_LEN /\ Len(f) >= FRAME_HEADER_LEN
    BY <1>4, <1>7
  <2>2. Declared(p) \in Nat /\ Len(f) \in Nat
    BY <2>1, <1>4, HeaderLength
  <2>3. Len(p) + Declared(p) = Len(f)
    <3>1. FRAME_HEADER_LEN + Declared(p) = Len(f)
      BY <2>1, <2>2, HeaderLength
    <3> QED
      BY <3>1, <1>1, <1>2
  <2>4. Len(e) <= Declared(p) /\ Len(p) # 0
    BY <1>1, <1>2, <2>2
  <2> QED
    BY <1>3, <2>2, <2>3, <2>4 DEF Stream, Reader, f
<1>9. Bytes(cut[Len(G)], p, e, b, str)
  <2>1. cut[Len(G)] + Len(p) + Len(e) = cut[Len(G)] + Len(e) + Len(p)
    BY <1>2, <1>4
  <2>2. \A i \in 1 .. Len(e) : FALSE
    OBVIOUS
  <2> QED
    BY <1>5, <2>1, <2>2 DEF Stream, Bytes
<1>10. cut[Len(G)] + Len(p) + Len(e) + Len(b) = cut[Len(G)] + Len(e) + Len(p) + Len(b)
  BY <1>1, <1>2, <1>4
<1> QED
  BY <1>8, <1>9, <1>10 DEF Stream

\* A header and its payload are the next frame.
LEMMA StreamPayload ==
    ASSUME NEW S \in Seq(Seq(Byte)), NEW G \in Seq(Seq(Byte)), NEW h \in Seq(Byte),
           NEW p \in Seq(Byte), NEW b \in Seq(Byte), NEW w, NEW cut, NEW str,
           Stream(S, G, h, p, b, w, cut, str), Len(h) # 0, Declared(h) <= Len(p),
           NEW e \in Seq(Byte), Len(e) = 0
    PROVE  /\ Len(G) < Len(S) /\ h \o p = S[Len(G) + 1]
           /\ Stream(S, Append(G, h \o p), e, e, b, w, cut, str)
<1> DEFINE f == S[Len(G) + 1]
           k == Len(G)
<1> DEFINE L == Len(h)
<1>1. k < Len(S)
  BY DEF Stream, Reader
<1>2. Len(b) \in Nat /\ k \in Nat /\ Len(S) \in Nat /\ Len(p) \in Nat /\ L \in Nat
  BY LenProperties
<1>4. /\ f \in Seq(Byte) /\ Len(f) \in Nat
      /\ cut[k] \in Nat /\ cut[k + 1] = cut[k] + Len(f)
      /\ \A j \in 1 .. Len(f) : str[cut[k] + j] = f[j]
  <2>1. Layout(S, cut, str)
    BY DEF Stream
  <2> QED
    BY <2>1, <1>1, <1>2, NextFrame, HeaderLength
<1>5. L + Len(p) = Len(f)
  <2>1. Declared(h) \in Nat /\ L + Declared(h) = Len(f) /\ Len(p) <= Declared(h)
    BY DEF Stream, Reader
  <2>2. Len(f) \in Nat
    BY <1>4
  <2> HIDE DEF f
  <2>3. Declared(h) = Len(p)
    BY <1>2, <2>1, <2>2
  <2> QED
    BY <1>2, <2>1, <2>2, <2>3
<1> HIDE DEF f
<1>6. /\ h \o p \in Seq(Byte) /\ Len(h \o p) = Len(f)
      /\ \A i \in 1 .. Len(f) : (h \o p)[i] = IF i <= L THEN h[i] ELSE p[i - L]
  BY <1>1, <1>2, <1>4, <1>5, ConcatProperties
<1>7. ASSUME NEW i \in 1 .. Len(f)
      PROVE  (h \o p)[i] = f[i]
  <2>1. CASE i <= L
    <3>1. h[i] = str[cut[k] + i]
      BY <2>1, <1>1, <1>4 DEF Stream, Bytes
    <3> QED
      BY <3>1, <2>1, <1>4, <1>6
  <2>2. CASE ~(i <= L)
    <3>1. i - L \in 1 .. Len(p)
      BY <2>2, <1>4, <1>5
    <3>2. p[i - L] = str[cut[k] + Len(h) + (i - L)]
      BY <3>1 DEF Stream, Bytes
    <3>3. cut[k] + Len(h) + (i - L) = cut[k] + i
      BY SMTT(30), <1>1, <1>4
    <3> QED
      BY <3>2, <3>3, <2>2, <1>4, <1>6
  <2> QED
    BY <2>1, <2>2
<1>8. h \o p = f
  BY <1>4, <1>6, <1>7, SeqEqual
<1> DEFINE H == Append(G, h \o p)
<1>9. /\ Len(H) = k + 1 /\ H[k + 1] = f
      /\ \A i \in 1 .. k : H[i] = G[i]
  BY <1>4, <1>8, AppendProperties
<1>10. Reader(S, H, e, e)
  <2>1. ASSUME NEW i \in 1 .. Len(H)
        PROVE  H[i] = S[i]
    <3>1. CASE i = k + 1
      BY <3>1, <1>9 DEF f
    <3>2. CASE i # k + 1
      <4>1. i \in 1 .. k
        BY <3>2, <1>2, <1>9
      <4> QED
        BY <4>1, <1>9 DEF Stream, Reader
    <3> QED
      BY <3>1, <3>2
  <2>2. Len(H) <= Len(S)
    BY <1>1, <1>2, <1>9
  <2> HIDE DEF H
  <2> QED
    BY <2>1, <2>2, <1>1, HeaderLength DEF Reader
<1>11. cut[Len(H)] + Len(e) + Len(e) = cut[k] + Len(h) + Len(p)
  <2>1. cut[Len(H)] = cut[k] + Len(f)
    BY <1>4, <1>9
  <2>2. cut[Len(H)] \in Nat
    BY <2>1, <1>4
  <2>3. cut[k] \in Nat /\ Len(f) \in Nat
    BY <1>4
  <2> HIDE DEF H
  <2>4. cut[Len(H)] = cut[k] + Len(h) + Len(p)
    <3>1. \A c, x, y \in Nat : c + (x + y) = c + x + y
      OBVIOUS
    <3>2. cut[Len(H)] = cut[k] + (L + Len(p))
      BY <2>1, <1>5, Zenon
    <3> QED
      BY <3>1, <3>2, <2>3, <1>2, ZenonT(60)
  <2> QED
    BY <2>2, <2>4
<1>12. Bytes(cut[Len(H)], e, e, b, str)
  <2> HIDE DEF H
  <2>1. \A i \in 1 .. Len(e) : FALSE
    OBVIOUS
  <2> QED
    BY <1>11, <2>1 DEF Stream, Bytes
<1>13. Writer(S, cut[Len(H)] + Len(e) + Len(e) + Len(b), w, cut)
  BY <1>11 DEF Stream
<1>14. Stream(S, H, e, e, b, w, cut, str)
  BY <1>10, <1>12, <1>13 DEF Stream
<1> QED
  BY <1>1, <1>8, <1>14 DEF f

\* Bytes added to the pipe follow the ones that are in it.
LEMMA BytesPut ==
    ASSUME NEW c \in Nat, NEW h \in Seq(Byte), NEW p \in Seq(Byte), NEW b \in Seq(Byte),
           NEW str, Bytes(c, h, p, b, str), NEW x \in Seq(Byte),
           \A i \in 1 .. Len(x) : x[i] = str[c + Len(h) + Len(p) + Len(b) + i]
    PROVE  Bytes(c, h, p, b \o x, str)
<1>1. Len(h) \in Nat /\ Len(p) \in Nat /\ Len(b) \in Nat /\ Len(x) \in Nat
  BY LenProperties
<1>2. /\ Len(b \o x) = Len(b) + Len(x)
      /\ \A i \in 1 .. Len(b) + Len(x) :
           (b \o x)[i] = IF i <= Len(b) THEN b[i] ELSE x[i - Len(b)]
  BY ConcatProperties
<1>3. ASSUME NEW i \in 1 .. Len(b \o x)
      PROVE  (b \o x)[i] = str[c + Len(h) + Len(p) + i]
  <2>1. CASE i <= Len(b)
    BY <2>1, <1>1, <1>2 DEF Bytes
  <2>2. CASE ~(i <= Len(b))
    <3>1. i - Len(b) \in 1 .. Len(x)
      BY <2>2, <1>1, <1>2
    <3>2. x[i - Len(b)] = str[c + Len(h) + Len(p) + Len(b) + (i - Len(b))]
      BY <3>1
    <3>3. c + Len(h) + Len(p) + Len(b) + (i - Len(b)) = c + Len(h) + Len(p) + i
      BY <1>1
    <3> QED
      BY <3>2, <3>3, <2>2, <1>2
  <2> QED
    BY <2>1, <2>2
<1> QED
  BY <1>3 DEF Bytes

\* What write_partial takes of a frame.
LEMMA Piece ==
    ASSUME NEW f \in Seq(Byte), NEW off \in Nat, NEW n \in Nat, off + n <= Len(f)
    PROVE  /\ SubSeq(f, off + 1, off + n) \in Seq(Byte)
           /\ Len(SubSeq(f, off + 1, off + n)) = n
           /\ \A i \in 1 .. n : SubSeq(f, off + 1, off + n)[i] = f[off + i]
<1>1. Len(f) \in Nat
  BY LenProperties
<1>2. \A i \in off + 1 .. off + n : f[i] \in Byte
  BY <1>1, ElementOfSeq
<1>3. off + 1 \in Int /\ off + n \in Int
  OBVIOUS
<1> QED
  BY <1>2, <1>3, SubSeqProperties

\* A frame that was begun goes on.
LEMMA StreamWrites ==
    ASSUME NEW S \in Seq(Seq(Byte)), NEW G \in Seq(Seq(Byte)), NEW h \in Seq(Byte),
           NEW p \in Seq(Byte), NEW b \in Seq(Byte), NEW w, NEW cut, NEW str,
           Stream(S, G, h, p, b, w, cut, str),
           NEW f \in Seq(Byte), NEW off \in Nat, w.frame = f, w.off = off, off > 0,
           NEW n \in Nat, n > 0, off + n <= Len(f),
           NEW v, \/ v.off = 0 /\ off + n = Len(f)
                  \/ v.off = off + n /\ v.frame = f
    PROVE  Stream(S, G, h, p, b \o SubSeq(f, off + 1, off + n), v, cut, str)
<1> DEFINE x == SubSeq(f, off + 1, off + n)
           N == Len(S)
           c == cut[Len(G)]
           put == c + Len(h) + Len(p) + Len(b)
<1>1. /\ x \in Seq(Byte) /\ Len(x) = n
      /\ \A i \in 1 .. n : x[i] = f[off + i]
  BY Piece
<1>2. Len(h) \in Nat /\ Len(p) \in Nat /\ Len(b) \in Nat /\ Len(G) \in Nat /\ N \in Nat
      /\ Len(f) \in Nat
  BY LenProperties
<1>3. N > 0 /\ f = S[N] /\ put = cut[N - 1] + off
  BY DEF Stream, Writer
<1>4. c \in Nat
  BY <1>2 DEF Stream, Layout, Reader
<1> DEFINE base == cut[N - 1]
<1>5. /\ base \in Nat /\ cut[N] = base + Len(f)
      /\ \A j \in 1 .. Len(f) : str[base + j] = f[j]
  <2>1. N - 1 \in Nat /\ N - 1 < Len(S) /\ (N - 1) + 1 = N
    BY <1>2, <1>3
  <2>2. Layout(S, cut, str)
    BY DEF Stream
  <2>3. /\ cut[N - 1] \in Nat /\ cut[(N - 1) + 1] = cut[N - 1] + Len(S[(N - 1) + 1])
        /\ \A j \in 1 .. Len(S[(N - 1) + 1]) : str[cut[N - 1] + j] = S[(N - 1) + 1][j]
    <3> DEFINE m == N - 1
    <3>1. m \in Nat /\ m < Len(S)
      BY <2>1
    <3> HIDE DEF m
    <3>2. /\ cut[m] \in Nat /\ cut[m + 1] = cut[m] + Len(S[m + 1])
          /\ \A j \in 1 .. Len(S[m + 1]) : str[cut[m] + j] = S[m + 1][j]
      BY <3>1, <2>2, NextFrame
    <3> QED
      BY <3>2 DEF m
  <2> QED
    BY <2>1, <2>3, <1>3
<1>6. put = base + off
  BY <1>3
<1>7. \A i \in 1 .. n : x[i] = str[put + i]
  <2> HIDE DEF x, base, put
  <2>1. SUFFICES ASSUME NEW i \in 1 .. n
                 PROVE  x[i] = str[put + i]
    OBVIOUS
  <2>2. off + i \in 1 .. Len(f)
    BY <1>2
  <2>3. x[i] = f[off + i] /\ f[off + i] = str[base + (off + i)]
    BY <2>2, <1>1, <1>5
  <2>4. base + (off + i) = put + i
    <3>1. base \in Nat
      BY <1>5
    <3> QED
      BY <3>1, <1>6
  <2> QED
    BY <2>3, <2>4
<1>8. Bytes(c, h, p, b \o x, str)
  <2>1. Bytes(c, h, p, b, str)
    BY DEF Stream
  <2>2. \A i \in 1 .. Len(x) : x[i] = str[c + Len(h) + Len(p) + Len(b) + i]
    BY <1>1, <1>7
  <2> HIDE DEF x, c
  <2> QED
    BY <2>1, <2>2, <1>1, <1>4, BytesPut
<1> DEFINE put2 == c + Len(h) + Len(p) + Len(b \o x)
<1>9. put2 = put + n
  <2> HIDE DEF x, c
  <2>0. x \in Seq(Byte)
    BY <1>1
  <2>1. Len(b \o x) = Len(b) + Len(x)
    BY <2>0, ConcatProperties
  <2>2. Len(b \o x) = Len(b) + n
    BY <2>1, <1>1, Zenon
  <2>3. put \in Nat /\ Len(b) \in Nat
    BY <1>2, <1>4
  <2>4. c + Len(h) + Len(p) \in Nat
    BY <1>2, <1>4
  <2> DEFINE y == c + Len(h) + Len(p)
  <2>5. put2 = y + (Len(b) + n)
    BY <2>2, Zenon
  <2> HIDE DEF y
  <2>6. y + (Len(b) + n) = (y + Len(b)) + n
    BY <2>3, <2>4 DEF y
  <2> QED
    BY <2>5, <2>6, Zenon DEF y
<1>10. Writer(S, put2, v, cut)
  <2> HIDE DEF put2, put, base
  <2>1. base \in Nat /\ cut[N] = base + Len(f)
    BY <1>5
  <2>2. put2 = base + off + n
    BY <2>1, <1>6, <1>9
  <2> HIDE DEF N
  <2>3. put2 <= base + Len(f) /\ base < put2
    BY <2>1, <2>2, <1>2
  <2>4. v.off > 0 => v.frame = f /\ put2 = base + v.off
    BY <2>1, <2>2
  <2>5. v.off = 0 => put2 = base + Len(f)
    <3>1. v.off = 0 => off + n = Len(f)
      OBVIOUS
    <3>2. put2 = base + (off + n)
      BY <2>1, <2>2
    <3> QED
      BY <3>1, <3>2, Zenon
  <2> QED
    BY <2>1, <2>3, <2>4, <2>5, <1>3 DEF Writer, N, base
<1> HIDE DEF x
<1> QED
  BY <1>8, <1>10 DEF Stream, x

\* Where the frames lie when one more is begun.
LEMMA LayoutExtends ==
    ASSUME NEW S \in Seq(Seq(Byte)), NEW cut, NEW str, Layout(S, cut, str),
           NEW f \in Seq(Byte), WellFramed(f),
           NEW ext, ext = [i \in 0 .. Len(S) + 1 |->
                             IF i <= Len(S) THEN cut[i] ELSE cut[Len(S)] + Len(f)]
    PROVE  Layout(Append(S, f), ext, str \o f)
<1> DEFINE N == Len(S)
           T == Append(S, f)
           str2 == str \o f
<1>1. N \in Nat /\ Len(f) \in Nat
  BY LenProperties
<1>2. /\ Len(T) = N + 1 /\ T[N + 1] = f
      /\ \A i \in 1 .. N : T[i] = S[i]
  BY AppendProperties
<1>3. /\ str \in Seq(Byte) /\ Len(str) = cut[N] /\ cut \in [0 .. N -> Nat]
      /\ \A i, j \in 0 .. N : i <= j => cut[i] <= cut[j]
      /\ cut[0] = 0
  BY DEF Layout
<1>4. \A i \in 0 .. N : cut[i] \in Nat
  BY <1>3
<1>5. /\ \A i \in 0 .. N : ext[i] = cut[i]
      /\ ext[N + 1] = cut[N] + Len(f)
  BY <1>1
<1>6. cut[N] \in Nat
  BY <1>1, <1>4
<1>7. ext \in [0 .. N + 1 -> Nat]
  BY <1>1, <1>4, <1>6
<1>8. /\ str2 \in Seq(Byte) /\ Len(str2) = cut[N] + Len(f)
      /\ \A i \in 1 .. cut[N] + Len(f) :
           str2[i] = IF i <= cut[N] THEN str[i] ELSE f[i - cut[N]]
  <2>1. str \in Seq(Byte) /\ Len(str) = cut[N]
    BY <1>3
  <2>2. /\ str2 \in Seq(Byte) /\ Len(str2) = Len(str) + Len(f)
        /\ \A i \in 1 .. Len(str) + Len(f) :
             str2[i] = IF i <= Len(str) THEN str[i] ELSE f[i - Len(str)]
    BY <2>1, ConcatProperties
  <2> QED
    BY <2>1, <2>2
<1>9. ext[0] = 0
  BY <1>1, <1>3, <1>5
<1>10. ASSUME NEW i \in 1 .. N + 1
       PROVE  /\ WellFramed(T[i]) /\ ext[i] = ext[i - 1] + Len(T[i])
              /\ \A j \in 1 .. Len(T[i]) : str2[ext[i - 1] + j] = T[i][j]
  <2> HIDE DEF T, str2
  <2>1. CASE i = N + 1
    <3>1. T[i] = f /\ ext[i] = cut[N] + Len(f) /\ ext[i - 1] = cut[N]
      BY <2>1, <1>1, <1>2, <1>5
    <3>2. ASSUME NEW j \in 1 .. Len(f)
          PROVE  str2[cut[N] + j] = f[j]
      <4>1. /\ cut[N] + j \in 1 .. cut[N] + Len(f) /\ ~(cut[N] + j <= cut[N])
            /\ (cut[N] + j) - cut[N] = j
        BY <1>1, <1>6
      <4> QED
        BY <4>1, <1>8
    <3> QED
      BY <3>1, <3>2
  <2>2. CASE i # N + 1
    <3>1. i \in 1 .. N /\ i - 1 \in 0 .. N /\ i \in 0 .. N
      BY <2>2, <1>1
    <3>2. T[i] = S[i] /\ ext[i] = cut[i] /\ ext[i - 1] = cut[i - 1]
      BY <3>1, <1>2, <1>5
    <3>3. WellFramed(S[i]) /\ cut[i] = cut[i - 1] + Len(S[i])
      BY <3>1 DEF Layout
    <3>4. ASSUME NEW j \in 1 .. Len(S[i])
          PROVE  str2[cut[i - 1] + j] = S[i][j]
      <4>1. str[cut[i - 1] + j] = S[i][j]
        BY <3>1 DEF Layout
      <4>2. cut[i] <= cut[N] /\ cut[i] \in Nat /\ cut[i - 1] \in Nat
        BY <3>1, <1>1, <1>3, <1>4
      <4>3. Len(S[i]) \in Nat
        BY <3>1, ElementOfSeq, LenProperties
      <4>4. cut[i - 1] + j <= cut[N] /\ cut[i - 1] + j \in 1 .. cut[N] + Len(f)
        <5> DEFINE m == cut[i - 1] + j
        <5>1. m <= cut[i]
          BY SMTT(30), <4>2, <4>3, <3>3
        <5>2. m \in Nat /\ m >= 1
          BY SMTT(30), <4>2, <4>3
        <5> HIDE DEF m
        <5>3. m <= cut[N] /\ m \in 1 .. cut[N] + Len(f)
          BY SMTT(30), <5>1, <5>2, <4>2, <1>1, <1>6
        <5> QED
          BY <5>3 DEF m
      <4> QED
        BY <4>1, <4>4, <1>8
    <3> QED
      BY <3>2, <3>3, <3>4
  <2> QED
    BY <2>1, <2>2
<1>11. ASSUME NEW i \in 0 .. N + 1, NEW j \in 0 .. N + 1, i <= j
       PROVE  ext[i] <= ext[j]
  <2>1. CASE j \in 0 .. N
    <3>1. i \in 0 .. N
      BY <2>1, <1>1, <1>11
    <3> QED
      BY <2>1, <3>1, <1>3, <1>5, <1>11
  <2>2. CASE j \notin 0 .. N /\ i \in 0 .. N
    <3>1. j = N + 1 /\ N \in 0 .. N /\ i <= N
      BY <2>2, <1>1
    <3>2. ext[j] = cut[N] + Len(f) /\ ext[i] = cut[i] /\ cut[i] <= cut[N] /\ cut[i] \in Nat
      BY <2>2, <3>1, <1>3, <1>4, <1>5
    <3> QED
      BY <3>2, <1>1, <1>6
  <2>3. CASE j \notin 0 .. N /\ i \notin 0 .. N
    <3>1. i = N + 1 /\ j = N + 1
      BY <2>3, <1>1
    <3>2. ext[i] = ext[j] /\ ext[j] \in Nat
      BY <3>1, <1>7
    <3> QED
      BY <3>2
  <2> QED
    BY <2>1, <2>2, <2>3
<1> HIDE DEF T, str2
<1>12. Len(T) = N + 1 /\ Len(str2) = ext[N + 1]
  BY <1>2, <1>5, <1>8
<1>13. Layout(T, ext, str2)
  BY <1>7, <1>8, <1>9, <1>10, <1>11, <1>12 DEF Layout
<1> QED
  BY <1>13 DEF T, str2

\* A frame is begun.
LEMMA StreamBegins ==
    ASSUME NEW S \in Seq(Seq(Byte)), NEW G \in Seq(Seq(Byte)), NEW h \in Seq(Byte),
           NEW p \in Seq(Byte), NEW b \in Seq(Byte), NEW w, NEW cut, NEW str,
           Stream(S, G, h, p, b, w, cut, str), w.off = 0, w.at \notin Dead,
           NEW f \in Seq(Byte), WellFramed(f),
           NEW n \in Nat, n > 0, n <= Len(f),
           NEW v, \/ v.off = 0 /\ n = Len(f)
                  \/ v.off = n /\ v.frame = f
    PROVE  \E c2, s2 : Stream(Append(S, f), G, h, p, b \o SubSeq(f, 1, n), v, c2, s2)
<1> DEFINE N == Len(S)
           T == Append(S, f)
           x == SubSeq(f, 1, n)
           c == cut[Len(G)]
           put == c + Len(h) + Len(p) + Len(b)
           ext == [i \in 0 .. N + 1 |-> IF i <= N THEN cut[i] ELSE cut[N] + Len(f)]
           str2 == str \o f
<1>1. Len(h) \in Nat /\ Len(p) \in Nat /\ Len(b) \in Nat /\ Len(G) \in Nat /\ N \in Nat
      /\ Len(f) \in Nat
  BY LenProperties
<1>2. /\ x \in Seq(Byte) /\ Len(x) = n
      /\ \A i \in 1 .. n : x[i] = f[i]
  <2>1. \A i \in 1 .. n : f[i] \in Byte
    BY <1>1, ElementOfSeq
  <2> QED
    BY <2>1, SubSeqProperties
<1>3. /\ Len(T) = N + 1 /\ T[N + 1] = f
      /\ \A i \in 1 .. N : T[i] = S[i]
  BY AppendProperties
<1>4. Layout(S, cut, str) /\ Reader(S, G, h, p) /\ Bytes(c, h, p, b, str)
  BY DEF Stream
<1>5. Layout(T, ext, str2)
  BY <1>4, LayoutExtends
<1>6. put = cut[N]
  BY DEF Stream, Writer
<1>7. Len(G) <= N
  BY <1>4 DEF Reader
<1>8. c \in Nat /\ cut[N] \in Nat /\ str \in Seq(Byte) /\ Len(str) = cut[N]
  BY <1>1, <1>4, <1>7 DEF Layout
<1>9. ext[Len(G)] = c /\ ext[N] = cut[N] /\ ext[N + 1] = cut[N] + Len(f)
  BY <1>1, <1>7
<1>10. \A i \in 1 .. cut[N] : str2[i] = str[i]
  BY <1>1, <1>8, ConcatProperties
<1>11. \A i \in 1 .. Len(f) : str2[cut[N] + i] = f[i]
  <2>1. \A i \in 1 .. Len(str) + Len(f) :
           str2[i] = IF i <= Len(str) THEN str[i] ELSE f[i - Len(str)]
    <3>1. str \in Seq(Byte)
      BY <1>8
    <3> QED
      BY <3>1, ConcatProperties
  <2>2. SUFFICES ASSUME NEW i \in 1 .. Len(f)
                 PROVE  str2[cut[N] + i] = f[i]
    OBVIOUS
  <2> HIDE DEF str2
  <2>3. /\ cut[N] + i \in 1 .. cut[N] + Len(f) /\ ~(cut[N] + i <= cut[N])
        /\ (cut[N] + i) - cut[N] = i
    BY SMTT(30), <1>1, <1>8
  <2> QED
    BY <2>1, <2>3, <1>8
<1> HIDE DEF T, x, ext, str2
<1>12. Bytes(c, h, p, b, str2)
  <2> HIDE DEF c
  <2>1. ASSUME NEW i \in 1 .. Len(h)
        PROVE  h[i] = str2[c + i]
    <3>1. c + i \in 1 .. put
      BY <1>1, <1>8
    <3> QED
      BY <3>1, <1>4, <1>6, <1>10 DEF Bytes
  <2>2. ASSUME NEW i \in 1 .. Len(p)
        PROVE  p[i] = str2[c + Len(h) + i]
    <3>1. c + Len(h) + i \in 1 .. put
      BY <1>1, <1>8
    <3> QED
      BY <3>1, <1>4, <1>6, <1>10 DEF Bytes
  <2>3. ASSUME NEW i \in 1 .. Len(b)
        PROVE  b[i] = str2[c + Len(h) + Len(p) + i]
    <3>1. c + Len(h) + Len(p) + i \in 1 .. put
      BY <1>1, <1>8
    <3> QED
      BY <3>1, <1>4, <1>6, <1>10 DEF Bytes
  <2> QED
    BY <2>1, <2>2, <2>3 DEF Bytes
<1>13. Bytes(c, h, p, b \o x, str2)
  <2>1. \A i \in 1 .. Len(x) : x[i] = str2[put + i]
    <3>1. SUFFICES ASSUME NEW i \in 1 .. Len(x)
                   PROVE  x[i] = str2[put + i]
      OBVIOUS
    <3>2. i \in 1 .. n /\ i \in 1 .. Len(f)
      BY <1>1, <1>2
    <3> QED
      BY <3>2, <1>2, <1>6, <1>11
  <2>2. x \in Seq(Byte) /\ c \in Nat
    BY <1>2, <1>8
  <2> HIDE DEF c
  <2> QED
    BY <2>1, <2>2, <1>12, BytesPut
<1>14. Reader(T, G, h, p)
  <2>1. Len(G) <= Len(T) /\ (Len(G) < N => Len(G) < Len(T))
    <3>1. Len(T) = N + 1
      BY <1>3
    <3> QED
      BY <3>1, <1>1, <1>7
  <2>3. Len(G) < N => T[Len(G) + 1] = S[Len(G) + 1]
    <3>1. Len(G) < N => Len(G) + 1 \in 1 .. N
      BY <1>1
    <3> QED
      BY <3>1, <1>3
  <2>2. \A i \in 1 .. Len(G) : T[i] = S[i]
    BY <1>1, <1>3, <1>7
  <2> QED
    BY <2>1, <2>2, <2>3, <1>4 DEF Reader
<1> DEFINE put2 == c + Len(h) + Len(p) + Len(b \o x)
<1>15. put2 = cut[N] + n
  <2> HIDE DEF c
  <2>1. x \in Seq(Byte)
    BY <1>2
  <2>2. Len(b \o x) = Len(b) + Len(x)
    BY <2>1, ConcatProperties
  <2>3. Len(b \o x) = Len(b) + n
    BY <1>2, <2>2, Zenon
  <2> DEFINE y == c + Len(h) + Len(p)
  <2>4. y \in Nat /\ put = y + Len(b) /\ put2 = y + Len(b \o x)
    BY <1>1, <1>8
  <2>5. put2 = y + (Len(b) + n)
    BY <2>3, <2>4, Zenon
  <2> HIDE DEF y
  <2>6. y + (Len(b) + n) = (y + Len(b)) + n
    BY <2>4, <1>1
  <2> QED
    BY <2>4, <2>5, <2>6, <1>6, Zenon
<1>16. Writer(T, put2, v, ext)
  <2> DEFINE base == cut[N]
  <2>1. base \in Nat /\ put2 = base + n /\ ext[N] = base /\ ext[N + 1] = base + Len(f)
    BY <1>8, <1>9, <1>15
  <2> HIDE DEF put2, base
  <2>2. put2 <= base + Len(f) /\ base < put2
    BY <2>1, <1>1
  <2>3. v.off > 0 => v.frame = f /\ put2 = base + v.off
    BY <2>1
  <2>4. v.off = 0 => put2 = base + Len(f)
    <3>1. v.off = 0 => n = Len(f)
      OBVIOUS
    <3> QED
      BY <3>1, <2>1, Zenon
  <2>5. Len(T) = N + 1 /\ Len(T) - 1 = N /\ Len(T) > 0 /\ T[Len(T)] = f
    BY <1>1, <1>3
  <2> QED
    BY <2>1, <2>2, <2>3, <2>4, <2>5 DEF Writer
<1>17. Stream(T, G, h, p, b \o x, v, ext, str2)
  BY <1>5, <1>9, <1>13, <1>14, <1>16 DEF Stream
<1> QED
  BY <1>17 DEF T, x

\* With nothing left to read and nothing half read, every frame was given.
LEMMA StreamEnds ==
    ASSUME NEW S \in Seq(Seq(Byte)), NEW G \in Seq(Seq(Byte)), NEW e \in Seq(Byte),
           NEW w, NEW cut, NEW str,
           Stream(S, G, e, e, e, w, cut, str), Len(e) = 0
    PROVE  G = S
<1>1. Len(G) \in Nat /\ Len(S) \in Nat
  BY LenProperties
<1>2. /\ Len(G) <= Len(S) /\ \A i \in 1 .. Len(G) : G[i] = S[i]
      /\ cut \in [0 .. Len(S) -> Nat]
      /\ \A i, j \in 0 .. Len(S) : i <= j => cut[i] <= cut[j]
  BY DEF Stream, Reader, Layout
<1>3. cut[Len(G)] \in Nat
  BY <1>1, <1>2
<1>4. cut[Len(G)] + Len(e) + Len(e) + Len(e) = cut[Len(G)]
  BY <1>3
<1>5. Len(S) > 0 => cut[Len(S) - 1] < cut[Len(G)]
  BY <1>4 DEF Stream, Writer
<1>6. ASSUME Len(G) < Len(S)
      PROVE  FALSE
  <2>1. Len(S) - 1 \in 0 .. Len(S) /\ Len(G) \in 0 .. Len(S) /\ Len(G) <= Len(S) - 1
    BY <1>1, <1>6
  <2>2. cut[Len(G)] <= cut[Len(S) - 1] /\ cut[Len(S) - 1] \in Nat
    BY <2>1, <1>2
  <2> QED
    BY <2>2, <1>1, <1>3, <1>5, <1>6
<1>7. Len(G) = Len(S)
  BY <1>1, <1>2, <1>6
<1> QED
  BY <1>2, <1>7, SeqEqual

-----------------------------------------------------------------------------
(***************************************************************************)
(* Steps of a thread that move no byte.                                    *)
(***************************************************************************)

\* u comes after t, and has the same bytes unless the call has failed.
Quiet(t, u) ==
    /\ u \in Thread /\ Carries(u)
    /\ t.at \in Dead => u.at \in Dead
    /\ u.at \notin Dead => /\ u.header = t.header /\ u.part = t.part /\ u.off = t.off
                           /\ t.off > 0 => u.frame = t.frame

LEMMA QuietSame ==
    ASSUME NEW t \in Thread, Carries(t)
    PROVE  Quiet(t, t)
BY DEF Quiet

\* A thread that is woken goes on with the call it is in.
LEMMA QuietWake ==
    ASSUME NEW t \in Thread, Carries(t)
    PROVE  Quiet(t, WakeReader(t)) /\ Quiet(t, WakeWriter(t))
BY DEF Quiet, Thread, Carries, WakeReader, WakeWriter, Wake, Dead, InRead, InWrite

\* A call that fails drops what it has.
LEMMA QuietFail ==
    ASSUME NEW t \in Thread
    PROVE  Quiet(t, [Idle(t) EXCEPT !.at = "failed"])
<1>1. <<>> \in Seq(Byte)
  OBVIOUS
<1> QED
  BY <1>1 DEF Quiet, Thread, Carries, Idle, Dead, InRead, InWrite

\* A thread that changes its place only.
LEMMA QuietMove ==
    ASSUME NEW t \in Thread, Carries(t), NEW a, NEW l \in BOOLEAN,
           \/ t.at \in InRead /\ a \in InRead
           \/ t.at \in InWrite /\ a \in InWrite
           \/ t.at \in {"idle", "notify"} /\ a \in {"idle", "notify", "read", "notify_close"}
           \/ t.at \in Dead /\ a \in Dead
    PROVE  Quiet(t, [t EXCEPT !.at = a]) /\ Quiet(t, [t EXCEPT !.at = a, !.late = l])
BY DEF Quiet, Thread, Carries, Dead, InRead, InWrite

\* A thread that begins to send a frame.
LEMMA QuietSend ==
    ASSUME NEW t \in Thread, Carries(t), t.at = "idle",
           NEW f \in Seq(Byte), f \in Sendable, WellFramed(f), 0 < Len(f)
    PROVE  Quiet(t, [t EXCEPT !.at = "write", !.frame = f])
<1> DEFINE u == [t EXCEPT !.at = "write", !.frame = f]
<1>1. /\ u \in Thread /\ u.at = "write" /\ u.frame = f /\ u.off = t.off
      /\ u.header = t.header /\ u.part = t.part
  BY DEF Thread, InWrite
<1>2. t.off = 0 /\ t.header = <<>> /\ t.part = <<>>
  BY DEF Carries, InRead, InWrite
<1> HIDE DEF u
<1>3. Carries(u)
  BY <1>1, <1>2 DEF Carries, InRead, InWrite
<1>4. Quiet(t, u)
  BY <1>1, <1>2, <1>3 DEF Quiet, Dead
<1> QED
  BY <1>4 DEF u

-----------------------------------------------------------------------------
LEMMA Sides ==
    /\ \A s \in Side : Other(s) \in Side /\ Other(s) # s /\ Other(Other(s)) = s
    /\ \A s, d \in Side : d = s \/ d = Other(s)
BY DEF Side, Other

\* Frames are sequences of bytes.
LEMMA SendableFrames == Sendable \subseteq Seq(Byte)
<1>1. SUFFICES ASSUME NEW o \in Outboxes, NEW s \in {"A", "B"}
               PROVE  ToSet(o[s]) \subseteq Seq(Byte)
  BY DEF Sendable
<1>2. o[s] \in Seq(Seq(Byte))
  BY OutboxAssumption DEF Side
<1> QED
  BY <1>2, ElementOfSeq, LenProperties DEF ToSet

LEMMA FramesOfSendable ==
    ASSUME NEW q \in Seq(Sendable)
    PROVE  q \in Seq(Seq(Byte))
BY SendableFrames, SeqMonotonic

\* The streams are kept by steps that move no byte.
LEMMA QuietStreams ==
    ASSUME NEW d \in Side, StreamInv(d),
           sent'[d] = sent[d], got'[Other(d)] = got[Other(d)],
           pipe'[d].buf = pipe[d].buf, reset[Other(d)] => reset'[Other(d)],
           Quiet(th[d], th'[d]), Quiet(th[Other(d)], th'[Other(d)])
    PROVE  StreamInv(d)'
<1> DEFINE r == Other(d)
<1>1. SUFFICES ASSUME Live(r)'
               PROVE  \E cut, str :
                        Stream(sent'[d], got'[r], th'[r].header, th'[r].part,
                               pipe'[d].buf, th'[d], cut, str)
  BY DEF StreamInv
<1>2. Live(r) /\ th'[r].header = th[r].header /\ th'[r].part = th[r].part
  BY <1>1 DEF Live, Quiet
<1>3. PICK cut, str : Stream(sent[d], got[r], th[r].header, th[r].part,
                             pipe[d].buf, th[d], cut, str)
  BY <1>2 DEF StreamInv
<1>4. /\ th'[d].off > 0 => th'[d].off = th[d].off /\ th'[d].frame = th[d].frame
      /\ th'[d].off = 0 /\ th'[d].at \notin Dead => th[d].off = 0 /\ th[d].at \notin Dead
  <2>1. th'[d].at \in Dead => th'[d].off = 0
    BY DEF Quiet, Carries, Dead, InWrite
  <2> QED
    BY <2>1 DEF Quiet, Thread
<1>5. Stream(sent[d], got[r], th[r].header, th[r].part, pipe[d].buf, th'[d], cut, str)
  BY <1>3, <1>4, StreamKept
<1> QED
  BY <1>2, <1>5

\* A step that moves no byte keeps the invariant.
LEMMA QuietStep ==
    ASSUME IInv,
           th' \in [Side -> Thread], \A d \in Side : Quiet(th[d], th'[d]),
           outbox' \in [Side -> Seq(Sendable)],
           pipe' \in [Side -> [buf : Seq(Byte), write_closed : BOOLEAN, reader_gone : BOOLEAN]],
           \A d \in Side : pipe'[d].buf = pipe[d].buf,
           \A d \in Side : pipe'[Other(d)].reader_gone =>
                             pipe[Other(d)].reader_gone \/ th'[d].at \in Dead,
           reset' = reset, sent' = sent, got' = got,
           heard' \in [Side -> {"open", "eof", "broken"}],
           \A d \in Side : heard'[d] # "open" => heard[d] # "open" \/ th'[d].at \in Dead
    PROVE  IInv'
<1>1. TypeOK'
  BY DEF IInv, TypeOK
<1>2. ASSUME NEW d \in Side
      PROVE  ThreadInv(d)' /\ StreamInv(d)'
  <2>1. ThreadInv(d) /\ StreamInv(d) /\ Quiet(th[d], th'[d])
    BY DEF IInv
  <2>2. ThreadInv(d)'
    BY <2>1 DEF ThreadInv, Quiet
  <2>3. Other(d) \in Side
    BY Sides
  <2>4. StreamInv(d)'
    BY <2>1, <2>3, QuietStreams
  <2> QED
    BY <2>2, <2>4
<1> QED
  BY <1>1, <1>2 DEF IInv

\* One thread moves, or both.
LEMMA QuietOne ==
    ASSUME IInv, NEW s \in Side, NEW u, Quiet(th[s], u), th' = [th EXCEPT ![s] = u]
    PROVE  /\ th' \in [Side -> Thread] /\ \A d \in Side : Quiet(th[d], th'[d])
           /\ th'[s] = u
<1>1. th \in [Side -> Thread] /\ u \in Thread
  BY DEF IInv, TypeOK, Quiet
<1>2. \A d \in Side : Quiet(th[d], th[d])
  BY <1>1, QuietSame DEF IInv, ThreadInv
<1> QED
  BY <1>1, <1>2

LEMMA QuietTwo ==
    ASSUME IInv, NEW s \in Side, NEW u, Quiet(th[s], u),
           NEW v, Quiet(th[Other(s)], v),
           th' = [th EXCEPT ![s] = u, ![Other(s)] = v]
    PROVE  /\ th' \in [Side -> Thread] /\ \A d \in Side : Quiet(th[d], th'[d])
           /\ th'[s] = u
<1>1. th \in [Side -> Thread] /\ u \in Thread /\ v \in Thread
  BY DEF IInv, TypeOK, Quiet
<1>2. Other(s) \in Side /\ Other(s) # s /\ \A d \in Side : d = s \/ d = Other(s)
  BY Sides
<1>3. th'[s] = u /\ th'[Other(s)] = v /\ th' \in [Side -> Thread]
  BY <1>1, <1>2
<1> QED
  BY <1>2, <1>3

\* A call of s fails, and recv_frame may have reported how.
LEMMA FailedKeeps ==
    ASSUME IInv, NEW s \in Side, Failed(s),
           outbox' \in [Side -> Seq(Sendable)],
           UNCHANGED <<pipe, reset, sent, got>>,
           UNCHANGED heard \/ \E how \in {"eof", "broken"} : heard' = [heard EXCEPT ![s] = how]
    PROVE  IInv'
<1> DEFINE u == [Idle(th[s]) EXCEPT !.at = "failed"]
<1>1. th[s] \in Thread
  BY DEF IInv, TypeOK
<1>2. Quiet(th[s], u)
  BY <1>1, QuietFail
<1>3. th' = [th EXCEPT ![s] = u]
  BY DEF Failed
<1>4. u.at \in Dead
  BY <1>1 DEF Idle, Dead, Thread
<1> HIDE DEF u
<1>5. /\ th' \in [Side -> Thread] /\ \A d \in Side : Quiet(th[d], th'[d])
      /\ th'[s].at \in Dead
  BY <1>2, <1>3, <1>4, QuietOne
<1>6. /\ heard' \in [Side -> {"open", "eof", "broken"}]
      /\ \A d \in Side : heard'[d] # "open" => heard[d] # "open" \/ th'[d].at \in Dead
  BY <1>5 DEF IInv, TypeOK
<1>7. pipe' \in [Side -> [buf : Seq(Byte), write_closed : BOOLEAN, reader_gone : BOOLEAN]]
  BY DEF IInv, TypeOK
<1> QED
  BY <1>5, <1>6, <1>7, QuietStep

\* A step that changes the place of threads, and nothing a caller can see.
LEMMA MoveKeeps ==
    ASSUME IInv, th' \in [Side -> Thread], \A d \in Side : Quiet(th[d], th'[d]),
           UNCHANGED <<outbox, pipe, reset, sent, got, heard>>
    PROVE  IInv'
<1>1. /\ outbox' \in [Side -> Seq(Sendable)]
      /\ pipe' \in [Side -> [buf : Seq(Byte), write_closed : BOOLEAN, reader_gone : BOOLEAN]]
      /\ heard' \in [Side -> {"open", "eof", "broken"}]
  BY DEF IInv, TypeOK
<1> QED
  BY <1>1, QuietStep

LEMMA Typed ==
    ASSUME IInv, NEW s \in Side
    PROVE  th[s] \in Thread /\ Carries(th[s])
BY DEF IInv, TypeOK, ThreadInv

LEMMA SendFrameKeeps ==
    ASSUME IInv, NEW s \in Side, SendFrame(s)
    PROVE  IInv'
<1>1. outbox[s] \in Seq(Sendable) /\ outbox[s] # <<>>
  BY DEF IInv, TypeOK, SendFrame
<1>2. Head(outbox[s]) \in Sendable /\ Tail(outbox[s]) \in Seq(Sendable)
  BY <1>1, HeadTailProperties
<1>3. outbox' \in [Side -> Seq(Sendable)]
  BY <1>2 DEF IInv, TypeOK, SendFrame
<1>4. CASE ~WellFramed(Head(outbox[s]))
  BY <1>3, <1>4, FailedKeeps DEF SendFrame
<1>5. CASE WellFramed(Head(outbox[s]))
  <2> DEFINE f == Head(outbox[s])
             u == [th[s] EXCEPT !.at = "write", !.frame = f]
  <2>1. f \in Seq(Byte) /\ Len(f) > 0
    <3>1. f \in Seq(Byte) /\ Len(f) >= FRAME_HEADER_LEN
      BY <1>2, <1>5, SendableFrames DEF WellFramed
    <3> QED
      BY <3>1, HeaderLength, LenProperties
  <2>2. th[s] \in Thread /\ Carries(th[s]) /\ th[s].at = "idle"
    BY Typed DEF SendFrame
  <2>3. Quiet(th[s], u)
    BY <1>2, <1>5, <2>1, <2>2, QuietSend
  <2>4. th' = [th EXCEPT ![s] = u]
    BY <1>5 DEF SendFrame, IInv, TypeOK
  <2> HIDE DEF u
  <2>5. th' \in [Side -> Thread] /\ \A d \in Side : Quiet(th[d], th'[d])
    BY <2>3, <2>4, QuietOne
  <2>6. /\ pipe' \in [Side -> [buf : Seq(Byte), write_closed : BOOLEAN, reader_gone : BOOLEAN]]
        /\ heard' \in [Side -> {"open", "eof", "broken"}]
    BY DEF IInv, TypeOK, SendFrame
  <2> QED
    BY <1>3, <2>5, <2>6, QuietStep DEF SendFrame
<1> QED
  BY <1>4, <1>5

LEMMA WriteBlocksKeeps ==
    ASSUME IInv, NEW s \in Side, WriteBlocks(s)
    PROVE  IInv'
<1>1. CASE th[s].late
  <2>1. outbox' \in [Side -> Seq(Sendable)]
    BY DEF IInv, TypeOK, WriteBlocks
  <2> QED
    BY <1>1, <2>1, FailedKeeps DEF WriteBlocks
<1>2. CASE ~th[s].late
  <2> DEFINE u == [th[s] EXCEPT !.at = "wait_writable"]
  <2>1. th[s].at \in InWrite /\ "wait_writable" \in InWrite
    BY DEF WriteBlocks, InWrite
  <2>2. Quiet(th[s], u)
    BY <2>1, Typed, QuietMove
  <2>3. th' = [th EXCEPT ![s] = u]
    BY <1>2 DEF WriteBlocks, IInv, TypeOK
  <2> HIDE DEF u
  <2>4. th' \in [Side -> Thread] /\ \A d \in Side : Quiet(th[d], th'[d])
    BY <2>2, <2>3, QuietOne
  <2> QED
    BY <2>4, MoveKeeps DEF WriteBlocks
<1> QED
  BY <1>1, <1>2

LEMMA WriteRefusedKeeps ==
    ASSUME IInv, NEW s \in Side, WriteRefused(s)
    PROVE  IInv'
<1>1. outbox' \in [Side -> Seq(Sendable)]
  BY DEF IInv, TypeOK, WriteRefused
<1> QED
  BY <1>1, FailedKeeps DEF WriteRefused

LEMMA RecvFrameKeeps ==
    ASSUME IInv, NEW s \in Side, RecvFrame(s)
    PROVE  IInv'
<1> DEFINE u == [th[s] EXCEPT !.at = "read"]
<1>1. Quiet(th[s], u)
  BY Typed, QuietMove DEF RecvFrame
<1>2. th' = [th EXCEPT ![s] = u]
  BY DEF RecvFrame, IInv, TypeOK
<1> HIDE DEF u
<1>3. th' \in [Side -> Thread] /\ \A d \in Side : Quiet(th[d], th'[d])
  BY <1>1, <1>2, QuietOne
<1> QED
  BY <1>3, MoveKeeps DEF RecvFrame

LEMMA SetDeadlineKeeps ==
    ASSUME IInv, NEW s \in Side, SetDeadline(s)
    PROVE  IInv'
<1> DEFINE u == [th[s] EXCEPT !.deadline = TRUE]
<1>1. Quiet(th[s], u)
  BY Typed DEF Quiet, Carries, Thread
<1>2. th' = [th EXCEPT ![s] = u]
  BY DEF SetDeadline, IInv, TypeOK
<1> HIDE DEF u
<1>3. th' \in [Side -> Thread] /\ \A d \in Side : Quiet(th[d], th'[d])
  BY <1>1, <1>2, QuietOne
<1> QED
  BY <1>3, MoveKeeps DEF SetDeadline

LEMMA DeadlinePassesKeeps ==
    ASSUME IInv, NEW s \in Side, DeadlinePasses(s)
    PROVE  IInv'
<1> DEFINE a == IF th[s].at = "wait_readable" THEN "read" ELSE "write"
           u == [th[s] EXCEPT !.at = a, !.late = TRUE]
<1>1. \/ th[s].at \in InRead /\ a \in InRead
      \/ th[s].at \in InWrite /\ a \in InWrite
  BY DEF DeadlinePasses, Waiting, InRead, InWrite
<1>2. th' = [th EXCEPT ![s] = u]
  BY DEF DeadlinePasses, IInv, TypeOK
<1> HIDE DEF a
<1>3. Quiet(th[s], u)
  BY <1>1, Typed, QuietMove
<1> HIDE DEF u
<1>4. th' \in [Side -> Thread] /\ \A d \in Side : Quiet(th[d], th'[d])
  BY <1>2, <1>3, QuietOne
<1> QED
  BY <1>4, MoveKeeps DEF DeadlinePasses

\* A step of shutdown_write or close: the flags of the pipes.
LEMMA ClosingKeeps ==
    ASSUME IInv, th' \in [Side -> Thread], \A d \in Side : Quiet(th[d], th'[d]),
           NEW d \in Side,
           \/ pipe' = [pipe EXCEPT ![d].write_closed = TRUE]
           \/ /\ pipe' = [pipe EXCEPT ![d].reader_gone = TRUE]
              /\ th'[Other(d)].at \in Dead,
           UNCHANGED <<outbox, reset, sent, got, heard>>
    PROVE  IInv'
<1>1. /\ outbox' \in [Side -> Seq(Sendable)]
      /\ heard' \in [Side -> {"open", "eof", "broken"}]
  BY DEF IInv, TypeOK
<1>2. pipe \in [Side -> [buf : Seq(Byte), write_closed : BOOLEAN, reader_gone : BOOLEAN]]
  BY DEF IInv, TypeOK
<1>3. /\ pipe' \in [Side -> [buf : Seq(Byte), write_closed : BOOLEAN, reader_gone : BOOLEAN]]
      /\ \A e \in Side : pipe'[e].buf = pipe[e].buf
      /\ \A e \in Side : pipe'[e].reader_gone =>
                           pipe[e].reader_gone \/ (e = d /\ th'[Other(d)].at \in Dead)
  <2>1. CASE pipe' = [pipe EXCEPT ![d].write_closed = TRUE]
    <3>1. /\ pipe' \in [Side -> [buf : Seq(Byte), write_closed : BOOLEAN,
                                reader_gone : BOOLEAN]]
          /\ \A e \in Side : pipe'[e].buf = pipe[e].buf
                           /\ pipe'[e].reader_gone = pipe[e].reader_gone
      BY <1>2, <2>1
    <3> QED
      BY <3>1
  <2>2. CASE /\ pipe' = [pipe EXCEPT ![d].reader_gone = TRUE]
             /\ th'[Other(d)].at \in Dead
    <3>1. /\ pipe' \in [Side -> [buf : Seq(Byte), write_closed : BOOLEAN,
                                reader_gone : BOOLEAN]]
          /\ \A e \in Side : pipe'[e].buf = pipe[e].buf
                           /\ (e # d => pipe'[e].reader_gone = pipe[e].reader_gone)
      BY <1>2, <2>2
    <3> QED
      BY <3>1, <2>2
  <2> QED
    BY <2>1, <2>2
<1>4. \A e \in Side : pipe'[Other(e)].reader_gone =>
                        pipe[Other(e)].reader_gone \/ th'[e].at \in Dead
  BY <1>3, Sides
<1> QED
  BY <1>1, <1>3, <1>4, QuietStep

LEMMA ShutdownWriteKeeps ==
    ASSUME IInv, NEW s \in Side, ShutdownWrite(s)
    PROVE  IInv'
<1> DEFINE u == [th[s] EXCEPT !.at = "notify"]
<1>1. Quiet(th[s], u)
  BY Typed, QuietMove DEF ShutdownWrite
<1>2. th' = [th EXCEPT ![s] = u]
  BY DEF ShutdownWrite, IInv, TypeOK
<1> HIDE DEF u
<1>3. th' \in [Side -> Thread] /\ \A d \in Side : Quiet(th[d], th'[d])
  BY <1>1, <1>2, QuietOne
<1> QED
  BY <1>3, ClosingKeeps DEF ShutdownWrite

LEMMA CloseKeeps ==
    ASSUME IInv, NEW s \in Side, Close(s)
    PROVE  IInv'
<1> DEFINE u == [th[s] EXCEPT !.at = "notify_close"]
<1>1. \/ th[s].at \in {"idle", "notify"}
      \/ th[s].at \in Dead /\ "notify_close" \in Dead
  BY DEF Close, Dead
<1>2. Quiet(th[s], u)
  BY <1>1, Typed, QuietMove
<1>3. th' = [th EXCEPT ![s] = u]
  BY DEF Close, IInv, TypeOK
<1> HIDE DEF u
<1>4. th' \in [Side -> Thread] /\ \A d \in Side : Quiet(th[d], th'[d])
  BY <1>2, <1>3, QuietOne
<1> QED
  BY <1>4, ClosingKeeps DEF Close

LEMMA NotifyReaderKeeps ==
    ASSUME IInv, NEW s \in Side, NotifyReader(s)
    PROVE  IInv'
<1> DEFINE a == IF th[s].at = "notify" THEN "idle" ELSE "stop_recv"
           u == [th[s] EXCEPT !.at = a]
           v == WakeReader(th[Other(s)])
<1>1. \/ th[s].at \in {"idle", "notify"} /\ a \in {"idle", "notify", "read", "notify_close"}
      \/ th[s].at \in Dead /\ a \in Dead
  BY DEF NotifyReader, Dead
<1>2. th' = [th EXCEPT ![s] = u, ![Other(s)] = v]
  BY Sides DEF NotifyReader, IInv, TypeOK
<1> HIDE DEF a
<1>3. Quiet(th[s], u)
  BY <1>1, Typed, QuietMove
<1>4. Quiet(th[Other(s)], v)
  BY Sides, Typed, QuietWake
<1> HIDE DEF u, v
<1>5. th' \in [Side -> Thread] /\ \A d \in Side : Quiet(th[d], th'[d])
  BY <1>2, <1>3, <1>4, QuietTwo
<1> QED
  BY <1>5, MoveKeeps DEF NotifyReader

LEMMA StopReceivingKeeps ==
    ASSUME IInv, NEW s \in Side, StopReceiving(s)
    PROVE  IInv'
<1> DEFINE u == [th[s] EXCEPT !.at = "notify_gone"]
<1>1. th[s] \in Thread /\ Carries(th[s]) /\ th[s].at \in Dead /\ "notify_gone" \in Dead
  BY Typed DEF StopReceiving, Dead
<1>2. Quiet(th[s], u) /\ u.at \in Dead
  BY <1>1, QuietMove DEF Thread
<1>3. th' = [th EXCEPT ![s] = u]
  BY DEF StopReceiving, IInv, TypeOK
<1> HIDE DEF u
<1>4. th' \in [Side -> Thread] /\ (\A d \in Side : Quiet(th[d], th'[d])) /\ th'[s] = u
  BY <1>2, <1>3, QuietOne
<1>5. Other(s) \in Side /\ Other(Other(s)) = s
  BY Sides
<1>6. pipe' = [pipe EXCEPT ![Other(s)].reader_gone = TRUE]
  BY DEF StopReceiving
<1> QED
  BY <1>2, <1>4, <1>5, <1>6, ClosingKeeps DEF StopReceiving

LEMMA NotifyWriterKeeps ==
    ASSUME IInv, NEW s \in Side, NotifyWriter(s)
    PROVE  IInv'
<1> DEFINE u == [th[s] EXCEPT !.at = "gone"]
           v == WakeWriter(th[Other(s)])
<1>1. th[s].at \in Dead /\ "gone" \in Dead
  BY DEF NotifyWriter, Dead
<1>2. th' = [th EXCEPT ![s] = u, ![Other(s)] = v]
  BY Sides DEF NotifyWriter, IInv, TypeOK
<1>3. Quiet(th[s], u)
  BY <1>1, Typed, QuietMove
<1>4. Quiet(th[Other(s)], v)
  BY Sides, Typed, QuietWake
<1> HIDE DEF u, v
<1>5. th' \in [Side -> Thread] /\ \A d \in Side : Quiet(th[d], th'[d])
  BY <1>2, <1>3, <1>4, QuietTwo
<1> QED
  BY <1>5, MoveKeeps DEF NotifyWriter

LEMMA ReadEofKeeps ==
    ASSUME IInv, NEW s \in Side, ReadEof(s)
    PROVE  IInv'
<1>1. outbox' \in [Side -> Seq(Sendable)]
  BY DEF IInv, TypeOK, ReadEof
<1>2. \E how \in {"eof", "broken"} : Failed(s) /\ heard' = [heard EXCEPT ![s] = how]
  BY DEF ReadEof, Refused
<1> QED
  BY <1>1, <1>2, FailedKeeps DEF ReadEof

LEMMA ReadBlocksKeeps ==
    ASSUME RetryTimeouts = FALSE, IInv, NEW s \in Side, ReadBlocks(s)
    PROVE  IInv'
<1>1. CASE th[s].late
  <2>1. outbox' \in [Side -> Seq(Sendable)]
    BY DEF IInv, TypeOK, ReadBlocks
  <2>2. \E how \in {"eof", "broken"} : Failed(s) /\ heard' = [heard EXCEPT ![s] = how]
    BY <1>1 DEF ReadBlocks, Refused
  <2> QED
    BY <2>1, <2>2, FailedKeeps DEF ReadBlocks
<1>2. CASE ~th[s].late
  <2> DEFINE u == [th[s] EXCEPT !.at = "wait_readable"]
  <2>1. th[s].at \in InRead /\ "wait_readable" \in InRead
    BY DEF ReadBlocks, NothingToRead, InRead
  <2>2. Quiet(th[s], u)
    BY <2>1, Typed, QuietMove
  <2>3. th' = [th EXCEPT ![s] = u]
    BY <1>2 DEF ReadBlocks, IInv, TypeOK
  <2> HIDE DEF u
  <2>4. th' \in [Side -> Thread] /\ \A d \in Side : Quiet(th[d], th'[d])
    BY <2>2, <2>3, QuietOne
  <2> QED
    BY <1>2, <2>4, MoveKeeps DEF ReadBlocks
<1> QED
  BY <1>1, <1>2

LEMMA ReadResetKeeps ==
    ASSUME IInv, NEW s \in Side, ReadReset(s)
    PROVE  IInv'
<1>1. outbox' \in [Side -> Seq(Sendable)]
  BY DEF IInv, TypeOK, ReadReset
<1>2. \E how \in {"eof", "broken"} : Failed(s) /\ heard' = [heard EXCEPT ![s] = how]
  BY DEF ReadReset, Refused
<1> QED
  BY <1>1, <1>2, FailedKeeps DEF ReadReset

-----------------------------------------------------------------------------
(***************************************************************************)
(* Steps that move bytes.                                                  *)
(***************************************************************************)
LEMMA Empty ==
    ASSUME NEW q \in Seq(Byte)
    PROVE  q = <<>> <=> Len(q) = 0
BY EmptySeq

\* The types of what direction s is made of.
LEMMA DirectionTyped ==
    ASSUME IInv, NEW s \in Side
    PROVE  /\ sent[s] \in Seq(Seq(Byte)) /\ got[s] \in Seq(Seq(Byte))
           /\ pipe[s].buf \in Seq(Byte) /\ th[s] \in Thread
           /\ th[s].header \in Seq(Byte) /\ th[s].part \in Seq(Byte)
           /\ th[s].frame \in Seq(Byte) /\ th[s].off \in Nat
<1>1. sent[s] \in Seq(Seq(Byte))
  BY FramesOfSendable DEF IInv, TypeOK
<1> QED
  BY <1>1 DEF IInv, TypeOK, Thread

\* How much read_full takes: at most what there is and what is missing.
Goal(t) == IF Len(t.header) = 0 THEN FRAME_HEADER_LEN ELSE Declared(t.header)

LEMMA Reading ==
    ASSUME IInv, NEW s \in Side, th[s].at = "read", ~reset[s]
    PROVE  /\ \E cut, str :
                Stream(sent[Other(s)], got[s], th[s].header, th[s].part,
                       pipe[Other(s)].buf, th[Other(s)], cut, str)
           /\ Available(s) \in 0 .. Len(pipe[Other(s)].buf)
           /\ Len(th[s].part) + Available(s) <= Goal(th[s])
           /\ Available(s) = Wanted(th[s]) => Len(th[s].part) + Available(s) = Goal(th[s])
<1> DEFINE r == Other(s)
           h == th[s].header
           p == th[s].part
           b == pipe[r].buf
<1>1. r \in Side /\ Other(r) = s
  BY Sides
<1>2. Live(s)
  BY DEF Live, Dead
<1>3. PICK cut, str : Stream(sent[r], got[s], h, p, b, th[r], cut, str)
  BY <1>1, <1>2 DEF IInv, StreamInv
<1>4. h \in Seq(Byte) /\ p \in Seq(Byte) /\ b \in Seq(Byte)
  BY <1>1, DirectionTyped
<1>5. Len(p) \in Nat /\ Len(b) \in Nat
  BY <1>4, LenProperties
<1>6. Goal(th[s]) \in Nat /\ Len(p) <= Goal(th[s])
  BY <1>3, HeaderLength DEF Goal, Stream, Reader
<1>7. Wanted(th[s]) = Goal(th[s]) - Len(p)
  BY <1>4, Empty DEF Wanted, Goal
<1> HIDE DEF h, p, b
<1>8. Available(s) = IF Len(b) < Wanted(th[s]) THEN Len(b) ELSE Wanted(th[s])
  BY DEF Available, b
<1>9. /\ Available(s) \in 0 .. Len(b) /\ Len(p) + Available(s) <= Goal(th[s])
      /\ Available(s) = Wanted(th[s]) => Len(p) + Available(s) = Goal(th[s])
  <2> DEFINE g == Goal(th[s])
             a == Available(s)
             m == Wanted(th[s])
  <2> HIDE DEF g, a, m
  <2>1. g \in Nat /\ Len(p) <= g /\ m = g - Len(p)
    BY <1>6, <1>7 DEF g, m
  <2>2. m \in Nat
    BY <2>1, <1>5
  <2>3. a \in 0 .. Len(b) /\ a <= m
    BY <2>2, <1>5, <1>8 DEF a, m
  <2>4. Len(p) + a <= g /\ (a = m => Len(p) + a = g)
    BY <2>1, <2>2, <2>3, <1>5
  <2> QED
    BY <2>3, <2>4 DEF g, a, m
<1> QED
  BY <1>3, <1>9 DEF h, p, b

LEMMA DrainedTyped ==
    ASSUME IInv, NEW s \in Side, th[s].at = "read", ~reset[s], pipe' = Drained(s)
    PROVE  /\ pipe' \in [Side -> [buf : Seq(Byte), write_closed : BOOLEAN,
                                  reader_gone : BOOLEAN]]
           /\ pipe'[s] = pipe[s]
           /\ pipe'[Other(s)].buf \in Seq(Byte)
           /\ \A d \in Side : pipe'[d].reader_gone = pipe[d].reader_gone
<1> DEFINE r == Other(s)
<1>1. r \in Side /\ r # s /\ Other(r) = s /\ \A d \in Side : d = s \/ d = r
  BY Sides
<1>2. pipe \in [Side -> [buf : Seq(Byte), write_closed : BOOLEAN, reader_gone : BOOLEAN]]
  BY DEF IInv, TypeOK
<1>3. SubSeq(pipe[r].buf, Available(s) + 1, Len(pipe[r].buf)) \in Seq(Byte)
  <2> DEFINE b == pipe[r].buf
             a == Available(s)
  <2>1. b \in Seq(Byte) /\ a \in 0 .. Len(b)
    BY <1>1, DirectionTyped, Reading
  <2> HIDE DEF b, a
  <2>2. \A i \in a + 1 .. Len(b) : b[i] \in Byte
    BY <2>1, ElementOfSeq
  <2>3. a + 1 \in Int /\ Len(b) \in Int
    BY <2>1, LenProperties
  <2>4. SubSeq(b, a + 1, Len(b)) \in Seq(Byte)
    BY <2>2, <2>3, SubSeqProperties
  <2> QED
    BY <2>4 DEF a, b
<1> QED
  BY <1>1, <1>2, <1>3 DEF Drained

\* A pass of read_full: what the reader has then follows from StreamTaken, and
\* the rest of the step from how its thread goes on.
LEMMA ReadKeeps ==
    ASSUME IInv, NEW s \in Side, th[s].at = "read", ~reset[s],
           th' \in [Side -> Thread], Quiet(th[Other(s)], th'[Other(s)]),
           Carries(th'[s]), th'[s].off = 0,
           pipe' = Drained(s), UNCHANGED <<outbox, reset, sent>>,
           got' \in [Side -> Seq(Seq(Byte))], got'[Other(s)] = got[Other(s)],
           heard' \in [Side -> {"open", "eof", "broken"}],
           \A d \in Side : heard'[d] # "open" => heard[d] # "open" \/ th'[d].at \in Dead,
           th'[s].at \notin Dead =>
               \E cut, str :
                   Stream(sent[Other(s)], got'[s], th'[s].header, th'[s].part,
                          pipe'[Other(s)].buf, th[Other(s)], cut, str)
    PROVE  IInv'
<1> DEFINE r == Other(s)
<1>1. r \in Side /\ r # s /\ Other(r) = s /\ \A d \in Side : d = s \/ d = r
  BY Sides
<1>4. /\ pipe' \in [Side -> [buf : Seq(Byte), write_closed : BOOLEAN, reader_gone : BOOLEAN]]
      /\ pipe'[s] = pipe[s]
      /\ \A d \in Side : pipe'[d].reader_gone = pipe[d].reader_gone
  BY DrainedTyped
<1>5. TypeOK'
  BY <1>4 DEF IInv, TypeOK
<1>6. th[s].at \notin Dead /\ th[s].off = 0 /\ Live(s)
  BY DEF IInv, ThreadInv, Carries, Dead, InWrite, Live
<1>7. ASSUME NEW d \in Side
      PROVE  ThreadInv(d)'
  <2>1. ThreadInv(d) /\ Other(d) \in Side
    BY Sides DEF IInv
  <2>2. CASE d = s
    <3>1. ~pipe[Other(s)].reader_gone /\ heard[s] = "open"
      BY <2>1, <2>2, <1>6 DEF ThreadInv
    <3> QED
      BY <2>1, <2>2, <3>1, <1>4 DEF ThreadInv
  <2>3. CASE d = r
    BY <2>1, <2>3, <1>4 DEF ThreadInv, Quiet
  <2> QED
    BY <2>2, <2>3, <1>1
<1>8. StreamInv(s)'
  <2>1. SUFFICES ASSUME Live(r)'
                 PROVE  \E cut, str :
                          Stream(sent'[s], got'[r], th'[r].header, th'[r].part,
                                 pipe'[s].buf, th'[s], cut, str)
    BY DEF StreamInv
  <2>2. Live(r) /\ th'[r].header = th[r].header /\ th'[r].part = th[r].part
    BY <2>1 DEF Live, Quiet
  <2>3. PICK cut, str : Stream(sent[s], got[r], th[r].header, th[r].part,
                               pipe[s].buf, th[s], cut, str)
    BY <2>2 DEF IInv, StreamInv
  <2>4. Stream(sent[s], got[r], th[r].header, th[r].part, pipe[s].buf, th'[s], cut, str)
    BY <2>3, <1>6, StreamKept
  <2> QED
    BY <2>2, <2>4, <1>4
<1>9. StreamInv(r)'
  <2>1. SUFFICES ASSUME Live(s)'
                 PROVE  \E cut, str :
                          Stream(sent'[r], got'[s], th'[s].header, th'[s].part,
                                 pipe'[r].buf, th'[r], cut, str)
    BY <1>1 DEF StreamInv
  <2>2. PICK cut, str : Stream(sent[r], got'[s], th'[s].header, th'[s].part,
                               pipe'[r].buf, th[r], cut, str)
    BY <2>1 DEF Live
  <2>3. /\ th'[r].off > 0 => th'[r].off = th[r].off /\ th'[r].frame = th[r].frame
        /\ th'[r].off = 0 /\ th'[r].at \notin Dead => th[r].off = 0 /\ th[r].at \notin Dead
    <3>1. th'[r].at \in Dead => th'[r].off = 0
      BY DEF Quiet, Carries, Dead, InWrite
    <3> QED
      BY <3>1 DEF Quiet, Thread
  <2>4. Stream(sent[r], got'[s], th'[s].header, th'[s].part, pipe'[r].buf, th'[r], cut, str)
    BY <2>2, <2>3, StreamKept
  <2> QED
    BY <2>4
<1> QED
  BY <1>1, <1>5, <1>7, <1>8, <1>9 DEF IInv

\* The threads and the stream after one pass.
LEMMA AfterPass ==
    ASSUME IInv, NEW s \in Side, th[s].at = "read", ~reset[s]
    PROVE  /\ Woken(s) \in [Side -> Thread] /\ Woken(s)[s] = th[s]
           /\ Quiet(th[Other(s)], Woken(s)[Other(s)])
           /\ Read(s) \in Seq(Byte)
           /\ Available(s) = Wanted(th[s]) => Goal(th[s]) <= Len(Read(s))
           /\ \E cut, str :
                Stream(sent[Other(s)], got[s], th[s].header, Read(s),
                       Drained(s)[Other(s)].buf, th[Other(s)], cut, str)
<1> DEFINE r == Other(s)
           h == th[s].header
           p == th[s].part
           b == pipe[r].buf
           a == Available(s)
<1>1. r \in Side /\ r # s
  BY Sides
<1>2. th \in [Side -> Thread] /\ Carries(th[r])
  BY <1>1 DEF IInv, TypeOK, ThreadInv
<1>3. Quiet(th[r], WakeWriter(th[r])) /\ Quiet(th[r], th[r])
  BY <1>1, <1>2, QuietWake, QuietSame
<1>4. WakeWriter(th[r]) \in Thread
  BY <1>3 DEF Quiet
<1>5. /\ Woken(s) \in [Side -> Thread] /\ Woken(s)[s] = th[s]
      /\ Woken(s)[r] = WakeWriter(th[r]) \/ Woken(s)[r] = th[r]
  BY <1>1, <1>2, <1>4 DEF Woken
<1>6. /\ h \in Seq(Byte) /\ p \in Seq(Byte) /\ b \in Seq(Byte) /\ th[r] \in Thread
      /\ sent[r] \in Seq(Seq(Byte)) /\ got[s] \in Seq(Seq(Byte))
  BY <1>1, DirectionTyped
<1>7. /\ a \in 0 .. Len(b) /\ Len(p) + a <= Goal(th[s])
      /\ a = Wanted(th[s]) => Len(p) + a = Goal(th[s])
  BY Reading
<1>8. PICK cut, str : Stream(sent[r], got[s], h, p, b, th[r], cut, str)
  BY Reading
<1>9. Goal(th[s]) = IF Len(h) = 0 THEN FRAME_HEADER_LEN ELSE Declared(h)
  BY DEF Goal
<1>10. Read(s) = p \o SubSeq(b, 1, a)
  BY DEF Read
<1>11. Drained(s)[r].buf = SubSeq(b, a + 1, Len(b))
  <2>1. pipe \in [Side -> [buf : Seq(Byte), write_closed : BOOLEAN, reader_gone : BOOLEAN]]
    BY DEF IInv, TypeOK
  <2> QED
    BY <2>1, <1>1 DEF Drained
<1> HIDE DEF h, p, b, a
<1>12. Stream(sent[r], got[s], h, p \o SubSeq(b, 1, a), SubSeq(b, a + 1, Len(b)), th[r], cut, str)
  BY <1>6, <1>7, <1>8, <1>9, StreamTaken
<1>13. /\ SubSeq(b, 1, a) \in Seq(Byte) /\ Len(SubSeq(b, 1, a)) = a
  <2>1. \A i \in 1 .. a : b[i] \in Byte
    BY <1>6, <1>7, ElementOfSeq
  <2>2. a \in Nat
    BY <1>7
  <2> QED
    BY <2>1, <2>2, SubSeqProperties
<1>14. Read(s) \in Seq(Byte) /\ Len(Read(s)) = Len(p) + a
  <2> DEFINE x == SubSeq(b, 1, a)
  <2>1. x \in Seq(Byte)
    BY <1>13
  <2> HIDE DEF x
  <2>2. p \o x \in Seq(Byte) /\ Len(p \o x) = Len(p) + Len(x)
    BY <2>1, <1>6, ConcatProperties
  <2> QED
    BY <2>2, <1>10, <1>13, Zenon DEF x
<1>15. a = Wanted(th[s]) => Goal(th[s]) <= Len(Read(s))
  <2>1. Goal(th[s]) \in Int
    <3>1. Len(h) # 0 => Declared(h) \in Nat
      BY <1>8 DEF Stream, Reader
    <3> QED
      BY <3>1, <1>9, HeaderLength
  <2>2. a = Wanted(th[s]) => Len(Read(s)) = Goal(th[s])
    BY <1>7, <1>14, Zenon
  <2> QED
    BY <2>1, <2>2
<1>16. Stream(sent[r], got[s], h, Read(s), Drained(s)[r].buf, th[r], cut, str)
  BY <1>10, <1>11, <1>12
<1> QED
  BY <1>3, <1>5, <1>14, <1>15, <1>16 DEF h, a

LEMMA ReadSomeKeeps ==
    ASSUME IInv, NEW s \in Side, ReadSome(s)
    PROVE  IInv'
<1> DEFINE r == Other(s)
           u == [th[s] EXCEPT !.part = Read(s)]
<1>1. th[s].at = "read" /\ ~reset[s] /\ r \in Side /\ r # s
  BY Sides DEF ReadSome
<1>2. /\ Woken(s) \in [Side -> Thread] /\ Woken(s)[s] = th[s]
      /\ Quiet(th[r], Woken(s)[r]) /\ Read(s) \in Seq(Byte)
  BY <1>1, AfterPass
<1>3. PICK cut, str : Stream(sent[r], got[s], th[s].header, Read(s),
                             Drained(s)[r].buf, th[r], cut, str)
  BY <1>1, AfterPass
<1>4. /\ u \in Thread /\ u.at = "read" /\ u.header = th[s].header /\ u.part = Read(s)
      /\ u.off = th[s].off /\ u.frame = th[s].frame
  BY <1>1, <1>2, DirectionTyped DEF Thread
<1>5. th' = [Woken(s) EXCEPT ![s] = u]
  BY <1>2 DEF ReadSome
<1> HIDE DEF u
<1>6. th' \in [Side -> Thread] /\ th'[s] = u /\ th'[r] = Woken(s)[r]
  BY <1>1, <1>2, <1>4, <1>5
<1>7. th[s].off = 0 /\ th[s].frame = <<>>
  BY <1>1, Typed DEF Carries, InWrite
<1>8. Carries(th'[s]) /\ th'[s].off = 0
  BY <1>4, <1>6, <1>7 DEF Carries, InRead, InWrite
<1>9. /\ pipe' = Drained(s) /\ UNCHANGED <<outbox, reset, sent, got, heard>>
  BY DEF ReadSome
<1>10. /\ got' \in [Side -> Seq(Seq(Byte))] /\ got'[r] = got[r]
       /\ heard' \in [Side -> {"open", "eof", "broken"}]
  BY <1>9 DEF IInv, TypeOK
<1>11. Stream(sent[r], got'[s], th'[s].header, th'[s].part, pipe'[r].buf, th[r], cut, str)
  BY <1>3, <1>4, <1>6, <1>9
<1> QED
  BY <1>1, <1>2, <1>6, <1>8, <1>9, <1>10, <1>11, ReadKeeps

LEMMA ReadHeaderKeeps ==
    ASSUME IInv, NEW s \in Side, ReadHeader(s)
    PROVE  IInv'
<1> DEFINE r == Other(s)
<1>1. /\ th[s].at = "read" /\ ~reset[s] /\ r \in Side /\ r # s
      /\ th[s].header = <<>> /\ Available(s) = Wanted(th[s])
  BY Sides DEF ReadHeader
<1>2. /\ Woken(s) \in [Side -> Thread] /\ Woken(s)[s] = th[s]
      /\ Quiet(th[r], Woken(s)[r]) /\ Read(s) \in Seq(Byte)
      /\ Goal(th[s]) <= Len(Read(s))
  BY <1>1, AfterPass
<1>3. PICK cut, str : Stream(sent[r], got[s], th[s].header, Read(s),
                             Drained(s)[r].buf, th[r], cut, str)
  BY <1>1, AfterPass
<1>4. /\ th[s] \in Thread /\ th[s].header \in Seq(Byte)
      /\ sent[r] \in Seq(Seq(Byte)) /\ got[s] \in Seq(Seq(Byte))
  BY <1>1, DirectionTyped
<1>5. Len(th[s].header) = 0
  BY <1>1, <1>4, Empty
<1>6. FRAME_HEADER_LEN <= Len(Read(s))
  BY <1>2, <1>5 DEF Goal
<1>7. /\ pipe' = Drained(s) /\ UNCHANGED <<outbox, reset, sent, got>>
  BY DEF ReadHeader
<1>8. got' \in [Side -> Seq(Seq(Byte))] /\ got'[r] = got[r]
  BY <1>7 DEF IInv, TypeOK
<1>9. heard \in [Side -> {"open", "eof", "broken"}]
  BY DEF IInv, TypeOK
<1>10. CASE Declared(Read(s)) > MAX_FRAME_PAYLOAD
  <2> DEFINE u == [Idle(th[s]) EXCEPT !.at = "failed"]
  <2>1. Quiet(th[s], u) /\ u.at = "failed"
    BY <1>4, QuietFail DEF Idle, Thread
  <2>2. u \in Thread /\ Carries(u) /\ u.off = 0 /\ u.at \in Dead
    BY <2>1 DEF Quiet, Carries, InWrite, Dead
  <2>3. th' = [Woken(s) EXCEPT ![s] = u] /\ heard' = [heard EXCEPT ![s] = "broken"]
    BY <1>2, <1>10 DEF ReadHeader
  <2> HIDE DEF u
  <2>4. th' \in [Side -> Thread] /\ th'[s] = u /\ th'[r] = Woken(s)[r]
    BY <1>1, <1>2, <2>2, <2>3
  <2>5. /\ heard' \in [Side -> {"open", "eof", "broken"}]
        /\ \A d \in Side : heard'[d] # "open" => heard[d] # "open" \/ th'[d].at \in Dead
    BY <1>9, <2>2, <2>3, <2>4
  <2> QED
    BY <1>1, <1>2, <1>7, <1>8, <2>2, <2>4, <2>5, ReadKeeps
<1>11. CASE ~(Declared(Read(s)) > MAX_FRAME_PAYLOAD)
  <2> DEFINE u == [th[s] EXCEPT !.header = Read(s), !.part = <<>>, !.late = FALSE]
  <2>1. <<>> \in Seq(Byte)
    OBVIOUS
  <2>2. /\ u \in Thread /\ u.at = "read" /\ u.header = Read(s) /\ u.part = <<>>
        /\ u.off = th[s].off /\ u.frame = th[s].frame
    BY <2>1, <1>1, <1>2, <1>4 DEF Thread
  <2>3. th' = [Woken(s) EXCEPT ![s] = u] /\ heard' = heard
    BY <1>2, <1>11 DEF ReadHeader
  <2> HIDE DEF u
  <2>4. th' \in [Side -> Thread] /\ th'[s] = u /\ th'[r] = Woken(s)[r]
    BY <1>1, <1>2, <2>2, <2>3
  <2>5. th[s].off = 0 /\ th[s].frame = <<>>
    BY <1>1, Typed DEF Carries, InWrite
  <2>6. Carries(th'[s]) /\ th'[s].off = 0
    BY <2>2, <2>4, <2>5 DEF Carries, InRead, InWrite
  <2>7. Drained(s)[r].buf \in Seq(Byte)
    <3>1. pipe'[r].buf \in Seq(Byte)
      BY <1>1, <1>7, DrainedTyped
    <3> QED
      BY <3>1, <1>7
  <2>8. Stream(sent[r], got[s], Read(s), th[s].header, Drained(s)[r].buf, th[r], cut, str)
    BY <1>2, <1>3, <1>4, <1>5, <1>6, <2>7, StreamHeader
  <2>9. Stream(sent[r], got'[s], th'[s].header, th'[s].part, pipe'[r].buf, th[r], cut, str)
    BY <1>1, <1>7, <2>2, <2>4, <2>8
  <2>10. heard' \in [Side -> {"open", "eof", "broken"}]
    BY <1>9, <2>3
  <2> QED
    BY <1>1, <1>2, <1>7, <1>8, <2>3, <2>4, <2>6, <2>9, <2>10, ReadKeeps
<1> QED
  BY <1>10, <1>11

LEMMA ReadPayloadKeeps ==
    ASSUME IInv, NEW s \in Side, ReadPayload(s)
    PROVE  /\ IInv'
           /\ Len(got[s]) < Len(sent[Other(s)])
           /\ th[s].header \o Read(s) = sent[Other(s)][Len(got[s]) + 1]
<1> DEFINE r == Other(s)
           u == Idle(th[s])
           f == th[s].header \o Read(s)
<1>1. /\ th[s].at = "read" /\ ~reset[s] /\ r \in Side /\ r # s
      /\ th[s].header # <<>> /\ Available(s) = Wanted(th[s])
  BY Sides DEF ReadPayload
<1>2. /\ Woken(s) \in [Side -> Thread] /\ Woken(s)[s] = th[s]
      /\ Quiet(th[r], Woken(s)[r]) /\ Read(s) \in Seq(Byte)
      /\ Goal(th[s]) <= Len(Read(s))
  BY <1>1, AfterPass
<1>3. PICK cut, str : Stream(sent[r], got[s], th[s].header, Read(s),
                             Drained(s)[r].buf, th[r], cut, str)
  BY <1>1, AfterPass
<1>4. /\ th[s] \in Thread /\ th[s].header \in Seq(Byte)
      /\ sent[r] \in Seq(Seq(Byte)) /\ got[s] \in Seq(Seq(Byte))
  BY <1>1, DirectionTyped
<1>5. Len(th[s].header) # 0
  BY <1>1, <1>4, Empty
<1>6. Declared(th[s].header) <= Len(Read(s))
  BY <1>2, <1>5 DEF Goal
<1>7. /\ pipe' = Drained(s) /\ UNCHANGED <<outbox, reset, sent, heard>>
      /\ got' = [got EXCEPT ![s] = Append(got[s], f)]
  BY DEF ReadPayload
<1>8. Drained(s)[r].buf \in Seq(Byte) /\ <<>> \in Seq(Byte) /\ Len(<<>>) = 0
  <2>1. pipe'[r].buf \in Seq(Byte)
    BY <1>1, <1>7, DrainedTyped
  <2>2. <<>> \in Seq(Byte) /\ Len(<<>>) = 0
    OBVIOUS
  <2> QED
    BY <2>1, <2>2, <1>7
<1>9. /\ Len(got[s]) < Len(sent[r]) /\ f = sent[r][Len(got[s]) + 1]
      /\ Stream(sent[r], Append(got[s], f), <<>>, <<>>, Drained(s)[r].buf, th[r], cut, str)
  <2>1. PICK e \in Seq(Byte) : e = <<>> /\ Len(e) = 0
    BY <1>8
  <2>2. /\ Len(got[s]) < Len(sent[r]) /\ f = sent[r][Len(got[s]) + 1]
        /\ Stream(sent[r], Append(got[s], f), e, e, Drained(s)[r].buf, th[r], cut, str)
    <3> DEFINE b == Drained(s)[r].buf
    <3>1. b \in Seq(Byte)
      BY <1>8
    <3>2. Stream(sent[r], got[s], th[s].header, Read(s), b, th[r], cut, str)
      BY <1>3
    <3> HIDE DEF b
    <3>3. /\ Len(got[s]) < Len(sent[r]) /\ f = sent[r][Len(got[s]) + 1]
          /\ Stream(sent[r], Append(got[s], f), e, e, b, th[r], cut, str)
      <4>1. e \in Seq(Byte) /\ Len(e) = 0
        BY <2>1
      <4>2. Read(s) \in Seq(Byte)
        BY <1>2
      <4> DEFINE S == sent[r]
                 G == got[s]
                 h == th[s].header
                 p == Read(s)
                 w == th[r]
      <4>3. /\ Stream(S, G, h, p, b, w, cut, str) /\ S \in Seq(Seq(Byte))
            /\ G \in Seq(Seq(Byte)) /\ h \in Seq(Byte) /\ p \in Seq(Byte)
            /\ Len(h) # 0 /\ Declared(h) <= Len(p)
        BY <3>2, <4>2, <1>4, <1>5, <1>6
      <4> HIDE DEF S, G, h, p, w
      <4>4. /\ Len(G) < Len(S) /\ h \o p = S[Len(G) + 1]
            /\ Stream(S, Append(G, h \o p), e, e, b, w, cut, str)
        BY <3>1, <4>1, <4>3, StreamPayload
      <4> QED
        BY <4>4 DEF S, G, h, p, w
    <3> QED
      BY <3>3 DEF b
  <2> QED
    BY <2>1, <2>2, Zenon
<1>10. /\ u \in Thread /\ u.at = "idle" /\ u.header = <<>> /\ u.part = <<>>
       /\ u.off = 0 /\ u.frame = <<>>
  BY <1>4, <1>8 DEF Thread, Idle
<1>11. th' = [Woken(s) EXCEPT ![s] = u]
  BY <1>2 DEF ReadPayload
<1> HIDE DEF u
<1>12. th' \in [Side -> Thread] /\ th'[s] = u /\ th'[r] = Woken(s)[r]
  BY <1>1, <1>2, <1>10, <1>11
<1>13. Carries(th'[s]) /\ th'[s].off = 0
  BY <1>10, <1>12 DEF Carries, InRead, InWrite
<1>14. f \in Seq(Byte)
  BY <1>2, <1>4, ConcatProperties
<1>15. Append(got[s], f) \in Seq(Seq(Byte))
  <2> HIDE DEF f
  <2> QED
    BY <1>4, <1>14, AppendProperties
<1> HIDE DEF f
<1>16. /\ got' \in [Side -> Seq(Seq(Byte))] /\ got'[r] = got[r]
       /\ got'[s] = Append(got[s], f)
       /\ heard' \in [Side -> {"open", "eof", "broken"}]
  BY <1>1, <1>7, <1>15 DEF IInv, TypeOK
<1>17. Stream(sent[r], got'[s], th'[s].header, th'[s].part, pipe'[r].buf, th[r], cut, str)
  BY <1>7, <1>9, <1>10, <1>12, <1>16
<1>18. IInv'
  BY <1>1, <1>2, <1>7, <1>12, <1>13, <1>16, <1>17, ReadKeeps
<1> QED
  BY <1>9, <1>18 DEF f

\* Bytes written after the other end has gone reach nobody.
LEMMA WriteIntoVoidKeeps ==
    ASSUME IInv, NEW s \in Side, WriteIntoVoid(s)
    PROVE  IInv'
<1> DEFINE r == Other(s)
           u == Idle(th[s])
<1>1. r \in Side /\ r # s /\ Other(r) = s /\ \A d \in Side : d = s \/ d = r
  BY Sides
<1>2. /\ th[s].at = "write" /\ pipe[s].reader_gone /\ th' = [th EXCEPT ![s] = u]
      /\ reset' = [reset EXCEPT ![s] = TRUE]
      /\ pipe' = [pipe EXCEPT ![r].buf = <<>>]
      /\ UNCHANGED <<outbox, sent, got, heard>>
  BY DEF WriteIntoVoid
<1>3. <<>> \in Seq(Byte)
  OBVIOUS
<1>4. /\ u \in Thread /\ u.at = "idle" /\ u.header = <<>> /\ u.part = <<>>
      /\ u.off = 0 /\ u.frame = <<>>
  <2>1. th[s] \in Thread
    BY Typed
  <2> QED
    BY <1>3, <2>1 DEF Thread, Idle
<1> HIDE DEF u
<1>5. /\ th \in [Side -> Thread] /\ reset \in [Side -> BOOLEAN]
      /\ pipe \in [Side -> [buf : Seq(Byte), write_closed : BOOLEAN, reader_gone : BOOLEAN]]
  BY DEF IInv, TypeOK
<1>6. /\ th' \in [Side -> Thread] /\ th'[s] = u /\ th'[r] = th[r]
      /\ reset' \in [Side -> BOOLEAN] /\ reset'[s]
  BY <1>1, <1>2, <1>4, <1>5
<1>7. /\ pipe' \in [Side -> [buf : Seq(Byte), write_closed : BOOLEAN, reader_gone : BOOLEAN]]
      /\ \A d \in Side : pipe'[d].reader_gone = pipe[d].reader_gone
  BY <1>1, <1>2, <1>3, <1>5
<1>8. TypeOK'
  BY <1>2, <1>6, <1>7 DEF IInv, TypeOK
<1>9. ThreadInv(s) /\ ThreadInv(r) /\ th[s].at \notin Dead
  BY <1>1, <1>2 DEF IInv, Dead
<1>10. ThreadInv(s)'
  <2>1. Carries(th'[s])
    BY <1>4, <1>6 DEF Carries, InRead, InWrite
  <2>2. heard'[s] = "open" /\ ~pipe'[r].reader_gone
    BY <1>1, <1>2, <1>7, <1>9 DEF ThreadInv
  <2> QED
    BY <2>1, <2>2 DEF ThreadInv
<1>11. ThreadInv(r)'
  BY <1>1, <1>2, <1>6, <1>7, <1>9 DEF ThreadInv
<1>12. StreamInv(s)'
  <2>1. th[r].at \in Dead
    BY <1>1, <1>2, <1>9 DEF ThreadInv
  <2> QED
    BY <2>1, <1>6 DEF StreamInv, Live
<1>13. StreamInv(r)'
  BY <1>1, <1>6 DEF StreamInv, Live
<1> QED
  BY <1>1, <1>8, <1>10, <1>11, <1>12, <1>13 DEF IInv

\* A short write: how much is written, and how the thread goes on.
LEMMA ShortWrite ==
    ASSUME IInv, NEW s \in Side, WritePartial(s)
    PROVE  \E n \in Nat :
              /\ n > 0 /\ th[s].off + n <= Len(th[s].frame)
              /\ pipe' = [pipe EXCEPT ![s].buf =
                            pipe[s].buf \o SubSeq(th[s].frame, th[s].off + 1, th[s].off + n)]
              /\ th' \in [Side -> Thread] /\ th'[Other(s)] = WakeReader(th[Other(s)])
              /\ Carries(th'[s]) /\ th'[s].at \notin Dead
              /\ th'[s].header = <<>> /\ th'[s].part = <<>>
              /\ \/ th'[s].off = 0 /\ th[s].off + n = Len(th[s].frame)
                 \/ th'[s].off = th[s].off + n /\ th'[s].frame = th[s].frame
<1> DEFINE t == th[s]
           f == t.frame
           b == pipe[s].buf
           space == Capacity - Len(b)
           left == Len(f) - t.off
           want == IF left < WRITE_CHUNK THEN left ELSE WRITE_CHUNK
           n == IF space < want THEN space ELSE want
           u == IF t.off + n = Len(f) THEN Idle(t) ELSE [t EXCEPT !.off = @ + n, !.late = FALSE]
           v == WakeReader(th[Other(s)])
<1>1. /\ t.at = "write" /\ space > 0
      /\ pipe' = [pipe EXCEPT ![s].buf = b \o SubSeq(f, t.off + 1, t.off + n)]
      /\ th' = [th EXCEPT ![s] = u, ![Other(s)] = v]
  BY Sides DEF WritePartial, IInv, TypeOK
<1>2. t \in Thread /\ Carries(t) /\ f \in Seq(Byte) /\ t.off \in Nat /\ b \in Seq(Byte)
  BY Typed, DirectionTyped
<1>3. /\ f \in Sendable /\ WellFramed(f) /\ t.off < Len(f)
      /\ t.header = <<>> /\ t.part = <<>>
  BY <1>1, <1>2 DEF Carries, InRead, InWrite
<1>4. Len(f) \in Nat /\ Len(b) \in Nat
  BY <1>2, LenProperties
<1>5. n \in Nat /\ n > 0 /\ t.off + n <= Len(f)
  <2>1. left \in Nat /\ left > 0
    BY <1>2, <1>3, <1>4
  <2>2. space \in Nat /\ space > 0
    BY <1>1, <1>4, TransportAssumption
  <2> HIDE DEF left, space
  <2>3. want \in Nat /\ want > 0 /\ want <= left
    BY <2>1, TransportAssumption
  <2> HIDE DEF want
  <2>4. n \in Nat /\ n > 0 /\ n <= left
    BY <2>1, <2>2, <2>3
  <2> HIDE DEF n
  <2> QED
    BY <2>4, <1>2, <1>4 DEF left
<1> HIDE DEF n
<1>6. /\ u \in Thread /\ Carries(u) /\ u.at \notin Dead
      /\ u.header = <<>> /\ u.part = <<>>
      /\ \/ u.off = 0 /\ t.off + n = Len(f)
         \/ u.off = t.off + n /\ u.frame = f
  <2>1. CASE t.off + n = Len(f)
    <3>1. <<>> \in Seq(Byte)
      OBVIOUS
    <3>2. /\ u \in Thread /\ u.at = "idle" /\ u.header = <<>> /\ u.part = <<>>
          /\ u.off = 0 /\ u.frame = <<>>
      BY <2>1, <3>1, <1>2 DEF Thread, Idle
    <3> HIDE DEF u
    <3> QED
      BY <2>1, <3>2 DEF Carries, InRead, InWrite, Dead
  <2>2. CASE t.off + n # Len(f)
    <3>1. t.off + n \in Nat /\ t.off + n < Len(f)
      <4>1. \A x, y \in Nat : x <= y /\ x # y => x < y
        OBVIOUS
      <4>2. t.off + n \in Nat
        BY <1>2, <1>5
      <4> QED
        BY <4>1, <4>2, <2>2, <1>4, <1>5, Zenon
    <3> DEFINE o == t.off + n
    <3>2. u = [t EXCEPT !.off = o, !.late = FALSE] /\ o \in Nat
      BY <2>2, <3>1
    <3> HIDE DEF o
    <3>3. /\ u \in Thread /\ u.at = "write" /\ u.header = <<>> /\ u.part = <<>>
          /\ u.off = o /\ u.frame = f
      <4> DEFINE x == [t EXCEPT !.off = o, !.late = FALSE]
      <4>1. /\ x \in Thread /\ x.at = t.at /\ x.header = t.header /\ x.part = t.part
            /\ x.off = o /\ x.frame = f
        BY <3>2, <1>2 DEF Thread
      <4> QED
        BY <4>1, <3>2, <1>1, <1>3, Zenon
    <3> HIDE DEF u
    <3>4. Carries(u)
      BY <3>1, <3>3, <1>3 DEF Carries, InRead, InWrite, o
    <3> QED
      BY <3>3, <3>4 DEF Dead, o
  <2> QED
    BY <2>1, <2>2
<1>7. Other(s) \in Side /\ Other(s) # s
  BY Sides
<1>8. v \in Thread
  BY <1>7, Typed, QuietWake DEF Quiet
<1>9. th \in [Side -> Thread]
  BY DEF IInv, TypeOK
<1> HIDE DEF u, v
<1>10. th' \in [Side -> Thread] /\ th'[s] = u /\ th'[Other(s)] = v
  BY <1>1, <1>6, <1>7, <1>8, <1>9
<1> QED
  BY <1>1, <1>5, <1>6, <1>10 DEF v

LEMMA WritePartialKeeps ==
    ASSUME IInv, NEW s \in Side, WritePartial(s)
    PROVE  IInv'
<1> DEFINE r == Other(s)
           f == th[s].frame
           off == th[s].off
           b == pipe[s].buf
<1>1. r \in Side /\ r # s /\ Other(r) = s /\ \A d \in Side : d = s \/ d = r
  BY Sides
<1>2. PICK n \in Nat :
              /\ n > 0 /\ off + n <= Len(f)
              /\ pipe' = [pipe EXCEPT ![s].buf = b \o SubSeq(f, off + 1, off + n)]
              /\ th' \in [Side -> Thread] /\ th'[r] = WakeReader(th[r])
              /\ Carries(th'[s]) /\ th'[s].at \notin Dead
              /\ th'[s].header = <<>> /\ th'[s].part = <<>>
              /\ \/ th'[s].off = 0 /\ off + n = Len(f)
                 \/ th'[s].off = off + n /\ th'[s].frame = f
  BY ShortWrite
<1>3. /\ th[s].at = "write"
      /\ sent' = IF off = 0 THEN [sent EXCEPT ![s] = Append(sent[s], f)] ELSE sent
      /\ UNCHANGED <<outbox, reset, got, heard>>
  BY DEF WritePartial
<1>4. /\ f \in Seq(Byte) /\ off \in Nat /\ b \in Seq(Byte) /\ th[s] \in Thread
      /\ Carries(th[s]) /\ th[s].at \notin Dead
  BY <1>3, Typed, DirectionTyped DEF Dead
<1>5. /\ f \in Sendable /\ WellFramed(f)
      /\ th[s].header = <<>> /\ th[s].part = <<>>
  BY <1>3, <1>4 DEF Carries, InRead, InWrite
<1>6. Quiet(th[r], th'[r])
  BY <1>1, <1>2, Typed, QuietWake
<1>7. SubSeq(f, off + 1, off + n) \in Seq(Byte)
  BY <1>2, <1>4, Piece
<1>8. b \o SubSeq(f, off + 1, off + n) \in Seq(Byte)
  BY <1>4, <1>7, ConcatProperties
<1> HIDE DEF f, off, b
<1>9. /\ sent \in [Side -> Seq(Sendable)]
      /\ pipe \in [Side -> [buf : Seq(Byte), write_closed : BOOLEAN, reader_gone : BOOLEAN]]
  BY DEF IInv, TypeOK
<1>10. /\ pipe' \in [Side -> [buf : Seq(Byte), write_closed : BOOLEAN, reader_gone : BOOLEAN]]
       /\ pipe'[s].buf = b \o SubSeq(f, off + 1, off + n) /\ pipe'[r] = pipe[r]
       /\ \A d \in Side : pipe'[d].reader_gone = pipe[d].reader_gone
  BY <1>1, <1>2, <1>8, <1>9
<1>11. Append(sent[s], f) \in Seq(Sendable)
  BY <1>5, <1>9, AppendProperties
<1>12. /\ sent' \in [Side -> Seq(Sendable)] /\ sent'[r] = sent[r]
       /\ off = 0 => sent'[s] = Append(sent[s], f)
       /\ off # 0 => sent'[s] = sent[s]
  BY <1>1, <1>3, <1>9, <1>11
<1>13. TypeOK'
  BY <1>2, <1>3, <1>10, <1>12 DEF IInv, TypeOK
<1>14. ThreadInv(s) /\ ThreadInv(r)
  BY <1>1 DEF IInv
<1>15. ThreadInv(s)'
  <2>1. heard'[s] = "open" /\ ~pipe'[r].reader_gone
    BY <1>1, <1>3, <1>4, <1>10, <1>14 DEF ThreadInv
  <2> QED
    BY <2>1, <1>2 DEF ThreadInv
<1>16. ThreadInv(r)'
  BY <1>1, <1>3, <1>6, <1>10, <1>14 DEF ThreadInv, Quiet
<1>17. StreamInv(s)'
  <2> DEFINE v == th'[s]
             S == sent[s]
             G == got[r]
             h == th[r].header
             p == th[r].part
             w == th[s]
  <2>1. SUFFICES ASSUME Live(r)'
                 PROVE  \E cut, str :
                          Stream(sent'[s], got'[r], th'[r].header, th'[r].part,
                                 pipe'[s].buf, v, cut, str)
    BY DEF StreamInv
  <2>2. Live(r) /\ th'[r].header = h /\ th'[r].part = p
    BY <2>1, <1>3, <1>6 DEF Live, Quiet
  <2>3. PICK cut, str : Stream(S, G, h, p, b, w, cut, str)
    BY <2>2 DEF IInv, StreamInv, b
  <2>4. /\ S \in Seq(Seq(Byte)) /\ G \in Seq(Seq(Byte)) /\ h \in Seq(Byte) /\ p \in Seq(Byte)
    BY <1>1, DirectionTyped
  <2>5. w.off = off /\ w.frame = f /\ w.at \notin Dead
    BY <1>4 DEF off, f
  <2>6. \/ v.off = 0 /\ off + n = Len(f)
        \/ v.off = off + n /\ v.frame = f
    BY <1>2
  <2>7. got'[r] = G
    BY <1>3
  <2> HIDE DEF v, S, G, h, p, w
  <2>8. CASE off = 0
    <3>1. 0 + 1 = 1 /\ 0 + n = n
      OBVIOUS
    <3>2. n <= Len(f) /\ (\/ v.off = 0 /\ n = Len(f)
                          \/ v.off = n /\ v.frame = f)
      BY <2>6, <2>8, <3>1, <1>2
    <3>3. PICK c2, s2 : Stream(Append(S, f), G, h, p, b \o SubSeq(f, 1, n), v, c2, s2)
      BY <2>3, <2>4, <2>5, <2>8, <3>2, <1>2, <1>4, <1>5, StreamBegins
    <3>4. pipe'[s].buf = b \o SubSeq(f, 1, n) /\ sent'[s] = Append(S, f)
      BY <2>8, <3>1, <1>10, <1>12 DEF S
    <3> QED
      BY <3>3, <3>4, <2>2, <2>7
  <2>9. CASE off # 0
    <3>1. off > 0 /\ sent'[s] = S
      BY <2>9, <1>4, <1>12 DEF S
    <3>2. Stream(S, G, h, p, b \o SubSeq(f, off + 1, off + n), v, cut, str)
      BY <2>3, <2>4, <2>5, <2>6, <3>1, <1>2, <1>4, StreamWrites
    <3> QED
      BY <3>1, <3>2, <2>2, <2>7, <1>10
  <2> QED
    BY <2>8, <2>9
<1>18. StreamInv(r)'
  <2>1. SUFFICES ASSUME Live(s)'
                 PROVE  \E cut, str :
                          Stream(sent'[r], got'[s], th'[s].header, th'[s].part,
                                 pipe'[r].buf, th'[r], cut, str)
    BY <1>1 DEF StreamInv
  <2>2. Live(s)
    BY <2>1, <1>3, <1>4 DEF Live
  <2>3. PICK cut, str : Stream(sent[r], got[s], th[s].header, th[s].part,
                               pipe[r].buf, th[r], cut, str)
    BY <2>2, <1>1 DEF IInv, StreamInv
  <2>4. /\ th'[r].off > 0 => th'[r].off = th[r].off /\ th'[r].frame = th[r].frame
        /\ th'[r].off = 0 /\ th'[r].at \notin Dead => th[r].off = 0 /\ th[r].at \notin Dead
    <3>1. th'[r].at \in Dead => th'[r].off = 0
      BY <1>6 DEF Quiet, Carries, Dead, InWrite
    <3> QED
      BY <3>1, <1>6 DEF Quiet, Thread
  <2>5. Stream(sent[r], got[s], th[s].header, th[s].part, pipe[r].buf, th'[r], cut, str)
    BY <2>3, <2>4, StreamKept
  <2> QED
    BY <2>5, <1>2, <1>3, <1>5, <1>10, <1>12
<1> QED
  BY <1>1, <1>13, <1>15, <1>16, <1>17, <1>18 DEF IInv

-----------------------------------------------------------------------------
(***************************************************************************)
(* The invariant and what follows from it.                                 *)
(***************************************************************************)
LEMMA InitHolds ==
    ASSUME Init
    PROVE  IInv
<1>1. <<>> \in Seq(Byte) /\ <<>> \in Seq(Sendable) /\ <<>> \in Seq(Seq(Byte))
  OBVIOUS
<1>2. outbox \in [Side -> Seq(Sendable)]
  <2>1. outbox \in Outboxes /\ outbox \in [Side -> Seq(Seq(Byte))]
    BY OutboxAssumption DEF Init
  <2>2. ASSUME NEW s \in Side
        PROVE  outbox[s] \in Seq(Sendable)
    <3>1. outbox[s] \in Seq(Seq(Byte)) /\ ToSet(outbox[s]) \subseteq Sendable
      BY <2>1 DEF Sendable, Side
    <3>2. Len(outbox[s]) \in Nat /\ outbox[s] \in [1 .. Len(outbox[s]) -> Seq(Byte)]
      BY <3>1, LenProperties
    <3>3. \A i \in 1 .. Len(outbox[s]) : outbox[s][i] \in Sendable
      BY <3>1, <3>2 DEF ToSet
    <3>4. outbox[s] \in [1 .. Len(outbox[s]) -> Sendable]
      BY <3>2, <3>3
    <3> QED
      BY <3>2, <3>4, SeqDef
  <2> QED
    BY <2>1, <2>2
<1>3. /\ th \in [Side -> Thread] /\ \A s \in Side : Carries(th[s])
  BY <1>1 DEF Init, Thread, Carries, InWrite, InRead
<1>4. TypeOK
  BY <1>1, <1>2, <1>3 DEF TypeOK, Init
<1>5. ASSUME NEW s \in Side
      PROVE  ThreadInv(s)
  <2>1. Other(s) \in Side
    BY Sides
  <2> QED
    BY <2>1, <1>3 DEF ThreadInv, Init
<1>6. ASSUME NEW s \in Side
      PROVE  StreamInv(s)
  <2>1. Other(s) \in Side
    BY Sides
  <2>2. /\ sent[s] = <<>> /\ got[Other(s)] = <<>> /\ pipe[s].buf = <<>>
        /\ th[Other(s)].header = <<>> /\ th[Other(s)].part = <<>> /\ th[s].off = 0
    BY <2>1 DEF Init
  <2>3. th[s] \in Thread
    BY <1>3
  <2>4. PICK e \in Seq(Byte) : e = <<>> /\ Len(e) = 0
    BY EmptySeq
  <2>5. Stream(e, e, e, e, e, th[s], [i \in 0 .. 0 |-> 0], e)
    <3>1. e \in Seq(Byte) /\ Len(e) = 0
      BY <2>4
    <3> QED
      BY <3>1, <2>2, <2>3, StreamStarts
  <2> QED
    BY <2>2, <2>4, <2>5, Zenon DEF StreamInv
<1> QED
  BY <1>4, <1>5, <1>6 DEF IInv

LEMMA NextKeeps ==
    ASSUME RetryTimeouts = FALSE, IInv, Next
    PROVE  IInv'
<1>1. PICK s \in Side :
        Call(s) \/ Sending(s) \/ Receiving(s) \/ Closing(s) \/ DeadlinePasses(s)
  BY DEF Next
<1>2. CASE Call(s)
  BY <1>2, SendFrameKeeps, RecvFrameKeeps, SetDeadlineKeeps, ShutdownWriteKeeps,
     CloseKeeps DEF Call
<1>3. CASE Sending(s)
  BY <1>3, WritePartialKeeps, WriteBlocksKeeps, WriteRefusedKeeps, WriteIntoVoidKeeps
     DEF Sending
<1>4. CASE Receiving(s)
  BY <1>4, ReadSomeKeeps, ReadHeaderKeeps, ReadPayloadKeeps, ReadEofKeeps,
     ReadBlocksKeeps, ReadResetKeeps DEF Receiving
<1>5. CASE Closing(s)
  BY <1>5, NotifyReaderKeeps, StopReceivingKeeps, NotifyWriterKeeps DEF Closing
<1> QED
  BY <1>1, <1>2, <1>3, <1>4, <1>5, DeadlinePassesKeeps

LEMMA StutterKeeps ==
    ASSUME IInv, UNCHANGED vars
    PROVE  IInv'
BY DEF IInv, TypeOK, ThreadInv, StreamInv, Live, vars

\* For callers that close after a time-out, the bytes a receiver has taken and
\* the bytes in the pipe are at every moment the bytes of the frames that were
\* sent, from where the last delivered frame ends.
THEOREM Invariance ==
    ASSUME RetryTimeouts = FALSE
    PROVE  Spec => []IInv
<1>1. Init => IInv
  BY InitHolds
<1>2. IInv /\ [Next]_vars => IInv'
  BY NextKeeps, StutterKeeps
<1> QED
  BY <1>1, <1>2, PTL DEF Spec

-----------------------------------------------------------------------------
(***************************************************************************)
(* The connection implements FrameChannel.                                 *)
(***************************************************************************)

\* How direction d looks from above.
GotView == [d \in Side |-> got[Other(d)]]
HeardView == [d \in Side |-> heard[Other(d)]]

LEMMA InitRefines == Init => Channel!Init
<1>1. \A d \in Side : Other(d) \in Side
  BY Sides
<1> QED
  BY <1>1 DEF Init, Channel!Init

\* A step that leaves what was sent, given and reported alone.
LEMMA Stutters ==
    ASSUME UNCHANGED <<sent, got, heard>>
    PROVE  UNCHANGED Channel!vars
BY DEF Channel!vars

\* The first byte of a frame is a Send, and a later one is nothing.
LEMMA WritePartialRefines ==
    ASSUME IInv, NEW s \in Side, WritePartial(s)
    PROVE  [Channel!Next]_(Channel!vars)
<1>1. UNCHANGED <<got, heard>>
  BY DEF WritePartial
<1>2. CASE th[s].off = 0
  <2>1. sent' = [sent EXCEPT ![s] = Append(@, th[s].frame)]
    BY <1>2 DEF WritePartial
  <2>2. th[s].frame \in Sendable
    BY Typed DEF WritePartial, Carries, InWrite
  <2>3. Channel!Send(s)
    BY <1>1, <2>1, <2>2 DEF Channel!Send, Sendable
  <2> QED
    BY <2>3 DEF Channel!Next
<1>3. CASE th[s].off # 0
  <2>1. sent' = sent
    BY <1>3 DEF WritePartial
  <2> QED
    BY <1>1, <2>1, Stutters
<1> QED
  BY <1>2, <1>3

\* A complete payload is a Deliver.
LEMMA ReadPayloadRefines ==
    ASSUME IInv, NEW s \in Side, ReadPayload(s)
    PROVE  [Channel!Next]_(Channel!vars)
<1> DEFINE r == Other(s)
<1>1. r \in Side /\ Other(r) = s /\ r # s /\ \A d \in Side : d # r => Other(d) # s
  BY DEF Side, Other
<1>2. /\ got' = [got EXCEPT ![s] = Append(got[s], th[s].header \o Read(s))]
      /\ UNCHANGED <<sent, heard>> /\ th[s].at = "read"
  BY DEF ReadPayload
<1>3. /\ Len(got[s]) < Len(sent[r])
      /\ th[s].header \o Read(s) = sent[r][Len(got[s]) + 1]
  BY ReadPayloadKeeps
<1>4. heard[s] = "open"
  BY <1>2 DEF IInv, ThreadInv, Dead
<1>5. got \in [Side -> Seq(Seq(Byte))]
  BY DEF IInv, TypeOK
<1>6. GotView[r] = got[s] /\ HeardView[r] = heard[s]
  BY <1>1 DEF GotView, HeardView
<1>7. GotView' = [GotView EXCEPT ![r] = Append(GotView[r], sent[r][Len(GotView[r]) + 1])]
  <2> DEFINE x == Append(got[s], sent[r][Len(got[s]) + 1])
  <2>1. got' = [got EXCEPT ![s] = x]
    BY <1>2, <1>3
  <2> HIDE DEF x
  <2>2. GotView' = [GotView EXCEPT ![r] = x]
    BY <2>1, <1>1, <1>5, Sides DEF GotView
  <2> QED
    BY <2>2, <1>6 DEF x
<1>8. Channel!Deliver(r)
  BY <1>2, <1>3, <1>4, <1>6, <1>7 DEF Channel!Deliver, GotView, HeardView
<1> QED
  BY <1>1, <1>8 DEF Channel!Next

\* An error report is a Break, and a clean end an End: nothing is missing.
LEMMA RefusedRefines ==
    ASSUME IInv, NEW s \in Side, th[s].at = "read", UNCHANGED <<sent, got>>,
           NEW how, how \in {"eof", "broken"}, heard' = [heard EXCEPT ![s] = how],
           how = "eof" => got[s] = sent[Other(s)]
    PROVE  [Channel!Next]_(Channel!vars)
<1> DEFINE r == Other(s)
<1>1. r \in Side /\ Other(r) = s /\ r # s /\ \A d \in Side : d # r => Other(d) # s
  BY DEF Side, Other
<1>2. heard[s] = "open" /\ heard \in [Side -> {"open", "eof", "broken"}]
  BY DEF IInv, ThreadInv, Dead, TypeOK
<1>3. GotView[r] = got[s] /\ HeardView[r] = heard[s]
  BY <1>1 DEF GotView, HeardView
<1>4. HeardView' = [HeardView EXCEPT ![r] = how]
  BY <1>1, <1>2, Sides DEF HeardView
<1>5. GotView' = GotView
  BY DEF GotView
<1>6. CASE how = "eof"
  <2>1. Channel!End(r)
    BY <1>2, <1>3, <1>4, <1>5, <1>6 DEF Channel!End, GotView, HeardView
  <2> QED
    BY <2>1, <1>1 DEF Channel!Next
<1>7. CASE how = "broken"
  <2>1. Channel!Break(r)
    BY <1>2, <1>3, <1>4, <1>5, <1>7 DEF Channel!Break, GotView, HeardView
  <2> QED
    BY <2>1, <1>1 DEF Channel!Next
<1> QED
  BY <1>6, <1>7

\* A clean end is reported only when every frame that was begun was given.
LEMMA ReadEofRefines ==
    ASSUME IInv, NEW s \in Side, ReadEof(s)
    PROVE  [Channel!Next]_(Channel!vars)
<1> DEFINE r == Other(s)
           how == IF CleanEnd(th[s]) THEN "eof" ELSE "broken"
<1>1. /\ th[s].at = "read" /\ ~reset[s] /\ pipe[r].buf = <<>>
      /\ heard' = [heard EXCEPT ![s] = how] /\ UNCHANGED <<sent, got>>
  BY DEF ReadEof, NothingToRead, Refused
<1>2. ASSUME CleanEnd(th[s])
      PROVE  got[s] = sent[r]
  <2>1. th[s].header = <<>> /\ th[s].part = <<>>
    BY <1>2 DEF CleanEnd
  <2>2. PICK cut, str : Stream(sent[r], got[s], th[s].header, th[s].part,
                               pipe[r].buf, th[r], cut, str)
    BY <1>1, Reading
  <2>3. PICK e \in Seq(Byte) : e = <<>> /\ Len(e) = 0
    BY EmptySeq
  <2>4. Stream(sent[r], got[s], e, e, e, th[r], cut, str)
    BY <2>1, <2>2, <2>3, <1>1, Zenon
  <2>5. r \in Side
    BY Sides
  <2>6. sent[r] \in Seq(Seq(Byte)) /\ got[s] \in Seq(Seq(Byte))
    BY <2>5, DirectionTyped
  <2>7. e \in Seq(Byte) /\ Len(e) = 0
    BY <2>3
  <2> QED
    BY <2>4, <2>6, <2>7, StreamEnds
<1>3. how \in {"eof", "broken"} /\ (how = "eof" => got[s] = sent[r])
  BY <1>2
<1> HIDE DEF how
<1> QED
  BY <1>1, <1>3, RefusedRefines

LEMMA ReceivingRefines ==
    ASSUME RetryTimeouts = FALSE, IInv, NEW s \in Side, Receiving(s)
    PROVE  [Channel!Next]_(Channel!vars)
<1>1. CASE ReadSome(s)
  BY <1>1, Stutters DEF ReadSome
<1>2. CASE ReadHeader(s)
  <2>1. CASE Declared(Read(s)) > MAX_FRAME_PAYLOAD
    BY <1>2, <2>1, RefusedRefines DEF ReadHeader
  <2>2. CASE ~(Declared(Read(s)) > MAX_FRAME_PAYLOAD)
    BY <1>2, <2>2, Stutters DEF ReadHeader
  <2> QED
    BY <2>1, <2>2
<1>3. CASE ReadBlocks(s)
  <2>1. CASE th[s].late
    BY <1>3, <2>1, RefusedRefines DEF ReadBlocks, NothingToRead, Refused
  <2>2. CASE ~th[s].late
    BY <1>3, <2>2, Stutters DEF ReadBlocks
  <2> QED
    BY <2>1, <2>2
<1>4. CASE ReadReset(s)
  BY <1>4, RefusedRefines DEF ReadReset, Refused
<1> QED
  BY <1>1, <1>2, <1>3, <1>4, ReadPayloadRefines, ReadEofRefines DEF Receiving

LEMMA NextRefines ==
    ASSUME RetryTimeouts = FALSE, IInv, Next
    PROVE  [Channel!Next]_(Channel!vars)
<1>1. PICK s \in Side :
        Call(s) \/ Sending(s) \/ Receiving(s) \/ Closing(s) \/ DeadlinePasses(s)
  BY DEF Next
<1>2. CASE Call(s)
  BY <1>2, Stutters DEF Call, SendFrame, RecvFrame, SetDeadline, ShutdownWrite, Close
<1>3. CASE WriteBlocks(s) \/ WriteRefused(s) \/ WriteIntoVoid(s)
  BY <1>3, Stutters DEF WriteBlocks, WriteRefused, WriteIntoVoid
<1>4. CASE Closing(s) \/ DeadlinePasses(s)
  BY <1>4, Stutters DEF Closing, NotifyReader, StopReceiving, NotifyWriter, DeadlinePasses
<1> QED
  BY <1>1, <1>2, <1>3, <1>4, WritePartialRefines, ReceivingRefines DEF Sending

\* For callers that close after a time-out, send_frame and recv_frame implement
\* FrameChannel over both adapters: frames arrive whole, once and in order, a
\* clean end means that none is missing, and nothing is delivered after an end
\* or an error, however the bytes are cut into chunks and whatever the pipe holds.
THEOREM Refinement ==
    ASSUME RetryTimeouts = FALSE
    PROVE  Spec => ChannelSpec
<1>1. Init => Channel!Init
  BY InitRefines
<1>2. IInv /\ [Next]_vars => [Channel!Next]_(Channel!vars)
  BY NextRefines, Stutters DEF vars
<1>3. Spec => []IInv
  BY Invariance
<1> QED
  BY <1>1, <1>2, <1>3, PTL DEF Spec, ChannelSpec, Channel!Spec

-----------------------------------------------------------------------------
(***************************************************************************)
(* What was delivered stays a prefix of what was sent, also after the end. *)
(***************************************************************************)
Agree(G, S) == Len(G) <= Len(S) /\ \A i \in 1 .. Len(G) : G[i] = S[i]

Delivered == \A s \in Side : Agree(got[s], sent[Other(s)])

LEMMA AgreeMoreSent ==
    ASSUME NEW G \in Seq(Seq(Byte)), NEW S \in Seq(Seq(Byte)), Agree(G, S),
           NEW f \in Seq(Byte)
    PROVE  Agree(G, Append(S, f))
<1>1. Len(G) \in Nat /\ Len(S) \in Nat
  BY LenProperties
<1>2. Len(Append(S, f)) = Len(S) + 1 /\ \A i \in 1 .. Len(S) : Append(S, f)[i] = S[i]
  BY AppendProperties
<1> QED
  BY <1>1, <1>2 DEF Agree

LEMMA AgreeDelivered ==
    ASSUME NEW G \in Seq(Seq(Byte)), NEW S \in Seq(Seq(Byte)), Agree(G, S),
           Len(G) < Len(S), NEW f \in Seq(Byte), f = S[Len(G) + 1]
    PROVE  Agree(Append(G, f), S)
<1>1. Len(G) \in Nat /\ Len(S) \in Nat
  BY LenProperties
<1>2. /\ Len(Append(G, f)) = Len(G) + 1 /\ \A i \in 1 .. Len(G) : Append(G, f)[i] = G[i]
      /\ Append(G, f)[Len(G) + 1] = f
  BY AppendProperties
<1> QED
  BY <1>1, <1>2 DEF Agree

\* What a step may do to the two histories.
LEMMA Histories ==
    ASSUME RetryTimeouts = FALSE, IInv, Next, NEW s \in Side
    PROVE  /\ \/ sent'[s] = sent[s]
              \/ \E f \in Seq(Byte) : sent'[s] = Append(sent[s], f)
           /\ \/ got'[s] = got[s]
              \/ /\ Len(got[s]) < Len(sent[Other(s)])
                 /\ got'[s] = Append(got[s], sent[Other(s)][Len(got[s]) + 1])
           /\ sent' = sent \/ got' = got
<1>1. PICK d \in Side :
        Call(d) \/ Sending(d) \/ Receiving(d) \/ Closing(d) \/ DeadlinePasses(d)
  BY DEF Next
<1>2. sent \in [Side -> Seq(Sendable)] /\ got \in [Side -> Seq(Seq(Byte))]
  BY DEF IInv, TypeOK
<1>3. CASE UNCHANGED <<sent, got>>
  BY <1>3
<1>4. CASE WritePartial(d)
  <2>1. got' = got /\ th[d].frame \in Seq(Byte)
    BY <1>4, DirectionTyped DEF WritePartial
  <2>2. sent' = sent \/ sent' = [sent EXCEPT ![d] = Append(@, th[d].frame)]
    BY <1>4 DEF WritePartial
  <2> QED
    BY <2>1, <2>2, <1>2
<1>5. CASE ReadPayload(d)
  <2> DEFINE x == th[d].header \o Read(d)
  <2>1. sent' = sent /\ got' = [got EXCEPT ![d] = Append(@, x)]
    BY <1>5 DEF ReadPayload
  <2>2. Len(got[d]) < Len(sent[Other(d)]) /\ x = sent[Other(d)][Len(got[d]) + 1]
    BY <1>5, ReadPayloadKeeps
  <2> HIDE DEF x
  <2> QED
    BY <2>1, <2>2, <1>2
<1>6. CASE Call(d)
  BY <1>6, <1>3 DEF Call, SendFrame, RecvFrame, SetDeadline, ShutdownWrite, Close
<1>7. CASE WriteBlocks(d) \/ WriteRefused(d) \/ WriteIntoVoid(d)
  BY <1>7, <1>3 DEF WriteBlocks, WriteRefused, WriteIntoVoid
<1>8. CASE Closing(d) \/ DeadlinePasses(d)
  BY <1>8, <1>3 DEF Closing, NotifyReader, StopReceiving, NotifyWriter, DeadlinePasses
<1>9. CASE ReadSome(d) \/ ReadHeader(d) \/ ReadEof(d) \/ ReadBlocks(d) \/ ReadReset(d)
  BY <1>9, <1>3 DEF ReadSome, ReadHeader, ReadEof, ReadBlocks, ReadReset
<1> QED
  BY <1>1, <1>4, <1>5, <1>6, <1>7, <1>8, <1>9 DEF Sending, Receiving

LEMMA DeliveredKept ==
    ASSUME RetryTimeouts = FALSE, IInv, Delivered, Next
    PROVE  Delivered'
<1>1. SUFFICES ASSUME NEW s \in Side
               PROVE  Agree(got'[s], sent'[Other(s)])
  BY DEF Delivered
<1> DEFINE G == got[s]
           S == sent[Other(s)]
<1>2. Other(s) \in Side
  BY Sides
<1>3. G \in Seq(Seq(Byte)) /\ S \in Seq(Seq(Byte)) /\ Agree(G, S)
  BY <1>2, DirectionTyped DEF Delivered
<1>4. /\ \/ sent'[Other(s)] = S
         \/ \E f \in Seq(Byte) : sent'[Other(s)] = Append(S, f)
      /\ \/ got'[s] = G
         \/ Len(G) < Len(S) /\ got'[s] = Append(G, S[Len(G) + 1])
      /\ sent' = sent \/ got' = got
  BY <1>2, Histories
<1>5. Len(G) < Len(S) => S[Len(G) + 1] \in Seq(Byte)
  BY <1>3, LenProperties, ElementOfSeq
<1>6. (sent'[Other(s)] = S /\ got'[s] = G) => Agree(got'[s], sent'[Other(s)])
  BY <1>3
<1>7. got'[s] = G => Agree(got'[s], sent'[Other(s)])
  BY <1>3, <1>4, <1>6, AgreeMoreSent
<1>8. sent'[Other(s)] = S => Agree(got'[s], sent'[Other(s)])
  BY <1>3, <1>4, <1>5, <1>6, AgreeDelivered
<1> QED
  BY <1>4, <1>7, <1>8

LEMMA AgreeIsPrefix ==
    ASSUME NEW G \in Seq(Seq(Byte)), NEW S \in Seq(Seq(Byte)), Agree(G, S)
    PROVE  IsPrefix(G, S)
<1> DEFINE k == Len(G)
<1>1. k \in Nat /\ Len(S) \in Nat /\ k <= Len(S)
  BY LenProperties DEF Agree
<1>2. \A i \in 1 .. k : G[i] \in Seq(Byte) /\ S[i] \in Seq(Byte) /\ G[i] = S[i]
  BY <1>1, ElementOfSeq DEF Agree
<1> HIDE DEF k
<1>3. /\ SubSeq(G, 1, k) \in Seq(Seq(Byte))
      /\ Len(SubSeq(G, 1, k)) = IF 1 <= k THEN k - 1 + 1 ELSE 0
      /\ \A i \in 1 .. k - 1 + 1 : SubSeq(G, 1, k)[i] = G[1 + i - 1]
  BY <1>1, <1>2, SubSeqProperties
<1>4. /\ SubSeq(S, 1, k) \in Seq(Seq(Byte))
      /\ Len(SubSeq(S, 1, k)) = IF 1 <= k THEN k - 1 + 1 ELSE 0
      /\ \A i \in 1 .. k - 1 + 1 : SubSeq(S, 1, k)[i] = S[1 + i - 1]
  BY <1>1, <1>2, SubSeqProperties
<1>5. Len(SubSeq(G, 1, k)) = Len(SubSeq(S, 1, k)) /\ Len(SubSeq(G, 1, k)) = k
  BY <1>1, <1>3, <1>4
<1>6. \A i \in 1 .. k : SubSeq(G, 1, k)[i] = SubSeq(S, 1, k)[i]
  BY <1>1, <1>2, <1>3, <1>4
<1>7. SubSeq(G, 1, k) = SubSeq(S, 1, k)
  BY <1>3, <1>4, <1>5, <1>6, SeqEqual
<1> QED
  BY <1>1, <1>7 DEF IsPrefix, k

\* For callers that close after a time-out, what recv_frame has returned is frame
\* by frame what the other end sent, also after the connection broke.
THEOREM FramesAreIntact ==
    ASSUME RetryTimeouts = FALSE
    PROVE  Spec => []FramesIntact
<1>1. Init => Delivered
  <2>1. \A s \in Side : Other(s) \in Side
    BY Sides
  <2> QED
    BY <2>1 DEF Init, Delivered, Agree
<1>2. IInv /\ Delivered /\ [Next]_vars => Delivered'
  <2>1. ASSUME Delivered, UNCHANGED vars
        PROVE  Delivered'
    BY <2>1 DEF Delivered, vars
  <2> QED
    BY <2>1, DeliveredKept
<1>3. IInv /\ Delivered => FramesIntact
  <2>1. SUFFICES ASSUME IInv, Delivered, NEW s \in Side
                 PROVE  IsPrefix(got[s], sent[Other(s)])
    BY DEF FramesIntact
  <2>2. Other(s) \in Side
    BY Sides
  <2> QED
    BY <2>1, <2>2, DirectionTyped, AgreeIsPrefix DEF Delivered
<1>4. Spec => []IInv
  BY Invariance
<1> QED
  BY <1>1, <1>2, <1>3, <1>4, PTL DEF Spec
============================================================================
