----------------------------- MODULE PumpProofs -----------------------------
(***************************************************************************)
(* Proofs about the full-OTP pump, for every size of bundle, key, record,  *)
(* book and channel: pad bytes are used once, what is opened is what was   *)
(* sealed, the server waits for the acknowledgement, and without tampering *)
(* neither end refuses a message of the other.                             *)
(***************************************************************************)
EXTENDS FullOtpPump, FiniteSetTheorems, SequenceTheorems, TLAPS

Data == [kind : {"data"}, dir : Dirs, bundle : Nat, base : Nat, seq : Nat,
         off : Nat, len : Nat, tag : BOOLEAN]

Message ==
    Data \cup [kind : {"offer"}, bundle : Nat, base : Nat]
         \cup [kind : {"ack"}, bundle : Nat]
         \cup [kind : {"need", "close", "garbage"}]

\* Position i of the messages on their way to r holds one of kind k.
Is(r, i, k) == i \in DOMAIN chan[r] /\ chan[r][i].kind = k

Types ==
    /\ TypeOK
    /\ chan \in [Roles -> Seq(Message)]
    /\ sealed \in [Roles -> Seq(Data)]
    /\ opened \in [Roles -> Seq(Data)]

(***************************************************************************)
(* Which bundles there are.                                                *)
(***************************************************************************)

\* The first segment of the bundle of which a half starts at base.
Start(d, base) == IF d = "c2s" THEN base ELSE base - PadHalf

Bundle(d, id, base) == [id |-> id, start |-> Start(d, base)]

\* The bundles that streams, records and offers speak of.
OfCurrent ==
    UNION {{Bundle(d, cur[r][d].id, cur[r][d].base) : d \in Dirs} : r \in Roles}
OfNext ==
    UNION {{Bundle(d, next[r][d].id, next[r][d].base) :
              d \in {e \in Dirs : HasNext(r, e)}} : r \in Roles}
OfRecords ==
    UNION {{Bundle(Out(r), sealed[r][k].bundle, sealed[r][k].base) :
              k \in DOMAIN sealed[r]} : r \in Roles}
OfOffers ==
    {Bundle("c2s", chan["client"][i].bundle, chan["client"][i].base) :
       i \in {j \in DOMAIN chan["client"] : Is("client", j, "offer")}}
Known == OfCurrent \cup OfNext \cup OfRecords \cup OfOffers

\* Bundles follow each other in the book in the order of their ids, and all
\* of them lie before the server's pointer.
Chain ==
    /\ Known \subseteq [id : Nat, start : Nat]
    /\ \A x \in Known : x.id < nextId["server"] /\ x.start + 2 * PadHalf <= ptr["server"]
    /\ \A x, y \in Known : /\ x.id = y.id => x.start = y.start
                           /\ x.id < y.id => x.start + 2 * PadHalf <= y.start

\* A direction of r uses the newest bundle, or the one before it and holds
\* the newest as its next.
StreamsOf(r) ==
    /\ nextId[r] >= 1
    /\ \A d \in Dirs :
         /\ cur[r][d].id \in {nextId[r] - 1, nextId[r] - 2}
         /\ closed[r] => ~HasNext(r, d)
         /\ HasNext(r, d) => /\ next[r][d].id = nextId[r] - 1
                             /\ next[r][d].off = 0
                             /\ cur[r][d].id = nextId[r] - 2
         /\ ~closed[r] /\ ~HasNext(r, d) => cur[r][d].id = nextId[r] - 1

(***************************************************************************)
(* Records.                                                                *)
(***************************************************************************)
EndOf(x) == x.off + KeyLen + x.len

\* The stream after record x.
After(x) == [id |-> x.bundle, base |-> x.base, off |-> EndOf(x)]

\* The stream of direction d after the first n records of q.
StreamAt(q, d, n) == IF n = 0 THEN Half(0, 1, d) ELSE After(q[n])

\* The records of r are numbered, fit into their half and follow each other
\* without a gap, from one bundle to the next.
SealedBy(r) ==
    /\ Len(sealed[r]) = sendSeq[r]
    /\ \A k \in 1 .. Len(sealed[r]) :
         /\ sealed[r][k].dir = Out(r) /\ sealed[r][k].seq = k - 1 /\ sealed[r][k].tag
         /\ EndOf(sealed[r][k]) <= PadHalf
         /\ sealed[r][k].bundle <= cur[r][Out(r)].id
         /\ ~closed[r] /\ sealed[r][k].bundle = cur[r][Out(r)].id =>
              EndOf(sealed[r][k]) <= cur[r][Out(r)].off
         /\ \/ /\ sealed[r][k].bundle = StreamAt(sealed[r], Out(r), k - 1).id
               /\ sealed[r][k].off = StreamAt(sealed[r], Out(r), k - 1).off
            \/ /\ sealed[r][k].bundle = StreamAt(sealed[r], Out(r), k - 1).id + 1
               /\ sealed[r][k].off = 0
    /\ ~closed[r] => cur[r][Out(r)] = StreamAt(sealed[r], Out(r), sendSeq[r])

\* The accounting of session_consumed.
CountedFor(r) ==
    /\ IsFiniteSet(PadOf(sealed[r]))
    /\ Cardinality(PadOf(sealed[r])) = sum[r]

\* A receiver is where the records it opened have brought it; what arrives
\* with a good tag is a record of the peer.
ReceivedBy(r) ==
    /\ Len(opened[r]) = recvSeq[r] /\ recvSeq[r] <= Len(sealed[Peer(r)])
    /\ \A k \in 1 .. recvSeq[r] : opened[r][k] = sealed[Peer(r)][k]
    /\ \A i \in 1 .. Len(chan[r]) : chan[r][i].kind = "data" =>
         /\ chan[r][i].seq < Len(sealed[Peer(r)])
         /\ chan[r][i].tag => chan[r][i] = sealed[Peer(r)][chan[r][i].seq + 1]
    /\ ~closed[r] => cur[r][In(r)] = StreamAt(sealed[Peer(r)], In(r), recvSeq[r])

\* The records on their way to r are the ones not received yet, in order.
OnTheirWay(r) ==
    /\ \A i \in 1 .. Len(chan[r]) :
         /\ chan[r][i].kind # "garbage"
         /\ chan[r][i].kind = "data" => chan[r][i].tag /\ chan[r][i].seq >= recvSeq[r]
    /\ \A n \in recvSeq[r] .. sendSeq[Peer(r)] - 1 :
         \E i \in 1 .. Len(chan[r]) : Is(r, i, "data") /\ chan[r][i].seq = n
    /\ \A i, j \in 1 .. Len(chan[r]) :
         Is(r, i, "data") /\ Is(r, j, "data") /\ i < j => chan[r][i].seq < chan[r][j].seq

InSync == ~tampered => \A r \in Roles : ~closed[r] => OnTheirWay(r)

(***************************************************************************)
(* Offers and acknowledgements.                                            *)
(***************************************************************************)
Negotiation ==
    /\ nextId["client"] \in {nextId["server"], nextId["server"] - 1}
    /\ AckedBeforeUse
    /\ acked => nextId["client"] = nextId["server"]
    /\ pending # 0 => /\ pending = nextId["server"] - 1 /\ ~acked
                      /\ cur["server"]["s2c"].id = nextId["server"] - 2

\* At most one offer or acknowledgement is on its way, of the bundle the
\* server waits for; the client gets to an offer with all of its streams in
\* the bundle before.
Outstanding ==
    /\ \A i, j \in 1 .. Len(chan["client"]) :
         Is("client", i, "offer") /\ Is("client", j, "offer") => i = j
    /\ \A i, j \in 1 .. Len(chan["server"]) :
         Is("server", i, "ack") /\ Is("server", j, "ack") => i = j
    /\ \A i \in 1 .. Len(chan["client"]) : \A j \in 1 .. Len(chan["server"]) :
         ~(Is("client", i, "offer") /\ Is("server", j, "ack"))
    /\ \A i \in 1 .. Len(chan["client"]) : Is("client", i, "offer") =>
         /\ chan["client"][i].bundle = pending /\ pending # 0
         /\ nextId["client"] = pending
         /\ cur["client"]["c2s"].id = pending - 1
         /\ ~tampered /\ ~closed["client"] =>
              \/ cur["client"]["s2c"].id = pending - 1
              \/ \E j \in 1 .. i : Is("client", j, "data") /\ chan["client"][j].bundle = pending - 1
    /\ \A i \in 1 .. Len(chan["server"]) : Is("server", i, "ack") =>
         /\ chan["server"][i].bundle = pending /\ pending # 0
         /\ nextId["client"] = nextId["server"]

Core ==
    /\ Types /\ Chain
    /\ \A r \in Roles : StreamsOf(r) /\ SealedBy(r) /\ CountedFor(r) /\ ReceivedBy(r)
    /\ InSync /\ Negotiation /\ Outstanding

IInv == Core /\ NeverRefused
-----------------------------------------------------------------------------
(***************************************************************************)
(* Sequences and channels.                                                 *)
(***************************************************************************)
LEMMA Sizes ==
    /\ PadHalf \in Nat /\ KeyLen \in Nat /\ MaxSeq \in Nat /\ MaxSkip \in Nat
    /\ MaxLen \in Nat /\ KeyLen > 0 /\ KeyLen < PadHalf
  BY PumpAssumption

LEMMA RolesFacts ==
    \A r \in Roles : /\ Peer(r) \in Roles /\ Peer(r) # r /\ Peer(Peer(r)) = r
                     /\ Out(r) \in Dirs /\ In(r) \in Dirs /\ In(r) # Out(r)
                     /\ In(r) = Out(Peer(r)) /\ \A q \in Roles : q = r \/ q = Peer(r)
                     /\ \A d \in Dirs : d = Out(r) \/ d = In(r)
  BY DEF Roles, Peer, Out, In, Dirs

LEMMA TailFacts ==
    ASSUME NEW S, NEW q \in Seq(S), q # <<>>
    PROVE  /\ Tail(q) \in Seq(S) /\ Len(Tail(q)) = Len(q) - 1
           /\ Len(q) \in Nat /\ Len(q) >= 1 /\ Head(q) = q[1] /\ Head(q) \in S
           /\ \A i \in 1 .. Len(q) - 1 : Tail(q)[i] = q[i + 1]
  OBVIOUS

LEMMA AppendFacts ==
    ASSUME NEW S, NEW q \in Seq(S), NEW e \in S
    PROVE  /\ Append(q, e) \in Seq(S) /\ Len(Append(q, e)) = Len(q) + 1
           /\ Len(q) \in Nat
           /\ \A i \in 1 .. Len(q) : Append(q, e)[i] = q[i]
           /\ Append(q, e)[Len(q) + 1] = e
  OBVIOUS

\* What a step may do to the messages on their way to r.
Shifted(r) ==
    /\ Len(chan[r]) >= 1 /\ Len(chan'[r]) = Len(chan[r]) - 1
    /\ \A i \in 1 .. Len(chan'[r]) : chan'[r][i] = chan[r][i + 1]

Grown(r, m) ==
    /\ Len(chan'[r]) = Len(chan[r]) + 1
    /\ \A i \in 1 .. Len(chan[r]) : chan'[r][i] = chan[r][i]
    /\ chan'[r][Len(chan[r]) + 1] = m

LEMMA ConsumeFacts ==
    ASSUME NEW r \in Roles, chan \in [Roles -> Seq(Message)], chan[r] # <<>>, Consume(r)
    PROVE  /\ chan' \in [Roles -> Seq(Message)] /\ Shifted(r)
           /\ chan'[Peer(r)] = chan[Peer(r)]
<1>1. chan[r] \in Seq(Message)
  OBVIOUS
<1>2. chan' = [chan EXCEPT ![r] = Tail(chan[r])] /\ Tail(chan[r]) \in Seq(Message)
  BY <1>1, TailFacts DEF Consume
<1> QED
  BY <1>1, <1>2, TailFacts, RolesFacts DEF Shifted

LEMMA PostFacts ==
    ASSUME NEW r \in Roles, chan \in [Roles -> Seq(Message)], NEW m \in Message, Post(r, m)
    PROVE  /\ chan' \in [Roles -> Seq(Message)] /\ Grown(Peer(r), m)
           /\ chan'[r] = chan[r]
<1>1. Peer(r) \in Roles /\ chan[Peer(r)] \in Seq(Message)
  BY RolesFacts
<1>2. chan' = [chan EXCEPT ![Peer(r)] = Append(chan[Peer(r)], m)]
      /\ Append(chan[Peer(r)], m) \in Seq(Message)
  BY <1>1, AppendFacts DEF Post
<1> QED
  BY <1>1, <1>2, AppendFacts, RolesFacts DEF Grown

LEMMA AnswerFacts ==
    ASSUME NEW r \in Roles, chan \in [Roles -> Seq(Message)], chan[r] # <<>>,
           NEW m \in Message, Answer(r, m)
    PROVE  /\ chan' \in [Roles -> Seq(Message)] /\ Shifted(r) /\ Grown(Peer(r), m)
<1>1. /\ Peer(r) \in Roles /\ Peer(r) # r
      /\ chan[Peer(r)] \in Seq(Message) /\ chan[r] \in Seq(Message)
  BY RolesFacts
<1>2. chan' = [chan EXCEPT ![r] = Tail(chan[r]), ![Peer(r)] = Append(chan[Peer(r)], m)]
  BY <1>1 DEF Answer
<1>3. Append(chan[Peer(r)], m) \in Seq(Message) /\ Tail(chan[r]) \in Seq(Message)
  BY <1>1, AppendFacts, TailFacts
<1>4. chan'[r] = Tail(chan[r]) /\ chan'[Peer(r)] = Append(chan[Peer(r)], m)
  BY <1>1, <1>2
<1> QED
  <2>1. chan' \in [Roles -> Seq(Message)]
    BY <1>1, <1>2, <1>3
  <2>2. Shifted(r)
    BY <1>1, <1>4, TailFacts DEF Shifted
  <2>3. Grown(Peer(r), m)
    BY <1>1, <1>4, AppendFacts DEF Grown
  <2> QED
    BY <2>1, <2>2, <2>3

-----------------------------------------------------------------------------
(***************************************************************************)
(* Bundles.                                                                *)
(***************************************************************************)
LEMMA KnownIs ==
    \A x : x \in Known <=>
      \/ \E r \in Roles, d \in Dirs : x = Bundle(d, cur[r][d].id, cur[r][d].base)
      \/ \E r \in Roles, d \in Dirs :
           HasNext(r, d) /\ x = Bundle(d, next[r][d].id, next[r][d].base)
      \/ \E r \in Roles : \E k \in DOMAIN sealed[r] :
           x = Bundle(Out(r), sealed[r][k].bundle, sealed[r][k].base)
      \/ \E i : /\ Is("client", i, "offer")
                /\ x = Bundle("c2s", chan["client"][i].bundle, chan["client"][i].base)
<1>1. \A x : x \in OfCurrent <=> \E r \in Roles, d \in Dirs :
                 x = Bundle(d, cur[r][d].id, cur[r][d].base)
  BY DEF OfCurrent
<1>2. \A x : x \in OfNext <=> \E r \in Roles, d \in Dirs :
                 HasNext(r, d) /\ x = Bundle(d, next[r][d].id, next[r][d].base)
  BY DEF OfNext
<1>3. \A x : x \in OfRecords <=> \E r \in Roles : \E k \in DOMAIN sealed[r] :
                 x = Bundle(Out(r), sealed[r][k].bundle, sealed[r][k].base)
  BY DEF OfRecords
<1>4. \A x : x \in OfOffers <=> \E i : /\ Is("client", i, "offer")
                /\ x = Bundle("c2s", chan["client"][i].bundle, chan["client"][i].base)
  BY DEF OfOffers, Is
<1> QED
  BY <1>1, <1>2, <1>3, <1>4, Zenon DEF Known

LEMMA KnownIsPrimed ==
    \A x : x \in Known' <=>
      \/ \E r \in Roles, d \in Dirs : x = Bundle(d, cur'[r][d].id, cur'[r][d].base)
      \/ \E r \in Roles, d \in Dirs :
           HasNext(r, d)' /\ x = Bundle(d, next'[r][d].id, next'[r][d].base)
      \/ \E r \in Roles : \E k \in DOMAIN sealed'[r] :
           x = Bundle(Out(r), sealed'[r][k].bundle, sealed'[r][k].base)
      \/ \E i : /\ Is("client", i, "offer")'
                /\ x = Bundle("c2s", chan'["client"][i].bundle, chan'["client"][i].base)
<1>1. \A x : x \in OfCurrent' <=> \E r \in Roles, d \in Dirs :
                 x = Bundle(d, cur'[r][d].id, cur'[r][d].base)
  BY DEF OfCurrent
<1>2. \A x : x \in OfNext' <=> \E r \in Roles, d \in Dirs :
                 HasNext(r, d)' /\ x = Bundle(d, next'[r][d].id, next'[r][d].base)
  BY DEF OfNext
<1>3. \A x : x \in OfRecords' <=> \E r \in Roles : \E k \in DOMAIN sealed'[r] :
                 x = Bundle(Out(r), sealed'[r][k].bundle, sealed'[r][k].base)
  BY DEF OfRecords
<1>4. \A x : x \in OfOffers' <=> \E i : /\ Is("client", i, "offer")'
                /\ x = Bundle("c2s", chan'["client"][i].bundle, chan'["client"][i].base)
  BY DEF OfOffers, Is
<1> QED
  BY <1>1, <1>2, <1>3, <1>4, Zenon DEF Known

\* A step that speaks of no new bundle keeps the chain.
LEMMA ChainStays ==
    ASSUME Types, Chain, Known' \subseteq Known, nextId'["server"] = nextId["server"],
           ptr'["server"] \in Nat, ptr'["server"] >= ptr["server"]
    PROVE  Chain'
<1>1. nextId["server"] \in Nat /\ ptr["server"] \in Nat
  BY DEF Types, TypeOK, Roles
<1>2. ASSUME NEW x \in Known'
      PROVE  /\ x \in [id : Nat, start : Nat] /\ x.id < nextId'["server"]
             /\ x.start + 2 * PadHalf <= ptr'["server"]
  <2>1. x \in Known
    OBVIOUS
  <2>2. x \in [id : Nat, start : Nat] /\ x.start + 2 * PadHalf <= ptr["server"]
        /\ x.id < nextId["server"]
    BY <2>1 DEF Chain
  <2> QED
    BY <1>1, <2>2, Sizes
<1> QED
  BY <1>2 DEF Chain

\* One that adds the bundle at the server's pointer does, too.
LEMMA ChainGrows ==
    ASSUME Types, Chain,
           Known' \subseteq Known \cup {Bundle("c2s", nextId["server"], ptr["server"])},
           nextId'["server"] = nextId["server"] + 1,
           ptr'["server"] = ptr["server"] + 2 * PadHalf
    PROVE  Chain'
<1> DEFINE b == Bundle("c2s", nextId["server"], ptr["server"])
<1> USE Sizes
<1>1. nextId["server"] \in Nat /\ ptr["server"] \in Nat /\ PadHalf \in Nat
  BY DEF Types, TypeOK, Roles
<1>2. b \in [id : Nat, start : Nat] /\ b.id = nextId["server"] /\ b.start = ptr["server"]
  BY <1>1 DEF Bundle, Start
<1> HIDE DEF b
<1>3. \A x \in Known : /\ x.id \in Nat /\ x.start \in Nat /\ x.id < b.id
                       /\ x.start + 2 * PadHalf <= b.start
  BY <1>1, <1>2 DEF Chain
<1>4. Known' \subseteq [id : Nat, start : Nat]
  BY <1>2 DEF Chain, b
<1>5. \A x \in Known' : x.id < nextId'["server"] /\ x.start + 2 * PadHalf <= ptr'["server"]
  BY <1>1, <1>2, <1>3, <1>4 DEF b
<1>6. \A x, y \in Known' : /\ x.id = y.id => x.start = y.start
                           /\ x.id < y.id => x.start + 2 * PadHalf <= y.start
  <2> SUFFICES ASSUME NEW x \in Known', NEW y \in Known'
               PROVE  /\ x.id = y.id => x.start = y.start
                      /\ x.id < y.id => x.start + 2 * PadHalf <= y.start
    OBVIOUS
  <2>1. (x \in Known \/ x = b) /\ (y \in Known \/ y = b)
    BY DEF b
  <2> QED
    BY <1>1, <1>2, <1>3, <2>1 DEF Chain
<1> QED
  BY <1>4, <1>5, <1>6 DEF Chain

\* What the streams, records and offers say of their bundles.
LEMMA KnownOnes ==
    /\ \A r \in Roles, d \in Dirs : Bundle(d, cur[r][d].id, cur[r][d].base) \in Known
    /\ \A r \in Roles, d \in Dirs : HasNext(r, d) =>
         Bundle(d, next[r][d].id, next[r][d].base) \in Known
    /\ \A r \in Roles : \A k \in DOMAIN sealed[r] :
         Bundle(Out(r), sealed[r][k].bundle, sealed[r][k].base) \in Known
    /\ \A i : Is("client", i, "offer") =>
         Bundle("c2s", chan["client"][i].bundle, chan["client"][i].base) \in Known
  BY KnownIs

-----------------------------------------------------------------------------
(***************************************************************************)
(* Steps on the channels.                                                  *)
(***************************************************************************)
Quiet == {"need", "close"}

\* The first o messages to r are taken, and only messages of kinds in K are
\* added.
Slides(r, o, K) ==
    /\ o \in {0, 1}
    /\ \A i \in 1 .. Len(chan'[r]) : chan'[r][i].kind \notin K =>
         i + o \in 1 .. Len(chan[r]) /\ chan'[r][i] = chan[r][i + o]
    /\ \A i \in 1 .. Len(chan[r]) : i > o =>
         i - o \in 1 .. Len(chan'[r]) /\ chan'[r][i - o] = chan[r][i]

LEMMA SlidesCases ==
    ASSUME NEW r \in Roles, chan \in [Roles -> Seq(Message)], NEW K
    PROVE  /\ chan'[r] = chan[r] => Slides(r, 0, K)
           /\ Shifted(r) => Slides(r, 1, K)
           /\ \A m : Grown(r, m) /\ m.kind \in K => Slides(r, 0, K)
<1>1. Len(chan[r]) \in Nat
  OBVIOUS
<1>2. chan'[r] = chan[r] => Slides(r, 0, K)
  BY <1>1 DEF Slides
<1>3. Shifted(r) => Slides(r, 1, K)
  BY <1>1 DEF Slides, Shifted
<1>4. ASSUME NEW m, Grown(r, m), m.kind \in K
      PROVE  Slides(r, 0, K)
  BY <1>1, <1>4 DEF Slides, Grown
<1> QED
  BY <1>2, <1>3, <1>4

LEMMA ReceivedSlides ==
    ASSUME Types, chan' \in [Roles -> Seq(Message)], NEW r \in Roles, ReceivedBy(r),
           NEW o, NEW K, "data" \notin K, Slides(r, o, K), UNCHANGED <<opened, recvSeq, sealed>>,
           ~closed'[r] => ~closed[r] /\ cur'[r][In(r)] = cur[r][In(r)]
    PROVE  ReceivedBy(r)'
<1>1. \A i \in 1 .. Len(chan'[r]) : chan'[r][i].kind = "data" =>
        \E j \in 1 .. Len(chan[r]) : chan'[r][i] = chan[r][j]
  BY DEF Slides
<1>2. \A i \in 1 .. Len(chan'[r]) : chan'[r][i].kind = "data" =>
         /\ chan'[r][i].seq < Len(sealed[Peer(r)])
         /\ chan'[r][i].tag => chan'[r][i] = sealed[Peer(r)][chan'[r][i].seq + 1]
  BY <1>1 DEF ReceivedBy
<1> QED
  BY <1>2 DEF ReceivedBy

LEMMA OnTheirWaySlides ==
    ASSUME Types, chan' \in [Roles -> Seq(Message)], NEW r \in Roles, OnTheirWay(r),
           NEW o, NEW K, {"data", "garbage"} \cap K = {}, Slides(r, o, K), UNCHANGED <<recvSeq, sendSeq>>,
           o = 1 => chan[r][1].kind # "data"
    PROVE  OnTheirWay(r)'
<1>1. o \in {0, 1} /\ Len(chan[r]) \in Nat /\ Len(chan'[r]) \in Nat
  BY DEF Slides, Types
<1>2. ASSUME NEW i \in 1 .. Len(chan'[r])
      PROVE  /\ chan'[r][i].kind # "garbage"
             /\ chan'[r][i].kind = "data" => chan'[r][i].tag /\ chan'[r][i].seq >= recvSeq[r]
  BY DEF Slides, OnTheirWay
<1>3. ASSUME NEW n \in recvSeq[r] .. sendSeq[Peer(r)] - 1
      PROVE  \E i \in 1 .. Len(chan'[r]) : Is(r, i, "data")' /\ chan'[r][i].seq = n
  <2>1. PICK i \in 1 .. Len(chan[r]) : Is(r, i, "data") /\ chan[r][i].seq = n
    BY DEF OnTheirWay
  <2>2. i > o
    BY <1>1, <2>1 DEF Is
  <2>3. i - o \in 1 .. Len(chan'[r]) /\ chan'[r][i - o] = chan[r][i]
    BY <2>2 DEF Slides
  <2>4. i - o \in DOMAIN chan'[r]
    BY <2>3
  <2> QED
    BY <2>1, <2>3, <2>4 DEF Is
<1>4. ASSUME NEW i \in 1 .. Len(chan'[r]), NEW j \in 1 .. Len(chan'[r]),
             Is(r, i, "data")', Is(r, j, "data")', i < j
      PROVE  chan'[r][i].seq < chan'[r][j].seq
  <2>1. /\ i + o \in 1 .. Len(chan[r]) /\ chan'[r][i] = chan[r][i + o]
        /\ j + o \in 1 .. Len(chan[r]) /\ chan'[r][j] = chan[r][j + o]
    BY <1>4 DEF Slides, Is
  <2>2. i + o < j + o
    BY <1>1, <1>4
  <2>3. Is(r, i + o, "data") /\ Is(r, j + o, "data")
    BY <1>4, <2>1 DEF Is
  <2> QED
    BY <2>1, <2>2, <2>3 DEF OnTheirWay
<1> QED
  BY <1>2, <1>3, <1>4 DEF OnTheirWay

LEMMA OutstandingSlides ==
    ASSUME Types, chan' \in [Roles -> Seq(Message)], Outstanding,
           NEW K, {"offer", "ack"} \cap K = {},
           NEW a, Slides("client", a, K), NEW b, Slides("server", b, K),
           UNCHANGED <<pending, nextId, tampered>>,
           closed["client"] => closed'["client"],
           \A i \in 1 .. Len(chan["client"]) : Is("client", i, "offer") =>
             /\ cur'["client"]["c2s"].id = cur["client"]["c2s"].id
             /\ ~tampered /\ ~closed'["client"] /\ cur'["client"]["s2c"].id # pending - 1 =>
                  /\ cur["client"]["s2c"].id # pending - 1
                  /\ a = 1 => ~(/\ chan["client"][1].kind = "data"
                                /\ chan["client"][1].bundle = pending - 1)
    PROVE  Outstanding'
<1>1. /\ a \in {0, 1} /\ b \in {0, 1}
      /\ \A r \in Roles : Len(chan[r]) \in Nat /\ Len(chan'[r]) \in Nat
  BY DEF Slides, Types
<1>2. \A i \in 1 .. Len(chan'["client"]) : Is("client", i, "offer")' =>
        /\ i + a \in 1 .. Len(chan["client"]) /\ chan'["client"][i] = chan["client"][i + a]
        /\ Is("client", i + a, "offer")
  BY DEF Slides, Is
<1>3. \A i \in 1 .. Len(chan'["server"]) : Is("server", i, "ack")' =>
        /\ i + b \in 1 .. Len(chan["server"]) /\ chan'["server"][i] = chan["server"][i + b]
        /\ Is("server", i + b, "ack")
  BY SMTT(30) DEF Slides, Is
<1>4. \A i, j \in 1 .. Len(chan'["client"]) :
        Is("client", i, "offer")' /\ Is("client", j, "offer")' => i = j
  <2> SUFFICES ASSUME NEW i \in 1 .. Len(chan'["client"]), NEW j \in 1 .. Len(chan'["client"]),
                      Is("client", i, "offer")', Is("client", j, "offer")'
               PROVE  i = j
    OBVIOUS
  <2>1. i + a = j + a
    BY <1>2 DEF Outstanding
  <2> QED
    BY <1>1, <2>1
<1>5. \A i, j \in 1 .. Len(chan'["server"]) :
        Is("server", i, "ack")' /\ Is("server", j, "ack")' => i = j
  <2> SUFFICES ASSUME NEW i \in 1 .. Len(chan'["server"]), NEW j \in 1 .. Len(chan'["server"]),
                      Is("server", i, "ack")', Is("server", j, "ack")'
               PROVE  i = j
    OBVIOUS
  <2>1. i + b = j + b
    BY <1>3 DEF Outstanding
  <2> QED
    BY <1>1, <2>1
<1>6. \A i \in 1 .. Len(chan'["client"]) : \A j \in 1 .. Len(chan'["server"]) :
         ~(Is("client", i, "offer")' /\ Is("server", j, "ack")')
  BY <1>2, <1>3 DEF Outstanding
<1>7. ASSUME NEW i \in 1 .. Len(chan'["client"]), Is("client", i, "offer")'
      PROVE  /\ chan'["client"][i].bundle = pending' /\ pending' # 0
             /\ nextId'["client"] = pending'
             /\ cur'["client"]["c2s"].id = pending' - 1
             /\ ~tampered' /\ ~closed'["client"] =>
                  \/ cur'["client"]["s2c"].id = pending' - 1
                  \/ \E j \in 1 .. i : /\ Is("client", j, "data")'
                                       /\ chan'["client"][j].bundle = pending' - 1
  <2>1. /\ i + a \in 1 .. Len(chan["client"]) /\ chan'["client"][i] = chan["client"][i + a]
        /\ Is("client", i + a, "offer")
    BY <1>2, <1>7
  <2>2. ASSUME ~tampered, ~closed'["client"], cur'["client"]["s2c"].id # pending - 1
        PROVE  \E j \in 1 .. i : /\ Is("client", j, "data")'
                                 /\ chan'["client"][j].bundle = pending - 1
    <3>1. PICK j \in 1 .. i + a : /\ Is("client", j, "data")
                                  /\ chan["client"][j].bundle = pending - 1
      BY <2>1, <2>2 DEF Outstanding
    <3>2. j > a
      BY <1>1, <2>1, <2>2, <3>1 DEF Is
    <3>3. j \in 1 .. Len(chan["client"])
      BY <1>1, <2>1, <3>1 DEF Roles
    <3>4. j - a \in 1 .. Len(chan'["client"]) /\ chan'["client"][j - a] = chan["client"][j]
      BY <3>2, <3>3 DEF Slides
    <3>5. j - a \in 1 .. i
      BY <1>1, <3>1, <3>2
    <3>6. Is("client", j - a, "data")'
      BY <3>1, <3>4 DEF Is
    <3> QED
      BY <3>1, <3>4, <3>5, <3>6
  <2> QED
    BY <2>1, <2>2 DEF Outstanding
<1>8. \A i \in 1 .. Len(chan'["server"]) : Is("server", i, "ack")' =>
         /\ chan'["server"][i].bundle = pending' /\ pending' # 0
         /\ nextId'["client"] = nextId'["server"]
  BY <1>3 DEF Outstanding
<1> QED
  BY <1>4, <1>5, <1>6, <1>7, <1>8 DEF Outstanding

\* No new bundle is heard of.
LEMMA KnownSlides ==
    ASSUME NEW o, NEW K, "offer" \notin K, Slides("client", o, K), UNCHANGED sealed,
           chan \in [Roles -> Seq(Message)], chan' \in [Roles -> Seq(Message)],
           \A r \in Roles, d \in Dirs :
             /\ cur'[r][d].id = cur[r][d].id /\ cur'[r][d].base = cur[r][d].base
             /\ next'[r][d] = next[r][d] \/ next'[r][d] = NoStream
    PROVE  Known' \subseteq Known
<1> SUFFICES ASSUME NEW x \in Known'
             PROVE  x \in Known
  OBVIOUS
<1>1. CASE \E r \in Roles, d \in Dirs : x = Bundle(d, cur'[r][d].id, cur'[r][d].base)
  BY <1>1, KnownOnes
<1>2. CASE \E r \in Roles, d \in Dirs :
             HasNext(r, d)' /\ x = Bundle(d, next'[r][d].id, next'[r][d].base)
  BY <1>2, KnownOnes DEF HasNext
<1>3. CASE \E r \in Roles : \E k \in DOMAIN sealed'[r] :
             x = Bundle(Out(r), sealed'[r][k].bundle, sealed'[r][k].base)
  BY <1>3, KnownOnes
<1>4. CASE \E i : /\ Is("client", i, "offer")'
                  /\ x = Bundle("c2s", chan'["client"][i].bundle, chan'["client"][i].base)
  <2>1. PICK i : /\ Is("client", i, "offer")'
                 /\ x = Bundle("c2s", chan'["client"][i].bundle, chan'["client"][i].base)
    BY <1>4
  <2>2. i \in 1 .. Len(chan'["client"])
    BY <2>1 DEF Is, Roles
  <2>3. i + o \in 1 .. Len(chan["client"]) /\ chan'["client"][i] = chan["client"][i + o]
    BY <2>1, <2>2 DEF Slides, Is
  <2>4. Is("client", i + o, "offer")
    BY <2>1, <2>3 DEF Is, Roles
  <2> QED
    BY <2>1, <2>3, <2>4, KnownOnes
<1> QED
  BY <1>1, <1>2, <1>3, <1>4, KnownIsPrimed

-----------------------------------------------------------------------------
(***************************************************************************)
(* Steps that neither seal, open nor negotiate anything: a pump may close, *)
(* messages that change nothing are taken or sent.                         *)
(***************************************************************************)
Still ==
    /\ chan' \in [Roles -> Seq(Message)]
    /\ \A r \in Roles : \/ Slides(r, 0, Quiet)
                        \/ /\ Slides(r, 1, Quiet)
                           /\ chan[r][1].kind = "data" => closed'[r]
    /\ \A r \in Roles :
         \/ cur'[r] = cur[r] /\ next'[r] = next[r] /\ closed'[r] = closed[r]
         \/ /\ closed'[r] = TRUE /\ next'[r] = NoNext
            /\ cur'[r] = [d \in Dirs |-> [cur[r][d] EXCEPT !.off = PadHalf]]
    /\ cur' \in [Roles -> [Dirs -> Stream]] /\ next' \in [Roles -> [Dirs -> Stream]]
    /\ closed' \in [Roles -> BOOLEAN]
    /\ UNCHANGED <<sendSeq, recvSeq, nextId, acked, pending, sealed, opened, sum,
                   tampered>>
    /\ ptr' \in [Roles -> Nat] /\ ptr'["server"] >= ptr["server"]
    /\ failed' \in [Roles -> BOOLEAN]

LEMMA StillKeeps ==
    ASSUME Core, Still
    PROVE  Core'
<1> USE Sizes
<1>1. /\ cur \in [Roles -> [Dirs -> Stream]] /\ next \in [Roles -> [Dirs -> Stream]]
      /\ \A r \in Roles, d \in Dirs : cur[r][d] \in Stream
  BY DEF Core, Types, TypeOK
<1>2. \A r \in Roles, d \in Dirs :
        /\ cur'[r][d].id = cur[r][d].id /\ cur'[r][d].base = cur[r][d].base
        /\ ~closed'[r] => cur'[r][d] = cur[r][d] /\ next'[r][d] = next[r][d]
        /\ \/ next'[r][d] = next[r][d]
           \/ next'[r][d] = NoStream /\ closed'[r]
  <2> SUFFICES ASSUME NEW r \in Roles, NEW d \in Dirs
               PROVE  /\ cur'[r][d].id = cur[r][d].id /\ cur'[r][d].base = cur[r][d].base
                      /\ ~closed'[r] => cur'[r][d] = cur[r][d] /\ next'[r][d] = next[r][d]
                      /\ \/ next'[r][d] = next[r][d]
                         \/ next'[r][d] = NoStream /\ closed'[r]
    OBVIOUS
  <2>1. CASE cur'[r] = cur[r] /\ next'[r] = next[r]
    BY <2>1
  <2>2. CASE /\ closed'[r] = TRUE /\ next'[r] = NoNext
             /\ cur'[r] = [e \in Dirs |-> [cur[r][e] EXCEPT !.off = PadHalf]]
    BY <1>1, <2>2 DEF NoNext, Stream
  <2> QED
    BY <2>1, <2>2 DEF Still
<1>3. \A r \in Roles : closed[r] => closed'[r]
  BY DEF Still
<1>4. Types'
  BY DEF Core, Types, TypeOK, Still
<1>5. Chain'
  <2>1. PICK o : Slides("client", o, Quiet)
    BY DEF Still, Roles
  <2>2. Known' \subseteq Known
    <3>1. /\ UNCHANGED sealed /\ chan' \in [Roles -> Seq(Message)]
          /\ chan \in [Roles -> Seq(Message)]
      BY DEF Core, Types, Still
    <3> QED
      BY <1>2, <2>1, <3>1, KnownSlides DEF Quiet
  <2> QED
    BY <2>2, ChainStays DEF Core, Still, Types, TypeOK, Roles
<1>6. ASSUME NEW r \in Roles
      PROVE  StreamsOf(r)' /\ SealedBy(r)' /\ CountedFor(r)' /\ ReceivedBy(r)'
  <2>1. StreamsOf(r) /\ SealedBy(r) /\ CountedFor(r) /\ ReceivedBy(r)
        /\ Out(r) \in Dirs /\ In(r) \in Dirs
    BY RolesFacts DEF Core
  <2>2. StreamsOf(r)'
    <3>1. UNCHANGED nextId
      BY DEF Still
    <3>2. \A d \in Dirs : closed'[r] => ~HasNext(r, d)'
      <4>1. CASE next'[r] = next[r] /\ closed'[r] = closed[r]
        BY <2>1, <4>1 DEF HasNext, StreamsOf
      <4>2. CASE next'[r] = NoNext
        BY <4>2 DEF HasNext, NoNext
      <4> QED
        BY <4>1, <4>2 DEF Still
    <3>3. \A d \in Dirs : HasNext(r, d)' => HasNext(r, d) /\ next'[r][d] = next[r][d]
      BY <1>2 DEF HasNext
    <3>4. ~closed'[r] => ~closed[r]
      BY <1>3
    <3> QED
      BY <1>2, <2>1, <3>1, <3>2, <3>3, <3>4 DEF StreamsOf, HasNext
  <2>3. SealedBy(r)'
    BY <1>2, <1>3, <2>1 DEF SealedBy, Still
  <2>4. CountedFor(r)'
    BY <2>1 DEF CountedFor, Still
  <2>5. ReceivedBy(r)'
    <3>1. PICK o : Slides(r, o, Quiet)
      BY DEF Still
    <3>2. UNCHANGED <<opened, recvSeq, sealed>> /\ chan' \in [Roles -> Seq(Message)]
      BY DEF Still
    <3>3. ~closed'[r] => ~closed[r] /\ cur'[r][In(r)] = cur[r][In(r)]
      BY <1>2, <1>3, <2>1
    <3> QED
      BY <2>1, <3>1, <3>2, <3>3, ReceivedSlides DEF Core, Quiet
  <2> QED
    BY <2>2, <2>3, <2>4, <2>5
<1>7. InSync'
  <2> SUFFICES ASSUME ~tampered', NEW r \in Roles, ~closed'[r]
               PROVE  OnTheirWay(r)'
    BY DEF InSync
  <2>1. OnTheirWay(r)
    BY <1>3 DEF Core, InSync, Still
  <2>2. UNCHANGED <<recvSeq, sendSeq>> /\ chan' \in [Roles -> Seq(Message)]
    BY DEF Still
  <2>3. CASE Slides(r, 0, Quiet)
    BY <2>1, <2>2, <2>3, OnTheirWaySlides DEF Core, Quiet
  <2>4. CASE Slides(r, 1, Quiet) /\ chan[r][1].kind # "data"
    BY <2>1, <2>2, <2>4, OnTheirWaySlides DEF Core, Quiet
  <2> QED
    BY <2>3, <2>4 DEF Still
<1>8. Negotiation'
  BY <1>2 DEF Core, Negotiation, AckedBeforeUse, Still, Roles, Dirs
<1>9. Outstanding'
  <2>1. PICK a : Slides("client", a, Quiet) /\ (a = 1 /\ chan["client"][1].kind = "data" => closed'["client"])
    BY DEF Still, Roles
  <2>2. PICK b : Slides("server", b, Quiet)
    BY DEF Still, Roles
  <2>3. UNCHANGED <<pending, nextId, tampered>> /\ chan' \in [Roles -> Seq(Message)]
    BY DEF Still
  <2>4. /\ cur'["client"]["c2s"].id = cur["client"]["c2s"].id
        /\ cur'["client"]["s2c"].id = cur["client"]["s2c"].id
        /\ closed["client"] => closed'["client"]
    BY <1>2, <1>3 DEF Roles, Dirs
  <2> QED
    BY <2>1, <2>2, <2>3, <2>4, OutstandingSlides DEF Core, Quiet
<1> QED
  BY <1>4, <1>5, <1>6, <1>7, <1>8, <1>9 DEF Core

\* A pump that wastes its material.
LEMMA WasteKeeps ==
    ASSUME Core, NEW r \in Roles, WasteAll(r),
           \/ chan' = chan
           \/ chan[r] # <<>> /\ Consume(r)
           \/ Post(r, [kind |-> "close"]),
           UNCHANGED <<ptr, sealed, opened, sum, tampered>>,
           failed' \in [Roles -> BOOLEAN]
    PROVE  Core'
<1> USE Sizes
<1>1. /\ cur \in [Roles -> [Dirs -> Stream]] /\ next \in [Roles -> [Dirs -> Stream]]
      /\ closed \in [Roles -> BOOLEAN] /\ ptr \in [Roles -> Nat]
      /\ chan \in [Roles -> Seq(Message)]
  BY DEF Core, Types, TypeOK
<1>2. /\ NoNext \in [Dirs -> Stream]
      /\ [d \in Dirs |-> [cur[r][d] EXCEPT !.off = PadHalf]] \in [Dirs -> Stream]
  <2>1. ASSUME NEW d \in Dirs
        PROVE  [cur[r][d] EXCEPT !.off = PadHalf] \in Stream
    <3>1. cur[r][d] \in Stream
      BY <1>1
    <3> QED
      BY <3>1 DEF Stream
  <2>2. NoStream \in Stream
    BY DEF Stream, NoStream
  <2> QED
    BY <2>1, <2>2 DEF NoNext
<1>3. /\ cur' \in [Roles -> [Dirs -> Stream]] /\ next' \in [Roles -> [Dirs -> Stream]]
      /\ closed' \in [Roles -> BOOLEAN] /\ closed'[r] = TRUE
  BY <1>1, <1>2 DEF WasteAll
<1>4. /\ cur'[r] = [d \in Dirs |-> [cur[r][d] EXCEPT !.off = PadHalf]]
      /\ next'[r] = NoNext
      /\ \A q \in Roles : q # r =>
           cur'[q] = cur[q] /\ next'[q] = next[q] /\ closed'[q] = closed[q]
  BY <1>1 DEF WasteAll
<1>5. /\ chan' \in [Roles -> Seq(Message)]
      /\ Slides(r, 0, Quiet) \/ Slides(r, 1, Quiet)
      /\ Slides(Peer(r), 0, Quiet)
  <2>1. CASE chan' = chan
    BY <1>1, <2>1, SlidesCases, RolesFacts
  <2>2. CASE chan[r] # <<>> /\ Consume(r)
    BY <1>1, <2>2, ConsumeFacts, SlidesCases, RolesFacts
  <2>3. CASE Post(r, [kind |-> "close"])
    <3>1. [kind |-> "close"] \in Message /\ [kind |-> "close"].kind \in Quiet
      BY DEF Message, Quiet
    <3>2. /\ chan' \in [Roles -> Seq(Message)] /\ Grown(Peer(r), [kind |-> "close"])
          /\ chan'[r] = chan[r]
      BY <1>1, <2>3, <3>1, PostFacts
    <3> QED
      BY <1>1, <3>1, <3>2, SlidesCases, RolesFacts
  <2> QED
    BY <2>1, <2>2, <2>3
<1>6. \A q \in Roles : \/ Slides(q, 0, Quiet)
                       \/ /\ Slides(q, 1, Quiet)
                          /\ chan[q][1].kind = "data" => closed'[q]
  BY SMTT(30), <1>3, <1>5, RolesFacts
<1>7. UNCHANGED <<sendSeq, recvSeq, nextId, acked, pending>>
  BY DEF WasteAll
<1>8. \A q \in Roles :
        \/ cur'[q] = cur[q] /\ next'[q] = next[q] /\ closed'[q] = closed[q]
        \/ /\ closed'[q] = TRUE /\ next'[q] = NoNext
           /\ cur'[q] = [d \in Dirs |-> [cur[q][d] EXCEPT !.off = PadHalf]]
  BY <1>3, <1>4
<1>9. ptr' \in [Roles -> Nat] /\ ptr'["server"] >= ptr["server"]
  BY <1>1 DEF Roles
<1>10. Still
  BY <1>3, <1>5, <1>6, <1>7, <1>8, <1>9, Zenon DEF Still
<1> QED
  BY <1>10, StillKeeps

\* Messages that change nothing, other connections of the server, no step.
LEMMA IdleKeeps ==
    ASSUME Core, UNCHANGED pumpVars, UNCHANGED <<sealed, opened, sum, failed, tampered>>,
           ptr' \in [Roles -> Nat], ptr'["server"] >= ptr["server"],
           \/ chan' = chan
           \/ \E r \in Roles : /\ chan[r] # <<>> /\ Consume(r)
                               /\ chan[r][1].kind = "data" => closed[r]
           \/ Post("client", [kind |-> "need"])
    PROVE  Core'
<1>1. /\ chan \in [Roles -> Seq(Message)] /\ cur \in [Roles -> [Dirs -> Stream]]
      /\ next \in [Roles -> [Dirs -> Stream]] /\ closed \in [Roles -> BOOLEAN]
      /\ failed \in [Roles -> BOOLEAN]
  BY DEF Core, Types, TypeOK
<1>2. UNCHANGED <<cur, next, sendSeq, recvSeq, nextId, acked, pending, closed>>
  BY DEF pumpVars
<1>3. /\ chan' \in [Roles -> Seq(Message)]
      /\ \A r \in Roles : \/ Slides(r, 0, Quiet)
                          \/ /\ Slides(r, 1, Quiet)
                             /\ chan[r][1].kind = "data" => closed'[r]
  <2>1. CASE chan' = chan
    BY <1>1, <2>1, SlidesCases
  <2>2. ASSUME NEW q \in Roles, chan[q] # <<>>, Consume(q), chan[q][1].kind = "data" => closed[q]
        PROVE  /\ chan' \in [Roles -> Seq(Message)]
               /\ \A r \in Roles : \/ Slides(r, 0, Quiet)
                                   \/ /\ Slides(r, 1, Quiet)
                                      /\ chan[r][1].kind = "data" => closed'[r]
    <3>1. /\ chan' \in [Roles -> Seq(Message)] /\ Slides(q, 1, Quiet)
          /\ Slides(Peer(q), 0, Quiet)
      BY <1>1, <2>2, ConsumeFacts, SlidesCases, RolesFacts
    <3>2. \A r \in Roles : r = q \/ r = Peer(q)
      BY RolesFacts
    <3> QED
      BY <1>2, <2>2, <3>1, <3>2
  <2>3. CASE Post("client", [kind |-> "need"])
    <3>1. /\ [kind |-> "need"] \in Message /\ [kind |-> "need"].kind \in Quiet
          /\ "client" \in Roles
      BY DEF Message, Quiet, Roles
    <3>2. /\ chan' \in [Roles -> Seq(Message)] /\ Grown(Peer("client"), [kind |-> "need"])
          /\ chan'["client"] = chan["client"]
      BY <1>1, <2>3, <3>1, PostFacts
    <3>3. Slides("client", 0, Quiet) /\ Slides(Peer("client"), 0, Quiet)
      BY <1>1, <3>1, <3>2, SlidesCases, RolesFacts
    <3>4. \A r \in Roles : r = "client" \/ r = Peer("client")
      BY <3>1, RolesFacts
    <3> QED
      BY <3>2, <3>3, <3>4
  <2> QED
    BY <2>1, <2>2, <2>3
<1>4. Still
  BY <1>1, <1>2, <1>3, Zenon DEF Still
<1> QED
  BY <1>4, StillKeeps

-----------------------------------------------------------------------------
(***************************************************************************)
(* The negotiation of bundles.                                             *)
(***************************************************************************)
NoRecord == {"need", "close", "offer", "ack"}

ControlStep ==
    /\ chan' \in [Roles -> Seq(Message)]
    /\ UNCHANGED <<cur, closed, sendSeq, recvSeq, sealed, opened, sum, failed, tampered>>
    /\ \A r \in Roles : \/ Slides(r, 0, NoRecord)
                        \/ Slides(r, 1, NoRecord) /\ chan[r][1].kind # "data"

\* It leaves the records alone.
LEMMA ControlRecords ==
    ASSUME Core, ControlStep
    PROVE  /\ \A r \in Roles : SealedBy(r)' /\ CountedFor(r)' /\ ReceivedBy(r)'
           /\ InSync'
<1>0. {"data", "garbage"} \cap NoRecord = {} /\ "data" \notin NoRecord
  BY DEF NoRecord
<1>1. UNCHANGED <<cur, closed, sendSeq, recvSeq, sealed, opened, sum, tampered>>
      /\ chan' \in [Roles -> Seq(Message)]
  BY DEF ControlStep
<1>2. ASSUME NEW r \in Roles
      PROVE  SealedBy(r)' /\ CountedFor(r)' /\ ReceivedBy(r)'
  <2>1. SealedBy(r) /\ CountedFor(r) /\ ReceivedBy(r)
    BY DEF Core
  <2>2. PICK o : Slides(r, o, NoRecord)
    BY DEF ControlStep
  <2>3. SealedBy(r)' /\ CountedFor(r)'
    BY <1>1, <2>1 DEF SealedBy, CountedFor
  <2> QED
    BY <1>0, <1>1, <2>1, <2>2, <2>3, ReceivedSlides DEF Core
<1>3. ASSUME ~tampered', NEW r \in Roles, ~closed'[r]
      PROVE  OnTheirWay(r)'
  <2>1. OnTheirWay(r)
    BY <1>1, <1>3 DEF Core, InSync
  <2>2. CASE Slides(r, 0, NoRecord)
    BY <1>0, <1>1, <2>1, <2>2, OnTheirWaySlides DEF Core
  <2>3. CASE Slides(r, 1, NoRecord) /\ chan[r][1].kind # "data"
    BY <1>0, <1>1, <2>1, <2>3, OnTheirWaySlides DEF Core
  <2> QED
    BY <2>2, <2>3 DEF ControlStep
<1> QED
  BY <1>2, <1>3 DEF InSync

\* The acknowledgement the server waits for.
LEMMA AckKeeps ==
    ASSUME Core, HeadIs("server", "ack"), Consume("server"),
           acked' = TRUE, pending' = 0,
           UNCHANGED <<cur, next, sendSeq, recvSeq, nextId, closed, failed>>,
           UNCHANGED <<ptr, sealed, opened, sum, tampered>>
    PROVE  Core'
<1>1. /\ chan \in [Roles -> Seq(Message)] /\ "server" \in Roles /\ "client" \in Roles
      /\ Peer("server") = "client" /\ chan["server"] # <<>>
      /\ chan["server"] \in Seq(Message)
  BY DEF Core, Types, Roles, Peer, HeadIs
<1>2. /\ chan' \in [Roles -> Seq(Message)] /\ Shifted("server")
      /\ chan'["client"] = chan["client"]
  BY <1>1, ConsumeFacts
<1>3. Len(chan["server"]) \in Nat /\ Len(chan["server"]) >= 1
      /\ chan["server"][1].kind = "ack"
  BY <1>1, TailFacts DEF HeadIs
<1>4. Is("server", 1, "ack") /\ 1 \in 1 .. Len(chan["server"])
  BY <1>1, <1>3 DEF Is
<1>5. ControlStep
  <2>1. Slides("server", 1, NoRecord) /\ Slides("client", 0, NoRecord)
    BY <1>1, <1>2, SlidesCases
  <2> QED
    BY <1>2, <1>3, <2>1 DEF ControlStep, Roles
<1>6. Types'
  BY <1>2 DEF Core, Types, TypeOK
<1>7. Chain'
  <2>1. Slides("client", 0, Quiet)
    BY <1>1, <1>2, SlidesCases
  <2>2. Known' \subseteq Known
    BY <1>1, <1>2, <2>1, KnownSlides DEF Quiet
  <2> QED
    BY SMTT(30), <2>2, ChainStays DEF Core, Types, TypeOK, Roles
<1>8. \A r \in Roles : StreamsOf(r)'
  BY DEF Core, StreamsOf, HasNext
<1>9. nextId["client"] = nextId["server"]
  BY <1>4 DEF Core, Outstanding
<1>10. Negotiation'
  BY <1>9 DEF Core, Negotiation, AckedBeforeUse
<1>11. Outstanding'
  <2>1. \A i \in 1 .. Len(chan'["client"]) : ~Is("client", i, "offer")'
    BY <1>2, <1>4 DEF Core, Outstanding, Is
  <2>2. ASSUME NEW i \in 1 .. Len(chan'["server"]), Is("server", i, "ack")'
        PROVE  FALSE
    <3>1. i + 1 \in 1 .. Len(chan["server"]) /\ chan["server"][i + 1].kind = "ack"
      BY <1>2, <1>3, <2>2 DEF Shifted, Is
    <3>2. Is("server", i + 1, "ack")
      BY <1>1, <3>1 DEF Is
    <3>3. i + 1 = 1
      BY <1>4, <3>1, <3>2 DEF Core, Outstanding
    <3> QED
      BY <3>3
  <2> QED
    BY <2>1, <2>2 DEF Outstanding
<1> QED
  BY <1>5, <1>6, <1>7, <1>8, <1>10, <1>11, ControlRecords DEF Core

\* The server has not gone ahead of the client's stream, and the client is in
\* the server's bundle or has a record of it on its way.
LEMMA ServerFollows ==
    ASSUME Core, ~closed["server"]
    PROVE  cur["server"]["c2s"].id <= cur["client"]["c2s"].id
<1>1. /\ "server" \in Roles /\ "client" \in Roles /\ Peer("server") = "client"
      /\ In("server") = "c2s" /\ Out("client") = "c2s" /\ "c2s" \in Dirs
  BY DEF Roles, Peer, In, Out, Dirs
<1>2. ReceivedBy("server") /\ SealedBy("client")
  BY <1>1 DEF Core
<1>3. /\ cur["server"]["c2s"] = StreamAt(sealed["client"], "c2s", recvSeq["server"])
      /\ recvSeq["server"] <= Len(sealed["client"])
  BY <1>1, <1>2 DEF ReceivedBy
<1>4. recvSeq["server"] \in Nat /\ cur["client"]["c2s"].id \in Nat
      /\ Len(sealed["client"]) \in Nat
  <2>1. cur["client"]["c2s"] \in Stream
    BY <1>1 DEF Core, Types, TypeOK
  <2> QED
    <3>1. recvSeq \in [Roles -> 0 .. MaxSeq] /\ sealed \in [Roles -> Seq(Data)]
      BY DEF Core, Types, TypeOK
    <3>2. recvSeq["server"] \in 0 .. MaxSeq /\ sealed["client"] \in Seq(Data)
      BY <1>1, <3>1
    <3>3. cur["client"]["c2s"].id \in Nat
      BY <2>1 DEF Stream
    <3> QED
      BY <3>2, <3>3, Sizes
<1>5. CASE recvSeq["server"] = 0
  BY <1>3, <1>4, <1>5 DEF StreamAt, Half
<1>6. CASE recvSeq["server"] # 0
  <2>1. recvSeq["server"] \in 1 .. Len(sealed["client"])
    BY <1>3, <1>4, <1>6
  <2>2. sealed["client"][recvSeq["server"]].bundle <= cur["client"]["c2s"].id
    BY <1>1, <1>2, <2>1 DEF SealedBy
  <2> QED
    BY <1>3, <1>6, <2>2 DEF StreamAt, After
<1> QED
  BY <1>5, <1>6

LEMMA ClientFollows ==
    ASSUME Core, ~closed["server"], ~closed["client"], ~tampered
    PROVE  \/ cur["client"]["s2c"].id = cur["server"]["s2c"].id
           \/ \E j \in 1 .. Len(chan["client"]) :
                /\ Is("client", j, "data")
                /\ chan["client"][j].bundle = cur["server"]["s2c"].id
<1>1. /\ "server" \in Roles /\ "client" \in Roles /\ Peer("client") = "server"
      /\ In("client") = "s2c" /\ Out("server") = "s2c" /\ "s2c" \in Dirs
  BY DEF Roles, Peer, In, Out, Dirs
<1>2. ReceivedBy("client") /\ SealedBy("server") /\ OnTheirWay("client")
  BY <1>1 DEF Core, InSync
<1>3. /\ cur["client"]["s2c"] = StreamAt(sealed["server"], "s2c", recvSeq["client"])
      /\ recvSeq["client"] <= Len(sealed["server"])
  BY <1>1, <1>2 DEF ReceivedBy
<1>4. /\ cur["server"]["s2c"] = StreamAt(sealed["server"], "s2c", sendSeq["server"])
      /\ sendSeq["server"] = Len(sealed["server"])
  BY <1>1, <1>2 DEF SealedBy
<1>5. recvSeq["client"] \in Nat /\ sendSeq["server"] \in Nat
  BY <1>1, Sizes DEF Core, Types, TypeOK
<1>6. CASE recvSeq["client"] = sendSeq["server"]
  BY <1>3, <1>4, <1>6
<1>7. CASE recvSeq["client"] < sendSeq["server"]
  <2> DEFINE k == sendSeq["server"]
  <2>1. k - 1 \in recvSeq["client"] .. k - 1 /\ k # 0 /\ k \in 1 .. Len(sealed["server"])
    BY <1>4, <1>5, <1>7
  <2>2. PICK j \in 1 .. Len(chan["client"]) :
          Is("client", j, "data") /\ chan["client"][j].seq = k - 1
    BY <1>1, <1>2, <2>1 DEF OnTheirWay
  <2>3. chan["client"][j].kind = "data" /\ chan["client"][j].tag
    BY <1>2, <2>2 DEF OnTheirWay, Is
  <2>4. chan["client"][j] = sealed["server"][k - 1 + 1]
    BY <1>1, <1>2, <2>2, <2>3 DEF ReceivedBy
  <2>5. sealed["server"][k].bundle = cur["server"]["s2c"].id /\ k - 1 + 1 = k
    BY <1>4, <1>5, <2>1 DEF StreamAt, After
  <2> QED
    BY <2>2, <2>4, <2>5
<1> QED
  BY <1>3, <1>4, <1>5, <1>6, <1>7

\* The server reserves a bundle and offers it.
LEMMA PrefetchKeeps ==
    ASSUME Core, ~closed["server"], ~NextHeld("server"), Prefetches, UNCHANGED ghosts,
           \/ Post("server", Offer)
           \/ HeadIs("server", "need") /\ Answer("server", Offer)
    PROVE  Core'
<1> DEFINE n == nextId["server"]
           p == ptr["server"]
<1> USE Sizes
<1>1. /\ "server" \in Roles /\ "client" \in Roles /\ Peer("server") = "client"
      /\ "c2s" \in Dirs /\ "s2c" \in Dirs
      /\ chan \in [Roles -> Seq(Message)] /\ nextId \in [Roles -> Nat]
      /\ ptr \in [Roles -> Nat] /\ next \in [Roles -> [Dirs -> Stream]]
      /\ \A r \in Roles, d \in Dirs : cur[r][d].id \in Nat
  <2>1. \A r \in Roles, d \in Dirs : cur[r][d] \in Stream
    BY DEF Core, Types, TypeOK
  <2> QED
    BY <2>1 DEF Core, Types, TypeOK, Roles, Peer, Dirs, Stream
<1>2. /\ next' = [next EXCEPT !["server"] = SplitBundle(n, p)]
      /\ nextId' = [nextId EXCEPT !["server"] = n + 1]
      /\ ptr' = [ptr EXCEPT !["server"] = p + 2 * PadHalf]
      /\ acked' = FALSE /\ pending' = n
      /\ UNCHANGED <<cur, sendSeq, recvSeq, closed, sealed, opened, sum, failed, tampered>>
  BY <1>1 DEF Prefetches, Reserves, Adopt, ghosts
<1>3. /\ n \in Nat /\ p \in Nat /\ n >= 1
      /\ \A d \in Dirs : cur["server"][d].id = n - 1
  BY <1>1 DEF Core, StreamsOf, NextHeld
<1>4. pending = 0 /\ nextId["client"] = n
  BY <1>1, <1>3 DEF Core, Negotiation, AckedBeforeUse
<1>5. /\ Offer \in Message /\ Offer.kind = "offer" /\ Offer.bundle = n /\ Offer.base = p
  BY <1>3 DEF Offer, Message
<1> HIDE DEF n, p
<1>6. /\ chan' \in [Roles -> Seq(Message)] /\ Grown("client", Offer)
      /\ \/ chan'["server"] = chan["server"]
         \/ Shifted("server") /\ chan["server"][1].kind = "need"
  <2>1. CASE Post("server", Offer)
    <3>1. /\ chan' \in [Roles -> Seq(Message)] /\ Grown(Peer("server"), Offer)
          /\ chan'["server"] = chan["server"]
      BY <1>1, <1>5, <2>1, PostFacts
    <3> QED
      BY <1>1, <3>1 DEF Grown
  <2>2. CASE HeadIs("server", "need") /\ Answer("server", Offer)
    <3>1. chan["server"] # <<>> /\ chan["server"] \in Seq(Message)
          /\ Head(chan["server"]).kind = "need"
      BY <1>1, <2>2 DEF HeadIs
    <3>2. chan["server"][1].kind = "need"
      BY <3>1, TailFacts
    <3> QED
      BY <1>1, <1>5, <2>2, <3>1, <3>2, AnswerFacts
  <2> QED
    BY <2>1, <2>2
<1>7. ControlStep
  <2>1. Slides("client", 0, NoRecord)
    BY <1>1, <1>5, <1>6, SlidesCases DEF NoRecord
  <2>2. \/ Slides("server", 0, NoRecord)
        \/ Slides("server", 1, NoRecord) /\ chan["server"][1].kind # "data"
    BY <1>1, <1>6, SlidesCases
  <2> QED
    BY <1>2, <1>6, <2>1, <2>2 DEF ControlStep, Roles
<1>8. SplitBundle(n, p) \in [Dirs -> Stream]
      /\ \A d \in Dirs : SplitBundle(n, p)[d] = Half(n, p, d)
  BY <1>3 DEF SplitBundle, Half, Stream
<1>9. /\ next'["server"] = SplitBundle(n, p) /\ next'["client"] = next["client"]
      /\ next' \in [Roles -> [Dirs -> Stream]]
  BY <1>1, <1>2, <1>8 DEF Roles
<1>10. nextId' \in [Roles -> Nat] /\ nextId'["server"] = n + 1
       /\ nextId'["client"] = n /\ ptr' \in [Roles -> Nat]
       /\ ptr'["server"] = p + 2 * PadHalf
  BY <1>1, <1>2, <1>3, <1>4
<1>11. Types'
  BY <1>2, <1>3, <1>6, <1>9, <1>10 DEF Core, Types, TypeOK
<1>12. Chain'
  <2>1. \A d \in Dirs : Bundle(d, Half(n, p, d).id, Half(n, p, d).base) = Bundle("c2s", n, p)
    BY <1>3 DEF Bundle, Start, Half, Dirs
  <2>2. ASSUME NEW x \in Known'
        PROVE  x \in Known \/ x = Bundle("c2s", n, p)
    <3>1. CASE \E r \in Roles, d \in Dirs : x = Bundle(d, cur'[r][d].id, cur'[r][d].base)
      BY <1>2, <3>1, KnownOnes
    <3>2. CASE \E r \in Roles, d \in Dirs :
                 HasNext(r, d)' /\ x = Bundle(d, next'[r][d].id, next'[r][d].base)
      <4>1. PICK r \in Roles, d \in Dirs :
              HasNext(r, d)' /\ x = Bundle(d, next'[r][d].id, next'[r][d].base)
        BY <3>2
      <4>2. CASE r = "server"
        BY <1>8, <1>9, <2>1, <4>1, <4>2
      <4>3. CASE r = "client"
        BY <1>9, <4>1, <4>3, KnownOnes DEF HasNext
      <4> QED
        BY <4>2, <4>3 DEF Roles
    <3>3. CASE \E r \in Roles : \E k \in DOMAIN sealed'[r] :
                 x = Bundle(Out(r), sealed'[r][k].bundle, sealed'[r][k].base)
      BY <1>2, <3>3, KnownOnes
    <3>4. CASE \E i : /\ Is("client", i, "offer")'
                      /\ x = Bundle("c2s", chan'["client"][i].bundle, chan'["client"][i].base)
      <4>1. PICK i : /\ Is("client", i, "offer")'
                     /\ x = Bundle("c2s", chan'["client"][i].bundle, chan'["client"][i].base)
        BY <3>4
      <4>2. i \in 1 .. Len(chan'["client"]) /\ Len(chan["client"]) \in Nat
        BY <1>1, <1>6, <4>1 DEF Is
      <4>3. CASE i \in 1 .. Len(chan["client"])
        <5>1. chan'["client"][i] = chan["client"][i] /\ i \in DOMAIN chan["client"]
          BY <1>1, <1>6, <4>3 DEF Grown
        <5> QED
          BY <4>1, <5>1, KnownOnes DEF Is
      <4>4. CASE i = Len(chan["client"]) + 1
        BY <1>5, <1>6, <4>1, <4>4 DEF Grown
      <4> QED
        BY <1>6, <4>2, <4>3, <4>4 DEF Grown
    <3> QED
      BY <3>1, <3>2, <3>3, <3>4, KnownIsPrimed
  <2>3. Known' \subseteq Known \cup {Bundle("c2s", nextId["server"], ptr["server"])}
    BY <2>2 DEF n, p
  <2> QED
    BY <1>10, <2>3, ChainGrows DEF Core, n, p
<1>13. StreamsOf("server")'
  <2>1. \A d \in Dirs : HasNext("server", d)' /\ next'["server"][d] = Half(n, p, d)
    BY <1>3, <1>8, <1>9 DEF HasNext, Half, NoStream
  <2>2. \A d \in Dirs : next'["server"][d].id = n /\ next'["server"][d].off = 0
    <3>1. \A d : Half(n, p, d).id = n /\ Half(n, p, d).off = 0
      BY DEF Half
    <3> QED
      BY <2>1, <3>1
  <2>3. /\ nextId'["server"] - 1 = n /\ nextId'["server"] - 2 = n - 1
        /\ nextId'["server"] >= 1 /\ ~closed'["server"]
        /\ \A d \in Dirs : cur'["server"][d].id = n - 1
    BY <1>2, <1>3, <1>10
  <2>4. \A d \in Dirs :
          /\ cur'["server"][d].id = nextId'["server"] - 2
          /\ next'["server"][d].id = nextId'["server"] - 1
    BY <2>2, <2>3
  <2> QED
    BY <2>1, <2>2, <2>3, <2>4, Zenon DEF StreamsOf
<1>14. StreamsOf("client")'
  <2>1. StreamsOf("client")
    BY <1>1 DEF Core
  <2> QED
    BY <1>2, <1>4, <1>9, <1>10, <2>1 DEF StreamsOf, HasNext
<1>15. Negotiation'
  BY <1>1, <1>2, <1>3, <1>10 DEF Core, Negotiation, AckedBeforeUse
<1>16. Outstanding'
  <2>1. /\ \A i \in 1 .. Len(chan["client"]) : ~Is("client", i, "offer")
        /\ \A i \in 1 .. Len(chan["server"]) : ~Is("server", i, "ack")
        /\ Len(chan["client"]) \in Nat /\ Len(chan["server"]) \in Nat
    BY <1>1, <1>4 DEF Core, Outstanding
  <2>2. \A i \in 1 .. Len(chan'["server"]) : ~Is("server", i, "ack")'
    <3>1. CASE chan'["server"] = chan["server"]
      BY <2>1, <3>1 DEF Is
    <3>2. CASE Shifted("server")
      <4> SUFFICES ASSUME NEW i \in 1 .. Len(chan'["server"]), Is("server", i, "ack")'
                   PROVE  FALSE
        OBVIOUS
      <4>1. i + 1 \in 1 .. Len(chan["server"]) /\ chan'["server"][i] = chan["server"][i + 1]
        BY <2>1, <3>2 DEF Shifted
      <4>2. i + 1 \in DOMAIN chan["server"]
        BY <1>1, <4>1
      <4> QED
        BY <2>1, <4>1, <4>2 DEF Is
    <3> QED
      BY <1>6, <3>1, <3>2
  <2>3. \A i \in 1 .. Len(chan'["client"]) :
          Is("client", i, "offer")' => i = Len(chan["client"]) + 1
    <3> SUFFICES ASSUME NEW i \in 1 .. Len(chan["client"]), Is("client", i, "offer")'
                 PROVE  FALSE
      BY <1>6, <2>1 DEF Grown
    <3>1. chan'["client"][i] = chan["client"][i] /\ i \in DOMAIN chan["client"]
      BY <1>1, <1>6 DEF Grown
    <3> QED
      BY <2>1, <3>1 DEF Is
  <2>4. chan'["client"][Len(chan["client"]) + 1].bundle = n
    BY <1>5, <1>6 DEF Grown
  <2>5. cur'["client"]["c2s"].id = n - 1
    <3>1. cur["server"]["c2s"].id <= cur["client"]["c2s"].id
      BY ServerFollows
    <3>2. cur["client"]["c2s"].id \in {nextId["client"] - 1, nextId["client"] - 2}
      BY <1>1 DEF Core, StreamsOf
    <3> QED
      BY SMTT(30), <1>1, <1>2, <1>3, <1>4, <3>1, <3>2
  <2>6. ASSUME ~tampered', ~closed'["client"]
        PROVE  \/ cur'["client"]["s2c"].id = n - 1
               \/ \E j \in 1 .. Len(chan["client"]) + 1 :
                    Is("client", j, "data")' /\ chan'["client"][j].bundle = n - 1
    <3>1. CASE cur["client"]["s2c"].id = cur["server"]["s2c"].id
      BY <1>1, <1>2, <1>3, <3>1
    <3>2. ASSUME NEW j \in 1 .. Len(chan["client"]), Is("client", j, "data"),
                 chan["client"][j].bundle = cur["server"]["s2c"].id
          PROVE  \E k \in 1 .. Len(chan["client"]) + 1 :
                    Is("client", k, "data")' /\ chan'["client"][k].bundle = n - 1
      <4>1. /\ j \in 1 .. Len(chan["client"]) + 1 /\ chan'["client"][j] = chan["client"][j]
            /\ j \in 1 .. Len(chan'["client"])
        BY <1>6, <2>1 DEF Grown
      <4>2. Is("client", j, "data")'
        BY <1>1, <1>6, <3>2, <4>1 DEF Is
      <4> QED
        BY <1>1, <1>3, <3>2, <4>1, <4>2
    <3> QED
      BY <1>2, <2>6, <3>1, <3>2, ClientFollows
  <2> QED
    BY <1>2, <1>3, <1>10, <2>2, <2>3, <2>4, <2>5, <2>6 DEF Outstanding
<1> QED
  <2>1. \A r \in Roles : StreamsOf(r)'
    BY <1>13, <1>14 DEF Roles
  <2> QED
    BY <1>7, <1>11, <1>12, <2>1, <1>15, <1>16, ControlRecords DEF Core

\* The client takes the offered bundle and acknowledges it.
LEMMA OfferKeeps ==
    ASSUME Core, OnOffer
    PROVE  Core'
<1> DEFINE m == chan["client"][1]
           n == nextId["client"]
           a == [kind |-> "ack", bundle |-> n]
<1> USE Sizes
<1>1. /\ "server" \in Roles /\ "client" \in Roles /\ Peer("client") = "server"
      /\ chan \in [Roles -> Seq(Message)] /\ nextId \in [Roles -> Nat]
      /\ ptr \in [Roles -> Nat] /\ next \in [Roles -> [Dirs -> Stream]]
      /\ n \in Nat /\ nextId["server"] \in Nat
  BY DEF Core, Types, TypeOK, Roles, Peer
<1>2. /\ chan["client"] # <<>> /\ chan["client"] \in Seq(Message)
      /\ Head(chan["client"]) = m
  BY <1>1, TailFacts DEF OnOffer, HeadIs
<1>3. /\ m.kind = "offer" /\ m.bundle = n /\ ~NextHeld("client") /\ ~closed["client"]
      /\ ptr["client"] = m.base
      /\ ptr' = [ptr EXCEPT !["client"] = ptr["client"] + 2 * PadHalf]
      /\ next' = [next EXCEPT !["client"] = SplitBundle(n, m.base)]
      /\ nextId' = [nextId EXCEPT !["client"] = n + 1]
      /\ Answer("client", a)
      /\ UNCHANGED <<cur, sendSeq, recvSeq, closed, acked, pending>>
      /\ UNCHANGED <<sealed, opened, sum, failed, tampered>>
  BY <1>1, <1>2 DEF OnOffer, HeadIs, Acceptable, Reserves, Adopt, ghosts
<1>4. a \in Message /\ a.kind = "ack" /\ a.bundle = n
  BY <1>1 DEF Message
<1> HIDE DEF a, n, m
<1>5. chan' \in [Roles -> Seq(Message)] /\ Shifted("client") /\ Grown("server", a)
  <2>1. chan' \in [Roles -> Seq(Message)] /\ Shifted("client") /\ Grown(Peer("client"), a)
    BY <1>1, <1>2, <1>3, <1>4, AnswerFacts
  <2> QED
    BY <1>1, <2>1 DEF Grown
<1>6. Is("client", 1, "offer") /\ 1 \in 1 .. Len(chan["client"])
      /\ Len(chan["client"]) \in Nat /\ Len(chan["server"]) \in Nat
  BY <1>1, <1>2, <1>3, TailFacts DEF Is, m
<1>7. n = pending /\ pending # 0 /\ nextId["server"] = n + 1 /\ ~acked
  <2>1. n = pending /\ pending # 0
    BY <1>6 DEF Core, Outstanding, n
  <2>2. pending = nextId["server"] - 1 /\ ~acked
    BY <2>1 DEF Core, Negotiation
  <2> QED
    BY <1>1, <2>1, <2>2
<1>8. /\ \A i \in 1 .. Len(chan["client"]) : Is("client", i, "offer") => i = 1
      /\ \A i \in 1 .. Len(chan["server"]) : ~Is("server", i, "ack")
  BY <1>6 DEF Core, Outstanding
<1>9. ControlStep
  <2>1. Slides("client", 1, NoRecord) /\ Slides("server", 0, NoRecord)
    BY <1>1, <1>4, <1>5, SlidesCases DEF NoRecord
  <2>2. chan["client"][1].kind # "data"
    BY <1>3 DEF m
  <2> QED
    BY <1>3, <1>5, <2>1, <2>2 DEF ControlStep, Roles
<1>10. m.base \in Nat /\ SplitBundle(n, m.base) \in [Dirs -> Stream]
       /\ \A d \in Dirs : SplitBundle(n, m.base)[d] = Half(n, m.base, d)
  <2>1. m.base \in Nat
    BY <1>1, <1>3
  <2> QED
    BY SMTT(30), <1>1, <2>1 DEF SplitBundle, Half, Stream
<1>11. /\ next'["client"] = SplitBundle(n, m.base) /\ next'["server"] = next["server"]
       /\ next' \in [Roles -> [Dirs -> Stream]]
       /\ nextId' \in [Roles -> Nat] /\ nextId'["client"] = n + 1
       /\ nextId'["server"] = nextId["server"]
       /\ ptr' \in [Roles -> Nat] /\ ptr'["server"] = ptr["server"]
  BY <1>1, <1>3, <1>10
<1>12. Types'
  BY <1>3, <1>5, <1>11 DEF Core, Types, TypeOK
<1>13. Chain'
  <2>1. \A d \in Dirs : Bundle(d, Half(n, m.base, d).id, Half(n, m.base, d).base)
                          = Bundle("c2s", n, m.base)
    BY <1>10 DEF Bundle, Start, Half, Dirs
  <2>2. Bundle("c2s", n, m.base) \in Known
    BY <1>3, <1>6, KnownOnes DEF m
  <2>3. ASSUME NEW x \in Known'
        PROVE  x \in Known
    <3>1. CASE \E r \in Roles, d \in Dirs : x = Bundle(d, cur'[r][d].id, cur'[r][d].base)
      BY <1>3, <3>1, KnownOnes
    <3>2. CASE \E r \in Roles, d \in Dirs :
                 HasNext(r, d)' /\ x = Bundle(d, next'[r][d].id, next'[r][d].base)
      <4>1. PICK r \in Roles, d \in Dirs :
              HasNext(r, d)' /\ x = Bundle(d, next'[r][d].id, next'[r][d].base)
        BY <3>2
      <4>2. CASE r = "client"
        BY <1>10, <1>11, <2>1, <2>2, <4>1, <4>2
      <4>3. CASE r = "server"
        BY <1>11, <4>1, <4>3, KnownOnes DEF HasNext
      <4> QED
        BY <4>2, <4>3 DEF Roles
    <3>3. CASE \E r \in Roles : \E k \in DOMAIN sealed'[r] :
                 x = Bundle(Out(r), sealed'[r][k].bundle, sealed'[r][k].base)
      BY <1>3, <3>3, KnownOnes
    <3>4. CASE \E i : /\ Is("client", i, "offer")'
                      /\ x = Bundle("c2s", chan'["client"][i].bundle, chan'["client"][i].base)
      <4>1. PICK i : /\ Is("client", i, "offer")'
                     /\ x = Bundle("c2s", chan'["client"][i].bundle, chan'["client"][i].base)
        BY <3>4
      <4>2. i \in 1 .. Len(chan'["client"])
        BY <1>1, <1>5, <4>1 DEF Is
      <4>3. i + 1 \in DOMAIN chan["client"] /\ chan'["client"][i] = chan["client"][i + 1]
        BY <1>1, <1>5, <1>6, <4>2 DEF Shifted
      <4> QED
        BY <4>1, <4>3, KnownOnes DEF Is
    <3> QED
      BY <3>1, <3>2, <3>3, <3>4, KnownIsPrimed
  <2>4. ptr'["server"] \in Nat /\ ptr'["server"] >= ptr["server"]
    BY <1>1, <1>11
  <2> QED
    BY <1>11, <2>3, <2>4, ChainStays DEF Core
<1>14. StreamsOf("client")'
  <2>1. \A d \in Dirs : HasNext("client", d)' /\ next'["client"][d] = Half(n, m.base, d)
    BY <1>1, <1>7, <1>10, <1>11 DEF HasNext, Half, NoStream
  <2>2. \A d \in Dirs : next'["client"][d].id = n /\ next'["client"][d].off = 0
    <3>1. \A d : Half(n, m.base, d).id = n /\ Half(n, m.base, d).off = 0
      BY DEF Half
    <3> QED
      BY <2>1, <3>1
  <2>3. \A d \in Dirs : cur["client"][d].id = n - 1
    BY <1>1, <1>3 DEF Core, StreamsOf, NextHeld, n
  <2>4. /\ nextId'["client"] - 1 = n /\ nextId'["client"] - 2 = n - 1
        /\ nextId'["client"] >= 1 /\ ~closed'["client"]
        /\ \A d \in Dirs : cur'["client"][d].id = n - 1
    BY <1>1, <1>3, <1>11, <2>3
  <2>5. \A d \in Dirs :
          /\ cur'["client"][d].id = nextId'["client"] - 2
          /\ next'["client"][d].id = nextId'["client"] - 1
    BY <2>2, <2>4
  <2> QED
    BY <2>1, <2>2, <2>4, <2>5, Zenon DEF StreamsOf
<1>15. StreamsOf("server")'
  <2>1. StreamsOf("server")
    BY <1>1 DEF Core
  <2> QED
    BY <1>3, <1>11, <2>1 DEF StreamsOf, HasNext
<1>16. Negotiation'
  <2>1. cur["server"]["s2c"].id < n /\ cur["server"]["s2c"].id \in Nat
    <3>1. cur["server"]["s2c"] \in Stream
      BY <1>1 DEF Core, Types, TypeOK, Dirs
    <3> QED
      BY <3>1 DEF Core, Negotiation, AckedBeforeUse, n, Stream
  <2> QED
    BY SMTT(30), <1>1, <1>3, <1>7, <1>11, <2>1 DEF Core, Negotiation, AckedBeforeUse
<1>17. Outstanding'
  <2>1. \A i \in 1 .. Len(chan'["client"]) : ~Is("client", i, "offer")'
    <3> SUFFICES ASSUME NEW i \in 1 .. Len(chan'["client"]), Is("client", i, "offer")'
                 PROVE  FALSE
      OBVIOUS
    <3>1. /\ i + 1 \in 1 .. Len(chan["client"]) /\ i + 1 # 1
          /\ chan'["client"][i] = chan["client"][i + 1]
      BY SMTT(30), <1>5, <1>6 DEF Shifted
    <3>2. i + 1 \in DOMAIN chan["client"]
      BY <1>1, <3>1
    <3> QED
      BY <1>8, <3>1, <3>2 DEF Is
  <2>2. \A i \in 1 .. Len(chan'["server"]) :
          Is("server", i, "ack")' => i = Len(chan["server"]) + 1
    <3> SUFFICES ASSUME NEW i \in 1 .. Len(chan["server"]), Is("server", i, "ack")'
                 PROVE  FALSE
      BY <1>5, <1>6 DEF Grown
    <3>1. chan'["server"][i] = chan["server"][i] /\ i \in DOMAIN chan["server"]
      BY <1>1, <1>5 DEF Grown
    <3> QED
      BY <1>8, <3>1 DEF Is
  <2>3. chan'["server"][Len(chan["server"]) + 1].bundle = n
    BY <1>4, <1>5 DEF Grown
  <2> QED
    BY <1>3, <1>7, <1>11, <2>1, <2>2, <2>3 DEF Outstanding
<1> QED
  <2>1. \A r \in Roles : StreamsOf(r)'
    BY <1>14, <1>15 DEF Roles
  <2> QED
    BY <1>9, <1>12, <1>13, <1>16, <1>17, <2>1, ControlRecords DEF Core

-----------------------------------------------------------------------------
(***************************************************************************)
(* Altered records.                                                        *)
(***************************************************************************)
LEMMA MessageFacts ==
    ASSUME NEW m \in Message, m.kind = "data"
    PROVE  m \in Data
  BY DEF Message, Data

LEMMA TamperKeeps ==
    ASSUME Core, NEW r \in Roles, Tamper(r)
    PROVE  Core'
<1>1. PICK i \in DOMAIN chan[r] :
        /\ chan[r][i].kind = "data"
        /\ \/ chan' = [chan EXCEPT ![r][i].tag = FALSE]
           \/ chan' = [chan EXCEPT ![r][i] = [kind |-> "garbage"]]
  BY DEF Tamper
<1>2. /\ chan \in [Roles -> Seq(Message)] /\ chan[r] \in Seq(Message)
      /\ i \in 1 .. Len(chan[r]) /\ Len(chan[r]) \in Nat
  BY <1>1 DEF Core, Types
<1>3. chan[r][i] \in Data
  BY <1>1, <1>2, MessageFacts
<1>4. PICK x : /\ x \in Message
               /\ \/ x.kind = "garbage"
                  \/ x.kind = "data" /\ x.seq = chan[r][i].seq /\ ~x.tag
               /\ chan' = [chan EXCEPT ![r] = [chan[r] EXCEPT ![i] = x]]
  <2>1. CASE chan' = [chan EXCEPT ![r][i].tag = FALSE]
    <3> DEFINE x == [chan[r][i] EXCEPT !.tag = FALSE]
    <3>1. x \in Data /\ x.kind = "data" /\ x.seq = chan[r][i].seq /\ x.tag = FALSE
      BY <1>1, <1>3 DEF Data
    <3>2. x \in Message
      BY <3>1 DEF Message
    <3>3. chan' = [chan EXCEPT ![r] = [chan[r] EXCEPT ![i] = x]]
      BY <1>2, <2>1
    <3> QED
      BY <3>1, <3>2, <3>3
  <2>2. CASE chan' = [chan EXCEPT ![r][i] = [kind |-> "garbage"]]
    <3> DEFINE x == [kind |-> "garbage"]
    <3>1. x \in Message /\ x.kind = "garbage"
      BY DEF Message
    <3>2. chan' = [chan EXCEPT ![r] = [chan[r] EXCEPT ![i] = x]]
      BY <1>2, <2>2
    <3> HIDE DEF x
    <3> QED
      BY <3>1, <3>2
  <2> QED
    BY <1>1, <2>1, <2>2
<1>5. /\ chan' \in [Roles -> Seq(Message)]
      /\ \A q \in Roles : /\ Len(chan'[q]) = Len(chan[q]) /\ DOMAIN chan'[q] = DOMAIN chan[q]
                          /\ \A j \in DOMAIN chan[q] : q # r \/ j # i => chan'[q][j] = chan[q][j]
      /\ chan'[r][i] = x
  <2>1. [chan[r] EXCEPT ![i] = x] \in Seq(Message)
        /\ Len([chan[r] EXCEPT ![i] = x]) = Len(chan[r])
    BY <1>2, <1>4
  <2> QED
    BY <1>2, <1>4, <2>1
<1>6. \A q \in Roles : \A j \in 1 .. Len(chan[q]) : j \in DOMAIN chan[q]
  BY <1>2
<1>7. /\ UNCHANGED <<cur, next, sendSeq, recvSeq, nextId, acked, pending, closed>>
      /\ UNCHANGED <<ptr, sealed, opened, sum, failed>> /\ tampered' = TRUE
  BY DEF Tamper, pumpVars
<1>8. \A q \in Roles : \A j \in DOMAIN chan'[q] : \A k \in {"offer", "ack"} :
        Is(q, j, k)' => Is(q, j, k) /\ chan'[q][j] = chan[q][j]
  BY <1>4, <1>5 DEF Is
<1>9. Types'
  BY <1>5, <1>7 DEF Core, Types, TypeOK
<1>10. Chain'
  <2>1. ASSUME NEW y \in Known'
        PROVE  y \in Known
    <3>1. CASE \E q \in Roles, d \in Dirs : y = Bundle(d, cur'[q][d].id, cur'[q][d].base)
      BY <1>7, <3>1, KnownOnes
    <3>2. CASE \E q \in Roles, d \in Dirs :
                 HasNext(q, d)' /\ y = Bundle(d, next'[q][d].id, next'[q][d].base)
      BY <1>7, <3>2, KnownOnes DEF HasNext
    <3>3. CASE \E q \in Roles : \E k \in DOMAIN sealed'[q] :
                 y = Bundle(Out(q), sealed'[q][k].bundle, sealed'[q][k].base)
      BY <1>7, <3>3, KnownOnes
    <3>4. CASE \E j : /\ Is("client", j, "offer")'
                      /\ y = Bundle("c2s", chan'["client"][j].bundle, chan'["client"][j].base)
      <4>1. PICK j : /\ Is("client", j, "offer")'
                     /\ y = Bundle("c2s", chan'["client"][j].bundle, chan'["client"][j].base)
        BY <3>4
      <4>2. Is("client", j, "offer") /\ chan'["client"][j] = chan["client"][j]
        BY <1>8, <4>1 DEF Is, Roles
      <4> QED
        BY <4>1, <4>2, KnownOnes
    <3> QED
      BY <3>1, <3>2, <3>3, <3>4, KnownIsPrimed
  <2> QED
    BY SMTT(30), <1>7, <2>1, ChainStays DEF Core, Types, TypeOK, Roles
<1>11. ASSUME NEW q \in Roles
       PROVE  StreamsOf(q)' /\ SealedBy(q)' /\ CountedFor(q)' /\ ReceivedBy(q)'
  <2>1. StreamsOf(q) /\ SealedBy(q) /\ CountedFor(q) /\ ReceivedBy(q)
    BY DEF Core
  <2>2. StreamsOf(q)'
    BY <1>7, <2>1 DEF StreamsOf, HasNext
  <2>3. SealedBy(q)' /\ CountedFor(q)'
    BY <1>7, <2>1 DEF SealedBy, CountedFor
  <2>4. ASSUME NEW j \in 1 .. Len(chan'[q]), chan'[q][j].kind = "data"
        PROVE  /\ chan'[q][j].seq < Len(sealed[Peer(q)])
               /\ chan'[q][j].tag => chan'[q][j] = sealed[Peer(q)][chan'[q][j].seq + 1]
    <3>1. j \in DOMAIN chan[q] /\ j \in 1 .. Len(chan[q])
      BY <1>5, <1>6
    <3>2. CASE q = r /\ j = i
      BY <1>1, <1>2, <1>4, <1>5, <2>1, <2>4, <3>2 DEF ReceivedBy
    <3>3. CASE q # r \/ j # i
      BY <1>5, <2>1, <2>4, <3>1, <3>3 DEF ReceivedBy
    <3> QED
      BY <3>2, <3>3
  <2>5. ReceivedBy(q)'
    BY <1>7, <2>1, <2>4 DEF ReceivedBy
  <2> QED
    BY <2>2, <2>3, <2>5
<1>12. InSync'
  BY <1>7 DEF InSync
<1>13. Negotiation'
  BY <1>7 DEF Core, Negotiation, AckedBeforeUse
<1>14. Outstanding'
  <2>1. \A j \in 1 .. Len(chan'["client"]) : Is("client", j, "offer")' =>
          /\ j \in 1 .. Len(chan["client"])
          /\ Is("client", j, "offer") /\ chan'["client"][j] = chan["client"][j]
    BY <1>5, <1>6, <1>8 DEF Roles
  <2>2. \A j \in 1 .. Len(chan'["server"]) : Is("server", j, "ack")' =>
          /\ j \in 1 .. Len(chan["server"])
          /\ Is("server", j, "ack") /\ chan'["server"][j] = chan["server"][j]
    BY <1>5, <1>6, <1>8 DEF Roles
  <2> QED
    BY <1>7, <2>1, <2>2 DEF Core, Outstanding
<1> QED
  BY <1>9, <1>10, <1>11, <1>12, <1>13, <1>14 DEF Core

-----------------------------------------------------------------------------
(***************************************************************************)
(* Sealing a record.                                                       *)
(***************************************************************************)
PadBytes(x) == x.base + x.off .. x.base + x.off + KeyLen + x.len - 1

LEMMA PadGrows ==
    ASSUME NEW q \in Seq(Data), NEW x \in Data
    PROVE  PadOf(Append(q, x)) = PadOf(q) \cup PadBytes(x)
<1>1. /\ Len(q) \in Nat /\ Append(q, x) \in Seq(Data) /\ Len(Append(q, x)) = Len(q) + 1
      /\ \A i \in 1 .. Len(q) : Append(q, x)[i] = q[i]
      /\ Append(q, x)[Len(q) + 1] = x
      /\ DOMAIN q = 1 .. Len(q) /\ DOMAIN Append(q, x) = 1 .. Len(q) + 1
  BY AppendFacts
<1>2. \A p, b : b \in PadOf(p) <=> \E i \in DOMAIN p : b \in PadBytes(p[i])
  BY DEF PadOf, PadBytes
<1>3. \A b : b \in PadOf(Append(q, x)) <=>
        \E i \in 1 .. Len(q) + 1 : b \in PadBytes(Append(q, x)[i])
  BY <1>1, <1>2
<1>4. \A b : b \in PadOf(q) <=> \E i \in 1 .. Len(q) : b \in PadBytes(q[i])
  BY <1>1, <1>2
<1>5. \A i : i \in 1 .. Len(q) + 1 <=> i \in 1 .. Len(q) \/ i = Len(q) + 1
  BY <1>1
<1>6. \A i \in 1 .. Len(q) : PadBytes(Append(q, x)[i]) = PadBytes(q[i])
  BY <1>1
<1>7. PadBytes(Append(q, x)[Len(q) + 1]) = PadBytes(x)
  BY <1>1
<1>8. ASSUME NEW b
      PROVE  b \in PadOf(Append(q, x)) <=> b \in PadOf(q) \/ b \in PadBytes(x)
  BY <1>3, <1>4, <1>5, <1>6, <1>7, Zenon
<1> QED
  BY <1>8

\* r seals l bytes on stream s.
Seals(r, s, l) ==
    /\ ~closed[r] /\ sendSeq[r] < MaxSeq
    /\ s \in Stream /\ l \in Nat /\ s.off + KeyLen + l <= PadHalf
    /\ \/ s = cur[r][Out(r)] /\ UNCHANGED <<next, acked>>
       \/ /\ s = next[r][Out(r)] /\ HasNext(r, Out(r)) /\ (r = "client" \/ acked)
          /\ next' = [next EXCEPT ![r][Out(r)] = NoStream]
          /\ \/ acked' = acked
             \/ r = "server" /\ acked' = FALSE
    /\ cur' = [cur EXCEPT ![r][Out(r)] = After(RecordOf(r, s, l))]
    /\ sendSeq' = [sendSeq EXCEPT ![r] = sendSeq[r] + 1]
    /\ sum' = [sum EXCEPT ![r] = sum[r] + KeyLen + l]
    /\ sealed' = [sealed EXCEPT ![r] = Append(sealed[r], RecordOf(r, s, l))]
    /\ Post(r, RecordOf(r, s, l))
    /\ UNCHANGED <<recvSeq, nextId, pending, closed, ptr, opened, failed, tampered>>

LEMMA SendSeals ==
    ASSUME Core, NEW r \in Roles, NEW n \in 1 .. MaxLen, Send(r, n)
    PROVE  \E s, l : Seals(r, s, l)
<1> USE Sizes
<1> DEFINE d == Out(r)
           switch == MaxRecordLen(cur[r][d]) = 0
           s == IF switch THEN next[r][d] ELSE cur[r][d]
           l == IF n < MaxRecordLen(s) THEN n ELSE MaxRecordLen(s)
<1>1. /\ d \in Dirs /\ cur[r][d] \in Stream /\ next[r][d] \in Stream /\ n \in Nat
      /\ sendSeq \in [Roles -> 0 .. MaxSeq] /\ sum \in [Roles -> Nat]
      /\ sealed \in [Roles -> Seq(Data)]
  BY RolesFacts DEF Core, Types, TypeOK
<1>2. /\ ~closed[r] /\ sendSeq[r] < MaxSeq
      /\ switch => NextReadyForSend(r)
      /\ IF switch THEN Switched(r, d, AfterRecord(s, l)) ELSE Stays(r, d, AfterRecord(s, l))
      /\ sendSeq' = [sendSeq EXCEPT ![r] = @ + 1]
      /\ sum' = [sum EXCEPT ![r] = @ + KeyLen + l]
      /\ sealed' = [sealed EXCEPT ![r] = Append(@, RecordOf(r, s, l))]
      /\ Post(r, RecordOf(r, s, l))
      /\ UNCHANGED <<recvSeq, nextId, pending, closed, ptr, opened, failed, tampered>>
  BY DEF Send
<1>3. /\ sendSeq' = [sendSeq EXCEPT ![r] = sendSeq[r] + 1]
      /\ sum' = [sum EXCEPT ![r] = sum[r] + KeyLen + l]
      /\ sealed' = [sealed EXCEPT ![r] = Append(sealed[r], RecordOf(r, s, l))]
  BY <1>1, <1>2
<1>4. s \in Stream /\ s.off \in 0 .. PadHalf /\ PadHalf - s.off > KeyLen
      /\ MaxRecordLen(s) = PadHalf - s.off - KeyLen
  <2>1. s \in Stream /\ s.off \in 0 .. PadHalf
    BY <1>1 DEF Stream
  <2>2. CASE switch
    <3>1. HasNext(r, d)
      BY <1>2, <2>2 DEF NextReadyForSend
    <3>2. s.off = 0
      BY <1>1, <2>2, <3>1 DEF Core, StreamsOf
    <3> QED
      BY <2>1, <3>2 DEF MaxRecordLen, Remaining
  <2>3. CASE ~switch
    BY <2>1, <2>3 DEF MaxRecordLen, Remaining
  <2> QED
    BY <2>1, <2>2, <2>3
<1> HIDE DEF s
<1>5. l \in Nat /\ s.off + KeyLen + l <= PadHalf
  <2>1. MaxRecordLen(s) \in Nat /\ s.off \in Nat
    BY <1>4
  <2> QED
    BY SMTT(30), <1>1, <1>4, <2>1
<1>6. AfterRecord(s, l) = After(RecordOf(r, s, l))
  BY <1>4, <1>5 DEF AfterRecord, After, RecordOf, EndOf, Stream
<1>7. cur' = [cur EXCEPT ![r][d] = After(RecordOf(r, s, l))]
  BY <1>2, <1>6 DEF Switched, Stays, s
<1>8. \/ s = cur[r][Out(r)] /\ UNCHANGED <<next, acked>>
      \/ /\ s = next[r][Out(r)] /\ HasNext(r, Out(r)) /\ (r = "client" \/ acked)
         /\ next' = [next EXCEPT ![r][Out(r)] = NoStream]
         /\ \/ acked' = acked
            \/ r = "server" /\ acked' = FALSE
  <2>1. CASE switch
    BY <1>2, <2>1 DEF Switched, NextReadyForSend, s
  <2>2. CASE ~switch
    BY <1>2, <2>2 DEF Stays, s
  <2> QED
    BY <2>1, <2>2
<1> HIDE DEF l
<1>9. Seals(r, s, l)
  BY <1>2, <1>3, <1>4, <1>5, <1>7, <1>8 DEF Seals
<1> QED
  BY <1>9

\* Every pad byte used before lies below the place of the next record.
LEMMA PadBelow ==
    ASSUME Core, NEW r \in Roles, ~closed[r], NEW s \in Stream,
           Bundle(Out(r), s.id, s.base) \in Known,
           \/ s = cur[r][Out(r)]
           \/ cur[r][Out(r)].id < s.id
    PROVE  \A b \in PadOf(sealed[r]) : b < s.base + s.off
<1> USE Sizes
<1> SUFFICES ASSUME NEW b \in PadOf(sealed[r])
             PROVE  b < s.base + s.off
  OBVIOUS
<1> DEFINE d == Out(r)
<1>1. /\ d \in Dirs /\ cur[r][d] \in Stream /\ sealed[r] \in Seq(Data) /\ SealedBy(r)
      /\ cur[r][d].id \in Nat /\ cur[r][d].off \in Nat
      /\ s.id \in Nat /\ s.base \in Nat /\ s.off \in Nat
  <2>1. d \in Dirs /\ cur[r][d] \in Stream /\ sealed[r] \in Seq(Data) /\ SealedBy(r)
    BY RolesFacts DEF Core, Types, TypeOK
  <2> QED
    BY <2>1 DEF Stream
<1>2. PICK k \in DOMAIN sealed[r] : b \in PadBytes(sealed[r][k])
  BY DEF PadOf, PadBytes
<1> DEFINE y == sealed[r][k]
<1>3. /\ k \in 1 .. Len(sealed[r]) /\ y \in Data
      /\ y.bundle \in Nat /\ y.base \in Nat /\ y.off \in Nat /\ y.len \in Nat
  <2>1. k \in 1 .. Len(sealed[r]) /\ y \in Data
    BY <1>1, <1>2
  <2> QED
    BY <2>1 DEF Data
<1>4. /\ EndOf(y) <= PadHalf /\ y.bundle <= cur[r][d].id
      /\ y.bundle = cur[r][d].id => EndOf(y) <= cur[r][d].off
  BY <1>1, <1>3 DEF SealedBy
<1>5. b \in Int /\ b < y.base + EndOf(y)
  <2>1. b \in y.base + y.off .. y.base + y.off + KeyLen + y.len - 1
    BY <1>2 DEF PadBytes
  <2> QED
    <3>1. EndOf(y) = y.off + KeyLen + y.len
      BY DEF EndOf
    <3> HIDE DEF y
    <3> QED
      BY SMTT(30), <1>3, <2>1, <3>1
<1>6. /\ Bundle(d, y.bundle, y.base) \in Known
      /\ Bundle(d, y.bundle, y.base).id = y.bundle
      /\ Bundle(d, y.bundle, y.base).start = Start(d, y.base)
      /\ Bundle(d, s.id, s.base).id = s.id
      /\ Bundle(d, s.id, s.base).start = Start(d, s.base)
  BY <1>2, KnownOnes DEF Bundle
<1>7. /\ y.bundle = s.id => Start(d, y.base) = Start(d, s.base)
      /\ y.bundle < s.id => Start(d, y.base) + 2 * PadHalf <= Start(d, s.base)
  BY <1>6 DEF Core, Chain
<1> HIDE DEF y, d
<1>8. EndOf(y) \in Nat
  BY <1>3 DEF EndOf
<1>9. CASE y.bundle = s.id
  <2>1. EndOf(y) <= s.off
    BY <1>1, <1>3, <1>4, <1>9 DEF d
  <2>2. y.base = s.base
    BY <1>1, <1>3, <1>7, <1>9 DEF Start
  <2> QED
    BY <1>1, <1>3, <1>5, <1>8, <2>1, <2>2
<1>10. CASE y.bundle < s.id
  <2>1. y.base + PadHalf <= s.base
    BY <1>1, <1>3, <1>7, <1>10 DEF Start
  <2> QED
    BY SMTT(30), <1>1, <1>3, <1>4, <1>5, <1>8, <2>1
<1> QED
  BY SMTT(30), <1>1, <1>3, <1>4, <1>9, <1>10 DEF d

\* What sealing does to the streams and the record.
SealEffect(r, s, l, x) ==
    /\ x \in Data /\ x.dir = Out(r) /\ x.bundle = s.id /\ x.base = s.base
    /\ x.seq = sendSeq[r] /\ x.off = s.off /\ x.len = l /\ x.tag = TRUE
    /\ EndOf(x) = s.off + KeyLen + l /\ After(x) \in Stream
    /\ cur' \in [Roles -> [Dirs -> Stream]] /\ cur'[r][Out(r)] = After(x)
    /\ \A q \in Roles, e \in Dirs : q # r \/ e # Out(r) => cur'[q][e] = cur[q][e]
    /\ next' \in [Roles -> [Dirs -> Stream]]
    /\ \A q \in Roles, e \in Dirs : q # r \/ e # Out(r) => next'[q][e] = next[q][e]
    /\ \/ /\ s = cur[r][Out(r)] /\ UNCHANGED <<next, acked>>
       \/ /\ s.id = cur[r][Out(r)].id + 1 /\ s.off = 0 /\ s.id = nextId[r] - 1
          /\ HasNext(r, Out(r)) /\ (r = "client" \/ acked)
          /\ next'[r][Out(r)] = NoStream
          /\ \/ acked' = acked
             \/ r = "server" /\ acked' = FALSE
    /\ Bundle(Out(r), s.id, s.base) \in Known
    /\ sealed' \in [Roles -> Seq(Data)] /\ Len(sealed[r]) = sendSeq[r]
    /\ Len(sealed'[r]) = Len(sealed[r]) + 1
    /\ \A k \in 1 .. Len(sealed[r]) : sealed'[r][k] = sealed[r][k]
    /\ sealed'[r][Len(sealed[r]) + 1] = x /\ sealed'[Peer(r)] = sealed[Peer(r)]
    /\ chan' \in [Roles -> Seq(Message)] /\ Grown(Peer(r), x) /\ chan'[r] = chan[r]
    /\ sendSeq' \in [Roles -> 0 .. MaxSeq]
    /\ sendSeq'[r] = sendSeq[r] + 1 /\ sendSeq'[Peer(r)] = sendSeq[Peer(r)]

LEMMA SealFacts ==
    ASSUME Core, NEW r \in Roles, NEW s, NEW l, Seals(r, s, l)
    PROVE  SealEffect(r, s, l, RecordOf(r, s, l))
<1> USE Sizes
<1> DEFINE d == Out(r)
           x == RecordOf(r, s, l)
<1>1. /\ d \in Dirs /\ cur \in [Roles -> [Dirs -> Stream]]
      /\ next \in [Roles -> [Dirs -> Stream]] /\ sendSeq \in [Roles -> 0 .. MaxSeq]
      /\ sealed \in [Roles -> Seq(Data)] /\ chan \in [Roles -> Seq(Message)]
      /\ Peer(r) \in Roles /\ Peer(r) # r
      /\ s \in Stream /\ l \in Nat /\ s.off + KeyLen + l <= PadHalf
  BY RolesFacts DEF Core, Types, TypeOK, Seals
<1>2. /\ s.id \in Nat /\ s.base \in Nat /\ s.off \in Nat
      /\ sendSeq[r] \in Nat /\ sendSeq[r] + 1 \in 0 .. MaxSeq
  <2>1. s.id \in Nat /\ s.base \in Nat /\ s.off \in Nat
    BY <1>1 DEF Stream
  <2>2. sendSeq[r] \in 0 .. MaxSeq /\ sendSeq[r] < MaxSeq
    BY <1>1 DEF Seals
  <2> QED
    BY <2>1, <2>2
<1>3. /\ x \in Data /\ x.kind = "data" /\ x.dir = d /\ x.bundle = s.id /\ x.base = s.base
      /\ x.seq = sendSeq[r] /\ x.off = s.off /\ x.len = l /\ x.tag = TRUE
      /\ EndOf(x) = s.off + KeyLen + l
  BY <1>1, <1>2 DEF Data, RecordOf, EndOf
<1>4. /\ cur' = [cur EXCEPT ![r][d] = After(x)]
      /\ sendSeq' = [sendSeq EXCEPT ![r] = sendSeq[r] + 1]
      /\ sealed' = [sealed EXCEPT ![r] = Append(sealed[r], x)]
      /\ Post(r, x)
      /\ \/ s = cur[r][d] /\ UNCHANGED <<next, acked>>
         \/ /\ s = next[r][d] /\ HasNext(r, d) /\ (r = "client" \/ acked)
            /\ next' = [next EXCEPT ![r][d] = NoStream]
            /\ \/ acked' = acked
               \/ r = "server" /\ acked' = FALSE
  BY DEF Seals
<1> HIDE DEF x
<1>5. After(x) \in Stream
  <2>1. After(x) = [id |-> s.id, base |-> s.base, off |-> s.off + KeyLen + l]
    BY <1>3 DEF After
  <2>2. s.off + KeyLen + l \in 0 .. PadHalf
    <3>1. s.off \in Nat /\ l \in Nat /\ s.off + KeyLen + l <= PadHalf
      BY <1>1, <1>2
    <3> QED
      BY <3>1
  <2> QED
    BY <1>2, <2>1, <2>2 DEF Stream
<1>6. /\ cur' \in [Roles -> [Dirs -> Stream]] /\ cur'[r][d] = After(x)
      /\ \A q \in Roles, e \in Dirs : q # r \/ e # d => cur'[q][e] = cur[q][e]
  <2>1. cur' = [cur EXCEPT ![r] = [cur[r] EXCEPT ![d] = After(x)]]
    BY <1>1, <1>4
  <2>2. [cur[r] EXCEPT ![d] = After(x)] \in [Dirs -> Stream]
    BY <1>1, <1>5
  <2> HIDE DEF d
  <2> QED
    BY <1>1, <2>1, <2>2
<1>7. /\ next' \in [Roles -> [Dirs -> Stream]]
      /\ \A q \in Roles, e \in Dirs : q # r \/ e # d => next'[q][e] = next[q][e]
  <2>1. CASE next' = next
    BY <1>1, <2>1
  <2>2. CASE next' = [next EXCEPT ![r][d] = NoStream]
    <3>1. next' = [next EXCEPT ![r] = [next[r] EXCEPT ![d] = NoStream]]
      BY <1>1, <2>2
    <3>2. [next[r] EXCEPT ![d] = NoStream] \in [Dirs -> Stream]
      BY <1>1 DEF NoStream, Stream
    <3> HIDE DEF d
    <3> QED
      BY <1>1, <3>1, <3>2
  <2> QED
    BY <1>4, <2>1, <2>2
<1>8. \/ /\ s = cur[r][d] /\ UNCHANGED <<next, acked>>
      \/ /\ s.id = cur[r][d].id + 1 /\ s.off = 0 /\ s.id = nextId[r] - 1
         /\ HasNext(r, d) /\ (r = "client" \/ acked)
         /\ next'[r][d] = NoStream
         /\ \/ acked' = acked
            \/ r = "server" /\ acked' = FALSE
  <2>1. CASE s = cur[r][d] /\ UNCHANGED <<next, acked>>
    BY <2>1
  <2>2. CASE /\ s = next[r][d] /\ HasNext(r, d) /\ (r = "client" \/ acked)
             /\ next' = [next EXCEPT ![r][d] = NoStream]
             /\ \/ acked' = acked
                \/ r = "server" /\ acked' = FALSE
    <3>1. /\ next[r][d].id = nextId[r] - 1 /\ next[r][d].off = 0
          /\ cur[r][d].id = nextId[r] - 2
      BY <1>1, <2>2 DEF Core, StreamsOf
    <3>2. nextId[r] \in Nat
      BY DEF Core, Types, TypeOK
    <3>3. next'[r][d] = NoStream
      BY <1>1, <2>2
    <3> QED
      BY <2>2, <3>1, <3>2, <3>3
  <2> QED
    BY <1>4, <2>1, <2>2
<1>9. Bundle(d, s.id, s.base) \in Known
  BY <1>1, <1>4, KnownOnes
<1>10. /\ sealed' \in [Roles -> Seq(Data)] /\ Len(sealed[r]) = sendSeq[r]
       /\ Len(sealed'[r]) = Len(sealed[r]) + 1
       /\ \A k \in 1 .. Len(sealed[r]) : sealed'[r][k] = sealed[r][k]
       /\ sealed'[r][Len(sealed[r]) + 1] = x /\ sealed'[Peer(r)] = sealed[Peer(r)]
  <2>1. sealed[r] \in Seq(Data) /\ Append(sealed[r], x) \in Seq(Data)
    BY <1>1, <1>3, AppendFacts
  <2>2. /\ sealed' \in [Roles -> Seq(Data)] /\ sealed'[r] = Append(sealed[r], x)
        /\ sealed'[Peer(r)] = sealed[Peer(r)]
    BY <1>1, <1>4, <2>1
  <2>3. Len(sealed[r]) = sendSeq[r]
    BY DEF Core, SealedBy
  <2> QED
    BY <1>3, <2>1, <2>2, <2>3, AppendFacts
<1>11. /\ chan' \in [Roles -> Seq(Message)] /\ Grown(Peer(r), x) /\ chan'[r] = chan[r]
  BY <1>1, <1>3, <1>4, PostFacts DEF Message
<1>12. /\ sendSeq' \in [Roles -> 0 .. MaxSeq]
       /\ sendSeq'[r] = sendSeq[r] + 1 /\ sendSeq'[Peer(r)] = sendSeq[Peer(r)]
  BY <1>1, <1>2, <1>4
<1>13. SealEffect(r, s, l, x)
  BY <1>3, <1>5, <1>6, <1>7, <1>8, <1>9, <1>10, <1>11, <1>12 DEF SealEffect
<1> QED
  BY <1>13 DEF x

\* A direction goes on in its bundle or takes up the next one.
LEMMA StreamsMove ==
    ASSUME Core, NEW r \in Roles, NEW d \in Dirs, ~closed[r], nextId' = nextId, closed' = closed,
           \A q \in Roles, e \in Dirs : q # r \/ e # d => cur'[q][e] = cur[q][e],
           \A q \in Roles, e \in Dirs : q # r \/ e # d => next'[q][e] = next[q][e],
           NEW s, cur'[r][d].id = s.id,
           (s = cur[r][d] /\ next' = next) \/ (s.id = nextId[r] - 1 /\ next'[r][d] = NoStream)
    PROVE  \A q \in Roles : StreamsOf(q)'
<1>1. ASSUME NEW p \in Roles, p # r
      PROVE  StreamsOf(p)'
  <2>1. StreamsOf(p)
    BY DEF Core
  <2>2. \A e \in Dirs : cur'[p][e] = cur[p][e] /\ next'[p][e] = next[p][e]
    BY <1>1
  <2> QED
    BY <2>1, <2>2 DEF StreamsOf, HasNext
<1>2. StreamsOf(r)'
  <2>1. StreamsOf(r)
    BY DEF Core
  <2>2. \A e \in Dirs : e # d => cur'[r][e] = cur[r][e] /\ next'[r][e] = next[r][e]
    OBVIOUS
  <2>3. CASE s = cur[r][d] /\ next' = next
    <3>1. \A e \in Dirs : cur'[r][e].id = cur[r][e].id
      BY <2>2, <2>3
    <3> QED
      BY <2>1, <2>3, <3>1 DEF StreamsOf, HasNext
  <2>4. CASE s.id = nextId[r] - 1 /\ next'[r][d] = NoStream
    <3>1. /\ ~closed'[r] /\ nextId'[r] >= 1 /\ cur'[r][d].id = nextId'[r] - 1
          /\ ~HasNext(r, d)'
      BY <2>1, <2>4 DEF StreamsOf, HasNext
    <3>2. \A e \in Dirs \ {d} :
            /\ cur'[r][e].id \in {nextId'[r] - 1, nextId'[r] - 2}
            /\ HasNext(r, e)' => /\ next'[r][e].id = nextId'[r] - 1
                                 /\ next'[r][e].off = 0
                                 /\ cur'[r][e].id = nextId'[r] - 2
            /\ ~closed'[r] /\ ~HasNext(r, e)' => cur'[r][e].id = nextId'[r] - 1
      BY <2>1, <2>2 DEF StreamsOf, HasNext
    <3> QED
      BY <3>1, <3>2 DEF StreamsOf
  <2> QED
    BY <2>3, <2>4
<1> QED
  BY <1>1, <1>2

LEMMA IntervalSize ==
    ASSUME NEW a \in Nat, NEW c \in Nat, c > 0
    PROVE  IsFiniteSet(a .. a + c - 1) /\ Cardinality(a .. a + c - 1) = c
<1>1. a \in Int /\ a + c - 1 \in Int /\ ~(a > a + c - 1) /\ a + c - 1 - a + 1 = c
  OBVIOUS
<1> QED
  BY <1>1, FS_Interval

LEMMA SealKeeps ==
    ASSUME Core, NEW r \in Roles, NEW s, NEW l, Seals(r, s, l)
    PROVE  Core'
<1> USE Sizes
<1> DEFINE d == Out(r)
           x == RecordOf(r, s, l)
           p == Peer(r)
<1>1. SealEffect(r, s, l, x)
  BY SealFacts
<1>2. /\ d \in Dirs /\ p \in Roles /\ p # r /\ Peer(p) = r /\ In(p) = d /\ In(r) # d
      /\ In(r) \in Dirs /\ Out(p) # d /\ Out(p) \in Dirs
      /\ \A q \in Roles : q = r \/ q = p
  BY RolesFacts
<1>3. /\ ~closed[r] /\ s \in Stream /\ l \in Nat /\ s.off + KeyLen + l <= PadHalf
      /\ sum' = [sum EXCEPT ![r] = sum[r] + KeyLen + l]
      /\ UNCHANGED <<recvSeq, nextId, pending, closed, ptr, opened, failed, tampered>>
  BY DEF Seals
<1>4. /\ cur[r][d] \in Stream /\ s.id \in Nat /\ s.base \in Nat /\ s.off \in Nat
      /\ sendSeq[r] \in Nat /\ sum \in [Roles -> Nat] /\ sum[r] \in Nat
      /\ nextId \in [Roles -> Nat] /\ chan \in [Roles -> Seq(Message)]
      /\ sealed \in [Roles -> Seq(Data)]
  <2>1. /\ cur[r][d] \in Stream /\ sendSeq[r] \in 0 .. MaxSeq /\ sum \in [Roles -> Nat]
        /\ nextId \in [Roles -> Nat] /\ chan \in [Roles -> Seq(Message)]
        /\ sealed \in [Roles -> Seq(Data)]
    BY ZenonT(40), <1>2 DEF Core, Types, TypeOK
  <2>2. s.id \in Nat /\ s.base \in Nat /\ s.off \in Nat
    BY <1>3 DEF Stream
  <2>3. sendSeq[r] \in Nat /\ sum[r] \in Nat
    BY <2>1
  <2> QED
    BY <2>1, <2>2, <2>3
<1>5. /\ cur[r][d].id \in Nat /\ cur[r][d].off \in Nat /\ nextId[r] \in Nat
      /\ sealed[r] \in Seq(Data) /\ Len(sealed[r]) \in Nat
      /\ recvSeq[p] \in Nat
  <2>1. recvSeq[p] \in 0 .. MaxSeq
    BY <1>2 DEF Core, Types, TypeOK
  <2> QED
    BY SMTT(30), <1>4, <2>1 DEF Stream
<1> HIDE DEF x, d, p
<1>6. /\ After(x).id = s.id /\ After(x).base = s.base /\ After(x).off = EndOf(x)
      /\ EndOf(x) = s.off + KeyLen + l /\ EndOf(x) <= PadHalf /\ x.kind = "data"
  BY <1>1, <1>3 DEF SealEffect, After, Data
<1>7. /\ cur'[r][d] = After(x)
      /\ \A q \in Roles, e \in Dirs : q # r \/ e # d => cur'[q][e] = cur[q][e]
      /\ \A q \in Roles, e \in Dirs : q # r \/ e # d => next'[q][e] = next[q][e]
  BY <1>1 DEF SealEffect, d
<1>8. \/ /\ s = cur[r][d] /\ UNCHANGED <<next, acked>>
      \/ /\ s.id = cur[r][d].id + 1 /\ s.off = 0 /\ s.id = nextId[r] - 1
         /\ HasNext(r, d) /\ (r = "client" \/ acked)
         /\ next'[r][d] = NoStream
         /\ \/ acked' = acked
            \/ r = "server" /\ acked' = FALSE
  BY <1>1 DEF SealEffect, d
<1>9. /\ sealed' \in [Roles -> Seq(Data)] /\ Len(sealed[r]) = sendSeq[r]
      /\ Len(sealed'[r]) = Len(sealed[r]) + 1
      /\ \A k \in 1 .. Len(sealed[r]) : sealed'[r][k] = sealed[r][k]
      /\ sealed'[r][Len(sealed[r]) + 1] = x /\ sealed'[p] = sealed[p]
      /\ sendSeq'[r] = sendSeq[r] + 1 /\ sendSeq'[p] = sendSeq[p]
  BY <1>1 DEF SealEffect, p
<1>10. chan' \in [Roles -> Seq(Message)] /\ Grown(p, x) /\ chan'[r] = chan[r]
  BY <1>1 DEF SealEffect, p
<1>11. Types'
  <2>1. sum' \in [Roles -> Nat]
    <3>1. sum[r] + KeyLen + l \in Nat
      BY SMTT(30), <1>3, <1>4
    <3> QED
      BY <1>3, <1>4, <3>1
  <2>2. acked' \in BOOLEAN
    BY <1>8 DEF Core, Types, TypeOK
  <2>3. /\ cur' \in [Roles -> [Dirs -> Stream]] /\ next' \in [Roles -> [Dirs -> Stream]]
        /\ sendSeq' \in [Roles -> 0 .. MaxSeq]
    BY <1>1 DEF SealEffect
  <2> QED
    BY <1>3, <1>9, <1>10, <2>1, <2>2, <2>3 DEF Core, Types, TypeOK
<1>12. Chain'
  <2>0. Bundle(d, s.id, s.base) \in Known
    BY <1>1 DEF SealEffect, d
  <2>1. ASSUME NEW y \in Known'
        PROVE  y \in Known
    <3>1. CASE \E q \in Roles, e \in Dirs : y = Bundle(e, cur'[q][e].id, cur'[q][e].base)
      <4>1. PICK q \in Roles, e \in Dirs : y = Bundle(e, cur'[q][e].id, cur'[q][e].base)
        BY <3>1
      <4>2. CASE q = r /\ e = d
        BY <1>6, <1>7, <2>0, <4>1, <4>2
      <4>3. CASE q # r \/ e # d
        BY <1>7, <4>1, <4>3, KnownOnes
      <4> QED
        BY <4>2, <4>3
    <3>2. CASE \E q \in Roles, e \in Dirs :
                 HasNext(q, e)' /\ y = Bundle(e, next'[q][e].id, next'[q][e].base)
      <4>1. PICK q \in Roles, e \in Dirs :
              HasNext(q, e)' /\ y = Bundle(e, next'[q][e].id, next'[q][e].base)
        BY <3>2
      <4>2. next'[q][e] = next[q][e] /\ HasNext(q, e)
        BY <1>7, <1>8, <4>1 DEF HasNext
      <4> QED
        BY <4>1, <4>2, KnownOnes
    <3>3. CASE \E q \in Roles : \E k \in DOMAIN sealed'[q] :
                 y = Bundle(Out(q), sealed'[q][k].bundle, sealed'[q][k].base)
      <4>0. PICK q \in Roles : \E k \in DOMAIN sealed'[q] :
              y = Bundle(Out(q), sealed'[q][k].bundle, sealed'[q][k].base)
        BY <3>3
      <4>1. PICK k \in DOMAIN sealed'[q] :
              y = Bundle(Out(q), sealed'[q][k].bundle, sealed'[q][k].base)
        BY <4>0
      <4>2. CASE q = p
        BY <1>9, <4>1, <4>2, KnownOnes
      <4>3. CASE q = r
        <5>1. k \in 1 .. Len(sealed[r]) + 1
          BY <1>9, <4>1, <4>3
        <5>2. CASE k \in 1 .. Len(sealed[r])
          <6>1. k \in DOMAIN sealed[r] /\ sealed'[r][k] = sealed[r][k]
            BY <1>5, <1>9, <5>2
          <6> QED
            BY <4>1, <4>3, <6>1, KnownOnes
        <5>3. CASE k = Len(sealed[r]) + 1
          <6>1. sealed'[r][k].bundle = s.id /\ sealed'[r][k].base = s.base
            BY <1>1, <1>9, <5>3 DEF SealEffect
          <6> QED
            BY <2>0, <4>1, <4>3, <6>1 DEF d
        <5> QED
          BY <1>5, <5>1, <5>2, <5>3
      <4> QED
        BY <1>2, <4>2, <4>3
    <3>4. CASE \E i : /\ Is("client", i, "offer")'
                      /\ y = Bundle("c2s", chan'["client"][i].bundle, chan'["client"][i].base)
      <4>1. PICK i : /\ Is("client", i, "offer")'
                     /\ y = Bundle("c2s", chan'["client"][i].bundle, chan'["client"][i].base)
        BY <3>4
      <4>2. CASE r = "client"
        <5>1. Is("client", i, "offer") /\ chan'["client"][i] = chan["client"][i]
          BY <1>10, <4>1, <4>2 DEF Is
        <5> QED
          BY <4>1, <5>1, KnownOnes
      <4>3. CASE p = "client"
        <5>1. i \in 1 .. Len(chan'["client"]) /\ Len(chan["client"]) \in Nat
          BY SMTT(30), <1>2, <1>4, <1>10, <4>1, <4>3 DEF Is
        <5>2. i # Len(chan["client"]) + 1
          BY <1>6, <1>10, <4>1, <4>3 DEF Is, Grown
        <5>3. i \in 1 .. Len(chan["client"]) /\ chan'["client"][i] = chan["client"][i]
          BY SMTT(30), <1>10, <4>3, <5>1, <5>2 DEF Grown
        <5>4. Is("client", i, "offer")
          BY <1>2, <1>4, <4>1, <4>3, <5>3 DEF Is
        <5> QED
          BY <4>1, <5>3, <5>4, KnownOnes
      <4> QED
        BY <1>2, <4>2, <4>3 DEF Roles
    <3> QED
      BY <3>1, <3>2, <3>3, <3>4, KnownIsPrimed
  <2>2. ptr["server"] \in Nat
    BY DEF Core, Types, TypeOK, Roles
  <2> QED
    BY <1>3, <2>1, <2>2, ChainStays DEF Core
<1>13. \A q \in Roles : StreamsOf(q)'
  <2>1. cur'[r][d].id = s.id
    BY <1>6, <1>7
  <2>2. (s = cur[r][d] /\ next' = next) \/ (s.id = nextId[r] - 1 /\ next'[r][d] = NoStream)
    BY <1>8
  <2>3. nextId' = nextId /\ closed' = closed
    BY <1>3
  <2> QED
    BY <1>2, <1>3, <1>7, <2>1, <2>2, <2>3, StreamsMove
<1>14. \A q \in Roles : SealedBy(q)'
  <2>1. SealedBy(p)'
    <3>1. SealedBy(p) /\ closed' = closed /\ cur'[p][Out(p)] = cur[p][Out(p)]
      BY <1>2, <1>3, <1>7 DEF Core
    <3> QED
      BY SMTT(30), <1>9, <3>1 DEF SealedBy
  <2>2. SealedBy(r) /\ cur[r][d] = StreamAt(sealed[r], d, Len(sealed[r]))
    BY <1>3, <1>9 DEF Core, SealedBy, d
  <2>3. \A k \in 0 .. Len(sealed[r]) : StreamAt(sealed'[r], d, k) = StreamAt(sealed[r], d, k)
    BY SMTT(30), <1>5, <1>9 DEF StreamAt
  <2>4. StreamAt(sealed'[r], d, Len(sealed[r]) + 1) = After(x)
    BY <1>5, <1>9 DEF StreamAt
  <2>5. ASSUME NEW k \in 1 .. Len(sealed'[r])
        PROVE  /\ sealed'[r][k].dir = d /\ sealed'[r][k].seq = k - 1 /\ sealed'[r][k].tag
               /\ EndOf(sealed'[r][k]) <= PadHalf
               /\ sealed'[r][k].bundle <= s.id
               /\ sealed'[r][k].bundle = s.id => EndOf(sealed'[r][k]) <= EndOf(x)
               /\ \/ /\ sealed'[r][k].bundle = StreamAt(sealed'[r], d, k - 1).id
                     /\ sealed'[r][k].off = StreamAt(sealed'[r], d, k - 1).off
                  \/ /\ sealed'[r][k].bundle = StreamAt(sealed'[r], d, k - 1).id + 1
                     /\ sealed'[r][k].off = 0
    <3>1. CASE k \in 1 .. Len(sealed[r])
      <4> DEFINE y == sealed[r][k]
      <4>1. /\ sealed'[r][k] = y /\ k - 1 \in 0 .. Len(sealed[r])
            /\ StreamAt(sealed'[r], d, k - 1) = StreamAt(sealed[r], d, k - 1)
        BY <1>5, <1>9, <2>3, <3>1
      <4>2. /\ y.dir = d /\ y.seq = k - 1 /\ y.tag /\ EndOf(y) <= PadHalf
            /\ y.bundle <= cur[r][d].id
            /\ y.bundle = cur[r][d].id => EndOf(y) <= cur[r][d].off
            /\ \/ /\ y.bundle = StreamAt(sealed[r], d, k - 1).id
                  /\ y.off = StreamAt(sealed[r], d, k - 1).off
               \/ /\ y.bundle = StreamAt(sealed[r], d, k - 1).id + 1
                  /\ y.off = 0
        BY <1>3, <2>2, <3>1 DEF SealedBy, d
      <4>3. y.bundle \in Nat /\ EndOf(y) \in Nat
        <5>1. y \in Data
          BY <1>5, <3>1
        <5> HIDE DEF y
        <5> QED
          BY <5>1 DEF Data, EndOf
      <4> HIDE DEF y
      <4>4. y.bundle <= s.id /\ (y.bundle = s.id => EndOf(y) <= EndOf(x))
        <5>1. CASE s = cur[r][d]
          <6>1. /\ s.off \in Nat /\ l \in Nat /\ EndOf(x) = s.off + KeyLen + l
                /\ y.bundle <= s.id /\ (y.bundle = s.id => EndOf(y) <= s.off)
            BY <1>3, <1>4, <1>6, <4>2, <5>1
          <6> QED
            BY <4>3, <6>1
        <5>2. CASE s.id = cur[r][d].id + 1
          <6>1. s.id \in Nat /\ cur[r][d].id \in Nat /\ y.bundle <= cur[r][d].id
            BY <1>4, <1>5, <4>2
          <6> QED
            BY <4>3, <5>2, <6>1
        <5> QED
          BY <1>8, <5>1, <5>2
      <4> QED
        BY <4>1, <4>2, <4>4
    <3>2. CASE k = Len(sealed[r]) + 1
      <4>1. /\ sealed'[r][k] = x /\ k - 1 = Len(sealed[r])
            /\ StreamAt(sealed'[r], d, k - 1) = cur[r][d]
        BY <1>5, <1>9, <2>2, <2>3, <3>2
      <4>2. /\ x.dir = d /\ x.seq = Len(sealed[r]) /\ x.tag /\ x.bundle = s.id /\ x.off = s.off
        BY <1>1, <1>9 DEF SealEffect, d
      <4>3. EndOf(x) <= EndOf(x) /\ s.id <= s.id
        BY SMTT(30), <1>3, <1>4, <1>6
      <4> QED
        BY <1>6, <1>8, <4>1, <4>2, <4>3
    <3> QED
      BY <1>5, <1>9, <3>1, <3>2
  <2>6. SealedBy(r)'
    <3>1. cur'[r][d].id = s.id /\ cur'[r][d].off = EndOf(x)
      BY <1>6, <1>7
    <3>2. Len(sealed'[r]) = sendSeq'[r]
      BY <1>9
    <3>3. cur'[r][d] = StreamAt(sealed'[r], d, sendSeq'[r])
      BY <1>7, <1>9, <2>4
    <3> QED
      BY <2>5, <3>1, <3>2, <3>3 DEF SealedBy, d
  <2> QED
    BY <1>2, <2>1, <2>6
<1>15. \A q \in Roles : CountedFor(q)'
  <2>1. CountedFor(p)'
    <3>1. sum'[p] = sum[p]
      BY <1>2, <1>3, <1>4
    <3> QED
      BY <1>2, <1>9, <3>1 DEF Core, CountedFor
  <2>2. CountedFor(r)'
    <3> DEFINE S == PadOf(sealed[r])
               T == PadBytes(x)
    <3>1. x \in Data /\ sealed'[r] = Append(sealed[r], x)
      BY <1>1, <1>4 DEF SealEffect, Seals, x
    <3>2. PadOf(sealed'[r]) = S \cup T
      BY <1>5, <3>1, PadGrows
    <3>3. T = s.base + s.off .. s.base + s.off + KeyLen + l - 1
      BY <1>1 DEF PadBytes, SealEffect
    <3>4. IsFiniteSet(T) /\ Cardinality(T) = KeyLen + l
      <4>1. s.base \in Nat /\ s.off \in Nat /\ l \in Nat
        BY <1>3, <1>4
      <4>2. /\ s.base + s.off \in Nat /\ KeyLen + l \in Nat /\ KeyLen + l > 0
            /\ s.base + s.off + KeyLen + l - 1 = s.base + s.off + (KeyLen + l) - 1
        BY <4>1
      <4> QED
        BY <3>3, <4>2, IntervalSize
    <3>5. S \cap T = {}
      <4>1. \A b \in S : b < s.base + s.off
        <5>1. s = cur[r][Out(r)] \/ cur[r][Out(r)].id < s.id
          BY <1>4, <1>5, <1>8 DEF d
        <5>2. Bundle(Out(r), s.id, s.base) \in Known
          BY <1>1 DEF SealEffect
        <5> QED
          BY <1>3, <5>1, <5>2, PadBelow
      <4>2. \A b \in T : b \in Int /\ ~(b < s.base + s.off)
        BY SMTT(30), <1>3, <1>4, <3>3
      <4> QED
        BY <4>1, <4>2
    <3>6. IsFiniteSet(S) /\ Cardinality(S) = sum[r]
      BY DEF Core, CountedFor
    <3> HIDE DEF S, T
    <3>7. IsFiniteSet(S \cup T) /\ Cardinality(S \cup T) = sum[r] + (KeyLen + l) - 0
      <4>1. Cardinality({}) = 0
        BY FS_EmptySet
      <4> QED
        BY <3>4, <3>5, <3>6, <4>1, FS_Union
    <3>8. sum'[r] = sum[r] + (KeyLen + l) - 0
      BY <1>3, <1>4
    <3> QED
      BY <3>2, <3>7, <3>8 DEF CountedFor
  <2> QED
    BY <1>2, <2>1, <2>2
<1>16. \A q \in Roles : ReceivedBy(q)'
  <2>1. ReceivedBy(r)'
    <3>1. ReceivedBy(r) /\ cur'[r][In(r)] = cur[r][In(r)]
      BY <1>2, <1>7 DEF Core
    <3> QED
      BY <1>3, <1>9, <1>10, <3>1 DEF ReceivedBy, p
  <2>2. ReceivedBy(p)'
    <3>1. ReceivedBy(p) /\ cur'[p][In(p)] = cur[p][In(p)]
      BY <1>2, <1>7 DEF Core
    <3>2. recvSeq[p] <= Len(sealed[r]) /\ Len(sealed'[r]) = Len(sealed[r]) + 1
      BY <1>2, <1>9, <3>1 DEF ReceivedBy
    <3>3. \A k \in 1 .. recvSeq[p] : opened[p][k] = sealed'[r][k]
      <4>1. \A k \in 1 .. recvSeq[p] : k \in 1 .. Len(sealed[r]) /\ opened[p][k] = sealed[r][k]
        BY <1>2, <1>5, <3>1, <3>2 DEF ReceivedBy
      <4> QED
        BY <1>9, <4>1
    <3>4. ASSUME NEW i \in 1 .. Len(chan'[p]), chan'[p][i].kind = "data"
          PROVE  /\ chan'[p][i].seq < Len(sealed'[r])
                 /\ chan'[p][i].tag => chan'[p][i] = sealed'[r][chan'[p][i].seq + 1]
      <4>1. Len(chan[p]) \in Nat
        BY <1>2, <1>4
      <4>2. CASE i \in 1 .. Len(chan[p])
        <5>1. chan'[p][i] = chan[p][i] /\ chan[p][i].kind = "data"
          BY <1>10, <3>4, <4>2 DEF Grown
        <5>2. /\ chan[p][i].seq < Len(sealed[r])
              /\ chan[p][i].tag => chan[p][i] = sealed[r][chan[p][i].seq + 1]
          BY <1>2, <3>1, <4>2, <5>1 DEF ReceivedBy
        <5>3. chan[p][i].seq \in Nat
          <6>1. chan[p][i] \in Data
            BY <1>2, <1>4, <4>2, <5>1, MessageFacts
          <6> QED
            BY <6>1 DEF Data
        <5>4. chan[p][i].seq + 1 \in 1 .. Len(sealed[r])
          BY <1>5, <5>2, <5>3
        <5>5. chan[p][i].seq < Len(sealed'[r])
          BY <1>5, <3>2, <5>2, <5>3
        <5>6. sealed'[r][chan[p][i].seq + 1] = sealed[r][chan[p][i].seq + 1]
          BY <1>9, <5>4
        <5> QED
          BY <5>1, <5>2, <5>5, <5>6
      <4>3. CASE i = Len(chan[p]) + 1
        <5>1. chan'[p][i] = x /\ x.seq = Len(sealed[r])
          BY <1>1, <1>9, <1>10, <4>3 DEF Grown, SealEffect
        <5> QED
          BY <1>5, <1>9, <5>1
      <4> QED
        BY <1>10, <4>1, <4>2, <4>3 DEF Grown
    <3>5. StreamAt(sealed'[r], In(p), recvSeq[p]) = StreamAt(sealed[r], In(p), recvSeq[p])
      BY SMTT(30), <1>5, <1>9, <3>2 DEF StreamAt
    <3>6. /\ Peer(p) = r /\ recvSeq' = recvSeq /\ opened' = opened /\ closed' = closed
          /\ recvSeq[p] <= Len(sealed'[r])
      BY <1>2, <1>3, <1>5, <3>2
    <3> QED
      BY <3>1, <3>3, <3>4, <3>5, <3>6 DEF ReceivedBy
  <2> QED
    BY <1>2, <2>1, <2>2
<1>17. InSync'
  <2>1. ASSUME OnTheirWay(r)
        PROVE  OnTheirWay(r)'
    <3>1. recvSeq' = recvSeq /\ sendSeq'[Peer(r)] = sendSeq[Peer(r)] /\ chan'[r] = chan[r]
      BY <1>3, <1>9, <1>10 DEF p
    <3> QED
      BY <2>1, <3>1 DEF OnTheirWay, Is
  <2>2. ASSUME OnTheirWay(p)
        PROVE  OnTheirWay(p)'
    <3>1. /\ Peer(p) = r /\ recvSeq'[p] = recvSeq[p] /\ recvSeq[p] <= sendSeq[r]
          /\ sendSeq'[r] = sendSeq[r] + 1 /\ Len(chan[p]) \in Nat /\ recvSeq[p] \in Nat
          /\ Len(chan'[p]) = Len(chan[p]) + 1 /\ DOMAIN chan'[p] = 1 .. Len(chan[p]) + 1
          /\ DOMAIN chan[p] = 1 .. Len(chan[p])
      <4>1. recvSeq[p] <= Len(sealed[r])
        BY <1>2 DEF Core, ReceivedBy
      <4>2. Len(chan'[p]) = Len(chan[p]) + 1
        BY <1>10 DEF Grown
      <4> QED
        BY <1>2, <1>3, <1>4, <1>5, <1>9, <1>10, <4>1, <4>2
    <3>2. /\ \A i \in 1 .. Len(chan[p]) : chan'[p][i] = chan[p][i]
          /\ chan'[p][Len(chan[p]) + 1] = x
          /\ x.kind = "data" /\ x.tag /\ x.seq = sendSeq[r]
      BY <1>1, <1>6, <1>10 DEF Grown, SealEffect
    <3>3. \A i \in 1 .. Len(chan'[p]) : i \in 1 .. Len(chan[p]) \/ i = Len(chan[p]) + 1
      BY <3>1
    <3>4. \A i \in 1 .. Len(chan'[p]) :
            /\ chan'[p][i].kind # "garbage"
            /\ chan'[p][i].kind = "data" => chan'[p][i].tag /\ chan'[p][i].seq >= recvSeq[p]
      BY <1>4, <2>2, <3>1, <3>2, <3>3 DEF OnTheirWay
    <3>5. ASSUME NEW n \in recvSeq[p] .. sendSeq'[r] - 1
          PROVE  \E i \in 1 .. Len(chan'[p]) : Is(p, i, "data")' /\ chan'[p][i].seq = n
      <4>1. CASE n = sendSeq[r]
        <5>1. Len(chan[p]) + 1 \in 1 .. Len(chan'[p])
          BY <3>1
        <5> QED
          BY <3>1, <3>2, <4>1, <5>1 DEF Is
      <4>2. CASE n \in recvSeq[p] .. sendSeq[r] - 1
        <5>1. PICK i \in 1 .. Len(chan[p]) : Is(p, i, "data") /\ chan[p][i].seq = n
          BY <2>2, <3>1, <4>2 DEF OnTheirWay
        <5>2. i \in 1 .. Len(chan'[p]) /\ chan'[p][i] = chan[p][i]
          BY <3>1, <3>2
        <5> QED
          BY <3>1, <5>1, <5>2 DEF Is
      <4> QED
        BY <1>4, <3>1, <4>1, <4>2
    <3>6. ASSUME NEW i \in 1 .. Len(chan'[p]), NEW j \in 1 .. Len(chan'[p]),
                 Is(p, i, "data")', Is(p, j, "data")', i < j
          PROVE  chan'[p][i].seq < chan'[p][j].seq
      <4>1. i \in 1 .. Len(chan[p]) /\ chan'[p][i] = chan[p][i] /\ Is(p, i, "data")
        BY <3>1, <3>2, <3>6 DEF Is
      <4>2. CASE j \in 1 .. Len(chan[p])
        BY <2>2, <3>1, <3>2, <3>6, <4>1, <4>2 DEF OnTheirWay, Is
      <4>3. CASE j = Len(chan[p]) + 1
        <5>1. chan[p][i].seq < Len(sealed[Peer(p)])
          BY <1>2, <4>1 DEF Core, ReceivedBy, Is
        <5> QED
          BY <1>9, <3>1, <3>2, <4>1, <4>3, <5>1
      <4> QED
        BY <3>3, <4>2, <4>3
    <3> QED
      BY <3>1, <3>4, <3>5, <3>6 DEF OnTheirWay
  <2> QED
    BY <1>2, <1>3, <2>1, <2>2 DEF Core, InSync
<1>18. Negotiation'
  <2>1. CASE r = "client"
    <3>1. /\ cur'["server"]["s2c"] = cur["server"]["s2c"] /\ acked' = acked
          /\ nextId' = nextId /\ pending' = pending
      BY <1>2, <1>3, <1>7, <1>8, <2>1 DEF Roles, Dirs
    <3> QED
      BY <3>1 DEF Core, Negotiation, AckedBeforeUse
  <2>2. CASE r = "server"
    <3>1. d = "s2c" /\ cur'["server"]["s2c"].id = s.id
      BY <1>6, <1>7, <2>2 DEF d, Out
    <3>2. CASE s = cur[r][d] /\ UNCHANGED <<next, acked>>
      BY <1>3, <2>2, <3>1, <3>2 DEF Core, Negotiation, AckedBeforeUse
    <3>3. CASE s.id = nextId[r] - 1 /\ acked
      <4>1. pending = 0 /\ nextId["client"] = nextId["server"]
        BY <3>3 DEF Core, Negotiation
      <4>2. s.id < nextId["client"]
        BY <1>5, <2>2, <3>3, <4>1
      <4> QED
        BY <1>3, <3>1, <4>1, <4>2 DEF Negotiation, AckedBeforeUse
    <3> QED
      BY <1>8, <2>2, <3>2, <3>3
  <2> QED
    BY <2>1, <2>2 DEF Roles
<1>19. Outstanding'
  <2> DEFINE K == {"need", "close", "data"}
  <2>1. {"offer", "ack"} \cap K = {} /\ x.kind \in K
    BY <1>6
  <2> HIDE DEF K
  <2>2. Slides(r, 0, K) /\ Slides(p, 0, K)
    BY <1>2, <1>4, <1>10, <2>1, SlidesCases
  <2>3. Slides("client", 0, K) /\ Slides("server", 0, K)
    BY <1>2, <2>2 DEF Roles
  <2>4. UNCHANGED <<pending, nextId, tampered, closed>>
    BY <1>3
  <2>5. ASSUME NEW i \in 1 .. Len(chan["client"]), Is("client", i, "offer")
        PROVE  /\ cur'["client"]["c2s"].id = cur["client"]["c2s"].id
               /\ cur'["client"]["s2c"].id = cur["client"]["s2c"].id
    <3>1. CASE r = "server"
      BY <1>2, <1>7, <3>1 DEF Roles, Dirs
    <3>2. CASE r = "client"
      <4>1. d = "c2s" /\ "s2c" \in Dirs /\ "c2s" \in Dirs
        BY <3>2 DEF d, Out, Dirs
      <4>2. cur["client"]["c2s"].id = nextId["client"] - 1
        BY <2>5 DEF Core, Outstanding
      <4>3. ~HasNext("client", "c2s")
        BY <1>4, <3>2, <4>1, <4>2 DEF Core, StreamsOf
      <4>4. s = cur[r][d]
        BY <1>8, <3>2, <4>1, <4>3
      <4> QED
        BY <1>6, <1>7, <3>2, <4>1, <4>4
    <3> QED
      BY <3>1, <3>2 DEF Roles
  <2> QED
    BY <1>10, <2>1, <2>3, <2>4, <2>5, OutstandingSlides DEF Core
<1> QED
  BY <1>11, <1>12, <1>13, <1>14, <1>15, <1>16, <1>17, <1>18, <1>19 DEF Core

-----------------------------------------------------------------------------
(***************************************************************************)
(* Opening a record.                                                       *)
(***************************************************************************)

\* r takes record m from stream s.
Accepts(r, s, m) ==
    /\ ~closed[r] /\ chan[r] # <<>> /\ m = chan[r][1] /\ m \in Data /\ s \in Stream
    /\ m.bundle = s.id /\ m.base = s.base /\ m.off = s.off /\ EndOf(m) <= PadHalf
    /\ m.seq = recvSeq[r] /\ m.tag /\ m.kind = "data"
    /\ Bundle(In(r), s.id, s.base) \in Known
    /\ cur' \in [Roles -> [Dirs -> Stream]] /\ cur'[r][In(r)] = After(m)
    /\ \A q \in Roles, e \in Dirs : q # r \/ e # In(r) => cur'[q][e] = cur[q][e]
    /\ next' \in [Roles -> [Dirs -> Stream]]
    /\ \A q \in Roles, e \in Dirs : q # r \/ e # In(r) => next'[q][e] = next[q][e]
    /\ \/ s = cur[r][In(r)] /\ next' = next
       \/ /\ s.id = nextId[r] - 1 /\ next'[r][In(r)] = NoStream /\ HasNext(r, In(r))
    /\ \/ acked' = acked
       \/ r = "server" /\ acked' = FALSE
    /\ recvSeq' = [recvSeq EXCEPT ![r] = recvSeq[r] + 1]
    /\ opened' = [opened EXCEPT ![r] = Append(opened[r], m)]
    /\ Consume(r)
    /\ UNCHANGED <<sendSeq, nextId, pending, closed, ptr, sealed, sum, failed, tampered>>

LEMMA ReceiveAccepts ==
    ASSUME Core, NEW r \in Roles, Receive(r)
    PROVE  \E s, m : Accepts(r, s, m)
<1> USE Sizes
<1> DEFINE m == chan[r][1]
           d == In(r)
           s == RecvStream(r, m)
<1>1. /\ d \in Dirs /\ cur \in [Roles -> [Dirs -> Stream]]
      /\ next \in [Roles -> [Dirs -> Stream]] /\ opened \in [Roles -> Seq(Data)]
      /\ recvSeq \in [Roles -> 0 .. MaxSeq]
      /\ cur[r][d] \in Stream /\ next[r][d] \in Stream
      /\ chan[r] \in Seq(Message) /\ chan[r] # <<>>
  <2>1. HeadIs(r, "data")
    BY DEF Receive
  <2>2. chan[r] # <<>>
    BY <2>1 DEF HeadIs
  <2> QED
    BY SMTT(30), <2>2, RolesFacts DEF Core, Types, TypeOK
<1>2. Head(chan[r]) = m /\ m \in Message
  BY <1>1, TailFacts
<1>3. /\ m.kind = "data" /\ ~closed[r] /\ Opens(r, m, s)
      /\ IF SwitchesTo(r, m) THEN Switched(r, d, AfterRecord(s, m.len))
                             ELSE Stays(r, d, AfterRecord(s, m.len))
      /\ recvSeq' = [recvSeq EXCEPT ![r] = @ + 1]
      /\ opened' = [opened EXCEPT ![r] =
                     Append(@, [m EXCEPT !.bundle = s.id, !.base = s.base, !.off = s.off])]
      /\ Consume(r)
      /\ UNCHANGED <<sendSeq, nextId, pending, closed, ptr, sealed, sum, failed, tampered>>
  BY <1>2 DEF Receive, HeadIs
<1>4. m \in Data
  BY <1>2, <1>3, MessageFacts
<1>5. \/ s = cur[r][d] /\ ~SwitchesTo(r, m)
      \/ /\ s = next[r][d] /\ SwitchesTo(r, m) /\ HasNext(r, d) /\ s.id = nextId[r] - 1
  <2>1. CASE SwitchesTo(r, m)
    <3>1. s = next[r][d] /\ next[r][d].id = cur[r][d].id + 1
      BY <2>1 DEF RecvStream, SwitchesTo
    <3>2. HasNext(r, d)
      BY <1>1, <3>1 DEF HasNext, NoStream, Stream
    <3> QED
      BY <1>1, <2>1, <3>1, <3>2 DEF Core, StreamsOf
  <2>2. CASE ~SwitchesTo(r, m)
    BY <2>2 DEF RecvStream
  <2> QED
    BY <2>1, <2>2
<1> HIDE DEF m, d, s
<1>6. s \in Stream /\ s.off \in 0 .. PadHalf /\ s.id \in Nat /\ s.base \in Nat
  BY <1>1, <1>5 DEF Stream
<1>7. /\ m.bundle = s.id /\ m.base = s.base /\ m.off = s.off /\ m.seq = recvSeq[r] /\ m.tag
      /\ PadHalf - s.off >= KeyLen + m.len
  BY <1>3 DEF Opens, Remaining
<1>8. m.len \in Nat /\ m.off \in Nat
  BY <1>4 DEF Data
<1>9. EndOf(m) <= PadHalf /\ EndOf(m) \in 0 .. PadHalf /\ EndOf(m) = s.off + KeyLen + m.len
  <2>1. EndOf(m) = s.off + KeyLen + m.len
    BY <1>7 DEF EndOf
  <2> QED
    BY <1>6, <1>7, <1>8, <2>1
<1>10. After(m) \in Stream /\ AfterRecord(s, m.len) = After(m)
  <2>1. After(m) = [id |-> s.id, base |-> s.base, off |-> EndOf(m)]
    BY <1>7 DEF After
  <2>2. After(m) \in Stream
    BY <1>6, <1>9, <2>1 DEF Stream
  <2> QED
    BY <1>6, <1>9, <2>1, <2>2 DEF AfterRecord, Stream
<1>11. cur' = [cur EXCEPT ![r][d] = After(m)]
  BY <1>3, <1>10 DEF Switched, Stays
<1>12. /\ cur' \in [Roles -> [Dirs -> Stream]] /\ cur'[r][d] = After(m)
       /\ \A q \in Roles, e \in Dirs : q # r \/ e # d => cur'[q][e] = cur[q][e]
  <2>1. cur' = [cur EXCEPT ![r] = [cur[r] EXCEPT ![d] = After(m)]]
    BY <1>1, <1>11
  <2>2. [cur[r] EXCEPT ![d] = After(m)] \in [Dirs -> Stream]
    BY <1>1, <1>10
  <2> QED
    BY <1>1, <2>1, <2>2
<1>13. /\ \/ acked' = acked
          \/ r = "server" /\ acked' = FALSE
       /\ \/ s = cur[r][d] /\ next' = next
          \/ /\ s.id = nextId[r] - 1 /\ HasNext(r, d)
             /\ next' = [next EXCEPT ![r][d] = NoStream]
  BY <1>3, <1>5 DEF Switched, Stays
<1>14. /\ next' \in [Roles -> [Dirs -> Stream]]
       /\ \A q \in Roles, e \in Dirs : q # r \/ e # d => next'[q][e] = next[q][e]
       /\ \/ s = cur[r][d] /\ next' = next
          \/ /\ s.id = nextId[r] - 1 /\ next'[r][d] = NoStream /\ HasNext(r, d)
  <2>1. CASE s = cur[r][d] /\ next' = next
    BY <1>1, <2>1
  <2>2. CASE /\ s.id = nextId[r] - 1 /\ HasNext(r, d)
             /\ next' = [next EXCEPT ![r][d] = NoStream]
    <3>1. next' = [next EXCEPT ![r] = [next[r] EXCEPT ![d] = NoStream]]
      BY <1>1, <2>2
    <3>2. [next[r] EXCEPT ![d] = NoStream] \in [Dirs -> Stream]
      BY <1>1 DEF NoStream, Stream
    <3>3. next'[r][d] = NoStream
      BY <1>1, <3>1
    <3> QED
      BY <1>1, <2>2, <3>1, <3>2, <3>3
  <2> QED
    BY <1>13, <2>1, <2>2
<1>15. Bundle(d, s.id, s.base) \in Known
  BY <1>1, <1>5, KnownOnes
<1>16. /\ recvSeq' = [recvSeq EXCEPT ![r] = recvSeq[r] + 1]
       /\ opened' = [opened EXCEPT ![r] = Append(opened[r], m)]
  <2>1. [m EXCEPT !.bundle = s.id, !.base = s.base, !.off = s.off] = m
    BY <1>4, <1>7 DEF Data
  <2> QED
    BY <1>1, <1>3, <2>1
<1>17. Accepts(r, s, m)
  BY <1>1, <1>3, <1>4, <1>6, <1>7, <1>9, <1>12, <1>13, <1>14, <1>15, <1>16 DEF Accepts, m, d
<1> QED
  BY <1>17

LEMMA AcceptKeeps ==
    ASSUME Core, NEW r \in Roles, NEW s, NEW m, Accepts(r, s, m)
    PROVE  Core'
<1> USE Sizes
<1> DEFINE d == In(r)
           p == Peer(r)
<1>1. /\ d \in Dirs /\ p \in Roles /\ p # r /\ Peer(p) = r /\ Out(p) = d /\ Out(r) # d
      /\ Out(r) \in Dirs /\ In(p) # d /\ In(p) \in Dirs
      /\ \A q \in Roles : q = r \/ q = p
  BY RolesFacts
<1>2. /\ ~closed[r] /\ chan[r] # <<>> /\ m = chan[r][1] /\ m \in Data
      /\ m.bundle = s.id /\ m.base = s.base /\ m.seq = recvSeq[r] /\ m.tag /\ m.kind = "data"
      /\ Bundle(d, s.id, s.base) \in Known
      /\ recvSeq' = [recvSeq EXCEPT ![r] = recvSeq[r] + 1]
      /\ opened' = [opened EXCEPT ![r] = Append(opened[r], m)]
      /\ Consume(r)
      /\ UNCHANGED <<sendSeq, nextId, pending, closed, ptr, sealed, sum, failed, tampered>>
  BY DEF Accepts
<1>3. /\ cur' \in [Roles -> [Dirs -> Stream]] /\ cur'[r][d] = After(m)
      /\ \A q \in Roles, e \in Dirs : q # r \/ e # d => cur'[q][e] = cur[q][e]
      /\ next' \in [Roles -> [Dirs -> Stream]]
      /\ \A q \in Roles, e \in Dirs : q # r \/ e # d => next'[q][e] = next[q][e]
      /\ \/ s = cur[r][d] /\ next' = next
         \/ s.id = nextId[r] - 1 /\ next'[r][d] = NoStream /\ HasNext(r, d)
      /\ \/ acked' = acked
         \/ r = "server" /\ acked' = FALSE
  BY DEF Accepts
<1>4. /\ chan \in [Roles -> Seq(Message)] /\ opened \in [Roles -> Seq(Data)]
      /\ sealed \in [Roles -> Seq(Data)] /\ nextId \in [Roles -> Nat]
      /\ recvSeq \in [Roles -> 0 .. MaxSeq] /\ sendSeq \in [Roles -> 0 .. MaxSeq]
  BY DEF Core, Types, TypeOK
<1> HIDE DEF d, p
<1>5. chan' \in [Roles -> Seq(Message)] /\ Shifted(r) /\ chan'[p] = chan[p]
  BY <1>2, <1>4, ConsumeFacts DEF p
<1>6. /\ recvSeq[r] \in Nat /\ Len(chan[r]) \in Nat /\ 1 \in 1 .. Len(chan[r])
      /\ Len(chan'[r]) = Len(chan[r]) - 1 /\ Len(sealed[p]) \in Nat
      /\ sendSeq[p] \in 0 .. MaxSeq /\ opened[r] \in Seq(Data) /\ nextId[r] \in Nat
      /\ DOMAIN chan[r] = 1 .. Len(chan[r]) /\ DOMAIN chan'[r] = 1 .. Len(chan'[r])
  BY SMTT(30), <1>1, <1>4, <1>5 DEF Shifted
<1>7. ReceivedBy(r) /\ SealedBy(p)
  BY <1>1 DEF Core
<1>8. /\ recvSeq[r] < Len(sealed[p]) /\ m = sealed[p][recvSeq[r] + 1]
      /\ Len(sealed[p]) = sendSeq[p] /\ Len(opened[r]) = recvSeq[r]
  BY SMTT(30), <1>2, <1>6, <1>7 DEF ReceivedBy, SealedBy, p
<1>9. recvSeq' \in [Roles -> 0 .. MaxSeq] /\ recvSeq'[r] = recvSeq[r] + 1
      /\ recvSeq'[p] = recvSeq[p]
  <2>1. recvSeq[r] + 1 \in 0 .. MaxSeq
    BY <1>6, <1>8
  <2> QED
    BY <1>1, <1>2, <1>4, <2>1
<1>10. /\ opened' \in [Roles -> Seq(Data)] /\ opened'[p] = opened[p]
       /\ Len(opened'[r]) = recvSeq[r] + 1 /\ opened'[r][recvSeq[r] + 1] = m
       /\ \A k \in 1 .. recvSeq[r] : opened'[r][k] = opened[r][k]
  <2>1. Append(opened[r], m) \in Seq(Data)
    BY <1>2, <1>6, AppendFacts
  <2>2. /\ opened' \in [Roles -> Seq(Data)] /\ opened'[p] = opened[p]
        /\ opened'[r] = Append(opened[r], m)
    BY <1>1, <1>2, <1>4, <2>1
  <2> QED
    BY <1>2, <1>6, <1>8, <2>2, AppendFacts
<1>11. Types'
  <2>1. acked' \in BOOLEAN
    BY <1>3 DEF Core, Types, TypeOK
  <2> QED
    BY <1>2, <1>3, <1>5, <1>9, <1>10, <2>1 DEF Core, Types, TypeOK
<1>12. After(m).id = s.id /\ After(m).base = s.base
  BY <1>2 DEF After
<1>13. Chain'
  <2>1. ASSUME NEW y \in Known'
        PROVE  y \in Known
    <3>1. CASE \E q \in Roles, e \in Dirs : y = Bundle(e, cur'[q][e].id, cur'[q][e].base)
      <4>1. PICK q \in Roles, e \in Dirs : y = Bundle(e, cur'[q][e].id, cur'[q][e].base)
        BY <3>1
      <4>2. CASE q = r /\ e = d
        BY <1>2, <1>3, <1>12, <4>1, <4>2
      <4>3. CASE q # r \/ e # d
        BY <1>3, <4>1, <4>3, KnownOnes
      <4> QED
        BY <4>2, <4>3
    <3>2. CASE \E q \in Roles, e \in Dirs :
                 HasNext(q, e)' /\ y = Bundle(e, next'[q][e].id, next'[q][e].base)
      <4>1. PICK q \in Roles, e \in Dirs :
              HasNext(q, e)' /\ y = Bundle(e, next'[q][e].id, next'[q][e].base)
        BY <3>2
      <4>2. next'[q][e] = next[q][e] /\ HasNext(q, e)
        BY <1>3, <4>1 DEF HasNext
      <4> QED
        BY <4>1, <4>2, KnownOnes
    <3>3. CASE \E q \in Roles : \E k \in DOMAIN sealed'[q] :
                 y = Bundle(Out(q), sealed'[q][k].bundle, sealed'[q][k].base)
      BY <1>2, <3>3, KnownOnes
    <3>4. CASE \E i : /\ Is("client", i, "offer")'
                      /\ y = Bundle("c2s", chan'["client"][i].bundle, chan'["client"][i].base)
      <4>1. PICK i : /\ Is("client", i, "offer")'
                     /\ y = Bundle("c2s", chan'["client"][i].bundle, chan'["client"][i].base)
        BY <3>4
      <4>2. CASE p = "client"
        <5>1. Is("client", i, "offer") /\ chan'["client"][i] = chan["client"][i]
          BY <1>5, <4>1, <4>2 DEF Is
        <5> QED
          BY <4>1, <5>1, KnownOnes
      <4>3. CASE r = "client"
        <5>1. i \in 1 .. Len(chan'[r]) /\ chan'[r][i].kind = "offer"
          BY <1>6, <4>1, <4>3 DEF Is
        <5>2. i + 1 \in DOMAIN chan[r] /\ chan'[r][i] = chan[r][i + 1]
          BY <1>5, <1>6, <5>1 DEF Shifted
        <5> QED
          BY <4>1, <4>3, <5>1, <5>2, KnownOnes DEF Is
      <4> QED
        BY <1>1, <4>2, <4>3 DEF Roles
    <3> QED
      BY <3>1, <3>2, <3>3, <3>4, KnownIsPrimed
  <2>2. ptr["server"] \in Nat
    BY DEF Core, Types, TypeOK, Roles
  <2> QED
    BY <1>2, <2>1, <2>2, ChainStays DEF Core
<1>14. \A q \in Roles : StreamsOf(q)'
  <2>1. cur'[r][d].id = s.id
    BY <1>3, <1>12
  <2>2. (s = cur[r][d] /\ next' = next) \/ (s.id = nextId[r] - 1 /\ next'[r][d] = NoStream)
    BY <1>3
  <2>3. nextId' = nextId /\ closed' = closed
    BY <1>2
  <2> QED
    BY ZenonT(40), <1>1, <1>2, <1>3, <2>1, <2>2, <2>3, StreamsMove
<1>15. \A q \in Roles : SealedBy(q)' /\ CountedFor(q)'
  <2> SUFFICES ASSUME NEW q \in Roles
               PROVE  SealedBy(q)' /\ CountedFor(q)'
    OBVIOUS
  <2>1. SealedBy(q) /\ CountedFor(q)
    BY DEF Core
  <2>2. cur'[q][Out(q)] = cur[q][Out(q)]
    BY <1>1, <1>3, RolesFacts
  <2> QED
    BY <1>2, <2>1, <2>2 DEF SealedBy, CountedFor
<1>16. \A q \in Roles : ReceivedBy(q)'
  <2>1. ReceivedBy(p)'
    <3>1. ReceivedBy(p) /\ cur'[p][In(p)] = cur[p][In(p)]
      BY <1>1, <1>3 DEF Core
    <3>2. /\ sealed' = sealed /\ closed' = closed /\ chan'[p] = chan[p]
          /\ recvSeq'[p] = recvSeq[p] /\ opened'[p] = opened[p]
      BY <1>2, <1>5, <1>9, <1>10
    <3> QED
      BY <3>1, <3>2 DEF ReceivedBy
  <2>2. ReceivedBy(r)'
    <3>1. /\ Len(opened'[r]) = recvSeq'[r] /\ recvSeq'[r] <= Len(sealed'[p])
      BY <1>2, <1>6, <1>8, <1>9, <1>10
    <3>2. \A k \in 1 .. recvSeq'[r] : opened'[r][k] = sealed'[p][k]
      <4>1. \A k \in 1 .. recvSeq[r] : opened[r][k] = sealed[p][k]
        BY <1>7 DEF ReceivedBy, p
      <4>2. \A k \in 1 .. recvSeq'[r] : k \in 1 .. recvSeq[r] \/ k = recvSeq[r] + 1
        BY <1>6, <1>9
      <4> QED
        BY <1>2, <1>8, <1>10, <4>1, <4>2
    <3>3. ASSUME NEW i \in 1 .. Len(chan'[r]), chan'[r][i].kind = "data"
          PROVE  /\ chan'[r][i].seq < Len(sealed'[p])
                 /\ chan'[r][i].tag => chan'[r][i] = sealed'[p][chan'[r][i].seq + 1]
      <4>1. i + 1 \in 1 .. Len(chan[r]) /\ chan'[r][i] = chan[r][i + 1]
        BY SMTT(30), <1>5, <1>6 DEF Shifted
      <4> QED
        BY <1>2, <1>7, <3>3, <4>1 DEF ReceivedBy, p
    <3>4. cur'[r][d] = StreamAt(sealed'[p], d, recvSeq'[r])
      BY <1>2, <1>3, <1>6, <1>8, <1>9 DEF StreamAt
    <3> QED
      BY <3>1, <3>2, <3>3, <3>4 DEF ReceivedBy, p, d
  <2> QED
    BY <1>1, <2>1, <2>2
<1>17. InSync'
  <2>1. ASSUME OnTheirWay(p)
        PROVE  OnTheirWay(p)'
    <3>1. recvSeq'[p] = recvSeq[p] /\ sendSeq' = sendSeq /\ chan'[p] = chan[p]
      BY <1>2, <1>5, <1>9
    <3> QED
      BY <2>1, <3>1 DEF OnTheirWay, Is
  <2>2. ASSUME OnTheirWay(r)
        PROVE  OnTheirWay(r)'
    <3>1. Is(r, 1, "data") /\ chan[r][1].seq = recvSeq[r]
      BY <1>2, <1>6 DEF Is
    <3>2. \A i \in 1 .. Len(chan'[r]) :
            i + 1 \in 1 .. Len(chan[r]) /\ 1 < i + 1 /\ chan'[r][i] = chan[r][i + 1]
      BY <1>5, <1>6 DEF Shifted
    <3>3. \A i \in 1 .. Len(chan'[r]) : \A k : Is(r, i, k)' <=> Is(r, i + 1, k)
      BY <1>6, <3>2 DEF Is
    <3>4. ASSUME NEW i \in 1 .. Len(chan'[r])
          PROVE  /\ chan'[r][i].kind # "garbage"
                 /\ chan'[r][i].kind = "data" =>
                      chan'[r][i].tag /\ chan'[r][i].seq >= recvSeq'[r]
      <4>1. chan'[r][i].kind # "garbage" /\ (chan'[r][i].kind = "data" => chan'[r][i].tag)
        BY <2>2, <3>2 DEF OnTheirWay
      <4>2. ASSUME chan'[r][i].kind = "data"
            PROVE  chan'[r][i].seq >= recvSeq'[r]
        <5>1. Is(r, i + 1, "data") /\ chan[r][i + 1] \in Data
          <6>1. i + 1 \in 1 .. Len(chan[r]) /\ chan[r][i + 1].kind = "data"
            BY <3>2, <4>2
          <6>2. chan[r][i + 1] \in Message
            BY <1>4, <6>1
          <6> QED
            BY <1>6, <6>1, <6>2, MessageFacts DEF Is
        <5>2. recvSeq[r] < chan[r][i + 1].seq
          BY <1>6, <2>2, <3>1, <3>2, <5>1 DEF OnTheirWay
        <5>3. chan[r][i + 1].seq \in Nat
          BY <5>1 DEF Data
        <5>4. chan[r][i + 1].seq >= recvSeq[r] + 1 /\ chan'[r][i] = chan[r][i + 1]
          BY SMTT(30), <1>6, <3>2, <5>2, <5>3
        <5> QED
          BY <1>9, <5>4
      <4> QED
        BY <4>1, <4>2
    <3>5. ASSUME NEW n \in recvSeq'[r] .. sendSeq'[p] - 1
          PROVE  \E i \in 1 .. Len(chan'[r]) : Is(r, i, "data")' /\ chan'[r][i].seq = n
      <4>1. n \in recvSeq[r] .. sendSeq[p] - 1 /\ n # recvSeq[r]
        BY SMTT(30), <1>2, <1>6, <1>9
      <4>2. PICK i \in 1 .. Len(chan[r]) : Is(r, i, "data") /\ chan[r][i].seq = n
        BY <2>2, <4>1 DEF OnTheirWay, p
      <4>3. i # 1
        BY <3>1, <4>1, <4>2
      <4>4. i - 1 \in 1 .. Len(chan'[r]) /\ i - 1 + 1 = i
        BY <1>6, <4>3
      <4>5. chan'[r][i - 1] = chan[r][i] /\ Is(r, i - 1, "data")'
        BY <3>2, <3>3, <4>2, <4>4
      <4> QED
        BY <4>2, <4>4, <4>5
    <3>6. ASSUME NEW i \in 1 .. Len(chan'[r]), NEW j \in 1 .. Len(chan'[r]),
                 Is(r, i, "data")', Is(r, j, "data")', i < j
          PROVE  chan'[r][i].seq < chan'[r][j].seq
      <4>1. Is(r, i + 1, "data") /\ Is(r, j + 1, "data") /\ i + 1 < j + 1
        BY <1>6, <3>3, <3>6
      <4> QED
        BY <2>2, <3>2, <4>1 DEF OnTheirWay
    <3> QED
      BY <3>4, <3>5, <3>6 DEF OnTheirWay, p
  <2> QED
    BY <1>1, <1>2, <2>1, <2>2 DEF Core, InSync
<1>18. Negotiation'
  <2>1. cur'["server"]["s2c"] = cur["server"]["s2c"]
    <3>1. "server" # r \/ "s2c" # d
      BY DEF d, In, Out, Peer
    <3> QED
      BY <1>3, <3>1 DEF Roles, Dirs
  <2> QED
    BY <1>2, <1>3, <2>1 DEF Core, Negotiation, AckedBeforeUse
<1>19. Outstanding'
  <2>1. Slides(r, 1, Quiet) /\ Slides(p, 0, Quiet)
    BY <1>1, <1>4, <1>5, SlidesCases
  <2>2. UNCHANGED <<pending, nextId, tampered, closed>> /\ {"offer", "ack"} \cap Quiet = {}
    BY <1>2 DEF Quiet
  <2>3. CASE r = "server"
    <3>1. p = "client" /\ cur'["client"]["c2s"] = cur["client"]["c2s"]
          /\ cur'["client"]["s2c"] = cur["client"]["s2c"]
      BY <1>1, <1>3, <2>3 DEF Roles, Dirs
    <3>2. Slides("server", 1, Quiet) /\ Slides("client", 0, Quiet)
      BY <2>1, <2>3, <3>1
    <3> QED
      BY <1>5, <2>2, <3>1, <3>2, OutstandingSlides DEF Core
  <2>4. CASE r = "client"
    <3>1. p = "server" /\ d = "s2c" /\ cur'["client"]["c2s"] = cur["client"]["c2s"]
          /\ "s2c" \in Dirs
      BY <1>3, <2>4 DEF Roles, Dirs, p, Peer, d, In, Out
    <3>2. Slides("client", 1, Quiet) /\ Slides("server", 0, Quiet)
      BY <2>1, <2>4, <3>1
    <3>3. cur'["client"]["s2c"].id = m.bundle /\ m = chan["client"][1]
      BY <1>2, <1>3, <1>12, <2>4, <3>1
    <3>4. ASSUME NEW i \in 1 .. Len(chan["client"]), Is("client", i, "offer"),
                 cur'["client"]["s2c"].id # pending - 1
          PROVE  cur["client"]["s2c"].id # pending - 1
      <4>1. SUFFICES ASSUME cur["client"]["s2c"].id = nextId["client"] - 1
                     PROVE  FALSE
        BY <3>4 DEF Core, Outstanding
      <4>2. ~HasNext("client", "s2c")
        BY <1>6, <2>4, <3>1, <4>1 DEF Core, StreamsOf
      <4>3. s = cur["client"]["s2c"]
        BY <1>3, <2>4, <3>1, <4>2
      <4>4. nextId["client"] = pending
        BY <3>4 DEF Core, Outstanding
      <4> QED
        BY <1>2, <3>3, <3>4, <4>1, <4>3, <4>4
    <3> QED
      BY <1>5, <2>2, <3>1, <3>2, <3>3, <3>4, OutstandingSlides DEF Core
  <2> QED
    BY <2>3, <2>4 DEF Roles
<1> QED
  BY <1>11, <1>13, <1>14, <1>15, <1>16, <1>17, <1>18, <1>19 DEF Core

-----------------------------------------------------------------------------
(***************************************************************************)
(* Without tampering nothing is refused.                                   *)
(***************************************************************************)

\* The record at the head is the next one of the peer, and r has its bundle.
LEMMA HeadOpens ==
    ASSUME Core, NEW r \in Roles, ~tampered, ~closed[r], HeadIs(r, "data")
    PROVE  Opens(r, Head(chan[r]), RecvStream(r, Head(chan[r])))
<1> USE Sizes
<1> DEFINE p == Peer(r)
           d == In(r)
           k == recvSeq[r] + 1
           m == chan[r][1]
           c == cur[r][d]
<1>1. /\ p \in Roles /\ d \in Dirs /\ Out(p) = d /\ c \in Stream /\ next[r][d] \in Stream
      /\ chan[r] \in Seq(Message) /\ chan[r] # <<>> /\ sealed[p] \in Seq(Data)
      /\ recvSeq[r] \in 0 .. MaxSeq /\ sendSeq[p] \in 0 .. MaxSeq
      /\ nextId[r] \in Nat /\ nextId[p] \in Nat /\ cur[p][d] \in Stream
  BY RolesFacts DEF Core, Types, TypeOK, HeadIs
<1>2. /\ ReceivedBy(r) /\ SealedBy(p) /\ OnTheirWay(r) /\ StreamsOf(r) /\ StreamsOf(p)
  BY <1>1 DEF Core, InSync
<1>3. /\ Head(chan[r]) = m /\ m.kind = "data" /\ Len(chan[r]) \in Nat /\ 1 \in 1 .. Len(chan[r])
      /\ m \in Message
  BY <1>1, TailFacts DEF HeadIs
<1>4. m \in Data
  BY <1>3, MessageFacts
<1>5. /\ m.seq \in Nat /\ m.bundle \in Nat /\ m.base \in Nat /\ m.off \in Nat /\ m.len \in Nat
      /\ c.id \in Nat /\ c.base \in Nat /\ c.off \in Nat /\ cur[p][d].id \in Nat
      /\ recvSeq[r] \in Nat /\ sendSeq[p] \in Nat
  <2>1. /\ m.seq \in Nat /\ m.bundle \in Nat /\ m.base \in Nat /\ m.off \in Nat
        /\ m.len \in Nat
    BY <1>4 DEF Data
  <2>2. \A t \in Stream : t.id \in Nat /\ t.base \in Nat /\ t.off \in Nat
    BY DEF Stream
  <2>3. c.id \in Nat /\ c.base \in Nat /\ c.off \in Nat /\ cur[p][d].id \in Nat
    BY <1>1, <2>2
  <2>4. recvSeq[r] \in Nat /\ sendSeq[p] \in Nat
    BY <1>1
  <2> QED
    BY <2>1, <2>2, <2>3, <2>4
<1>6. /\ m.tag /\ m.seq >= recvSeq[r] /\ m.seq < Len(sealed[p])
      /\ m = sealed[p][m.seq + 1] /\ Len(sealed[p]) = sendSeq[p]
      /\ c = StreamAt(sealed[p], d, recvSeq[r])
  BY <1>2, <1>3 DEF ReceivedBy, OnTheirWay, SealedBy
<1> HIDE DEF m, c, d, p
<1>7. m.seq = recvSeq[r]
  <2>1. recvSeq[r] \in recvSeq[r] .. sendSeq[p] - 1
    BY SMTT(30), <1>1, <1>5, <1>6
  <2>2. PICK i \in 1 .. Len(chan[r]) : Is(r, i, "data") /\ chan[r][i].seq = recvSeq[r]
    BY <1>2, <2>1 DEF OnTheirWay, p
  <2>3. Is(r, 1, "data")
    BY <1>1, <1>3 DEF Is, m
  <2>4. 1 < i => m.seq < recvSeq[r]
    BY <1>2, <1>3, <2>2, <2>3 DEF OnTheirWay, m
  <2>5. i = 1 => m.seq = recvSeq[r]
    BY <2>2 DEF m
  <2>6. i = 1 \/ 1 < i
    BY <1>3
  <2>7. ~(m.seq < recvSeq[r])
    BY <1>5, <1>6
  <2> QED
    BY <2>4, <2>5, <2>6, <2>7
<1>8. k \in 1 .. Len(sealed[p]) /\ m = sealed[p][k] /\ k - 1 = recvSeq[r]
  <2>1. recvSeq[r] \in Nat /\ sendSeq[p] \in Nat /\ Len(sealed[p]) = sendSeq[p]
        /\ recvSeq[r] < sendSeq[p]
    BY <1>5, <1>6, <1>7
  <2> QED
    BY <1>6, <1>7, <2>1
<1>9. /\ m.dir = d /\ EndOf(m) <= PadHalf /\ m.bundle <= cur[p][d].id
      /\ \/ m.bundle = c.id /\ m.off = c.off
         \/ m.bundle = c.id + 1 /\ m.off = 0
  BY <1>1, <1>2, <1>6, <1>8 DEF SealedBy
<1>10. Bundle(d, m.bundle, m.base) \in Known /\ Bundle(d, c.id, c.base) \in Known
  <2>1. k \in DOMAIN sealed[p]
    BY <1>1, <1>8
  <2> QED
    BY <1>1, <1>8, <2>1, KnownOnes DEF c
<1>11. \A i \in Nat, b, e \in Nat : Bundle(d, i, b) \in Known /\ Bundle(d, i, e) \in Known => b = e
  <2> SUFFICES ASSUME NEW i \in Nat, NEW b \in Nat, NEW e \in Nat,
                      Bundle(d, i, b) \in Known, Bundle(d, i, e) \in Known
               PROVE  b = e
    OBVIOUS
  <2>1. /\ Bundle(d, i, b).id = Bundle(d, i, e).id
        /\ Bundle(d, i, b).start = Start(d, b) /\ Bundle(d, i, e).start = Start(d, e)
    BY DEF Bundle
  <2>2. Start(d, b) = Start(d, e)
    BY <2>1 DEF Core, Chain
  <2> QED
    BY <2>2 DEF Start
<1>12. m.bundle < nextId[r]
  <2>1. CASE r = "server"
    <3>1. p = "client" /\ nextId["client"] <= nextId["server"]
      BY <1>1, <2>1 DEF Core, Negotiation, p, Peer
    <3>2. cur[p][d].id <= nextId[p] - 1
      BY <1>1, <1>2 DEF StreamsOf
    <3>3. m.bundle <= nextId["client"] - 1 /\ nextId["client"] \in Nat /\ nextId["server"] \in Nat
      <4>1. m.bundle <= cur[p][d].id /\ cur[p][d].id <= nextId["client"] - 1
        BY <1>9, <3>1, <3>2
      <4>2. nextId["client"] \in Nat /\ nextId["server"] \in Nat
        BY <1>1, <2>1, <3>1
      <4> QED
        BY <1>5, <4>1, <4>2
    <3> QED
      BY <1>5, <2>1, <3>1, <3>3
  <2>2. CASE r = "client"
    <3>1. p = "server" /\ d = "s2c"
      BY <2>2 DEF p, d, Peer, In, Out
    <3>2. cur["server"]["s2c"].id < nextId["client"]
      BY DEF Core, Negotiation, AckedBeforeUse
    <3> QED
      BY <1>1, <1>5, <1>9, <2>2, <3>1, <3>2
  <2> QED
    BY <2>1, <2>2 DEF Roles
<1>13. CASE m.bundle = c.id /\ m.off = c.off
  <2>1. ~SwitchesTo(r, m) /\ RecvStream(r, m) = c
    BY <1>5, <1>13 DEF SwitchesTo, RecvStream, c, d
  <2>2. m.base = c.base
    BY <1>5, <1>10, <1>11, <1>13
  <2>3. PadHalf - c.off >= KeyLen + m.len
    <3>1. c.off + KeyLen + m.len <= PadHalf
      BY <1>9, <1>13 DEF EndOf
    <3> QED
      BY <1>5, <3>1
  <2> QED
    BY <1>3, <1>6, <1>7, <1>9, <1>13, <2>1, <2>2, <2>3 DEF Opens, Remaining, d
<1>14. CASE m.bundle = c.id + 1 /\ m.off = 0
  <2>1. HasNext(r, d)
    <3>1. c.id # nextId[r] - 1
      BY <1>1, <1>5, <1>12, <1>14
    <3> QED
      BY <1>1, <1>2, <3>1 DEF StreamsOf, c
  <2>2. next[r][d].id = nextId[r] - 1 /\ next[r][d].off = 0 /\ c.id = nextId[r] - 2
    BY <1>1, <1>2, <2>1 DEF StreamsOf, c
  <2>3. next[r][d].id = m.bundle
    BY <1>1, <1>5, <1>14, <2>2
  <2>4. SwitchesTo(r, m) /\ RecvStream(r, m) = next[r][d]
    BY <1>14, <2>3 DEF SwitchesTo, RecvStream, c, d
  <2>5. m.base = next[r][d].base
    <3>1. Bundle(d, next[r][d].id, next[r][d].base) \in Known
      BY <1>1, <2>1, KnownOnes
    <3>2. next[r][d].base \in Nat
      BY <1>1 DEF Stream
    <3> QED
      BY <1>5, <1>10, <1>11, <2>3, <3>1, <3>2
  <2>6. PadHalf - next[r][d].off >= KeyLen + m.len
    <3>1. 0 + KeyLen + m.len <= PadHalf
      BY <1>9, <1>14 DEF EndOf
    <3> QED
      BY <1>5, <2>2, <3>1
  <2> QED
    BY <1>3, <1>6, <1>7, <1>9, <1>14, <2>2, <2>3, <2>4, <2>5, <2>6 DEF Opens, Remaining, d
<1> QED
  BY <1>9, <1>13, <1>14

\* An offer finds the client ready for it.
LEMMA OfferFits ==
    ASSUME Core, ~tampered, ~closed["client"], HeadIs("client", "offer")
    PROVE  Acceptable(Head(chan["client"]))
<1> DEFINE m == chan["client"][1]
<1>1. /\ "client" \in Roles /\ "c2s" \in Dirs /\ "s2c" \in Dirs
      /\ chan["client"] \in Seq(Message) /\ chan["client"] # <<>> /\ nextId["client"] \in Nat
  BY DEF Roles, Dirs, Core, Types, TypeOK, HeadIs
<1>2. Head(chan["client"]) = m /\ m.kind = "offer" /\ 1 \in 1 .. Len(chan["client"])
  BY <1>1, TailFacts DEF HeadIs
<1>3. Is("client", 1, "offer")
  BY <1>1, <1>2 DEF Is
<1>4. /\ m.bundle = pending /\ nextId["client"] = pending
      /\ cur["client"]["c2s"].id = pending - 1
      /\ \/ cur["client"]["s2c"].id = pending - 1
         \/ \E j \in 1 .. 1 : Is("client", j, "data")
  BY <1>2, <1>3 DEF Core, Outstanding
<1>5. \A j \in 1 .. 1 : ~Is("client", j, "data")
  BY <1>2 DEF Is
<1>6. \A d \in Dirs : cur["client"][d].id = nextId["client"] - 1
  BY <1>4, <1>5 DEF Dirs
<1>7. \A d \in Dirs : ~HasNext("client", d)
  BY <1>1, <1>6 DEF Core, StreamsOf
<1> QED
  BY <1>2, <1>4, <1>7 DEF Acceptable, NextHeld

\* An acknowledgement is of the bundle the server waits for.
LEMMA AckFits ==
    ASSUME Core, HeadIs("server", "ack")
    PROVE  pending = Head(chan["server"]).bundle
<1>1. chan["server"] \in Seq(Message) /\ chan["server"] # <<>>
  BY DEF Roles, Core, Types, HeadIs
<1>2. /\ Head(chan["server"]) = chan["server"][1] /\ 1 \in 1 .. Len(chan["server"])
      /\ chan["server"][1].kind = "ack"
  BY <1>1, TailFacts DEF HeadIs
<1>3. Is("server", 1, "ack")
  BY <1>1, <1>2 DEF Is
<1> QED
  BY <1>2, <1>3 DEF Core, Outstanding

-----------------------------------------------------------------------------
(***************************************************************************)
(* The invariant.                                                          *)
(***************************************************************************)
LEMMA InitIInv == ASSUME Init PROVE IInv
<1> USE Sizes
<1>1. /\ \A d \in Dirs : SplitBundle(0, 1)[d] = Half(0, 1, d)
      /\ SplitBundle(0, 1) \in [Dirs -> Stream] /\ NoNext \in [Dirs -> Stream]
      /\ \A d \in Dirs : NoNext[d] = NoStream
  BY DEF SplitBundle, Half, Stream, NoNext, NoStream
<1>2. \A r \in Roles : /\ cur[r] = SplitBundle(0, 1) /\ next[r] = NoNext
                       /\ sendSeq[r] = 0 /\ recvSeq[r] = 0 /\ nextId[r] = 1 /\ ~closed[r]
                       /\ ptr[r] = 1 + 2 * PadHalf /\ chan[r] = <<>> /\ sealed[r] = <<>>
                       /\ opened[r] = <<>> /\ sum[r] = 0 /\ ~failed[r]
  BY DEF Init
<1>3. \A r \in Roles, d \in Dirs : /\ cur[r][d] = Half(0, 1, d) /\ ~HasNext(r, d)
                                   /\ cur[r][d].id = 0
  <2>1. \A d : Half(0, 1, d).id = 0
    BY DEF Half
  <2> QED
    BY <1>1, <1>2, <2>1 DEF HasNext
<1>4. Types
  <2>1. TypeOK
    <3>1. /\ cur \in [Roles -> [Dirs -> Stream]] /\ next \in [Roles -> [Dirs -> Stream]]
      BY <1>1 DEF Init
    <3>2. /\ sendSeq \in [Roles -> 0 .. MaxSeq] /\ recvSeq \in [Roles -> 0 .. MaxSeq]
          /\ nextId \in [Roles -> Nat] /\ sum \in [Roles -> Nat] /\ ptr \in [Roles -> Nat]
      BY DEF Init
    <3>3. /\ acked \in BOOLEAN /\ pending \in Nat /\ closed \in [Roles -> BOOLEAN]
          /\ failed \in [Roles -> BOOLEAN] /\ tampered \in BOOLEAN
      BY DEF Init
    <3> QED
      BY <3>1, <3>2, <3>3 DEF TypeOK
  <2> QED
    BY <2>1 DEF Types, Init
<1>5. /\ \A r \in Roles : Len(chan[r]) = 0 /\ Len(sealed[r]) = 0 /\ Len(opened[r]) = 0
      /\ \A r \in Roles : DOMAIN chan[r] = {} /\ DOMAIN sealed[r] = {}
      /\ 1 .. 0 = {}
  BY <1>2
<1>6. Chain
  <2>1. \A d \in Dirs : Bundle(d, Half(0, 1, d).id, Half(0, 1, d).base) = [id |-> 0, start |-> 1]
    BY DEF Bundle, Start, Half, Dirs
  <2>2. ASSUME NEW x \in Known
        PROVE  x = [id |-> 0, start |-> 1]
    <3>1. /\ \A r \in Roles, d \in Dirs : ~HasNext(r, d)
          /\ \A r \in Roles : \A k : k \notin DOMAIN sealed[r]
          /\ \A i : ~Is("client", i, "offer")
      BY <1>3, <1>5 DEF Is, Roles
    <3>2. \E r \in Roles, d \in Dirs : x = Bundle(d, cur[r][d].id, cur[r][d].base)
      BY <3>1, KnownIs
    <3> QED
      BY <1>3, <2>1, <3>2
  <2>3. /\ nextId["server"] = 1 /\ ptr["server"] = 1 + 2 * PadHalf
    BY <1>2 DEF Roles
  <2>4. \A x \in Known : /\ x \in [id : Nat, start : Nat] /\ x.id = 0 /\ x.start = 1
    BY <2>2
  <2>5. \A x \in Known : x.id < nextId["server"] /\ x.start + 2 * PadHalf <= ptr["server"]
    BY <2>3, <2>4
  <2>6. \A x, y \in Known : /\ x.id = y.id => x.start = y.start
                            /\ x.id < y.id => x.start + 2 * PadHalf <= y.start
    BY <2>4
  <2> QED
    BY <2>4, <2>5, <2>6 DEF Chain
<1>7. ASSUME NEW r \in Roles
      PROVE  StreamsOf(r) /\ SealedBy(r) /\ CountedFor(r) /\ ReceivedBy(r)
  <2>1. /\ Out(r) \in Dirs /\ In(r) \in Dirs /\ Peer(r) \in Roles
    BY RolesFacts
  <2>2. StreamsOf(r)
    BY <1>2, <1>3 DEF StreamsOf
  <2>3. \A d : StreamAt(<<>>, d, 0) = Half(0, 1, d)
    BY DEF StreamAt
  <2>4. SealedBy(r)
    BY <1>2, <1>3, <1>5, <2>1, <2>3 DEF SealedBy
  <2>5. CountedFor(r)
    <3>1. PadOf(sealed[r]) = {}
      BY <1>5 DEF PadOf
    <3> QED
      BY <1>2, <3>1, FS_EmptySet DEF CountedFor
  <2>6. ReceivedBy(r)
    BY <1>2, <1>3, <1>5, <2>1, <2>3 DEF ReceivedBy
  <2> QED
    BY <2>2, <2>4, <2>5, <2>6
<1>8. InSync
  <2> SUFFICES ASSUME NEW r \in Roles PROVE OnTheirWay(r)
    BY DEF InSync
  <2>1. Len(chan[r]) = 0 /\ recvSeq[r] = 0 /\ sendSeq[Peer(r)] = 0
    BY <1>2, <1>5, RolesFacts
  <2> QED
    BY <2>1 DEF OnTheirWay
<1>9. Negotiation
  <2>1. /\ nextId["client"] = 1 /\ nextId["server"] = 1 /\ cur["server"]["s2c"].id = 0
        /\ acked = FALSE /\ pending = 0
    BY <1>2, <1>3 DEF Init, Roles, Dirs
  <2> QED
    BY <2>1 DEF Negotiation, AckedBeforeUse
<1>10. Outstanding
  <2>1. Len(chan["client"]) = 0 /\ Len(chan["server"]) = 0
    BY <1>5 DEF Roles
  <2> QED
    BY <2>1 DEF Outstanding
<1>11. NeverRefused
  BY <1>2 DEF NeverRefused
<1> QED
  BY <1>4, <1>6, <1>7, <1>8, <1>9, <1>10, <1>11 DEF IInv, Core

LEMMA NextIInv ==
    ASSUME IInv, [Next]_vars
    PROVE  IInv'
<1>1. /\ Core /\ NeverRefused /\ "server" \in Roles /\ "client" \in Roles
      /\ ptr \in [Roles -> Nat] /\ failed \in [Roles -> BOOLEAN] /\ ptr["server"] \in Nat
  BY DEF IInv, Core, Types, TypeOK, Roles
\* A refusal is possible only after tampering.
<1>2. ASSUME NEW r \in Roles, Refuse(r), chan[r] # <<>>, Consume(r), tampered,
             UNCHANGED <<ptr, sealed, opened, sum, tampered>>
      PROVE  IInv'
  <2>1. WasteAll(r) /\ failed' \in [Roles -> BOOLEAN]
    BY <1>1, <1>2 DEF Refuse
  <2>2. Core'
    BY <1>1, <1>2, <2>1, WasteKeeps
  <2> QED
    BY <1>2, <2>2 DEF IInv, NeverRefused
<1>3. ASSUME Core', UNCHANGED <<failed, tampered>>
      PROVE  IInv'
  BY <1>1, <1>3 DEF IInv, NeverRefused
<1>4. ASSUME NEW r \in Roles, NEW n \in 1 .. MaxLen, Send(r, n)
      PROVE  IInv'
  <2>1. PICK s, l : Seals(r, s, l)
    BY <1>1, <1>4, SendSeals
  <2>2. Core'
    BY <1>1, <2>1, SealKeeps
  <2> QED
    BY <1>3, <1>4, <2>2 DEF Send
<1>5. ASSUME NEW r \in Roles, SendExhausted(r) \/ PeerGone(r)
      PROVE  IInv'
  <2>1. WasteAll(r) /\ chan' = chan /\ UNCHANGED <<ptr, sealed, opened, sum, failed, tampered>>
    BY <1>5 DEF SendExhausted, PeerGone, ghosts
  <2>2. failed' \in [Roles -> BOOLEAN]
    BY <1>1, <2>1
  <2>3. Core'
    BY <1>1, <2>1, <2>2, WasteKeeps
  <2> QED
    BY <1>3, <2>1, <2>3
<1>6. ASSUME NEW r \in Roles, Receive(r)
      PROVE  IInv'
  <2>1. PICK s, m : Accepts(r, s, m)
    BY <1>1, <1>6, ReceiveAccepts
  <2>2. Core'
    BY <1>1, <2>1, AcceptKeeps
  <2> QED
    BY <1>3, <1>6, <2>2 DEF Receive
<1>7. ASSUME NEW r \in Roles, ReceiveRefused(r)
      PROVE  IInv'
  <2>1. /\ HeadIs(r, "data") /\ ~closed[r] /\ chan[r] # <<>> /\ Refuse(r) /\ Consume(r)
        /\ ~Opens(r, Head(chan[r]), RecvStream(r, Head(chan[r])))
        /\ UNCHANGED <<ptr, sealed, opened, sum, tampered>>
    BY <1>7 DEF ReceiveRefused, HeadIs
  <2>2. tampered
    BY <1>1, <2>1, HeadOpens
  <2> QED
    BY <1>2, <2>1, <2>2
<1>8. ASSUME NEW r \in Roles, ReceiveUndecodable(r) \/ Ignore(r)
      PROVE  IInv'
  <2>1. /\ chan[r] # <<>> /\ Consume(r) /\ UNCHANGED pumpVars
        /\ UNCHANGED <<ptr, sealed, opened, sum, failed, tampered>>
        /\ \/ Head(chan[r]).kind = "garbage"
           \/ closed[r]
    BY <1>8 DEF ReceiveUndecodable, Ignore, HeadIs, ghosts
  <2>2. chan[r] \in Seq(Message)
    BY <1>1 DEF Core, Types
  <2>3. chan[r][1].kind = "data" => closed[r]
    BY <2>1, <2>2, TailFacts
  <2>4. ptr' \in [Roles -> Nat] /\ ptr'["server"] >= ptr["server"]
    BY <1>1, <2>1
  <2>5. Core'
    BY <1>1, <2>1, <2>3, <2>4, IdleKeeps
  <2> QED
    BY <1>3, <2>1, <2>5
<1>9. ASSUME NEW r \in Roles, OnClose(r)
      PROVE  IInv'
  <2>1. /\ WasteAll(r) /\ chan[r] # <<>> /\ Consume(r)
        /\ UNCHANGED <<ptr, sealed, opened, sum, failed, tampered>>
    BY <1>9 DEF OnClose, HeadIs, ghosts
  <2>2. failed' \in [Roles -> BOOLEAN]
    BY <1>1, <2>1
  <2>3. Core'
    BY <1>1, <2>1, <2>2, WasteKeeps
  <2> QED
    BY <1>3, <2>1, <2>3
<1>10. ASSUME NEW r \in Roles, Close(r)
       PROVE  IInv'
  <2>1. /\ WasteAll(r) /\ Post(r, [kind |-> "close"])
        /\ UNCHANGED <<ptr, sealed, opened, sum, failed, tampered>>
    BY <1>10 DEF Close, ghosts
  <2>2. failed' \in [Roles -> BOOLEAN]
    BY <1>1, <2>1
  <2>3. Core'
    BY <1>1, <2>1, <2>2, WasteKeeps
  <2> QED
    BY <1>3, <2>1, <2>3
<1>11. ASSUME NEW r \in Roles, Tamper(r)
       PROVE  IInv'
  <2>1. Core'
    BY <1>1, <1>11, TamperKeeps
  <2> QED
    BY <2>1, <1>11 DEF IInv, NeverRefused, Tamper
<1>12. CASE ServerPrefetch
  <2>1. Core'
    BY <1>1, <1>12, PrefetchKeeps DEF ServerPrefetch
  <2> QED
    BY <1>3, <1>12, <2>1 DEF ServerPrefetch, ghosts
<1>13. CASE ServerPrefetchFails
  <2>1. /\ WasteAll("server") /\ chan' = chan
        /\ UNCHANGED <<ptr, sealed, opened, sum, failed, tampered>>
    BY <1>13 DEF ServerPrefetchFails, ghosts
  <2>2. failed' \in [Roles -> BOOLEAN]
    BY <1>1, <2>1
  <2>3. Core'
    BY <1>1, <2>1, <2>2, WasteKeeps
  <2> QED
    BY <1>3, <2>1, <2>3
<1>14. CASE ClientNeed
  <2>1. /\ UNCHANGED pumpVars /\ Post("client", [kind |-> "need"])
        /\ UNCHANGED <<ptr, sealed, opened, sum, failed, tampered>>
    BY <1>14 DEF ClientNeed, ghosts
  <2>2. ptr' \in [Roles -> Nat] /\ ptr'["server"] >= ptr["server"]
    BY <1>1, <2>1
  <2>3. Core'
    BY <1>1, <2>1, <2>2, IdleKeeps
  <2> QED
    BY <1>3, <2>1, <2>3
<1>15. CASE OnNeed
  <2>1. /\ HeadIs("server", "need") /\ ~closed["server"] /\ UNCHANGED ghosts
        /\ chan["server"] # <<>> /\ Head(chan["server"]).kind = "need"
        /\ UNCHANGED <<sealed, opened, sum, failed, tampered>>
    BY <1>15 DEF OnNeed, HeadIs, ghosts
  <2>2. CASE Consume("server") /\ UNCHANGED <<pumpVars, ptr>>
    <3>1. chan["server"] \in Seq(Message)
      BY <1>1 DEF Core, Types
    <3>2. chan["server"][1].kind # "data"
      BY <2>1, <3>1, TailFacts
    <3>3. ptr' \in [Roles -> Nat] /\ ptr'["server"] >= ptr["server"]
      BY <1>1, <2>2
    <3>4. Core'
      BY <1>1, <2>1, <2>2, <3>2, <3>3, IdleKeeps
    <3> QED
      BY <1>3, <2>1, <3>4
  <2>3. CASE ~NextHeld("server") /\ Prefetches /\ Answer("server", Offer)
    <3>1. Core'
      BY <1>1, <2>1, <2>3, PrefetchKeeps
    <3> QED
      BY <1>3, <2>1, <3>1
  <2>4. CASE WasteAll("server") /\ Consume("server") /\ UNCHANGED ptr
    <3>1. failed' \in [Roles -> BOOLEAN]
      BY <1>1, <2>1
    <3>2. Core'
      BY <1>1, <2>1, <2>4, <3>1, WasteKeeps
    <3> QED
      BY <1>3, <2>1, <3>2
  <2> QED
    BY <1>15, <2>2, <2>3, <2>4 DEF OnNeed
<1>16. CASE OnOffer
  <2>1. Core'
    BY <1>1, <1>16, OfferKeeps
  <2> QED
    BY <1>3, <1>16, <2>1 DEF OnOffer, ghosts
<1>17. CASE OnOfferFails
  <2>1. /\ HeadIs("client", "offer") /\ ~closed["client"] /\ chan["client"] # <<>>
        /\ Consume("client") /\ UNCHANGED <<ptr, sealed, opened, sum, tampered>>
    BY <1>17 DEF OnOfferFails, HeadIs
  <2>2. CASE WasteAll("client") /\ UNCHANGED failed
    <3>1. failed' \in [Roles -> BOOLEAN]
      BY <1>1, <2>2
    <3>2. Core'
      BY <1>1, <2>1, <2>2, <3>1, WasteKeeps
    <3> QED
      BY <1>3, <2>1, <2>2, <3>2
  <2>3. CASE Refuse("client") /\ ~Acceptable(Head(chan["client"]))
    <3>1. tampered
      BY <1>1, <2>1, <2>3, OfferFits
    <3> QED
      BY <1>1, <1>2, <2>1, <2>3, <3>1
  <2> QED
    BY <1>17, <2>2, <2>3 DEF OnOfferFails
<1>18. CASE OnAck
  <2>1. HeadIs("server", "ack") /\ pending = Head(chan["server"]).bundle
    BY <1>1, <1>18, AckFits DEF OnAck
  <2>2. /\ Consume("server") /\ acked' = TRUE /\ pending' = 0
        /\ UNCHANGED <<cur, next, sendSeq, recvSeq, nextId, closed, failed>>
        /\ UNCHANGED <<ptr, sealed, opened, sum, tampered>>
    BY <1>18, <2>1 DEF OnAck
  <2>3. Core'
    BY <1>1, <2>1, <2>2, AckKeeps
  <2> QED
    BY <1>3, <2>2, <2>3
<1>19. CASE ServerBookMoves
  <2>1. /\ UNCHANGED pumpVars /\ chan' = chan
        /\ UNCHANGED <<sealed, opened, sum, failed, tampered>>
    BY <1>19 DEF ServerBookMoves, ghosts
  <2>2. PICK k \in 1 .. MaxSkip : ptr' = [ptr EXCEPT !["server"] = ptr["server"] + k]
    BY <1>1, <1>19 DEF ServerBookMoves
  <2>3. ptr["server"] + k \in Nat /\ ptr["server"] + k >= ptr["server"]
    BY <1>1, Sizes
  <2>4. ptr' \in [Roles -> Nat] /\ ptr'["server"] >= ptr["server"]
    BY <1>1, <2>2, <2>3
  <2>5. Core'
    BY <1>1, <2>1, <2>4, IdleKeeps
  <2> QED
    BY <1>3, <2>1, <2>5
<1>20. CASE UNCHANGED vars
  <2>1. /\ UNCHANGED pumpVars /\ chan' = chan /\ ptr' = ptr
        /\ UNCHANGED <<sealed, opened, sum, failed, tampered>>
    BY <1>20 DEF vars, pumpVars
  <2>2. ptr' \in [Roles -> Nat] /\ ptr'["server"] >= ptr["server"]
    BY <1>1, <2>1
  <2>3. Core'
    BY <1>1, <2>1, <2>2, IdleKeeps
  <2> QED
    BY <1>3, <2>1, <2>3
<1> QED
  BY <1>4, <1>5, <1>6, <1>7, <1>8, <1>9, <1>10, <1>11, <1>12, <1>13, <1>14, <1>15, <1>16,
     <1>17, <1>18, <1>19, <1>20 DEF Next, SendAny, Handle, Control

\* Every reachable state of the two pumps has streams, records, channels and
\* offers that agree with each other.
THEOREM Invariance == Spec => []IInv
<1>1. Init => IInv
  BY InitIInv
<1>2. IInv /\ [Next]_vars => IInv'
  BY NextIInv
<1> QED
  BY <1>1, <1>2, PTL DEF Spec

\* No pump reads past the end of a half, and no counter leaves its range.
THEOREM TypeCorrect == Spec => []TypeOK
<1>1. IInv => TypeOK
  BY DEF IInv, Core, Types
<1> QED
  BY <1>1, Invariance, PTL

\* Every pad byte is used in one record only, in one direction only, and
\* session_consumed counts each once.
THEOREM PadUsedOnceHolds == Spec => []PadUsedOnce
<1>1. ASSUME IInv
      PROVE  PadUsedOnce
  <2> USE Sizes
  <2>1. \A r \in Roles : Cardinality(PadOf(sealed[r])) = sum[r]
    BY <1>1 DEF IInv, Core, CountedFor
  <2>2. ASSUME NEW b \in PadOf(sealed["client"]), b \in PadOf(sealed["server"])
        PROVE  FALSE
    <3>1. /\ "client" \in Roles /\ "server" \in Roles
          /\ Out("client") = "c2s" /\ Out("server") = "s2c"
      BY DEF Roles, Out
    <3>2. PICK k \in DOMAIN sealed["client"] : b \in PadBytes(sealed["client"][k])
      BY DEF PadOf, PadBytes
    <3>3. PICK j \in DOMAIN sealed["server"] : b \in PadBytes(sealed["server"][j])
      BY <2>2 DEF PadOf, PadBytes
    <3> DEFINE x == sealed["client"][k]
               y == sealed["server"][j]
    <3>4. /\ x \in Data /\ y \in Data /\ k \in 1 .. Len(sealed["client"])
          /\ j \in 1 .. Len(sealed["server"])
      <4>1. sealed["client"] \in Seq(Data) /\ sealed["server"] \in Seq(Data)
        BY <1>1, <3>1 DEF IInv, Core, Types
      <4> QED
        BY <4>1
    <3>5. EndOf(x) <= PadHalf /\ EndOf(y) <= PadHalf
      BY <1>1, <3>1, <3>4 DEF IInv, Core, SealedBy
    <3>6. /\ Bundle("c2s", x.bundle, x.base) \in Known
          /\ Bundle("s2c", y.bundle, y.base) \in Known
      BY <3>1, KnownOnes
    <3> HIDE DEF x, y
    <3>7. /\ x.bundle \in Nat /\ x.base \in Nat /\ x.off \in Nat /\ x.len \in Nat
          /\ y.bundle \in Nat /\ y.base \in Nat /\ y.off \in Nat /\ y.len \in Nat
      BY <3>4 DEF Data
    <3>8. /\ Bundle("c2s", x.bundle, x.base).id = x.bundle
          /\ Bundle("c2s", x.bundle, x.base).start = x.base
          /\ Bundle("s2c", y.bundle, y.base).id = y.bundle
          /\ Bundle("s2c", y.bundle, y.base).start = y.base - PadHalf
      BY DEF Bundle, Start
    <3>9. /\ x.bundle = y.bundle => x.base = y.base - PadHalf
          /\ x.bundle < y.bundle => x.base + 2 * PadHalf <= y.base - PadHalf
          /\ y.bundle < x.bundle => y.base - PadHalf + 2 * PadHalf <= x.base
      BY <1>1, <3>6, <3>8 DEF IInv, Core, Chain
    <3>10. /\ b \in Int /\ x.base <= b /\ b < x.base + PadHalf
           /\ y.base <= b /\ b < y.base + PadHalf
      <4>1. /\ b \in x.base + x.off .. x.base + x.off + KeyLen + x.len - 1
            /\ b \in y.base + y.off .. y.base + y.off + KeyLen + y.len - 1
        BY <3>2, <3>3 DEF PadBytes, x, y
      <4>2. x.off + KeyLen + x.len <= PadHalf /\ y.off + KeyLen + y.len <= PadHalf
        BY <3>5 DEF EndOf
      <4> QED
        BY <3>7, <4>1, <4>2
    <3> QED
      BY <3>7, <3>9, <3>10
  <2> QED
    BY <2>1, <2>2 DEF PadUsedOnce
<1> QED
  BY <1>1, Invariance, PTL

\* What is opened is what was sealed, in the order it was sealed.
THEOREM OpenedWasSealedHolds == Spec => []OpenedWasSealed
<1>1. ASSUME IInv
      PROVE  OpenedWasSealed
  <2> SUFFICES ASSUME NEW r \in Roles
               PROVE  opened[r] = SubSeq(sealed[Peer(r)], 1, Len(opened[r]))
    BY DEF OpenedWasSealed
  <2> DEFINE q == sealed[Peer(r)]
             n == Len(opened[r])
  <2>1. q \in Seq(Data) /\ opened[r] \in Seq(Data) /\ n \in Nat /\ Len(q) \in Nat
    <3>1. sealed \in [Roles -> Seq(Data)] /\ opened \in [Roles -> Seq(Data)]
      BY <1>1 DEF IInv, Core, Types
    <3> QED
      BY <3>1, RolesFacts
  <2>2. ReceivedBy(r)
    BY <1>1 DEF IInv, Core
  <2>3. n <= Len(q) /\ \A k \in 1 .. n : opened[r][k] = q[k]
    BY <2>2 DEF ReceivedBy
  <2>4. /\ SubSeq(q, 1, n) \in Seq(Data) /\ Len(SubSeq(q, 1, n)) = n
        /\ \A k \in 1 .. n : SubSeq(q, 1, n)[k] = q[k]
    BY <2>1, <2>3
  <2>5. \A k \in 1 .. n : opened[r][k] = SubSeq(q, 1, n)[k]
    BY <2>3, <2>4
  <2> HIDE DEF q
  <2> QED
    BY <2>1, <2>4, <2>5, SeqEqual DEF q
<1> QED
  BY <1>1, Invariance, PTL

\* As long as no record is altered, neither end refuses a record, an offer or
\* an acknowledgement of the other.
THEOREM NeverRefusedHolds == Spec => []NeverRefused
<1>1. IInv => NeverRefused
  BY DEF IInv
<1> QED
  BY <1>1, Invariance, PTL

\* The server never sends under a bundle the client has not adopted.
THEOREM AckedBeforeUseHolds == Spec => []AckedBeforeUse
<1>1. IInv => AckedBeforeUse
  BY DEF IInv, Core, Negotiation
<1> QED
  BY <1>1, Invariance, PTL

=============================================================================
