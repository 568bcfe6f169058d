-------------------------- MODULE HandshakeProofs --------------------------
(***************************************************************************)
(* Proofs about the handshake, for any number of clients, of connections,  *)
(* of restarts and of damaged or stray frames, and any contents of the     *)
(* books.                                                                  *)
(*                                                                         *)
(* The inductive invariant follows a segment number from the allocator     *)
(* that issued it into the machines (ClientInv, ServerInv) and into the    *)
(* frames that carry it (Honest): what a frame that was really sent says   *)
(* about its sender stays true, so the receiver may rely on it, whichever  *)
(* connection it arrives on.                                               *)
(***************************************************************************)
EXTENDS Handshake, TLAPS

Segs == 0 .. SegmentCount
Keys == {Key(e, i) : e \in Ends, i \in Segs} \cup {NoKey}
Errors == {"None", "Transport", "Codec", "BadOrder", "PointerMismatch", "NonceMismatch",
           "Issuer", "Authentication"} \cup Results

ClientRec ==
    [phase : {"Idle", "HelloSent", "ConfirmSent", "Established", "AheadRecovery", "Failed"},
     cp : Segs, agreed : Segs, sn : Conn \cup {0}, key : Keys, err : Errors]

ServerRec ==
    [phase : Waiting \cup {"Idle", "Established", "AheadPending", "Failed"},
     sp : Segs, cn : Conn \cup {0}, key : Keys, err : Errors]

Hellos == [type : {"Hello"}, book : {BookId[e] : e \in Ends}, cn : Conn, cp : Segs]
Arbitrates == [type : {"Arbitrate"}, sn : Conn, sp : Segs, result : Results]
IssueRequests == [type : {"IssueRequest"}, chosen : Segs, cn : Conn, sn : Conn]
Confirms == [type : {"ConfirmC2S", "ConfirmS2C"}, seg : Segs, cn : Conn \cup {0},
             sn : Conn, key : Keys, intact : BOOLEAN]
Frames == Hellos \cup Arbitrates \cup IssueRequests \cup Confirms \cup {Unreadable}

Types ==
    /\ alloc \in [Ends -> AllocatorState]
    /\ owner \in Seq(Clients) /\ made <= MaxConn
    /\ running \in [Clients -> 0 .. MaxConn]
    /\ client \in [Conn -> ClientRec] /\ server \in [Conn -> ServerRec]
    /\ threads \subseteq 1 .. made /\ holder \in 0 .. MaxConn
    /\ c2s \in [Conn -> Seq(Frames)] /\ s2c \in [Conn -> Seq(Frames)]
    /\ sent \subseteq Frames
    /\ faults \in Nat /\ restarts \in Nat

\* An allocator that is not halted has in its anchors what it has in memory;
\* one that is may have less.
Sound(a) == a.disk <= a.next /\ (~a.halted => a.disk = a.next)

\* A process has the connection it made last, and one thread the mutex.
Processes ==
    /\ \A k \in Clients : running[k] # 0 => running[k] \in 1 .. made /\ owner[running[k]] = k
    /\ \A c \in threads : server[c].phase \in Waiting => holder = c
    /\ holder # 0 => holder \in threads /\ server[holder].phase \in Waiting

\* A connection not made yet.
Unused(c) ==
    /\ client[c] = NoClient /\ server[c] = NoServer
    /\ c2s[c] = <<>> /\ s2c[c] = <<>>

\* The key of a client is the segment it agreed to, which is burnt for good.
\* Until then its allocator stands where HELLO said.
ClientInv(c) ==
    /\ client[c].phase \in {"Idle", "HelloSent"} => client[c].key = NoKey
    /\ client[c].phase = "HelloSent" /\ running[owner[c]] = c =>
          ~alloc[owner[c]].halted /\ alloc[owner[c]].next = client[c].cp
    /\ client[c].key # NoKey =>
          /\ client[c].key = Key(owner[c], client[c].agreed)
          /\ client[c].agreed < alloc[owner[c]].disk
          /\ client[c].sn \in Conn
    /\ client[c].phase = "Established" =>
          LET d == client[c].sn IN
          /\ client[c].key # NoKey
          /\ server[d].phase = "Established" /\ server[d].cn = c

\* The key of a server thread is the segment its pointer named, which is burnt
\* for good; the client whose nonce it has got agreed to it for this connection.
ServerInv(c) ==
    /\ server[c].phase \in {"Idle", "HelloWait", "IssueWait"} => server[c].key = NoKey
    /\ c \in threads /\ server[c].phase \in {"HelloWait", "IssueWait"} =>
          server[c].sp = alloc[Server].next
    /\ server[c].phase \in {"IssueWait", "ConfirmWait"} => server[c].cn \in 1 .. made
    /\ server[c].phase = "ConfirmWait" => server[c].key # NoKey
    /\ server[c].key # NoKey =>
          /\ server[c].key = Key(Server, server[c].sp)
          /\ server[c].sp < alloc[Server].disk
          /\ server[c].cn \in 1 .. made
          /\ LET peer == client[server[c].cn] IN
             peer.key # NoKey /\ peer.agreed = server[c].sp /\ peer.sn = c
    /\ server[c].phase = "Established" =>
          server[c].key # NoKey /\ client[server[c].cn].key = server[c].key

\* No segment is issued twice by one allocator.
Distinct ==
    \A c, d \in 1 .. made : c # d =>
        /\ server[c].key # NoKey /\ server[d].key # NoKey => server[c].sp # server[d].sp
        /\ owner[c] = owner[d] /\ client[c].key # NoKey /\ client[d].key # NoKey =>
              client[c].agreed # client[d].agreed

\* What a frame says of the machine that sent it.
SaysTrue(m) ==
    /\ m.type = "Hello" => m.cn \in 1 .. made
    /\ m.type = "IssueRequest" =>
          /\ m.cn \in 1 .. made /\ client[m.cn].key # NoKey
          /\ client[m.cn].agreed = m.chosen /\ client[m.cn].sn = m.sn
    /\ m.type = "ConfirmC2S" =>
          /\ m.cn \in 1 .. made /\ client[m.cn].key = m.key /\ m.key # NoKey
          /\ client[m.cn].agreed = m.seg /\ client[m.cn].sn = m.sn
    /\ m.type = "ConfirmS2C" =>
          /\ m.sn \in 1 .. made /\ server[m.sn].phase = "Established"
          /\ server[m.sn].cn = m.cn /\ server[m.sn].key = m.key

\* A frame in flight is one of S, those that were sent, or was damaged on the way.
Genuine(m, S) ==
    \/ m \in S
    \/ m.type = "Unreadable"
    \/ m.type \in {"ConfirmC2S", "ConfirmS2C"} /\ ~m.intact

Carried(q, S) == \A j \in DOMAIN q : Genuine(q[j], S)

InFlight == \A c \in Conn : Carried(c2s[c], sent) /\ Carried(s2c[c], sent)

Allocators == \A e \in Ends : Sound(alloc[e])
Fresh == \A c \in Conn : c > made => Unused(c)
ClientsInv == \A c \in 1 .. made : ClientInv(c)
ServersInv == \A c \in 1 .. made : ServerInv(c)
Honest == \A m \in sent : SaysTrue(m)

IInv == /\ Types /\ Allocators /\ Processes /\ Fresh
        /\ ClientsInv /\ ServersInv /\ Distinct /\ Honest /\ InFlight

-----------------------------------------------------------------------------
(* Keys, frames and allocators.                                            *)

LEMMA KeyFacts ==
    ASSUME NEW e, NEW f, NEW i, NEW j
    PROVE  Key(e, i) # NoKey /\ (Key(e, i) = Key(f, j) => i = j)
BY DEF Key, NoKey

LEMMA FrameKinds ==
    ASSUME NEW m \in Frames
    PROVE  /\ m.type = "Hello" => m \in Hellos
           /\ m.type = "Arbitrate" => m \in Arbitrates
           /\ m.type = "IssueRequest" => m \in IssueRequests
           /\ m.type \in {"ConfirmC2S", "ConfirmS2C"} => m \in Confirms
BY DEF Frames, Hellos, Arbitrates, IssueRequests, Confirms, Unreadable

\* The frame at the head of a queue, and the queue without it.
LEMMA Arrived ==
    ASSUME NEW S, NEW q \in Seq(Frames), Carried(q, S), NEW m \in Arriving(q)
    PROVE  /\ m \in Frames /\ Genuine(m, S) /\ q # <<>> /\ m = q[1]
           /\ Tail(q) \in Seq(Frames) /\ Carried(Tail(q), S)
<1>1. q # <<>> /\ 1 \in DOMAIN q /\ m = q[1]
  BY DEF Arriving
<1>2. m \in Frames /\ Genuine(m, S)
  BY <1>1 DEF Carried
<1>3. Tail(q) \in Seq(Frames)
  BY <1>1
<1>4. \A j \in DOMAIN Tail(q) : j + 1 \in DOMAIN q /\ Tail(q)[j] = q[j + 1]
  BY <1>1
<1>5. QED
  BY <1>1, <1>2, <1>3, <1>4 DEF Carried

\* A queue that gets frames that were sent.
LEMMA Queued ==
    ASSUME NEW S, NEW q \in Seq(Frames), NEW ms \in Seq(Frames), Carried(q, S), Carried(ms, S)
    PROVE  q \o ms \in Seq(Frames) /\ Carried(q \o ms, S)
<1>1. q \o ms \in Seq(Frames)
  OBVIOUS
<1>2. ASSUME NEW j \in DOMAIN (q \o ms)
      PROVE  Genuine((q \o ms)[j], S)
  <2>1. Len(q) \in Nat /\ Len(ms) \in Nat /\ DOMAIN q = 1 .. Len(q) /\ DOMAIN ms = 1 .. Len(ms)
        /\ j \in 1 .. Len(q) + Len(ms)
    BY <1>2
  <2>2. CASE j <= Len(q)
    <3>1. j \in DOMAIN q /\ (q \o ms)[j] = q[j]
      BY <2>1, <2>2
    <3>2. QED
      BY <3>1 DEF Carried
  <2>3. CASE j > Len(q)
    <3>1. j - Len(q) \in DOMAIN ms /\ (q \o ms)[j] = ms[j - Len(q)]
      BY <2>1, <2>3
    <3>2. QED
      BY <3>1 DEF Carried
  <2>4. QED
    BY <2>1, <2>2, <2>3
<1>3. QED
  BY <1>1, <1>2 DEF Carried

LEMMA Appended ==
    ASSUME NEW S, NEW q \in Seq(Frames), NEW m \in Frames, m \in S, Carried(q, S)
    PROVE  Append(q, m) \in Seq(Frames) /\ Carried(Append(q, m), S)
<1>1. Append(q, m) \in Seq(Frames)
  OBVIOUS
<1>2. \A j \in DOMAIN Append(q, m) : (j \in DOMAIN q /\ Append(q, m)[j] = q[j]) \/ Append(q, m)[j] = m
  OBVIOUS
<1>3. QED
  BY <1>1, <1>2 DEF Carried, Genuine

LEMMA CarriedMore ==
    ASSUME NEW S, NEW T, S \subseteq T, NEW q, Carried(q, S)
    PROVE  Carried(q, T)
BY DEF Carried, Genuine

\* A call of issue(), whatever its outcome: no pointer goes back.
LEMMA OneIssue ==
    ASSUME NEW a \in AllocatorState, Sound(a), NEW b,
           b \in IssueFailed(a) \/ (CanIssue(a) /\ b = Issued(a, 1))
    PROVE  b \in AllocatorState /\ Sound(b) /\ b.disk >= a.disk
<1>1. SegmentCount \in Nat
  BY HandshakeAssumption
<1>2. CASE CanIssue(a) /\ b = Issued(a, 1)
  BY <1>1, <1>2 DEF CanIssue, Issued, AllocatorState, Sound
<1>3. CASE b = a
  BY <1>3, <1>1 DEF AllocatorState, Sound
<1>4. CASE CanIssue(a) /\ \E d \in {a.disk, a.next + 1} : b = [next |-> a.next + 1, disk |-> d, halted |-> TRUE]
  BY <1>1, <1>4 DEF CanIssue, AllocatorState, Sound
<1>5. QED
  BY <1>2, <1>3, <1>4 DEF IssueFailed

LEMMA ManyIssues ==
    ASSUME NEW a \in AllocatorState, Sound(a), NEW n \in Nat \ {0}, CanIssueMany(a, n)
    PROVE  /\ Issued(a, n) \in AllocatorState /\ Sound(Issued(a, n))
           /\ Issued(a, n).disk = a.next + n /\ a.next + n <= SegmentCount
           /\ Issued(a, n).next = a.next + n
<1>1. SegmentCount \in Nat
  BY HandshakeAssumption
<1>2. n - 1 \in 0 .. n - 1
  OBVIOUS
<1>3. CanIssue(Issued(a, n - 1))
  BY <1>2 DEF CanIssueMany
<1>4. ~a.halted /\ a.next + (n - 1) < SegmentCount
  BY <1>3 DEF CanIssue, Issued, AllocatorState
<1>5. QED
  BY <1>1, <1>4 DEF Issued, AllocatorState, Sound

LEMMA ManyIssuesFailed ==
    ASSUME NEW a \in AllocatorState, Sound(a), NEW n \in Nat, NEW b \in IssuesFailed(a, n)
    PROVE  b \in AllocatorState /\ Sound(b) /\ b.disk >= a.disk
<1>1. PICK k \in 0 .. n - 1 : /\ \A i \in 0 .. k - 1 : CanIssue(Issued(a, i))
                              /\ b \in IssueFailed(Issued(a, k))
  BY DEF IssuesFailed
<1>2. CASE k = 0
  <2>1. Issued(a, 0) \in AllocatorState /\ Sound(Issued(a, 0)) /\ Issued(a, 0).disk >= a.disk
    BY HandshakeAssumption DEF Issued, AllocatorState, Sound
  <2>2. b \in AllocatorState /\ Sound(b) /\ b.disk >= Issued(a, 0).disk
    BY <2>1, <1>1, <1>2, OneIssue
  <2>3. QED
    BY <2>1, <2>2, HandshakeAssumption DEF AllocatorState
<1>3. CASE k # 0
  <2>1. k \in Nat \ {0} /\ CanIssueMany(a, k)
    BY <1>1, <1>3 DEF CanIssueMany
  <2>2. Issued(a, k) \in AllocatorState /\ Sound(Issued(a, k)) /\ Issued(a, k).disk = a.next + k
    BY <2>1, ManyIssues
  <2>3. b \in AllocatorState /\ Sound(b) /\ b.disk >= Issued(a, k).disk
    BY <2>2, <1>1, OneIssue
  <2>4. a.next + k >= a.disk
    BY <2>1 DEF AllocatorState, Sound
  <2>5. QED
    BY <2>1, <2>2, <2>3, <2>4, HandshakeAssumption DEF AllocatorState
<1>4. QED
  BY <1>2, <1>3

LEMMA Reopening ==
    ASSUME NEW a \in AllocatorState
    PROVE  /\ Reopened(a) \in AllocatorState /\ Sound(Reopened(a))
           /\ Reopened(a).disk = a.disk /\ ~Reopened(a).halted /\ Reopened(a).next = a.disk
BY HandshakeAssumption DEF Reopened, AllocatorState, Sound

-----------------------------------------------------------------------------
(* What the steps of one machine do to its record.                         *)

LEMMA ClientFailsEffect ==
    ASSUME client \in [Conn -> ClientRec], NEW c \in Conn, NEW err \in Errors, ClientFails(c, err)
    PROVE  /\ client' \in [Conn -> ClientRec]
           /\ \A d \in Conn \ {c} : client'[d] = client[d]
           /\ client'[c].phase = "Failed" /\ client'[c].err = err
           /\ client'[c].cp = client[c].cp /\ client'[c].agreed = client[c].agreed
           /\ client'[c].sn = client[c].sn /\ client'[c].key = client[c].key
BY DEF ClientFails, ClientRec

-----------------------------------------------------------------------------
(* What no step takes back, and what follows for the parts of the          *)
(* invariant that a step does not touch.                                   *)

Grows ==
    /\ sent \subseteq sent'
    /\ made <= made' /\ \A c \in 1 .. made : owner'[c] = owner[c]
    /\ \A c \in 1 .. made : client[c].key # NoKey =>
          /\ client'[c].key = client[c].key /\ client'[c].agreed = client[c].agreed
          /\ client'[c].sn = client[c].sn
    /\ \A c \in 1 .. made : server[c].key # NoKey =>
          /\ server'[c].key = server[c].key /\ server'[c].sp = server[c].sp
          /\ server'[c].cn = server[c].cn
    /\ \A c \in 1 .. made : server[c].phase = "Established" => server'[c].phase = "Established"
    /\ \A e \in Ends : alloc'[e].disk >= alloc[e].disk

LEMMA Numbers ==
    ASSUME Types
    PROVE  /\ made \in Nat /\ 1 .. made \subseteq Conn /\ SegmentCount \in Nat /\ MaxConn \in Nat
           /\ \A c \in 1 .. made : owner[c] \in Clients /\ owner[c] \in Ends
           /\ Server \in Ends /\ Server \notin Clients
BY HandshakeAssumption DEF Types, made, Conn, Ends

LEMMA Pointers ==
    ASSUME NEW al \in [Ends -> AllocatorState], NEW cl \in [Conn -> ClientRec],
           NEW sv \in [Conn -> ServerRec]
    PROVE  /\ \A e \in Ends : al[e].disk \in Nat /\ al[e].next \in Nat
           /\ \A c \in Conn : cl[c].agreed \in Nat /\ cl[c].cp \in Nat /\ sv[c].sp \in Nat
BY HandshakeAssumption DEF AllocatorState, ClientRec, ServerRec, Segs

LEMMA HonestKept ==
    ASSUME IInv, Grows, Types', \A m \in sent' \ sent : SaysTrue(m)'
    PROVE  Honest'
<1>1. SUFFICES ASSUME NEW m \in sent
               PROVE  SaysTrue(m)'
  BY DEF Honest
<1>2. SaysTrue(m)
  BY DEF IInv, Honest
<1>3. \A c \in 1 .. made : c \in 1 .. made'
  BY Numbers DEF IInv, Types, Grows, made
<1>4. m.type = "Hello" => m.cn \in 1 .. made'
  BY <1>2, <1>3 DEF SaysTrue
<1>5. m.type = "IssueRequest" =>
          /\ m.cn \in 1 .. made' /\ client'[m.cn].key # NoKey
          /\ client'[m.cn].agreed = m.chosen /\ client'[m.cn].sn = m.sn
  BY <1>2, <1>3 DEF SaysTrue, Grows
<1>6. m.type = "ConfirmC2S" =>
          /\ m.cn \in 1 .. made' /\ client'[m.cn].key = m.key /\ m.key # NoKey
          /\ client'[m.cn].agreed = m.seg /\ client'[m.cn].sn = m.sn
  BY <1>2, <1>3 DEF SaysTrue, Grows
<1>7. m.type = "ConfirmS2C" =>
          /\ m.sn \in 1 .. made' /\ server'[m.sn].phase = "Established"
          /\ server'[m.sn].cn = m.cn /\ server'[m.sn].key = m.key
  <2>1. \A c \in 1 .. made : server[c].phase = "Established" => server[c].key # NoKey
    BY DEF IInv, ServersInv, ServerInv
  <2>2. QED
    BY <1>2, <1>3, <2>1 DEF SaysTrue, Grows
<1>8. QED
  BY <1>4, <1>5, <1>6, <1>7 DEF SaysTrue

LEMMA ClientKept ==
    ASSUME IInv, Grows, NEW c \in 1 .. made, client'[c] = client[c],
           running'[owner[c]] = c =>
              running[owner[c]] = c /\ alloc'[owner[c]] = alloc[owner[c]],
           Types'
    PROVE  ClientInv(c)'
<1>1. ClientInv(c) /\ owner'[c] = owner[c] /\ owner[c] \in Ends
  BY Numbers DEF IInv, ClientsInv, Grows
<1>2. client'[c].phase \in {"Idle", "HelloSent"} => client'[c].key = NoKey
  BY <1>1 DEF ClientInv
<1>3. client'[c].phase = "HelloSent" /\ running'[owner'[c]] = c =>
          ~alloc'[owner'[c]].halted /\ alloc'[owner'[c]].next = client'[c].cp
  BY <1>1 DEF ClientInv
<1>4. client'[c].key # NoKey =>
          /\ client'[c].key = Key(owner'[c], client'[c].agreed)
          /\ client'[c].agreed < alloc'[owner'[c]].disk
          /\ client'[c].sn \in Conn
  <2>1. SUFFICES ASSUME client[c].key # NoKey
                 PROVE  /\ client[c].key = Key(owner[c], client[c].agreed)
                        /\ client[c].agreed < alloc'[owner[c]].disk
                        /\ client[c].sn \in Conn
    BY <1>1
  <2>2. client[c].agreed < alloc[owner[c]].disk /\ client[c].sn \in Conn
        /\ client[c].key = Key(owner[c], client[c].agreed)
    BY <1>1, <2>1 DEF ClientInv
  <2>3. alloc'[owner[c]].disk >= alloc[owner[c]].disk
    BY <1>1 DEF Grows
  <2>4. client[c].agreed \in Nat /\ alloc'[owner[c]].disk \in Nat /\ alloc[owner[c]].disk \in Nat
    <3>1. c \in Conn /\ Types /\ Types'
      BY Numbers DEF IInv
    <3>2. QED
      BY <1>1, <3>1, Pointers DEF Types
  <2>5. QED
    BY <2>2, <2>3, <2>4
<1>5. client'[c].phase = "Established" =>
          /\ client'[c].key # NoKey
          /\ server'[client'[c].sn].phase = "Established" /\ server'[client'[c].sn].cn = c
  <2>1. SUFFICES ASSUME client[c].phase = "Established"
                 PROVE  /\ client[c].key # NoKey
                        /\ server'[client[c].sn].phase = "Established" /\ server'[client[c].sn].cn = c
    BY <1>1
  <2>2. /\ client[c].key # NoKey /\ client[c].sn \in Conn
        /\ server[client[c].sn].phase = "Established" /\ server[client[c].sn].cn = c
    BY <1>1, <2>1 DEF ClientInv
  <2>3. client[c].sn \in 1 .. made
    BY <2>2, Numbers DEF IInv, Fresh, Unused, NoServer, Conn
  <2>4. server[client[c].sn].key # NoKey
    BY <2>2, <2>3 DEF IInv, ServersInv, ServerInv
  <2>5. QED
    BY <2>2, <2>3, <2>4 DEF Grows
<1>6. QED
  BY <1>2, <1>3, <1>4, <1>5 DEF ClientInv

LEMMA ServerKept ==
    ASSUME IInv, Grows, NEW c \in 1 .. made, server'[c] = server[c],
           c \in threads' /\ server[c].phase \in {"HelloWait", "IssueWait"} =>
              c \in threads /\ alloc'[Server].next = alloc[Server].next,
           Types'
    PROVE  ServerInv(c)'
<1>1. ServerInv(c)
  BY DEF IInv, ServersInv
<1>2. \A d \in 1 .. made : d \in 1 .. made'
  BY Numbers DEF IInv, Types, Grows, made
<1>3. server'[c].phase \in {"Idle", "HelloWait", "IssueWait"} => server'[c].key = NoKey
  BY <1>1 DEF ServerInv
<1>4. c \in threads' /\ server'[c].phase \in {"HelloWait", "IssueWait"} =>
          server'[c].sp = alloc'[Server].next
  BY <1>1 DEF ServerInv
<1>5. server'[c].phase \in {"IssueWait", "ConfirmWait"} => server'[c].cn \in 1 .. made'
  BY <1>1, <1>2 DEF ServerInv
<1>6. server'[c].phase = "ConfirmWait" => server'[c].key # NoKey
  BY <1>1 DEF ServerInv
<1>7. ASSUME server[c].key # NoKey
      PROVE  /\ server[c].key = Key(Server, server[c].sp)
             /\ server[c].sp < alloc'[Server].disk
             /\ server[c].cn \in 1 .. made'
             /\ LET peer == client'[server[c].cn] IN
                peer.key # NoKey /\ peer.agreed = server[c].sp /\ peer.sn = c
             /\ client'[server[c].cn].key = client[server[c].cn].key
  <2>1. /\ server[c].key = Key(Server, server[c].sp)
        /\ server[c].sp < alloc[Server].disk
        /\ server[c].cn \in 1 .. made
        /\ client[server[c].cn].key # NoKey /\ client[server[c].cn].agreed = server[c].sp
        /\ client[server[c].cn].sn = c
    BY <1>1, <1>7 DEF ServerInv
  <2>2. alloc'[Server].disk >= alloc[Server].disk
    BY Numbers DEF Grows, IInv
  <2>3. server[c].sp \in Nat /\ alloc'[Server].disk \in Nat /\ alloc[Server].disk \in Nat
    <3>1. c \in Conn /\ Types /\ Types' /\ Server \in Ends
      BY Numbers DEF IInv
    <3>2. QED
      BY <3>1, Pointers DEF Types
  <2>4. server[c].sp < alloc'[Server].disk
    BY <2>1, <2>2, <2>3
  <2>5. QED
    BY <2>1, <2>4, <1>2 DEF Grows
<1>8. server'[c].phase = "Established" =>
          server'[c].key # NoKey /\ client'[server'[c].cn].key = server'[c].key
  BY <1>1, <1>7 DEF ServerInv
<1>9. QED
  BY <1>3, <1>4, <1>5, <1>6, <1>7, <1>8 DEF ServerInv

LEMMA DistinctKept ==
    ASSUME IInv, Grows, owner' = owner,
           \A c \in 1 .. made : client'[c].key = client[c].key /\ server'[c].key = server[c].key
    PROVE  Distinct'
BY DEF IInv, Distinct, Grows, made

-----------------------------------------------------------------------------
(* Steps on the queues and on one allocator.                               *)

Wire ==
    /\ c2s' \in [Conn -> Seq(Frames)] /\ s2c' \in [Conn -> Seq(Frames)]
    /\ \A d \in Conn : d > made' => c2s'[d] = <<>> /\ s2c'[d] = <<>>
    /\ InFlight'

LEMMA WireStep ==
    ASSUME IInv, sent \subseteq sent', made <= made', made' \in Nat,
           NEW c \in Conn, c <= made',
           NEW q \in Seq(Frames), NEW r \in Seq(Frames), Carried(q, sent'), Carried(r, sent'),
           c2s' = [c2s EXCEPT ![c] = q], s2c' = [s2c EXCEPT ![c] = r]
    PROVE  Wire
<1>1. c2s \in [Conn -> Seq(Frames)] /\ s2c \in [Conn -> Seq(Frames)] /\ made \in Nat
  BY Numbers DEF IInv, Types
<1>2. c2s' \in [Conn -> Seq(Frames)] /\ s2c' \in [Conn -> Seq(Frames)]
  BY <1>1
<1>3. \A d \in Conn \ {c} : c2s'[d] = c2s[d] /\ s2c'[d] = s2c[d]
  BY <1>1
<1>4. c2s'[c] = q /\ s2c'[c] = r
  BY <1>1
<1>5. \A d \in Conn : d > made' => c2s'[d] = <<>> /\ s2c'[d] = <<>>
  <2>1. \A d \in Conn : d > made' => d # c /\ d > made
    BY <1>1 DEF Conn
  <2>2. QED
    BY <2>1, <1>3 DEF IInv, Fresh, Unused
<1>6. \A d \in Conn : Carried(c2s'[d], sent') /\ Carried(s2c'[d], sent')
  <2>1. \A d \in Conn \ {c} : Carried(c2s[d], sent') /\ Carried(s2c[d], sent')
    BY CarriedMore DEF IInv, InFlight
  <2>2. QED
    BY <2>1, <1>3, <1>4
<1>7. QED
  BY <1>2, <1>5, <1>6 DEF Wire, InFlight

\* The only allocator that changes is that of e, whose pointers do not go back.
Moves(e) ==
    /\ alloc' \in [Ends -> AllocatorState]
    /\ \A f \in Ends \ {e} : alloc'[f] = alloc[f]
    /\ Sound(alloc'[e]) /\ alloc'[e].disk >= alloc[e].disk

LEMMA MoveStep ==
    ASSUME IInv, NEW e \in Ends, NEW b \in AllocatorState, Sound(b), b.disk >= alloc[e].disk,
           alloc' = [alloc EXCEPT ![e] = b]
    PROVE  Moves(e) /\ alloc'[e] = b
BY DEF Moves, IInv, Types

LEMMA MovesKeep ==
    ASSUME IInv, NEW e \in Ends, Moves(e)
    PROVE  Allocators' /\ \A f \in Ends : alloc'[f].disk >= alloc[f].disk
<1>1. \A f \in Ends : alloc[f].disk \in Nat
  BY HandshakeAssumption DEF IInv, Types, AllocatorState
<1>2. QED
  BY <1>1 DEF Moves, IInv, Allocators

LEMMA StandsStill ==
    ASSUME IInv, alloc' = alloc, NEW e \in Ends
    PROVE  Moves(e)
<1>1. \A f \in Ends : alloc[f].disk \in Nat
  BY HandshakeAssumption DEF IInv, Types, AllocatorState
<1>2. QED
  BY <1>1 DEF Moves, IInv, Types, Allocators

-----------------------------------------------------------------------------
(* A client leaves the handshake, without a key it had not got before.     *)

ClientEnds(c) ==
    /\ client' \in [Conn -> ClientRec]
    /\ \A d \in Conn \ {c} : client'[d] = client[d]
    /\ client'[c].phase \in {"Failed", "AheadRecovery", "Established"}
    /\ client'[c].key = client[c].key
    /\ client[c].key # NoKey =>
          client'[c].agreed = client[c].agreed /\ client'[c].sn = client[c].sn
    /\ client'[c].phase = "Established" =>
          /\ client[c].key # NoKey
          /\ server[client[c].sn].phase = "Established" /\ server[client[c].sn].cn = c

LEMMA LiveFacts ==
    ASSUME IInv, NEW c \in Conn, Live(c)
    PROVE  /\ c \in 1 .. made /\ owner[c] \in Clients /\ running[owner[c]] = c
           /\ \A d \in 1 .. made \ {c} : running[owner[d]] = d => owner[d] # owner[c]
BY Numbers DEF IInv, Live, Conn

LEMMA ClientEndsKeeps ==
    ASSUME IInv, NEW c \in Conn, Live(c), ClientEnds(c), Moves(owner[c]), Wire,
           UNCHANGED <<owner, running, server, threads, holder, sent, faults, restarts>>
    PROVE  IInv'
<1>1. /\ c \in 1 .. made /\ owner[c] \in Clients /\ owner[c] \in Ends /\ running[owner[c]] = c
      /\ owner[c] # Server
      /\ made' = made
  BY LiveFacts, Numbers DEF IInv, made
<1>2. Types'
  BY <1>1 DEF IInv, Types, ClientEnds, Moves, Wire, made
<1>3. Allocators' /\ \A f \in Ends : alloc'[f].disk >= alloc[f].disk
  BY <1>1, MovesKeep
<1>4. Processes'
  BY <1>1 DEF IInv, Processes, made
<1>5. Fresh'
  <2>1. \A d \in Conn : d > made => d # c
    BY <1>1, Numbers DEF IInv, Conn
  <2>2. QED
    BY <1>1, <2>1 DEF IInv, Fresh, Unused, ClientEnds, Wire
<1>6. Grows
  <2>1. \A d \in 1 .. made : client[d].key # NoKey =>
          /\ client'[d].key = client[d].key /\ client'[d].agreed = client[d].agreed
          /\ client'[d].sn = client[d].sn
    BY <1>1, Numbers DEF ClientEnds, IInv
  <2>2. QED
    BY <1>1, <1>3, <2>1, Numbers DEF Grows, IInv
<1>7. ClientsInv'
  <2>1. ASSUME NEW d \in 1 .. made, d # c
        PROVE  ClientInv(d)'
    <3>1. client'[d] = client[d]
      BY <2>1, Numbers DEF ClientEnds, IInv
    <3>2. running'[owner[d]] = d => running[owner[d]] = d /\ alloc'[owner[d]] = alloc[owner[d]]
      BY <2>1, LiveFacts, Numbers DEF IInv, Moves
    <3>3. QED
      BY <1>2, <1>6, <3>1, <3>2, ClientKept
  <2>2. ClientInv(c)'
    <3>1. /\ client'[c].phase \notin {"Idle", "HelloSent"}
          /\ client'[c].phase = "Established" =>
                /\ client'[c].key # NoKey
                /\ server'[client'[c].sn].phase = "Established" /\ server'[client'[c].sn].cn = c
      BY DEF ClientEnds
    <3>2. ASSUME client'[c].key # NoKey
          PROVE  /\ client'[c].key = Key(owner'[c], client'[c].agreed)
                 /\ client'[c].agreed < alloc'[owner'[c]].disk
                 /\ client'[c].sn \in Conn
      <4>1. /\ client[c].key # NoKey /\ client'[c].key = client[c].key
            /\ client'[c].agreed = client[c].agreed /\ client'[c].sn = client[c].sn
        BY <3>2 DEF ClientEnds
      <4>2. /\ client[c].key = Key(owner[c], client[c].agreed)
            /\ client[c].agreed < alloc[owner[c]].disk
            /\ client[c].sn \in Conn
        BY <4>1, <1>1 DEF IInv, ClientsInv, ClientInv
      <4>3. client[c].agreed \in Nat /\ alloc'[owner[c]].disk \in Nat /\ alloc[owner[c]].disk \in Nat
        BY <1>1, <1>2, Pointers DEF Types, IInv
      <4>4. QED
        BY <4>1, <4>2, <4>3, <1>1, <1>3
    <3>3. QED
      BY <3>1, <3>2 DEF ClientInv
  <2>3. QED
    BY <1>1, <2>1, <2>2 DEF ClientsInv
<1>8. ServersInv'
  <2>1. ASSUME NEW d \in 1 .. made
        PROVE  ServerInv(d)'
    <3>1. alloc'[Server] = alloc[Server]
      BY <1>1, Numbers DEF Moves, IInv
    <3>2. QED
      BY <1>2, <1>6, <3>1, ServerKept
  <2>2. QED
    BY <1>1, <2>1 DEF ServersInv
<1>9. Distinct'
  <2>1. \A d \in 1 .. made : client'[d].key = client[d].key /\ server'[d].key = server[d].key
    BY Numbers DEF ClientEnds, IInv
  <2>2. QED
    BY <1>6, <2>1, DistinctKept
<1>10. Honest'
  BY <1>2, <1>6, HonestKept
<1>11. QED
  BY <1>2, <1>3, <1>4, <1>5, <1>7, <1>8, <1>9, <1>10 DEF IInv, Wire

-----------------------------------------------------------------------------
(* A thread leaves server_handshake, without a key it had not got before.  *)

ThreadEnds(c) ==
    /\ server' \in [Conn -> ServerRec]
    /\ \A d \in Conn \ {c} : server'[d] = server[d]
    /\ server'[c].phase \in {"Failed", "AheadPending", "Established"}
    /\ server'[c].key = server[c].key /\ server'[c].sp = server[c].sp
    /\ server[c].key # NoKey => server'[c].cn = server[c].cn
    /\ server'[c].phase = "Established" =>
          server[c].key # NoKey /\ client[server[c].cn].key = server[c].key
    /\ threads' = threads \ {c} /\ holder' = 0

LEMMA ThreadFacts ==
    ASSUME IInv, NEW c \in threads, server[c].phase \in Waiting
    PROVE  /\ c \in 1 .. made /\ c \in Conn /\ c # 0 /\ holder = c
           /\ \A d \in threads \ {c} : server[d].phase \notin Waiting
           /\ server[c].phase # "Established"
BY SMTT(30), Numbers DEF IInv, Processes, Types, Waiting

LEMMA ThreadEndsKeeps ==
    ASSUME IInv, NEW c \in threads, server[c].phase \in Waiting, ThreadEnds(c), Moves(Server),
           Wire, sent \subseteq sent', sent' \subseteq Frames, \A m \in sent' \ sent : SaysTrue(m)',
           UNCHANGED <<owner, running, client, faults, restarts>>
    PROVE  IInv'
<1>1. /\ c \in 1 .. made /\ c \in Conn /\ c # 0 /\ holder = c
      /\ \A d \in threads \ {c} : server[d].phase \notin Waiting
      /\ Server \in Ends /\ made' = made /\ made \in Nat /\ 1 .. made \subseteq Conn
  BY ThreadFacts, Numbers DEF IInv, made
<1>2. Types'
  <2>1. threads' \subseteq 1 .. made' /\ holder' \in 0 .. MaxConn
    <3>1. threads \subseteq 1 .. made
      BY DEF IInv, Types
    <3>2. threads' \subseteq threads /\ holder' = 0
      BY DEF ThreadEnds
    <3>3. 0 \in 0 .. MaxConn
      BY HandshakeAssumption
    <3>4. QED
      BY <1>1, <3>1, <3>2, <3>3
  <2>2. QED
    BY <1>1, <2>1 DEF IInv, Types, ThreadEnds, Moves, Wire, made
<1>3. Allocators' /\ \A f \in Ends : alloc'[f].disk >= alloc[f].disk
  BY <1>1, MovesKeep
<1>4. Processes'
  BY <1>1 DEF IInv, Processes, Types, ThreadEnds, made
<1>5. Fresh'
  <2>1. \A d \in Conn : d > made => d # c
    BY <1>1 DEF Conn
  <2>2. QED
    BY <1>1, <2>1 DEF IInv, Fresh, Unused, ThreadEnds, Wire
<1>6. Grows
  <2>1. \A d \in 1 .. made : server[d].key # NoKey =>
          /\ server'[d].key = server[d].key /\ server'[d].sp = server[d].sp
          /\ server'[d].cn = server[d].cn
    BY <1>1 DEF ThreadEnds
  <2>2. \A d \in 1 .. made : server[d].phase = "Established" => server'[d].phase = "Established"
    BY <1>1 DEF ThreadEnds, Waiting
  <2>3. QED
    BY <1>1, <1>3, <2>1, <2>2 DEF Grows
<1>7. ClientsInv'
  <2>1. ASSUME NEW d \in 1 .. made
        PROVE  ClientInv(d)'
    <3>1. alloc'[owner[d]] = alloc[owner[d]]
      BY Numbers DEF Moves, IInv
    <3>2. QED
      BY <1>2, <1>6, <3>1, ClientKept
  <2>2. QED
    BY <1>1, <2>1 DEF ClientsInv
<1>8. ServersInv'
  <2>1. ASSUME NEW d \in 1 .. made, d # c
        PROVE  ServerInv(d)'
    <3>1. server'[d] = server[d]
      BY <2>1, <1>1 DEF ThreadEnds
    <3>2. ~(d \in threads' /\ server[d].phase \in {"HelloWait", "IssueWait"})
      BY <2>1, <1>1 DEF ThreadEnds, Waiting
    <3>3. QED
      BY <1>2, <1>6, <3>1, <3>2, ServerKept
  <2>2. ServerInv(c)'
    <3>1. server'[c].phase \notin {"Idle", "HelloWait", "IssueWait", "ConfirmWait"}
      BY DEF ThreadEnds
    <3>2. ASSUME server'[c].key # NoKey
          PROVE  /\ server'[c].key = Key(Server, server'[c].sp)
                 /\ server'[c].sp < alloc'[Server].disk
                 /\ server'[c].cn \in 1 .. made'
                 /\ client'[server'[c].cn].key # NoKey
                 /\ client'[server'[c].cn].agreed = server'[c].sp /\ client'[server'[c].cn].sn = c
      <4>1. /\ server[c].key # NoKey /\ server'[c].key = server[c].key
            /\ server'[c].sp = server[c].sp /\ server'[c].cn = server[c].cn
        BY <3>2 DEF ThreadEnds
      <4>2. /\ server[c].key = Key(Server, server[c].sp)
            /\ server[c].sp < alloc[Server].disk
            /\ server[c].cn \in 1 .. made
            /\ client[server[c].cn].key # NoKey
            /\ client[server[c].cn].agreed = server[c].sp /\ client[server[c].cn].sn = c
        BY <4>1, <1>1 DEF IInv, ServersInv, ServerInv
      <4>3. server[c].sp \in Nat /\ alloc'[Server].disk \in Nat /\ alloc[Server].disk \in Nat
        BY <1>1, <1>2, Pointers DEF Types, IInv
      <4>4. server[c].sp < alloc'[Server].disk
        BY <4>2, <4>3, <1>1, <1>3
      <4>5. QED
        BY <4>1, <4>2, <4>4, <1>1
    <3>3. server'[c].phase = "Established" =>
              server'[c].key # NoKey /\ client'[server'[c].cn].key = server'[c].key
      BY DEF ThreadEnds
    <3>4. QED
      BY <3>1, <3>2, <3>3 DEF ServerInv
  <2>3. QED
    BY <1>1, <2>1, <2>2 DEF ServersInv
<1>9. Distinct'
  <2>1. \A d \in 1 .. made : client'[d].key = client[d].key /\ server'[d].key = server[d].key
    BY <1>1 DEF ThreadEnds
  <2>2. QED
    BY <1>6, <2>1, DistinctKept
<1>10. Honest'
  BY <1>2, <1>6, HonestKept
<1>11. QED
  BY <1>2, <1>3, <1>4, <1>5, <1>7, <1>8, <1>9, <1>10 DEF IInv, Wire

-----------------------------------------------------------------------------
(* The steps of a client that end its handshake.                           *)

LEMMA WireStill ==
    ASSUME IInv, UNCHANGED <<owner, c2s, s2c, sent>>
    PROVE  Wire
<1>1. made' = made
  BY DEF made
<1>2. QED
  BY <1>1 DEF IInv, Types, Fresh, Unused, Wire, InFlight

LEMMA ClientTakes ==
    ASSUME IInv, NEW c \in Conn, c <= made, NEW m \in Arriving(s2c[c]),
           s2c' = [s2c EXCEPT ![c] = Tail(@)], UNCHANGED <<owner, c2s, sent>>
    PROVE  Wire
<1>1. made' = made /\ made \in Nat
  BY Numbers DEF made, IInv
<1>2. c2s[c] \in Seq(Frames) /\ s2c[c] \in Seq(Frames) /\ Carried(c2s[c], sent) /\ Carried(s2c[c], sent)
  BY DEF IInv, Types, InFlight
<1>3. Tail(s2c[c]) \in Seq(Frames) /\ Carried(Tail(s2c[c]), sent)
  BY <1>2, Arrived
<1>4. c2s' = [c2s EXCEPT ![c] = c2s[c]]
  BY DEF IInv, Types
<1>5. PICK q \in Seq(Frames) : q = c2s[c]
  BY <1>2
<1>6. PICK r \in Seq(Frames) : r = Tail(s2c[c])
  BY <1>3
<1>7. /\ sent \subseteq sent' /\ made <= made' /\ made' \in Nat /\ c <= made'
      /\ Carried(q, sent') /\ Carried(r, sent')
      /\ c2s' = [c2s EXCEPT ![c] = q] /\ s2c' = [s2c EXCEPT ![c] = r]
  <2>1. made <= made' /\ made' \in Nat /\ c <= made'
    BY <1>1
  <2>2. sent \subseteq sent' /\ Carried(q, sent') /\ Carried(r, sent')
    BY <1>2, <1>3, <1>5, <1>6
  <2>3. c2s' = [c2s EXCEPT ![c] = q] /\ s2c' = [s2c EXCEPT ![c] = r]
    BY <1>4, <1>5, <1>6
  <2>4. QED
    BY <2>1, <2>2, <2>3
<1>8. QED
  BY <1>7, WireStep

LEMMA ClientFailing ==
    ASSUME IInv, NEW c \in Conn, NEW err \in Errors, ClientFails(c, err)
    PROVE  ClientEnds(c)
<1>1. client \in [Conn -> ClientRec]
  BY DEF IInv, Types
<1>2. QED
  BY <1>1, ClientFailsEffect DEF ClientEnds

LEMMA ClientRecvFailsKeeps ==
    ASSUME IInv, NEW c \in Conn, ClientRecvFails(c)
    PROVE  IInv'
<1>1. ClientEnds(c)
  BY ClientFailing DEF ClientRecvFails, Errors
<1>2. Live(c) /\ Wire /\ Moves(owner[c])
  <2>1. Live(c) /\ owner[c] \in Ends
    BY LiveFacts DEF ClientRecvFails, Ends
  <2>2. QED
    BY <2>1, WireStill, StandsStill DEF ClientRecvFails, netVars
<1>3. QED
  BY <1>1, <1>2, ClientEndsKeeps DEF ClientRecvFails, netVars

\* The client takes a frame and gives up.
LEMMA ClientRefuses ==
    ASSUME IInv, NEW c \in Conn, NEW m \in Arriving(s2c[c]), ClientRecv(c), ClientEnds(c),
           UNCHANGED <<alloc, c2s, sent>>
    PROVE  IInv'
<1>1. Live(c) /\ c <= made /\ owner[c] \in Ends
  BY LiveFacts DEF ClientRecv, Ends, Live
<1>2. Wire
  BY <1>1, ClientTakes DEF ClientRecv
<1>3. Moves(owner[c])
  BY <1>1, StandsStill
<1>4. QED
  BY <1>1, <1>2, <1>3, ClientEndsKeeps DEF ClientRecv

LEMMA ClientOutOfOrderKeeps ==
    ASSUME IInv, NEW c \in Conn, ClientOutOfOrder(c)
    PROVE  IInv'
<1>1. PICK m \in Arriving(s2c[c]) :
         /\ ClientRecv(c)
         /\ ClientFails(c, IF m.type = "Unreadable" THEN "Codec" ELSE "BadOrder")
         /\ UNCHANGED <<alloc, c2s, sent>>
  BY DEF ClientOutOfOrder
<1>2. (IF m.type = "Unreadable" THEN "Codec" ELSE "BadOrder") \in Errors
  BY DEF Errors
<1>3. ClientEnds(c)
  BY <1>1, <1>2, ClientFailing
<1>4. QED
  BY <1>1, <1>3, ClientRefuses

LEMMA OnArbitrateRefusedKeeps ==
    ASSUME IInv, NEW c \in Conn, OnArbitrateRefused(c)
    PROVE  IInv'
<1>1. PICK m \in Arriving(s2c[c]) :
         /\ ClientRecv(c)
         /\ \/ ClientFails(c, "PointerMismatch")
            \/ m.result \in {"BookMismatch", "Exhausted"} /\ ClientFails(c, m.result)
            \/ client' = [client EXCEPT ![c].phase = "AheadRecovery", ![c].err = "ClientAhead"]
         /\ UNCHANGED <<alloc, c2s, sent>>
  BY DEF OnArbitrateRefused
<1>2. ClientEnds(c)
  <2>1. CASE ClientFails(c, "PointerMismatch")
    BY <2>1, ClientFailing DEF Errors
  <2>2. CASE m.result \in {"BookMismatch", "Exhausted"} /\ ClientFails(c, m.result)
    <3>1. m.result \in Errors
      BY <2>2 DEF Errors, Results
    <3>2. QED
      BY <2>2, <3>1, ClientFailing
  <2>3. CASE client' = [client EXCEPT ![c].phase = "AheadRecovery", ![c].err = "ClientAhead"]
    <3>1. "ClientAhead" \in Errors /\ client \in [Conn -> ClientRec]
      BY DEF Errors, Results, IInv, Types
    <3>2. QED
      BY ZenonT(40), <2>3, <3>1 DEF ClientEnds, ClientRec
  <2>4. QED
    BY <1>1, <2>1, <2>2, <2>3
<1>3. QED
  BY <1>1, <1>2, ClientRefuses

LEMMA ClientExitsKeeps ==
    ASSUME IInv, NEW k \in Clients, ClientExits(k)
    PROVE  IInv'
<1> USE DEF ClientExits, netVars
<1>1. made' = made /\ made \in Nat
  BY Numbers DEF IInv, made
<1>2. running' \in [Clients -> 0 .. MaxConn] /\ \A j \in Clients : running'[j] # 0 => running'[j] = running[j]
  BY HandshakeAssumption DEF IInv, Types
<1>3. Types'
  BY <1>1, <1>2 DEF IInv, Types, made
<1>4. Grows
  <2>1. \A e \in Ends : alloc[e].disk \in Nat
    BY HandshakeAssumption DEF IInv, Types, AllocatorState
  <2>2. QED
    BY <1>1, <2>1 DEF Grows
<1>5. ClientsInv'
  <2>1. ASSUME NEW c \in 1 .. made
        PROVE  ClientInv(c)'
    <3>1. c # 0 /\ owner[c] \in Clients
      BY <1>1, Numbers DEF IInv
    <3>2. QED
      BY <1>2, <1>3, <1>4, <3>1, ClientKept
  <2>2. QED
    BY <1>1, <2>1 DEF ClientsInv
<1>6. ServersInv'
  BY <1>1, <1>3, <1>4, ServerKept DEF ServersInv
<1>7. Processes'
  BY <1>1, <1>2 DEF IInv, Processes
<1>8. Honest'
  BY <1>3, <1>4, HonestKept
<1>9. QED
  BY <1>1, <1>3, <1>5, <1>6, <1>7, <1>8 DEF IInv, Allocators, Fresh, Unused, Distinct, InFlight

-----------------------------------------------------------------------------
(* on_arbitrate: the segment the client issues is the one the server named.*)

Agreed(c, m) ==
    /\ ClientRecv(c)
    /\ client[c].phase = "HelloSent" /\ m.type = "Arbitrate"
    /\ m.result \in {"Ok", "ServerAhead"} /\ ~Contradicts(m, client[c].cp)

Distance(c, m) == m.sp - client[c].cp + 1

LEMMA AgreedFacts ==
    ASSUME IInv, NEW c \in Conn, NEW m \in Arriving(s2c[c]), Agreed(c, m)
    PROVE  LET k == owner[c] IN
           /\ c \in 1 .. made /\ k \in Clients /\ k \in Ends /\ k # Server /\ running[k] = c
           /\ m.sp \in Segs /\ m.sp \in Nat /\ m.sn \in Conn
           /\ alloc[k] \in AllocatorState /\ Sound(alloc[k]) /\ client[c].key = NoKey
           /\ Distance(c, m) \in Nat \ {0}
           /\ alloc[k].next + Distance(c, m) = m.sp + 1
           /\ alloc[k].disk <= m.sp
<1> DEFINE k == owner[c]
<1>1. c \in 1 .. made /\ k \in Clients /\ k \in Ends /\ k # Server /\ running[k] = c
  BY LiveFacts, Numbers DEF Agreed, ClientRecv, IInv
<1>2. m.sp \in Segs /\ m.sn \in Conn /\ m \in Arbitrates
  <2>1. s2c[c] \in Seq(Frames) /\ Carried(s2c[c], sent)
    BY DEF IInv, Types, InFlight
  <2>2. m \in Arbitrates
    BY <2>1, Arrived, FrameKinds DEF Agreed
  <2>3. QED
    BY <2>2 DEF Arbitrates
<1>3. m.sp \in Nat /\ client[c].cp \in Nat
  <2>1. m.sp \in Nat
    BY <1>2, HandshakeAssumption DEF Segs
  <2>2. client[c].cp \in Nat
    BY Pointers DEF IInv, Types
  <2>3. QED
    BY <2>1, <2>2
<1>4. m.sp >= client[c].cp
  BY <1>3 DEF Agreed, Contradicts
<1>5. client[c].key = NoKey /\ ~alloc[k].halted /\ alloc[k].next = client[c].cp
  BY <1>1 DEF IInv, ClientsInv, ClientInv, Agreed
<1>6. alloc[k] \in AllocatorState /\ Sound(alloc[k])
  BY <1>1 DEF IInv, Types, Allocators
<1>7. alloc[k].disk = client[c].cp
  BY <1>5, <1>6 DEF Sound
<1>8. Distance(c, m) \in Nat \ {0} /\ client[c].cp + Distance(c, m) = m.sp + 1
  BY <1>3, <1>4 DEF Distance
<1>9. QED
  BY <1>1, <1>2, <1>3, <1>4, <1>5, <1>6, <1>7, <1>8

LEMMA OnArbitrateFailedKeeps ==
    ASSUME IInv, NEW c \in Conn, NEW m \in Arriving(s2c[c]), Agreed(c, m),
           NEW a \in IssuesFailed(alloc[owner[c]], Distance(c, m)),
           alloc' = [alloc EXCEPT ![owner[c]] = a],
           client' = [client EXCEPT ![c] = [@ EXCEPT !.phase = "Failed", !.agreed = m.sp,
                                                     !.sn = m.sn, !.err = "Issuer"]],
           UNCHANGED <<c2s, sent>>
    PROVE  IInv'
<1> DEFINE k == owner[c]
<1>1. /\ c \in 1 .. made /\ k \in Ends /\ m.sp \in Segs /\ m.sn \in Conn
      /\ alloc[k] \in AllocatorState /\ Sound(alloc[k]) /\ client[c].key = NoKey
      /\ Distance(c, m) \in Nat
  BY AgreedFacts
<1>2. a \in AllocatorState /\ Sound(a) /\ a.disk >= alloc[k].disk
  BY <1>1, ManyIssuesFailed
<1>3. Moves(k)
  BY <1>1, <1>2, MoveStep
<1>4. ClientEnds(c)
  <2>1. "Issuer" \in Errors /\ client \in [Conn -> ClientRec] /\ m.sn \in Conn \cup {0}
    BY <1>1 DEF Errors, IInv, Types
  <2>2. QED
    BY ZenonT(40), <1>1, <2>1 DEF ClientEnds, ClientRec
<1>5. Live(c) /\ Wire
  BY ClientTakes DEF Agreed, ClientRecv, Live
<1>6. QED
  BY <1>3, <1>4, <1>5, ClientEndsKeeps DEF Agreed, ClientRecv

LEMMA OnArbitrateIssuedKeeps ==
    ASSUME IInv, NEW c \in Conn, NEW m \in Arriving(s2c[c]), Agreed(c, m),
           NEW key, key = Key(owner[c], m.sp),
           CanIssueMany(alloc[owner[c]], Distance(c, m)),
           alloc' = [alloc EXCEPT ![owner[c]] = Issued(@, Distance(c, m))],
           client' = [client EXCEPT ![c] = [@ EXCEPT !.phase = "ConfirmSent", !.agreed = m.sp,
                                                     !.sn = m.sn, !.key = key]],
           Send2S(c, <<IssueRequest(m.sp, c, m.sn), Confirm("ConfirmC2S", m.sp, c, m.sn, key)>>)
    PROVE  IInv'
<1> DEFINE k == owner[c]
           n == Distance(c, m)
           f == IssueRequest(m.sp, c, m.sn)
           g == Confirm("ConfirmC2S", m.sp, c, m.sn, key)
<1>1. /\ c \in 1 .. made /\ k \in Clients /\ k \in Ends /\ k # Server /\ running[k] = c
      /\ m.sp \in Segs /\ m.sp \in Nat /\ m.sn \in Conn
      /\ alloc[k] \in AllocatorState /\ Sound(alloc[k]) /\ client[c].key = NoKey
      /\ n \in Nat \ {0}
      /\ alloc[k].next + n = m.sp + 1
      /\ alloc[k].disk <= m.sp
  BY AgreedFacts
<1>2. /\ made' = made /\ made \in Nat /\ 1 .. made \subseteq Conn
      /\ UNCHANGED <<owner, running, server, threads, holder, faults, restarts>>
  BY Numbers DEF Agreed, ClientRecv, IInv, made
<1>3. key \in Keys /\ key # NoKey
  BY <1>1, KeyFacts DEF Keys
<1>4. f \in Frames /\ g \in Frames
  <2>1. f \in IssueRequests
    BY <1>1 DEF IssueRequest, IssueRequests
  <2>2. g \in Confirms
    BY <1>1, <1>3 DEF Confirm, Confirms
  <2>3. QED
    BY <2>1, <2>2 DEF Frames
<1>5. sent' = sent \cup {f, g} /\ c2s' = [c2s EXCEPT ![c] = @ \o <<f, g>>]
  BY DEF Send2S
<1>6. /\ client' \in [Conn -> ClientRec]
      /\ \A d \in Conn \ {c} : client'[d] = client[d]
      /\ client'[c].phase = "ConfirmSent" /\ client'[c].agreed = m.sp
      /\ client'[c].sn = m.sn /\ client'[c].key = key
  <2>1. client \in [Conn -> ClientRec] /\ m.sn \in Conn \cup {0}
    BY <1>1 DEF IInv, Types
  <2>2. QED
    BY ZenonT(40), <1>1, <1>3, <2>1 DEF ClientRec
<1>7. Moves(k) /\ alloc'[k].disk = m.sp + 1
  <2>1. /\ Issued(alloc[k], n) \in AllocatorState /\ Sound(Issued(alloc[k], n))
        /\ Issued(alloc[k], n).disk = m.sp + 1
    BY <1>1, ManyIssues
  <2>2. alloc[k].disk \in Nat
    BY <1>1, HandshakeAssumption DEF AllocatorState
  <2>3. Issued(alloc[k], n).disk >= alloc[k].disk
    BY <1>1, <2>1, <2>2
  <2>4. QED
    BY <1>1, <2>1, <2>3, MoveStep
<1>8. Wire
  <2>1. c2s[c] \in Seq(Frames) /\ s2c[c] \in Seq(Frames) /\ Carried(c2s[c], sent) /\ Carried(s2c[c], sent)
    BY DEF IInv, Types, InFlight
  <2>2. Tail(s2c[c]) \in Seq(Frames) /\ Carried(Tail(s2c[c]), sent)
    BY <2>1, Arrived
  <2>3. <<f, g>> \in Seq(Frames) /\ Carried(<<f, g>>, sent')
    BY <1>4, <1>5 DEF Carried, Genuine
  <2>4. Carried(c2s[c], sent') /\ Carried(Tail(s2c[c]), sent')
    BY <1>5, <2>1, <2>2, CarriedMore
  <2>5. c2s[c] \o <<f, g>> \in Seq(Frames) /\ Carried(c2s[c] \o <<f, g>>, sent')
    BY <2>1, <2>3, <2>4, Queued
  <2>6. PICK q \in Seq(Frames) : q = c2s[c] \o <<f, g>>
    BY <2>5
  <2>7. PICK r \in Seq(Frames) : r = Tail(s2c[c])
    BY <2>2
  <2>8. made <= made' /\ made' \in Nat /\ c <= made'
    BY <1>1, <1>2
  <2>9. sent \subseteq sent' /\ Carried(q, sent') /\ Carried(r, sent')
    BY <1>5, <2>4, <2>5, <2>6, <2>7
  <2>10. c2s' = [c2s EXCEPT ![c] = q] /\ s2c' = [s2c EXCEPT ![c] = r]
    BY <1>5, <2>6, <2>7 DEF Agreed, ClientRecv
  <2>11. QED
    BY <2>8, <2>9, <2>10, WireStep
<1> HIDE DEF k, n, f, g
<1>9. Types'
  <2>1. sent' \subseteq Frames
    BY <1>4, <1>5 DEF IInv, Types
  <2>2. QED
    BY <1>2, <1>6, <1>7, <1>8, <2>1 DEF IInv, Types, Moves, Wire, made
<1>10. Allocators' /\ \A e \in Ends : alloc'[e].disk >= alloc[e].disk
  BY <1>1, <1>7, MovesKeep
<1>11. Processes'
  BY <1>2 DEF IInv, Processes
<1>12. Fresh'
  <2>1. \A d \in Conn : d > made => d # c
    BY <1>1, <1>2 DEF Conn
  <2>2. QED
    BY <1>2, <1>6, <1>8, <2>1 DEF IInv, Fresh, Unused, Wire
<1>13. Grows
  <2>1. \A d \in 1 .. made : client[d].key # NoKey =>
          /\ client'[d].key = client[d].key /\ client'[d].agreed = client[d].agreed
          /\ client'[d].sn = client[d].sn
    BY <1>1, <1>2, <1>6
  <2>2. sent \subseteq sent'
    BY <1>5
  <2>3. QED
    BY <1>2, <1>10, <2>1, <2>2 DEF Grows
<1>14. ClientsInv'
  <2>1. ASSUME NEW d \in 1 .. made, d # c
        PROVE  ClientInv(d)'
    <3>1. client'[d] = client[d]
      BY <2>1, <1>2, <1>6
    <3>2. Live(c)
      BY DEF Agreed, ClientRecv
    <3>3. running'[owner[d]] = d => running[owner[d]] = d /\ alloc'[owner[d]] = alloc[owner[d]]
      BY <2>1, <1>2, <1>7, <3>2, LiveFacts, Numbers DEF IInv, Moves, k
    <3>4. QED
      BY <1>9, <1>13, <3>1, <3>3, ClientKept
  <2>2. ClientInv(c)'
    <3>1. m.sp < alloc'[k].disk
      BY <1>1, <1>7
    <3>2. QED
      BY <1>1, <1>2, <1>6, <3>1 DEF ClientInv, k
  <2>3. QED
    BY <1>2, <2>1, <2>2 DEF ClientsInv
<1>15. ServersInv'
  <2>1. alloc'[Server] = alloc[Server]
    BY <1>1, <1>7, Numbers DEF Moves, IInv
  <2>2. QED
    BY <1>2, <1>9, <1>13, <2>1, ServerKept DEF ServersInv
<1>16. Distinct'
  <2>1. ASSUME NEW d \in 1 .. made, d # c, owner[d] = k, client[d].key # NoKey
        PROVE  client[d].agreed # m.sp
    <3>1. client[d].agreed < alloc[k].disk
      BY <2>1 DEF IInv, ClientsInv, ClientInv
    <3>2. client[d].agreed \in Nat /\ alloc[k].disk \in Nat
      BY <1>1, <1>2, Pointers DEF IInv, Types
    <3>3. QED
      BY <1>1, <3>1, <3>2
  <2>2. ASSUME NEW d \in 1 .. made, NEW e \in 1 .. made, d # e
        PROVE  /\ server[d].key # NoKey /\ server[e].key # NoKey => server[d].sp # server[e].sp
               /\ owner[d] = owner[e] /\ client'[d].key # NoKey /\ client'[e].key # NoKey =>
                     client'[d].agreed # client'[e].agreed
    <3>1. /\ server[d].key # NoKey /\ server[e].key # NoKey => server[d].sp # server[e].sp
          /\ owner[d] = owner[e] /\ client[d].key # NoKey /\ client[e].key # NoKey =>
                client[d].agreed # client[e].agreed
      BY <2>2 DEF IInv, Distinct
    <3>2. CASE d = c
      BY <2>1, <2>2, <3>1, <3>2, <1>2, <1>6 DEF k
    <3>3. CASE e = c
      BY <2>1, <2>2, <3>1, <3>3, <1>2, <1>6 DEF k
    <3>4. CASE d # c /\ e # c
      BY <2>2, <3>1, <3>4, <1>2, <1>6
    <3>5. QED
      BY <3>2, <3>3, <3>4
  <2>3. QED
    BY <1>2, <2>2 DEF Distinct
<1>17. Honest'
  <2>1. SaysTrue(f)'
    BY <1>1, <1>2, <1>3, <1>6 DEF SaysTrue, IssueRequest, f
  <2>2. SaysTrue(g)'
    BY <1>1, <1>2, <1>3, <1>6 DEF SaysTrue, Confirm, g
  <2>3. \A x \in sent' \ sent : x = f \/ x = g
    BY <1>5
  <2>4. \A x \in sent' \ sent : SaysTrue(x)'
    BY <2>1, <2>2, <2>3
  <2>5. QED
    BY <1>9, <1>13, <2>4, HonestKept
<1>18. QED
  BY <1>8, <1>9, <1>10, <1>11, <1>12, <1>14, <1>15, <1>16, <1>17 DEF IInv, Wire

LEMMA OnArbitrateKeeps ==
    ASSUME IInv, NEW c \in Conn, OnArbitrate(c)
    PROVE  IInv'
<1>1. PICK m \in Arriving(s2c[c]) :
         LET k == owner[c]
             i == m.sp
             n == i - client[c].cp + 1
             key == Key(k, alloc[k].next + n - 1)
         IN  /\ Agreed(c, m)
             /\ \/ /\ CanIssueMany(alloc[k], n)
                   /\ alloc' = [alloc EXCEPT ![k] = Issued(@, n)]
                   /\ client' = [client EXCEPT
                          ![c] = [@ EXCEPT !.phase = "ConfirmSent", !.agreed = i,
                                           !.sn = m.sn, !.key = key]]
                   /\ Send2S(c, <<IssueRequest(i, c, m.sn),
                                  Confirm("ConfirmC2S", i, c, m.sn, key)>>)
                \/ /\ \E a \in IssuesFailed(alloc[k], n) :
                          alloc' = [alloc EXCEPT ![k] = a]
                   /\ client' = [client EXCEPT
                          ![c] = [@ EXCEPT !.phase = "Failed", !.agreed = i,
                                           !.sn = m.sn, !.err = "Issuer"]]
                   /\ UNCHANGED <<c2s, sent>>
  BY DEF OnArbitrate, Agreed
<1>2. PICK key : key = Key(owner[c], alloc[owner[c]].next + Distance(c, m) - 1)
  OBVIOUS
<1>3. key = Key(owner[c], m.sp)
  <2>1. /\ alloc[owner[c]].next + Distance(c, m) = m.sp + 1 /\ m.sp \in Nat
        /\ Distance(c, m) \in Nat /\ owner[c] \in Ends
    BY <1>1, AgreedFacts
  <2>2. alloc[owner[c]].next \in Nat
    BY <2>1, Pointers DEF IInv, Types
  <2>3. alloc[owner[c]].next + Distance(c, m) - 1 = m.sp
    BY <2>1, <2>2
  <2>4. QED
    BY <1>2, <2>3
<1>4. CASE /\ CanIssueMany(alloc[owner[c]], Distance(c, m))
           /\ alloc' = [alloc EXCEPT ![owner[c]] = Issued(@, Distance(c, m))]
           /\ client' = [client EXCEPT ![c] = [@ EXCEPT !.phase = "ConfirmSent", !.agreed = m.sp,
                                                        !.sn = m.sn, !.key = key]]
           /\ Send2S(c, <<IssueRequest(m.sp, c, m.sn), Confirm("ConfirmC2S", m.sp, c, m.sn, key)>>)
  BY <1>1, <1>3, <1>4, OnArbitrateIssuedKeeps
<1>5. CASE /\ \E a \in IssuesFailed(alloc[owner[c]], Distance(c, m)) :
                  alloc' = [alloc EXCEPT ![owner[c]] = a]
           /\ client' = [client EXCEPT ![c] = [@ EXCEPT !.phase = "Failed", !.agreed = m.sp,
                                                        !.sn = m.sn, !.err = "Issuer"]]
           /\ UNCHANGED <<c2s, sent>>
  BY <1>1, <1>5, OnArbitrateFailedKeeps
<1>6. QED
  BY <1>1, <1>2, <1>4, <1>5 DEF Distance

-----------------------------------------------------------------------------
(* on_confirm_s2c: what opens was sealed by a thread that is done.         *)

LEMMA OnConfirmS2CKeeps ==
    ASSUME IInv, NEW c \in Conn, OnConfirmS2C(c)
    PROVE  IInv'
<1>1. PICK m \in Arriving(s2c[c]) :
         /\ ClientRecv(c) /\ m.type = "ConfirmS2C" /\ client[c].phase = "ConfirmSent"
         /\ \/ /\ Opens(m, client[c].agreed, c, client[c].sn, client[c].key)
               /\ client' = [client EXCEPT ![c].phase = "Established"]
            \/ ClientFails(c, "Authentication")
         /\ UNCHANGED <<alloc, c2s, sent>>
  BY DEF OnConfirmS2C
<1>2. ClientEnds(c)
  <2>1. CASE ClientFails(c, "Authentication")
    BY <2>1, ClientFailing DEF Errors
  <2>2. CASE /\ Opens(m, client[c].agreed, c, client[c].sn, client[c].key)
             /\ client' = [client EXCEPT ![c].phase = "Established"]
    <3>1. m.sn = client[c].sn /\ m.cn = c /\ m.key = client[c].key /\ m.intact
      BY <2>2 DEF Opens
    <3>2. m \in sent
      <4>1. s2c[c] \in Seq(Frames) /\ Carried(s2c[c], sent)
        BY DEF IInv, Types, InFlight
      <4>2. Genuine(m, sent)
        BY <4>1, Arrived
      <4>3. QED
        BY <1>1, <3>1, <4>2 DEF Genuine
    <3>3. /\ m.sn \in 1 .. made /\ server[m.sn].phase = "Established"
          /\ server[m.sn].cn = m.cn /\ server[m.sn].key = m.key
      BY <1>1, <3>2 DEF IInv, Honest, SaysTrue
    <3>4. server[m.sn].key # NoKey
      BY <3>3 DEF IInv, ServersInv, ServerInv
    <3>5. client \in [Conn -> ClientRec]
      BY DEF IInv, Types
    <3>6. QED
      BY <2>2, <3>1, <3>3, <3>4, <3>5 DEF ClientEnds, ClientRec
  <2>3. QED
    BY <1>1, <2>1, <2>2
<1>3. QED
  BY <1>1, <1>2, ClientRefuses

-----------------------------------------------------------------------------
(* A new process: a new connection.                                        *)

LEMMA StartKeeps ==
    ASSUME IInv, NEW k \in Clients, Start(k)
    PROVE  IInv'
<1>a. PICK c : c = made + 1
  OBVIOUS
<1>b. PICK a : a = Reopened(alloc[k])
  OBVIOUS
<1>c. PICK f : f = Hello(BookId[k], c, a.next)
  OBVIOUS
<1>1. /\ running[k] = 0 /\ c \in Conn
      /\ alloc' = [alloc EXCEPT ![k] = a]
      /\ owner' = Append(owner, k)
      /\ running' = [running EXCEPT ![k] = c]
      /\ client' = [client EXCEPT ![c].phase = "HelloSent", ![c].cp = a.next]
      /\ Send2S(c, <<f>>)
      /\ threads' = threads \cup {c}
      /\ UNCHANGED <<server, holder, s2c, faults, restarts>>
  BY <1>a, <1>b, <1>c DEF Start
<1>2. /\ made \in Nat /\ 1 .. made \subseteq Conn /\ MaxConn \in Nat /\ k \in Ends /\ k # Server
      /\ c \notin 1 .. made /\ c > made
  BY <1>a, Numbers DEF IInv, Ends
<1>3. /\ made' = c /\ owner' \in Seq(Clients) /\ owner'[c] = k
      /\ \A d \in 1 .. made : owner'[d] = owner[d]
  BY <1>a, <1>1, <1>2 DEF IInv, Types, made
<1>4. /\ c <= MaxConn /\ 1 .. made' = 1 .. made \cup {c} /\ made <= made' /\ made' \in Nat
      /\ c \in 0 .. MaxConn
  BY <1>a, <1>1, <1>2, <1>3 DEF Conn
<1>5. /\ a \in AllocatorState /\ Sound(a) /\ a.disk = alloc[k].disk /\ ~a.halted
      /\ a.disk >= alloc[k].disk
  <2>1. alloc[k] \in AllocatorState
    BY <1>2 DEF IInv, Types
  <2>2. alloc[k].disk \in Nat
    BY <2>1, HandshakeAssumption DEF AllocatorState
  <2>3. a.disk = alloc[k].disk
    BY <1>b, <2>1, Reopening
  <2>4. a.disk >= alloc[k].disk
    BY <2>2, <2>3
  <2>5. QED
    BY <1>b, <2>1, <2>4, Reopening
<1>6. client[c] = NoClient /\ server[c] = NoServer
  BY <1>1, <1>2 DEF IInv, Fresh, Unused
<1>7. /\ client' \in [Conn -> ClientRec]
      /\ \A d \in Conn \ {c} : client'[d] = client[d]
      /\ client'[c].phase = "HelloSent" /\ client'[c].cp = a.next /\ client'[c].key = NoKey
  <2>1. client \in [Conn -> ClientRec] /\ a.next \in Segs
    BY <1>5 DEF IInv, Types, AllocatorState, Segs
  <2>2. client[c].key = NoKey
    BY <1>6 DEF NoClient
  <2>3. QED
    BY ZenonT(40), <1>1, <2>1, <2>2 DEF ClientRec
<1>8. Moves(k) /\ alloc'[k] = a
  BY <1>1, <1>2, <1>5, MoveStep
<1>9. f \in Frames
  BY <1>c, <1>1, <1>2, <1>5 DEF Hello, Hellos, Frames, AllocatorState, Segs
<1>10. sent' = sent \cup {f} /\ c2s' = [c2s EXCEPT ![c] = @ \o <<f>>]
  BY <1>1 DEF Send2S
<1>11. Wire
  <2>1. c2s[c] \in Seq(Frames) /\ s2c[c] \in Seq(Frames) /\ Carried(c2s[c], sent) /\ Carried(s2c[c], sent)
    BY <1>1 DEF IInv, Types, InFlight
  <2>2. <<f>> \in Seq(Frames) /\ Carried(<<f>>, sent')
    BY <1>9, <1>10 DEF Carried, Genuine
  <2>3. Carried(c2s[c], sent') /\ Carried(s2c[c], sent')
    BY <1>10, <2>1, CarriedMore
  <2>4. c2s[c] \o <<f>> \in Seq(Frames) /\ Carried(c2s[c] \o <<f>>, sent')
    BY <2>1, <2>2, <2>3, Queued
  <2>5. PICK q \in Seq(Frames) : q = c2s[c] \o <<f>>
    BY <2>4
  <2>6. PICK r \in Seq(Frames) : r = s2c[c]
    BY <2>1
  <2>7. sent \subseteq sent' /\ Carried(q, sent') /\ Carried(r, sent')
    BY <1>10, <2>3, <2>4, <2>5, <2>6
  <2>8. c2s' = [c2s EXCEPT ![c] = q] /\ s2c' = [s2c EXCEPT ![c] = r]
    <3>1. s2c' = [s2c EXCEPT ![c] = s2c[c]]
      BY <1>1 DEF IInv, Types
    <3>2. QED
      BY <3>1, <1>10, <2>5, <2>6
  <2>9. c <= made'
    BY <1>3, <1>4
  <2>10. QED
    BY <1>1, <1>4, <2>7, <2>8, <2>9, WireStep
<1>12. Types'
  <2>1. sent' \subseteq Frames
    BY <1>9, <1>10 DEF IInv, Types
  <2>2. running' \in [Clients -> 0 .. MaxConn]
    BY <1>1, <1>4 DEF IInv, Types
  <2>3. threads' \subseteq 1 .. made'
    BY <1>1, <1>4 DEF IInv, Types
  <2>4. made' <= MaxConn
    BY <1>3, <1>4
  <2>5. QED
    BY <1>1, <1>3, <1>7, <1>8, <1>11, <2>1, <2>2, <2>3, <2>4 DEF IInv, Types, Moves, Wire
<1>13. Allocators' /\ \A e \in Ends : alloc'[e].disk >= alloc[e].disk
  BY <1>2, <1>8, MovesKeep
<1>14. running \in [Clients -> 0 .. MaxConn]
  BY DEF IInv, Types
<1>15. Processes'
  <2>1. ASSUME NEW j \in Clients, running'[j] # 0
        PROVE  running'[j] \in 1 .. made' /\ owner'[running'[j]] = j
    BY <1>1, <1>3, <1>4, <1>14, <2>1 DEF IInv, Processes
  <2>2. \A d \in threads' : server'[d].phase \in Waiting => holder' = d
    <3>1. server'[c].phase \notin Waiting
      BY <1>1, <1>6 DEF NoServer, Waiting
    <3>2. QED
      BY <1>1, <3>1 DEF IInv, Processes
  <2>3. holder' # 0 => holder' \in threads' /\ server'[holder'].phase \in Waiting
    BY <1>1 DEF IInv, Processes
  <2>4. QED
    BY <2>1, <2>2, <2>3 DEF Processes
<1>16. Fresh'
  <2>1. \A d \in Conn : d > made' => d > made /\ d # c
    BY <1>2, <1>3, <1>4 DEF Conn
  <2>2. QED
    BY <1>1, <1>7, <1>11, <2>1 DEF IInv, Fresh, Unused, Wire
<1>17. Grows
  <2>1. sent \subseteq sent'
    BY <1>10
  <2>2. \A d \in 1 .. made : client'[d] = client[d]
    BY <1>2, <1>7
  <2>3. QED
    BY <1>1, <1>3, <1>4, <1>13, <2>1, <2>2 DEF Grows
<1>18. ClientsInv'
  <2>1. ASSUME NEW d \in 1 .. made
        PROVE  ClientInv(d)'
    <3>1. client'[d] = client[d] /\ d # c /\ owner[d] \in Clients /\ owner[d] \in Ends
      BY <1>2, <1>7, Numbers DEF IInv
    <3>2. running'[owner[d]] = d => running[owner[d]] = d /\ alloc'[owner[d]] = alloc[owner[d]]
      BY <1>1, <1>8, <1>14, <3>1 DEF Moves
    <3>3. QED
      BY <1>12, <1>17, <3>1, <3>2, ClientKept
  <2>2. ClientInv(c)'
    BY <1>3, <1>5, <1>7, <1>8 DEF ClientInv
  <2>3. QED
    BY <1>4, <2>1, <2>2 DEF ClientsInv
<1>19. ServersInv'
  <2>1. ASSUME NEW d \in 1 .. made
        PROVE  ServerInv(d)'
    <3>1. server'[d] = server[d] /\ alloc'[Server] = alloc[Server]
      BY <1>1, <1>2, <1>8, Numbers DEF IInv, Moves
    <3>2. d # c
      BY <1>2
    <3>3. QED
      BY <1>1, <1>12, <1>17, <3>1, <3>2, ServerKept
  <2>2. ServerInv(c)'
    BY <1>1, <1>6 DEF ServerInv, NoServer
  <2>3. QED
    BY <1>4, <2>1, <2>2 DEF ServersInv
<1>20. Distinct'
  <2>1. ASSUME NEW d \in 1 .. made, NEW e \in 1 .. made, d # e
        PROVE  /\ server'[d].key # NoKey /\ server'[e].key # NoKey => server'[d].sp # server'[e].sp
               /\ owner'[d] = owner'[e] /\ client'[d].key # NoKey /\ client'[e].key # NoKey =>
                     client'[d].agreed # client'[e].agreed
    <3>1. client'[d] = client[d] /\ client'[e] = client[e] /\ server' = server
          /\ owner'[d] = owner[d] /\ owner'[e] = owner[e]
      BY <1>1, <1>2, <1>3, <1>7
    <3>2. QED
      BY <2>1, <3>1 DEF IInv, Distinct
  <2>2. client'[c].key = NoKey /\ server'[c].key = NoKey
    BY <1>1, <1>6, <1>7 DEF NoServer
  <2>3. QED
    BY <1>4, <2>1, <2>2 DEF Distinct
<1>21. Honest'
  <2>1. c \in 1 .. made'
    BY <1>4
  <2>2. SaysTrue(f)'
    BY <1>c, <2>1 DEF SaysTrue, Hello
  <2>3. \A x \in sent' \ sent : x = f
    BY <1>10
  <2>4. \A x \in sent' \ sent : SaysTrue(x)'
    BY <2>2, <2>3
  <2>5. QED
    BY <1>12, <1>17, <2>4, HonestKept
<1>22. QED
  BY <1>11, <1>12, <1>13, <1>15, <1>16, <1>18, <1>19, <1>20, <1>21 DEF IInv, Wire

-----------------------------------------------------------------------------
(* The steps of a thread.                                                  *)

LEMMA ServerTakes ==
    ASSUME IInv, NEW c \in 1 .. made, NEW m \in Arriving(c2s[c]),
           c2s' = [c2s EXCEPT ![c] = Tail(@)], sent \subseteq sent', owner' = owner,
           \/ s2c' = s2c
           \/ \E x \in Frames \cap sent' : s2c' = [s2c EXCEPT ![c] = Append(@, x)]
    PROVE  Wire
<1>1. made' = made /\ made \in Nat /\ c \in Conn
  BY Numbers DEF made, IInv
<1>2. c2s[c] \in Seq(Frames) /\ s2c[c] \in Seq(Frames) /\ Carried(c2s[c], sent) /\ Carried(s2c[c], sent)
  BY <1>1 DEF IInv, Types, InFlight
<1>3. Tail(c2s[c]) \in Seq(Frames) /\ Carried(Tail(c2s[c]), sent)
  BY <1>2, Arrived
<1>4. Carried(s2c[c], sent') /\ Carried(Tail(c2s[c]), sent')
  BY <1>2, <1>3, CarriedMore
<1>5. PICK q \in Seq(Frames) : q = Tail(c2s[c])
  BY <1>3
<1>6. PICK r \in Seq(Frames) : s2c' = [s2c EXCEPT ![c] = r] /\ Carried(r, sent')
  <2>1. CASE s2c' = s2c
    <3>1. s2c' = [s2c EXCEPT ![c] = s2c[c]]
      BY <2>1 DEF IInv, Types
    <3>2. QED
      BY <1>2, <1>4, <3>1
  <2>2. CASE \E x \in Frames \cap sent' : s2c' = [s2c EXCEPT ![c] = Append(@, x)]
    <3>1. PICK x \in Frames \cap sent' : s2c' = [s2c EXCEPT ![c] = Append(s2c[c], x)]
      BY <2>2
    <3>2. Append(s2c[c], x) \in Seq(Frames) /\ Carried(Append(s2c[c], x), sent')
      BY <1>2, <1>4, Appended
    <3>3. QED
      BY <3>1, <3>2
  <2>3. QED
    BY <2>1, <2>2
<1>7. made <= made' /\ made' \in Nat /\ c <= made'
  BY <1>1
<1>8. c2s' = [c2s EXCEPT ![c] = q] /\ Carried(q, sent')
  BY <1>4, <1>5
<1>9. QED
  BY <1>1, <1>6, <1>7, <1>8, WireStep

LEMMA ThreadFailing ==
    ASSUME IInv, NEW c \in threads, NEW err \in Errors, ThreadFails(c, err)
    PROVE  ThreadEnds(c)
<1>1. server \in [Conn -> ServerRec] /\ c \in Conn
  BY Numbers DEF IInv, Types
<1>2. QED
  BY <1>1 DEF ThreadFails, ThreadLeaves, ThreadEnds, ServerRec

\* The thread takes a frame and gives up.
LEMMA ServerRefuses ==
    ASSUME IInv, NEW c \in Conn, NEW m \in Arriving(c2s[c]), ServerRecv(c),
           NEW err \in Errors, ThreadFails(c, err), Moves(Server), UNCHANGED <<s2c, sent>>
    PROVE  IInv'
<1>1. c \in threads /\ server[c].phase \in Waiting /\ c \in 1 .. made
  BY ThreadFacts DEF ServerRecv
<1>2. ThreadEnds(c)
  BY <1>1, ThreadFailing
<1>3. Wire
  BY <1>1, ServerTakes DEF ServerRecv
<1>4. sent' \subseteq Frames
  BY DEF IInv, Types
<1>5. QED
  BY <1>1, <1>2, <1>3, <1>4, ThreadEndsKeeps DEF ServerRecv

LEMMA ServerRecvFailsKeeps ==
    ASSUME IInv, NEW c \in Conn, ServerRecvFails(c)
    PROVE  IInv'
<1>1. c \in threads /\ server[c].phase \in Waiting
  BY DEF ServerRecvFails
<1>2. ThreadEnds(c)
  BY <1>1, ThreadFailing DEF ServerRecvFails, Errors
<1>3. Wire
  BY WireStill DEF ServerRecvFails, netVars
<1>4. sent' \subseteq Frames /\ Moves(Server)
  BY Numbers, StandsStill DEF IInv, Types, ServerRecvFails, netVars
<1>5. QED
  BY <1>1, <1>2, <1>3, <1>4, ThreadEndsKeeps DEF ServerRecvFails, netVars

LEMMA ServerOutOfOrderKeeps ==
    ASSUME IInv, NEW c \in Conn, ServerOutOfOrder(c)
    PROVE  IInv'
<1>1. PICK m \in Arriving(c2s[c]) :
         /\ ServerRecv(c)
         /\ ThreadFails(c, IF m.type = "Unreadable" THEN "Codec" ELSE "BadOrder")
         /\ UNCHANGED <<alloc, s2c, sent>>
  BY DEF ServerOutOfOrder
<1>2. PICK err \in Errors : err = IF m.type = "Unreadable" THEN "Codec" ELSE "BadOrder"
  BY DEF Errors
<1>3. Moves(Server)
  BY <1>1, Numbers, StandsStill DEF IInv
<1>4. QED
  BY <1>1, <1>2, <1>3, ServerRefuses

\* A thread goes on to its next phase.
LEMMA ServerAdvances ==
    ASSUME IInv, NEW c \in threads, server' \in [Conn -> ServerRec],
           \A d \in Conn \ {c} : server'[d] = server[d],
           server[c].key = NoKey, server[c].phase # "Established", server'[c].phase \in Waiting,
           holder \in {0, c}, holder' = c, threads' = threads, Moves(Server), Wire,
           sent \subseteq sent', sent' \subseteq Frames, \A m \in sent' \ sent : SaysTrue(m)',
           UNCHANGED <<owner, running, client, faults, restarts>>,
           ServerInv(c)', server'[c].key # NoKey => server'[c].sp >= alloc[Server].disk
    PROVE  IInv'
<1>1. /\ c \in 1 .. made /\ c \in Conn /\ c # 0
      /\ \A d \in threads \ {c} : server[d].phase \notin Waiting
      /\ Server \in Ends /\ made' = made /\ made \in Nat /\ 1 .. made \subseteq Conn
  <2>1. Server \in Ends /\ made' = made /\ made \in Nat /\ 1 .. made \subseteq Conn
    BY Numbers DEF IInv, made
  <2>2. c \in 1 .. made /\ c \in Conn /\ c # 0 /\ \A d \in threads : d # 0
    BY <2>1 DEF IInv, Types
  <2>3. \A d \in threads \ {c} : server[d].phase \notin Waiting
    BY <2>2 DEF IInv, Processes
  <2>4. QED
    BY <2>1, <2>2, <2>3
<1>2. Types'
  <2>1. threads' \subseteq 1 .. made' /\ holder' \in 0 .. MaxConn
    BY <1>1, HandshakeAssumption DEF IInv, Types, Conn
  <2>2. QED
    BY <1>1, <2>1 DEF IInv, Types, Moves, Wire, made
<1>3. Allocators' /\ \A f \in Ends : alloc'[f].disk >= alloc[f].disk
  BY <1>1, MovesKeep
<1>4. Processes'
  BY <1>1 DEF IInv, Processes, Types
<1>5. Fresh'
  <2>1. \A d \in Conn : d > made => d # c
    BY <1>1 DEF Conn
  <2>2. QED
    BY <1>1, <2>1 DEF IInv, Fresh, Unused, Wire
<1>6. Grows
  <2>1. \A d \in 1 .. made : d # c => server'[d] = server[d]
    BY <1>1
  <2>2. QED
    BY <1>1, <1>3, <2>1 DEF Grows
<1>7. ClientsInv'
  <2>1. ASSUME NEW d \in 1 .. made
        PROVE  ClientInv(d)'
    <3>1. alloc'[owner[d]] = alloc[owner[d]]
      BY Numbers DEF Moves, IInv
    <3>2. QED
      BY <1>2, <1>6, <3>1, ClientKept
  <2>2. QED
    BY <1>1, <2>1 DEF ClientsInv
<1>8. ServersInv'
  <2>1. ASSUME NEW d \in 1 .. made, d # c
        PROVE  ServerInv(d)'
    <3>1. server'[d] = server[d]
      BY <2>1, <1>1
    <3>2. ~(d \in threads' /\ server[d].phase \in {"HelloWait", "IssueWait"})
      BY <2>1, <1>1 DEF Waiting
    <3>3. QED
      BY <1>2, <1>6, <3>1, <3>2, ServerKept
  <2>2. QED
    BY <1>1, <2>1 DEF ServersInv
<1>9. Distinct'
  <2>1. ASSUME NEW d \in 1 .. made, d # c, server[d].key # NoKey, server'[c].key # NoKey
        PROVE  server[d].sp # server'[c].sp
    <3>1. server[d].sp < alloc[Server].disk
      BY <2>1 DEF IInv, ServersInv, ServerInv
    <3>2. server[d].sp \in Nat /\ alloc[Server].disk \in Nat
      BY <1>1, Pointers DEF IInv, Types
    <3>3. server'[c].sp \in Nat
      BY <1>1, <1>2, Pointers DEF Types
    <3>4. QED
      BY <2>1, <3>1, <3>2, <3>3
  <2>2. ASSUME NEW d \in 1 .. made, NEW e \in 1 .. made, d # e
        PROVE  /\ server'[d].key # NoKey /\ server'[e].key # NoKey => server'[d].sp # server'[e].sp
               /\ owner[d] = owner[e] /\ client[d].key # NoKey /\ client[e].key # NoKey =>
                     client[d].agreed # client[e].agreed
    <3>1. /\ server[d].key # NoKey /\ server[e].key # NoKey => server[d].sp # server[e].sp
          /\ owner[d] = owner[e] /\ client[d].key # NoKey /\ client[e].key # NoKey =>
                client[d].agreed # client[e].agreed
      BY <2>2 DEF IInv, Distinct
    <3>2. CASE d = c
      BY <2>1, <2>2, <3>1, <3>2, <1>1
    <3>3. CASE e = c
      BY <2>1, <2>2, <3>1, <3>3, <1>1
    <3>4. CASE d # c /\ e # c
      BY <2>2, <3>1, <3>4, <1>1
    <3>5. QED
      BY <3>2, <3>3, <3>4
  <2>3. QED
    BY <1>1, <2>2 DEF Distinct
<1>10. Honest'
  BY <1>2, <1>6, HonestKept
<1>11. QED
  BY <1>2, <1>3, <1>4, <1>5, <1>7, <1>8, <1>9, <1>10 DEF IInv, Wire

LEMMA LockKeeps ==
    ASSUME IInv, NEW c \in Conn, Lock(c)
    PROVE  IInv'
<1> USE DEF Lock, netVars
<1>1. /\ c \in 1 .. made /\ server \in [Conn -> ServerRec] /\ alloc[Server] \in AllocatorState
      /\ made' = made
  BY Numbers DEF IInv, Types, made
<1>2. /\ server' \in [Conn -> ServerRec]
      /\ \A d \in Conn \ {c} : server'[d] = server[d]
      /\ server'[c].phase = "HelloWait" /\ server'[c].sp = alloc[Server].next
      /\ server'[c].key = server[c].key
  BY ZenonT(40), <1>1 DEF ServerRec, AllocatorState, Segs, Waiting
<1>3. server[c].key = NoKey
  BY <1>1 DEF IInv, ServersInv, ServerInv
<1>4. ServerInv(c)'
  BY <1>2, <1>3 DEF ServerInv
<1>5. Moves(Server) /\ Wire /\ sent' \subseteq Frames
  BY Numbers, StandsStill, WireStill DEF IInv, Types
<1>6. QED
  BY <1>2, <1>3, <1>4, <1>5, ServerAdvances DEF Waiting

LEMMA ResultIn ==
    ASSUME NEW book, NEW cp \in Nat, NEW sp \in Segs
    PROVE  Result(book, cp, sp) \in Results /\ PointerOut(Result(book, cp, sp), sp) \in Segs
<1>1. sp \in Nat /\ SegmentCount \in Nat /\ SegmentCount \in Segs /\ 0 \in Segs
  BY HandshakeAssumption DEF Segs
<1>2. Result(book, cp, sp) \in Results
  <2>1. CASE book # BookId[Server]
    BY <2>1 DEF Result, Results
  <2>2. CASE book = BookId[Server] /\ sp >= SegmentCount
    BY <1>1, <2>2 DEF Result, Results
  <2>3. CASE book = BookId[Server] /\ sp < SegmentCount /\ sp > cp
    BY <1>1, <2>3 DEF Result, Results
  <2>4. CASE book = BookId[Server] /\ sp < SegmentCount /\ cp > sp
    BY <1>1, <2>4 DEF Result, Results
  <2>5. CASE book = BookId[Server] /\ sp < SegmentCount /\ cp = sp
    BY <1>1, <2>5 DEF Result, Results
  <2>6. QED
    BY <1>1, <2>1, <2>2, <2>3, <2>4, <2>5
<1>3. \A r \in Results : PointerOut(r, sp) \in Segs
  BY <1>1 DEF PointerOut, Results
<1>4. QED
  BY <1>2, <1>3

\* A frame the server takes, other than a record that was damaged, was sent.
LEMMA TakenWasSent ==
    ASSUME IInv, NEW c \in 1 .. made, NEW m \in Arriving(c2s[c]),
           m.type \in {"Hello", "IssueRequest"} \/ (m.type = "ConfirmC2S" /\ m.intact)
    PROVE  m \in sent /\ m \in Frames /\ SaysTrue(m)
<1>1. c2s[c] \in Seq(Frames) /\ Carried(c2s[c], sent)
  BY Numbers DEF IInv, Types, InFlight
<1>2. m \in Frames /\ Genuine(m, sent)
  BY <1>1, Arrived
<1>3. QED
  BY <1>2 DEF Genuine, IInv, Honest

LEMMA OnHelloKeeps ==
    ASSUME IInv, NEW c \in Conn, OnHello(c)
    PROVE  IInv'
<1>1. PICK m \in Arriving(c2s[c]) :
         LET sp == server[c].sp
             result == Result(m.book, m.cp, sp)
             reply == Arbitrate(c, PointerOut(result, sp), result)
         IN  /\ ServerRecv(c)
             /\ server[c].phase = "HelloWait" /\ m.type = "Hello"
             /\ s2c' = [s2c EXCEPT ![c] = Append(@, reply)]
             /\ sent' = sent \cup {reply}
             /\ \/ /\ result \in {"Ok", "ServerAhead"}
                   /\ server' = [server EXCEPT ![c].phase = "IssueWait",
                                               ![c].cn = m.cn]
                   /\ UNCHANGED <<threads, holder>>
                \/ /\ result \notin {"Ok", "ServerAhead"}
                   /\ ThreadLeaves(c, [server[c] EXCEPT
                          !.phase = IF result = "ClientAhead" THEN "AheadPending"
                                    ELSE "Failed",
                          !.cn = m.cn, !.err = result])
             /\ UNCHANGED alloc
  BY DEF OnHello
<1>2. PICK result : result = Result(m.book, m.cp, server[c].sp)
  OBVIOUS
<1>3. PICK reply : reply = Arbitrate(c, PointerOut(result, server[c].sp), result)
  OBVIOUS
<1>4. c \in threads /\ server[c].phase \in Waiting /\ c \in 1 .. made /\ holder = c
  BY <1>1, ThreadFacts DEF ServerRecv
<1>5. m \in Hellos /\ m.cn \in 1 .. made /\ m.cp \in Nat /\ m.cn \in Conn
  <2>1. m \in Frames /\ SaysTrue(m)
    BY <1>1, <1>4, TakenWasSent
  <2>2. m \in Hellos
    BY <1>1, <2>1, FrameKinds
  <2>3. QED
    BY <1>1, <2>1, <2>2, HandshakeAssumption DEF SaysTrue, Hellos, Segs
<1>6. server \in [Conn -> ServerRec] /\ server[c].sp \in Segs /\ server[c].key = NoKey
      /\ sent \subseteq Frames
  BY <1>1, <1>4 DEF IInv, Types, ServerRec, ServersInv, ServerInv
<1>7. result \in Results /\ reply \in Frames
  <2>1. result \in Results /\ PointerOut(result, server[c].sp) \in Segs
    BY <1>2, <1>5, <1>6, ResultIn
  <2>2. reply \in Arbitrates
    BY <1>3, <2>1 DEF Arbitrate, Arbitrates
  <2>3. QED
    BY <2>1, <2>2 DEF Frames
<1>8. sent' = sent \cup {reply} /\ s2c' = [s2c EXCEPT ![c] = Append(@, reply)]
  BY <1>1, <1>2, <1>3
<1>9. sent \subseteq sent' /\ sent' \subseteq Frames /\ \A x \in sent' \ sent : SaysTrue(x)'
  <2>1. SaysTrue(reply)'
    BY <1>3 DEF SaysTrue, Arbitrate
  <2>2. \A x \in sent' \ sent : x = reply
    BY <1>8
  <2>3. QED
    BY <1>6, <1>7, <1>8, <2>1, <2>2
<1>10. Wire
  BY <1>1, <1>4, <1>7, <1>8, <1>9, ServerTakes DEF ServerRecv
<1>11. Moves(Server)
  BY <1>1, Numbers, StandsStill DEF IInv
<1>12. CASE /\ server' = [server EXCEPT ![c].phase = "IssueWait", ![c].cn = m.cn]
            /\ UNCHANGED <<threads, holder>>
  <2>1. /\ server' \in [Conn -> ServerRec]
        /\ \A d \in Conn \ {c} : server'[d] = server[d]
        /\ server'[c].phase = "IssueWait" /\ server'[c].cn = m.cn
        /\ server'[c].key = server[c].key /\ server'[c].sp = server[c].sp
    BY ZenonT(40), <1>5, <1>6, <1>12 DEF ServerRec, Waiting
  <2>2. server[c].sp = alloc[Server].next
    BY <1>1, <1>4 DEF IInv, ServersInv, ServerInv
  <2>3. made' = made
    BY <1>1 DEF ServerRecv, made
  <2>4. ServerInv(c)'
    BY <1>1, <1>5, <1>6, <2>1, <2>2, <2>3 DEF ServerInv
  <2>5. server[c].phase # "Established"
    BY <1>1
  <2>6. QED
    BY <1>1, <1>4, <1>6, <1>9, <1>10, <1>11, <1>12, <2>1, <2>4, <2>5, ServerAdvances
       DEF ServerRecv, Waiting
<1>13. CASE ThreadLeaves(c, [server[c] EXCEPT
                !.phase = IF result = "ClientAhead" THEN "AheadPending" ELSE "Failed",
                !.cn = m.cn, !.err = result])
  <2>1. result \in Errors /\ m.cn \in Conn \cup {0}
    BY <1>5, <1>7 DEF Errors
  <2>2. ThreadEnds(c)
    BY ZenonT(40), <1>6, <1>13, <2>1 DEF ThreadEnds, ThreadLeaves, ServerRec
  <2>3. QED
    BY <1>1, <1>4, <1>9, <1>10, <1>11, <2>2, ThreadEndsKeeps DEF ServerRecv
<1>14. QED
  BY <1>1, <1>2, <1>12, <1>13

LEMMA OnIssueRequestKeeps ==
    ASSUME IInv, NEW c \in Conn, OnIssueRequest(c)
    PROVE  IInv'
<1> DEFINE a == alloc[Server]
<1>1. PICK m \in Arriving(c2s[c]) :
         /\ ServerRecv(c)
         /\ server[c].phase = "IssueWait" /\ m.type = "IssueRequest"
         /\ UNCHANGED <<s2c, sent>>
         /\ \/ /\ ThreadFails(c, IF ~(m.chosen = server[c].sp) THEN "PointerMismatch"
                                 ELSE "NonceMismatch")
               /\ UNCHANGED alloc
            \/ /\ \E b \in IssueFailed(a) : alloc' = [alloc EXCEPT ![Server] = b]
               /\ ThreadFails(c, "Issuer")
            \/ /\ m.chosen = server[c].sp /\ m.cn = server[c].cn /\ m.sn = c /\ CanIssue(a)
               /\ alloc' = [alloc EXCEPT ![Server] = Issued(a, 1)]
               /\ server' = [server EXCEPT ![c].phase = "ConfirmWait",
                                           ![c].key = Key(Server, a.next)]
               /\ UNCHANGED <<threads, holder>>
  BY DEF OnIssueRequest
<1>2. c \in threads /\ server[c].phase \in Waiting /\ c \in 1 .. made /\ holder = c
  BY <1>1, ThreadFacts DEF ServerRecv
<1>3. a \in AllocatorState /\ Sound(a) /\ Server \in Ends
  BY Numbers DEF IInv, Types, Allocators
<1>4. CASE /\ ThreadFails(c, IF ~(m.chosen = server[c].sp) THEN "PointerMismatch"
                             ELSE "NonceMismatch")
           /\ UNCHANGED alloc
  <2>1. PICK err \in Errors : err = IF ~(m.chosen = server[c].sp) THEN "PointerMismatch"
                                    ELSE "NonceMismatch"
    BY DEF Errors
  <2>2. Moves(Server)
    BY <1>3, <1>4, StandsStill
  <2>3. QED
    BY <1>1, <1>4, <2>1, <2>2, ServerRefuses
<1>5. CASE /\ \E b \in IssueFailed(a) : alloc' = [alloc EXCEPT ![Server] = b]
           /\ ThreadFails(c, "Issuer")
  <2>1. PICK b \in IssueFailed(a) : alloc' = [alloc EXCEPT ![Server] = b]
    BY <1>5
  <2>2. b \in AllocatorState /\ Sound(b) /\ b.disk >= a.disk
    BY <1>3, <2>1, OneIssue
  <2>3. Moves(Server)
    BY <1>3, <2>1, <2>2, MoveStep
  <2>4. "Issuer" \in Errors
    BY DEF Errors
  <2>5. QED
    BY <1>1, <1>5, <2>3, <2>4, ServerRefuses
<1>6. CASE /\ m.chosen = server[c].sp /\ m.cn = server[c].cn /\ m.sn = c /\ CanIssue(a)
           /\ alloc' = [alloc EXCEPT ![Server] = Issued(a, 1)]
           /\ server' = [server EXCEPT ![c].phase = "ConfirmWait",
                                       ![c].key = Key(Server, a.next)]
           /\ UNCHANGED <<threads, holder>>
  <2>1. /\ m.cn \in 1 .. made /\ client[m.cn].key # NoKey
        /\ client[m.cn].agreed = m.chosen /\ client[m.cn].sn = m.sn
    BY <1>1, <1>2, TakenWasSent DEF SaysTrue
  <2>2. server[c].sp = a.next /\ server[c].key = NoKey /\ server \in [Conn -> ServerRec]
    BY <1>1, <1>2 DEF IInv, ServersInv, ServerInv, Types
  <2>3. a.next = a.disk /\ a.next \in Nat /\ a.next \in Segs
    BY <1>3, <1>6, HandshakeAssumption DEF CanIssue, Sound, AllocatorState, Segs
  <2>4. Issued(a, 1) \in AllocatorState /\ Sound(Issued(a, 1)) /\ Issued(a, 1).disk >= a.disk
    BY <1>3, <1>6, OneIssue
  <2>5. Moves(Server) /\ alloc'[Server] = Issued(a, 1)
    BY <1>3, <1>6, <2>4, MoveStep
  <2>6. alloc'[Server].disk = a.next + 1
    BY <2>5 DEF Issued
  <2>7. Key(Server, a.next) # NoKey /\ Key(Server, a.next) \in Keys
    BY <1>3, <2>3, KeyFacts DEF Keys
  <2>8. /\ server' \in [Conn -> ServerRec]
        /\ \A d \in Conn \ {c} : server'[d] = server[d]
        /\ server'[c].phase = "ConfirmWait" /\ server'[c].key = Key(Server, server[c].sp)
        /\ server'[c].sp = server[c].sp /\ server'[c].cn = server[c].cn
    BY <1>6, <2>2, <2>7 DEF ServerRec, Waiting
  <2>9. made' = made /\ client' = client
    BY <1>1 DEF ServerRecv, made
  <2>10. ServerInv(c)'
    <3>1. server'[c].sp < alloc'[Server].disk
      BY <2>2, <2>3, <2>6, <2>8
    <3>2. server'[c].key # NoKey
      BY <2>2, <2>7, <2>8
    <3>3. QED
      BY <1>6, <2>1, <2>8, <2>9, <3>1, <3>2 DEF ServerInv
  <2>11. Wire
    BY <1>1, <1>2, ServerTakes DEF ServerRecv
  <2>12. sent' \subseteq Frames /\ sent' = sent
    BY <1>1 DEF IInv, Types
  <2>13. server'[c].sp >= alloc[Server].disk
    BY <2>2, <2>3, <2>8
  <2>14. server[c].phase # "Established" /\ server'[c].phase \in Waiting
    BY <1>1, <2>8 DEF Waiting
  <2>15. QED
    BY <1>1, <1>2, <1>6, <2>2, <2>5, <2>8, <2>10, <2>11, <2>12, <2>13, <2>14, ServerAdvances
       DEF ServerRecv
<1>7. QED
  BY <1>1, <1>4, <1>5, <1>6

LEMMA OnConfirmKeeps ==
    ASSUME IInv, NEW c \in Conn, OnConfirm(c)
    PROVE  IInv'
<1> DEFINE hs == server[c]
<1>1. PICK m \in Arriving(c2s[c]) :
         /\ ServerRecv(c)
         /\ hs.phase = "ConfirmWait" /\ m.type = "ConfirmC2S"
         /\ \/ /\ Opens(m, hs.sp, hs.cn, c, hs.key)
               /\ s2c' = [s2c EXCEPT ![c] = Append(@, Confirm("ConfirmS2C", hs.sp, hs.cn, c, hs.key))]
               /\ sent' = sent \cup {Confirm("ConfirmS2C", hs.sp, hs.cn, c, hs.key)}
               /\ ThreadLeaves(c, [hs EXCEPT !.phase = "Established"])
            \/ /\ ThreadFails(c, "Authentication")
               /\ UNCHANGED <<s2c, sent>>
         /\ UNCHANGED alloc
  BY DEF OnConfirm
<1>2. c \in threads /\ server[c].phase \in Waiting /\ c \in 1 .. made /\ holder = c
  BY <1>1, ThreadFacts DEF ServerRecv
<1>3. Moves(Server)
  BY <1>1, Numbers, StandsStill DEF IInv
<1>4. CASE ThreadFails(c, "Authentication") /\ UNCHANGED <<s2c, sent>>
  <2>1. "Authentication" \in Errors
    BY DEF Errors
  <2>2. QED
    BY <1>1, <1>3, <1>4, <2>1, ServerRefuses
<1>5. CASE /\ Opens(m, hs.sp, hs.cn, c, hs.key)
           /\ s2c' = [s2c EXCEPT ![c] = Append(@, Confirm("ConfirmS2C", hs.sp, hs.cn, c, hs.key))]
           /\ sent' = sent \cup {Confirm("ConfirmS2C", hs.sp, hs.cn, c, hs.key)}
           /\ ThreadLeaves(c, [hs EXCEPT !.phase = "Established"])
  <2>1. PICK reply : reply = Confirm("ConfirmS2C", hs.sp, hs.cn, c, hs.key)
    OBVIOUS
  <2>2. m.cn = hs.cn /\ m.key = hs.key /\ m.intact
    BY <1>5 DEF Opens
  <2>3. client[m.cn].key = m.key
    BY <1>1, <1>2, <2>2, TakenWasSent DEF SaysTrue
  <2>4. server \in [Conn -> ServerRec] /\ hs.key # NoKey /\ sent \subseteq Frames
    BY <1>1, <1>2 DEF IInv, Types, ServersInv, ServerInv
  <2>5. ThreadEnds(c)
    BY <1>5, <2>2, <2>3, <2>4 DEF ThreadEnds, ThreadLeaves, ServerRec
  <2>6. reply \in Frames
    BY <2>1, <2>4 DEF Confirm, Confirms, Frames, ServerRec
  <2>7. /\ server'[c].phase = "Established" /\ server'[c].cn = hs.cn /\ server'[c].key = hs.key
        /\ made' = made
    BY <1>1, <1>5, <2>4 DEF ThreadLeaves, ServerRec, ServerRecv, made
  <2>8. SaysTrue(reply)'
    BY <1>2, <2>1, <2>7 DEF SaysTrue, Confirm
  <2>9. /\ sent \subseteq sent' /\ sent' \subseteq Frames /\ \A x \in sent' \ sent : SaysTrue(x)'
        /\ reply \in Frames \cap sent' /\ s2c' = [s2c EXCEPT ![c] = Append(@, reply)]
    <3>1. \A x \in sent' \ sent : x = reply
      BY <1>5, <2>1
    <3>2. QED
      BY <1>5, <2>1, <2>4, <2>6, <2>8, <3>1
  <2>10. Wire
    BY <1>1, <1>2, <2>9, ServerTakes DEF ServerRecv
  <2>11. QED
    BY <1>1, <1>2, <1>3, <2>5, <2>9, <2>10, ThreadEndsKeeps DEF ServerRecv
<1>6. QED
  BY <1>1, <1>4, <1>5

-----------------------------------------------------------------------------
(* The network, and a restart of the server.                               *)

LEMMA OnlyWire ==
    ASSUME IInv, Wire, faults' \in Nat,
           UNCHANGED <<alloc, owner, running, client, server, threads, holder, sent, restarts>>
    PROVE  IInv'
<1>1. made' = made
  BY DEF made
<1>2. Types'
  BY <1>1 DEF IInv, Types, Wire
<1>3. Fresh'
  BY <1>1 DEF IInv, Fresh, Unused, Wire
<1>4. ClientsInv' /\ ServersInv'
  BY <1>1 DEF IInv, ClientsInv, ServersInv, ClientInv, ServerInv
<1>5. Honest'
  BY <1>1 DEF IInv, Honest, SaysTrue
<1>6. QED
  BY <1>1, <1>2, <1>3, <1>4, <1>5 DEF IInv, Wire, Allocators, Processes, Distinct

\* The first frame of a queue is replaced.
LEMMA Replaced ==
    ASSUME NEW S \in SUBSET Frames, NEW q \in Seq(Frames), q # <<>>, Carried(q, S),
           NEW m \in Damaged(Head(q)) \cup S
    PROVE  [q EXCEPT ![1] = m] \in Seq(Frames) /\ Carried([q EXCEPT ![1] = m], S)
<1>1. Head(q) \in Frames
  OBVIOUS
<1>2. m \in Frames /\ Genuine(m, S)
  <2>1. CASE m \in S
    BY <2>1 DEF Genuine
  <2>2. CASE m = Unreadable
    BY <2>2 DEF Genuine, Frames, Unreadable
  <2>3. CASE Head(q).type \in {"ConfirmC2S", "ConfirmS2C"} /\ m = [Head(q) EXCEPT !.intact = FALSE]
    <3>1. Head(q) \in Confirms
      BY <1>1, <2>3, FrameKinds
    <3>2. m \in Confirms /\ ~m.intact /\ m.type = Head(q).type
      BY <2>3, <3>1 DEF Confirms
    <3>3. QED
      BY <2>3, <3>2 DEF Genuine, Frames
  <2>4. QED
    BY <2>1, <2>2, <2>3 DEF Damaged
<1>3. [q EXCEPT ![1] = m] \in Seq(Frames) /\ DOMAIN [q EXCEPT ![1] = m] = DOMAIN q
  BY <1>2
<1>4. \A j \in DOMAIN q : [q EXCEPT ![1] = m][j] = m \/ [q EXCEPT ![1] = m][j] = q[j]
  OBVIOUS
<1>5. QED
  BY <1>2, <1>3, <1>4 DEF Carried

LEMMA MangleKeeps ==
    ASSUME IInv, NEW c \in Conn, Mangle(c)
    PROVE  IInv'
<1>1. /\ made' = made /\ made \in Nat /\ c2s \in [Conn -> Seq(Frames)] /\ s2c \in [Conn -> Seq(Frames)]
      /\ sent \in SUBSET Frames /\ sent' = sent /\ faults' \in Nat
  BY Numbers DEF IInv, Types, Mangle, made
<1>2. Carried(c2s[c], sent) /\ Carried(s2c[c], sent)
  BY DEF IInv, InFlight
<1>3. CASE /\ c2s[c] # <<>>
           /\ \E m \in Damaged(Head(c2s[c])) \cup sent : c2s' = [c2s EXCEPT ![c][1] = m]
           /\ UNCHANGED s2c
  <2>1. PICK m \in Damaged(Head(c2s[c])) \cup sent : c2s' = [c2s EXCEPT ![c] = [c2s[c] EXCEPT ![1] = m]]
    BY <1>3
  <2>2. PICK q \in Seq(Frames) : q = [c2s[c] EXCEPT ![1] = m] /\ Carried(q, sent)
    BY <1>1, <1>2, <1>3, Replaced
  <2>3. PICK r \in Seq(Frames) : r = s2c[c]
    BY <1>1
  <2>4. c2s' = [c2s EXCEPT ![c] = q] /\ s2c' = [s2c EXCEPT ![c] = r]
    BY <1>1, <1>3, <2>1, <2>2, <2>3
  <2>5. c <= made' /\ made <= made' /\ made' \in Nat
    <3>1. ~(c > made)
      BY <1>3 DEF IInv, Fresh, Unused
    <3>2. QED
      BY <1>1, <3>1 DEF Conn
  <2>6. Carried(q, sent') /\ Carried(r, sent') /\ sent \subseteq sent'
    BY <1>1, <1>2, <2>2, <2>3
  <2>7. Wire
    BY <2>4, <2>5, <2>6, WireStep
  <2>8. QED
    BY <1>1, <2>7, OnlyWire DEF Mangle
<1>4. CASE /\ s2c[c] # <<>>
           /\ \E m \in Damaged(Head(s2c[c])) \cup sent : s2c' = [s2c EXCEPT ![c][1] = m]
           /\ UNCHANGED c2s
  <2>1. PICK m \in Damaged(Head(s2c[c])) \cup sent : s2c' = [s2c EXCEPT ![c] = [s2c[c] EXCEPT ![1] = m]]
    BY <1>4
  <2>2. PICK r \in Seq(Frames) : r = [s2c[c] EXCEPT ![1] = m] /\ Carried(r, sent)
    BY <1>1, <1>2, <1>4, Replaced
  <2>3. PICK q \in Seq(Frames) : q = c2s[c]
    BY <1>1
  <2>4. c2s' = [c2s EXCEPT ![c] = q] /\ s2c' = [s2c EXCEPT ![c] = r]
    BY <1>1, <1>4, <2>1, <2>2, <2>3
  <2>5. c <= made' /\ made <= made' /\ made' \in Nat
    <3>1. ~(c > made)
      BY <1>4 DEF IInv, Fresh, Unused
    <3>2. QED
      BY <1>1, <3>1 DEF Conn
  <2>6. Carried(q, sent') /\ Carried(r, sent') /\ sent \subseteq sent'
    BY <1>1, <1>2, <2>2, <2>3
  <2>7. Wire
    BY <2>4, <2>5, <2>6, WireStep
  <2>8. QED
    BY <1>1, <2>7, OnlyWire DEF Mangle
<1>5. QED
  BY <1>3, <1>4 DEF Mangle

LEMMA ServerRestartsKeeps ==
    ASSUME IInv, ServerRestarts
    PROVE  IInv'
<1> USE DEF ServerRestarts, netVars
<1>1. made' = made /\ Server \in Ends /\ alloc[Server] \in AllocatorState
  BY Numbers DEF IInv, made, Types
<1>2. Moves(Server)
  <2>1. /\ Reopened(alloc[Server]) \in AllocatorState /\ Sound(Reopened(alloc[Server]))
        /\ Reopened(alloc[Server]).disk = alloc[Server].disk
    BY <1>1, Reopening
  <2>2. alloc[Server].disk \in Nat
    BY <1>1, HandshakeAssumption DEF AllocatorState
  <2>3. Reopened(alloc[Server]).disk >= alloc[Server].disk
    BY <2>1, <2>2
  <2>4. QED
    BY <1>1, <2>1, <2>3, MoveStep
<1>3. Types'
  <2>1. threads' \subseteq 1 .. made' /\ holder' \in 0 .. MaxConn /\ restarts' \in Nat
    BY HandshakeAssumption DEF IInv, Types
  <2>2. QED
    BY <1>1, <1>2, <2>1 DEF IInv, Types, Moves
<1>4. Allocators' /\ \A f \in Ends : alloc'[f].disk >= alloc[f].disk
  BY <1>1, <1>2, MovesKeep
<1>5. Grows
  <2>1. made <= made'
    BY <1>1, Numbers DEF IInv
  <2>2. QED
    BY <1>1, <1>4, <2>1 DEF Grows
<1>6. ClientsInv'
  <2>1. ASSUME NEW d \in 1 .. made
        PROVE  ClientInv(d)'
    <3>1. alloc'[owner[d]] = alloc[owner[d]]
      BY <1>2, Numbers DEF Moves, IInv
    <3>2. QED
      BY <1>3, <1>5, <3>1, ClientKept
  <2>2. QED
    BY <1>1, <2>1 DEF ClientsInv
<1>7. ServersInv'
  BY <1>1, <1>3, <1>5, ServerKept DEF ServersInv
<1>8. Distinct'
  BY <1>5, DistinctKept
<1>9. Honest'
  BY <1>3, <1>5, HonestKept
<1>10. QED
  BY <1>1, <1>3, <1>4, <1>6, <1>7, <1>8, <1>9 DEF IInv, Processes, Fresh, Unused, InFlight

-----------------------------------------------------------------------------
LEMMA InitHolds ==
    ASSUME Init
    PROVE  IInv
<1> USE DEF Init
<1>1. made = 0 /\ 1 .. made = {}
  BY DEF made
<1>2. SegmentCount \in Nat /\ MaxConn \in Nat /\ 0 \in Segs /\ "None" \in Errors /\ NoKey \in Keys
  BY HandshakeAssumption DEF Segs, Errors, Keys
<1>3. alloc \in [Ends -> AllocatorState] /\ \A e \in Ends : Sound(alloc[e])
  BY <1>2 DEF AllocatorState, Sound
<1>4. client \in [Conn -> ClientRec] /\ server \in [Conn -> ServerRec]
  BY <1>2 DEF NoClient, NoServer, ClientRec, ServerRec
<1>5. <<>> \in Seq(Frames)
  OBVIOUS
<1>6. c2s \in [Conn -> Seq(Frames)] /\ s2c \in [Conn -> Seq(Frames)]
  BY <1>5
<1>7. made <= MaxConn /\ running \in [Clients -> 0 .. MaxConn] /\ holder \in 0 .. MaxConn
  BY <1>1, <1>2
<1>8. Types
  BY <1>3, <1>4, <1>6, <1>7 DEF Types
<1>9. Fresh
  BY DEF Fresh, Unused
<1>10. InFlight
  BY DEF InFlight, Carried
<1>11. QED
  BY <1>1, <1>3, <1>8, <1>9, <1>10
     DEF IInv, Allocators, Processes, ClientsInv, ServersInv, Distinct, Honest

LEMMA NextKeeps ==
    ASSUME IInv, [Next]_vars
    PROVE  IInv'
<1>1. CASE UNCHANGED vars
  <2>1. Wire
    BY <1>1, WireStill DEF vars
  <2>2. QED
    BY <1>1, <2>1, OnlyWire DEF vars, IInv, Types
<1>2. CASE Next
  <2>1. ASSUME NEW k \in Clients, Start(k) \/ ClientExits(k)
        PROVE  IInv'
    BY <2>1, StartKeeps, ClientExitsKeeps
  <2>2. ASSUME NEW c \in Conn, ClientStep(c)
        PROVE  IInv'
    BY <2>2, ClientOutOfOrderKeeps, OnArbitrateRefusedKeeps, OnArbitrateKeeps,
       OnConfirmS2CKeeps, ClientRecvFailsKeeps DEF ClientStep
  <2>3. ASSUME NEW c \in Conn, ServerStep(c)
        PROVE  IInv'
    BY <2>3, LockKeeps, ServerOutOfOrderKeeps, OnHelloKeeps, OnIssueRequestKeeps,
       OnConfirmKeeps, ServerRecvFailsKeeps DEF ServerStep
  <2>4. ASSUME NEW c \in Conn, Mangle(c)
        PROVE  IInv'
    BY <2>4, MangleKeeps
  <2>5. QED
    BY <1>2, <2>1, <2>2, <2>3, <2>4, ServerRestartsKeeps DEF Next
<1>3. QED
  BY <1>1, <1>2

\* The inductive invariant holds in every state of the handshake, whatever
\* the network damages or delivers elsewhere and whichever process dies.
THEOREM Invariance == Spec => []IInv
BY InitHolds, NextKeeps, PTL DEF Spec

\* The machines' fields have their types, and the allocator's mutex is held
\* exactly while one thread of serve_one is inside server_handshake.
THEOREM TypeCorrect == Spec => []TypeOK
<1>1. ASSUME IInv
      PROVE  TypeOK
  <2>1. /\ alloc \in [Ends -> AllocatorState]
        /\ owner \in Seq(Clients) /\ made <= MaxConn
        /\ running \in [Clients -> 0 .. MaxConn]
        /\ threads \subseteq Conn /\ holder \in 0 .. MaxConn
        /\ \A c \in threads : c # 0
    <3>1. made \in Nat /\ 1 .. made \subseteq Conn /\ threads \subseteq 1 .. made
      BY <1>1, Numbers DEF IInv, Types
    <3>2. threads \subseteq Conn /\ \A c \in threads : c # 0
      BY <3>1
    <3>3. QED
      BY <1>1, <3>2 DEF IInv, Types
  <2>2. ASSUME NEW c \in Conn
        PROVE  /\ client[c].phase \in {"Idle", "HelloSent", "ConfirmSent",
                                       "Established", "AheadRecovery", "Failed"}
               /\ client[c].cp \in 0 .. SegmentCount
               /\ client[c].agreed \in 0 .. SegmentCount
               /\ server[c].phase \in Waiting \cup {"Idle", "Established",
                                                    "AheadPending", "Failed"}
               /\ server[c].sp \in 0 .. SegmentCount
    BY <1>1 DEF IInv, Types, ClientRec, ServerRec, Segs
  <2>3. holder # 0 <=> \E c \in threads : server[c].phase \in Waiting
    BY <1>1, <2>1 DEF IInv, Processes
  <2>4. QED
    BY <2>1, <2>2, <2>3 DEF TypeOK
<1>2. QED
  BY <1>1, Invariance, PTL

\* No segment is the key of two sessions (README.md: each segment is used
\* once): for any number of clients and connections, any damage and any
\* crash, neither the server nor a client ever keys two connections alike, a
\* key both ends of a peering have belongs to one connection, and the segment
\* of an established session is behind both durable pointers.
THEOREM SegmentUsedOnceHolds == Spec => []SegmentUsedOnce
<1>1. ASSUME IInv
      PROVE  SegmentUsedOnce
  <2>1. ASSUME NEW c \in 1 .. made, NEW d \in 1 .. made, c # d, server[c].key = server[d].key
        PROVE  server[c].key = NoKey
    <3>1. SUFFICES ASSUME server[c].key # NoKey
                   PROVE  FALSE
      OBVIOUS
    <3>2. server[c].key = Key(Server, server[c].sp) /\ server[d].key = Key(Server, server[d].sp)
      BY <1>1, <2>1, <3>1 DEF IInv, ServersInv, ServerInv
    <3>3. server[c].sp = server[d].sp
      BY <2>1, <3>2, KeyFacts
    <3>4. QED
      BY <1>1, <2>1, <3>1, <3>3 DEF IInv, Distinct
  <2>2. ASSUME NEW c \in 1 .. made, NEW d \in 1 .. made, c # d, owner[c] = owner[d],
               client[c].key = client[d].key
        PROVE  client[c].key = NoKey
    <3>1. SUFFICES ASSUME client[c].key # NoKey
                   PROVE  FALSE
      OBVIOUS
    <3>2. client[c].key = Key(owner[c], client[c].agreed) /\ client[d].key = Key(owner[d], client[d].agreed)
      BY <1>1, <2>2, <3>1 DEF IInv, ClientsInv, ClientInv
    <3>3. client[c].agreed = client[d].agreed
      BY <2>2, <3>2, KeyFacts
    <3>4. QED
      BY <1>1, <2>2, <3>1, <3>3 DEF IInv, Distinct
  <2>3. ASSUME NEW c \in 1 .. made, NEW d \in 1 .. made, server[d].key # NoKey,
               server[d].key = client[c].key, owner[c] = owner[server[d].cn]
        PROVE  server[d].cn = c /\ client[c].sn = d
    <3>1. PICK p \in 1 .. made : /\ p = server[d].cn
                                 /\ server[d].key = Key(Server, server[d].sp)
                                 /\ client[p].key # NoKey /\ client[p].agreed = server[d].sp
                                 /\ client[p].sn = d
      BY <1>1, <2>3 DEF IInv, ServersInv, ServerInv
    <3>2. client[c].key = Key(owner[c], client[c].agreed)
      BY <1>1, <2>3 DEF IInv, ClientsInv, ClientInv
    <3>3. client[c].agreed = client[p].agreed
      BY <2>3, <3>1, <3>2, KeyFacts
    <3>4. c = p
      BY <1>1, <2>3, <3>1, <3>3 DEF IInv, Distinct
    <3>5. QED
      BY <3>1, <3>4
  <2>4. ASSUME NEW c \in 1 .. made, server[c].phase = "Established"
        PROVE  /\ server[c].sp < alloc[Server].disk
               /\ client[server[c].cn].agreed < alloc[owner[server[c].cn]].disk
    <3>1. /\ server[c].sp < alloc[Server].disk /\ server[c].cn \in 1 .. made
          /\ client[server[c].cn].key # NoKey
      BY <1>1, <2>4 DEF IInv, ServersInv, ServerInv
    <3>2. QED
      BY <1>1, <3>1 DEF IInv, ClientsInv, ClientInv
  <2>5. QED
    BY <2>1, <2>2, <2>3, <2>4 DEF SegmentUsedOnce
<1>2. QED
  BY <1>1, Invariance, PTL

\* CONFIRM does its work (on_confirm, on_confirm_s2c): an end that reaches
\* Established shares key, segment number and nonces with the end whose nonce
\* it works with, and a client gets there only after its server did.
THEOREM KeysAgreeHolds == Spec => []KeysAgree
<1>1. ASSUME IInv
      PROVE  KeysAgree
  <2>1. ASSUME NEW c \in Conn, c \notin 1 .. made
        PROVE  server[c].phase # "Established" /\ client[c].phase # "Established"
    <3>1. c > made
      BY <1>1, <2>1, Numbers DEF IInv, Conn
    <3>2. QED
      BY <1>1, <3>1 DEF IInv, Fresh, Unused, NoServer, NoClient
  <2>2. ASSUME NEW c \in 1 .. made, server[c].phase = "Established"
        PROVE  /\ client[server[c].cn].key = server[c].key
               /\ client[server[c].cn].agreed = server[c].sp
               /\ client[server[c].cn].sn = c
               /\ server[c].key = Key(Server, server[c].sp)
    BY <1>1, <2>2 DEF IInv, ServersInv, ServerInv
  <2>3. ASSUME NEW c \in 1 .. made, client[c].phase = "Established"
        PROVE  server[client[c].sn].phase = "Established" /\ server[client[c].sn].cn = c
    BY <1>1, <2>3 DEF IInv, ClientsInv, ClientInv
  <2>4. ASSUME NEW c \in Conn
        PROVE  /\ server[c].phase = "Established" =>
                    /\ client[server[c].cn].key = server[c].key
                    /\ client[server[c].cn].agreed = server[c].sp
                    /\ client[server[c].cn].sn = c
                    /\ server[c].key = Key(Server, server[c].sp)
               /\ client[c].phase = "Established" =>
                    server[client[c].sn].phase = "Established" /\ server[client[c].sn].cn = c
    <3>1. CASE c \in 1 .. made
      BY <2>2, <2>3, <3>1
    <3>2. CASE c \notin 1 .. made
      BY <2>1, <3>2
    <3>3. QED
      BY <3>1, <3>2
  <2>5. QED
    BY <2>4 DEF KeysAgree
<1>2. QED
  BY <1>1, Invariance, PTL

-----------------------------------------------------------------------------
(* While the network delivers frames as sent, the two machines of a        *)
(* connection are in step: what is in flight is what the next phase of the *)
(* receiver waits for, with the pointers and nonces it will compare.       *)

Accusations == {"PointerMismatch", "NonceMismatch", "BadOrder"}

Verdict(c) == Result(BookId[owner[c]], client[c].cp, server[c].sp)

InStep(c) ==
    /\ c \in threads /\ server[c].phase \in {"Idle", "HelloWait"} =>
          /\ c2s[c] = <<Hello(BookId[owner[c]], c, client[c].cp)>> /\ s2c[c] = <<>>
          /\ client[c].phase # "ConfirmSent"
    /\ c \in threads /\ server[c].phase = "IssueWait" =>
          /\ server[c].cn = c
          /\ c2s[c] # <<>> =>
                /\ client[c].phase # "HelloSent" /\ Len(c2s[c]) = 2
                /\ c2s[c][1] = IssueRequest(server[c].sp, c, c) /\ c2s[c][2].type = "ConfirmC2S"
    /\ c \in threads /\ server[c].phase = "ConfirmWait" =>
          client[c].phase # "HelloSent" /\ Len(c2s[c]) = 1 /\ c2s[c][1].type = "ConfirmC2S"
    /\ client[c].phase = "HelloSent" /\ s2c[c] # <<>> =>
          /\ Len(s2c[c]) = 1
          /\ s2c[c][1] = Arbitrate(c, PointerOut(Verdict(c), server[c].sp), Verdict(c))
    /\ client[c].phase = "ConfirmSent" /\ s2c[c] # <<>> =>
          /\ ~(c \in threads /\ server[c].phase \in Waiting)
          /\ Len(s2c[c]) = 1 /\ s2c[c][1].type = "ConfirmS2C"
    /\ client[c].err \notin Accusations /\ server[c].err \notin Accusations

AllInStep == \A c \in 1 .. made : InStep(c)

Quiet == faults = 0 => AllInStep

LEMMA Heads ==
    ASSUME NEW q \in Seq(Frames), NEW m \in Arriving(q)
    PROVE  /\ q # <<>> /\ m = q[1]
           /\ Len(q) = 1 => Tail(q) = <<>>
           /\ Len(q) = 2 => Len(Tail(q)) = 1 /\ Tail(q)[1] = q[2]
           /\ \A x : q = <<x>> => m = x /\ Tail(q) = <<>>
<1>1. q # <<>> /\ 1 \in DOMAIN q /\ m = q[1]
  BY DEF Arriving
<1>2. Len(q) = 1 => Tail(q) = <<>>
  <2>1. Tail(q) \in Seq(Frames) /\ (Len(q) = 1 => Len(Tail(q)) = 0)
    BY <1>1
  <2>2. \A s \in Seq(Frames) : Len(s) = 0 => s = <<>>
    OBVIOUS
  <2>3. QED
    BY <2>1, <2>2
<1>3. Len(q) = 2 => Len(Tail(q)) = 1 /\ Tail(q)[1] = q[2]
  BY <1>1
<1>4. \A x : q = <<x>> => m = x /\ Tail(q) = <<>>
  BY <1>1
<1>5. QED
  BY <1>1, <1>2, <1>3, <1>4

\* A step of one connection does not disturb the others.
LEMMA OneConnection ==
    ASSUME IInv, AllInStep, NEW c \in 1 .. made, owner' = owner,
           \A d \in Conn \ {c} : /\ client'[d] = client[d] /\ server'[d] = server[d]
                                 /\ c2s'[d] = c2s[d] /\ s2c'[d] = s2c[d]
                                 /\ d \in threads' => d \in threads,
           InStep(c)'
    PROVE  AllInStep'
<1>1. made' = made /\ 1 .. made \subseteq Conn
  BY Numbers DEF IInv, made
<1>2. ASSUME NEW d \in 1 .. made, d # c
      PROVE  InStep(d)'
  <2>1. InStep(d)
    BY DEF AllInStep
  <2>2. /\ client'[d] = client[d] /\ server'[d] = server[d] /\ owner'[d] = owner[d]
        /\ c2s'[d] = c2s[d] /\ s2c'[d] = s2c[d] /\ (d \in threads' => d \in threads)
    BY <1>1, <1>2
  <2>3. QED
    BY <2>1, <2>2 DEF InStep, Verdict
<1>3. QED
  BY <1>1, <1>2 DEF AllInStep

\* The client of c gives up for a reason that accuses nobody.
LEMMA ClientEndsInStep ==
    ASSUME IInv, AllInStep, NEW c \in 1 .. made, owner' = owner,
           client' \in [Conn -> ClientRec], \A d \in Conn \ {c} : client'[d] = client[d],
           client'[c].phase \in {"Failed", "AheadRecovery", "Established"},
           client'[c].cp = client[c].cp, client'[c].err \notin Accusations,
           s2c' = s2c \/ (s2c[c] # <<>> /\ s2c' = [s2c EXCEPT ![c] = Tail(@)]),
           UNCHANGED <<server, threads, c2s>>
    PROVE  AllInStep'
<1>1. c \in Conn /\ s2c \in [Conn -> Seq(Frames)]
  BY Numbers DEF IInv, Types
<1>2. InStep(c)
  BY DEF AllInStep
<1>3. \A d \in Conn \ {c} : s2c'[d] = s2c[d]
  BY <1>1
<1>4. c \in threads /\ server[c].phase \in {"Idle", "HelloWait"} => s2c'[c] = s2c[c]
  BY <1>2 DEF InStep
<1>5. InStep(c)'
  BY <1>2, <1>4 DEF InStep
<1>6. QED
  BY <1>3, <1>5, OneConnection

\* The thread of c gives up for a reason that accuses nobody.
LEMMA ThreadFailsInStep ==
    ASSUME IInv, AllInStep, NEW c \in threads, server[c].phase \in Waiting,
           NEW err \in Errors, err \notin Accusations, ThreadFails(c, err),
           c2s' = c2s \/ c2s' = [c2s EXCEPT ![c] = Tail(@)], UNCHANGED <<owner, client, s2c>>
    PROVE  AllInStep'
<1>1. /\ c \in 1 .. made /\ c \in Conn /\ c2s \in [Conn -> Seq(Frames)]
      /\ server \in [Conn -> ServerRec]
  BY Numbers DEF IInv, Types
<1>2. InStep(c)
  BY <1>1 DEF AllInStep
<1>3. \A d \in Conn \ {c} : c2s'[d] = c2s[d]
  BY <1>1
<1>4. /\ \A d \in Conn \ {c} : server'[d] = server[d]
      /\ server'[c].err = err /\ server'[c].sp = server[c].sp /\ threads' = threads \ {c}
  BY <1>1 DEF ThreadFails, ThreadLeaves, ServerRec
<1>5. InStep(c)'
  BY <1>2, <1>4 DEF InStep, Verdict
<1>6. QED
  BY <1>1, <1>3, <1>4, <1>5, OneConnection

\* What a result of the pointer table says of the two pointers.
Outcome(book, cp, sp, r) ==
    /\ r \in {"Exhausted", "ClientAhead", "Ok", "ServerAhead"} => book = BookId[Server]
    /\ r = "ClientAhead" => sp < cp
    /\ r = "Ok" => sp = cp
    /\ r = "ServerAhead" => sp > cp

LEMMA VerdictFacts ==
    ASSUME NEW book, NEW cp \in Nat, NEW sp \in Nat
    PROVE  Outcome(book, cp, sp, Result(book, cp, sp))
<1>1. SegmentCount \in Nat
  BY HandshakeAssumption
<1> DEFINE r == Result(book, cp, sp)
<1>2. CASE book # BookId[Server]
  <2>1. r = "BookMismatch"
    BY <1>2 DEF Result
  <2>2. QED
    BY <2>1 DEF Outcome
<1>3. CASE book = BookId[Server] /\ sp >= SegmentCount
  <2>1. r = "Exhausted"
    BY <1>1, <1>3 DEF Result
  <2>2. QED
    BY <1>3, <2>1 DEF Outcome
<1>4. CASE book = BookId[Server] /\ sp < SegmentCount /\ sp > cp
  <2>1. r = "ServerAhead"
    BY <1>1, <1>4 DEF Result
  <2>2. QED
    BY <1>4, <2>1 DEF Outcome
<1>5. CASE book = BookId[Server] /\ sp < SegmentCount /\ cp > sp
  <2>1. r = "ClientAhead"
    BY <1>1, <1>5 DEF Result
  <2>2. QED
    BY <1>5, <2>1 DEF Outcome
<1>6. CASE book = BookId[Server] /\ sp < SegmentCount /\ cp = sp
  <2>1. r = "Ok"
    BY <1>1, <1>6 DEF Result
  <2>2. QED
    BY <1>6, <2>1 DEF Outcome
<1>7. QED
  BY <1>1, <1>2, <1>3, <1>4, <1>5, <1>6

\* on_arbitrate in step: the thread waits for what the client sends.
LEMMA QuietOnArbitrate ==
    ASSUME IInv, AllInStep, NEW c \in Conn, OnArbitrate(c)
    PROVE  AllInStep'
<1>1. PICK m \in Arriving(s2c[c]) :
         LET k == owner[c]
             i == m.sp
             n == i - client[c].cp + 1
             key == Key(k, alloc[k].next + n - 1)
         IN  /\ Agreed(c, m)
             /\ \/ /\ client' = [client EXCEPT
                          ![c] = [@ EXCEPT !.phase = "ConfirmSent", !.agreed = i,
                                           !.sn = m.sn, !.key = key]]
                   /\ Send2S(c, <<IssueRequest(i, c, m.sn),
                                  Confirm("ConfirmC2S", i, c, m.sn, key)>>)
                \/ /\ client' = [client EXCEPT
                          ![c] = [@ EXCEPT !.phase = "Failed", !.agreed = i,
                                           !.sn = m.sn, !.err = "Issuer"]]
                   /\ UNCHANGED <<c2s, sent>>
  BY DEF OnArbitrate, Agreed
<1>2. /\ c \in 1 .. made /\ m.sp \in Segs /\ m.sn \in Conn /\ client \in [Conn -> ClientRec]
      /\ s2c \in [Conn -> Seq(Frames)] /\ s2c[c] \in Seq(Frames)
      /\ c2s \in [Conn -> Seq(Frames)] /\ c2s[c] \in Seq(Frames)
  BY <1>1, AgreedFacts DEF IInv, Types
<1>3. InStep(c) /\ client[c].phase = "HelloSent" /\ m.result \in {"Ok", "ServerAhead"}
  BY <1>1, <1>2 DEF AllInStep, Agreed
<1>4. /\ s2c[c] # <<>> /\ Tail(s2c[c]) = <<>>
      /\ m = Arbitrate(c, PointerOut(Verdict(c), server[c].sp), Verdict(c))
  BY <1>2, <1>3, Heads DEF InStep
<1>5. m.sn = c /\ m.sp = server[c].sp
  BY <1>3, <1>4 DEF Arbitrate, PointerOut
<1>6. /\ s2c' = [s2c EXCEPT ![c] = Tail(@)] /\ UNCHANGED <<owner, server, threads>>
      /\ s2c'[c] = <<>> /\ \A d \in Conn \ {c} : s2c'[d] = s2c[d]
  BY <1>1, <1>2, <1>4 DEF Agreed, ClientRecv
<1>7. PICK key : key = Key(owner[c], alloc[owner[c]].next + (m.sp - client[c].cp + 1) - 1)
  OBVIOUS
<1>8. CASE /\ client' = [client EXCEPT ![c] = [@ EXCEPT !.phase = "ConfirmSent", !.agreed = m.sp,
                                                        !.sn = m.sn, !.key = key]]
           /\ Send2S(c, <<IssueRequest(m.sp, c, m.sn), Confirm("ConfirmC2S", m.sp, c, m.sn, key)>>)
  <2>1. PICK f : f = IssueRequest(server[c].sp, c, c)
    OBVIOUS
  <2>2. PICK g : g = Confirm("ConfirmC2S", m.sp, c, m.sn, key)
    OBVIOUS
  <2>3. /\ \A d \in Conn \ {c} : client'[d] = client[d]
        /\ client'[c].phase = "ConfirmSent" /\ client'[c].cp = client[c].cp
        /\ client'[c].err = client[c].err
    BY <1>2, <1>8 DEF ClientRec
  <2>4. c2s' = [c2s EXCEPT ![c] = @ \o <<f, g>>]
    BY <1>5, <1>8, <2>1, <2>2 DEF Send2S
  <2>5. \A d \in Conn \ {c} : c2s'[d] = c2s[d]
    BY <1>2, <2>4
  <2>6. ~(c \in threads /\ server[c].phase \in {"Idle", "HelloWait", "ConfirmWait"})
    BY <1>3, <1>4 DEF InStep
  <2>7. c \in threads /\ server[c].phase = "IssueWait" =>
           /\ server[c].cn = c /\ Len(c2s'[c]) = 2
           /\ c2s'[c][1] = f /\ c2s'[c][2].type = "ConfirmC2S"
    <3>1. SUFFICES ASSUME c \in threads, server[c].phase = "IssueWait"
                   PROVE  server[c].cn = c /\ c2s'[c] = <<f, g>> /\ g.type = "ConfirmC2S"
      OBVIOUS
    <3>2. server[c].cn = c /\ c2s[c] = <<>>
      BY <1>3, <3>1 DEF InStep
    <3>3. c2s'[c] = <<>> \o <<f, g>>
      BY <1>2, <2>4, <3>2
    <3>4. QED
      BY <2>2, <3>2, <3>3 DEF Confirm
  <2>8. InStep(c)'
    BY <1>3, <1>6, <2>1, <2>3, <2>6, <2>7 DEF InStep
  <2>9. QED
    BY <1>2, <1>6, <2>3, <2>5, <2>8, OneConnection
<1>9. CASE /\ client' = [client EXCEPT ![c] = [@ EXCEPT !.phase = "Failed", !.agreed = m.sp,
                                                        !.sn = m.sn, !.err = "Issuer"]]
           /\ UNCHANGED <<c2s, sent>>
  <2>1. "Issuer" \in Errors /\ "Issuer" \notin Accusations /\ m.sn \in Conn \cup {0}
    BY <1>2 DEF Errors, Accusations
  <2>2. /\ client' \in [Conn -> ClientRec]
        /\ \A d \in Conn \ {c} : client'[d] = client[d]
        /\ client'[c].phase = "Failed" /\ client'[c].err = "Issuer" /\ client'[c].cp = client[c].cp
    BY ZenonT(40), <1>2, <1>9, <2>1 DEF ClientRec
  <2>3. QED
    BY ZenonT(40), <1>2, <1>4, <1>6, <1>9, <2>1, <2>2, ClientEndsInStep
<1>10. QED
  BY <1>1, <1>7, <1>8, <1>9

LEMMA QuietClient ==
    ASSUME IInv, AllInStep, NEW c \in Conn, ClientStep(c)
    PROVE  AllInStep'
<1>1. /\ c \in 1 .. made /\ client \in [Conn -> ClientRec] /\ c2s \in [Conn -> Seq(Frames)]
      /\ s2c \in [Conn -> Seq(Frames)] /\ s2c[c] \in Seq(Frames) /\ c2s[c] \in Seq(Frames)
  <2>1. Live(c)
    BY DEF ClientStep, ClientOutOfOrder, OnArbitrateRefused, OnArbitrate, OnConfirmS2C,
           ClientRecvFails, ClientRecv
  <2>2. QED
    BY <2>1, LiveFacts DEF IInv, Types
<1>2. InStep(c)
  BY <1>1 DEF AllInStep
<1>3. \A m \in Arriving(s2c[c]) :
         /\ s2c[c] # <<>> /\ m = s2c[c][1] /\ (Len(s2c[c]) = 1 => Tail(s2c[c]) = <<>>)
         /\ client[c].phase = "HelloSent" =>
               m = Arbitrate(c, PointerOut(Verdict(c), server[c].sp), Verdict(c))
         /\ client[c].phase = "ConfirmSent" => m.type = "ConfirmS2C"
  BY <1>1, <1>2, Heads DEF InStep
<1>4. ASSUME NEW err, err \in Errors, err \notin Accusations, ClientFails(c, err),
             s2c' = s2c \/ (s2c[c] # <<>> /\ s2c' = [s2c EXCEPT ![c] = Tail(@)]),
             UNCHANGED <<owner, server, threads, c2s>>
      PROVE  AllInStep'
  <2>1. /\ client' \in [Conn -> ClientRec]
        /\ \A d \in Conn \ {c} : client'[d] = client[d]
        /\ client'[c].phase = "Failed" /\ client'[c].err = err /\ client'[c].cp = client[c].cp
    BY <1>1, <1>4, ClientFailsEffect
  <2>2. QED
    BY <1>1, <1>4, <2>1, ClientEndsInStep
<1>5. CASE ClientRecvFails(c)
  <2>1. "Transport" \in Errors /\ "Transport" \notin Accusations
    BY DEF Errors, Accusations
  <2>2. QED
    BY <1>4, <1>5, <2>1 DEF ClientRecvFails, netVars
<1>6. CASE ClientOutOfOrder(c)
  <2>1. PICK m \in Arriving(s2c[c]) :
           /\ ClientRecv(c)
           /\ m.type # (IF client[c].phase = "HelloSent" THEN "Arbitrate" ELSE "ConfirmS2C")
    BY <1>6 DEF ClientOutOfOrder
  <2>2. QED
    BY <1>3, <2>1 DEF ClientRecv, Arbitrate
<1>7. CASE OnArbitrateRefused(c)
  <2>1. PICK m \in Arriving(s2c[c]) :
           /\ ClientRecv(c) /\ client[c].phase = "HelloSent"
           /\ \/ Contradicts(m, client[c].cp)
              \/ m.result \in {"BookMismatch", "Exhausted"} /\ ClientFails(c, m.result)
              \/ client' = [client EXCEPT ![c].phase = "AheadRecovery", ![c].err = "ClientAhead"]
           /\ UNCHANGED <<alloc, c2s, sent>>
    BY <1>7 DEF OnArbitrateRefused
  <2>2. ~Contradicts(m, client[c].cp)
    <3>1. m.result = Verdict(c) /\ m.sp = PointerOut(Verdict(c), server[c].sp)
      BY <1>3, <2>1 DEF Arbitrate
    <3>2. client[c].cp \in Nat /\ server[c].sp \in Nat /\ SegmentCount \in Nat
      BY HandshakeAssumption, Pointers DEF IInv, Types
    <3>3. /\ Verdict(c) = "Exhausted" => m.sp = SegmentCount
          /\ Verdict(c) \in {"ClientAhead", "Ok", "ServerAhead"} => m.sp = server[c].sp
      BY <3>1 DEF PointerOut
    <3>4. Outcome(BookId[owner[c]], client[c].cp, server[c].sp, Verdict(c))
      BY <3>2, VerdictFacts DEF Verdict
    <3>5. QED
      BY <3>1, <3>2, <3>3, <3>4 DEF Contradicts, Outcome
  <2>3. s2c[c] # <<>> /\ s2c' = [s2c EXCEPT ![c] = Tail(@)] /\ UNCHANGED <<owner, server, threads, c2s>>
    BY <1>3, <2>1 DEF ClientRecv
  <2>4. CASE m.result \in {"BookMismatch", "Exhausted"} /\ ClientFails(c, m.result)
    <3>1. PICK err : err = m.result /\ err \in Errors /\ err \notin Accusations
      BY <2>4 DEF Errors, Results, Accusations
    <3>2. QED
      BY <1>4, <2>3, <2>4, <3>1
  <2>5. CASE client' = [client EXCEPT ![c].phase = "AheadRecovery", ![c].err = "ClientAhead"]
    <3>1. "ClientAhead" \in Errors /\ "ClientAhead" \notin Accusations
      BY DEF Errors, Results, Accusations
    <3>2. /\ client' \in [Conn -> ClientRec]
          /\ \A d \in Conn \ {c} : client'[d] = client[d]
          /\ client'[c].phase = "AheadRecovery" /\ client'[c].err = "ClientAhead"
          /\ client'[c].cp = client[c].cp
      BY ZenonT(40), <1>1, <2>5, <3>1 DEF ClientRec
    <3>3. QED
      BY <1>1, <2>3, <3>1, <3>2, ClientEndsInStep
  <2>6. QED
    BY <2>1, <2>2, <2>4, <2>5
<1>8. CASE OnArbitrate(c)
  BY <1>8, QuietOnArbitrate
<1>9. CASE OnConfirmS2C(c)
  <2>1. PICK m \in Arriving(s2c[c]) :
           /\ ClientRecv(c)
           /\ \/ client' = [client EXCEPT ![c].phase = "Established"]
              \/ ClientFails(c, "Authentication")
           /\ UNCHANGED <<alloc, c2s, sent>>
    BY <1>9 DEF OnConfirmS2C
  <2>2. s2c[c] # <<>> /\ s2c' = [s2c EXCEPT ![c] = Tail(@)] /\ UNCHANGED <<owner, server, threads, c2s>>
    BY <1>3, <2>1 DEF ClientRecv
  <2>3. CASE ClientFails(c, "Authentication")
    <3>1. "Authentication" \in Errors /\ "Authentication" \notin Accusations
      BY DEF Errors, Accusations
    <3>2. QED
      BY <1>4, <2>2, <2>3, <3>1
  <2>4. CASE client' = [client EXCEPT ![c].phase = "Established"]
    <3>1. /\ client' \in [Conn -> ClientRec]
          /\ \A d \in Conn \ {c} : client'[d] = client[d]
          /\ client'[c].phase = "Established" /\ client'[c].err = client[c].err
          /\ client'[c].cp = client[c].cp
      BY ZenonT(40), <1>1, <2>4 DEF ClientRec
    <3>2. client[c].err \notin Accusations
      BY <1>2 DEF InStep
    <3>3. QED
      BY <1>1, <2>2, <3>1, <3>2, ClientEndsInStep
  <2>5. QED
    BY <2>1, <2>3, <2>4
<1>10. QED
  BY <1>5, <1>6, <1>7, <1>8, <1>9 DEF ClientStep

LEMMA QuietOnHello ==
    ASSUME IInv, AllInStep, NEW c \in Conn, OnHello(c)
    PROVE  AllInStep'
<1>1. PICK m \in Arriving(c2s[c]) :
         LET sp == server[c].sp
             result == Result(m.book, m.cp, sp)
             reply == Arbitrate(c, PointerOut(result, sp), result)
         IN  /\ ServerRecv(c)
             /\ server[c].phase = "HelloWait" /\ m.type = "Hello"
             /\ s2c' = [s2c EXCEPT ![c] = Append(@, reply)]
             /\ \/ /\ server' = [server EXCEPT ![c].phase = "IssueWait",
                                               ![c].cn = m.cn]
                   /\ UNCHANGED <<threads, holder>>
                \/ ThreadLeaves(c, [server[c] EXCEPT
                          !.phase = IF result = "ClientAhead" THEN "AheadPending"
                                    ELSE "Failed",
                          !.cn = m.cn, !.err = result])
  BY DEF OnHello
<1>2. /\ c \in threads /\ c \in 1 .. made /\ server \in [Conn -> ServerRec]
      /\ c2s \in [Conn -> Seq(Frames)] /\ c2s[c] \in Seq(Frames)
      /\ s2c \in [Conn -> Seq(Frames)] /\ UNCHANGED <<owner, client>>
      /\ c2s' = [c2s EXCEPT ![c] = Tail(@)]
  BY <1>1, Numbers, ThreadFacts DEF IInv, Types, ServerRecv
<1>3. /\ c2s[c] = <<Hello(BookId[owner[c]], c, client[c].cp)>> /\ s2c[c] = <<>>
      /\ client[c].phase # "ConfirmSent"
      /\ client[c].err \notin Accusations /\ server[c].err \notin Accusations
  BY <1>1, <1>2 DEF AllInStep, InStep
<1>4. m = Hello(BookId[owner[c]], c, client[c].cp) /\ Tail(c2s[c]) = <<>>
  BY <1>2, <1>3, Heads
<1>5. Result(m.book, m.cp, server[c].sp) = Verdict(c) /\ m.cn = c
  BY <1>4 DEF Hello, Verdict
<1>6. PICK v : v = Verdict(c)
  OBVIOUS
<1>7. v \in Results
  <2>1. server[c].sp \in Segs /\ client[c].cp \in Nat
    BY <1>2, Pointers DEF ServerRec, IInv, Types
  <2>2. QED
    BY <1>6, <2>1, ResultIn DEF Verdict
<1>8. PICK reply : reply = Arbitrate(c, PointerOut(v, server[c].sp), v)
  OBVIOUS
<1>9. /\ c2s'[c] = <<>> /\ s2c'[c] = <<reply>>
      /\ \A d \in Conn \ {c} : c2s'[d] = c2s[d] /\ s2c'[d] = s2c[d]
  <2>1. s2c' = [s2c EXCEPT ![c] = Append(@, reply)]
    BY <1>1, <1>5, <1>6, <1>8
  <2>2. Append(<<>>, reply) = <<reply>>
    OBVIOUS
  <2>3. QED
    BY <1>2, <1>3, <1>4, <2>1, <2>2
<1>10. CASE /\ server' = [server EXCEPT ![c].phase = "IssueWait", ![c].cn = m.cn]
            /\ UNCHANGED <<threads, holder>>
  <2>1. /\ \A d \in Conn \ {c} : server'[d] = server[d]
        /\ server'[c].phase = "IssueWait" /\ server'[c].cn = c
        /\ server'[c].sp = server[c].sp /\ server'[c].err = server[c].err
    BY <1>2, <1>5, <1>10 DEF ServerRec
  <2>2. Verdict(c)' = v
    BY <1>2, <1>6, <2>1 DEF Verdict
  <2>3. InStep(c)'
    BY <1>2, <1>3, <1>8, <1>9, <2>1, <2>2 DEF InStep
  <2>4. QED
    BY <1>2, <1>9, <1>10, <2>1, <2>3, OneConnection
<1>11. CASE ThreadLeaves(c, [server[c] EXCEPT
                !.phase = IF v = "ClientAhead" THEN "AheadPending" ELSE "Failed",
                !.cn = m.cn, !.err = v])
  <2>1. v \notin Accusations
    BY <1>7 DEF Accusations, Results
  <2>2. /\ \A d \in Conn \ {c} : server'[d] = server[d]
        /\ server'[c].sp = server[c].sp /\ server'[c].err = v /\ threads' = threads \ {c}
    BY <1>2, <1>11 DEF ThreadLeaves, ServerRec
  <2>3. Verdict(c)' = v
    BY <1>2, <1>6, <2>2 DEF Verdict
  <2>4. InStep(c)'
    BY <1>2, <1>3, <1>8, <1>9, <2>1, <2>2, <2>3 DEF InStep
  <2>5. QED
    BY <1>2, <1>9, <2>2, <2>4, OneConnection
<1>12. QED
  BY <1>1, <1>5, <1>6, <1>10, <1>11

LEMMA QuietServer ==
    ASSUME IInv, AllInStep, NEW c \in Conn, ServerStep(c)
    PROVE  AllInStep'
<1>1. /\ c \in threads /\ c \in 1 .. made /\ server \in [Conn -> ServerRec]
      /\ c2s \in [Conn -> Seq(Frames)] /\ c2s[c] \in Seq(Frames)
      /\ s2c \in [Conn -> Seq(Frames)] /\ s2c[c] \in Seq(Frames)
  <2>1. c \in threads
    BY DEF ServerStep, Lock, ServerOutOfOrder, OnHello, OnIssueRequest, OnConfirm,
           ServerRecvFails, ServerRecv
  <2>2. QED
    BY SMTT(30), <2>1 DEF IInv, Types
<1>2. InStep(c)
  BY <1>1 DEF AllInStep
<1>3. CASE Lock(c)
  <2>1. /\ \A d \in Conn \ {c} : server'[d] = server[d]
        /\ server'[c].phase = "HelloWait" /\ server'[c].err = server[c].err
    BY <1>1, <1>3 DEF Lock, ServerRec
  <2>2. InStep(c)'
    BY <1>1, <1>2, <1>3, <2>1 DEF InStep, Lock, netVars
  <2>3. QED
    BY <1>1, <1>3, <2>1, <2>2, OneConnection DEF Lock, netVars
<1>4. CASE ServerRecvFails(c)
  <2>1. "Transport" \in Errors /\ "Transport" \notin Accusations
    BY DEF Errors, Accusations
  <2>2. QED
    BY <1>1, <1>4, <2>1, ThreadFailsInStep DEF ServerRecvFails, netVars
<1>5. CASE ServerOutOfOrder(c)
  <2>1. PICK m \in Arriving(c2s[c]) :
           /\ ServerRecv(c)
           /\ m.type # Expected(server[c].phase)
    BY <1>5 DEF ServerOutOfOrder
  <2>2. c2s[c] # <<>> /\ m = c2s[c][1] /\ \A x : c2s[c] = <<x>> => m = x
    BY <1>1, <2>1, Heads
  <2>3. CASE server[c].phase = "HelloWait"
    BY <1>1, <1>2, <2>1, <2>2, <2>3 DEF InStep, Hello, Expected
  <2>4. CASE server[c].phase = "IssueWait"
    BY <1>1, <1>2, <2>1, <2>2, <2>4 DEF InStep, IssueRequest, Expected
  <2>5. CASE server[c].phase = "ConfirmWait"
    BY <1>1, <1>2, <2>1, <2>2, <2>5 DEF InStep, Expected
  <2>6. QED
    BY <2>1, <2>3, <2>4, <2>5 DEF ServerRecv, Waiting
<1>6. CASE OnHello(c)
  BY <1>6, QuietOnHello
<1>7. CASE OnIssueRequest(c)
  <2>1. PICK m \in Arriving(c2s[c]) :
           /\ ServerRecv(c)
           /\ server[c].phase = "IssueWait"
           /\ UNCHANGED <<s2c, sent>>
           /\ \/ ~(m.chosen = server[c].sp) \/ ~(m.cn = server[c].cn /\ m.sn = c)
              \/ ThreadFails(c, "Issuer")
              \/ /\ server' = [server EXCEPT ![c].phase = "ConfirmWait",
                                             ![c].key = Key(Server, alloc[Server].next)]
                 /\ UNCHANGED <<threads, holder>>
    BY <1>7 DEF OnIssueRequest
  <2>2. /\ c2s[c] # <<>> /\ m = c2s[c][1]
        /\ (Len(c2s[c]) = 2 => Len(Tail(c2s[c])) = 1 /\ Tail(c2s[c])[1] = c2s[c][2])
    BY <1>1, <2>1, Heads
  <2>3. /\ server[c].cn = c /\ client[c].phase # "HelloSent" /\ Len(c2s[c]) = 2
        /\ m = IssueRequest(server[c].sp, c, c) /\ c2s[c][2].type = "ConfirmC2S"
    BY <1>1, <1>2, <2>1, <2>2 DEF InStep
  <2>4. m.chosen = server[c].sp /\ m.cn = server[c].cn /\ m.sn = c
    BY <2>3 DEF IssueRequest
  <2>5. /\ c2s' = [c2s EXCEPT ![c] = Tail(@)] /\ UNCHANGED <<owner, client>>
        /\ server[c].phase \in Waiting
        /\ Len(c2s'[c]) = 1 /\ c2s'[c][1].type = "ConfirmC2S"
        /\ \A d \in Conn \ {c} : c2s'[d] = c2s[d]
    BY <1>1, <2>1, <2>2, <2>3 DEF ServerRecv
  <2>6. CASE ThreadFails(c, "Issuer")
    <3>1. "Issuer" \in Errors /\ "Issuer" \notin Accusations
      BY DEF Errors, Accusations
    <3>2. QED
      BY <1>1, <2>1, <2>5, <2>6, <3>1, ThreadFailsInStep
  <2>7. CASE /\ server' = [server EXCEPT ![c].phase = "ConfirmWait",
                                         ![c].key = Key(Server, alloc[Server].next)]
             /\ UNCHANGED <<threads, holder>>
    <3>1. /\ \A d \in Conn \ {c} : server'[d] = server[d]
          /\ server'[c].phase = "ConfirmWait" /\ server'[c].err = server[c].err
      BY <1>1, <2>7 DEF ServerRec
    <3>2. client[c].phase = "ConfirmSent" => s2c[c] = <<>>
      BY <1>1, <1>2, <2>5 DEF InStep
    <3>3. InStep(c)'
      BY <1>2, <2>1, <2>3, <2>5, <3>1, <3>2 DEF InStep
    <3>4. QED
      BY <1>1, <2>1, <2>5, <2>7, <3>1, <3>3, OneConnection
  <2>8. QED
    BY <2>1, <2>4, <2>6, <2>7
<1>8. CASE OnConfirm(c)
  <2>1. PICK m \in Arriving(c2s[c]) :
           /\ ServerRecv(c) /\ server[c].phase = "ConfirmWait"
           /\ \/ /\ s2c' = [s2c EXCEPT ![c] = Append(@,
                          Confirm("ConfirmS2C", server[c].sp, server[c].cn, c, server[c].key))]
                 /\ ThreadLeaves(c, [server[c] EXCEPT !.phase = "Established"])
              \/ ThreadFails(c, "Authentication") /\ UNCHANGED <<s2c, sent>>
    BY <1>8 DEF OnConfirm
  <2>2. /\ c2s' = [c2s EXCEPT ![c] = Tail(@)] /\ UNCHANGED <<owner, client>>
        /\ server[c].phase \in Waiting /\ \A d \in Conn \ {c} : c2s'[d] = c2s[d]
    BY <1>1, <2>1 DEF ServerRecv
  <2>3. CASE ThreadFails(c, "Authentication") /\ UNCHANGED <<s2c, sent>>
    <3>1. "Authentication" \in Errors /\ "Authentication" \notin Accusations
      BY DEF Errors, Accusations
    <3>2. QED
      BY <1>1, <2>2, <2>3, <3>1, ThreadFailsInStep
  <2>4. CASE /\ s2c' = [s2c EXCEPT ![c] = Append(@,
                     Confirm("ConfirmS2C", server[c].sp, server[c].cn, c, server[c].key))]
             /\ ThreadLeaves(c, [server[c] EXCEPT !.phase = "Established"])
    <3>1. PICK reply : reply = Confirm("ConfirmS2C", server[c].sp, server[c].cn, c, server[c].key)
      OBVIOUS
    <3>a. reply.type = "ConfirmS2C"
      BY <3>1 DEF Confirm
    <3>2. /\ \A d \in Conn \ {c} : server'[d] = server[d] /\ s2c'[d] = s2c[d]
          /\ server'[c].err = server[c].err /\ threads' = threads \ {c}
          /\ s2c'[c] = Append(s2c[c], reply)
      BY <1>1, <2>4, <3>1 DEF ThreadLeaves, ServerRec
    <3>3. client[c].phase # "HelloSent" /\ (client[c].phase = "ConfirmSent" => s2c[c] = <<>>)
      BY <1>1, <1>2, <2>1, <2>2 DEF InStep
    <3>4. client[c].phase = "ConfirmSent" => Len(s2c'[c]) = 1 /\ s2c'[c][1].type = "ConfirmS2C"
      BY <3>a, <3>2, <3>3
    <3>5. InStep(c)'
      BY <1>2, <2>2, <3>2, <3>3, <3>4 DEF InStep
    <3>6. QED
      BY <1>1, <2>2, <3>2, <3>5, OneConnection
  <2>5. QED
    BY <2>1, <2>3, <2>4
<1>9. QED
  BY <1>3, <1>4, <1>5, <1>6, <1>7, <1>8 DEF ServerStep

LEMMA QuietStart ==
    ASSUME IInv, AllInStep, NEW k \in Clients, Start(k)
    PROVE  AllInStep'
<1>1. PICK c : c = made + 1
  OBVIOUS
<1>2. PICK p : p = Reopened(alloc[k]).next
  OBVIOUS
<1>3. /\ c \in Conn /\ owner' = Append(owner, k)
      /\ client' = [client EXCEPT ![c].phase = "HelloSent", ![c].cp = p]
      /\ c2s' = [c2s EXCEPT ![c] = @ \o <<Hello(BookId[k], c, p)>>]
      /\ threads' = threads \cup {c}
      /\ UNCHANGED <<server, s2c>>
  BY <1>1, <1>2 DEF Start, Send2S
<1>4. /\ made \in Nat /\ 1 .. made \subseteq Conn /\ c \notin 1 .. made /\ c > made
      /\ client \in [Conn -> ClientRec] /\ c2s \in [Conn -> Seq(Frames)]
  <2>1. made \in Nat /\ 1 .. made \subseteq Conn
    BY Numbers DEF IInv
  <2>2. QED
    BY <1>1, <2>1 DEF IInv, Types
<1>5. made' = c /\ owner'[c] = k /\ \A d \in 1 .. made : owner'[d] = owner[d]
  BY <1>1, <1>3, <1>4 DEF IInv, Types, made
<1>6. 1 .. made' = 1 .. made \cup {c}
  BY <1>1, <1>4, <1>5
<1>7. client[c] = NoClient /\ server[c] = NoServer /\ c2s[c] = <<>> /\ s2c[c] = <<>>
  BY <1>3, <1>4 DEF IInv, Fresh, Unused
<1>8. /\ \A d \in Conn \ {c} : client'[d] = client[d] /\ c2s'[d] = c2s[d]
      /\ client'[c].phase = "HelloSent" /\ client'[c].cp = p /\ client'[c].err = client[c].err
  BY <1>3, <1>4 DEF ClientRec
<1>9. c2s'[c] = <<Hello(BookId[k], c, p)>>
  <2>1. c2s'[c] = <<>> \o <<Hello(BookId[k], c, p)>>
    BY <1>3, <1>4, <1>7
  <2>2. QED
    BY <2>1
<1>10. InStep(c)'
  <2>1. server[c].phase = "Idle" /\ server[c].err = "None" /\ client[c].err = "None"
    BY <1>7 DEF NoServer, NoClient
  <2>2. QED
    BY <1>3, <1>5, <1>7, <1>8, <1>9, <2>1 DEF InStep, Accusations
<1>11. ASSUME NEW d \in 1 .. made
       PROVE  InStep(d)'
  <2>1. InStep(d)
    BY DEF AllInStep
  <2>2. /\ client'[d] = client[d] /\ server'[d] = server[d] /\ owner'[d] = owner[d]
        /\ c2s'[d] = c2s[d] /\ s2c'[d] = s2c[d] /\ (d \in threads' => d \in threads)
    BY <1>3, <1>4, <1>5, <1>8
  <2>3. QED
    BY <2>1, <2>2 DEF InStep, Verdict
<1>12. QED
  BY <1>6, <1>10, <1>11 DEF AllInStep

LEMMA QuietKept ==
    ASSUME IInv, Quiet, [Next]_vars
    PROVE  Quiet'
<1>1. SUFFICES ASSUME faults' = 0
               PROVE  AllInStep'
  BY DEF Quiet
<1>2. ASSUME AllInStep, UNCHANGED <<owner, client, server, c2s, s2c>>, threads' \subseteq threads
      PROVE  AllInStep'
  <2>1. made' = made
    BY <1>2 DEF made
  <2>2. ASSUME NEW d \in 1 .. made
        PROVE  InStep(d)'
    <3>1. InStep(d) /\ (d \in threads' => d \in threads)
      BY <1>2 DEF AllInStep
    <3>2. QED
      BY <1>2, <3>1 DEF InStep, Verdict
  <2>3. QED
    BY <2>1, <2>2 DEF AllInStep
<1>3. ASSUME NEW c \in Conn, Mangle(c)
      PROVE  AllInStep'
  <2>1. faults \in Nat /\ faults' = faults + 1
    BY <1>3 DEF Mangle, IInv, Types
  <2>2. QED
    BY <1>1, <2>1
<1>4. CASE UNCHANGED vars
  <2>1. AllInStep
    BY <1>1, <1>4 DEF vars, Quiet
  <2>2. QED
    BY <1>2, <1>4, <2>1 DEF vars
<1>5. ASSUME NEW k \in Clients, Start(k)
      PROVE  AllInStep'
  <2>1. AllInStep
    BY <1>1, <1>5 DEF Start, Quiet
  <2>2. QED
    BY <1>5, <2>1, QuietStart
<1>6. ASSUME NEW k \in Clients, ClientExits(k)
      PROVE  AllInStep'
  <2>1. AllInStep
    BY <1>1, <1>6 DEF ClientExits, Quiet
  <2>2. QED
    BY <1>2, <1>6, <2>1 DEF ClientExits, netVars
<1>7. ASSUME NEW c \in Conn, ClientStep(c)
      PROVE  AllInStep'
  <2>1. faults' = faults
    BY ZenonT(40), <1>7 DEF ClientStep, ClientOutOfOrder, OnArbitrateRefused, OnArbitrate, OnConfirmS2C,
                ClientRecvFails, ClientRecv
  <2>2. AllInStep
    BY <1>1, <2>1 DEF Quiet
  <2>3. QED
    BY SMTT(30), <1>7, <2>2, QuietClient
<1>8. ASSUME NEW c \in Conn, ServerStep(c)
      PROVE  AllInStep'
  <2>1. faults' = faults
    BY <1>8 DEF ServerStep, Lock, ServerOutOfOrder, OnHello, OnIssueRequest, OnConfirm,
                ServerRecvFails, ServerRecv
  <2>2. AllInStep
    BY <1>1, <2>1 DEF Quiet
  <2>3. QED
    BY <1>8, <2>2, QuietServer
<1>9. CASE ServerRestarts
  <2>1. AllInStep
    BY <1>1, <1>9 DEF ServerRestarts, Quiet
  <2>2. QED
    BY <1>2, <1>9, <2>1 DEF ServerRestarts, netVars
<1>10. QED
  BY <1>3, <1>4, <1>5, <1>6, <1>7, <1>8, <1>9 DEF Next

\* While the network delivers frames as sent, neither end accuses the other
\* of a violation (on_hello's pointer table and on_arbitrate's check of it,
\* on_issue_request's comparisons), whoever crashes or times out meanwhile.
THEOREM NoFalseAccusationHolds == Spec => []NoFalseAccusation
<1>1. ASSUME Init
      PROVE  Quiet
  BY <1>1 DEF Init, Quiet, AllInStep, made
<1>2. ASSUME IInv, Quiet
      PROVE  NoFalseAccusation
  <2>1. SUFFICES ASSUME faults = 0, NEW c \in Conn
                 PROVE  client[c].err \notin Accusations /\ server[c].err \notin Accusations
    BY DEF NoFalseAccusation, Accusations
  <2>2. CASE c \in 1 .. made
    BY <1>2, <2>1, <2>2 DEF Quiet, AllInStep, InStep
  <2>3. CASE c \notin 1 .. made
    <3>1. c > made
      BY <1>2, <2>3, Numbers DEF IInv, Conn
    <3>2. client[c].err = "None" /\ server[c].err = "None"
      BY <1>2, <3>1 DEF IInv, Fresh, Unused, NoClient, NoServer
    <3>3. QED
      BY <3>2 DEF Accusations
  <2>4. QED
    BY <2>2, <2>3
<1>3. QED
  BY <1>1, <1>2, Invariance, QuietKept, PTL DEF Spec

=============================================================================
