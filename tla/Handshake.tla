----------------------------- MODULE Handshake -----------------------------
(***************************************************************************)
(* The handshake (crate otp-handshake, driven by otp-cli proto.rs) between *)
(* one server and its clients: each end holds a copy of the book and an    *)
(* allocator of its own, and each connection must leave the two ends with  *)
(* the same segment as key, a segment no other connection ever had.        *)
(*                                                                         *)
(* A client is a process: it opens its allocator, runs one handshake, and  *)
(* may die at any point.  The server runs one thread per connection; a     *)
(* thread keeps the allocator's mutex during the whole handshake.  issue() *)
(* is one step here, with the outcomes that Allocator.tla shows possible.  *)
(*                                                                         *)
(* Connection c is the c-th one; its two random nonces are fresh, so both  *)
(* are written c.  Frames arrive in order (TCP).  MaxFaults of them arrive *)
(* damaged, or are replaced by a frame some connection sent before.  A     *)
(* receive can fail at any time: deadline, reset or close.                 *)
(***************************************************************************)
EXTENDS Integers, Sequences

CONSTANTS
    Clients,       \* the client processes' sets of anchors
    Server,        \* the server, as the owner of an allocator
    BookId,        \* BookId[e]: book_id in the header of e's book
    Pad,           \* Pad[e]: what the segments of e's book contain
    SegmentCount,  \* segments of a book
    MaxConn,       \* bound on the connections ever made
    MaxFaults,     \* bound on damaged and stray frames
    MaxRestarts    \* bound on restarts of the server

Ends == Clients \cup {Server}
Conn == 1 .. MaxConn

ASSUME HandshakeAssumption ==
    /\ SegmentCount \in Nat /\ MaxConn \in Nat
    /\ MaxFaults \in Nat /\ MaxRestarts \in Nat
    /\ Server \notin Clients
    /\ DOMAIN BookId = Ends /\ DOMAIN Pad = Ends

VARIABLES
    alloc,     \* alloc[e]: the allocator of end e
    owner,     \* owner[c]: the client that made connection c
    running,   \* running[k]: connection of the live process of k, 0 for none
    client,    \* client[c]: the ClientHandshake of connection c
    server,    \* server[c]: the ServerHandshake of connection c
    threads,   \* connections with a live server thread in the handshake
    holder,    \* connection whose thread holds the allocator mutex, or 0
    c2s, s2c,  \* c2s[c], s2c[c]: frames in flight on connection c
    sent,      \* every frame ever sent
    faults,    \* damaged and stray frames so far
    restarts   \* restarts of the server so far

vars == <<alloc, owner, running, client, server, threads, holder,
          c2s, s2c, sent, faults, restarts>>

netVars == <<c2s, s2c, sent>>

made == Len(owner)

------------------------------------------------------------------------------
(* The allocator: next is what state() returns, disk what a new process    *)
(* will find in the anchors.                                               *)

AllocatorState ==
    [next : 0 .. SegmentCount, disk : 0 .. SegmentCount, halted : BOOLEAN]

CanIssue(a) == ~a.halted /\ a.next < SegmentCount

\* Mutant of Issued: the pointer moves in memory only.
IssuedButNotDurable(a, k) == [a EXCEPT !.next = @ + k]

\* k successful calls of issue().
Issued(a, k) ==
    [next |-> a.next + k, disk |-> a.next + k, halted |-> a.halted]

\* What one failing call may leave: nothing happened (halted, exhausted); the
\* segment is burnt (read error); or the outcome on disk is unknown.
IssueFailed(a) ==
    IF ~CanIssue(a) THEN {a}
    ELSE {Issued(a, 1)}
         \cup {[next |-> a.next + 1, disk |-> d, halted |-> TRUE] :
                   d \in {a.disk, a.next + 1}}

\* k + 1 calls of which the last one fails, for some k < n.
IssuesFailed(a, n) ==
    UNION {IssueFailed(Issued(a, k)) :
              k \in {j \in 0 .. n - 1 : \A i \in 0 .. j - 1 :
                                            CanIssue(Issued(a, i))}}

CanIssueMany(a, n) == \A i \in 0 .. n - 1 : CanIssue(Issued(a, i))

\* Allocator::open of a new process.
Reopened(a) == [next |-> a.disk, disk |-> a.disk, halted |-> FALSE]

------------------------------------------------------------------------------
(* Frames and records.                                                     *)

Key(e, i) == <<Pad[e], i>>
NoKey == <<>>

Results == {"Ok", "ServerAhead", "ClientAhead", "Exhausted", "BookMismatch"}

Hello(book, c, cp) ==
    [type |-> "Hello", book |-> book, cn |-> c, cp |-> cp]
Arbitrate(sn, sp, result) ==
    [type |-> "Arbitrate", sn |-> sn, sp |-> sp, result |-> result]
IssueRequest(i, cn, sn) ==
    [type |-> "IssueRequest", chosen |-> i, cn |-> cn, sn |-> sn]

\* seal_confirm: the outer fields, and what AEAD ties the record to: the key
\* and the context that is its additional data and its inner copy.
Confirm(type, i, cn, sn, key) ==
    [type |-> type, seg |-> i, cn |-> cn, sn |-> sn, key |-> key,
     intact |-> TRUE]

Unreadable == [type |-> "Unreadable"]

\* Mutant of Opens: the outer fields are compared, the tag is not.
OpensUnauthenticated(m, i, cn, sn, key) ==
    m.seg = i /\ m.cn = cn /\ m.sn = sn

\* verify_confirm_outer, Session::open and verify_confirm_body together.
Opens(m, i, cn, sn, key) ==
    /\ m.seg = i /\ m.cn = cn /\ m.sn = sn
    /\ m.intact /\ m.key = key

------------------------------------------------------------------------------
NoClient == [phase |-> "Idle", cp |-> 0, agreed |-> 0, sn |-> 0,
             key |-> NoKey, err |-> "None"]
NoServer == [phase |-> "Idle", sp |-> 0, cn |-> 0, key |-> NoKey,
             err |-> "None"]

Init ==
    /\ alloc = [e \in Ends |-> [next |-> 0, disk |-> 0, halted |-> FALSE]]
    /\ owner = <<>>
    /\ running = [k \in Clients |-> 0]
    /\ client = [c \in Conn |-> NoClient]
    /\ server = [c \in Conn |-> NoServer]
    /\ threads = {}
    /\ holder = 0
    /\ c2s = [c \in Conn |-> <<>>]
    /\ s2c = [c \in Conn |-> <<>>]
    /\ sent = {}
    /\ faults = 0
    /\ restarts = 0

ClientFails(c, err) ==
    client' = [client EXCEPT ![c].phase = "Failed", ![c].err = err]

\* A server thread that leaves server_handshake lets the mutex go.
ThreadLeaves(c, hs) ==
    /\ server' = [server EXCEPT ![c] = hs]
    /\ threads' = threads \ {c}
    /\ holder' = 0

ThreadFails(c, err) ==
    ThreadLeaves(c, [server[c] EXCEPT !.phase = "Failed", !.err = err])

Send2S(c, ms) ==
    /\ c2s' = [c2s EXCEPT ![c] = @ \o ms]
    /\ sent' = sent \cup {ms[j] : j \in DOMAIN ms}

\* The frame at the head of a queue, if there is one.
Arriving(q) == {q[j] : j \in {1} \cap DOMAIN q}

Live(c) == c <= made /\ running[owner[c]] = c

------------------------------------------------------------------------------
(* The client process.                                                     *)

\* run_connect up to ClientHandshake::start: open the allocator, connect,
\* send HELLO; the server accepts and spawns a thread.
Start(k) ==
    LET c == made + 1
        a == Reopened(alloc[k])
    IN  /\ running[k] = 0 /\ c \in Conn
        /\ alloc' = [alloc EXCEPT ![k] = a]
        /\ owner' = Append(owner, k)
        /\ running' = [running EXCEPT ![k] = c]
        /\ client' = [client EXCEPT ![c].phase = "HelloSent",
                                    ![c].cp = a.next]
        /\ Send2S(c, <<Hello(BookId[k], c, a.next)>>)
        /\ threads' = threads \cup {c}
        /\ UNCHANGED <<server, holder, s2c, faults, restarts>>

\* A frame reaches the client, which is waiting for one.
ClientRecv(c) ==
    /\ Live(c) /\ client[c].phase \in {"HelloSent", "ConfirmSent"}
    /\ s2c' = [s2c EXCEPT ![c] = Tail(@)]
    /\ UNCHANGED <<owner, running, server, threads, holder, faults, restarts>>

\* recv_frame fails, or the process gives up for another reason.
ClientRecvFails(c) ==
    /\ Live(c) /\ client[c].phase \in {"HelloSent", "ConfirmSent"}
    /\ ClientFails(c, "Transport")
    /\ UNCHANGED <<alloc, owner, running, server, threads, holder,
                   netVars, faults, restarts>>

\* The frame does not decode, or is not the one this phase waits for.
ClientOutOfOrder(c) == \E m \in Arriving(s2c[c]) :
    /\ ClientRecv(c)
    /\ m.type # (IF client[c].phase = "HelloSent" THEN "Arbitrate"
                 ELSE "ConfirmS2C")
    /\ ClientFails(c, IF m.type = "Unreadable" THEN "Codec" ELSE "BadOrder")
    /\ UNCHANGED <<alloc, c2s, sent>>

\* on_arbitrate, the three results that end the handshake, and a pointer
\* that contradicts the result (0x0307).
Contradicts(m, cp) ==
    \/ m.result = "Exhausted" /\ m.sp # SegmentCount
    \/ m.result = "ClientAhead" /\ m.sp >= cp
    \/ m.result = "Ok" /\ m.sp # cp
    \/ m.result = "ServerAhead" /\ m.sp <= cp

OnArbitrateRefused(c) == \E m \in Arriving(s2c[c]) :
    /\ ClientRecv(c)
    /\ client[c].phase = "HelloSent" /\ m.type = "Arbitrate"
    /\ \/ /\ Contradicts(m, client[c].cp)
          /\ ClientFails(c, "PointerMismatch")
       \/ /\ m.result \in {"BookMismatch", "Exhausted"}
          /\ ~Contradicts(m, client[c].cp)
          /\ ClientFails(c, m.result)
       \/ /\ m.result = "ClientAhead" /\ ~Contradicts(m, client[c].cp)
          /\ client' = [client EXCEPT ![c].phase = "AheadRecovery",
                                      ![c].err = "ClientAhead"]
    /\ UNCHANGED <<alloc, c2s, sent>>

\* on_arbitrate, Ok and ServerAhead: issue_and_confirm burns the gap up to
\* the server's pointer, issues the segment of this session, and sends
\* ISSUE_REQUEST and CONFIRM_C2S.
OnArbitrate(c) == \E m \in Arriving(s2c[c]) :
    LET k == owner[c]
        i == m.sp
        n == i - client[c].cp + 1
        key == Key(k, alloc[k].next + n - 1)
    IN  /\ ClientRecv(c)
        /\ client[c].phase = "HelloSent" /\ m.type = "Arbitrate"
        /\ m.result \in {"Ok", "ServerAhead"} /\ ~Contradicts(m, client[c].cp)
        /\ \/ /\ CanIssueMany(alloc[k], n)
              /\ alloc' = [alloc EXCEPT ![k] = Issued(@, n)]
              /\ client' = [client EXCEPT
                     ![c] = [@ EXCEPT !.phase = "ConfirmSent", !.agreed = i,
                                      !.sn = m.sn, !.key = key]]
              /\ Send2S(c, <<IssueRequest(i, c, m.sn),
                             Confirm("ConfirmC2S", i, c, m.sn, key)>>)
           \/ /\ \E a \in IssuesFailed(alloc[k], n) :
                     alloc' = [alloc EXCEPT ![k] = a]
              /\ client' = [client EXCEPT
                     ![c] = [@ EXCEPT !.phase = "Failed", !.agreed = i,
                                      !.sn = m.sn, !.err = "Issuer"]]
              /\ UNCHANGED <<c2s, sent>>

\* on_confirm_s2c.
OnConfirmS2C(c) == \E m \in Arriving(s2c[c]) :
    /\ ClientRecv(c)
    /\ client[c].phase = "ConfirmSent" /\ m.type = "ConfirmS2C"
    /\ \/ /\ Opens(m, client[c].agreed, c, client[c].sn, client[c].key)
          /\ client' = [client EXCEPT ![c].phase = "Established"]
       \/ /\ ~Opens(m, client[c].agreed, c, client[c].sn, client[c].key)
          /\ ClientFails(c, "Authentication")
    /\ UNCHANGED <<alloc, c2s, sent>>

\* The process ends: after its session, after a failure, or killed.
ClientExits(k) ==
    /\ running[k] # 0
    /\ running' = [running EXCEPT ![k] = 0]
    /\ UNCHANGED <<alloc, owner, client, server, threads, holder,
                   netVars, faults, restarts>>

------------------------------------------------------------------------------
(* The server threads.                                                     *)

\* serve_one takes the allocator's mutex; ServerConfig gets its pointer.
Lock(c) ==
    /\ c \in threads /\ server[c].phase = "Idle" /\ holder = 0
    /\ holder' = c
    /\ server' = [server EXCEPT ![c].phase = "HelloWait",
                                ![c].sp = alloc[Server].next]
    /\ UNCHANGED <<alloc, owner, running, client, threads, netVars,
                   faults, restarts>>

Waiting == {"HelloWait", "IssueWait", "ConfirmWait"}

ServerRecv(c) ==
    /\ c \in threads /\ server[c].phase \in Waiting
    /\ c2s' = [c2s EXCEPT ![c] = Tail(@)]
    /\ UNCHANGED <<owner, running, client, faults, restarts>>

\* Mutant of ServerRecvFails: no deadline, only a client that is gone ends it.
ServerRecvFailsOnClose(c) ==
    /\ c \in threads /\ server[c].phase \in Waiting
    /\ ~Live(c)
    /\ ThreadFails(c, "Transport")
    /\ UNCHANGED <<alloc, owner, running, client, netVars, faults, restarts>>

\* recv_frame fails: the deadline set before the handshake, a reset, a close.
ServerRecvFails(c) ==
    /\ c \in threads /\ server[c].phase \in Waiting
    /\ ThreadFails(c, "Transport")
    /\ UNCHANGED <<alloc, owner, running, client, netVars, faults, restarts>>

Expected(phase) == CASE phase = "HelloWait" -> "Hello"
                     [] phase = "IssueWait" -> "IssueRequest"
                     [] phase = "ConfirmWait" -> "ConfirmC2S"

ServerOutOfOrder(c) == \E m \in Arriving(c2s[c]) :
    /\ ServerRecv(c)
    /\ m.type # Expected(server[c].phase)
    /\ ThreadFails(c, IF m.type = "Unreadable" THEN "Codec" ELSE "BadOrder")
    /\ UNCHANGED <<alloc, s2c, sent>>

\* Mutant of Result: equal pointers count as the server being ahead.
ResultAheadWins(book, cp, sp) ==
    CASE book # BookId[Server] -> "BookMismatch"
      [] book = BookId[Server] /\ cp > sp -> "ClientAhead"
      [] book = BookId[Server] /\ cp <= sp /\ sp >= SegmentCount -> "Exhausted"
      [] book = BookId[Server] /\ sp < SegmentCount /\ sp >= cp -> "ServerAhead"

\* The pointer table of on_hello; the book is compared first.
Result(book, cp, sp) ==
    CASE book # BookId[Server] -> "BookMismatch"
      [] book = BookId[Server] /\ sp >= SegmentCount -> "Exhausted"
      [] book = BookId[Server] /\ sp < SegmentCount /\ sp > cp -> "ServerAhead"
      [] book = BookId[Server] /\ sp < SegmentCount /\ cp > sp -> "ClientAhead"
      [] book = BookId[Server] /\ sp < SegmentCount /\ cp = sp -> "Ok"

\* The pointer ARBITRATE carries.
PointerOut(result, sp) ==
    CASE result = "BookMismatch" -> 0
      [] result = "Exhausted" -> SegmentCount
      [] result \notin {"BookMismatch", "Exhausted"} -> sp

\* on_hello, and server_handshake's early return for a final result.
OnHello(c) == \E m \in Arriving(c2s[c]) :
    LET sp == server[c].sp
        result == Result(m.book, m.cp, sp)
        reply == Arbitrate(c, PointerOut(result, sp), result)
    IN  /\ ServerRecv(c)
        /\ server[c].phase = "HelloWait" /\ m.type = "Hello"
        /\ s2c' = [s2c EXCEPT ![c] = Append(@, reply)]
        /\ sent' = sent \cup {reply}
        /\ \/ /\ result \in {"Ok", "ServerAhead"}
              /\ server' = [server EXCEPT ![c].phase = "IssueWait",
                                          ![c].cn = m.cn]
              /\ UNCHANGED <<threads, holder>>
           \/ /\ result \notin {"Ok", "ServerAhead"}
              /\ ThreadLeaves(c, [server[c] EXCEPT
                     !.phase = IF result = "ClientAhead" THEN "AheadPending"
                               ELSE "Failed",
                     !.cn = m.cn, !.err = result])
        /\ UNCHANGED alloc

\* on_issue_request: the pointer and both nonces are compared before a
\* segment is issued.  The session is labelled with the agreed pointer sp,
\* its key is the segment issue() really returned.
OnIssueRequest(c) == \E m \in Arriving(c2s[c]) :
    LET a == alloc[Server]
        same == m.chosen = server[c].sp
        echo == m.cn = server[c].cn /\ m.sn = c
    IN  /\ ServerRecv(c)
        /\ server[c].phase = "IssueWait" /\ m.type = "IssueRequest"
        /\ UNCHANGED <<s2c, sent>>
        /\ \/ /\ ~same \/ ~echo
              /\ ThreadFails(c, IF ~same THEN "PointerMismatch"
                                ELSE "NonceMismatch")
              /\ UNCHANGED alloc
           \/ /\ same /\ echo
              /\ \E b \in IssueFailed(a) : alloc' = [alloc EXCEPT ![Server] = b]
              /\ ThreadFails(c, "Issuer")
           \/ /\ same /\ echo /\ CanIssue(a)
              /\ alloc' = [alloc EXCEPT ![Server] = Issued(a, 1)]
              /\ server' = [server EXCEPT ![c].phase = "ConfirmWait",
                                          ![c].key = Key(Server, a.next)]
              /\ UNCHANGED <<threads, holder>>

\* on_confirm: open the client's record, answer with the server's.
OnConfirm(c) == \E m \in Arriving(c2s[c]) :
    LET hs == server[c]
        reply == Confirm("ConfirmS2C", hs.sp, hs.cn, c, hs.key)
    IN  /\ ServerRecv(c)
        /\ hs.phase = "ConfirmWait" /\ m.type = "ConfirmC2S"
        /\ \/ /\ Opens(m, hs.sp, hs.cn, c, hs.key)
              /\ s2c' = [s2c EXCEPT ![c] = Append(@, reply)]
              /\ sent' = sent \cup {reply}
              /\ ThreadLeaves(c, [hs EXCEPT !.phase = "Established"])
           \/ /\ ~Opens(m, hs.sp, hs.cn, c, hs.key)
              /\ ThreadFails(c, "Authentication")
              /\ UNCHANGED <<s2c, sent>>
        /\ UNCHANGED alloc

\* The server process dies and is started again; its threads are gone.
ServerRestarts ==
    /\ restarts < MaxRestarts
    /\ restarts' = restarts + 1
    /\ alloc' = [alloc EXCEPT ![Server] = Reopened(@)]
    /\ threads' = {}
    /\ holder' = 0
    /\ UNCHANGED <<owner, running, client, server, netVars, faults>>

------------------------------------------------------------------------------
(* The network.                                                            *)

Damaged(m) == {Unreadable} \cup
    (IF m.type \in {"ConfirmC2S", "ConfirmS2C"}
     THEN {[m EXCEPT !.intact = FALSE]} ELSE {})

\* The next frame of a connection arrives damaged, or another frame of the
\* same direction, sent earlier, arrives in its place.
ToServer == {"Hello", "IssueRequest", "ConfirmC2S"}

Mangle(c) ==
    /\ faults < MaxFaults /\ faults' = faults + 1
    /\ \/ /\ c2s[c] # <<>>
          /\ \E m \in Damaged(Head(c2s[c]))
                      \cup {s \in sent : s.type \in ToServer} :
                c2s' = [c2s EXCEPT ![c][1] = m]
          /\ UNCHANGED s2c
       \/ /\ s2c[c] # <<>>
          /\ \E m \in Damaged(Head(s2c[c]))
                      \cup {s \in sent : s.type \notin ToServer} :
                s2c' = [s2c EXCEPT ![c][1] = m]
          /\ UNCHANGED c2s
    /\ UNCHANGED <<alloc, owner, running, client, server, threads, holder,
                   sent, restarts>>

------------------------------------------------------------------------------
ClientStep(c) ==
    \/ ClientOutOfOrder(c) \/ OnArbitrateRefused(c) \/ OnArbitrate(c)
    \/ OnConfirmS2C(c) \/ ClientRecvFails(c)

ServerStep(c) ==
    \/ Lock(c) \/ ServerOutOfOrder(c) \/ OnHello(c)
    \/ OnIssueRequest(c) \/ OnConfirm(c) \/ ServerRecvFails(c)

Next ==
    \/ \E k \in Clients : Start(k) \/ ClientExits(k)
    \/ \E c \in Conn : ClientStep(c) \/ ServerStep(c) \/ Mangle(c)
    \/ ServerRestarts

Spec == Init /\ [][Next]_vars

\* Every receive has a deadline, so a wait does not last for ever; a mutex
\* that is free is taken.
FairSpec == /\ Spec
            /\ \A c \in Conn : WF_vars(Lock(c)) /\ WF_vars(ServerRecvFails(c))
                                /\ WF_vars(ClientRecvFails(c))

------------------------------------------------------------------------------
\* The types of the machines' fields, and what the mutex means: it is held
\* exactly while one thread is inside server_handshake (serve_one).
TypeOK ==
    /\ alloc \in [Ends -> AllocatorState]
    /\ owner \in Seq(Clients) /\ made <= MaxConn
    /\ running \in [Clients -> 0 .. MaxConn]
    /\ threads \subseteq Conn /\ holder \in 0 .. MaxConn
    /\ \A c \in Conn :
          /\ client[c].phase \in {"Idle", "HelloSent", "ConfirmSent",
                                  "Established", "AheadRecovery", "Failed"}
          /\ client[c].cp \in 0 .. SegmentCount
          /\ client[c].agreed \in 0 .. SegmentCount
          /\ server[c].phase \in Waiting \cup {"Idle", "Established",
                                               "AheadPending", "Failed"}
          /\ server[c].sp \in 0 .. SegmentCount
    /\ holder # 0 <=> \E c \in threads : server[c].phase \in Waiting

\* No segment is the key of two sessions: "each segment is used once"
\* (README.md), whatever frames are lost, damaged or repeated and whichever
\* process dies between its issue() and the peer's.  The server never keys
\* two connections alike, whoever its clients are; nor does a client; and a
\* key both have is the key of one session: the server's peer, the client
\* whose nonce it works with, has it for that very connection (two clients
\* with copies of one book can have a key in common: each issues from an
\* allocator of its own).  And the segment of an established session is
\* behind the durable pointer of both ends, so that no later restart can
\* issue it again.
SegmentUsedOnce ==
    /\ \A c, d \in 1 .. made : c # d =>
          /\ server[c].key = server[d].key => server[c].key = NoKey
          /\ owner[c] = owner[d] /\ client[c].key = client[d].key =>
                client[c].key = NoKey
    /\ \A c, d \in 1 .. made :
          (/\ server[d].key # NoKey /\ server[d].key = client[c].key
           /\ owner[c] = owner[server[d].cn])
          => server[d].cn = c /\ client[c].sn = d
    /\ \A c \in 1 .. made : server[c].phase = "Established" =>
          /\ server[c].sp < alloc[Server].disk
          /\ client[server[c].cn].agreed < alloc[owner[server[c].cn]].disk

\* CONFIRM does its work: an end that reaches Established shares key and
\* segment number with its peer, the end whose nonce it works with, and the
\* peer works with its nonce; a client gets there only after its server did.
\* A client whose copy of the book differs never gets there.
KeysAgree ==
    \A c \in Conn :
        /\ server[c].phase = "Established" =>
              LET peer == client[server[c].cn] IN
              /\ peer.key = server[c].key /\ peer.agreed = server[c].sp
              /\ peer.sn = c
              /\ server[c].key = Key(Server, server[c].sp)
        /\ client[c].phase = "Established" =>
              LET peer == server[client[c].sn] IN
              peer.phase = "Established" /\ peer.cn = c

\* While the network delivers frames as sent, the pointer tables of the two
\* ends fit together: neither end ever accuses the other of a violation
\* (0x0307, 0x0203, 0x0309).
NoFalseAccusation ==
    faults = 0 =>
        \A c \in Conn : {client[c].err, server[c].err} \cap
            {"PointerMismatch", "NonceMismatch", "BadOrder"} = {}

\* One of the ends of connection c is at work on its handshake: a server thread
\* waits for the mutex or for a frame, or a client that is running waits for
\* ARBITRATE or for the server's CONFIRM.
Unfinished(c) ==
    \/ c \in threads
    \/ Live(c) /\ client[c].phase \in {"HelloSent", "ConfirmSent"}

\* Every handshake ends at both ends: a thread waiting for the mutex gets it,
\* because the holder's receives have a deadline, and so have both receives of
\* the client (client_handshake).
HandshakesEnd == \A c \in Conn : [](Unfinished(c) => <>~Unfinished(c))
============================================================================
