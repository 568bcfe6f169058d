------------------------------ MODULE Session ------------------------------
(***************************************************************************)
(* The record layer (crate otp-session, session.rs): the two Sessions that *)
(* share the keys of one segment.  seal() and open() may be called at any  *)
(* time with any record type; between them the network may lose, repeat,   *)
(* reorder, reflect and damage records.                                    *)
(*                                                                         *)
(* The nonce of a record is the direction and its sequence number, under a *)
(* key the two directions do not share, so using a sequence number twice   *)
(* in a direction is using a nonce twice.  A payload is numbered by the    *)
(* order of the seal() calls of its sender.                                *)
(***************************************************************************)
EXTENDS Integers, Sequences

CONSTANT MaxSeq     \* the last sequence number, 2^64 - 1 in the code

ASSUME SessionAssumption == MaxSeq \in Nat

Roles == {"client", "server"}
Peer(r) == IF r = "client" THEN "server" ELSE "client"
Types == {"ClientConfirm", "ServerConfirm", "Data"}

Seqs == 0 .. MaxSeq

\* A frame: the sequence number in its header, and the sealed record with
\* what its tag covers.
Frames == [seq : Seqs, from : Roles, aadSeq : Seqs, mt : Types,
           payload : Nat, intact : BOOLEAN]

VARIABLES
    state,      \* state[r]: "Active", or the reason of the termination
    sendSeq,    \* sendSeq[r]: send_seq of r's sending direction
    recvLast,   \* recvLast[r]: recv_last of r's receiving direction, -1: None
    sealed,     \* sealed[r]: all records r ever sealed, in order
    opened      \* opened[r]: the payloads r's open() returned, in order

vars == <<state, sendSeq, recvLast, sealed, opened>>

\* record type and direction (pairing_valid): each role sends its own confirm
Pairing(mt, sender) ==
    \/ mt = "Data"
    \/ mt = "ClientConfirm" /\ sender = "client"
    \/ mt = "ServerConfirm" /\ sender = "server"

\* CONFIRM takes sequence number 0, DATA the ones from 1.
Discipline(mt, seq) == IF mt = "Data" THEN seq >= 1 ELSE seq = 0

Init ==
    /\ state = [r \in Roles |-> "Active"]
    /\ sendSeq = [r \in Roles |-> 0]
    /\ recvLast = [r \in Roles |-> -1]
    /\ sealed = [r \in Roles |-> <<>>]
    /\ opened = [r \in Roles |-> <<>>]

Terminate(r, reason) == state' = [state EXCEPT ![r] = reason]

------------------------------------------------------------------------------
\* seal() refuses: wrong direction for the type, or type out of sequence.
SealRefused(r, mt) ==
    /\ state[r] = "Active"
    /\ \/ ~Pairing(mt, r) /\ Terminate(r, "Misuse")
       \/ /\ Pairing(mt, r) /\ ~Discipline(mt, sendSeq[r])
          /\ Terminate(r, "SequenceViolation")
    /\ UNCHANGED <<sendSeq, recvLast, sealed, opened>>

Record(r, mt) ==
    [seq |-> sendSeq[r], from |-> r, aadSeq |-> sendSeq[r], mt |-> mt,
     payload |-> Len(sealed[r]), intact |-> TRUE]

\* Mutant of AfterSeal: the counter wraps around.
AfterSealWraps(r) ==
    /\ sendSeq' = [sendSeq EXCEPT ![r] = (@ + 1) % (MaxSeq + 1)]
    /\ UNCHANGED state

\* seal() succeeded; after the last sequence number the session is over.
AfterSeal(r) ==
    \/ /\ sendSeq[r] < MaxSeq
       /\ sendSeq' = [sendSeq EXCEPT ![r] = @ + 1]
       /\ UNCHANGED state
    \/ /\ sendSeq[r] = MaxSeq
       /\ Terminate(r, "SequenceOverflow")
       /\ UNCHANGED sendSeq

Seal(r, mt) ==
    /\ state[r] = "Active" /\ Pairing(mt, r) /\ Discipline(mt, sendSeq[r])
    /\ sealed' = [sealed EXCEPT ![r] = Append(@, Record(r, mt))]
    /\ AfterSeal(r)
    /\ UNCHANGED <<recvLast, opened>>

------------------------------------------------------------------------------
\* Mutant of Acceptable: any newer number will do.
AcceptableNewer(r, seq) == seq > recvLast[r]

\* The number open() insists on: the one after the last accepted.
Acceptable(r, seq) == seq = recvLast[r] + 1

\* The tag of f verifies for what the receiver r puts in nonce and AAD.
Authentic(r, mt, f) ==
    f.intact /\ f.from = Peer(r) /\ f.aadSeq = f.seq /\ f.mt = mt

\* open() fails; whatever the check that failed, the session is over.
OpenRefused(r, mt, f) ==
    /\ state[r] = "Active"
    /\ \/ ~Pairing(mt, Peer(r)) /\ Terminate(r, "Misuse")
       \/ /\ Pairing(mt, Peer(r))
          /\ ~Discipline(mt, f.seq) \/ ~Acceptable(r, f.seq)
          /\ Terminate(r, "SequenceViolation")
       \/ /\ Pairing(mt, Peer(r)) /\ Discipline(mt, f.seq)
          /\ Acceptable(r, f.seq) /\ ~Authentic(r, mt, f)
          /\ Terminate(r, "Authentication")
    /\ UNCHANGED <<sendSeq, recvLast, sealed, opened>>

Open(r, mt, f) ==
    /\ state[r] = "Active"
    /\ Pairing(mt, Peer(r)) /\ Discipline(mt, f.seq)
    /\ Acceptable(r, f.seq) /\ Authentic(r, mt, f)
    /\ recvLast' = [recvLast EXCEPT ![r] = f.seq]
    /\ opened' = [opened EXCEPT ![r] = Append(@, f.payload)]
    /\ UNCHANGED <<state, sendSeq, sealed>>

Close(r) ==
    /\ state[r] = "Active"
    /\ Terminate(r, "Closed")
    /\ UNCHANGED <<sendSeq, recvLast, sealed, opened>>

------------------------------------------------------------------------------
\* What the network may hand to a receiver: any record either end ever
\* sealed, as it was (late, again, out of order, reflected), with another
\* sequence number in the header, or with damaged bits.  Lost records are
\* the ones it never delivers.
Delivered(q, i, s, ok) == [sealed[q][i] EXCEPT !.seq = s, !.intact = ok]

Receive(r, f) == \E mt \in Types : OpenRefused(r, mt, f) \/ Open(r, mt, f)

Next ==
    \E r \in Roles :
        \/ \E mt \in Types : SealRefused(r, mt) \/ Seal(r, mt)
        \/ \E q \in Roles : \E i \in DOMAIN sealed[q] :
               \E s \in Seqs, ok \in BOOLEAN :
                  Receive(r, Delivered(q, i, s, ok))
        \/ Close(r)

Spec == Init /\ [][Next]_vars

------------------------------------------------------------------------------
\* The type of every variable of the two sessions and of the history.
TypeOK ==
    /\ state \in [Roles -> {"Active", "Misuse", "SequenceViolation",
                            "Authentication", "SequenceOverflow", "Closed"}]
    /\ sendSeq \in [Roles -> Seqs]
    /\ recvLast \in [Roles -> -1 .. MaxSeq]
    /\ sealed \in [Roles -> Seq(Frames)]
    /\ opened \in [Roles -> Seq(Nat)]

\* No direction uses a sequence number, hence an AEAD nonce, twice: not even
\* when the numbers run out (wp03, theorem of 1.2).
NonceOnce ==
    \A r \in Roles : \A i, j \in DOMAIN sealed[r] :
        sealed[r][i].seq = sealed[r][j].seq => i = j

\* What a session opens is what its peer sealed, from the first record on, in
\* order, nothing twice and nothing left out, whatever the network does.
OpenedIsPrefix ==
    \A r \in Roles :
        /\ Len(opened[r]) <= Len(sealed[Peer(r)])
        /\ \A i \in DOMAIN opened[r] :
              opened[r][i] = sealed[Peer(r)][i].payload

------------------------------------------------------------------------------
(* The inductive invariant of SessionProofs.                               *)

\* The records of a direction carry 0, 1, 2, ... in the order of the calls.
Numbered ==
    \A r \in Roles : \A i \in DOMAIN sealed[r] :
        /\ sealed[r][i].from = r
        /\ sealed[r][i].seq = i - 1
        /\ sealed[r][i].aadSeq = i - 1
        /\ sealed[r][i].payload = i - 1

\* The counter of a live session is the number of its records.
Counted == \A r \in Roles : state[r] = "Active" => sendSeq[r] = Len(sealed[r])

\* recv_last follows what was opened, and never overtakes the sender.
Followed ==
    \A r \in Roles :
        /\ Len(opened[r]) = recvLast[r] + 1
        /\ recvLast[r] + 1 <= Len(sealed[Peer(r)])
        /\ \A i \in DOMAIN opened[r] : opened[r][i] = i - 1

\* Together they are preserved by every step of seal(), open() and close().
IInv == TypeOK /\ Numbered /\ Counted /\ Followed
============================================================================
