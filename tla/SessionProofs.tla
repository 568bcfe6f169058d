--------------------------- MODULE SessionProofs ---------------------------
(***************************************************************************)
(* Proofs about the record layer, for every width of the sequence number.  *)
(***************************************************************************)
EXTENDS Session, TLAPS

\* The records of a step's history keep their types and their numbers.
LEMMA SealKeeps ==
    ASSUME IInv, NEW r \in Roles, NEW mt \in Types, Seal(r, mt)
    PROVE  IInv'
<1> DEFINE rec == Record(r, mt)
<1> USE SessionAssumption
<1>1. /\ state[r] = "Active" /\ sendSeq[r] = Len(sealed[r])
      /\ sendSeq[r] \in Seqs /\ sealed[r] \in Seq(Frames)
  BY DEF IInv, TypeOK, Counted, Seal
<1>2. rec \in Frames
  BY <1>1 DEF Record, Frames, Seqs
<1>3. /\ sealed' = [sealed EXCEPT ![r] = Append(@, rec)]
      /\ recvLast' = recvLast /\ opened' = opened
  BY DEF Seal
<1>4. sealed \in [Roles -> Seq(Frames)]
  BY DEF IInv, TypeOK
<1>5. TypeOK'
  <2>1. sealed' \in [Roles -> Seq(Frames)]
    BY <1>2, <1>3, <1>4
  <2>2. sendSeq' \in [Roles -> Seqs]
    <3>1. \/ sendSeq' = sendSeq
          \/ sendSeq[r] < MaxSeq /\ sendSeq' = [sendSeq EXCEPT ![r] = @ + 1]
      BY DEF Seal, AfterSeal
    <3>2. sendSeq \in [Roles -> Seqs]
      BY DEF IInv, TypeOK
    <3>3. ASSUME sendSeq[r] < MaxSeq
          PROVE  sendSeq[r] + 1 \in Seqs
      BY <1>1, <3>3 DEF Seqs
    <3> QED
      BY <3>1, <3>2, <3>3
  <2>3. state' = state \/ state' = [state EXCEPT ![r] = "SequenceOverflow"]
    BY DEF Seal, AfterSeal, Terminate
  <2> QED
    BY <1>3, <2>1, <2>2, <2>3 DEF IInv, TypeOK
<1>6. ASSUME NEW q \in Roles, q # r
      PROVE  sealed'[q] = sealed[q]
  BY <1>3, <1>4, <1>6
<1>7. /\ Len(sealed'[r]) = Len(sealed[r]) + 1
      /\ \A i \in 1 .. Len(sealed[r]) : sealed'[r][i] = sealed[r][i]
      /\ sealed'[r][Len(sealed[r]) + 1] = rec
  BY <1>1, <1>2, <1>3, <1>4
<1>8. Numbered'
  <2> SUFFICES ASSUME NEW q \in Roles, NEW i \in DOMAIN sealed'[q]
               PROVE  /\ sealed'[q][i].from = q
                      /\ sealed'[q][i].seq = i - 1
                      /\ sealed'[q][i].aadSeq = i - 1
                      /\ sealed'[q][i].payload = i - 1
    BY DEF Numbered
  <2>1. CASE q # r
    BY <1>6, <2>1 DEF IInv, Numbered
  <2>2. CASE q = r /\ i = Len(sealed[r]) + 1
    BY <1>1, <1>7, <2>2 DEF Record
  <2>3. CASE q = r /\ i # Len(sealed[r]) + 1
    <3>1. sealed'[r] \in Seq(Frames)
      BY <1>5 DEF TypeOK
    <3>2. i \in 1 .. Len(sealed[r])
      BY <1>1, <1>7, <2>3, <3>1
    <3> QED
      BY <1>1, <1>7, <2>3, <3>2 DEF IInv, Numbered
  <2> QED
    BY <2>1, <2>2, <2>3
<1>9. Counted'
  <2> SUFFICES ASSUME NEW q \in Roles, state'[q] = "Active"
               PROVE  sendSeq'[q] = Len(sealed'[q])
    BY DEF Counted
  <2>1. CASE q # r
    BY <1>6, <2>1 DEF IInv, TypeOK, Counted, Seal, AfterSeal, Terminate
  <2>2. CASE q = r
    BY <1>1, <1>7, <2>2 DEF IInv, TypeOK, Seal, AfterSeal, Terminate, Seqs
  <2> QED
    BY <2>1, <2>2
<1>10. Followed'
  <2> SUFFICES ASSUME NEW q \in Roles
               PROVE  Len(sealed[Peer(q)]) <= Len(sealed'[Peer(q)])
    BY SMTT(30), <1>3, <1>4, <1>5 DEF IInv, TypeOK, Followed, Peer, Roles
  <2>1. Peer(q) \in Roles
    BY DEF Peer, Roles
  <2> QED
    BY SMTT(30), <1>1, <1>4, <1>6, <1>7, <2>1
<1> QED
  BY <1>5, <1>8, <1>9, <1>10 DEF IInv

\* An accepted record is the next one its sender sealed.
LEMMA OpenKeeps ==
    ASSUME IInv, NEW r \in Roles, NEW mt \in Types, NEW q \in Roles,
           NEW i \in DOMAIN sealed[q], NEW s \in Seqs, NEW ok \in BOOLEAN,
           Open(r, mt, Delivered(q, i, s, ok))
    PROVE  IInv'
<1> DEFINE f == Delivered(q, i, s, ok)
<1> USE SessionAssumption
<1>1. sealed[q] \in Seq(Frames) /\ sealed[q][i] \in Frames
      /\ i \in 1 .. Len(sealed[q])
  BY DEF IInv, TypeOK
<1>2. /\ f.seq = s /\ f.from = q /\ f.aadSeq = i - 1 /\ f.payload = i - 1
      /\ f.intact = ok
  BY <1>1 DEF Delivered, Frames, IInv, Numbered
<1>3. q = Peer(r) /\ s = i - 1 /\ s = recvLast[r] + 1
  BY <1>2 DEF Open, Authentic, Acceptable
<1>4. /\ recvLast' = [recvLast EXCEPT ![r] = s]
      /\ opened' = [opened EXCEPT ![r] = Append(@, s)]
      /\ UNCHANGED <<state, sendSeq, sealed>>
  BY <1>2, <1>3 DEF Open
<1>5. TypeOK'
  BY SMTT(30), <1>4 DEF IInv, TypeOK, Seqs
<1>6. Numbered' /\ Counted'
  BY <1>4 DEF IInv, Numbered, Counted
<1>7. Followed'
  <2> SUFFICES ASSUME NEW p \in Roles
               PROVE  /\ Len(opened'[p]) = recvLast'[p] + 1
                      /\ recvLast'[p] + 1 <= Len(sealed[Peer(p)])
                      /\ \A j \in DOMAIN opened'[p] : opened'[p][j] = j - 1
    BY <1>4 DEF Followed
  <2>1. CASE p # r
    BY <1>4, <2>1 DEF IInv, TypeOK, Followed
  <2>2. CASE p = r
    <3>1. /\ opened[r] \in Seq(Nat) /\ s \in Nat
          /\ Len(opened[r]) = s
          /\ \A j \in DOMAIN opened[r] : opened[r][j] = j - 1
      BY <1>3 DEF IInv, TypeOK, Followed, Seqs
    <3>2. opened'[r] = Append(opened[r], s) /\ recvLast'[r] = s
      BY <1>4 DEF IInv, TypeOK
    <3>3. s + 1 <= Len(sealed[Peer(r)])
      BY <1>1, <1>3
    <3> QED
      BY <2>2, <3>1, <3>2, <3>3
  <2> QED
    BY <2>1, <2>2
<1> QED
  BY <1>5, <1>6, <1>7 DEF IInv

\* The other steps only end a session.
LEMMA EndKeeps ==
    ASSUME IInv, NEW r \in Roles, NEW reason \in
             {"Misuse", "SequenceViolation", "Authentication", "Closed"},
           Terminate(r, reason), UNCHANGED <<sendSeq, recvLast, sealed, opened>>
    PROVE  IInv'
  BY DEF IInv, TypeOK, Numbered, Counted, Followed, Terminate

\* The inductive invariant holds in every behaviour of the two sessions.
THEOREM Invariance == Spec => []IInv
<1>1. Init => IInv
  BY SessionAssumption DEF Init, IInv, TypeOK, Numbered, Counted, Followed,
                           Roles, Peer, Seqs
<1>2. IInv /\ [Next]_vars => IInv'
  <2> SUFFICES ASSUME IInv, [Next]_vars
               PROVE  IInv'
    OBVIOUS
  <2>1. CASE UNCHANGED vars
    BY <2>1 DEF vars, IInv, TypeOK, Numbered, Counted, Followed
  <2>2. ASSUME NEW r \in Roles, NEW mt \in Types, SealRefused(r, mt)
        PROVE  IInv'
    BY <2>2, EndKeeps DEF SealRefused
  <2>3. ASSUME NEW r \in Roles, Close(r)
        PROVE  IInv'
    BY <2>3, EndKeeps DEF Close
  <2>4. ASSUME NEW r \in Roles, NEW q \in Roles, NEW i \in DOMAIN sealed[q],
               NEW s \in Seqs, NEW ok \in BOOLEAN,
               Receive(r, Delivered(q, i, s, ok))
        PROVE  IInv'
    <3>1. PICK mt \in Types : \/ OpenRefused(r, mt, Delivered(q, i, s, ok))
                              \/ Open(r, mt, Delivered(q, i, s, ok))
      BY <2>4 DEF Receive
    <3>2. CASE OpenRefused(r, mt, Delivered(q, i, s, ok))
      BY <3>2, EndKeeps DEF OpenRefused
    <3> QED
      BY <3>1, <3>2, OpenKeeps
  <2> QED
    BY <2>1, <2>2, <2>3, <2>4, SealKeeps DEF Next
<1> QED
  BY <1>1, <1>2, PTL DEF Spec

\* For every width of the counter, seal() never uses a nonce twice in a
\* direction; session.rs ends the session where the counter would wrap.
THEOREM NonceNeverRepeats == Spec => []NonceOnce
<1>1. IInv => NonceOnce
  BY DEF IInv, TypeOK, Numbered, NonceOnce
<1> QED
  BY <1>1, Invariance, PTL

\* For every width, open() returns the peer's payloads in order, each once.
THEOREM OpensInOrder == Spec => []OpenedIsPrefix
<1>1. IInv => OpenedIsPrefix
  <2> SUFFICES ASSUME IInv, NEW r \in Roles
               PROVE  /\ Len(opened[r]) <= Len(sealed[Peer(r)])
                      /\ \A i \in DOMAIN opened[r] :
                            opened[r][i] = sealed[Peer(r)][i].payload
    BY DEF OpenedIsPrefix
  <2>1. /\ Peer(r) \in Roles
        /\ opened[r] \in Seq(Nat) /\ sealed[Peer(r)] \in Seq(Frames)
    BY DEF IInv, TypeOK, Peer, Roles
  <2>2. Len(opened[r]) <= Len(sealed[Peer(r)])
    BY DEF IInv, Followed
  <2>3. ASSUME NEW i \in DOMAIN opened[r]
        PROVE  opened[r][i] = sealed[Peer(r)][i].payload
    <3>1. i \in DOMAIN sealed[Peer(r)]
      BY <2>1, <2>2
    <3> QED
      BY <2>1, <3>1 DEF IInv, Followed, Numbered
  <2> QED
    BY <2>2, <2>3
<1> QED
  BY <1>1, Invariance, PTL
============================================================================
