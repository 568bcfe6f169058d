-------------------------- MODULE AllocatorProofs --------------------------
(***************************************************************************)
(* Proofs about Allocator, for every number of processes, every book and   *)
(* every range length: the inductive invariant, no reuse of a segment, and *)
(* the implementation of the ledger.  Then about Startup when processes    *)
(* are started one at a time (Overlap = FALSE): the recovery that runs     *)
(* before the lock is taken repairs a stale copy without moving a pointer  *)
(* back, and everything the allocator promises survives it.                *)
(***************************************************************************)
EXTENDS Startup, TLAPS

\* The order open decides by is reflexive and transitive, comparable records
\* are decided, and a later record never has a lower pointer.
LEMMA LeFacts ==
    ASSUME NEW x \in Record, NEW y \in Record, NEW z \in Record
    PROVE  /\ Le(x, x)
           /\ Le(x, y) /\ Le(y, z) => Le(x, z)
           /\ Le(x, y) => /\ Decidable(x, y) /\ Decidable(y, x)
                          /\ x.next <= y.next /\ x.book = y.book
                          /\ x.gen <= y.gen
           /\ Decidable(x, y) => /\ Le(x, Adopted(x, y)) /\ Le(y, Adopted(x, y))
                                 /\ Adopted(x, y) \in {x, y}
BY DEF Le, AdoptsOver, Decidable, Consistent, Before, Adopted, Record,
       Init_, Intent_, Commit_

\* A new INTENT is beyond every record its process knew of.
LEMMA LeIntent ==
    ASSUME NEW x \in Record, NEW r \in Record, NEW n \in Nat \ {0},
           Le(x, r), r.book = MyBook
    PROVE  Le(x, IntentRecord(MyBook, r.gen + 1, r.next + n - 1))
BY DEF Le, AdoptsOver, Before, Record, IntentRecord

\* A new INTENT is a record open accepts on its own.
LEMMA IntentSound ==
    ASSUME NEW r \in Record, r.tag = Intent_, r.next # 0, r.arg + 1 = r.next,
           r.next <= SegmentCount
    PROVE  Sound(r)
BY DEF Sound, Canonical, CommitVerified, Init_, Intent_, Commit_

\* The COMMIT of a transaction is beyond its INTENT.
LEMMA LeCommit ==
    ASSUME NEW x \in Record, NEW r \in Record, NEW h,
           Le(x, r), r.book = MyBook, r.tag = Intent_
    PROVE  Le(x, CommitRecord(MyBook, r.gen, r.next, h))
BY DEF Le, AdoptsOver, Before, Record, CommitRecord, Init_, Intent_, Commit_

\* The record a serving process writes is well formed.
LEMMA PersistingFacts ==
    ASSUME IInv, NEW p \in Proc, phase[p] \in Serving
    PROVE  /\ Persisting(p) \in Record
           /\ Sound(Persisting(p))
           /\ Persisting(p).book = MyBook
           /\ Persisting(p).next = cur[p].next
           /\ Persisting(p) # Torn
<1>1. Newest(p) /\ cur[p] \in Record
  BY DEF IInv, ProcInv, TypeOK
<1>2. CASE phase[p] = "commit"
  <2>1. cur[p].tag = Intent_ /\ Sound(cur[p])
    BY <1>1, <1>2 DEF Newest, InTransaction, Serving
  <2>2. cur[p].next \in 1 .. SegmentCount
    BY <1>1, <2>1 DEF Sound, Canonical, Record, Init_, Intent_, Commit_
  <2>3. SegHash[cur[p].next - 1] \in Nat /\ cur[p].next - 1 \in DOMAIN SegHash
    BY <2>2, AnchorAssumption
  <2>4. FinalRecord(p) \in Record /\ FinalRecord(p).book = MyBook
        /\ FinalRecord(p).next = cur[p].next
    BY <1>1, <2>3, AllocatorAssumption DEF FinalRecord, CommitRecord, Record
  <2>5. Sound(FinalRecord(p))
    BY <1>1, <2>2, <2>3 DEF FinalRecord, CommitRecord, Sound, Canonical,
       CommitVerified, Record, Init_, Intent_, Commit_
  <2> QED BY <1>2, <2>4, <2>5, AnchorAssumption DEF Persisting
<1>3. CASE phase[p] # "commit"
  BY <1>1, <1>3, AnchorAssumption DEF Persisting, Newest
<1> QED BY <1>2, <1>3

\* What the holder of the lock may do to the copies (write its record whole
\* or torn, or leave less in play) keeps the facts about the copies.
LEMMA StorageStep ==
    ASSUME IInv, TypeOK', NEW p \in Proc, phase[p] \in Serving,
           \A c \in Copies :
              \/ InPlay(c)' \subseteq InPlay(c) /\ cache'[c] = cache[c]
              \/ /\ InPlay(c)' \subseteq InPlay(c) \cup {Persisting(p), Torn}
                 /\ cache'[c] \in {Persisting(p), Torn}
    PROVE  CopyInv' /\ ChainInv' /\ (times' = times => ReleasedIsDurable')
<1> DEFINE r == Persisting(p)
<1>1. /\ r \in Record /\ Sound(r) /\ r.book = MyBook /\ r # Torn
      /\ r.next = cur[p].next
  BY PersistingFacts
<1>2. \A c \in Copies : \A x \in InPlay(c) : x # Torn => x \in Record /\ Le(x, r)
  BY DEF IInv, ProcInv, Newest, TypeOK, Contents, InPlay
<1>3. \A c \in Copies : \A x \in InPlay(c)' : x # Torn => x \in InPlay(c) \/ x = r
  OBVIOUS
<1>4. CopyInv'
  <2> SUFFICES ASSUME NEW c \in Copies, NEW x \in InPlay(c)', x # Torn
               PROVE  Sound(x) /\ (cache'[c] # Torn => Le(x, cache'[c]))
    BY DEF CopyInv, Sound, CommitVerified, Canonical
  <2>1. Sound(x)
    BY <1>1, <1>3 DEF IInv, CopyInv
  <2>2. x \in InPlay(c) /\ cache'[c] = cache[c] => (cache'[c] # Torn => Le(x, cache'[c]))
    BY DEF IInv, CopyInv
  <2>3. cache'[c] = r => Le(x, cache'[c])
    BY <1>1, <1>2, <1>3, LeFacts
  <2> QED BY <1>3, <2>1, <2>2, <2>3
<1>5. ChainInv'
  <2> SUFFICES ASSUME NEW c \in Copies, NEW d \in Copies,
                      NEW x \in InPlay(c)', NEW y \in InPlay(d)',
                      x # Torn, y # Torn, x.book = MyBook, y.book = MyBook
               PROVE  Decidable(x, y)
    BY DEF ChainInv
  <2>1. CASE x \in InPlay(c) /\ y \in InPlay(d)
    BY <2>1 DEF IInv, ChainInv
  <2>2. CASE x = r \/ y = r
    BY <1>1, <1>2, <1>3, <2>2, LeFacts
  <2> QED BY <1>3, <2>1, <2>2
<1>6. ASSUME times' = times PROVE ReleasedIsDurable'
  <2> SUFFICES ASSUME NEW s \in Segments, times[s] > 0, NEW c \in Copies,
                      NEW x \in InPlay(c)', x # Torn
               PROVE  s < x.next
    BY <1>6 DEF ReleasedIsDurable
  <2>1. CASE x \in InPlay(c)
    BY <2>1 DEF IInv, ReleasedIsDurable
  <2>2. CASE x = r
    <3>1. Pointer(p) /\ base[p] \in Nat /\ cur[p] \in Record
      BY DEF IInv, ProcInv, TypeOK
    <3>2. s < cur[p].next
      BY <3>1 DEF Pointer, Record, Segments
    <3> QED BY <1>1, <2>2, <3>2
  <2> QED BY <1>3, <2>1, <2>2
<1> QED BY <1>4, <1>5, <1>6

\* Only the holder of the lock has anything to prove about its memory.
LEMMA OthersDown ==
    ASSUME IInv, NEW p \in Proc, phase[p] # "down",
           \A q \in Proc : q # p => phase'[q] = phase[q],
           ProcInv(p)'
    PROVE  \A q \in Proc : ProcInv(q)'
<1> SUFFICES ASSUME NEW q \in Proc, q # p PROVE ProcInv(q)'
  OBVIOUS
<1>1. phase'[q] = "down"
  BY DEF IInv, LockInv
<1> QED BY <1>1 DEF ProcInv, Newest, Pointer, FirstCopy, Burnt, Serving

\* A step that touches neither the copies nor the caller keeps their facts.
LEMMA SameStorage ==
    ASSUME IInv, UNCHANGED <<cache, disk, times>>
    PROVE  CopyInv' /\ ChainInv' /\ ReleasedIsDurable'
BY DEF IInv, CopyInv, ChainInv, ReleasedIsDurable, InPlay

\* A process that ends has nothing left to keep.
LEMMA ExitStep ==
    ASSUME IInv, NEW p \in Proc, phase[p] # "down", Exit(p),
           cache' \in [Copies -> Contents], disk' \in [Copies -> SUBSET Contents]
    PROVE  TypeOK' /\ LockInv' /\ \A q \in Proc : ProcInv(q)'
<1>1. TypeOK'
  <2>1. InitRecord(MyBook) \in Record /\ NoIo \in IoStep
    BY AllocatorAssumption DEF InitRecord, Record, NoIo, IoStep, Copies
  <2> QED BY <2>1, AllocatorAssumption DEF IInv, TypeOK, Exit, Phases
<1>2. LockInv'
  BY DEF IInv, TypeOK, LockInv, Exit
<1>3. phase'[p] = "down" /\ \A q \in Proc : q # p => phase'[q] = phase[q]
  BY DEF IInv, TypeOK, Exit
<1>4. ProcInv(p)'
  BY <1>3 DEF ProcInv, Newest, Pointer, FirstCopy, Burnt, Serving
<1> QED BY <1>1, <1>2, <1>3, <1>4, OthersDown

\* Taking the lock, adopting a record or giving up keeps the invariant.
LEMMA OpeningStep ==
    ASSUME IInv, NEW p \in Proc, Opening(p)
    PROVE  IInv'
<1>1. CASE Open(p)
  <2>1. TypeOK' /\ LockInv'
    BY <1>1, AllocatorAssumption DEF IInv, TypeOK, LockInv, Open, Phases
  <2>2. \A q \in Proc : phase'[q] \in {"open", "down"}
    BY <1>1, AllocatorAssumption DEF IInv, TypeOK, LockInv, Open
  <2>3. \A q \in Proc : ProcInv(q)'
    BY <2>2 DEF ProcInv, Newest, Pointer, FirstCopy, Burnt, Serving
  <2> QED BY <1>1, <2>1, <2>3, SameStorage DEF Open, IInv
<1>2. ASSUME ReconcileConsistent(p) \/ ReconcileStale(p) PROVE IInv'
  <2> DEFINE a == cache["A"]  b == cache["B"]  r == Adopted(a, b)
  <2>1. /\ phase[p] = "open" /\ Openable(a, b)
        /\ UNCHANGED <<cache, disk, lock, base, times>>
        /\ cur' = [cur EXCEPT ![p] = r]
    BY <1>2 DEF ReconcileConsistent, ReconcileStale, storage, Consistent, Adopted,
       AdoptsOver
  <2>2. a \in Record /\ b \in Record /\ a # Torn /\ b # Torn
    BY <2>1 DEF Openable, Decodes, IInv, TypeOK, Contents, Copies
  <2>3. r \in {a, b} /\ Le(a, r) /\ Le(b, r)
    BY <2>1, <2>2, LeFacts DEF Openable
  <2>4. r \in Record /\ r.book = MyBook /\ Sound(r)
    BY <2>1, <2>2, <2>3 DEF Openable, Decodes, Sound
  <2>5. \/ phase' = [phase EXCEPT ![p] = "ready"] /\ at' = at
        \/ /\ phase' = [phase EXCEPT ![p] = "repair"]
           /\ at' \in [Proc -> IoStep] /\ at'[p].op = "write"
    <3>1. ReconcileConsistent(p) =>
             phase' = [phase EXCEPT ![p] = "ready"] /\ at' = at
      BY DEF ReconcileConsistent
    <3>2. ReconcileStale(p) =>
            /\ phase' = [phase EXCEPT ![p] = "repair"]
            /\ \E c \in Copies : at' = [at EXCEPT ![p] = [copy |-> c, op |-> "write"]]
      BY DEF ReconcileStale, Copies
    <3>3. at \in [Proc -> IoStep]
          /\ \A c \in Copies : [copy |-> c, op |-> "write"] \in IoStep
      BY DEF IInv, TypeOK, IoStep
    <3> QED BY <1>2, <3>1, <3>2, <3>3
  <2>6. TypeOK' /\ LockInv'
    BY <2>1, <2>4, <2>5 DEF IInv, TypeOK, LockInv, Phases
  <2>7. phase'[p] \in {"ready", "repair"} /\ cur'[p] = r /\ Persisting(p)' = r
    BY <2>1, <2>5 DEF IInv, TypeOK, Persisting
  <2>8. \A c \in Copies : \A x \in InPlay(c) : x # Torn => Le(x, r)
    <3> SUFFICES ASSUME NEW c \in Copies, NEW x \in InPlay(c), x # Torn
                 PROVE  Le(x, r)
      OBVIOUS
    <3>1. x \in Record /\ cache[c] \in {a, b}
      BY DEF IInv, TypeOK, Contents, InPlay, Copies
    <3>2. Le(x, cache[c])
      BY <2>2, <3>1 DEF IInv, CopyInv
    <3> QED BY <2>2, <2>3, <2>4, <3>1, <3>2, LeFacts
  <2>9. Newest(p)'
    <3>1. Sound(cur[p])' /\ (cur[p].book)' = MyBook
      BY <2>4, <2>7 DEF Sound, Canonical, CommitVerified
    <3>2. \A c \in Copies : \A x \in InPlay(c)' : x # Torn => Le(x, Persisting(p)')
      BY <2>1, <2>7, <2>8 DEF InPlay
    <3>3. ~(Persists(p)' /\ at'[p].op = "fsync")
      BY <2>5, <2>7 DEF Persists, IInv, TypeOK
    <3> QED BY <2>7, <3>1, <3>2, <3>3 DEF Newest, InTransaction
  <2>10. Pointer(p)'
    <3>1. \A s \in Segments : times[s] > 0 => s < r.next
      BY <2>2, <2>3 DEF IInv, ReleasedIsDurable, InPlay, Copies
    <3> QED BY <2>1, <2>7, <3>1 DEF Pointer, InTransaction
  <2>11. ProcInv(p)'
    BY <2>7, <2>9, <2>10 DEF ProcInv, FirstCopy, Burnt
  <2>12. \A q \in Proc : q # p => phase'[q] = phase[q]
    BY <2>5 DEF IInv, TypeOK
  <2> QED BY <2>1, <2>6, <2>11, <2>12, SameStorage, OthersDown DEF IInv
<1>3. CASE OpenFails(p)
  <2>1. TypeOK' /\ LockInv' /\ \A q \in Proc : ProcInv(q)'
    BY <1>3, ExitStep DEF OpenFails, storage, IInv, TypeOK
  <2>2. UNCHANGED <<cache, disk, times>>
    BY <1>3 DEF OpenFails, Exit, storage
  <2> QED BY <2>1, <2>2, SameStorage DEF IInv
<1> QED BY <1>1, <1>2, <1>3 DEF Opening

\* Beginning a transaction moves memory beyond everything in play.
LEMMA BeginStep ==
    ASSUME IInv, NEW p \in Proc, NEW n \in Nat \ {0}, BeginTransaction(p, n)
    PROVE  IInv'
<1>1. /\ phase[p] = "ready" /\ cur[p].next + n <= SegmentCount
      /\ UNCHANGED <<cache, disk, lock, times>>
  BY DEF BeginTransaction, storage
<1>2. /\ cur[p] \in Record /\ Sound(cur[p]) /\ cur[p].book = MyBook
      /\ Newest(p) /\ Pointer(p)
  BY <1>1 DEF IInv, TypeOK, ProcInv, Newest, Serving
<1>3. CASE cur[p].gen >= MaxGeneration
  <2>1. phase' = [phase EXCEPT ![p] = "halted"] /\ UNCHANGED <<at, cur, base>>
    BY <1>3 DEF BeginTransaction
  <2>2. TypeOK' /\ LockInv' /\ phase'[p] = "halted"
        /\ \A q \in Proc : q # p => phase'[q] = phase[q]
    BY <1>1, <2>1 DEF IInv, TypeOK, LockInv, Phases
  <2>3. ProcInv(p)'
    BY <2>2 DEF ProcInv, Newest, Pointer, FirstCopy, Burnt, Serving
  <2> QED BY <1>1, <2>2, <2>3, SameStorage, OthersDown DEF IInv
<1>4. CASE ~(cur[p].gen >= MaxGeneration)
  <2> DEFINE r == IntentRecord(MyBook, cur[p].gen + 1, cur[p].next + n - 1)
  <2>1. /\ cur' = [cur EXCEPT ![p] = r]
        /\ base' = [base EXCEPT ![p] = cur[p].next]
        /\ at' = [at EXCEPT ![p] = [copy |-> "A", op |-> "write"]]
        /\ phase' = [phase EXCEPT ![p] = "intent"]
    BY <1>4 DEF BeginTransaction
  <2>2. /\ r \in Record /\ r.book = MyBook /\ r.tag = Intent_ /\ Sound(r)
        /\ r.next = cur[p].next + n /\ cur[p].next \in Nat
    <3>1. cur[p].next \in Nat /\ cur[p].gen \in Nat
      BY <1>2 DEF Record
    <3>2. cur[p].next + n - 1 \in Nat /\ cur[p].next + n - 1 + 1 = cur[p].next + n
      BY <3>1
    <3>3. /\ r.book = MyBook /\ r.tag = Intent_ /\ r.gen = cur[p].gen + 1
          /\ r.next = cur[p].next + n - 1 + 1 /\ r.arg = cur[p].next + n - 1
      BY DEF IntentRecord
    <3>4. r \in Record
      BY <3>1, <3>2, AllocatorAssumption DEF IntentRecord, Record
    <3>5. r.next # 0 /\ r.arg + 1 = r.next /\ r.next <= SegmentCount
      BY <1>1, <3>1, <3>2, <3>3
    <3>6. Sound(r)
      BY <3>3, <3>4, <3>5, IntentSound
    <3> QED BY <3>1, <3>2, <3>3, <3>4, <3>6
  <2>3. TypeOK' /\ LockInv'
    <3>1. [copy |-> "A", op |-> "write"] \in IoStep
      BY DEF IoStep, Copies
    <3> QED BY <1>1, <2>1, <2>2, <3>1 DEF IInv, TypeOK, LockInv, Phases
  <2>4. /\ phase'[p] = "intent" /\ cur'[p] = r /\ Persisting(p)' = r
        /\ base'[p] = cur[p].next /\ at'[p] = [copy |-> "A", op |-> "write"]
        /\ \A q \in Proc : q # p => phase'[q] = phase[q]
    BY <2>1 DEF IInv, TypeOK, Persisting
  <2>5. \A c \in Copies : \A x \in InPlay(c) : x # Torn => Le(x, r)
    <3> SUFFICES ASSUME NEW c \in Copies, NEW x \in InPlay(c), x # Torn
                 PROVE  Le(x, r)
      OBVIOUS
    <3>1. x \in Record /\ Le(x, cur[p])
      BY <1>1, <1>2 DEF IInv, TypeOK, Contents, InPlay, Newest, Persisting, Serving
    <3> QED BY <1>2, <3>1, LeIntent
  <2>6. Newest(p)'
    <3>1. Sound(cur[p])' /\ (cur[p].book)' = MyBook /\ (cur[p].tag)' = Intent_
      BY <2>2, <2>4 DEF Sound, Canonical, CommitVerified
    <3>2. \A c \in Copies : \A x \in InPlay(c)' : x # Torn => Le(x, Persisting(p)')
      BY <1>1, <2>4, <2>5 DEF InPlay
    <3>3. at'[p].op # "fsync"
      BY <2>4
    <3> QED BY <3>1, <3>2, <3>3 DEF Newest
  <2>7. Pointer(p)'
    <3>1. \A s \in Segments : times[s] > 0 => s < cur[p].next
      BY <1>1, <1>2 DEF Pointer, Serving, InTransaction
    <3>2. cur[p].next < r.next
      BY <2>2
    <3> QED BY <1>1, <2>4, <3>1, <3>2 DEF Pointer, InTransaction
  <2>8. FirstCopy(p)' /\ Burnt(p)'
    BY <2>4 DEF FirstCopy, Burnt
  <2> QED BY <1>1, <2>3, <2>4, <2>6, <2>7, <2>8, SameStorage, OthersDown DEF IInv, ProcInv
<1> QED BY <1>3, <1>4

\* Facts that a write of copy c leaves behind, successful or not.
LEMMA WriteStep ==
    ASSUME IInv, NEW p \in Proc, NEW c \in Copies, phase[p] \in Serving,
           NEW x \in {Persisting(p), Torn},
           cache' = [cache EXCEPT ![c] = x],
           disk' = [disk EXCEPT ![c] = @ \cup {x, Torn}]
    PROVE  /\ cache' \in [Copies -> Contents] /\ disk' \in [Copies -> SUBSET Contents]
           /\ \A d \in Copies :
              \/ InPlay(d)' \subseteq InPlay(d) /\ cache'[d] = cache[d]
              \/ /\ InPlay(d)' \subseteq InPlay(d) \cup {Persisting(p), Torn}
                 /\ cache'[d] \in {Persisting(p), Torn}
<1>1. x \in Contents /\ Torn \in Contents
  BY PersistingFacts DEF Contents
<1>2. cache \in [Copies -> Contents] /\ disk \in [Copies -> SUBSET Contents]
  BY DEF IInv, TypeOK
<1> QED BY <1>1, <1>2 DEF InPlay

\* A complete write of the record in hand keeps the invariant.
LEMMA WriteOkStep ==
    ASSUME IInv, NEW p \in Proc, WriteOk(p)
    PROVE  IInv'
<1> DEFINE c == at[p].copy  r == Persisting(p)
<1>1. /\ phase[p] \in {"repair", "intent", "commit"} /\ phase[p] \in Serving
      /\ c \in Copies
  BY DEF WriteOk, Persists, Serving, IInv, TypeOK, IoStep
<1>2. /\ cache' = [cache EXCEPT ![c] = r]
      /\ disk' = [disk EXCEPT ![c] = @ \cup {r, Torn}]
      /\ at' = [at EXCEPT ![p].op = "fsync"]
      /\ UNCHANGED <<lock, phase, cur, base, times>>
  BY DEF WriteOk
<1>3. /\ cache' \in [Copies -> Contents] /\ disk' \in [Copies -> SUBSET Contents]
      /\ \A d \in Copies :
              \/ InPlay(d)' \subseteq InPlay(d) /\ cache'[d] = cache[d]
              \/ /\ InPlay(d)' \subseteq InPlay(d) \cup {r, Torn}
                 /\ cache'[d] \in {r, Torn}
  BY <1>1, <1>2, WriteStep
<1>4. TypeOK' /\ LockInv'
  BY <1>2, <1>3 DEF IInv, TypeOK, LockInv, IoStep
<1>5. CopyInv' /\ ChainInv' /\ ReleasedIsDurable'
  BY <1>1, <1>2, <1>3, <1>4, StorageStep
<1>6. /\ Persisting(p)' = r /\ at'[p].copy = c /\ cache'[c] = r
      /\ at'[p].op = "fsync"
  BY <1>1, <1>2 DEF Persisting, FinalRecord, IInv, TypeOK, IoStep
<1>7. /\ r \in Record /\ r # Torn /\ r.next = cur[p].next /\ cur[p] \in Record
      /\ ProcInv(p)
  BY <1>1, PersistingFacts DEF IInv, TypeOK
<1>8. Newest(p)'
  <2>1. /\ Sound(cur[p])' /\ (cur[p].book)' = MyBook
        /\ phase'[p] \in InTransaction => (cur[p].tag)' = Intent_
    BY <1>1, <1>2, <1>7 DEF ProcInv, Newest, Sound, Canonical, CommitVerified
  <2>2. \A d \in Copies : \A x \in InPlay(d)' : x # Torn => Le(x, Persisting(p)')
    BY <1>1, <1>3, <1>6, <1>7, LeFacts DEF ProcInv, Newest
  <2> QED BY <1>6, <2>1, <2>2 DEF Newest
<1>9. Pointer(p)'
  BY <1>2, <1>7 DEF ProcInv, Pointer
<1>10. FirstCopy(p)'
  BY <1>2, <1>3, <1>6, <1>7 DEF ProcInv, FirstCopy, Record, Copies
<1>11. Burnt(p)'
  BY <1>2, <1>3, <1>6, <1>7 DEF ProcInv, Burnt, Record
<1> QED BY <1>1, <1>2, <1>4, <1>5, <1>8, <1>9, <1>10, <1>11, OthersDown DEF IInv, ProcInv

\* A failed write or fsync: the process stops issuing, or gives up opening.
LEMMA PersistFailsStep ==
    ASSUME IInv, NEW p \in Proc, Persists(p), PersistFails(p),
           cache' \in [Copies -> Contents], disk' \in [Copies -> SUBSET Contents]
    PROVE  TypeOK' /\ LockInv' /\ times' = times /\ \A q \in Proc : ProcInv(q)'
<1>1. CASE phase[p] = "repair" /\ Exit(p)
  BY <1>1, ExitStep DEF Exit
<1>2. CASE /\ phase[p] \in {"intent", "commit"}
           /\ phase' = [phase EXCEPT ![p] = "halted"]
           /\ UNCHANGED <<lock, at, cur, base, times>>
  <2>1. TypeOK' /\ LockInv' /\ phase'[p] = "halted"
        /\ \A q \in Proc : q # p => phase'[q] = phase[q]
    BY <1>2 DEF IInv, TypeOK, LockInv, Phases
  <2>2. ProcInv(p)'
    BY <2>1 DEF ProcInv, Newest, Pointer, FirstCopy, Burnt, Serving
  <2> QED BY <1>2, <2>1, <2>2, OthersDown
<1> QED BY <1>1, <1>2 DEF PersistFails

\* A write or fsync that fails, whatever it left behind, keeps the invariant.
LEMMA FailureStep ==
    ASSUME IInv, NEW p \in Proc, WriteFails(p) \/ FsyncFails(p)
    PROVE  IInv'
<1>1. Persists(p) /\ PersistFails(p) /\ phase[p] \in Serving /\ at[p].copy \in Copies
  BY DEF WriteFails, FsyncFails, Persists, Serving, IInv, TypeOK, IoStep
<1>2. CASE UNCHANGED storage
  <2>1. cache' \in [Copies -> Contents] /\ disk' \in [Copies -> SUBSET Contents]
    BY <1>2 DEF storage, IInv, TypeOK
  <2>2. TypeOK' /\ LockInv' /\ times' = times /\ \A q \in Proc : ProcInv(q)'
    BY <1>1, <2>1, PersistFailsStep
  <2> QED BY <1>2, <2>2, SameStorage DEF storage, IInv
<1>3. ASSUME NEW x \in {Persisting(p), Torn},
             cache' = [cache EXCEPT ![at[p].copy] = x],
             disk' = [disk EXCEPT ![at[p].copy] = @ \cup {x, Torn}]
      PROVE  IInv'
  <2>1. /\ cache' \in [Copies -> Contents] /\ disk' \in [Copies -> SUBSET Contents]
        /\ \A d \in Copies :
              \/ InPlay(d)' \subseteq InPlay(d) /\ cache'[d] = cache[d]
              \/ /\ InPlay(d)' \subseteq InPlay(d) \cup {Persisting(p), Torn}
                 /\ cache'[d] \in {Persisting(p), Torn}
    BY <1>1, <1>3, WriteStep
  <2>2. TypeOK' /\ LockInv' /\ times' = times /\ \A q \in Proc : ProcInv(q)'
    BY <1>1, <2>1, PersistFailsStep
  <2>3. CopyInv' /\ ChainInv' /\ ReleasedIsDurable'
    BY <1>1, <2>1, <2>2, StorageStep
  <2> QED BY <2>2, <2>3 DEF IInv
<1> QED BY <1>2, <1>3 DEF WriteFails, FsyncFails

\* After a successful fsync only the record written is left in that copy.
LEMMA SyncedStep ==
    ASSUME IInv, NEW p \in Proc, Persists(p), Synced(p)
    PROVE  /\ phase[p] \in Serving /\ at[p].copy \in Copies
           /\ \A d \in Copies : d = at[p].copy => InPlay(d)' = {Persisting(p)}
           /\ \A d \in Copies : d # at[p].copy => InPlay(d)' = InPlay(d)
           /\ \A d \in Copies :
              \/ InPlay(d)' \subseteq InPlay(d) /\ cache'[d] = cache[d]
              \/ /\ InPlay(d)' \subseteq InPlay(d) \cup {Persisting(p), Torn}
                 /\ cache'[d] \in {Persisting(p), Torn}
           /\ cache' = cache /\ lock' = lock /\ base' = base
           /\ disk' \in [Copies -> SUBSET Contents]
<1>1. phase[p] \in Serving /\ at[p].copy \in Copies
  BY DEF Persists, Serving, IInv, TypeOK, IoStep
<1>2. cache[at[p].copy] = Persisting(p) /\ Persisting(p) \in Record
  BY <1>1, PersistingFacts DEF Synced, IInv, ProcInv, Newest
<1>3. disk \in [Copies -> SUBSET Contents] /\ {Persisting(p)} \in SUBSET Contents
  BY <1>2 DEF IInv, TypeOK, Contents
<1>4. /\ cache' = cache /\ lock' = lock /\ base' = base
      /\ disk' = [disk EXCEPT ![at[p].copy] = {Persisting(p)}]
  BY <1>2 DEF Synced
<1>5. /\ \A d \in Copies : d = at[p].copy => InPlay(d)' = {Persisting(p)}
      /\ \A d \in Copies : d # at[p].copy => InPlay(d)' = InPlay(d)
      /\ disk' \in [Copies -> SUBSET Contents]
  BY <1>1, <1>2, <1>3, <1>4 DEF InPlay
<1>6. ASSUME NEW d \in Copies
      PROVE  \/ InPlay(d)' \subseteq InPlay(d) /\ cache'[d] = cache[d]
             \/ /\ InPlay(d)' \subseteq InPlay(d) \cup {Persisting(p), Torn}
                /\ cache'[d] \in {Persisting(p), Torn}
  <2>1. CASE d = at[p].copy
    BY <1>2, <1>4, <1>5, <2>1
  <2>2. CASE d # at[p].copy
    BY <1>4, <1>5, <2>2
  <2> QED BY <2>1, <2>2
<1> QED BY <1>1, <1>4, <1>5, <1>6

\* While only the lock holder writes, the repaired copy reads back as written.
LEMMA RepairReadsBack ==
    ASSUME IInv, NEW p \in Proc
    PROVE  RepairDone(p) =>
              /\ phase[p] = "repair" /\ Synced(p)
              /\ phase' = [phase EXCEPT ![p] = "ready"]
              /\ at' = at /\ cur' = cur /\ times' = times
<1>1. phase[p] = "repair" /\ at[p].op = "fsync" => cache[at[p].copy] = cur[p]
  BY DEF IInv, ProcInv, Newest, Serving, Persists, Persisting
<1> QED BY <1>1 DEF RepairDone, Synced

\* A successful fsync that goes on with the same record (the repair is over,
\* or the first copy of a transaction is durable).
LEMMA KeepGoingStep ==
    ASSUME IInv, NEW p \in Proc, RepairDone(p) \/ FirstCopyDone(p) \/ IntentDone(p)
    PROVE  IInv'
<1> DEFINE r == Persisting(p)
<1>0. PICK c : c = at[p].copy
  OBVIOUS
<1>1. Persists(p) /\ Synced(p) /\ cur' = cur /\ times' = times
  BY RepairReadsBack DEF FirstCopyDone, IntentDone, Persists
<1>2. /\ phase[p] \in Serving /\ c \in Copies
      /\ InPlay(c)' = {r}
      /\ \A d \in Copies : d # c => InPlay(d)' = InPlay(d)
      /\ \A d \in Copies :
              \/ InPlay(d)' \subseteq InPlay(d) /\ cache'[d] = cache[d]
              \/ /\ InPlay(d)' \subseteq InPlay(d) \cup {r, Torn}
                 /\ cache'[d] \in {r, Torn}
      /\ cache' = cache /\ lock' = lock /\ base' = base
      /\ disk' \in [Copies -> SUBSET Contents]
  BY <1>0, <1>1, SyncedStep
<1>3. /\ r \in Record /\ r # Torn /\ r.next = cur[p].next /\ cur[p] \in Record
      /\ ProcInv(p)
  BY <1>2, PersistingFacts DEF IInv, TypeOK
<1>4. /\ phase' \in [Proc -> Phases] /\ at' \in [Proc -> IoStep]
      /\ phase'[p] \in Serving
      /\ \A q \in Proc : q # p => phase'[q] = phase[q]
      /\ \/ phase[p] = "repair" /\ phase'[p] = "ready"
         \/ /\ phase[p] \in {"intent", "commit"} /\ phase'[p] = phase[p]
            /\ c = "A" /\ at'[p] = [copy |-> "B", op |-> "write"]
         \/ phase[p] = "intent" /\ phase'[p] = "pread" /\ c = "B"
  <2>1. [copy |-> "B", op |-> "write"] \in IoStep
    BY DEF IoStep, Copies
  <2> QED BY <1>0, <2>1, RepairReadsBack DEF FirstCopyDone, IntentDone, IInv, TypeOK,
       Phases, Serving
<1>5. TypeOK' /\ LockInv'
  <2>1. TypeOK'
    BY <1>1, <1>2, <1>4 DEF IInv, TypeOK
  <2>2. LockInv'
    BY <1>1, <1>2, <1>4 DEF IInv, LockInv, Serving
  <2> QED BY <2>1, <2>2
<1>6. CopyInv' /\ ChainInv' /\ ReleasedIsDurable'
  BY <1>1, <1>2, <1>5, StorageStep
<1>7. Persisting(p)' = r
  BY <1>1, <1>4 DEF Persisting, FinalRecord
<1>8. \A d \in Copies : \A x \in InPlay(d)' : x # Torn => x \in InPlay(d) \/ x = r
  BY <1>2
<1>9. Newest(p)'
  <2>1. /\ Sound(cur[p])' /\ (cur[p].book)' = MyBook
        /\ phase'[p] \in InTransaction => (cur[p].tag)' = Intent_
    BY <1>1, <1>2, <1>3, <1>4 DEF ProcInv, Newest, Sound, Canonical, CommitVerified, InTransaction
  <2>2. \A d \in Copies : \A x \in InPlay(d)' : x # Torn => Le(x, Persisting(p)')
    BY <1>2, <1>3, <1>7, <1>8, LeFacts DEF ProcInv, Newest
  <2>3. ~(Persists(p)' /\ at'[p].op = "fsync")
    BY <1>4 DEF Persists
  <2> QED BY <2>1, <2>2, <2>3 DEF Newest
<1>10. Pointer(p)'
  BY <1>1, <1>2, <1>3, <1>4 DEF ProcInv, Pointer, InTransaction, Serving
<1>11. FirstCopy(p)'
  <2> SUFFICES ASSUME phase'[p] = "intent", NEW x \in InPlay("A")', x # Torn
               PROVE  x.next >= cur'[p].next
    BY DEF FirstCopy
  <2>1. x = r
    BY <1>2, <1>4
  <2> QED BY <1>1, <1>3, <2>1 DEF Record
<1>12. Burnt(p)'
  <2>1. CASE phase'[p] = "pread"
    <3> SUFFICES ASSUME NEW d \in Copies, NEW x \in InPlay(d)', x # Torn
                 PROVE  x.next >= cur'[p].next
      BY DEF Burnt
    <3>1. phase[p] = "intent" /\ c = "B"
      BY <1>4, <2>1
    <3>2. CASE d = "A"
      BY <1>0, <1>1, <1>2, <1>3, <3>1, <3>2 DEF ProcInv, FirstCopy
    <3>3. CASE d = "B"
      BY <1>1, <1>2, <1>3, <3>1, <3>3 DEF Record
    <3> QED BY <3>2, <3>3 DEF Copies
  <2>2. CASE phase'[p] = "commit"
    BY <1>1, <1>3, <1>4, <1>8, <2>2 DEF ProcInv, Burnt, Record
  <2> QED BY <2>1, <2>2 DEF Burnt
<1> QED BY <1>2, <1>4, <1>5, <1>6, <1>9, <1>10, <1>11, <1>12, OthersDown DEF IInv, ProcInv, Serving

\* Reading the bodies, or failing to.
LEMMA PreadStep ==
    ASSUME IInv, NEW p \in Proc, PreadOk(p) \/ PreadFails(p)
    PROVE  IInv'
<1>1. /\ phase[p] = "pread" /\ UNCHANGED <<cache, disk, lock, cur, base, times>>
      /\ cur[p] \in Record /\ base[p] \in Nat /\ ProcInv(p)
  BY DEF PreadOk, PreadFails, storage, IInv, TypeOK
<1>2. /\ phase' \in [Proc -> Phases] /\ at' \in [Proc -> IoStep]
      /\ \A q \in Proc : q # p => phase'[q] = phase[q]
      /\ \/ phase'[p] = "commit" /\ at'[p] = [copy |-> "A", op |-> "write"]
         \/ phase'[p] = "ready"
  <2>1. [copy |-> "A", op |-> "write"] \in IoStep
    BY DEF IoStep, Copies
  <2> QED BY <2>1 DEF PreadOk, PreadFails, IInv, TypeOK, Phases
<1>3. TypeOK' /\ LockInv'
  <2>1. TypeOK'
    BY <1>1, <1>2 DEF IInv, TypeOK
  <2>2. LockInv'
    BY <1>1, <1>2 DEF IInv, LockInv
  <2> QED BY <2>1, <2>2
<1>4. /\ Sound(cur[p]) /\ cur[p].book = MyBook /\ cur[p].tag = Intent_
      /\ \A c \in Copies : \A x \in InPlay(c) :
           x # Torn => x \in Record /\ Le(x, cur[p])
  BY <1>1 DEF ProcInv, Newest, Serving, InTransaction, Persisting, IInv, TypeOK,
     Contents, InPlay
<1>5. \A c \in Copies : \A x \in InPlay(c)' : x # Torn => Le(x, Persisting(p)')
  <2>1. CASE phase'[p] = "commit"
    <3>1. Persisting(p)' = CommitRecord(MyBook, cur[p].gen, cur[p].next,
                                        SegHash[cur[p].next - 1])
      BY <1>1, <2>1 DEF Persisting, FinalRecord
    <3> QED BY <1>1, <1>4, <3>1, LeCommit DEF InPlay
  <2>2. CASE phase'[p] = "ready"
    <3>1. Persisting(p)' = cur[p]
      BY <1>1, <2>2 DEF Persisting
    <3> QED BY <1>1, <1>4, <3>1 DEF InPlay
  <2> QED BY <1>2, <2>1, <2>2
<1>6. Newest(p)'
  <2>1. Sound(cur[p])' /\ (cur[p].book)' = MyBook /\ (cur[p].tag)' = Intent_
    BY <1>1, <1>4 DEF Sound, Canonical, CommitVerified
  <2>2. ~(Persists(p)' /\ at'[p].op = "fsync")
    BY <1>2 DEF Persists
  <2> QED BY <1>5, <2>1, <2>2 DEF Newest
<1>7. Pointer(p)'
  <2>1. /\ base[p] < cur[p].next
        /\ \A s \in Segments : times[s] > 0 => s < base[p]
    BY <1>1 DEF ProcInv, Pointer, Serving, InTransaction
  <2>2. \A s \in Segments : times[s] > 0 => s < cur[p].next
    BY <1>1, <2>1, AnchorAssumption DEF Segments, Record
  <2> QED BY <1>1, <1>2, <2>1, <2>2 DEF Pointer, InTransaction
<1>8. FirstCopy(p)' /\ Burnt(p)'
  <2>1. \A c \in Copies : \A x \in InPlay(c) : x # Torn => x.next >= cur[p].next
    BY <1>1 DEF ProcInv, Burnt
  <2> QED BY <1>1, <1>2, <2>1 DEF FirstCopy, Burnt, InPlay
<1> QED BY <1>1, <1>2, <1>3, <1>6, <1>7, <1>8, SameStorage, OthersDown DEF IInv, ProcInv

\* The pointer facts a COMMIT returns its range with.
LEMMA CommitFacts ==
    ASSUME IInv, NEW p \in Proc, CommitDone(p)
    PROVE  /\ base[p] \in Nat /\ cur[p].next \in Nat /\ base[p] < cur[p].next
           /\ cur[p].next <= SegmentCount
           /\ \A s \in Segments : times[s] > 0 => s < base[p]
<1>1. phase[p] = "commit" /\ ProcInv(p) /\ base[p] \in Nat /\ cur[p] \in Record
  BY DEF CommitDone, IInv, TypeOK
<1> QED BY <1>1 DEF ProcInv, Pointer, Newest, Sound, Serving, InTransaction, Record

\* Returning the range after the second copy of the COMMIT keeps the invariant.
LEMMA CommitStep ==
    ASSUME IInv, NEW p \in Proc, CommitDone(p)
    PROVE  IInv'
<1> DEFINE r == FinalRecord(p)
<1>1. /\ phase[p] = "commit" /\ Persists(p) /\ Synced(p) /\ at' = at
      /\ cur' = [cur EXCEPT ![p] = r] /\ phase' = [phase EXCEPT ![p] = "ready"]
      /\ Persisting(p) = r
  BY DEF CommitDone, Persists, Persisting
<1>2. /\ phase[p] \in Serving
      /\ \A d \in Copies :
              \/ InPlay(d)' \subseteq InPlay(d) /\ cache'[d] = cache[d]
              \/ /\ InPlay(d)' \subseteq InPlay(d) \cup {r, Torn}
                 /\ cache'[d] \in {r, Torn}
      /\ cache' = cache /\ lock' = lock /\ base' = base
      /\ disk' \in [Copies -> SUBSET Contents]
  BY <1>1, SyncedStep
<1>3. /\ r \in Record /\ Sound(r) /\ r.book = MyBook /\ r # Torn
      /\ r.next = cur[p].next /\ ProcInv(p)
  BY <1>1, <1>2, PersistingFacts DEF IInv
<1>4. /\ base[p] \in Nat /\ cur[p].next \in Nat /\ base[p] < cur[p].next
      /\ \A s \in Segments : times[s] > 0 => s < base[p]
  BY CommitFacts
<1>5. times' \in [Segments -> Nat]
      /\ \A s \in Segments : times'[s] > 0 => s < cur[p].next
  <2>1. times \in [Segments -> Nat]
    BY DEF IInv, TypeOK
  <2>2. times' = [s \in Segments |->
                   IF s \in base[p] .. cur[p].next - 1 THEN times[s] + 1
                                                       ELSE times[s]]
    BY DEF CommitDone
  <2>3. \A s \in Segments : times'[s] \in Nat
                            /\ (times'[s] > 0 => s < cur[p].next)
    BY SMTT(30), <1>4, <2>1, <2>2, AnchorAssumption DEF Segments
  <2> QED BY <2>2, <2>3
<1>6. TypeOK' /\ LockInv' /\ phase'[p] = "ready" /\ cur'[p] = r
      /\ \A q \in Proc : q # p => phase'[q] = phase[q]
  <2>1. TypeOK'
    BY <1>1, <1>2, <1>3, <1>5 DEF IInv, TypeOK, Phases
  <2>2. LockInv'
    BY <1>1, <1>2 DEF IInv, TypeOK, LockInv
  <2> QED BY <1>1, <2>1, <2>2 DEF IInv, TypeOK
<1>7. CopyInv' /\ ChainInv'
  BY <1>1, <1>2, <1>6, StorageStep
<1>8. \A d \in Copies : \A x \in InPlay(d)' : x # Torn => x \in InPlay(d) \/ x = r
  BY <1>2
<1>9. ReleasedIsDurable'
  <2> SUFFICES ASSUME NEW s \in Segments, times'[s] > 0, NEW d \in Copies,
                      NEW x \in InPlay(d)', x # Torn
               PROVE  s < x.next
    BY DEF ReleasedIsDurable
  <2>1. x \in InPlay(d) => x.next >= cur[p].next /\ x.next \in Nat
    BY <1>1, <1>3 DEF ProcInv, Burnt, IInv, TypeOK, Contents, Record, InPlay
  <2>2. s < cur[p].next /\ s \in Int
    BY <1>5, AnchorAssumption DEF Segments
  <2> QED BY <1>3, <1>4, <1>8, <2>1, <2>2
<1>10. Newest(p)'
  <2>1. Sound(cur[p])' /\ (cur[p].book)' = MyBook
    BY <1>3, <1>6 DEF Sound, Canonical, CommitVerified
  <2>2. Persisting(p)' = r
    BY <1>6 DEF Persisting
  <2>3. \A d \in Copies : \A x \in InPlay(d)' : x # Torn => Le(x, Persisting(p)')
    BY <1>1, <1>2, <1>3, <1>8, <2>2, LeFacts DEF ProcInv, Newest
  <2> QED BY <1>6, <2>1, <2>3 DEF Newest, InTransaction, Persists
<1>11. Pointer(p)' /\ FirstCopy(p)' /\ Burnt(p)'
  BY <1>3, <1>5, <1>6 DEF Pointer, FirstCopy, Burnt, InTransaction
<1> QED BY <1>1, <1>6, <1>7, <1>9, <1>10, <1>11, OthersDown DEF IInv, ProcInv

\* A power loss leaves of each copy one of the contents that were in play.
LEMMA PowerLossStep ==
    ASSUME IInv, PowerLoss
    PROVE  IInv'
<1>1. /\ lock' = NoProc /\ phase' = [p \in Proc |-> "down"]
      /\ at' = [p \in Proc |-> NoIo] /\ cur' = [p \in Proc |-> InitRecord(MyBook)]
      /\ base' = [p \in Proc |-> 0] /\ times' = times
  BY DEF PowerLoss
<1>2. PICK x \in [Copies -> UNION {disk[c] : c \in Copies}] :
        /\ \A c \in Copies : x[c] \in disk[c]
        /\ cache' = x /\ disk' = [c \in Copies |-> {x[c]}]
  BY DEF PowerLoss
<1>3. disk \in [Copies -> SUBSET Contents] /\ \A c \in Copies : x[c] \in Contents
  BY <1>2 DEF IInv, TypeOK
<1>4. \A c \in Copies : InPlay(c)' = {x[c]} /\ cache'[c] = x[c] /\ x[c] \in InPlay(c)
  BY <1>2 DEF InPlay
<1>5. TypeOK'
  <2>1. InitRecord(MyBook) \in Record /\ NoIo \in IoStep
    BY AllocatorAssumption DEF InitRecord, Record, NoIo, IoStep, Copies
  <2>2. cache' \in [Copies -> Contents] /\ disk' \in [Copies -> SUBSET Contents]
    BY <1>2, <1>3
  <2> QED BY <1>1, <2>1, <2>2 DEF IInv, TypeOK, Phases
<1>6. LockInv' /\ \A p \in Proc : ProcInv(p)'
  BY <1>1 DEF LockInv, ProcInv, Newest, Pointer, FirstCopy, Burnt, Serving
<1>7. CopyInv'
  <2>1. \A c \in Copies : x[c] # Torn => Sound(x[c]) /\ Le(x[c], x[c])
    BY <1>4 DEF IInv, CopyInv, Le
  <2> QED BY ZenonT(40), <1>4, <2>1 DEF CopyInv, Sound, Canonical, CommitVerified
<1>8. ChainInv'
  BY <1>4 DEF IInv, ChainInv
<1>9. ReleasedIsDurable'
  BY <1>1, <1>4 DEF IInv, ReleasedIsDurable
<1> QED BY <1>5, <1>6, <1>7, <1>8, <1>9 DEF IInv

\* Every step of the allocator, and every crash, keeps the invariant.
LEMMA IInvStep ==
    ASSUME IInv, [Next]_vars
    PROVE  IInv'
<1>1. ASSUME NEW p \in Proc, Transaction(p) PROVE IInv'
  <2>1. CASE Issue(p) \/ ReserveRange(p)
    BY <2>1, BeginStep, AllocatorAssumption DEF Issue, ReserveRange
  <2>2. CASE WriteOk(p)
    BY <2>2, WriteOkStep
  <2>3. CASE WriteFails(p) \/ FsyncFails(p)
    BY <2>3, FailureStep
  <2>4. CASE RepairDone(p) \/ FirstCopyDone(p) \/ IntentDone(p)
    BY <2>4, KeepGoingStep
  <2>5. CASE PreadOk(p) \/ PreadFails(p)
    BY <2>5, PreadStep
  <2>6. CASE CommitDone(p)
    BY <2>6, CommitStep
  <2> QED BY <1>1, <2>1, <2>2, <2>3, <2>4, <2>5, <2>6 DEF Transaction
<1>2. ASSUME NEW p \in Proc, Kill(p) PROVE IInv'
  <2>1. TypeOK' /\ LockInv' /\ \A q \in Proc : ProcInv(q)'
    BY <1>2, ExitStep DEF Kill, storage, IInv, TypeOK
  <2>2. UNCHANGED <<cache, disk, times>>
    BY <1>2 DEF Kill, Exit, storage
  <2> QED BY <2>1, <2>2, SameStorage DEF IInv
<1>3. CASE UNCHANGED vars
  <2>1. CopyInv' /\ ChainInv' /\ ReleasedIsDurable'
    BY <1>3, SameStorage DEF vars
  <2>2. TypeOK' /\ LockInv'
    BY <1>3 DEF IInv, vars, TypeOK, LockInv
  <2>3. \A p \in Proc : ProcInv(p)'
    BY ZenonT(40), <1>3 DEF IInv, vars, ProcInv, Newest, Pointer, FirstCopy, Burnt, InPlay,
       Persisting, FinalRecord, Persists, Sound, Canonical, CommitVerified
  <2> QED BY <2>1, <2>2, <2>3 DEF IInv
<1> QED BY <1>1, <1>2, <1>3, OpeningStep, PowerLossStep DEF Next

\* A new installation satisfies the invariant.
LEMMA IInvInit == Init => IInv
<1> SUFFICES ASSUME Init PROVE IInv
  OBVIOUS
<1>1. \A b \in BookIds : InitRecord(b) \in Record /\ Sound(InitRecord(b))
  BY AnchorAssumption DEF InitRecord, Record, Sound, Canonical, CommitVerified,
     Init_, Intent_, Commit_
<1>2. \A c \in Copies : \E b \in BookIds :
         cache[c] = InitRecord(b) /\ InPlay(c) = {InitRecord(b)}
  BY DEF Init, InPlay
<1>3. TypeOK
  <2>1. NoIo \in IoStep /\ InitRecord(MyBook) \in Record
    BY <1>1, AllocatorAssumption DEF NoIo, IoStep, Copies
  <2>2. cache \in [Copies -> Contents] /\ disk \in [Copies -> SUBSET Contents]
    BY <1>1 DEF Init, Contents
  <2> QED BY <2>1, <2>2 DEF Init, TypeOK, Phases
<1>4. LockInv /\ \A p \in Proc : ProcInv(p)
  BY DEF Init, LockInv, ProcInv, Newest, Pointer, FirstCopy, Burnt, Serving
<1>5. CopyInv
  BY <1>1, <1>2 DEF CopyInv, Le
<1>6. ChainInv
  <2>1. \A b \in BookIds : b = InitRecord(b).book
    BY DEF InitRecord
  <2>2. \A b \in BookIds : Decidable(InitRecord(b), InitRecord(b))
    BY <1>1, LeFacts
  <2> QED BY <1>2, <2>1, <2>2 DEF ChainInv
<1>7. ReleasedIsDurable
  BY DEF Init, ReleasedIsDurable
<1> QED BY <1>3, <1>4, <1>5, <1>6, <1>7 DEF IInv

\* The inductive invariant holds in every state of every behaviour.
THEOREM Invariance == Spec => []IInv
BY IInvInit, IInvStep, PTL DEF Spec

\* Type correctness of the anchors, the disks and the process memory; it
\* rests on the invariant, since a COMMIT hashes segment next - 1.
THEOREM TypeCorrect == Spec => []TypeOK
BY Invariance, PTL DEF IInv

\* Everything returned to a caller is below every pointer that can survive
\* a crash, in both copies.
THEOREM ReleasedDurable == Spec => []ReleasedIsDurable
BY Invariance, PTL DEF IInv

\* Bodies are read only once both copies burn them.
THEOREM ReadBurnt == Spec => []ReadIsBurnt
<1>1. IInv => ReadIsBurnt
  BY DEF IInv, ProcInv, ReadIsBurnt
<1> QED BY <1>1, Invariance, PTL

\* Two readable contents in play are sound and comparable, which is all that
\* open checks.
LEMMA Opens ==
    ASSUME IInv
    PROVE  OwnStateOpens
<1> SUFFICES ASSUME NEW x \in InPlay("A"), NEW y \in InPlay("B"),
                    x # Torn, y # Torn, x.book = MyBook, y.book = MyBook
             PROVE  Openable(x, y)
  BY DEF OwnStateOpens
<1>1. x \in Record /\ y \in Record /\ Sound(x) /\ Sound(y) /\ Decidable(x, y)
  BY DEF IInv, TypeOK, Contents, CopyInv, ChainInv, InPlay, Copies
<1>2. Adopted(x, y) \in {x, y}
  BY <1>1, LeFacts
<1> QED BY <1>1, <1>2 DEF Openable, Decodes, Sound

\* The allocator's own writes never leave a pair of readable copies that
\* open refuses.
THEOREM NeverLockedOut == Spec => []OwnStateOpens
BY Opens, Invariance, PTL

\* A COMMIT grants its range, and no other step of the allocator returns one.
LEMMA LedgerStep ==
    ASSUME IInv, [Next]_vars
    PROVE  [Ledger!Next]_times
<1>1. ASSUME NEW p \in Proc, CommitDone(p) PROVE Ledger!Next
  <2>1. /\ base[p] \in Nat /\ cur[p].next \in Nat /\ base[p] < cur[p].next
        /\ cur[p].next <= SegmentCount
        /\ \A s \in Segments : times[s] > 0 => s < base[p]
        /\ times \in [Segments -> Nat]
    BY <1>1, CommitFacts DEF IInv, TypeOK
  <2>2. base[p] \in 0 .. SegmentCount - 1 /\ cur[p].next - 1 \in 0 .. SegmentCount - 1
        /\ base[p] <= cur[p].next - 1
    BY <2>1, AnchorAssumption
  <2>3. \A s \in 0 .. SegmentCount - 1 : s >= base[p] => times[s] = 0
    BY <2>1, AnchorAssumption DEF Segments
  <2>4. Ledger!Grant(base[p], cur[p].next - 1)
    BY <1>1, <2>2, <2>3 DEF Ledger!Grant, CommitDone, Segments
  <2> QED BY <2>2, <2>4 DEF Ledger!Next
<1>2. ASSUME NEW p \in Proc, Opening(p) \/ Kill(p) PROVE times' = times
  BY <1>2 DEF Opening, Open, ReconcileConsistent, ReconcileStale, OpenFails, Kill, Exit
<1>3. ASSUME NEW p \in Proc, Transaction(p), ~CommitDone(p) PROVE times' = times
  BY <1>3 DEF Transaction, Issue, ReserveRange, BeginTransaction, WriteOk, WriteFails,
     FsyncFails, PersistFails, Exit, RepairDone, FirstCopyDone, IntentDone, PreadOk,
     PreadFails
<1>4. PowerLoss \/ UNCHANGED vars => times' = times
  BY DEF PowerLoss, vars
<1> QED BY <1>1, <1>2, <1>3, <1>4 DEF Next

\* The allocator implements the ledger: each range returned lies beyond
\* everything returned before, whatever failed in between.
THEOREM ImplementsLedger == Spec => LedgerSpec
<1>1. Init => Ledger!Init
  BY DEF Init, Ledger!Init, Segments
<1> QED BY <1>1, LedgerStep, Invariance, PTL DEF Spec, LedgerSpec, Ledger!Spec

Once == times \in [Segments -> Nat] /\ NoReuse

\* A grant lies beyond everything returned, so it returns nothing twice.
LEMMA OnceStep ==
    ASSUME Once, [Ledger!Next]_times
    PROVE  Once'
<1>1. ASSUME NEW a, NEW b, Ledger!Grant(a, b) PROVE Once'
  <2>1. times' = [s \in Segments |-> IF s \in a .. b THEN times[s] + 1 ELSE times[s]]
    BY <1>1 DEF Ledger!Grant, Segments
  <2>2. ASSUME NEW s \in Segments PROVE times'[s] \in Nat /\ times'[s] <= 1
    <3>1. CASE s \in a .. b
      BY <1>1, <2>1, <3>1 DEF Ledger!Grant, Segments, NoReuse, Once
    <3>2. CASE s \notin a .. b
      BY <2>1, <3>2 DEF NoReuse, Once
    <3> QED BY <3>1, <3>2
  <2> QED BY <2>1, <2>2 DEF NoReuse, Once
<1>2. CASE times' = times
  BY <1>2 DEF NoReuse, Once
<1> QED BY <1>1, <1>2 DEF Ledger!Next

\* No segment is ever returned twice.
THEOREM NoReuseHolds == Spec => []NoReuse
<1>1. Init => Once
  BY DEF Init, NoReuse, Once
<1>2. Spec => Init /\ [][Ledger!Next]_times
  BY ImplementsLedger, PTL DEF Spec, LedgerSpec, Ledger!Spec
<1>3. Once => NoReuse
  BY DEF Once
<1> QED BY <1>1, <1>2, <1>3, OnceStep, PTL

Advance ==
    \A c \in Copies :
        cache[c] # Torn /\ cache'[c] # Torn /\ cache'[c] # cache[c]
            => Before(cache[c], cache'[c]) \/ PowerLoss

\* The allocator writes nothing but what its process persists, which is
\* beyond what the copy held.
LEMMA AdvanceStep ==
    ASSUME IInv, Next
    PROVE  Advance
<1>1. ASSUME NEW p \in Proc, WriteOk(p) \/ WriteFails(p) PROVE Advance
  <2>1. phase[p] \in Serving /\ at[p].copy \in Copies
    BY <1>1 DEF WriteOk, WriteFails, Persists, Serving, IInv, TypeOK, IoStep
  <2>2. \/ cache' = cache
        \/ cache' = [cache EXCEPT ![at[p].copy] = Torn]
        \/ cache' = [cache EXCEPT ![at[p].copy] = Persisting(p)]
    BY <1>1 DEF WriteOk, WriteFails, storage
  <2>3. ASSUME NEW c \in Copies, cache[c] # Torn, cache'[c] # Torn,
               cache'[c] # cache[c]
        PROVE  Before(cache[c], cache'[c])
    <3>1. cache'[c] = Persisting(p)
      BY <2>1, <2>2, <2>3 DEF IInv, TypeOK
    <3>2. Le(cache[c], Persisting(p))
      BY <2>1, <2>3 DEF IInv, ProcInv, Newest, InPlay
    <3> QED BY <2>3, <3>1, <3>2 DEF Le, AdoptsOver
  <2> QED BY <2>3 DEF Advance
<1>2. ASSUME NEW p \in Proc, Opening(p) \/ Kill(p) PROVE cache' = cache
  BY <1>2 DEF Opening, Open, ReconcileConsistent, ReconcileStale, OpenFails, Kill,
     storage
<1>3. ASSUME NEW p \in Proc, Transaction(p), ~WriteOk(p), ~WriteFails(p)
      PROVE  cache' = cache
  BY <1>3 DEF Transaction, Issue, ReserveRange, BeginTransaction, FsyncFails,
     RepairDone, FirstCopyDone, IntentDone, CommitDone, Synced,
     PreadOk, PreadFails,
     storage
<1> QED BY <1>1, <1>2, <1>3 DEF Next, Advance

\* Short of a power loss, no anchor copy is ever replaced by an older record.
THEOREM AnchorsOnlyAdvance == Spec => AnchorsAdvance
<1>1. IInv /\ [Next]_vars => [Advance]_vars
  BY AdvanceStep
<1>2. QED BY <1>1, Invariance, PTL DEF Spec, AnchorsAdvance, Advance

-----------------------------------------------------------------------------
\* Startup: the recovery before the lock, one launch at a time.

\* startup_recover is between its launch and its verdict.
Busy == {"readA", "readB", "truncate", "write", "fsync"}

Repairing == {"truncate", "write", "fsync"}

\* A process that recovers is the only one there is.
Alone ==
    \A p \in Proc : boot[p] \in Busy =>
        \A q \in Proc : phase[q] = "down" /\ (q # p => boot[q] = "off")

\* What startup_recover read of copy A is still what copy A holds.
SeenInv == \A p \in Proc : boot[p] = "readB" => seen[p] = cache["A"]

\* The record being written over the stale copy is the one the other copy
\* holds, it is sound, and nothing in play is beyond it.
Planned(p) ==
    boot[p] \in Repairing =>
        LET r == plan[p].rec
            c == plan[p].copy
        IN  /\ Sound(r)
            /\ \A d \in Copies \ {c} : cache[d] = r
            /\ \A d \in Copies : \A x \in InPlay(d) : x # Torn => Le(x, r)
            /\ boot[p] = "write" => cache[c] = Torn
            /\ boot[p] = "fsync" => cache[c] = r

StartupInv ==
    /\ StartupTypeOK /\ IInv /\ Alone /\ SeenInv
    /\ \A p \in Proc : Planned(p)

-----------------------------------------------------------------------------
\* What is known of the repair a process is in the middle of.
LEMMA RepairFacts ==
    ASSUME StartupInv, NEW p \in Proc, boot[p] \in Repairing
    PROVE  /\ plan[p].rec \in Record /\ plan[p].rec # Torn /\ plan[p].copy \in Copies
           /\ Sound(plan[p].rec)
           /\ \A d \in Copies \ {plan[p].copy} : cache[d] = plan[p].rec
           /\ \A d \in Copies : \A x \in InPlay(d) : x # Torn => x \in Record /\ Le(x, plan[p].rec)
           /\ \A q \in Proc : phase[q] = "down" /\ (q # p => boot[q] = "off")
<1>1. /\ plan[p].rec \in Record /\ plan[p].copy \in Copies
  BY DEF StartupInv, StartupTypeOK
<1>2. \A d \in Copies : \A x \in InPlay(d) : x # Torn => x \in Record
  BY DEF StartupInv, StartupTypeOK, TypeOK, Contents, InPlay
<1>3. \A q \in Proc : phase[q] = "down" /\ (q # p => boot[q] = "off")
  BY DEF StartupInv, Alone, Busy, Repairing
<1>4. QED
  BY <1>1, <1>2, <1>3, AnchorAssumption DEF StartupInv, Planned

\* Writing the adopted record, whole or torn, over the stale copy, or leaving
\* less in play, keeps the facts about the copies.
LEMMA RepairStorage ==
    ASSUME StartupInv, NEW p \in Proc, boot[p] \in Repairing, times' = times,
           \A c \in Copies :
              \/ InPlay(c)' \subseteq InPlay(c) /\ cache'[c] = cache[c]
              \/ /\ InPlay(c)' \subseteq InPlay(c) \cup {plan[p].rec, Torn}
                 /\ cache'[c] \in {plan[p].rec, Torn}
    PROVE  /\ CopyInv' /\ ChainInv' /\ ReleasedIsDurable'
           /\ \A c \in Copies : \A x \in InPlay(c)' : x # Torn => Le(x, plan[p].rec)
<1> DEFINE r == plan[p].rec
<1>1. /\ r \in Record /\ r # Torn /\ plan[p].copy \in Copies /\ Sound(r)
      /\ \A d \in Copies \ {plan[p].copy} : cache[d] = r
      /\ \A d \in Copies : \A x \in InPlay(d) : x # Torn => x \in Record /\ Le(x, r)
  BY RepairFacts
<1>2. \A c \in Copies : \A x \in InPlay(c)' : x # Torn => x \in InPlay(c) \/ x = r
  OBVIOUS
<1>3. \A c \in Copies : \A x \in InPlay(c)' : x # Torn => x \in Record /\ Le(x, r)
  BY <1>1, <1>2, LeFacts
<1>4. CopyInv'
  <2>1. SUFFICES ASSUME NEW c \in Copies, NEW x \in InPlay(c)', x # Torn
                 PROVE  Sound(x) /\ (cache'[c] # Torn => Le(x, cache'[c]))
    BY DEF CopyInv, Sound, CommitVerified, Canonical
  <2>2. Sound(x)
    BY <1>1, <1>2, <2>1 DEF StartupInv, IInv, CopyInv
  <2>3. CASE InPlay(c)' \subseteq InPlay(c) /\ cache'[c] = cache[c]
    BY <2>1, <2>2, <2>3 DEF StartupInv, IInv, CopyInv
  <2>4. CASE cache'[c] \in {r, Torn}
    BY <1>3, <2>1, <2>2, <2>4
  <2>5. QED
    BY <2>3, <2>4
<1>5. ChainInv'
  <2>1. SUFFICES ASSUME NEW c \in Copies, NEW d \in Copies,
                        NEW x \in InPlay(c)', NEW y \in InPlay(d)',
                        x # Torn, y # Torn, x.book = MyBook, y.book = MyBook
                 PROVE  Decidable(x, y)
    BY DEF ChainInv
  <2>2. CASE x \in InPlay(c) /\ y \in InPlay(d)
    BY <2>1, <2>2 DEF StartupInv, IInv, ChainInv
  <2>3. CASE x = r \/ y = r
    BY <1>1, <1>3, <2>1, <2>3, LeFacts
  <2>4. QED
    BY <1>2, <2>1, <2>2, <2>3
<1>6. ReleasedIsDurable'
  <2>1. SUFFICES ASSUME NEW s \in Segments, times[s] > 0, NEW c \in Copies,
                        NEW x \in InPlay(c)', x # Torn
                 PROVE  s < x.next
    BY DEF ReleasedIsDurable
  <2>2. \E d \in Copies : r \in InPlay(d)
    <3>1. \E d \in Copies : d # plan[p].copy
      BY <1>1 DEF Copies
    <3>2. QED
      BY <1>1, <3>1 DEF InPlay
  <2>3. \A y : y # Torn /\ (\E d \in Copies : y \in InPlay(d)) => s < y.next
    BY <2>1 DEF StartupInv, IInv, ReleasedIsDurable
  <2>4. QED
    BY <1>1, <1>2, <2>1, <2>2, <2>3
<1>7. QED
  BY <1>3, <1>4, <1>5, <1>6

\* With every process down there is nothing to prove about their memory.
LEMMA AllDown ==
    ASSUME \A q \in Proc : phase'[q] = "down"
    PROVE  LockInv' /\ \A q \in Proc : ProcInv(q)'
BY DEF LockInv, ProcInv, Newest, Pointer, FirstCopy, Burnt, Serving

\* A process that leaves its recovery, or is launched, is still alone.
LEMMA RecoverAlone ==
    ASSUME StartupInv, NEW p \in Proc, phase' = phase,
           NEW b \in BootSteps, boot' = [boot EXCEPT ![p] = b],
           boot[p] \in Busy \/ b = "off"
    PROVE  Alone' /\ boot' \in [Proc -> BootSteps] /\ boot'[p] = b
<1>1. boot \in [Proc -> BootSteps] /\ Alone
  BY DEF StartupInv, StartupTypeOK
<1>2. boot'[p] = b /\ \A q \in Proc \ {p} : boot'[q] = boot[q]
  BY <1>1
<1>3. \A q \in Proc : boot'[q] \in Busy =>
         \A o \in Proc : phase'[o] = "down" /\ (o # q => boot'[o] = "off")
  <2>1. SUFFICES ASSUME NEW q \in Proc, boot'[q] \in Busy
                 PROVE  \A o \in Proc : phase'[o] = "down" /\ (o # q => boot'[o] = "off")
    OBVIOUS
  <2>2. CASE q = p
    <3>1. boot[p] \in Busy
      BY <1>2, <2>1, <2>2 DEF Busy
    <3>2. QED
      BY <1>1, <1>2, <2>2, <3>1 DEF Alone
  <2>3. CASE q # p
    <3>1. boot[q] \in Busy /\ boot[p] = "off"
      BY <1>1, <1>2, <2>1, <2>3 DEF Alone
    <3>2. b = "off"
      BY <3>1 DEF Busy
    <3>3. boot[p] = "off" /\ \A o \in Proc : phase[o] = "down" /\ (o # q => boot[o] = "off")
      BY <1>1, <3>1 DEF Alone
    <3>4. QED
      BY <1>2, <2>1, <2>3, <3>1, <3>2, <3>3
  <2>4. QED
    BY <2>2, <2>3
<1>4. QED
  BY <1>1, <1>2, <1>3 DEF Alone

\* A process that takes nothing to repair from its recovery adds nothing to
\* prove about plans.
LEMMA NothingBusy ==
    ASSUME \A q \in Proc : boot'[q] \notin Busy
    PROVE  Alone' /\ SeenInv' /\ \A q \in Proc : Planned(q)'
BY DEF Alone, SeenInv, Planned, Busy, Repairing

\* Reading and deciding change no file and no memory of the allocator.
LEMMA VarsKept ==
    ASSUME StartupInv, UNCHANGED vars
    PROVE  IInv' /\ TypeOK' /\ cache' = cache /\ disk' = disk /\ phase' = phase
           /\ \A c \in Copies : InPlay(c)' = InPlay(c)
<1>1. IInv'
  BY IInvStep DEF StartupInv
<1>2. QED
  BY <1>1 DEF IInv, vars, InPlay

\* A refused start, or one that is killed, leaves nothing behind.
LEMMA RefuseTypes ==
    ASSUME StartupInv, NEW p \in Proc, Refuse(p)
    PROVE  /\ boot' = [boot EXCEPT ![p] = "off"] /\ "off" \in BootSteps
           /\ seen' \in [Proc -> Contents]
           /\ plan' \in [Proc -> [copy : Copies, rec : Record]]
           /\ \A q \in Proc \ {p} : boot'[q] = boot[q] /\ seen'[q] = seen[q] /\ plan'[q] = plan[q]
           /\ boot'[p] = "off"
<1>1. NoPlan \in [copy : Copies, rec : Record]
  BY AllocatorAssumption DEF NoPlan, InitRecord, Record, Copies
<1>2. /\ boot \in [Proc -> BootSteps] /\ seen \in [Proc -> Contents]
      /\ plan \in [Proc -> [copy : Copies, rec : Record]]
  BY DEF StartupInv, StartupTypeOK
<1>3. Torn \in Contents /\ "off" \in BootSteps
  BY DEF Contents, BootSteps
<1>4. QED
  BY <1>1, <1>2, <1>3 DEF Refuse

\* Giving up without touching a file keeps the invariant.
LEMMA RefuseStep ==
    ASSUME StartupInv, NEW p \in Proc, Refuse(p), UNCHANGED vars
    PROVE  StartupInv'
<1>1. /\ IInv' /\ TypeOK' /\ cache' = cache /\ phase' = phase
      /\ \A c \in Copies : InPlay(c)' = InPlay(c)
  BY VarsKept
<1>2. /\ boot' = [boot EXCEPT ![p] = "off"] /\ "off" \in BootSteps
      /\ seen' \in [Proc -> Contents]
      /\ plan' \in [Proc -> [copy : Copies, rec : Record]]
      /\ \A q \in Proc \ {p} : boot'[q] = boot[q] /\ seen'[q] = seen[q] /\ plan'[q] = plan[q]
      /\ boot'[p] = "off"
  BY RefuseTypes
<1>3. Alone' /\ boot' \in [Proc -> BootSteps]
  BY <1>1, <1>2, RecoverAlone
<1>4. SeenInv'
  BY <1>1, <1>2 DEF StartupInv, SeenInv
<1>5. ASSUME NEW q \in Proc PROVE Planned(q)'
  <2>1. CASE q = p
    BY <1>2, <2>1 DEF Planned, Repairing
  <2>2. CASE q # p
    <3>1. boot'[q] = boot[q] /\ plan'[q] = plan[q] /\ Planned(q)
      BY <1>2, <2>2 DEF StartupInv
    <3>2. Sound(plan[q].rec) => Sound(plan[q].rec)'
      BY <3>1 DEF Sound, Canonical, CommitVerified
    <3>3. QED
      BY <1>1, <3>1, <3>2 DEF Planned
  <2>3. QED
    BY <2>1, <2>2
<1>6. QED
  BY <1>1, <1>2, <1>3, <1>4, <1>5 DEF StartupInv, StartupTypeOK

\* A process is launched only when no other one is up or starting.
LEMMA LaunchStep ==
    ASSUME Overlap = FALSE, StartupInv, NEW p \in Proc, Launch(p)
    PROVE  StartupInv'
<1>1. /\ IInv' /\ TypeOK' /\ phase' = phase
  BY VarsKept DEF Launch
<1>2. /\ \A q \in Proc : phase[q] = "down" /\ boot[q] = "off"
      /\ boot' = [boot EXCEPT ![p] = "readA"] /\ seen' = seen /\ plan' = plan
  BY DEF Launch
<1>3. /\ boot' \in [Proc -> BootSteps] /\ boot'[p] = "readA"
      /\ \A q \in Proc \ {p} : boot'[q] = "off"
  BY <1>2 DEF StartupInv, StartupTypeOK, BootSteps
<1>4. Alone'
  BY <1>1, <1>2, <1>3 DEF Alone, Busy
<1>5. SeenInv' /\ \A q \in Proc : Planned(q)'
  BY <1>3 DEF SeenInv, Planned, Repairing
<1>6. QED
  BY <1>1, <1>2, <1>3, <1>4, <1>5 DEF StartupInv, StartupTypeOK

\* Reading copy A.
LEMMA ReadAStep ==
    ASSUME StartupInv, NEW p \in Proc, RecoverReadA(p)
    PROVE  StartupInv'
<1>1. /\ IInv' /\ TypeOK' /\ cache' = cache /\ phase' = phase
  BY VarsKept DEF RecoverReadA
<1>2. /\ boot[p] = "readA" /\ boot' = [boot EXCEPT ![p] = "readB"] /\ plan' = plan
      /\ seen' = [seen EXCEPT ![p] = cache["A"]]
  BY DEF RecoverReadA
<1>3. Alone' /\ boot' \in [Proc -> BootSteps] /\ boot'[p] = "readB"
  <2>1. "readB" \in BootSteps /\ boot[p] \in Busy
    BY <1>2 DEF BootSteps, Busy
  <2>2. QED
    BY <1>1, <1>2, <2>1, RecoverAlone
<1>4. seen' \in [Proc -> Contents] /\ seen'[p] = cache["A"]
  <2>1. cache["A"] \in Contents /\ seen \in [Proc -> Contents]
    BY DEF StartupInv, StartupTypeOK, TypeOK, Copies
  <2>2. QED
    BY <1>2, <2>1
<1>5. \A q \in Proc \ {p} : boot'[q] = "off"
  BY <1>3 DEF Alone, Busy
<1>6. SeenInv' /\ \A q \in Proc : Planned(q)'
  BY <1>1, <1>3, <1>4, <1>5 DEF SeenInv, Planned, Repairing
<1>7. QED
  BY <1>1, <1>2, <1>3, <1>4, <1>6 DEF StartupInv, StartupTypeOK

\* The decision: the copy that is rewritten is the older one, and the record
\* adopted is the contents of the other and beyond everything in play.
LEMMA DecideStep ==
    ASSUME StartupInv, NEW p \in Proc, RecoverDecide(p)
    PROVE  StartupInv'
<1> DEFINE a == cache["A"]  b == cache["B"]  r == Adopted(a, b)
           k == IF AdoptsOver(a, b) THEN "B" ELSE "A"
<1>1. boot[p] = "readB" /\ seen[p] = a /\ UNCHANGED vars
  BY DEF RecoverDecide, StartupInv, SeenInv
<1>2. /\ IInv' /\ TypeOK' /\ cache' = cache /\ phase' = phase
      /\ \A c \in Copies : InPlay(c)' = InPlay(c)
  BY <1>1, VarsKept
<1>3. CASE ~(Decodes(a) /\ Decodes(b)) \/ ~Decidable(a, b)
  BY <1>1, <1>3, RefuseStep DEF RecoverDecide
<1>4. CASE Decodes(a) /\ Decodes(b) /\ Decidable(a, b)
  <2>1. /\ boot' = [boot EXCEPT ![p] = IF Consistent(a, b) THEN "done" ELSE "truncate"]
        /\ plan' = [plan EXCEPT ![p] = [copy |-> k, rec |-> r]]
        /\ seen' = [seen EXCEPT ![p] = Torn]
    BY <1>1, <1>4 DEF RecoverDecide
  <2>2. a \in Record /\ b \in Record /\ a # Torn /\ b # Torn
    BY <1>4 DEF Decodes, StartupInv, IInv, TypeOK, Contents, Copies
  <2>3. r \in {a, b} /\ Le(a, r) /\ Le(b, r) /\ r \in Record /\ k \in Copies
    BY <1>4, <2>2, LeFacts DEF Copies
  <2>4. Sound(r)
    BY <2>2, <2>3 DEF StartupInv, IInv, CopyInv, InPlay, Copies
  <2>5. ~Consistent(a, b) => \A d \in Copies \ {k} : cache[d] = r
    BY <1>4, <2>2 DEF Decidable, Adopted, AdoptsOver, Before, Record, Copies,
       Init_, Intent_, Commit_
  <2>6. \A d \in Copies : \A x \in InPlay(d) : x # Torn => Le(x, r)
    <3>1. SUFFICES ASSUME NEW d \in Copies, NEW x \in InPlay(d), x # Torn
                   PROVE  Le(x, r)
      OBVIOUS
    <3>2. x \in Record /\ cache[d] \in {a, b}
      BY <3>1 DEF StartupInv, IInv, TypeOK, Contents, InPlay, Copies
    <3>3. Le(x, cache[d])
      BY <2>2, <3>1, <3>2 DEF StartupInv, IInv, CopyInv
    <3>4. QED
      BY <2>2, <2>3, <3>2, <3>3, LeFacts
  <2>7. /\ plan' \in [Proc -> [copy : Copies, rec : Record]]
        /\ seen' \in [Proc -> Contents]
        /\ plan'[p] = [copy |-> k, rec |-> r]
    <3>1. [copy |-> k, rec |-> r] \in [copy : Copies, rec : Record] /\ Torn \in Contents
      BY <2>3 DEF Contents
    <3>2. QED
      BY <2>1, <3>1 DEF StartupInv, StartupTypeOK
  <2>8. /\ Alone' /\ boot' \in [Proc -> BootSteps]
        /\ boot'[p] = IF Consistent(a, b) THEN "done" ELSE "truncate"
    <3>1. boot[p] \in Busy /\ "done" \in BootSteps /\ "truncate" \in BootSteps
      BY <1>1 DEF Busy, BootSteps
    <3>2. QED
      BY <1>2, <2>1, <3>1, RecoverAlone
  <2>9. \A q \in Proc \ {p} : boot'[q] = "off"
    <3>1. \A q \in Proc \ {p} : boot[q] = "off"
      BY <1>1 DEF StartupInv, Alone, Busy
    <3>2. QED
      BY <2>1, <3>1 DEF StartupInv, StartupTypeOK
  <2>10. SeenInv'
    BY <2>8, <2>9 DEF SeenInv
  <2>11. Planned(p)'
    <3>1. SUFFICES ASSUME boot'[p] \in Repairing
                   PROVE  Planned(p)'
      BY DEF Planned
    <3>2. boot'[p] = "truncate" /\ ~Consistent(a, b)
      BY <2>8, <3>1 DEF Repairing
    <3>3. (plan[p].rec)' = r /\ (plan[p].copy)' = k
      BY <2>7
    <3>4. Sound(plan[p].rec)'
      BY <2>4, <3>3 DEF Sound, Canonical, CommitVerified
    <3>5. QED
      BY <1>2, <2>5, <2>6, <3>2, <3>3, <3>4 DEF Planned
  <2>12. \A q \in Proc : Planned(q)'
    <3>1. \A q \in Proc \ {p} : Planned(q)'
      BY <2>9 DEF Planned, Repairing
    <3>2. QED
      BY <2>11, <3>1
  <2>13. QED
    BY <1>2, <2>7, <2>8, <2>10, <2>12 DEF StartupInv, StartupTypeOK
<1>5. QED
  BY <1>3, <1>4

\* A step of the repair that leaves the copies in order, and the process
\* where its plan still holds or out of its recovery, keeps the invariant.
LEMMA RepairStep ==
    ASSUME StartupInv, NEW p \in Proc, boot[p] \in Repairing,
           UNCHANGED <<lock, memory, times, seen, plan>>,
           cache' \in [Copies -> Contents], disk' \in [Copies -> SUBSET Contents],
           \A c \in Copies :
              \/ InPlay(c)' \subseteq InPlay(c) /\ cache'[c] = cache[c]
              \/ /\ InPlay(c)' \subseteq InPlay(c) \cup {plan[p].rec, Torn}
                 /\ cache'[c] \in {plan[p].rec, Torn},
           \A d \in Copies \ {plan[p].copy} : cache'[d] = cache[d],
           NEW t \in BootSteps, boot' = [boot EXCEPT ![p] = t], t # "readB",
           t = "write" => cache'[plan[p].copy] = Torn,
           t = "fsync" => cache'[plan[p].copy] = plan[p].rec
    PROVE  StartupInv'
<1>1. /\ plan[p].rec \in Record /\ plan[p].copy \in Copies /\ Sound(plan[p].rec)
      /\ \A d \in Copies \ {plan[p].copy} : cache[d] = plan[p].rec
      /\ \A q \in Proc : phase[q] = "down" /\ (q # p => boot[q] = "off")
  BY RepairFacts
<1>2. TypeOK' /\ phase' = phase
  BY DEF StartupInv, IInv, TypeOK, memory
<1>3. /\ CopyInv' /\ ChainInv' /\ ReleasedIsDurable'
      /\ \A c \in Copies : \A x \in InPlay(c)' : x # Torn => Le(x, plan[p].rec)
  BY RepairStorage
<1>4. IInv'
  BY <1>1, <1>2, <1>3, AllDown DEF IInv
<1>5. Alone' /\ boot' \in [Proc -> BootSteps] /\ boot'[p] = t
  <2>1. boot[p] \in Busy
    BY DEF Busy, Repairing
  <2>2. QED
    BY <1>2, <2>1, RecoverAlone
<1>6. \A q \in Proc \ {p} : boot'[q] = "off"
  BY <1>1 DEF StartupInv, StartupTypeOK
<1>7. SeenInv'
  BY <1>5, <1>6 DEF SeenInv
<1>8. Planned(p)'
  <2>1. Sound(plan[p].rec)'
    BY <1>1 DEF Sound, Canonical, CommitVerified
  <2>2. QED
    BY <1>1, <1>3, <1>5, <2>1 DEF Planned
<1>9. \A q \in Proc : Planned(q)'
  <2>1. \A q \in Proc \ {p} : Planned(q)'
    BY <1>6 DEF Planned, Repairing
  <2>2. QED
    BY <1>8, <2>1
<1>10. QED
  BY <1>2, <1>4, <1>5, <1>7, <1>9 DEF StartupInv, StartupTypeOK

\* Cutting the stale copy to nothing leaves it torn, or as it was on disk.
LEMMA TruncateStep ==
    ASSUME StartupInv, NEW p \in Proc, RecoverTruncate(p)
    PROVE  StartupInv'
<1> DEFINE c == plan[p].copy
<1>1. /\ boot[p] = "truncate" /\ boot[p] \in Repairing
      /\ cache' = [cache EXCEPT ![c] = Torn] /\ disk' = [disk EXCEPT ![c] = @ \cup {Torn}]
      /\ boot' = [boot EXCEPT ![p] = "write"]
      /\ UNCHANGED <<lock, memory, times, seen, plan>>
  BY DEF RecoverTruncate, Repairing
<1>2. c \in Copies /\ cache \in [Copies -> Contents] /\ disk \in [Copies -> SUBSET Contents]
  BY <1>1, RepairFacts DEF StartupInv, IInv, TypeOK
<1>3. cache' \in [Copies -> Contents] /\ disk' \in [Copies -> SUBSET Contents]
  BY <1>1, <1>2 DEF Contents
<1>4. /\ cache'[c] = Torn /\ disk'[c] = disk[c] \cup {Torn}
      /\ \A d \in Copies \ {c} : cache'[d] = cache[d] /\ disk'[d] = disk[d]
  BY <1>1, <1>2
<1>5. \A d \in Copies :
         \/ InPlay(d)' \subseteq InPlay(d) /\ cache'[d] = cache[d]
         \/ /\ InPlay(d)' \subseteq InPlay(d) \cup {plan[p].rec, Torn}
            /\ cache'[d] \in {plan[p].rec, Torn}
  BY <1>4 DEF InPlay
<1>6. QED
  <2>1. "write" \in BootSteps
    BY DEF BootSteps
  <2>2. QED
    BY <1>1, <1>3, <1>4, <1>5, <2>1, RepairStep

\* Writing the adopted record puts it in play in the stale copy too.
LEMMA WriteRecordStep ==
    ASSUME StartupInv, NEW p \in Proc, RecoverWrite(p)
    PROVE  StartupInv'
<1> DEFINE c == plan[p].copy  r == plan[p].rec
<1>1. /\ boot[p] = "write" /\ boot[p] \in Repairing
      /\ cache' = [cache EXCEPT ![c] = r] /\ disk' = [disk EXCEPT ![c] = @ \cup {r}]
      /\ boot' = [boot EXCEPT ![p] = "fsync"]
      /\ UNCHANGED <<lock, memory, times, seen, plan>>
  BY DEF RecoverWrite, Repairing
<1>2. /\ c \in Copies /\ r \in Record
      /\ cache \in [Copies -> Contents] /\ disk \in [Copies -> SUBSET Contents]
  BY <1>1, RepairFacts DEF StartupInv, IInv, TypeOK
<1>3. cache' \in [Copies -> Contents] /\ disk' \in [Copies -> SUBSET Contents]
  BY <1>1, <1>2 DEF Contents
<1>4. /\ cache'[c] = r /\ disk'[c] = disk[c] \cup {r}
      /\ \A d \in Copies \ {c} : cache'[d] = cache[d] /\ disk'[d] = disk[d]
  BY <1>1, <1>2
<1>5. \A d \in Copies :
         \/ InPlay(d)' \subseteq InPlay(d) /\ cache'[d] = cache[d]
         \/ /\ InPlay(d)' \subseteq InPlay(d) \cup {r, Torn}
            /\ cache'[d] \in {r, Torn}
  BY <1>4 DEF InPlay
<1>6. QED
  <2>1. "fsync" \in BootSteps
    BY DEF BootSteps
  <2>2. QED
    BY <1>1, <1>3, <1>4, <1>5, <2>1, RepairStep

\* Started alone, the copy always reads back as written once it is synced.
LEMMA SyncRecordStep ==
    ASSUME StartupInv, NEW p \in Proc, RecoverFsync(p)
    PROVE  StartupInv'
<1> DEFINE c == plan[p].copy
<1>1. boot[p] = "fsync" /\ boot[p] \in Repairing
  BY DEF RecoverFsync, Repairing
<1>2. cache[c] = plan[p].rec
  BY <1>1 DEF StartupInv, Planned
<1>3. /\ cache' = cache /\ disk' = [disk EXCEPT ![c] = {cache[c]}]
      /\ boot' = [boot EXCEPT ![p] = "done"]
      /\ UNCHANGED <<lock, memory, times, seen, plan>>
  BY <1>2 DEF RecoverFsync
<1>4. c \in Copies /\ cache \in [Copies -> Contents] /\ disk \in [Copies -> SUBSET Contents]
  BY <1>1, RepairFacts DEF StartupInv, IInv, TypeOK
<1>5. disk' \in [Copies -> SUBSET Contents]
  BY <1>3, <1>4
<1>6. \A d \in Copies : InPlay(d)' \subseteq InPlay(d)
  BY <1>3, <1>4 DEF InPlay
<1>7. QED
  <2>1. "done" \in BootSteps
    BY DEF BootSteps
  <2>2. QED
    BY <1>1, <1>3, <1>4, <1>5, <1>6, <2>1, RepairStep

\* Every step of startup_recover keeps the invariant.
LEMMA RecoverStep ==
    ASSUME Overlap = FALSE, StartupInv, NEW p \in Proc, Recover(p)
    PROVE  StartupInv'
<1>1. CASE RecoverFails(p)
  BY <1>1, RefuseStep DEF RecoverFails
<1>2. QED
  BY <1>1, LaunchStep, ReadAStep, DecideStep, TruncateStep, WriteRecordStep, SyncRecordStep
     DEF Recover

-----------------------------------------------------------------------------
\* While a process is up, or takes the lock, no recovery is under way.
LEMMA NobodyBusy ==
    ASSUME Overlap = FALSE, StartupInv, NEW p \in Proc,
           OpenAfterRecovery(p) \/ OpenUnrecovered(p) \/ Serve(p)
    PROVE  \A q \in Proc : boot[q] \notin Busy
<1>1. CASE OpenAfterRecovery(p)
  BY <1>1 DEF OpenAfterRecovery, StartupInv, Alone, Busy
<1>2. CASE OpenUnrecovered(p)
  BY <1>2 DEF OpenUnrecovered, Busy
<1>3. CASE Serve(p)
  <2>1. phase[p] # "down"
    BY <1>3 DEF Serve, ReconcileConsistent, ReconcileStale, OpenFails, Transaction, Kill,
       Issue, ReserveRange, BeginTransaction, WriteOk, WriteFails, FsyncFails, Persists,
       RepairDone, FirstCopyDone, IntentDone, PreadOk, PreadFails, CommitDone
  <2>2. QED
    BY <2>1 DEF StartupInv, Alone
<1>4. QED
  BY <1>1, <1>2, <1>3

\* The allocator's own steps, with what they leave of the start.
LEMMA AllocatorStep ==
    ASSUME Overlap = FALSE, StartupInv, NEW p \in Proc,
           OpenAfterRecovery(p) \/ OpenUnrecovered(p) \/ Serve(p)
    PROVE  StartupInv' /\ Next
<1>1. Next
  BY DEF OpenAfterRecovery, OpenUnrecovered, Serve, Next, Opening
<1>2. IInv'
  BY <1>1, IInvStep DEF StartupInv
<1>3. UNCHANGED bootVars \/ Refuse(p)
  BY DEF OpenAfterRecovery, OpenUnrecovered, Serve
<1>4. \A q \in Proc : boot[q] \notin Busy
  BY NobodyBusy
<1>5. /\ boot' \in [Proc -> BootSteps] /\ seen' \in [Proc -> Contents]
      /\ plan' \in [Proc -> [copy : Copies, rec : Record]]
      /\ \A q \in Proc : boot'[q] \notin Busy
  <2>1. CASE UNCHANGED bootVars
    BY <1>4, <2>1 DEF bootVars, StartupInv, StartupTypeOK
  <2>2. CASE Refuse(p)
    <3>1. /\ boot' = [boot EXCEPT ![p] = "off"] /\ "off" \in BootSteps /\ "off" \notin Busy
          /\ boot \in [Proc -> BootSteps]
          /\ seen' \in [Proc -> Contents] /\ plan' \in [Proc -> [copy : Copies, rec : Record]]
      BY <2>2, RefuseTypes DEF StartupInv, StartupTypeOK, Busy
    <3>2. QED
      BY <1>4, <3>1
  <2>3. QED
    BY <1>3, <2>1, <2>2
<1>6. Alone' /\ SeenInv' /\ \A q \in Proc : Planned(q)'
  BY <1>5, NothingBusy
<1>7. QED
  BY <1>1, <1>2, <1>5, <1>6 DEF StartupInv, StartupTypeOK, IInv

\* After a power loss nobody is starting.
LEMMA StartupPowerLossStep ==
    ASSUME StartupInv, StartupPowerLoss
    PROVE  StartupInv'
<1>1. IInv'
  BY PowerLossStep DEF StartupInv, StartupPowerLoss
<1>2. /\ boot' \in [Proc -> BootSteps] /\ \A q \in Proc : boot'[q] \notin Busy
  BY DEF StartupPowerLoss, BootSteps, Busy
<1>3. seen' \in [Proc -> Contents] /\ plan' \in [Proc -> [copy : Copies, rec : Record]]
  <2>1. Torn \in Contents /\ NoPlan \in [copy : Copies, rec : Record]
    BY AllocatorAssumption DEF NoPlan, InitRecord, Record, Copies, Contents
  <2>2. QED
    BY <2>1 DEF StartupPowerLoss
<1>4. QED
  BY <1>1, <1>2, <1>3, NothingBusy DEF StartupInv, StartupTypeOK, IInv

\* Every step keeps the invariant.
LEMMA StartupInvStep ==
    ASSUME Overlap = FALSE, StartupInv, [StartupNext]_allVars
    PROVE  StartupInv'
<1>1. CASE UNCHANGED allVars
  <2>1. /\ UNCHANGED vars /\ boot' = boot /\ seen' = seen /\ plan' = plan
    BY <1>1 DEF allVars, bootVars
  <2>2. /\ IInv' /\ TypeOK' /\ cache' = cache /\ phase' = phase
        /\ \A c \in Copies : InPlay(c)' = InPlay(c)
    BY <2>1, VarsKept
  <2>3. ASSUME NEW q \in Proc PROVE Planned(q)'
    <3>1. Sound(plan[q].rec) => Sound(plan[q].rec)'
      BY <2>1 DEF Sound, Canonical, CommitVerified
    <3>2. Planned(q)
      BY DEF StartupInv
    <3>3. QED
      BY <2>1, <2>2, <3>1, <3>2 DEF Planned
  <2>4. Alone' /\ SeenInv'
    BY <2>1, <2>2 DEF StartupInv, Alone, SeenInv
  <2>5. QED
    BY <2>1, <2>2, <2>3, <2>4 DEF StartupInv, StartupTypeOK
<1>2. QED
  BY <1>1, RecoverStep, AllocatorStep, StartupPowerLossStep DEF StartupNext

\* Before the first start the invariant holds.
LEMMA StartupInvInit == StartupInit => StartupInv
<1>1. SUFFICES ASSUME StartupInit PROVE StartupInv
  OBVIOUS
<1>2. IInv
  BY <1>1, IInvInit DEF StartupInit
<1>3. Torn \in Contents /\ NoPlan \in [copy : Copies, rec : Record]
  BY AllocatorAssumption DEF NoPlan, InitRecord, Record, Copies, Contents
<1>4. StartupTypeOK
  BY <1>1, <1>2, <1>3 DEF StartupInit, StartupTypeOK, IInv, BootSteps
<1>5. \A p \in Proc : boot[p] = "off"
  BY <1>1 DEF StartupInit
<1>6. Alone /\ SeenInv /\ \A p \in Proc : Planned(p)
  BY <1>5 DEF Alone, SeenInv, Planned, Busy, Repairing
<1>7. QED
  BY <1>2, <1>4, <1>6 DEF StartupInv

-----------------------------------------------------------------------------
\* Started one at a time, every process finds the copies in order and leaves
\* them so, in recovery (startup_recover) as in service (allocator.rs).
THEOREM StartupInvariance ==
    ASSUME Overlap = FALSE
    PROVE  StartupSpec => []StartupInv
<1>1. StartupInv /\ [StartupNext]_allVars => StartupInv'
  BY StartupInvStep
<1>2. QED
  BY <1>1, StartupInvInit, PTL DEF StartupSpec

\* The record a recovery settled on is at or beyond every pointer the copies
\* may hold, from the decision until the repair is durable: a recovery that
\* runs alone cannot move next back.
THEOREM RecoveryHolds ==
    ASSUME Overlap = FALSE
    PROVE  StartupSpec => []RecoveryAdoptsNewest
<1>1. ASSUME StartupInv PROVE RecoveryAdoptsNewest
  <2>1. StartupTypeOK
    BY <1>1 DEF StartupInv
  <2>2. ASSUME NEW p \in Proc, boot[p] \in Repairing, NEW c \in Copies, NEW x \in InPlay(c),
               x # Torn
        PROVE  x.book = plan[p].rec.book /\ x.next <= plan[p].rec.next
    <3>1. plan[p].rec \in Record /\ x \in Record /\ Le(x, plan[p].rec)
      BY <1>1, <2>2, RepairFacts
    <3>2. QED
      BY <3>1, LeFacts
  <2>3. QED
    BY <2>1, <2>2 DEF RecoveryAdoptsNewest, Repairing
<1>2. QED
  BY <1>1, StartupInvariance, PTL

\* The allocator's invariant, and with it all it promises of the state of the
\* anchors, holds through the recoveries of otp-cli too.
THEOREM StartupAnchors ==
    ASSUME Overlap = FALSE
    PROVE  StartupSpec => [](IInv /\ ReleasedIsDurable /\ ReadIsBurnt /\ OwnStateOpens)
<1>1. StartupInv => IInv /\ ReleasedIsDurable /\ ReadIsBurnt /\ OwnStateOpens
  BY Opens DEF StartupInv, IInv, ProcInv, ReadIsBurnt
<1>2. QED
  BY <1>1, StartupInvariance, PTL

\* A recovery returns no segment: serve and connect, recovery and allocator
\* together, implement the ledger.
THEOREM StartupImplementsLedger ==
    ASSUME Overlap = FALSE
    PROVE  StartupSpec => LedgerSpec
<1>1. StartupInit => Ledger!Init
  BY DEF StartupInit, Init, Ledger!Init, Segments
<1>2. ASSUME StartupInv, [StartupNext]_allVars PROVE [Ledger!Next]_times
  <2>1. ASSUME NEW p \in Proc, Recover(p) PROVE times' = times
    BY <2>1 DEF Recover, Launch, RecoverReadA, RecoverDecide, RecoverTruncate, RecoverWrite,
       RecoverFsync, RecoverFails, vars
  <2>2. ASSUME NEW p \in Proc, OpenAfterRecovery(p) \/ OpenUnrecovered(p) \/ Serve(p)
        PROVE  Next
    BY <1>2, <2>2, AllocatorStep
  <2>3. StartupPowerLoss => Next
    BY DEF StartupPowerLoss, Next
  <2>4. UNCHANGED allVars => times' = times
    BY DEF allVars, vars
  <2>5. QED
    BY <1>2, <2>1, <2>2, <2>3, <2>4, LedgerStep DEF StartupNext, StartupInv
<1>3. QED
  BY <1>1, <1>2, StartupInvariance, PTL DEF StartupSpec, LedgerSpec, Ledger!Spec

\* No segment is returned twice, by any process, across any number of starts,
\* recoveries, kills and power losses.
THEOREM StartupNoReuse ==
    ASSUME Overlap = FALSE
    PROVE  StartupSpec => []NoReuse
<1>1. StartupInit => Once
  BY DEF StartupInit, Init, NoReuse, Once
<1>2. StartupSpec => StartupInit /\ [][Ledger!Next]_times
  BY StartupImplementsLedger, PTL DEF StartupSpec, LedgerSpec, Ledger!Spec
<1>3. Once => NoReuse
  BY DEF Once
<1>4. QED
  BY <1>1, <1>2, <1>3, OnceStep, PTL

\* Short of a power loss no anchor copy is replaced by an older record: the
\* repair goes through a copy cut to nothing, and writes the newest record.
THEOREM StartupAnchorsAdvance ==
    ASSUME Overlap = FALSE
    PROVE  StartupSpec => AnchorsAdvance
<1>1. ASSUME StartupInv, StartupNext PROVE [Advance]_vars
  <2>1. ASSUME NEW p \in Proc, RecoverTruncate(p) \/ RecoverWrite(p) PROVE Advance
    <3>1. boot[p] \in Repairing /\ plan[p].copy \in Copies /\ cache \in [Copies -> Contents]
      BY <1>1, <2>1 DEF RecoverTruncate, RecoverWrite, Repairing, StartupInv, StartupTypeOK,
         TypeOK
    <3>2. \A c \in Copies \ {plan[p].copy} : cache'[c] = cache[c]
      BY <2>1, <3>1 DEF RecoverTruncate, RecoverWrite
    <3>3. cache[plan[p].copy] = Torn \/ cache'[plan[p].copy] = Torn
      <4>1. RecoverTruncate(p) => cache'[plan[p].copy] = Torn
        BY <3>1 DEF RecoverTruncate
      <4>2. RecoverWrite(p) => cache[plan[p].copy] = Torn
        BY <1>1, <3>1 DEF RecoverWrite, StartupInv, Planned
      <4>3. QED
        BY <2>1, <4>1, <4>2
    <3>4. QED
      BY <3>2, <3>3 DEF Advance
  <2>2. ASSUME NEW p \in Proc, Recover(p), ~RecoverTruncate(p), ~RecoverWrite(p)
        PROVE  Advance
    <3>1. cache' = cache
      BY <2>2 DEF Recover, Launch, RecoverReadA, RecoverDecide, RecoverFsync, RecoverFails, vars
    <3>2. QED
      BY <3>1 DEF Advance
  <2>3. ASSUME NEW p \in Proc, OpenAfterRecovery(p) \/ OpenUnrecovered(p) \/ Serve(p)
        PROVE  Next
    BY <1>1, <2>3, AllocatorStep
  <2>4. StartupPowerLoss => Next
    BY DEF StartupPowerLoss, Next
  <2>5. QED
    BY <1>1, <2>1, <2>2, <2>3, <2>4, AdvanceStep DEF StartupNext, StartupInv
<1>2. UNCHANGED allVars => UNCHANGED vars
  BY DEF allVars
<1>3. StartupInv /\ [StartupNext]_allVars => [Advance]_vars
  BY <1>1, <1>2
<1>4. QED
  BY <1>3, StartupInvariance, PTL DEF StartupSpec, AnchorsAdvance, Advance
============================================================================
