---------------------------- MODULE Allocator ----------------------------
(***************************************************************************)
(* The fail-to-waste segment allocator (crate otp-book, allocator.rs) and  *)
(* the storage it runs on.                                                 *)
(*                                                                         *)
(* Any number of processes open the same book with the same pair of anchor *)
(* files.  The one that obtains the OFD lock on anchor A reconciles the    *)
(* two copies and then issues segments; every write and every fsync of an  *)
(* anchor copy is a step of its own, and each of them can fail.            *)
(*                                                                         *)
(* Storage: cache[c] is what a read of copy c returns, disk[c] the set of  *)
(* contents copy c may have after the machine loses power.  A write adds   *)
(* the new record, and a torn one, to disk[c]; a successful fsync leaves   *)
(* only the record written.  A killed process loses its memory and its     *)
(* lock but not the page cache.                                            *)
(*                                                                         *)
(* Errors that change nothing (Exhausted, InvalidRange, LockUnavailable,   *)
(* PersistenceUncertain from a halted allocator, a book that cannot be     *)
(* opened) are the steps in which nothing happens.                         *)
(***************************************************************************)
EXTENDS AnchorSpec

CONSTANTS
    Proc,           \* processes that may open the allocator
    NoProc,         \* value of lock while nobody holds it
    MyBook,         \* expected_book_id
    MaxRange,       \* largest n passed to reserve_range
    MaxGeneration   \* u64::MAX, at which the generation cannot be advanced

ASSUME AllocatorAssumption ==
    /\ NoProc \notin Proc
    /\ MyBook \in BookIds
    /\ MaxRange \in Nat
    /\ MaxGeneration \in Nat

VARIABLES
    cache,   \* cache[c]: contents of copy c as any process reads them
    disk,    \* disk[c]: contents copy c may have after a power loss
    lock,    \* holder of the exclusive OFD lock on anchor A
    phase,   \* phase[p]: where p is
    at,      \* at[p]: the anchor write or fsync p performs next
    cur,     \* cur[p]: TransactionCore::current
    base,    \* base[p]: first segment of the transaction p is in
    times    \* times[s]: how often segment s was returned to a caller

storage == <<cache, disk>>
memory == <<phase, at, cur, base>>
vars == <<cache, disk, lock, phase, at, cur, base, times>>

Segments == 0 .. SegmentCount - 1

Phases == {"down", "open", "repair", "ready", "intent", "pread", "commit",
           "halted"}

IoStep == [copy : Copies, op : {"write", "fsync"}]

\* What at[p] holds while p performs no I/O.
NoIo == [copy |-> "A", op |-> "write"]

\* The type of every variable: anchors, processes, locks and history.
TypeOK ==
    /\ cache \in [Copies -> Contents]
    /\ disk \in [Copies -> SUBSET Contents]
    /\ lock \in Proc \cup {NoProc}
    /\ phase \in [Proc -> Phases]
    /\ at \in [Proc -> IoStep]
    /\ cur \in [Proc -> Record]
    /\ base \in [Proc -> Nat]
    /\ times \in [Segments -> Nat]

(***************************************************************************)
(* A new installation holds two INIT records, of this book or, when the    *)
(* operator names the wrong files, of another one.                         *)
(***************************************************************************)
Init ==
    /\ cache \in [Copies -> {InitRecord(b) : b \in BookIds}]
    /\ disk = [c \in Copies |-> {cache[c]}]
    /\ lock = NoProc
    /\ phase = [p \in Proc |-> "down"]
    /\ at = [p \in Proc |-> NoIo]
    /\ cur = [p \in Proc |-> InitRecord(MyBook)]
    /\ base = [p \in Proc |-> 0]
    /\ times = [s \in Segments |-> 0]

-----------------------------------------------------------------------------
(***************************************************************************)
(* Opening: Allocator::open and TransactionCore::open.                     *)
(***************************************************************************)

\* Mutant of Open: the lock on anchor A is not waited for.
OpenUnlocked(p) ==
    /\ phase[p] = "down"
    /\ lock' = p
    /\ phase' = [phase EXCEPT ![p] = "open"]
    /\ UNCHANGED <<cache, disk, at, cur, base, times>>

\* The exclusive lock on anchor A is taken before the anchors are read.
Open(p) ==
    /\ phase[p] = "down"
    /\ lock = NoProc
    /\ lock' = p
    /\ phase' = [phase EXCEPT ![p] = "open"]
    /\ UNCHANGED <<cache, disk, at, cur, base, times>>

\* The process ends: its memory is gone and the kernel drops its lock.
Exit(p) ==
    /\ phase' = [phase EXCEPT ![p] = "down"]
    /\ at' = [at EXCEPT ![p] = NoIo]
    /\ cur' = [cur EXCEPT ![p] = InitRecord(MyBook)]
    /\ base' = [base EXCEPT ![p] = 0]
    /\ lock' = IF lock = p THEN NoProc ELSE lock
    /\ UNCHANGED times

\* Everything open checks before it believes the two copies.
Openable(a, b) ==
    /\ Decodes(a) /\ Decodes(b)
    /\ a.book = MyBook /\ b.book = MyBook
    /\ Decidable(a, b)
    /\ Adopted(a, b).next <= SegmentCount
    /\ CommitVerified(Adopted(a, b))

\* The copies agree: no repair is needed.
ReconcileConsistent(p) ==
    /\ phase[p] = "open"
    /\ Openable(cache["A"], cache["B"])
    /\ Consistent(cache["A"], cache["B"])
    /\ cur' = [cur EXCEPT ![p] = cache["A"]]
    /\ phase' = [phase EXCEPT ![p] = "ready"]
    /\ UNCHANGED <<storage, lock, at, base, times>>

\* One copy is stale: the higher record is adopted and written over it.
ReconcileStale(p) ==
    /\ phase[p] = "open"
    /\ Openable(cache["A"], cache["B"])
    /\ ~Consistent(cache["A"], cache["B"])
    /\ cur' = [cur EXCEPT ![p] = Adopted(cache["A"], cache["B"])]
    /\ at' = [at EXCEPT ![p] =
                [copy |-> IF AdoptsOver(cache["A"], cache["B"]) THEN "B" ELSE "A",
                 op |-> "write"]]
    /\ phase' = [phase EXCEPT ![p] = "repair"]
    /\ UNCHANGED <<storage, lock, base, times>>

\* A copy does not decode, the copies contradict each other, or a read of an
\* anchor or of the book fails.
OpenFails(p) ==
    /\ phase[p] = "open"
    /\ Exit(p)
    /\ UNCHANGED storage

-----------------------------------------------------------------------------
(***************************************************************************)
(* issue and reserve_range(n).  Memory advances to the INTENT record       *)
(* before the first write; issue is the transaction of one segment.        *)
(***************************************************************************)

\* Mutant of BeginTransaction: the first segment of the range is the one the
\* previous transaction started with.
BeginStaleBase(p, n) ==
    /\ phase[p] = "ready"
    /\ cur[p].next + n <= SegmentCount
    /\ cur[p].gen < MaxGeneration
    /\ cur' = [cur EXCEPT ![p] =
                 IntentRecord(MyBook, cur[p].gen + 1, cur[p].next + n - 1)]
    /\ at' = [at EXCEPT ![p] = [copy |-> "A", op |-> "write"]]
    /\ phase' = [phase EXCEPT ![p] = "intent"]
    /\ UNCHANGED <<storage, lock, base, times>>

BeginTransaction(p, n) ==
    /\ phase[p] = "ready"
    /\ cur[p].next + n <= SegmentCount
    /\ IF cur[p].gen >= MaxGeneration
       THEN /\ phase' = [phase EXCEPT ![p] = "halted"]
            /\ UNCHANGED <<at, cur, base>>
       ELSE /\ cur' = [cur EXCEPT ![p] =
                         IntentRecord(MyBook, cur[p].gen + 1, cur[p].next + n - 1)]
            /\ base' = [base EXCEPT ![p] = cur[p].next]
            /\ at' = [at EXCEPT ![p] = [copy |-> "A", op |-> "write"]]
            /\ phase' = [phase EXCEPT ![p] = "intent"]
    /\ UNCHANGED <<storage, lock, times>>

Issue(p) == BeginTransaction(p, 1)

ReserveRange(p) == \E n \in 1 .. MaxRange : BeginTransaction(p, n)

\* Mutant of FinalRecord: the hash of the first segment of the range.
FirstHashRecord(p) ==
    CommitRecord(MyBook, cur[p].gen, cur[p].next, SegHash[base[p]])

\* The COMMIT record of the transaction p is in: same generation, same
\* pointer, and the hash of the last segment of the range.
FinalRecord(p) ==
    CommitRecord(MyBook, cur[p].gen, cur[p].next, SegHash[cur[p].next - 1])

\* The record persist_pair (or the repair's persist_one) is writing.
Persisting(p) == IF phase[p] = "commit" THEN FinalRecord(p) ELSE cur[p]

Persists(p) == phase[p] \in {"repair", "intent", "commit"}

\* AnchorMedia::write succeeds: visible at once, durable only after fsync.
WriteOk(p) ==
    LET c == at[p].copy IN
    /\ Persists(p)
    /\ at[p].op = "write"
    /\ cache' = [cache EXCEPT ![c] = Persisting(p)]
    /\ disk' = [disk EXCEPT ![c] = @ \cup {Persisting(p), Torn}]
    /\ at' = [at EXCEPT ![p].op = "fsync"]
    /\ UNCHANGED <<lock, phase, cur, base, times>>

\* Mutant of PersistFails: the transaction is given up, issuing goes on.
PersistFailsAndGoesOn(p) ==
    \/ /\ phase[p] = "repair"
       /\ Exit(p)
    \/ /\ phase[p] \in {"intent", "commit"}
       /\ phase' = [phase EXCEPT ![p] = "ready"]
       /\ UNCHANGED <<lock, at, cur, base, times>>

\* A write or an fsync fails: issuing stops for good, a repair gives up.
PersistFails(p) ==
    \/ /\ phase[p] = "repair"
       /\ Exit(p)
    \/ /\ phase[p] \in {"intent", "commit"}
       /\ phase' = [phase EXCEPT ![p] = "halted"]
       /\ UNCHANGED <<lock, at, cur, base, times>>

\* The write failed after none, some or all of the bytes.
WriteFails(p) ==
    LET c == at[p].copy IN
    /\ Persists(p)
    /\ at[p].op = "write"
    /\ \/ UNCHANGED storage
       \/ \E x \in {Persisting(p), Torn} :
            /\ cache' = [cache EXCEPT ![c] = x]
            /\ disk' = [disk EXCEPT ![c] = @ \cup {x, Torn}]
    /\ PersistFails(p)

FsyncFails(p) ==
    /\ Persists(p)
    /\ at[p].op = "fsync"
    /\ PersistFails(p)
    /\ UNCHANGED storage

\* Mutant of Synced: the fsync is not issued.
NotSynced(p) ==
    /\ at[p].op = "fsync"
    /\ UNCHANGED <<storage, lock, base>>

\* fsync succeeds: the disk holds what a read of the copy returns.
Synced(p) ==
    /\ at[p].op = "fsync"
    /\ disk' = [disk EXCEPT ![at[p].copy] = {cache[at[p].copy]}]
    /\ UNCHANGED <<cache, lock, base>>

\* The repaired copy is synced, read back and compared: the allocator opens
\* only if it reads back as written (a write by a process that does not hold
\* the lock can make it differ).
RepairDone(p) ==
    LET c == at[p].copy IN
    /\ phase[p] = "repair"
    /\ at[p].op = "fsync"
    /\ disk' = [disk EXCEPT ![c] = {cache[c]}]
    /\ IF cache[c] = cur[p]
       THEN /\ phase' = [phase EXCEPT ![p] = "ready"]
            /\ UNCHANGED <<at, cur, base, lock, times>>
       ELSE Exit(p)
    /\ UNCHANGED cache

\* Copy A of the INTENT or of the COMMIT is durable: go on with copy B.
FirstCopyDone(p) ==
    /\ phase[p] \in {"intent", "commit"}
    /\ at[p].copy = "A"
    /\ Synced(p)
    /\ at' = [at EXCEPT ![p] = [copy |-> "B", op |-> "write"]]
    /\ UNCHANGED <<phase, cur, times>>

\* Mutant of IntentDone: copy B of the INTENT is not waited for.
IntentHalfDone(p) ==
    /\ phase[p] = "intent"
    /\ Synced(p)
    /\ phase' = [phase EXCEPT ![p] = "pread"]
    /\ UNCHANGED <<at, cur, times>>

IntentDone(p) ==
    /\ phase[p] = "intent"
    /\ at[p].copy = "B"
    /\ Synced(p)
    /\ phase' = [phase EXCEPT ![p] = "pread"]
    /\ UNCHANGED <<at, cur, times>>

\* The bodies of the whole range are read from the book.
PreadOk(p) ==
    /\ phase[p] = "pread"
    /\ phase' = [phase EXCEPT ![p] = "commit"]
    /\ at' = [at EXCEPT ![p] = [copy |-> "A", op |-> "write"]]
    /\ UNCHANGED <<storage, lock, cur, base, times>>

\* Mutant of PreadFails: the range that could not be read is offered again.
PreadRollsBack(p) ==
    /\ phase[p] = "pread"
    /\ phase' = [phase EXCEPT ![p] = "ready"]
    /\ cur' = [cur EXCEPT ![p].next = base[p]]
    /\ UNCHANGED <<storage, lock, at, base, times>>

\* A body cannot be read: the range is wasted and the allocator goes on.
PreadFails(p) ==
    /\ phase[p] = "pread"
    /\ phase' = [phase EXCEPT ![p] = "ready"]
    /\ UNCHANGED <<storage, lock, at, cur, base, times>>

\* The COMMIT is durable in both copies: the range is returned to the caller.
CommitDone(p) ==
    /\ phase[p] = "commit"
    /\ at[p].copy = "B"
    /\ Synced(p)
    /\ cur' = [cur EXCEPT ![p] = FinalRecord(p)]
    /\ phase' = [phase EXCEPT ![p] = "ready"]
    /\ times' = [s \in Segments |->
                   IF s \in base[p] .. cur[p].next - 1 THEN times[s] + 1
                                                       ELSE times[s]]
    /\ UNCHANGED at

-----------------------------------------------------------------------------
(***************************************************************************)
(* Crashes.                                                                *)
(***************************************************************************)

\* The process is killed, or stops, at any point.
Kill(p) ==
    /\ phase[p] # "down"
    /\ Exit(p)
    /\ UNCHANGED storage

\* The machine loses power: every copy comes back as the disk has it.
PowerLoss ==
    /\ \E x \in [Copies -> UNION {disk[c] : c \in Copies}] :
         /\ \A c \in Copies : x[c] \in disk[c]
         /\ cache' = x
         /\ disk' = [c \in Copies |-> {x[c]}]
    /\ lock' = NoProc
    /\ phase' = [p \in Proc |-> "down"]
    /\ at' = [p \in Proc |-> NoIo]
    /\ cur' = [p \in Proc |-> InitRecord(MyBook)]
    /\ base' = [p \in Proc |-> 0]
    /\ UNCHANGED times

Opening(p) ==
    Open(p) \/ ReconcileConsistent(p) \/ ReconcileStale(p) \/ OpenFails(p)

Transaction(p) ==
    \/ Issue(p) \/ ReserveRange(p)
    \/ WriteOk(p) \/ WriteFails(p) \/ FsyncFails(p)
    \/ RepairDone(p) \/ FirstCopyDone(p)
    \/ IntentDone(p) \/ PreadOk(p) \/ PreadFails(p) \/ CommitDone(p)

Next ==
    \/ \E p \in Proc : Opening(p) \/ Transaction(p) \/ Kill(p)
    \/ PowerLoss

Spec == Init /\ [][Next]_vars

-----------------------------------------------------------------------------
(***************************************************************************)
(* Properties.                                                             *)
(***************************************************************************)

\* What copy c may turn out to hold, read now or after a power loss.
InPlay(c) == disk[c] \cup {cache[c]}

\* The allocator implements the ledger: whatever fails, every range it
\* returns lies beyond everything it (or any earlier process) returned.
Ledger == INSTANCE SegmentLedger
LedgerSpec == Ledger!Spec

\* No segment of the book is returned to a caller twice, by one process or
\* by several, across I/O errors, kills and power losses.
NoReuse == \A s \in Segments : times[s] <= 1

\* Whatever the disks turn out to hold after a power loss, a segment that
\* was returned lies below the pointer of every copy that still decodes.
ReleasedIsDurable ==
    \A s \in Segments : times[s] > 0 =>
        \A c \in Copies : \A x \in InPlay(c) : x # Torn => s < x.next

\* No body is read from the book before the INTENT that burns it is durable
\* in both copies: nothing either disk may hold would offer it again.
Burnt(p) ==
    phase[p] \in {"pread", "commit"} =>
        \A c \in Copies : \A x \in InPlay(c) : x # Torn => x.next >= cur[p].next

ReadIsBurnt == \A p \in Proc : Burnt(p)

\* The allocator never locks itself out: any two readable contents its own
\* writes can leave behind, before or after a power loss, are decided by
\* open (no "same-order-different-bytes", no "order-contradiction", no
\* rejected COMMIT hash).
OwnStateOpens ==
    \A x \in InPlay("A"), y \in InPlay("B") :
        x # Torn /\ y # Torn /\ x.book = MyBook /\ y.book = MyBook
            => Openable(x, y)

\* An anchor copy is never replaced by an older record ("it never moves
\* back"), except by the power loss that uncovers what the disk held.
AnchorsAdvance ==
    [][ \A c \in Copies :
          cache[c] # Torn /\ cache'[c] # Torn /\ cache'[c] # cache[c]
              => Before(cache[c], cache'[c]) \/ PowerLoss ]_vars

\* While a copy cannot be read nothing writes to either copy: a torn anchor
\* is left for the operator, whoever tore it and whoever opens the book next
\* (only a power loss may bring older contents back).
TornIsFrozen ==
    [][ (\E c \in Copies : cache[c] = Torn) => cache' = cache \/ PowerLoss ]_vars

-----------------------------------------------------------------------------
(***************************************************************************)
(* The inductive invariant behind the properties above.                    *)
(***************************************************************************)

\* y is x, or open would adopt y over x.
Le(x, y) == x = y \/ AdoptsOver(y, x)

\* A record that open accepts on its own.
Sound(x) == Canonical(x) /\ x.next <= SegmentCount /\ CommitVerified(x)

\* Only the holder of the lock is up.
LockInv == \A p \in Proc : phase[p] # "down" => lock = p

\* All contents in play are sound, one copy carries one book id, and the
\* cached contents of a copy are its newest.
CopyInv ==
    \A c \in Copies : \A x \in InPlay(c) : x # Torn =>
        /\ Sound(x)
        /\ cache[c] # Torn => Le(x, cache[c])

\* Any two readable contents of this book can be decided.
ChainInv ==
    \A c, d \in Copies : \A x \in InPlay(c), y \in InPlay(d) :
        x # Torn /\ y # Torn /\ x.book = MyBook /\ y.book = MyBook
            => Decidable(x, y)

Serving == {"repair", "ready", "intent", "pread", "commit"}
InTransaction == {"intent", "pread", "commit"}

\* A process that opened the anchors knows the newest record there is.
Newest(p) ==
    phase[p] \in Serving =>
        /\ Sound(cur[p]) /\ cur[p].book = MyBook
        /\ phase[p] \in InTransaction => cur[p].tag = Intent_
        /\ \A c \in Copies : \A x \in InPlay(c) : x # Torn => Le(x, Persisting(p))
        /\ Persists(p) /\ at[p].op = "fsync" => cache[at[p].copy] = Persisting(p)

\* It has not returned anything at or beyond its pointer, nor anything of
\* the range it is working on.
Pointer(p) ==
    phase[p] \in Serving =>
        /\ phase[p] \in InTransaction => base[p] < cur[p].next
        /\ \A s \in Segments : times[s] > 0 =>
             s < IF phase[p] \in InTransaction THEN base[p] ELSE cur[p].next

\* After the first copy of the INTENT is durable, that copy keeps it.
FirstCopy(p) ==
    phase[p] = "intent" /\ at[p].copy = "B" =>
        \A x \in InPlay("A") : x # Torn => x.next >= cur[p].next

ProcInv(p) == Newest(p) /\ Pointer(p) /\ FirstCopy(p) /\ Burnt(p)

\* The inductive invariant: whatever mixture of records a crash may leave in
\* the two copies can be ordered, none of them is above what the process
\* holding the lock knows, and that process never goes below a segment that
\* has been handed out.  `open`, `issue` and `reserve_range` rely on it.
IInv ==
    /\ TypeOK /\ LockInv /\ CopyInv /\ ChainInv /\ ReleasedIsDurable
    /\ \A p \in Proc : ProcInv(p)
==========================================================================
