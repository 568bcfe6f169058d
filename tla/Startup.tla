------------------------------ MODULE Startup ------------------------------
(***************************************************************************)
(* Starting a serve or a connect (otp-cli run_serve, run_connect): before  *)
(* the allocator takes its lock, startup_recover reads both anchor files,  *)
(* decides (otp-recovery) and repairs a stale copy in place.  No lock is   *)
(* held while it does, so its steps interleave with those of a process     *)
(* that is already serving from the same anchors, and of other starters.   *)
(*                                                                         *)
(* The recovery read of copy A, that of copy B, the truncation of the copy *)
(* to repair, its write and its fsync are steps of their own.              *)
(***************************************************************************)
EXTENDS Allocator

CONSTANT
    Overlap   \* whether a process may be launched while another one is up

ASSUME OverlapAssumption == Overlap \in BOOLEAN

VARIABLES
    boot,   \* boot[p]: where startup_recover of process p is
    seen,   \* seen[p]: contents of copy A as p read them
    plan    \* plan[p]: the copy p repairs and the record it adopted

bootVars == <<boot, seen, plan>>
allVars == <<vars, bootVars>>

BootSteps == {"off", "readA", "readB", "truncate", "write", "fsync", "done"}

NoPlan == [copy |-> "A", rec |-> InitRecord(MyBook)]

StartupTypeOK ==
    /\ TypeOK
    /\ boot \in [Proc -> BootSteps]
    /\ seen \in [Proc -> Contents]
    /\ plan \in [Proc -> [copy : Copies, rec : Record]]

StartupInit ==
    /\ Init
    /\ boot = [p \in Proc |-> "off"]
    /\ seen = [p \in Proc |-> Torn]
    /\ plan = [p \in Proc |-> NoPlan]

-----------------------------------------------------------------------------
\* The process is launched; both anchor files exist and are opened.
Launch(p) ==
    /\ phase[p] = "down"
    /\ boot[p] = "off"
    /\ Overlap \/ \A q \in Proc : phase[q] = "down" /\ boot[q] = "off"
    /\ boot' = [boot EXCEPT ![p] = "readA"]
    /\ UNCHANGED <<vars, seen, plan>>

\* The start is refused, or the process is killed: nothing is left of it.
Refuse(p) ==
    /\ boot' = [boot EXCEPT ![p] = "off"]
    /\ seen' = [seen EXCEPT ![p] = Torn]
    /\ plan' = [plan EXCEPT ![p] = NoPlan]

\* read_verified of copy A; one that does not decode is only kept as such.
RecoverReadA(p) ==
    /\ boot[p] = "readA"
    /\ seen' = [seen EXCEPT ![p] = cache["A"]]
    /\ boot' = [boot EXCEPT ![p] = "readB"]
    /\ UNCHANGED <<vars, plan>>

\* Mutant of RecoverDecide: the decision is read the wrong way round, and the
\* newer copy is repaired from the older one.
RecoverDecideSwapped(p) ==
    LET a == seen[p]
        b == cache["B"]
    IN
    /\ boot[p] = "readB"
    /\ IF ~(Decodes(a) /\ Decodes(b)) \/ ~Decidable(a, b)
       THEN Refuse(p)
       ELSE /\ boot' = [boot EXCEPT ![p] =
                          IF Consistent(a, b) THEN "done" ELSE "truncate"]
            /\ plan' = [plan EXCEPT ![p] =
                          [copy |-> IF AdoptsOver(a, b) THEN "A" ELSE "B",
                           rec  |-> IF AdoptsOver(a, b) THEN b ELSE a]]
            /\ seen' = [seen EXCEPT ![p] = Torn]
    /\ UNCHANGED vars

\* read_verified of copy B and the decision; without a watermark and with the
\* commit verifier that always agrees, nothing but decide can refuse here.
RecoverDecide(p) ==
    LET a == seen[p]
        b == cache["B"]
    IN
    /\ boot[p] = "readB"
    /\ IF ~(Decodes(a) /\ Decodes(b)) \/ ~Decidable(a, b)
       THEN Refuse(p)
       ELSE /\ boot' = [boot EXCEPT ![p] =
                          IF Consistent(a, b) THEN "done" ELSE "truncate"]
            /\ plan' = [plan EXCEPT ![p] =
                          [copy |-> IF AdoptsOver(a, b) THEN "B" ELSE "A",
                           rec  |-> Adopted(a, b)]]
            /\ seen' = [seen EXCEPT ![p] = Torn]
    /\ UNCHANGED vars

\* write_full_and_sync of the stale copy: the file is first cut to nothing,
RecoverTruncate(p) ==
    LET c == plan[p].copy IN
    /\ boot[p] = "truncate"
    /\ cache' = [cache EXCEPT ![c] = Torn]
    /\ disk' = [disk EXCEPT ![c] = @ \cup {Torn}]
    /\ boot' = [boot EXCEPT ![p] = "write"]
    /\ UNCHANGED <<lock, memory, times, seen, plan>>

\* then the adopted record is written,
RecoverWrite(p) ==
    LET c == plan[p].copy IN
    /\ boot[p] = "write"
    /\ cache' = [cache EXCEPT ![c] = plan[p].rec]
    /\ disk' = [disk EXCEPT ![c] = @ \cup {plan[p].rec}]
    /\ boot' = [boot EXCEPT ![p] = "fsync"]
    /\ UNCHANGED <<lock, memory, times, seen, plan>>

\* then synced (whatever the file holds by then), read back and compared.
RecoverFsync(p) ==
    LET c == plan[p].copy IN
    /\ boot[p] = "fsync"
    /\ disk' = [disk EXCEPT ![c] = {cache[c]}]
    /\ IF cache[c] = plan[p].rec
       THEN /\ boot' = [boot EXCEPT ![p] = "done"]
            /\ UNCHANGED <<seen, plan>>
       ELSE Refuse(p)
    /\ UNCHANGED <<cache, lock, memory, times>>

\* A read, write or fsync fails, the process is killed, or the allocator
\* finds the lock taken (LockUnavailable).
RecoverFails(p) ==
    /\ boot[p] # "off"
    /\ phase[p] = "down"
    /\ Refuse(p)
    /\ UNCHANGED vars

Recover(p) ==
    \/ Launch(p) \/ RecoverReadA(p) \/ RecoverDecide(p)
    \/ RecoverTruncate(p) \/ RecoverWrite(p) \/ RecoverFsync(p)
    \/ RecoverFails(p)

-----------------------------------------------------------------------------
\* Allocator::open follows a recovery that succeeded.
OpenAfterRecovery(p) ==
    /\ boot[p] = "done"
    /\ Open(p)
    /\ UNCHANGED bootVars

\* Allocator::open by a user of the crate that recovers nothing first; such
\* processes meet at the lock.
OpenUnrecovered(p) ==
    /\ boot[p] = "off"
    /\ Overlap \/ \A q \in Proc : boot[q] \in {"off", "done"}
    /\ Open(p)
    /\ UNCHANGED bootVars

\* The allocator at work; when it goes down the whole process does.
Serve(p) ==
    /\ \/ ReconcileConsistent(p) \/ ReconcileStale(p) \/ OpenFails(p)
       \/ Transaction(p)
       \/ Kill(p)
    /\ IF phase'[p] = "down" THEN Refuse(p) ELSE UNCHANGED bootVars

StartupPowerLoss ==
    /\ PowerLoss
    /\ boot' = [p \in Proc |-> "off"]
    /\ seen' = [p \in Proc |-> Torn]
    /\ plan' = [p \in Proc |-> NoPlan]

StartupNext ==
    \/ \E p \in Proc : Recover(p) \/ OpenAfterRecovery(p) \/ OpenUnrecovered(p) \/ Serve(p)
    \/ StartupPowerLoss

StartupSpec == StartupInit /\ [][StartupNext]_allVars

-----------------------------------------------------------------------------
(***************************************************************************)
(* Properties.                                                             *)
(***************************************************************************)

\* "No lower record is ever written, so recovery cannot move next back": while
\* one process starts alone, the record its recovery settled on is at or beyond
\* every pointer the copies may hold, until the repair is durable.
RecoveryAdoptsNewest ==
    /\ StartupTypeOK
    /\ \A p \in Proc : boot[p] \in {"truncate", "write", "fsync"} =>
         \A c \in Copies : \A x \in InPlay(c) :
             x # Torn => x.book = plan[p].rec.book /\ x.next <= plan[p].rec.next
=============================================================================
