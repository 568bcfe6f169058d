----------------------------- MODULE MCStartup -----------------------------
(* Instances of Startup for TLC. *)
EXTENDS Startup, TLC

CONSTANTS p1, p2, p3

MCHash == [i \in 0 .. SegmentCount - 1 |-> i + 7]

Symmetry == Permutations(Proc)

(***************************************************************************)
(* Three starts of one endpoint with storage that never fails: the only    *)
(* misfortune left is that a process may be killed or stop while serving.  *)
(***************************************************************************)
QuietServe(p) ==
    /\ \/ ReconcileConsistent(p) \/ ReconcileStale(p)
       \/ Issue(p) \/ WriteOk(p) \/ RepairDone(p) \/ FirstCopyDone(p)
       \/ IntentDone(p) \/ PreadOk(p) \/ CommitDone(p)
       \/ (phase[p] = "ready" /\ Kill(p))
    /\ IF phase'[p] = "down" THEN Refuse(p) ELSE UNCHANGED bootVars

QuietNext ==
    \E p \in Proc :
        \/ Launch(p) \/ RecoverReadA(p) \/ RecoverDecide(p)
        \/ RecoverTruncate(p) \/ RecoverWrite(p) \/ RecoverFsync(p)
        \/ OpenAfterRecovery(p) \/ QuietServe(p)

QuietSpec == StartupInit /\ [][QuietNext]_allVars
============================================================================
