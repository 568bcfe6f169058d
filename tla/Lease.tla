------------------------------- MODULE Lease -------------------------------
(***************************************************************************)
(* The write lease of one PTY (crate otp-terminal, lease.rs): a record and *)
(* the operations LeaseManager performs on it while it holds its mutex.    *)
(*                                                                         *)
(* Time is abstracted to the one thing the code asks of it: expired says   *)
(* that more than the lease timeout has passed since last_seen.  Granting  *)
(* and renewing the lease reset it; time sets it at any other moment.      *)
(***************************************************************************)
EXTENDS Integers

CONSTANTS
    Conn,     \* connections
    NoConn    \* no holder yet

LeaseRecord == [token : Nat, holder : Conn \cup {NoConn},
                expired : BOOLEAN, abandoned : BOOLEAN]

NewLease == [token |-> 0, holder |-> NoConn, expired |-> FALSE, abandoned |-> TRUE]

\* acquire refuses while the holder is active.
Busy(l) == l.holder # NoConn /\ ~l.abandoned /\ ~l.expired

\* A grant, or a takeover, increments the fencing token.
Granted(l, c) ==
    [token |-> l.token + 1, holder |-> c, expired |-> FALSE, abandoned |-> FALSE]

\* Mutant of IsCurrent: the token is not compared.
IsActive(l, t) == ~l.abandoned /\ ~l.expired

\* The test of is_current, of heartbeat and of the write gate.
IsCurrent(l, t) == l.token = t /\ ~l.abandoned /\ ~l.expired

Renewed(l) == [l EXCEPT !.expired = FALSE]

\* Mutant of Dropped: a guard that was taken over releases the new lease.
DroppedAny(l, t) == [l EXCEPT !.abandoned = TRUE]

\* Drop of the guard with token t: releases the lease only if it is its own.
Dropped(l, t) == IF l.token = t THEN [l EXCEPT !.abandoned = TRUE] ELSE l
============================================================================
