---------------------------- MODULE FrameChannel ----------------------------
(***************************************************************************)
(* What FramedStream promises its callers (otp-transport lib.rs), without  *)
(* bytes, buffers or condition variables: in each direction the receiver   *)
(* is given the frames that were sent, whole, once and in order; it is     *)
(* told of a clean end only when it has them all; and after an end or an   *)
(* error it is given nothing more.                                         *)
(***************************************************************************)
EXTENDS Naturals, Sequences

CONSTANTS
    Side,   \* the two ends; direction s is the one s sends in
    Frame   \* frames

VARIABLES
    sent,   \* sent[s]: frames s has begun to send
    got,    \* got[s]: those the other end was given
    state   \* state[s]: of direction s at its receiver: "open", "eof" or "broken"

vars == <<sent, got, state>>

Init ==
    /\ sent = [s \in Side |-> <<>>]
    /\ got = [s \in Side |-> <<>>]
    /\ state = [s \in Side |-> "open"]

Send(s) ==
    /\ \E f \in Frame : sent' = [sent EXCEPT ![s] = Append(@, f)]
    /\ UNCHANGED <<got, state>>

Deliver(s) ==
    /\ state[s] = "open"
    /\ Len(got[s]) < Len(sent[s])
    /\ got' = [got EXCEPT ![s] = Append(@, sent[s][Len(@) + 1])]
    /\ UNCHANGED <<sent, state>>

\* A clean end: nothing that was sent, or begun, is missing.
End(s) ==
    /\ state[s] = "open"
    /\ got[s] = sent[s]
    /\ state' = [state EXCEPT ![s] = "eof"]
    /\ UNCHANGED <<sent, got>>

\* An error: the receiver closes, and what is under way is lost.
Break(s) ==
    /\ state[s] = "open"
    /\ state' = [state EXCEPT ![s] = "broken"]
    /\ UNCHANGED <<sent, got>>

Next == \E s \in Side : Send(s) \/ Deliver(s) \/ End(s) \/ Break(s)

Spec == Init /\ [][Next]_vars
=============================================================================
