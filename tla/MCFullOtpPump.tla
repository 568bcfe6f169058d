--------------------------- MODULE MCFullOtpPump ---------------------------
(***************************************************************************)
(* Instances of FullOtpPump for TLC.                                       *)
(***************************************************************************)
EXTENDS FullOtpPump

(***************************************************************************)
(* The callers at work: messages are read and answered, low water is       *)
(* reported, a vanished peer is noticed.                                   *)
(***************************************************************************)
ControlFairness ==
    /\ \A r \in Roles : WF_vars(Handle(r)) /\ WF_vars(PeerGone(r))
    /\ WF_vars(ServerPrefetch \/ ServerPrefetchFails)
    /\ WF_vars(ClientNeed) /\ WF_vars(OnNeed) /\ WF_vars(OnAck)
    /\ WF_vars(OnOffer \/ OnOfferFails)

Sends(r) == SendAny(r) \/ SendExhausted(r)

\* Both sides always have something to send.
FairSpec ==
    /\ Spec
    /\ ControlFairness
    /\ \A r \in Roles : WF_vars(Sends(r))

\* Only the server has something to send, and nothing goes wrong.
OneWayNext ==
    \/ \E r \in Roles : Handle(r)
    \/ ServerPrefetch \/ ClientNeed \/ OnNeed \/ OnOffer \/ OnAck
    \/ Sends("server")

OneWaySpec ==
    /\ Init /\ [][OneWayNext]_vars
    /\ ControlFairness
    /\ WF_vars(Sends("server"))
============================================================================
