--------------------------- MODULE MCDoorkeeper ---------------------------
(* Instances of Doorkeeper for TLC. *)
EXTENDS Doorkeeper

CONSTANTS c1, c2
===========================================================================
