----------------------------- MODULE MCTerminal -----------------------------
(* Instances of Terminal for TLC: two connections, one terminal. *)
EXTENDS Terminal

CONSTANTS c1, c2
=============================================================================
