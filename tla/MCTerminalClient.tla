-------------------------- MODULE MCTerminalClient --------------------------
(* One client and its connection; see the configuration for the times.     *)
EXTENDS TerminalClient
=============================================================================
