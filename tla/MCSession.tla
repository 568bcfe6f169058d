----------------------------- MODULE MCSession -----------------------------
(* The record layer with a sequence number of a few values for TLC.        *)
EXTENDS Session
============================================================================
