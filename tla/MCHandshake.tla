---------------------------- MODULE MCHandshake ----------------------------
(***************************************************************************)
(* Instances of Handshake.  k1 holds the server's book; k2 holds a book    *)
(* with another id; k3 a copy of the server's book with other contents.    *)
(***************************************************************************)
EXTENDS Handshake

CONSTANTS k1, k2, k3

Books == [e \in Ends |-> IF e = k2 THEN "otherId" ELSE "id"]
Pads == [e \in Ends |->
            IF e = k2 THEN "otherPad" ELSE IF e = k3 THEN "badPad" ELSE "pad"]
============================================================================
