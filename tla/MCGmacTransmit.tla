--------------------------- MODULE MCGmacTransmit ---------------------------
(* A small instance of GmacTransmit for TLC. *)
EXTENDS GmacTransmit

CONSTANTS s1, s2, none, f1, f2, big, nothing
=============================================================================
