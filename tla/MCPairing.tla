----------------------------- MODULE MCPairing -----------------------------
(* Instances of Pairing for TLC.                                           *)
EXTENDS Pairing

CONSTANTS t1, t2, d1, d2, k1, k2, c1
=============================================================================
