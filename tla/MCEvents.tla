------------------------------ MODULE MCEvents ------------------------------
(* Instances of Events for TLC.                                            *)
EXTENDS Events

CONSTANT a
=============================================================================
