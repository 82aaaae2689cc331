---------------------------- MODULE MCSupervisor ----------------------------
(* Instances of Supervisor for TLC.                                        *)
EXTENDS Supervisor

CONSTANTS p1, t1, t2

\* The default restart policy.
MCPolicy == [i \in Ids |-> "on-failure"]
=============================================================================
