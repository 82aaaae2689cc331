------------------------------ MODULE MCBridge ------------------------------
(* Instances of Bridge for TLC.                                            *)
EXTENDS Bridge

CONSTANTS c1, c2

\* The relay is skipped, then the host is reached directly.
MCTransports == <<"relay", "direct">>

\* The right secret, a wrong one and none, and a host that does not authenticate.
MCSetups ==
    {[secret |-> Mine, host_auth |-> TRUE, row |-> Mine],
     [secret |-> Mine, host_auth |-> TRUE, row |-> Other],
     [secret |-> 0, host_auth |-> TRUE, row |-> Mine],
     [secret |-> Mine, host_auth |-> FALSE, row |-> Mine]}
=============================================================================
