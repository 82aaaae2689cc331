-------------------------- MODULE MCActionRouting --------------------------
(***************************************************************************)
(* Instances of ActionRouting with one local provider, reachable both as a *)
(* declarer and as a mux device, and a bridged host.                       *)
(***************************************************************************)
EXTENDS ActionRouting
=============================================================================
