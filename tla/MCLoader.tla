------------------------------ MODULE MCLoader ------------------------------
(* Three plugins, every graph of requirements: the first is lazy, the      *)
(* second eager and the third lazy but started for the sake of its events. *)
EXTENDS Loader
=============================================================================
