----------------------------- MODULE MCLazyWake -----------------------------
(* Instances of LazyWake for TLC.                                          *)
EXTENDS LazyWake
=============================================================================
