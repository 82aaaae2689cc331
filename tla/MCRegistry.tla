----------------------------- MODULE MCRegistry -----------------------------
(***************************************************************************)
(* Instances of Registry: an interleaved one, in which the router, two     *)
(* disconnect loops and a stop race, and a serialised one with the bridge. *)
(***************************************************************************)
EXTENDS Registry

CONSTANTS c1, c2, c3, c4, uds, ws, p1, p2, d1, d2, a1, a2

AllDeclareA1 == [c \in Conns |-> {a1}]

MixedManifest == [c \in Conns |-> CASE c = c1 -> {a1, a2}
                                    [] c = c4 -> {}
                                    [] OTHER -> {a1}]

OneDevice == [c \in Conns |-> d1]

TwoDevices == [c \in Conns |-> IF c \in {c1, c4} THEN d1 ELSE d2]

TwoLoops == [c \in Conns |-> IF c = c2 THEN ws ELSE uds]
=============================================================================
