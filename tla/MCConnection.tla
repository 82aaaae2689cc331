---------------------------- MODULE MCConnection ----------------------------
(* Instances of Connection for TLC.                                        *)
EXTENDS Connection, TLC

CONSTANTS s1, s2, s3, m1, m2, m3

\* Three messages on three streams, one more than the cap; and two messages
\* interleaved on two streams, one of which the third message uses again.
MCStreamIds == {m1 :> s1 @@ m2 :> s2 @@ m3 :> s3,
                m1 :> s1 @@ m2 :> s2 @@ m3 :> s1}
=============================================================================
