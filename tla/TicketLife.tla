----------------------------- MODULE TicketLife -----------------------------
(***************************************************************************)
(* What single-use pairing tickets promise (auth/ticket_store.rs): a       *)
(* ticket is claimed at most once, only while it is open, and buys at most *)
(* one credential, which no other ticket buys.                             *)
(***************************************************************************)
CONSTANTS
    Tickets,
    Secrets,
    NoSecret

VARIABLES
    life,       \* ticket -> "none", "open", "claimed", "granted" or "void"
    credential  \* ticket -> the secret it was traded for, NoSecret for none

vars == <<life, credential>>

Init ==
    /\ life = [t \in Tickets |-> "none"]
    /\ credential = [t \in Tickets |-> NoSecret]

Issue(t) ==
    /\ life[t] = "none"
    /\ life' = [life EXCEPT ![t] = "open"]
    /\ UNCHANGED credential

Claim(t) ==
    /\ life[t] = "open"
    /\ life' = [life EXCEPT ![t] = "claimed"]
    /\ UNCHANGED credential

Grant(t, s) ==
    /\ life[t] = "claimed"
    /\ \A u \in Tickets : credential[u] # s
    /\ life' = [life EXCEPT ![t] = "granted"]
    /\ credential' = [credential EXCEPT ![t] = s]

\* Time, an error or a crash ends tickets that bought nothing.
Void(T) ==
    /\ \A t \in T : life[t] \in {"open", "claimed"}
    /\ life' = [t \in Tickets |-> IF t \in T THEN "void" ELSE life[t]]
    /\ UNCHANGED credential

Next ==
    \/ \E t \in Tickets : Issue(t) \/ Claim(t) \/ \E s \in Secrets : Grant(t, s)
    \/ \E T \in SUBSET Tickets : Void(T)

Spec == Init /\ [][Next]_vars
=============================================================================
