---------------------------- MODULE PairingProofs ----------------------------
(***************************************************************************)
(* What holds of pairing for every number of tickets, devices, requests,   *)
(* commands and faults: types and the exclusion of the kernel's writers;   *)
(* that tickets are single-use (the refinement of TicketLife); and, while  *)
(* no writes of two processes overlap, that rows are kept and withdrawn    *)
(* devices stay out.                                                       *)
(***************************************************************************)
EXTENDS Pairing, TLAPS, FiniteSetTheorems, WellFoundedInduction

Kinds == {"issue", "revoke", "undo", "remove"}
Row == [sec : 0..MaxSecrets, revoked : BOOLEAN]
Op == [pc : {"idle", "fresh", "read", "create", "write", "rename", "reply"},
       kind : Kinds \cup {None}, dev : Devices \cup {None}, tick : Tickets \cup {None},
       sec : 0..MaxSecrets, rows : [Devices -> Row], fd : Inodes \cup {0}]

\* What an operation has by the time it reads the rows, and while it writes.
OpOK ==
    /\ op \in [Procs -> Op]
    /\ \A p \in Procs :
         /\ op[p].pc # "idle" => op[p].kind \in Kinds
         /\ op[p].pc \notin {"idle", "fresh"} => op[p].dev \in Devices
         /\ op[p].pc \in {"write", "rename"} => op[p].fd \in Inodes

TypeInv == TypeOK /\ OpOK /\ secrets \in 0..MaxSecrets

-----------------------------------------------------------------------------
(* Types.                                                                  *)

\* The empty table, and an idle task, have their types.
LEMMA IdleOK ==
  /\ 0 \in 0..MaxSecrets /\ NoRow \in Row /\ NoRows \in [Devices -> Row] /\ Idle \in Op
  /\ Idle.pc = "idle" /\ Idle.tick = None /\ Idle.sec = 0 /\ Idle.dev = None /\ Idle.fd = 0
<1>1. 0 \in 0..MaxSecrets
  BY PairingAssumption
<1>2. NoRow \in Row
  BY <1>1 DEF NoRow, Row
<1>3. NoRows \in [Devices -> Row]
  BY <1>2 DEF NoRows
<1> QED
  BY <1>1, <1>2, <1>3 DEF Idle, Op, Kinds

\* There is a file for every writer: NewInode finds one.
LEMMA NewInodeOK ==
  ASSUME file \in Inodes, tmp = 0, op \in [Procs -> Op]
  PROVE  NewInode \in Inodes /\ NewInode # file /\ \A p \in Procs : op[p].fd # NewInode
<1> DEFINE F == {op[p].fd : p \in Procs}
           U == {file, tmp} \cup F
           Free == Inodes \ U
<1>1. IsFiniteSet(Procs) /\ Cardinality(Procs) \in Nat
  BY PairingAssumption, FS_CardinalityType
<1>2. IsFiniteSet(Inodes) /\ Cardinality(Inodes) = 2 + Cardinality(Procs)
  BY <1>1, FS_Interval DEF Inodes
<1>3. IsFiniteSet(F) /\ Cardinality(F) <= Cardinality(Procs)
  <2>1. [p \in Procs |-> op[p].fd] \in Surjection(Procs, F)
    BY DEF Surjection
  <2> QED
    BY <1>1, <2>1, FS_Surjection
<1>4. Inodes \cap U \subseteq F \cup {file}
  BY DEF Inodes
<1>5. IsFiniteSet(F \cup {file}) /\ Cardinality(F \cup {file}) <= Cardinality(F) + 1
  <2>1. Cardinality(F) \in Nat
    BY <1>3, FS_CardinalityType
  <2> HIDE DEF F
  <2>2. /\ IsFiniteSet(F \cup {file})
        /\ Cardinality(F \cup {file}) = IF file \in F THEN Cardinality(F) ELSE Cardinality(F) + 1
    BY <1>3, FS_AddElement
  <2> QED
    BY <2>1, <2>2
<1>6. Cardinality(F \cup {file}) <= 1 + Cardinality(Procs)
  BY <1>1, <1>3, <1>5, FS_CardinalityType
<1>7. Free # {}
  <2> SUFFICES ASSUME Free = {} PROVE FALSE
    OBVIOUS
  <2>1. Inodes \subseteq F \cup {file}
    BY <1>4
  <2>2. Cardinality(Inodes) <= Cardinality(F \cup {file})
    BY <2>1, <1>5, FS_Subset
  <2> QED
    BY <2>2, <1>1, <1>2, <1>5, <1>6, FS_CardinalityType
<1>8. Free \subseteq Nat
  BY DEF Inodes
<1>9. \E x \in Free : \A y \in Free : x =< y
  <2>1. PICK x \in Free : \A y \in Free : <<y, x>> \notin OpToRel(<, Nat)
    <3> HIDE DEF Free
    <3> QED
      BY <1>7, <1>8, NatLessThanWellFounded, WFMin
  <2>2. \A y \in Free : x =< y
    <3> SUFFICES ASSUME NEW y \in Free PROVE x =< y
      OBVIOUS
    <3>1. x \in Nat /\ y \in Nat
      BY <1>8
    <3>2. ~(y < x)
      BY <2>1, <3>1 DEF OpToRel
    <3> QED
      BY <3>1, <3>2
  <2> QED
    BY <2>2
<1>10. Min(Free) \in Free
  BY <1>9 DEF Min
<1> QED
  BY <1>10 DEF NewInode

\* A row table with one row changed is a row table.
LEMMA ChangedOK ==
  ASSUME NEW o \in Op, o.dev \in Devices, o.kind \in Kinds, NEW s \in 0..MaxSecrets,
         inode \in [Inodes -> [Devices -> Row]], file \in Inodes
  PROVE  Changed(o, s) \in [Devices -> Row]
<1>1. rows \in [Devices -> Row]
  BY DEF rows
<1>2. [rows EXCEPT ![o.dev] = [sec |-> s, revoked |-> FALSE]] \in [Devices -> Row]
  BY <1>1 DEF Row
<1>3. [rows EXCEPT ![o.dev].revoked = TRUE] \in [Devices -> Row]
  BY <1>1 DEF Row
<1>4. [rows EXCEPT ![o.dev].revoked = FALSE] \in [Devices -> Row]
  BY <1>1 DEF Row
<1>5. [rows EXCEPT ![o.dev] = NoRow] \in [Devices -> Row]
  BY <1>1, IdleOK
<1> QED
  BY <1>1, <1>2, <1>3, <1>4, <1>5 DEF Changed, Kinds

\* Types hold at first.
LEMMA TypeInit == Init => TypeInv
<1> SUFFICES ASSUME Init PROVE TypeInv
  OBVIOUS
<1>1. Cardinality(Procs) \in Nat
  BY PairingAssumption, FS_CardinalityType
<1>2. 1 \in Inodes
  BY <1>1 DEF Inodes
<1>3. OpOK
  BY IdleOK DEF Init, OpOK
<1>4. \A k \in Tasks : ~Writing(k) /\ k # None
  BY IdleOK, PairingAssumption DEF Init, Writing, Procs
<1>5. inode \in [Inodes -> [Devices -> [sec : 0..MaxSecrets, revoked : BOOLEAN]]]
  BY IdleOK DEF Init, Row
<1> QED
  BY <1>2, <1>3, <1>4, <1>5, IdleOK DEF Init, TypeInv, TypeOK, Offline

\* The operations, apart from what they hold: types of the variables that a step
\* of another component leaves alone.
Rest == <<inode, file, tmp, write_lock, op, secrets>>

\* The states of a connection.
Session == [pc : {"none", "upgraded", "checked", "open"}, watch : BOOLEAN, sec : 0..MaxSecrets]

LEMMA OfflineOK == Offline \in Session /\ Offline.pc = "none" /\ 0 \in 0..MaxSecrets
<1>1. 0 \in 0..MaxSecrets
  BY PairingAssumption
<1> QED
  BY <1>1 DEF Offline, Session

\* Every step keeps the types.
LEMMA TypeStep == TypeInv /\ [Next]_vars => TypeInv'
<1> SUFFICES ASSUME TypeInv, [Next]_vars PROVE TypeInv'
  OBVIOUS
<1> USE DEF TypeInv
<1>1. ASSUME NEW t \in Tickets, TicketStep(t) PROVE TypeInv'
  <2>1. UNCHANGED <<Rest, held, session, granted>>
    BY <1>1 DEF TicketStep, IssueTicket, ExpireTicket, AgeTicket, devices_json, history, Rest
  <2>2. ticket' \in [Tickets -> {"none", "open", "used", "swept"}]
    BY <1>1 DEF TicketStep, IssueTicket, ExpireTicket, AgeTicket, create_ticket, issue_at, TypeOK
  <2>3. stale' \subseteq expired' /\ expired' \subseteq Tickets
    BY <1>1 DEF TicketStep, IssueTicket, ExpireTicket, AgeTicket, TypeOK
  <2> QED
    BY <2>1, <2>2, <2>3 DEF TypeOK, OpOK, Rest, Writing
<1>2. ASSUME NEW d \in Devices, SessionStep(d) PROVE TypeInv'
  <2>1. UNCHANGED <<Rest, ticket, stale, expired, held, granted>>
    BY <1>2 DEF SessionStep, Upgrade, RegisterCheck, RegisterAdmit, Recheck, Hangup, devices_json, tickets_json,
       history, Rest
  <2>2. Active(d) \in BOOLEAN
    BY DEF Active
  <2>3. session' \in [Devices -> Session]
    <3>1. Offline \in Session /\ 0 \in 0..MaxSecrets
      BY OfflineOK
    <3>2. CASE Upgrade(d)
      BY <3>2, <2>2 DEF Upgrade, Offline, Session, TypeOK
    <3>3. CASE RegisterCheck(d)
      <4>1. rows[d].sec \in 0..MaxSecrets
        BY DEF rows, TypeOK
      <4> QED
        BY <3>1, <3>3, <4>1 DEF RegisterCheck, Session, TypeOK
    <3>5. CASE RegisterAdmit(d)
      BY <3>1, <3>5 DEF RegisterAdmit, Session, TypeOK
    <3>4. CASE Recheck(d) \/ Hangup(d)
      BY <3>1, <3>4 DEF Recheck, Hangup, Session, TypeOK
    <3> QED
      BY <1>2, <3>2, <3>3, <3>4, <3>5 DEF SessionStep
  <2> QED
    BY <2>1, <2>3 DEF TypeOK, OpOK, Rest, Writing, Session
<1>3. ASSUME NEW s \in Secrets, LapseSecret(s) PROVE TypeInv'
  BY <1>3 DEF LapseSecret, TypeOK, OpOK, Writing, tickets_json, devices_json, history
<1>4. ASSUME NEW p \in Procs, NEW o \in Op,
             op' = [op EXCEPT ![p] = o],
             o.pc # "idle" => o.kind \in Kinds,
             o.pc \notin {"idle", "fresh"} => o.dev \in Devices,
             o.pc \in {"write", "rename"} => o.fd \in Inodes
      PROVE OpOK'
  BY <1>4 DEF OpOK
<1>5. ASSUME NEW p \in Procs, NEW o \in Op, ~Writing(p),
             op' = [op EXCEPT ![p] = o],
             o.pc \notin {"create", "write", "rename"},
             UNCHANGED write_lock
      PROVE \A k \in Tasks : Writing(k)' <=> write_lock' = k
  BY <1>5 DEF Writing, TypeOK, OpOK
<1>6. ASSUME NEW k \in Tasks, NEW t \in Tickets, Burn(k, t) PROVE TypeInv'
  <2> DEFINE o == [Idle EXCEPT !.pc = "fresh", !.kind = "issue", !.tick = t]
  <2>1. o \in Op /\ o.pc = "fresh" /\ o.kind \in Kinds /\ k \in Procs
    BY IdleOK DEF Op, Kinds, Procs
  <2>2. op' = [op EXCEPT ![k] = o] /\ ~Writing(k) /\ UNCHANGED write_lock
    BY <1>6, IdleOK DEF Burn, Writing
  <2>3. OpOK'
    BY <1>4, <2>1, <2>2
  <2>4. \A j \in Tasks : Writing(j)' <=> write_lock' = j
    BY <1>5, <2>1, <2>2
  <2> QED
    BY <1>6, <2>3, <2>4 DEF Burn, TypeOK, devices_json, history
<1>7. ASSUME NEW k \in Tasks, NEW d \in Devices, FreshDevice(k, d) PROVE TypeInv'
  <2> DEFINE o == [op[k] EXCEPT !.pc = "read", !.dev = d]
  <2>1. k \in Procs /\ op[k] \in Op
    BY DEF Procs, OpOK
  <2>2. op' = [op EXCEPT ![k] = o] /\ ~Writing(k) /\ UNCHANGED write_lock
    BY <1>7 DEF FreshDevice, Writing
  <2>3. o \in Op /\ o.pc = "read" /\ o.dev \in Devices /\ o.kind = op[k].kind
    BY <2>1 DEF Op
  <2>4. o.kind \in Kinds
    BY <1>7, <2>1, <2>3 DEF FreshDevice, OpOK
  <2>5. OpOK'
    BY <1>4, <2>1, <2>2, <2>3, <2>4
  <2>6. \A j \in Tasks : Writing(j)' <=> write_lock' = j
    BY <1>5, <2>1, <2>2, <2>3
  <2> QED
    BY <1>7, <2>5, <2>6 DEF FreshDevice, TypeOK, tickets_json, devices_json, history
<1>8. ASSUME NEW c \in Cmds, NEW d \in Devices, NEW kind \in Kinds, Command(c, kind, d)
      PROVE TypeInv'
  <2> DEFINE o == [Idle EXCEPT !.pc = "read", !.kind = kind, !.dev = d]
  <2>1. o \in Op /\ o.pc = "read" /\ o.kind = kind /\ o.dev = d /\ c \in Procs
    BY IdleOK DEF Op, Kinds, Procs
  <2>2. op' = [op EXCEPT ![c] = o] /\ ~Writing(c) /\ UNCHANGED write_lock
    BY <1>8, IdleOK DEF Command, Writing
  <2>3. OpOK'
    BY <1>4, <2>1, <2>2
  <2>4. \A j \in Tasks : Writing(j)' <=> write_lock' = j
    BY <1>5, <2>1, <2>2
  <2> QED
    BY <1>8, <2>3, <2>4 DEF Command, TypeOK, tickets_json, devices_json, history
<1>9. ASSUME NEW p \in Procs, ReadRows(p) PROVE TypeInv'
  <2> DEFINE r == Changed(op[p], secrets')
             s == IF op[p].kind = "issue" THEN secrets' ELSE 0
             o == [op[p] EXCEPT !.pc = "create", !.rows = r, !.sec = s]
  <2>1. op[p] \in Op /\ op[p].pc = "read" /\ op[p].dev \in Devices /\ op[p].kind \in Kinds
    BY <1>9 DEF ReadRows, OpOK
  <2>2. secrets' \in 0..MaxSecrets /\ s \in 0..MaxSecrets
    BY <1>9, IdleOK, PairingAssumption DEF ReadRows
  <2>3. r \in [Devices -> Row]
    BY <2>1, <2>2, ChangedOK DEF TypeOK, Row
  <2>4. o \in Op /\ o.pc = "create" /\ o.dev = op[p].dev /\ o.kind = op[p].kind
    BY <2>1, <2>2, <2>3 DEF Op
  <2>5. op' = [op EXCEPT ![p] = o]
    BY <1>9 DEF ReadRows
  <2>6. OpOK'
    BY <1>4, <2>1, <2>4, <2>5
  <2>7. /\ \A j \in Tasks : Writing(j)' <=> write_lock' = j
        /\ write_lock' \in Tasks \cup {None}
    <3>1. Writing(p)' /\ ~Writing(p)
      BY <2>1, <2>4, <2>5 DEF Writing, OpOK
    <3>2. \A j \in Tasks : j # p => (Writing(j)' <=> Writing(j))
      BY <2>5 DEF Writing, OpOK, Procs
    <3>3. CASE p \in Tasks
      <4>1. write_lock = None /\ write_lock' = p
        BY <1>9, <3>3 DEF ReadRows, Lock
      <4>2. \A j \in Tasks : ~Writing(j)
        BY <4>1, PairingAssumption DEF TypeOK, Procs
      <4> QED
        BY <3>1, <3>2, <3>3, <4>1, <4>2
    <3>4. CASE p \notin Tasks
      BY <1>9, <3>2, <3>4 DEF ReadRows, Lock, TypeOK
    <3> QED
      BY <3>3, <3>4
  <2> QED
    BY <1>9, <2>2, <2>6, <2>7 DEF ReadRows, TypeOK, tickets_json, devices_json
<1>10. ASSUME NEW c \in Procs, NoSuchDevice(c) \/ ConsumeReply(c) \/ ConnectLink(c) PROVE TypeInv'
  <2>1. /\ op' = [op EXCEPT ![c] = Idle] /\ ~Writing(c)
        /\ UNCHANGED <<write_lock, ticket, stale, expired, inode, file, tmp, secrets, session>>
    BY <1>10 DEF NoSuchDevice, ConsumeReply, ConnectLink, Writing, tickets_json, devices_json
  <2>2. OpOK'
    BY <1>4, <2>1, IdleOK
  <2>3. \A j \in Tasks : Writing(j)' <=> write_lock' = j
    BY <1>5, <2>1, IdleOK
  <2>4. op[c] \in Op
    BY DEF OpOK
  <2>5. held' \in [Devices -> 0..MaxSecrets] /\ granted' \in [Tickets -> 0..MaxSecrets]
    BY <1>10, <2>4 DEF NoSuchDevice, ConsumeReply, ConnectLink, history, TypeOK, Op
  <2> QED
    BY <2>1, <2>2, <2>3, <2>5 DEF TypeOK
<1>11. ASSUME NEW p \in Procs, CreateTmp(p) PROVE TypeInv'
  <2>1. PICK i \in Inodes : /\ inode' = [inode EXCEPT ![i] = NoRows]
                            /\ tmp' = i
                            /\ op' = [op EXCEPT ![p].pc = "write", ![p].fd = i]
    BY <1>11, NewInodeOK DEF CreateTmp, TypeOK, OpOK
  <2> DEFINE o == [op[p] EXCEPT !.pc = "write", !.fd = i]
  <2>2. op[p] \in Op /\ op[p].kind \in Kinds /\ op[p].dev \in Devices /\ op[p].pc = "create"
    BY <1>11 DEF CreateTmp, OpOK
  <2>3. /\ o \in Op /\ o.pc = "write" /\ o.fd = i /\ o.kind = op[p].kind /\ o.dev = op[p].dev
        /\ op' = [op EXCEPT ![p] = o]
    BY <2>1, <2>2 DEF Op
  <2>4. OpOK'
    BY <1>4, <2>2, <2>3
  <2>5. \A j \in Tasks : Writing(j)' <=> Writing(j)
    BY <2>2, <2>3 DEF Writing, OpOK
  <2>6. inode' \in [Inodes -> [Devices -> [sec : 0..MaxSecrets, revoked : BOOLEAN]]]
    BY <2>1, IdleOK DEF TypeOK, Row
  <2> QED
    BY <1>11, <2>1, <2>4, <2>5, <2>6 DEF CreateTmp, TypeOK, tickets_json, history
<1>12. ASSUME NEW p \in Procs, WriteTmp(p) PROVE TypeInv'
  <2> DEFINE o == [op[p] EXCEPT !.pc = "rename"]
  <2>1. /\ op[p] \in Op /\ op[p].kind \in Kinds /\ op[p].dev \in Devices /\ op[p].pc = "write"
        /\ op[p].fd \in Inodes
    BY <1>12 DEF WriteTmp, OpOK
  <2>2. /\ o \in Op /\ o.pc = "rename" /\ o.fd = op[p].fd /\ o.kind = op[p].kind
        /\ o.dev = op[p].dev /\ op' = [op EXCEPT ![p] = o]
    BY <1>12, <2>1 DEF WriteTmp, Op
  <2>3. OpOK'
    BY <1>4, <2>1, <2>2
  <2>4. \A j \in Tasks : Writing(j)' <=> Writing(j)
    BY <2>1, <2>2 DEF Writing, OpOK
  <2>5. inode' \in [Inodes -> [Devices -> [sec : 0..MaxSecrets, revoked : BOOLEAN]]]
    BY <1>12, <2>1 DEF WriteTmp, TypeOK, Op, Row
  <2> QED
    BY <1>12, <2>3, <2>4, <2>5 DEF WriteTmp, TypeOK, tickets_json, history
<1>13. ASSUME NEW p \in Procs, NEW o \in Op, op' = [op EXCEPT ![p] = o], Unlock(p),
              o.pc \notin {"create", "write", "rename"}
       PROVE  /\ \A j \in Tasks : Writing(j)' <=> write_lock' = j
              /\ write_lock' \in Tasks \cup {None}
  BY <1>13, PairingAssumption DEF Unlock, Writing, TypeOK, OpOK, Procs
<1>14. ASSUME NEW p \in Procs, RenameTmp(p) PROVE TypeInv'
  <2>1. op[p] \in Op /\ op[p].kind \in Kinds /\ op[p].dev \in Devices
    BY <1>14 DEF RenameTmp, OpOK
  <2> DEFINE o == IF op[p].kind = "issue"
                  THEN [op[p] EXCEPT !.pc = "reply", !.rows = NoRows, !.fd = 0] ELSE Idle
  <2>2. op' = [op EXCEPT ![p] = o]
    BY <1>14 DEF RenameTmp
  <2>3. /\ o \in Op /\ o.pc \in {"reply", "idle"}
        /\ o.pc = "reply" => o.kind \in Kinds /\ o.dev \in Devices
    BY <2>1, IdleOK DEF Op
  <2>4. OpOK'
    BY <1>4, <2>2, <2>3
  <2>5. /\ \A j \in Tasks : Writing(j)' <=> write_lock' = j
        /\ write_lock' \in Tasks \cup {None}
    BY <1>13, <1>14, <2>2, <2>3 DEF RenameTmp
  <2> QED
    BY <1>14, <2>4, <2>5 DEF RenameTmp, TypeOK, tickets_json
<1>15. ASSUME NEW p \in Procs, RenameFails(p) \/ Fail(p) PROVE TypeInv'
  <2>1. op' = [op EXCEPT ![p] = Idle] /\ Unlock(p)
    BY <1>15 DEF RenameFails, Fail
  <2>2. OpOK'
    BY <1>4, <2>1, IdleOK
  <2>3. /\ \A j \in Tasks : Writing(j)' <=> write_lock' = j
        /\ write_lock' \in Tasks \cup {None}
    BY <1>13, <2>1, IdleOK
  <2> QED
    BY <1>15, <2>2, <2>3 DEF RenameFails, Fail, TypeOK, tickets_json, devices_json, history
<1>16. CASE Crash
  <2>1. OpOK'
    BY <1>16, IdleOK DEF Crash, OpOK
  <2>2. \A j \in Tasks : ~Writing(j)' /\ write_lock' # j
    BY <1>16, IdleOK, PairingAssumption DEF Crash, Writing, Procs
  <2>3. session' \in [Devices -> Session]
    BY <1>16, OfflineOK DEF Crash
  <2> QED
    BY <1>16, <2>1, <2>2, <2>3 DEF Crash, Session, TypeOK, tickets_json, devices_json, history
<1>17. CASE UNCHANGED vars
  BY <1>17 DEF vars, tickets_json, devices_json, history, TypeOK, OpOK, Writing
<1> QED
  BY <1>1, <1>2, <1>3, <1>6, <1>7, <1>8, <1>9, <1>10, <1>11, <1>12, <1>14, <1>15, <1>16, <1>17
  DEF Next, StoreStep, Kinds, Procs

\* Types, and the kernel's writers exclude each other.
THEOREM TypeCorrect == Spec => []TypeOK
<1>1. TypeInv => TypeOK
  BY DEF TypeInv
<1> QED
  BY TypeInit, TypeStep, <1>1, PTL DEF Spec

-----------------------------------------------------------------------------
(* Tickets are single-use.                                                 *)

\* A request of the kernel has burned t and not answered yet.
Held(t) == \E k \in Tasks : op[k].tick = t

\* A ticket that a request holds is used, or swept since, and has bought
\* nothing; no two requests hold the same; one that is open is unsold.
TicketInv ==
    /\ \A t \in Tickets : ticket[t] = "none" => t \notin expired
    /\ \A t \in Tickets : ticket[t] \in {"none", "open"} => granted[t] = 0 /\ ~Held(t)
    /\ \A t \in Tickets : Held(t) => granted[t] = 0
    /\ \A j, k \in Tasks : op[j].tick = op[k].tick /\ op[j].tick # None => j = k
    /\ \A k \in Tasks : op[k].pc # "idle" => op[k].tick # None

\* A secret that is on its way is nobody else's and has been handed to nobody.
SecretInv ==
    /\ \A p \in Procs : op[p].sec <= secrets
    /\ \A t \in Tickets : granted[t] <= secrets
    /\ \A p \in Procs, t \in Tickets : op[p].sec # 0 => granted[t] # op[p].sec
    /\ \A p, q \in Procs : op[p].sec # 0 /\ op[p].sec = op[q].sec => p = q
    /\ \A p \in Procs : op[p].pc \in {"create", "write", "rename", "reply"} /\ op[p].kind = "issue"
                          => op[p].sec # 0
    /\ \A p \in Procs : op[p].pc = "reply" => op[p].kind = "issue"

\* Nothing is issued, held or granted at first.
LEMMA TicketInit == Init => TicketInv /\ SecretInv
<1> SUFFICES ASSUME Init PROVE TicketInv /\ SecretInv
  OBVIOUS
<1>1. \A t \in Tickets : ~Held(t)
  BY IdleOK, PairingAssumption DEF Init, Held, Procs
<1>2. TicketInv
  BY <1>1, IdleOK DEF Init, TicketInv, Procs
<1>3. SecretInv
  BY IdleOK DEF Init, SecretInv
<1> QED
  BY <1>2, <1>3

\* A step that leaves tickets and grants alone and gives no request a ticket.
LEMMA TicketKept ==
  ASSUME TypeInv, TicketInv, UNCHANGED <<ticket, expired, granted>>,
         \A k \in Tasks : \/ op'[k].tick = op[k].tick /\ (op'[k].pc # "idle" => op[k].pc # "idle")
                          \/ op'[k].tick = None /\ op'[k].pc = "idle"
  PROVE  TicketInv'
<1>1. \A t \in Tickets : Held(t)' => Held(t)
  BY PairingAssumption DEF Held
<1> QED
  BY <1>1 DEF TicketInv

\* The tickets of requests, and what they have bought, through every step.
LEMMA TicketStepInv == TypeInv /\ TicketInv /\ [Next]_vars => TicketInv'
<1> SUFFICES ASSUME TypeInv, TicketInv, [Next]_vars PROVE TicketInv'
  OBVIOUS
<1>0. op \in [Procs -> Op] /\ Tasks \subseteq Procs /\ Cmds \subseteq Procs /\ Tasks \cap Cmds = {}
  BY PairingAssumption DEF TypeInv, OpOK, Procs
<1>1. ASSUME NEW t \in Tickets, IssueTicket(t) PROVE TicketInv'
  <2>1. UNCHANGED <<expired, op, granted>>
    BY <1>1 DEF IssueTicket, history
  <2>2. \A u \in Tickets : /\ ticket'[u] = "none" => ticket[u] = "none"
                           /\ ticket'[u] = "open" => ticket[u] \in {"open", "none"}
    BY <1>1 DEF IssueTicket, create_ticket, issue_at, TypeInv, TypeOK
  <2> QED
    BY <2>1, <2>2 DEF TicketInv, Held
<1>2. ASSUME NEW t \in Tickets, ExpireTicket(t) \/ AgeTicket(t) PROVE TicketInv'
  BY <1>2 DEF ExpireTicket, AgeTicket, TicketInv, Held, history
<1>3. ASSUME NEW k \in Tasks, NEW t \in Tickets, Burn(k, t) PROVE TicketInv'
  <2>1. ticket[t] = "open" /\ t \notin expired /\ ticket' = [ticket EXCEPT ![t] = "used"]
        /\ UNCHANGED <<expired, granted>>
    BY <1>3 DEF Burn, Consumable, history
  <2>2. /\ op'[k].tick = t /\ op'[k].pc = "fresh"
        /\ \A j \in Tasks : j # k => op'[j] = op[j]
    BY <1>0, <1>3 DEF Burn, Idle
  <2>3. \A u \in Tickets : Held(u)' => Held(u) \/ u = t
    BY <2>2 DEF Held
  <2>4. ~Held(t) /\ granted[t] = 0
    BY <2>1 DEF TicketInv
  <2>5. \A u \in Tickets : /\ ticket'[u] = "none" => ticket[u] = "none"
                           /\ ticket'[u] \in {"none", "open"} => ticket[u] \in {"none", "open"} /\ u # t
    BY <2>1 DEF TypeInv, TypeOK
  <2>6. \A i, j \in Tasks : op'[i].tick = op'[j].tick /\ op'[i].tick # None => i = j
    BY <2>2, <2>4 DEF TicketInv, Held
  <2>7. \A i \in Tasks : op'[i].pc # "idle" => op'[i].tick # None
    BY <2>2, PairingAssumption DEF TicketInv
  <2> QED
    BY <2>1, <2>3, <2>4, <2>5, <2>6, <2>7 DEF TicketInv
<1>4. ASSUME NEW k \in Tasks, ConsumeReply(k) PROVE TicketInv'
  <2>1. /\ UNCHANGED <<ticket, expired>>
        /\ granted' = [granted EXCEPT ![op[k].tick] = op[k].sec]
        /\ op'[k] = Idle /\ \A j \in Tasks : j # k => op'[j] = op[j]
    BY <1>0, <1>4 DEF ConsumeReply, tickets_json
  <2>2. op[k].tick # None /\ Held(op[k].tick)
    BY <1>4 DEF ConsumeReply, TicketInv, Held
  <2>3. \A u \in Tickets : Held(u)' => Held(u) /\ u # op[k].tick
    BY <2>1, <2>2, IdleOK, PairingAssumption DEF Held, TicketInv
  <2>4. \A u \in Tickets : u # op[k].tick => granted'[u] = granted[u]
    BY <2>1 DEF TypeInv, TypeOK
  <2>5. \A u \in Tickets : ticket[u] \in {"none", "open"} => u # op[k].tick
    BY <2>2 DEF TicketInv
  <2>6. \A j \in Tasks : op'[j].pc # "idle" => op'[j].tick # None
    BY <2>1, IdleOK DEF TicketInv
  <2>7. \A i, j \in Tasks : op'[i].tick = op'[j].tick /\ op'[i].tick # None => i = j
    BY <2>1, IdleOK DEF TicketInv
  <2> QED
    BY <2>1, <2>3, <2>4, <2>5, <2>6, <2>7 DEF TicketInv
<1>5. ASSUME NEW k \in Tasks, NEW d \in Devices, FreshDevice(k, d) PROVE TicketInv'
  BY <1>0, <1>5, TicketKept DEF FreshDevice, tickets_json, history, Op
<1>6. ASSUME NEW c \in Cmds, NoSuchDevice(c) \/ ConnectLink(c) PROVE TicketInv'
  BY <1>0, <1>6, TicketKept DEF NoSuchDevice, ConnectLink, tickets_json, history
<1>7. ASSUME NEW c \in Cmds, NEW kind \in Kinds, NEW d \in Devices, Command(c, kind, d)
      PROVE TicketInv'
  BY <1>0, <1>7, TicketKept DEF Command, tickets_json, history
<1>8. ASSUME NEW p \in Procs, ReadRows(p) \/ CreateTmp(p) \/ WriteTmp(p) PROVE TicketInv'
  <2>1. \A k \in Tasks : op'[k].tick = op[k].tick /\ (op'[k].pc # "idle" => op[k].pc # "idle")
    BY <1>0, <1>8 DEF ReadRows, CreateTmp, WriteTmp, Op
  <2> QED
    BY <1>8, <2>1, TicketKept DEF ReadRows, CreateTmp, WriteTmp, tickets_json, history
<1>9. ASSUME NEW p \in Procs, RenameTmp(p) PROVE TicketInv'
  <2>1. \A k \in Tasks : \/ op'[k].tick = op[k].tick /\ (op'[k].pc # "idle" => op[k].pc # "idle")
                         \/ op'[k] = Idle
    BY <1>0, <1>9 DEF RenameTmp, Op
  <2> QED
    BY <1>9, <2>1, IdleOK, TicketKept DEF RenameTmp, tickets_json
<1>10. ASSUME NEW p \in Procs, RenameFails(p) \/ Fail(p) PROVE TicketInv'
  <2>1. \A k \in Tasks : op'[k] = op[k] \/ op'[k] = Idle
    BY <1>0, <1>10 DEF RenameFails, Fail
  <2> QED
    BY <1>10, <2>1, IdleOK, TicketKept DEF RenameFails, Fail, tickets_json, history
<1>11. CASE Crash
  <2>1. \A k \in Tasks : op'[k] = Idle
    BY <1>0, <1>11 DEF Crash
  <2> QED
    BY <1>11, <2>1, IdleOK, TicketKept DEF Crash, tickets_json, history
<1>12. ASSUME NEW d \in Devices, SessionStep(d) PROVE TicketInv'
  BY <1>12, TicketKept DEF SessionStep, Upgrade, RegisterCheck, RegisterAdmit, Recheck, Hangup, tickets_json, history
<1>13. ASSUME NEW s \in Secrets, LapseSecret(s) PROVE TicketInv'
  BY <1>13, TicketKept DEF LapseSecret, tickets_json, history
<1>14. CASE UNCHANGED vars
  BY <1>14, TicketKept DEF vars, tickets_json, history
<1> QED
  BY <1>1, <1>2, <1>3, <1>4, <1>5, <1>6, <1>7, <1>8, <1>9, <1>10, <1>11, <1>12, <1>13, <1>14
  DEF Next, TicketStep, StoreStep, Kinds

\* A step that makes no secret and hands none out.
LEMMA SecretKept ==
  ASSUME TypeInv, SecretInv, UNCHANGED <<secrets, granted>>,
         \A p \in Procs :
           \/ op'[p].sec = op[p].sec /\ op'[p].pc = op[p].pc /\ op'[p].kind = op[p].kind
           \/ /\ op'[p].sec = op[p].sec /\ op'[p].kind = op[p].kind
              /\ op[p].pc \in {"create", "write", "rename"}
              /\ op'[p].pc \in {"write", "rename"} \/ (op'[p].pc = "reply" /\ op[p].kind = "issue")
           \/ /\ op'[p].sec = op[p].sec \/ op'[p].sec = 0
              /\ op'[p].pc \in {"idle", "fresh", "read"}
  PROVE  SecretInv'
<1>1. /\ \A p \in Procs : op'[p].sec = op[p].sec \/ op'[p].sec = 0
      /\ secrets \in Nat
  BY PairingAssumption DEF TypeInv
<1>2. \A p \in Procs : op'[p].sec <= secrets
  BY <1>1 DEF SecretInv
<1>3. /\ \A p \in Procs : op'[p].pc \in {"create", "write", "rename", "reply"}
                            /\ op'[p].kind = "issue" => op'[p].sec # 0
      /\ \A p \in Procs : op'[p].pc = "reply" => op'[p].kind = "issue"
  BY DEF SecretInv
<1> QED
  BY <1>1, <1>2, <1>3 DEF SecretInv

\* Secrets are fresh, and what a request carries stays its own.
LEMMA SecretStepInv == TypeInv /\ SecretInv /\ [Next]_vars => SecretInv'
<1> SUFFICES ASSUME TypeInv, SecretInv, [Next]_vars PROVE SecretInv'
  OBVIOUS
<1>0. op \in [Procs -> Op] /\ Tasks \subseteq Procs /\ Cmds \subseteq Procs
  BY PairingAssumption DEF TypeInv, OpOK, Procs
<1>1. ASSUME NEW t \in Tickets, TicketStep(t) PROVE SecretInv'
  BY <1>1, SecretKept DEF TicketStep, IssueTicket, ExpireTicket, AgeTicket, history
<1>2. ASSUME NEW k \in Tasks, NEW t \in Tickets, Burn(k, t) PROVE SecretInv'
  <2>1. /\ op'[k].sec = 0 /\ op'[k].pc = "fresh"
        /\ \A j \in Procs : j # k => op'[j] = op[j]
    BY <1>0, <1>2 DEF Burn, Idle
  <2> QED
    BY <1>2, <2>1, SecretKept DEF Burn, history
<1>3. ASSUME NEW k \in Tasks, NEW d \in Devices, FreshDevice(k, d) PROVE SecretInv'
  <2>1. /\ op'[k].sec = op[k].sec /\ op'[k].pc = "read"
        /\ \A j \in Procs : j # k => op'[j] = op[j]
    BY <1>0, <1>3 DEF FreshDevice, Op
  <2> QED
    BY <1>3, <2>1, SecretKept DEF FreshDevice, history
<1>4. ASSUME NEW c \in Cmds, NEW kind \in Kinds, NEW d \in Devices, Command(c, kind, d)
      PROVE SecretInv'
  <2>1. /\ op'[c].sec = 0 /\ op'[c].pc = "read"
        /\ \A j \in Procs : j # c => op'[j] = op[j]
    BY <1>0, <1>4 DEF Command, Idle
  <2> QED
    BY <1>4, <2>1, SecretKept DEF Command, history
<1>5. ASSUME NEW p \in Procs, ReadRows(p) PROVE SecretInv'
  <2>1. /\ op[p].pc = "read" /\ op'[p].pc = "create" /\ op'[p].kind = op[p].kind
        /\ op'[p].sec = IF op[p].kind = "issue" THEN secrets' ELSE 0
        /\ secrets' = IF op[p].kind = "issue" THEN secrets + 1 ELSE secrets
        /\ \A j \in Procs : j # p => op'[j] = op[j]
        /\ UNCHANGED granted
    BY <1>0, <1>5 DEF ReadRows, Op
  <2>2. secrets \in Nat /\ secrets' \in Nat /\ secrets <= secrets'
    BY <2>1, PairingAssumption DEF TypeInv
  <2>3. \A j \in Procs : op[j].sec \in Nat
    BY <1>0, PairingAssumption DEF Op
  <2>4. \A t \in Tickets : granted[t] \in Nat
    BY PairingAssumption DEF TypeInv, TypeOK
  <2>5. CASE op[p].kind = "issue"
    <3>1. \A j \in Procs : j # p => op'[j].sec < op'[p].sec
      BY <2>1, <2>2, <2>3, <2>5 DEF SecretInv
    <3>2. \A t \in Tickets : granted[t] < op'[p].sec
      BY <2>1, <2>2, <2>4, <2>5 DEF SecretInv
    <3>3. \A j \in Procs : op'[j].sec <= secrets'
      BY <2>1, <2>2, <2>3, <2>5 DEF SecretInv
    <3>4. \A t \in Tickets : granted'[t] <= secrets'
      BY <2>1, <2>2, <2>4, <2>5 DEF SecretInv
    <3>5. op'[p].sec # 0
      BY <2>1, <2>2, <2>5, PairingAssumption DEF TypeInv
    <3>6. \A j \in Procs, t \in Tickets : op'[j].sec # 0 => granted'[t] # op'[j].sec
      <4> SUFFICES ASSUME NEW j \in Procs, NEW t \in Tickets, op'[j].sec # 0
                   PROVE  granted[t] # op'[j].sec
        BY <2>1
      <4>1. CASE j = p
        BY <2>4, <3>2, <4>1
      <4>2. CASE j # p
        BY <2>1, <4>2 DEF SecretInv
      <4> QED
        BY <4>1, <4>2
    <3>7. \A i, j \in Procs : op'[i].sec # 0 /\ op'[i].sec = op'[j].sec => i = j
      <4> SUFFICES ASSUME NEW i \in Procs, NEW j \in Procs, op'[i].sec # 0, i # j,
                          op'[i].sec = op'[j].sec
                   PROVE  FALSE
        OBVIOUS
      <4>1. op'[p].sec \in Nat
        BY <2>1, <2>2, <2>5
      <4>2. CASE i = p
        BY <2>1, <2>3, <3>1, <4>1, <4>2
      <4>3. CASE j = p
        BY <2>1, <2>3, <3>1, <4>1, <4>3
      <4>4. CASE i # p /\ j # p
        BY <2>1, <4>4 DEF SecretInv
      <4> QED
        BY <4>2, <4>3, <4>4
    <3>8. /\ \A j \in Procs : op'[j].pc \in {"create", "write", "rename", "reply"}
                                /\ op'[j].kind = "issue" => op'[j].sec # 0
          /\ \A j \in Procs : op'[j].pc = "reply" => op'[j].kind = "issue"
      BY <2>1, <3>5 DEF SecretInv
    <3> QED
      BY <3>3, <3>4, <3>6, <3>7, <3>8 DEF SecretInv
  <2>6. CASE op[p].kind # "issue"
    <3>1. \A j \in Procs : op'[j].sec = op[j].sec \/ op'[j].sec = 0
      BY <2>1, <2>6
    <3>2. \A j \in Procs : op'[j].sec <= secrets
      BY <2>2, <3>1 DEF SecretInv
    <3>3. /\ \A j \in Procs : op'[j].pc \in {"create", "write", "rename", "reply"}
                                /\ op'[j].kind = "issue" => op'[j].sec # 0
          /\ \A j \in Procs : op'[j].pc = "reply" => op'[j].kind = "issue"
      BY <2>1, <2>6 DEF SecretInv
    <3> QED
      BY <2>1, <2>6, <3>1, <3>2, <3>3 DEF SecretInv
  <2> QED
    BY <2>5, <2>6
<1>6. ASSUME NEW p \in Procs, CreateTmp(p) \/ WriteTmp(p) PROVE SecretInv'
  <2>1. /\ \A j \in Procs : j # p => op'[j] = op[j]
        /\ UNCHANGED <<secrets, granted>>
    BY <1>0, <1>6 DEF CreateTmp, WriteTmp, history
  <2>2. CASE CreateTmp(p)
    <3>1. /\ op'[p].sec = op[p].sec /\ op'[p].kind = op[p].kind
          /\ op[p].pc = "create" /\ op'[p].pc = "write"
      BY <1>0, <2>2 DEF CreateTmp, Op
    <3> QED
      BY <2>1, <3>1, SecretKept
  <2>3. CASE WriteTmp(p)
    <3>1. /\ op'[p].sec = op[p].sec /\ op'[p].kind = op[p].kind
          /\ op[p].pc = "write" /\ op'[p].pc = "rename"
      BY <1>0, <2>3 DEF WriteTmp, Op
    <3> QED
      BY <2>1, <3>1, SecretKept
  <2> QED
    BY <1>6, <2>2, <2>3
<1>7. ASSUME NEW p \in Procs, RenameTmp(p) PROVE SecretInv'
  <2>1. /\ op[p].pc = "rename" /\ UNCHANGED <<secrets, granted>>
        /\ \A j \in Procs : j # p => op'[j] = op[j]
        /\ op[p].kind = "issue" => /\ op'[p].pc = "reply" /\ op'[p].kind = "issue"
                                   /\ op'[p].sec = op[p].sec
        /\ op[p].kind # "issue" => op'[p] = Idle
    BY <1>0, <1>7 DEF RenameTmp, Op
  <2> QED
    BY <2>1, IdleOK, SecretKept
<1>8. ASSUME NEW p \in Procs, NoSuchDevice(p) \/ ConnectLink(p) \/ RenameFails(p) \/ Fail(p)
      PROVE SecretInv'
  <2>1. op'[p] = Idle /\ \A j \in Procs : j # p => op'[j] = op[j]
    BY <1>0, <1>8 DEF NoSuchDevice, ConnectLink, RenameFails, Fail
  <2> QED
    BY <1>8, <2>1, IdleOK, SecretKept DEF NoSuchDevice, ConnectLink, RenameFails, Fail, history
<1>9. ASSUME NEW k \in Tasks, ConsumeReply(k) PROVE SecretInv'
  <2>1. /\ op[k].pc = "reply" /\ op'[k] = Idle /\ \A j \in Procs : j # k => op'[j] = op[j]
        /\ granted' = [granted EXCEPT ![op[k].tick] = op[k].sec] /\ UNCHANGED secrets
    BY <1>0, <1>9 DEF ConsumeReply
  <2>2. \A t \in Tickets : granted'[t] = granted[t] \/ granted'[t] = op[k].sec
    BY <2>1 DEF TypeInv, TypeOK
  <2>3. op[k].sec # 0 /\ op[k].sec <= secrets
    BY <1>0, <2>1 DEF SecretInv
  <2>4. \A j \in Procs, t \in Tickets : op'[j].sec # 0 => granted'[t] # op'[j].sec
    BY <1>0, <2>1, <2>2, <2>3, IdleOK DEF SecretInv
  <2>5. /\ \A j \in Procs : op'[j].sec <= secrets
        /\ \A i, j \in Procs : op'[i].sec # 0 /\ op'[i].sec = op'[j].sec => i = j
        /\ \A j \in Procs : op'[j].pc \in {"create", "write", "rename", "reply"}
                              /\ op'[j].kind = "issue" => op'[j].sec # 0
        /\ \A j \in Procs : op'[j].pc = "reply" => op'[j].kind = "issue"
    <3>1. secrets \in Nat
      BY PairingAssumption DEF TypeInv
    <3> QED
      BY <2>1, <3>1, IdleOK DEF SecretInv
  <2> QED
    BY <2>1, <2>2, <2>3, <2>4, <2>5 DEF SecretInv
<1>10. CASE Crash
  <2>1. \A p \in Procs : op'[p] = Idle \/ op'[p] = op[p]
    BY <1>0, <1>10 DEF Crash
  <2> QED
    BY <1>10, <2>1, IdleOK, SecretKept DEF Crash, history
<1>11. ASSUME NEW d \in Devices, SessionStep(d) PROVE SecretInv'
  BY <1>11, SecretKept DEF SessionStep, Upgrade, RegisterCheck, RegisterAdmit, Recheck, Hangup, history
<1>12. ASSUME NEW s \in Secrets, LapseSecret(s) PROVE SecretInv'
  BY <1>12, SecretKept DEF LapseSecret, history
<1>13. CASE UNCHANGED vars
  BY <1>13, SecretKept DEF vars, history
<1> QED
  BY <1>0, <1>1, <1>2, <1>3, <1>4, <1>5, <1>6, <1>7, <1>8, <1>9, <1>10, <1>11, <1>12, <1>13
  DEF Next, StoreStep, Kinds

\* Where a ticket stands, by what the store, the requests and the history say.
LifeTable ==
    \A t \in Tickets :
      /\ Life(t) \in {"none", "open", "claimed", "granted", "void"}
      /\ Life(t) = "none" <=> ticket[t] = "none"
      /\ Life(t) = "open" <=> ticket[t] = "open" /\ t \notin expired
      /\ Life(t) = "granted" <=> granted[t] # 0
      /\ Life(t) = "claimed" <=> Held(t)

\* The cases of Life exclude each other.
LEMMA LifeIs == TypeInv /\ TicketInv => LifeTable
  BY DEF LifeTable, Life, Held, TicketInv, TypeInv, TypeOK

\* A step that moves no ticket and hands out no secret stutters.
LEMMA LifeKept ==
  ASSUME UNCHANGED <<ticket, expired, granted>>, \A t \in Tickets : Held(t)' <=> Held(t)
  PROVE  UNCHANGED Abstract!vars
<1>1. \A t \in Tickets : Life(t)' = Life(t)
  BY DEF Life, Held
<1> QED
  BY <1>1 DEF Abstract!vars

\* A step after which some requests have dropped their tickets voids those.
LEMMA TicketsDropped ==
  ASSUME TypeInv, TicketInv, TypeInv', TicketInv', UNCHANGED <<ticket, expired, granted>>,
         \A t \in Tickets : Held(t)' => Held(t)
  PROVE  Abstract!Next
<1> DEFINE T == {t \in Tickets : Held(t) /\ ~Held(t)'}
<1>1. \A t \in T : Life(t) = "claimed"
  BY LifeIs DEF LifeTable
<1>2. \A t \in Tickets : Life(t)' = IF t \in T THEN "void" ELSE Life(t)
  <2> SUFFICES ASSUME NEW t \in Tickets PROVE Life(t)' = IF t \in T THEN "void" ELSE Life(t)
    OBVIOUS
  <2>1. CASE t \in T
    <3>1. ~Held(t)' /\ granted'[t] = 0 /\ ticket'[t] \notin {"none", "open"}
      BY <2>1 DEF TicketInv
    <3> QED
      BY <2>1, <3>1 DEF Life, Held
  <2>2. CASE t \notin T
    BY <2>2 DEF Life, Held
  <2> QED
    BY <2>1, <2>2
<1>3. T \in SUBSET Tickets
  OBVIOUS
<1>4. Abstract!Void(T)
  BY <1>1, <1>2 DEF Abstract!Void
<1> QED
  BY <1>3, <1>4 DEF Abstract!Next

\* Every step of the tickets, requests and commands is a step of a single-use
\* ticket, or none.
LEMMA SingleUseStep ==
  TypeInv /\ TicketInv /\ SecretInv /\ TypeInv' /\ TicketInv' /\ [Next]_vars
    => [Abstract!Next]_(Abstract!vars)
<1> SUFFICES ASSUME TypeInv, TicketInv, SecretInv, TypeInv', TicketInv', [Next]_vars
             PROVE  Abstract!Next \/ UNCHANGED Abstract!vars
  OBVIOUS
<1>0. op \in [Procs -> Op] /\ Tasks \subseteq Procs /\ Cmds \subseteq Procs /\ Tasks \cap Cmds = {}
  BY PairingAssumption DEF TypeInv, OpOK, Procs
<1>l. LifeTable /\ LifeTable'
  BY LifeIs, PTL
<1>1. ASSUME NEW t \in Tickets, IssueTicket(t) PROVE Abstract!Next
  <2>1. UNCHANGED <<expired, granted>> /\ \A u \in Tickets : Held(u)' <=> Held(u)
    BY <1>1 DEF IssueTicket, history, Held
  <2>2. ticket[t] = "none" /\ t \notin expired /\ ticket'[t] = "open"
    BY <1>1 DEF IssueTicket, create_ticket, issue_at, TicketInv
  <2>3. \A u \in Tickets : u # t => \/ ticket'[u] = ticket[u]
                                    \/ /\ u \in expired /\ ticket'[u] = "swept"
                                       /\ ticket[u] # "none"
    BY <1>1 DEF IssueTicket, create_ticket, issue_at, TypeInv, TypeOK, TicketInv
  <2>4. Life(t) = "none" /\ Life(t)' = "open"
    BY <1>l, <2>1, <2>2 DEF LifeTable
  <2>5. \A u \in Tickets : u # t => Life(u)' = Life(u)
    <3> SUFFICES ASSUME NEW u \in Tickets, u # t PROVE Life(u)' = Life(u)
      OBVIOUS
    <3>1. CASE ticket'[u] = ticket[u]
      BY <2>1, <3>1 DEF Life, Held
    <3>2. CASE u \in expired /\ ticket'[u] = "swept" /\ ticket[u] # "none"
      BY <2>1, <3>2 DEF Life, Held
    <3> QED
      BY <2>3, <3>1, <3>2
  <2>6. Abstract!Issue(t)
    BY <2>1, <2>4, <2>5 DEF Abstract!Issue
  <2> QED
    BY <2>6 DEF Abstract!Next
<1>2. ASSUME NEW t \in Tickets, ExpireTicket(t) PROVE Abstract!Next \/ UNCHANGED Abstract!vars
  <2>1. /\ UNCHANGED <<ticket, granted>> /\ expired' = expired \cup {t}
        /\ \A u \in Tickets : Held(u)' <=> Held(u)
        /\ ticket[t] \in {"open", "used"} /\ t \notin expired
    BY <1>2 DEF ExpireTicket, history, Held
  <2>2. \A u \in Tickets : u # t => Life(u)' = Life(u)
    BY <2>1 DEF Life, Held
  <2>3. CASE ticket[t] = "open"
    <3>1. granted[t] = 0 /\ ~Held(t)'
      BY <2>1, <2>3 DEF TicketInv
    <3>2. Life(t) = "open" /\ Life(t)' = "void"
      BY <2>1, <2>3, <3>1 DEF Life, Held
    <3>3. Abstract!Void({t})
      BY <2>1, <2>2, <3>2 DEF Abstract!Void
    <3> QED
      BY <3>3 DEF Abstract!Next
  <2>4. CASE ticket[t] = "used"
    <3>1. Life(t)' = Life(t)
      BY <2>1, <2>4 DEF Life, Held
    <3> QED
      BY <2>1, <2>2, <3>1 DEF Abstract!vars
  <2> QED
    BY <2>1, <2>3, <2>4
<1>3. ASSUME NEW k \in Tasks, NEW t \in Tickets, Burn(k, t) PROVE Abstract!Next
  <2>1. ticket[t] = "open" /\ t \notin expired /\ ticket' = [ticket EXCEPT ![t] = "used"]
        /\ UNCHANGED <<expired, granted>>
    BY <1>3 DEF Burn, Consumable, history
  <2>2. /\ op[k].tick = None /\ op'[k].tick = t
        /\ \A j \in Tasks : j # k => op'[j] = op[j]
    BY <1>0, <1>3 DEF Burn, Idle
  <2>3. Held(t)' /\ \A u \in Tickets : u # t => (Held(u)' <=> Held(u))
    BY <2>2, PairingAssumption DEF Held
  <2>4. \A u \in Tickets : u # t => ticket'[u] = ticket[u]
    BY <2>1 DEF TypeInv, TypeOK
  <2>5. Life(t) = "open" /\ Life(t)' = "claimed"
    BY <1>l, <2>1, <2>3 DEF LifeTable
  <2>6. \A u \in Tickets : u # t => Life(u)' = Life(u)
    BY <2>1, <2>3, <2>4 DEF Life, Held
  <2>7. Abstract!Claim(t)
    BY <2>1, <2>5, <2>6 DEF Abstract!Claim
  <2> QED
    BY <2>7 DEF Abstract!Next
<1>4. ASSUME NEW k \in Tasks, ConsumeReply(k) PROVE Abstract!Next
  <2>1. /\ UNCHANGED <<ticket, expired>>
        /\ granted' = [granted EXCEPT ![op[k].tick] = op[k].sec]
        /\ op'[k] = Idle /\ \A j \in Tasks : j # k => op'[j] = op[j]
    BY <1>0, <1>4 DEF ConsumeReply, tickets_json
  <2>2. PICK t \in Tickets : t = op[k].tick
    BY <1>0, <1>4 DEF ConsumeReply, TicketInv, Op
  <2>3. PICK s \in Secrets : s = op[k].sec
    <3>1. op[k].sec # 0 /\ op[k].sec \in 0..MaxSecrets
      BY <1>0, <1>4 DEF ConsumeReply, SecretInv, Op
    <3> QED
      BY <3>1, PairingAssumption DEF Secrets
  <2>4. granted'[t] = s /\ s # 0 /\ Held(t) /\ \A u \in Tickets : granted[u] # s
    <3>1. \A u \in Tickets : granted[u] # s
      BY <1>0, <1>4, <2>3 DEF ConsumeReply, SecretInv
    <3> QED
      BY <1>0, <1>4, <2>1, <2>2, <2>3, <3>1 DEF Secrets, Held, TypeInv, TypeOK
  <2>5. \A u \in Tickets : u # t => granted'[u] = granted[u] /\ (Held(u)' <=> Held(u))
    <3>1. \A u \in Tickets : u # t => granted'[u] = granted[u]
      BY <2>1, <2>2 DEF TypeInv, TypeOK
    <3>2. \A u \in Tickets : u # t => (Held(u)' <=> Held(u))
      BY <2>1, <2>2, IdleOK, PairingAssumption DEF Held
    <3> QED
      BY <3>1, <3>2
  <2>6. Life(t) = "claimed" /\ Life(t)' = "granted"
    BY <1>l, <2>3, <2>4 DEF LifeTable
  <2>7. \A u \in Tickets : u # t => Life(u)' = Life(u)
    BY <2>1, <2>5 DEF Life, Held
  <2>8. Abstract!Grant(t, s)
    BY <2>1, <2>2, <2>3, <2>4, <2>6, <2>7 DEF Abstract!Grant
  <2> QED
    BY <2>8 DEF Abstract!Next
<1>5. ASSUME UNCHANGED <<ticket, expired, granted>>,
             \A k \in Tasks : op'[k].tick = op[k].tick \/ op'[k] = Idle
      PROVE  Abstract!Next
  <2>1. \A t \in Tickets : Held(t)' => Held(t)
    BY <1>5, IdleOK, PairingAssumption DEF Held
  <2> QED
    BY <1>5, <2>1, TicketsDropped
<1>6. ASSUME NEW k \in Tasks, NEW d \in Devices, FreshDevice(k, d) PROVE Abstract!Next
  <2>1. \A j \in Tasks : op'[j].tick = op[j].tick
    BY <1>0, <1>6 DEF FreshDevice, Op
  <2> QED
    BY <1>5, <1>6, <2>1 DEF FreshDevice, tickets_json, history
<1>7. ASSUME NEW c \in Cmds, NEW kind \in Kinds, NEW d \in Devices,
             NoSuchDevice(c) \/ ConnectLink(c) \/ Command(c, kind, d)
      PROVE  Abstract!Next
  <2>1. \A j \in Tasks : op'[j] = op[j]
    BY <1>0, <1>7 DEF NoSuchDevice, ConnectLink, Command
  <2> QED
    BY <1>5, <1>7, <2>1 DEF NoSuchDevice, ConnectLink, Command, tickets_json, history
<1>8. ASSUME NEW p \in Procs, StoreStep(p) PROVE Abstract!Next
  <2>1. CASE ReadRows(p)
    BY <1>0, <1>5, <2>1 DEF ReadRows, Op, tickets_json
  <2>2. CASE CreateTmp(p)
    BY <1>0, <1>5, <2>2 DEF CreateTmp, Op, tickets_json, history
  <2>3. CASE WriteTmp(p)
    BY <1>0, <1>5, <2>3 DEF WriteTmp, Op, tickets_json, history
  <2>4. CASE RenameTmp(p)
    BY <1>0, <1>5, <2>4 DEF RenameTmp, Op, tickets_json
  <2>5. CASE RenameFails(p) \/ Fail(p)
    BY <1>0, <1>5, <2>5 DEF RenameFails, Fail, tickets_json, history
  <2> QED
    BY <1>8, <2>1, <2>2, <2>3, <2>4, <2>5 DEF StoreStep
<1>9. CASE Crash
  <2>1. \A j \in Tasks : op'[j] = Idle
    BY <1>0, <1>9 DEF Crash
  <2> QED
    BY <1>5, <1>9, <2>1 DEF Crash, tickets_json, history
<1>10. ASSUME NEW t \in Tickets, AgeTicket(t) PROVE UNCHANGED Abstract!vars
  BY <1>10, LifeKept DEF AgeTicket, Held, history
<1>11. ASSUME NEW d \in Devices, SessionStep(d) PROVE UNCHANGED Abstract!vars
  BY <1>11, LifeKept DEF SessionStep, Upgrade, RegisterCheck, RegisterAdmit, Recheck, Hangup, Held, tickets_json, history
<1>12. ASSUME NEW s \in Secrets, LapseSecret(s) PROVE UNCHANGED Abstract!vars
  BY <1>12, LifeKept DEF LapseSecret, Held, tickets_json, history
<1>13. CASE UNCHANGED vars
  BY <1>13, LifeKept DEF vars, Held, tickets_json, history
<1>14. ASSUME NEW c \in Cmds, NoSuchDevice(c) \/ ConnectLink(c) PROVE Abstract!Next
  <2>1. \A j \in Tasks : op'[j] = op[j]
    BY <1>0, <1>14 DEF NoSuchDevice, ConnectLink
  <2> QED
    BY <1>5, <1>14, <2>1 DEF NoSuchDevice, ConnectLink, tickets_json, history
<1> QED
  BY <1>1, <1>2, <1>3, <1>4, <1>6, <1>7, <1>8, <1>9, <1>10, <1>11, <1>12, <1>13, <1>14
  DEF Next, TicketStep, Kinds

\* consume_at, consume: pairing implements single-use tickets. A ticket is
\* burned at most once, while it is open, and buys at most one secret, which no
\* other ticket buys, whatever crashes, fails, expires or is swept meanwhile.
THEOREM TicketsSingleUse == Spec => SingleUse
<1>1. Init => Abstract!Init
  <2> SUFFICES ASSUME Init PROVE Abstract!Init
    OBVIOUS
  <2>1. \A t \in Tickets : Life(t) = "none"
    BY TypeInit, TicketInit, LifeIs DEF Init, LifeTable
  <2> QED
    BY <2>1 DEF Init, Abstract!Init
<1> QED
  BY <1>1, TypeInit, TypeStep, TicketInit, TicketStepInv, SecretStepInv, SingleUseStep, PTL
  DEF Spec, SingleUse, Abstract!Spec

-----------------------------------------------------------------------------
(* devices.json, while no writes of two processes have overlapped.         *)

\* A row without a secret is no row.
RowOK(r) == r.sec = 0 => r = NoRow

RowInv ==
    /\ \A i \in Inodes, d \in Devices : RowOK(inode[i][d])
    /\ \A p \in Procs, d \in Devices : RowOK(op[p].rows[d])

\* What a writer is about to make of the file: the rows as they are, with its
\* own device's as its operation leaves it.
Pending(p) ==
    /\ \A d \in Devices : d # op[p].dev => op[p].rows[d] = rows[d]
    /\ op[p].kind # "remove" => op[p].rows[op[p].dev] # NoRow
    /\ op[p].kind \in {"revoke", "remove"} =>
         op[p].rows[op[p].dev] = NoRow \/ op[p].rows[op[p].dev].revoked
    /\ op[p].kind \in {"issue", "undo"} => op[p].dev \notin withdrawn
    /\ op[p].pc \in {"write", "rename"} => op[p].fd = tmp
    /\ op[p].pc = "rename" => inode[tmp] = op[p].rows

\* The temporary file is never devices.json, tasks only issue, and while clean
\* there is one writer, whose file is whole, and withdrawn devices have no
\* usable row.
FileInv ==
    /\ tmp # file
    /\ \A k \in Tasks : op[k].pc # "idle" => op[k].kind = "issue"
    /\ clean => /\ \A p, q \in Procs : Writing(p) /\ Writing(q) => p = q
                /\ \A p \in Procs : Writing(p) => Pending(p)
                /\ \A d \in withdrawn \cap Devices : rows[d] = NoRow \/ rows[d].revoked

\* The store is empty at first.
LEMMA FileInit == Init => RowInv /\ FileInv
<1> SUFFICES ASSUME Init PROVE RowInv /\ FileInv
  OBVIOUS
<1>1. \A p \in Procs : op[p] = Idle /\ ~Writing(p)
  BY IdleOK DEF Init, Writing
<1>2. Idle.kind = None /\ Idle.rows = NoRows /\ \A d \in Devices : NoRows[d] = NoRow
  BY DEF Idle, NoRows
<1>3. RowInv
  BY <1>1, <1>2 DEF Init, RowInv, RowOK
<1>4. \A k \in Tasks : op[k].pc = "idle"
  BY <1>1, IdleOK DEF Procs
<1>5. FileInv
  BY <1>1, <1>4 DEF Init, FileInv
<1> QED
  BY <1>3, <1>5

\* Operations that only start, only end, or go on without touching their rows.
LEMMA RowsKeptByOps ==
  ASSUME TypeInv, RowInv, UNCHANGED inode,
         \A p \in Procs : op'[p].rows = op[p].rows \/ op'[p].rows = NoRows
  PROVE  RowInv'
<1>1. \A d \in Devices : NoRows[d] = NoRow
  BY DEF NoRows
<1> QED
  BY <1>1 DEF RowInv, RowOK

\* A table with one row of an operation changed has proper rows.
LEMMA ChangedRows ==
  ASSUME TypeInv, RowInv, NEW p \in Procs, op[p].pc = "read", NEW s,
         op[p].kind = "issue" => s # 0
  PROVE  /\ \A d \in Devices : RowOK(Changed(op[p], s)[d])
         /\ \A d \in Devices : d # op[p].dev => Changed(op[p], s)[d] = rows[d]
         /\ op[p].kind = "issue" => Changed(op[p], s)[op[p].dev] = [sec |-> s, revoked |-> FALSE]
         /\ op[p].kind = "remove" => Changed(op[p], s)[op[p].dev] = NoRow
         /\ rows[op[p].dev] # NoRow /\ op[p].kind \in {"revoke", "undo"} =>
              /\ Changed(op[p], s)[op[p].dev].revoked = (op[p].kind = "revoke")
              /\ Changed(op[p], s)[op[p].dev].sec = rows[op[p].dev].sec
<1>1. op[p] \in Op /\ op[p].dev \in Devices /\ op[p].kind \in Kinds
  BY DEF TypeInv, OpOK
<1>2. rows \in [Devices -> Row] /\ \A d \in Devices : RowOK(rows[d])
  BY DEF TypeInv, TypeOK, RowInv, rows, Row
<1>3. CASE op[p].kind = "issue"
  BY <1>1, <1>2, <1>3 DEF Changed, RowOK
<1>4. CASE op[p].kind = "revoke"
  <2>1. CASE rows[op[p].dev] = NoRow
    BY <1>1, <1>2, <1>4, <2>1 DEF Changed
  <2>2. CASE rows[op[p].dev] # NoRow
    BY <1>1, <1>2, <1>4, <2>2 DEF Changed, RowOK, Row
  <2> QED
    BY <2>1, <2>2
<1>5. CASE op[p].kind = "undo"
  <2>1. CASE rows[op[p].dev] = NoRow
    BY <1>1, <1>2, <1>5, <2>1 DEF Changed
  <2>2. CASE rows[op[p].dev] # NoRow
    BY <1>1, <1>2, <1>5, <2>2 DEF Changed, RowOK, Row
  <2> QED
    BY <2>1, <2>2
<1>6. CASE op[p].kind = "remove"
  BY <1>1, <1>2, <1>6 DEF Changed, RowOK
<1> QED
  BY <1>1, <1>3, <1>4, <1>5, <1>6 DEF Kinds

\* Rows stay proper.
LEMMA RowStep == TypeInv /\ RowInv /\ [Next]_vars => RowInv'
<1> SUFFICES ASSUME TypeInv, RowInv, [Next]_vars PROVE RowInv'
  OBVIOUS
<1>0. /\ op \in [Procs -> Op] /\ Tasks \subseteq Procs /\ Cmds \subseteq Procs
      /\ Idle.rows = NoRows /\ \A d \in Devices : NoRows[d] = NoRow
  BY PairingAssumption DEF TypeInv, OpOK, Procs, Idle, NoRows
<1>1. ASSUME NEW k \in Procs, NEW t \in Tickets, Burn(k, t) PROVE RowInv'
  <2>1. \A p \in Procs : op'[p] = op[p] \/ op'[p].rows = NoRows
    BY <1>0, <1>1 DEF Burn, Idle
  <2> QED
    BY <1>1, <2>1, RowsKeptByOps DEF Burn, devices_json
<1>2. ASSUME NEW k \in Procs, NEW d \in Devices, FreshDevice(k, d) PROVE RowInv'
  <2>1. \A p \in Procs : op'[p].rows = op[p].rows
    BY <1>0, <1>2 DEF FreshDevice, Op
  <2> QED
    BY <1>2, <2>1, RowsKeptByOps DEF FreshDevice, devices_json
<1>3. ASSUME NEW c \in Procs, NEW kind \in Kinds, NEW d \in Devices, Command(c, kind, d)
      PROVE RowInv'
  <2>1. \A p \in Procs : op'[p] = op[p] \/ op'[p].rows = NoRows
    BY <1>0, <1>3 DEF Command, Idle
  <2> QED
    BY <1>3, <2>1, RowsKeptByOps DEF Command, devices_json
<1>4. ASSUME NEW p \in Procs, ReadRows(p) PROVE RowInv'
  <2>1. PICK s : s = secrets' /\ (op[p].kind = "issue" => s # 0)
    BY <1>4, PairingAssumption DEF ReadRows, TypeInv
  <2>2. /\ op'[p].rows = Changed(op[p], s) /\ \A q \in Procs : q # p => op'[q] = op[q]
        /\ UNCHANGED inode /\ op[p].pc = "read"
    BY <1>0, <1>4, <2>1 DEF ReadRows, Op, devices_json
  <2>3. \A d \in Devices : RowOK(op'[p].rows[d])
    BY <2>1, <2>2, ChangedRows
  <2> QED
    BY <2>2, <2>3 DEF RowInv, RowOK
<1>5. ASSUME NEW p \in Procs, CreateTmp(p) PROVE RowInv'
  <2>1. PICK i \in Inodes : inode' = [inode EXCEPT ![i] = NoRows]
    BY <1>5, NewInodeOK DEF CreateTmp, TypeInv, TypeOK, OpOK
  <2>2. \A q \in Procs : op'[q].rows = op[q].rows
    BY <1>0, <1>5 DEF CreateTmp, Op
  <2>3. \A j \in Inodes : inode'[j] = inode[j] \/ inode'[j] = NoRows
    BY <2>1 DEF TypeInv, TypeOK
  <2> QED
    BY <1>0, <2>2, <2>3 DEF RowInv, RowOK
<1>6. ASSUME NEW p \in Procs, WriteTmp(p) PROVE RowInv'
  <2>1. \A q \in Procs : op'[q].rows = op[q].rows
    BY <1>0, <1>6 DEF WriteTmp, Op
  <2>2. \A j \in Inodes : inode'[j] = inode[j] \/ inode'[j] = op[p].rows
    BY <1>6 DEF WriteTmp, TypeInv, TypeOK
  <2> QED
    BY <2>1, <2>2 DEF RowInv, RowOK
<1>7. ASSUME NEW p \in Procs, RenameTmp(p) PROVE RowInv'
  <2>1. \A q \in Procs : op'[q].rows = op[q].rows \/ op'[q].rows = NoRows
    BY <1>0, <1>7 DEF RenameTmp, Op
  <2> QED
    BY <1>7, <2>1, RowsKeptByOps DEF RenameTmp
<1>8. ASSUME NEW p \in Procs,
             NoSuchDevice(p) \/ ConnectLink(p) \/ ConsumeReply(p) \/ RenameFails(p) \/ Fail(p)
      PROVE RowInv'
  <2>1. \A q \in Procs : op'[q] = op[q] \/ op'[q] = Idle
    BY <1>0, <1>8 DEF NoSuchDevice, ConnectLink, ConsumeReply, RenameFails, Fail
  <2> QED
    BY <1>0, <1>8, <2>1, RowsKeptByOps
    DEF NoSuchDevice, ConnectLink, ConsumeReply, RenameFails, Fail, devices_json
<1>9. CASE Crash
  <2>1. \A q \in Procs : op'[q] = op[q] \/ op'[q] = Idle
    BY <1>0, <1>9 DEF Crash
  <2> QED
    BY <1>0, <1>9, <2>1, RowsKeptByOps DEF Crash, devices_json
<1>10. ASSUME UNCHANGED <<inode, op>> PROVE RowInv'
  BY <1>10 DEF RowInv
<1>11. ASSUME NEW t \in Tickets, TicketStep(t) PROVE RowInv'
  BY <1>10, <1>11 DEF TicketStep, IssueTicket, ExpireTicket, AgeTicket, devices_json
<1>12. ASSUME NEW d \in Devices, SessionStep(d) PROVE RowInv'
  BY <1>10, <1>12 DEF SessionStep, Upgrade, RegisterCheck, RegisterAdmit, Recheck, Hangup, devices_json
<1>13. ASSUME NEW s \in Secrets, LapseSecret(s) PROVE RowInv'
  BY <1>10, <1>13 DEF LapseSecret, devices_json
<1>14. CASE UNCHANGED vars
  BY <1>10, <1>14 DEF vars, devices_json
<1> QED
  BY <1>0, <1>1, <1>2, <1>3, <1>4, <1>5, <1>6, <1>7, <1>8, <1>9, <1>11, <1>12, <1>13, <1>14
  DEF Next, StoreStep, Kinds

\* A step of somebody who does not write.
LEMMA FileKept ==
  ASSUME TypeInv, FileInv, UNCHANGED <<inode, file, tmp, withdrawn, clean>>,
         \A p \in Procs : op'[p] = op[p] \/ op'[p].pc \notin {"create", "write", "rename"},
         \A k \in Tasks : op'[k].pc # "idle" => op'[k].kind = "issue"
  PROVE  FileInv'
<1>1. \A p \in Procs : Writing(p)' => Writing(p) /\ op'[p] = op[p]
  BY DEF Writing
<1>2. rows' = rows
  BY DEF rows
<1>3. \A p \in Procs : Writing(p)' /\ Pending(p) => Pending(p)'
  BY <1>1, <1>2 DEF Pending
<1> QED
  BY <1>1, <1>2, <1>3 DEF FileInv

\* One writer at a time, whole files and withdrawn rows, through every step.
LEMMA FileStep == TypeInv /\ RowInv /\ FileInv /\ [Next]_vars => FileInv'
<1> SUFFICES ASSUME TypeInv, RowInv, FileInv, [Next]_vars PROVE FileInv'
  OBVIOUS
<1>0. /\ op \in [Procs -> Op] /\ Tasks \subseteq Procs /\ Cmds \subseteq Procs
      /\ Tasks \cap Cmds = {}
  BY PairingAssumption DEF TypeInv, OpOK, Procs
<1>1. ASSUME NEW k \in Tasks, NEW t \in Tickets, Burn(k, t) PROVE FileInv'
  <2>1. /\ op'[k].pc = "fresh" /\ op'[k].kind = "issue"
        /\ \A p \in Procs : p # k => op'[p] = op[p]
    BY <1>0, <1>1 DEF Burn, Idle
  <2>2. \A j \in Tasks : op'[j].pc # "idle" => op'[j].kind = "issue"
    BY <1>0, <2>1 DEF FileInv
  <2> QED
    BY <1>1, <2>1, <2>2, FileKept DEF Burn, devices_json, history
<1>2. ASSUME NEW k \in Tasks, NEW d \in Devices, FreshDevice(k, d) PROVE FileInv'
  <2>1. /\ op[k].pc = "fresh" /\ op'[k].pc = "read" /\ op'[k].kind = op[k].kind
        /\ \A p \in Procs : p # k => op'[p] = op[p]
    BY <1>0, <1>2 DEF FreshDevice, Op
  <2>2. \A j \in Tasks : op'[j].pc # "idle" => op'[j].kind = "issue"
    BY <1>0, <2>1 DEF FileInv
  <2> QED
    BY <1>2, <2>1, <2>2, FileKept DEF FreshDevice, devices_json, history
<1>3. ASSUME NEW c \in Cmds, NEW kind \in Kinds, NEW d \in Devices, Command(c, kind, d)
      PROVE FileInv'
  <2>1. op'[c].pc = "read" /\ \A p \in Procs : p # c => op'[p] = op[p]
    BY <1>0, <1>3 DEF Command, Idle
  <2>2. \A j \in Tasks : op'[j].pc # "idle" => op'[j].kind = "issue"
    BY <1>0, <2>1 DEF FileInv
  <2> QED
    BY <1>3, <2>1, <2>2, FileKept DEF Command, devices_json, history
<1>4. ASSUME NEW p \in Procs, ReadRows(p) PROVE FileInv'
  <2>1. PICK s : s = secrets' /\ (op[p].kind = "issue" => s # 0)
    BY <1>4, PairingAssumption DEF ReadRows, TypeInv
  <2>2. /\ op[p].pc = "read" /\ op'[p].pc = "create" /\ op'[p].rows = Changed(op[p], s)
        /\ op'[p].kind = op[p].kind /\ op'[p].dev = op[p].dev
    BY <1>0, <1>4, <2>1 DEF ReadRows, Op
  <2>3. \A q \in Procs : q # p => op'[q] = op[q]
    BY <1>0, <1>4 DEF ReadRows
  <2>4. /\ UNCHANGED <<inode, file, tmp>> /\ clean' = (clean /\ \A q \in Procs : ~Writing(q))
        /\ withdrawn' = IF op[p].kind \in {"issue", "undo"} THEN withdrawn \ {op[p].dev}
                        ELSE withdrawn
        /\ op[p].kind = "issue" \/ rows[op[p].dev] # NoRow
    BY <1>4 DEF ReadRows, devices_json
  <2>5. \A k \in Tasks : op'[k].pc # "idle" => op'[k].kind = "issue"
    BY <1>0, <2>2, <2>3 DEF FileInv
  <2>6. rows' = rows
    BY <2>4 DEF rows
  <2>7. ASSUME clean' PROVE \A q \in Procs : Writing(q)' => q = p
    BY <2>3, <2>4, <2>7 DEF Writing
  <2>8. Pending(p)'
    <3>1. op[p].kind \in Kinds /\ op[p].dev \in Devices
      BY <2>2 DEF TypeInv, OpOK
    <3>0. PICK r : r = Changed(op[p], s)
      OBVIOUS
    <3>c. /\ \A d \in Devices : d # op[p].dev => r[d] = rows[d]
          /\ op[p].kind = "issue" => r[op[p].dev] = [sec |-> s, revoked |-> FALSE]
          /\ op[p].kind = "remove" => r[op[p].dev] = NoRow
          /\ rows[op[p].dev] # NoRow /\ op[p].kind \in {"revoke", "undo"} =>
               /\ r[op[p].dev].revoked = (op[p].kind = "revoke")
               /\ r[op[p].dev].sec = rows[op[p].dev].sec
      BY <2>1, <2>2, <3>0, ChangedRows
    <3>2. \A d \in Devices : d # op'[p].dev => op'[p].rows[d] = rows'[d]
      BY <2>2, <2>6, <3>0, <3>c
    <3>3. op[p].kind = "issue" => op'[p].rows[op'[p].dev] # NoRow
      BY <2>1, <2>2, <3>0, <3>c DEF NoRow
    <3>4. op[p].kind \in {"revoke", "undo"} => op'[p].rows[op'[p].dev] # NoRow
      <4> SUFFICES ASSUME op[p].kind \in {"revoke", "undo"}
                   PROVE  op'[p].rows[op'[p].dev] # NoRow
        OBVIOUS
      <4>1. rows[op[p].dev] # NoRow /\ RowOK(rows[op[p].dev])
        BY <2>4, <3>1 DEF RowInv, rows, TypeInv, TypeOK
      <4>2. op'[p].rows[op'[p].dev].sec = rows[op[p].dev].sec
        BY <2>2, <3>0, <3>c, <4>1
      <4> QED
        BY <4>1, <4>2 DEF RowOK, NoRow
    <3>5. op[p].kind \in {"revoke", "remove"} =>
            op'[p].rows[op'[p].dev] = NoRow \/ op'[p].rows[op'[p].dev].revoked
      BY <2>2, <2>4, <3>0, <3>c
    <3>6. op[p].kind \in {"issue", "undo"} => op'[p].dev \notin withdrawn'
      BY <2>2, <2>4
    <3> QED
      BY <2>2, <3>1, <3>2, <3>3, <3>4, <3>5, <3>6 DEF Pending, Kinds
  <2> QED
    BY <2>3, <2>4, <2>5, <2>6, <2>7, <2>8 DEF FileInv
<1>5. ASSUME NEW p \in Procs, CreateTmp(p) PROVE FileInv'
  <2>1. PICK i \in Inodes : /\ inode' = [inode EXCEPT ![i] = NoRows] /\ tmp' = i /\ i # file
                            /\ op' = [op EXCEPT ![p].pc = "write", ![p].fd = i]
    BY <1>5, NewInodeOK DEF CreateTmp, TypeInv, TypeOK, OpOK, FileInv
  <2>2. /\ op[p].pc = "create" /\ op'[p].pc = "write" /\ op'[p].rows = op[p].rows
        /\ op'[p].kind = op[p].kind /\ op'[p].dev = op[p].dev /\ op'[p].fd = i
    BY <1>0, <1>5, <2>1 DEF CreateTmp, Op
  <2>3. \A q \in Procs : q # p => op'[q] = op[q]
    BY <1>0, <2>1
  <2>4. UNCHANGED <<file, withdrawn, clean>>
    BY <1>5 DEF CreateTmp, history
  <2>5. rows' = rows
    BY <2>1, <2>4 DEF rows, TypeInv, TypeOK
  <2>6. \A k \in Tasks : op'[k].pc # "idle" => op'[k].kind = "issue"
    BY <1>0, <2>2, <2>3 DEF FileInv
  <2>7. Writing(p) /\ \A q \in Procs : Writing(q)' <=> Writing(q)
    BY <2>2, <2>3 DEF Writing
  <2>8. ASSUME clean PROVE Pending(p)'
    <3>1. Pending(p)
      BY <2>7, <2>8 DEF FileInv
    <3>2. op'[p].fd = tmp' /\ op'[p].pc # "rename"
      BY <2>1, <2>2
    <3> QED
      BY <2>2, <2>4, <2>5, <3>1, <3>2 DEF Pending
  <2> QED
    BY <2>1, <2>4, <2>5, <2>6, <2>7, <2>8 DEF FileInv
<1>6. ASSUME NEW p \in Procs, WriteTmp(p) PROVE FileInv'
  <2>1. /\ op[p].pc = "write" /\ op'[p].pc = "rename" /\ op'[p].rows = op[p].rows
        /\ op'[p].kind = op[p].kind /\ op'[p].dev = op[p].dev /\ op'[p].fd = op[p].fd
    BY <1>0, <1>6 DEF WriteTmp, Op
  <2>2. /\ \A q \in Procs : q # p => op'[q] = op[q]
        /\ inode' = [inode EXCEPT ![op[p].fd] = op[p].rows]
        /\ UNCHANGED <<file, tmp, withdrawn, clean>>
    BY <1>0, <1>6 DEF WriteTmp, history
  <2>3. \A k \in Tasks : op'[k].pc # "idle" => op'[k].kind = "issue"
    BY <1>0, <2>1, <2>2 DEF FileInv
  <2>4. Writing(p) /\ \A q \in Procs : Writing(q)' <=> Writing(q)
    BY <2>1, <2>2 DEF Writing
  <2>5. ASSUME clean PROVE Pending(p)' /\ rows' = rows
    <3>1. Pending(p) /\ op[p].fd = tmp /\ op[p].fd \in Inodes
      BY <2>1, <2>4, <2>5 DEF FileInv, Pending, TypeInv, OpOK
    <3>2. rows' = rows /\ inode'[tmp] = op[p].rows
      BY <2>2, <3>1 DEF rows, FileInv, TypeInv, TypeOK
    <3> QED
      BY <2>1, <2>2, <3>1, <3>2 DEF Pending
  <2> QED
    BY <2>2, <2>3, <2>4, <2>5 DEF FileInv
<1>7. ASSUME NEW p \in Procs, RenameTmp(p) PROVE FileInv'
  <2>1. /\ op[p].pc = "rename" /\ tmp # 0 /\ file' = tmp /\ tmp' = 0 /\ UNCHANGED <<inode, clean>>
        /\ withdrawn' = IF op[p].kind \in {"revoke", "remove"} THEN withdrawn \cup {op[p].dev}
                        ELSE withdrawn
        /\ \A q \in Procs : q # p => op'[q] = op[q]
    BY <1>0, <1>7 DEF RenameTmp
  <2>2. op'[p] = Idle \/ (op'[p].pc = "reply" /\ op'[p].kind = "issue")
    BY <1>0, <1>7 DEF RenameTmp, Op
  <2>3. tmp' # file'
    BY <2>1
  <2>4. \A k \in Tasks : op'[k].pc # "idle" => op'[k].kind = "issue"
    BY <1>0, <2>1, <2>2, IdleOK DEF FileInv
  <2>5. ASSUME clean
        PROVE  /\ \A q \in Procs : ~Writing(q)'
               /\ \A d \in withdrawn' \cap Devices : rows'[d] = NoRow \/ rows'[d].revoked
    <3>1. Writing(p) /\ Pending(p) /\ op[p].kind \in Kinds
      BY <2>1, <2>5 DEF FileInv, Writing, TypeInv, OpOK
    <3>2. \A q \in Procs : ~Writing(q)'
      BY <2>1, <2>2, <2>5, <3>1, IdleOK DEF FileInv, Writing
    <3>3. rows' = op[p].rows
      BY <2>1, <3>1 DEF rows, Pending
    <3>4. \A d \in withdrawn' \cap Devices : rows'[d] = NoRow \/ rows'[d].revoked
      <4> SUFFICES ASSUME NEW d \in Devices, d \in withdrawn'
                   PROVE  rows'[d] = NoRow \/ rows'[d].revoked
        OBVIOUS
      <4>1. CASE d = op[p].dev
        <5>1. op[p].kind \in {"revoke", "remove"}
          BY <2>1, <3>1, <4>1 DEF Pending, Kinds
        <5> QED
          BY <3>1, <3>3, <4>1, <5>1 DEF Pending
      <4>2. CASE d # op[p].dev
        BY <2>1, <2>5, <3>1, <3>3, <4>2 DEF Pending, FileInv
      <4> QED
        BY <4>1, <4>2
    <3> QED
      BY <3>2, <3>4
  <2> QED
    BY <2>1, <2>3, <2>4, <2>5 DEF FileInv
<1>8. ASSUME NEW p \in Procs,
             NoSuchDevice(p) \/ ConnectLink(p) \/ ConsumeReply(p) \/ RenameFails(p) \/ Fail(p)
      PROVE FileInv'
  <2>1. op'[p] = Idle /\ \A q \in Procs : q # p => op'[q] = op[q]
    BY <1>0, <1>8 DEF NoSuchDevice, ConnectLink, ConsumeReply, RenameFails, Fail
  <2>2. \A k \in Tasks : op'[k].pc # "idle" => op'[k].kind = "issue"
    BY <1>0, <2>1, IdleOK DEF FileInv
  <2> QED
    BY <1>8, <2>1, <2>2, IdleOK, FileKept
    DEF NoSuchDevice, ConnectLink, ConsumeReply, RenameFails, Fail, devices_json, history
<1>9. CASE Crash
  <2>1. /\ \A q \in Procs : op'[q] = op[q] \/ op'[q] = Idle
        /\ \A q \in Tasks : op'[q] = Idle
    BY <1>0, <1>9 DEF Crash
  <2> QED
    BY <1>9, <2>1, IdleOK, FileKept DEF Crash, devices_json, history
<1>10. ASSUME UNCHANGED <<inode, file, tmp, op, withdrawn, clean>> PROVE FileInv'
  <2>1. \A k \in Tasks : op'[k].pc # "idle" => op'[k].kind = "issue"
    BY <1>10 DEF FileInv
  <2> QED
    BY <1>10, <2>1, FileKept
<1>11. ASSUME NEW t \in Tickets, TicketStep(t) PROVE FileInv'
  BY <1>10, <1>11 DEF TicketStep, IssueTicket, ExpireTicket, AgeTicket, devices_json, history
<1>12. ASSUME NEW d \in Devices, SessionStep(d) PROVE FileInv'
  BY <1>10, <1>12 DEF SessionStep, Upgrade, RegisterCheck, RegisterAdmit, Recheck, Hangup, devices_json, history
<1>13. ASSUME NEW s \in Secrets, LapseSecret(s) PROVE FileInv'
  BY <1>10, <1>13 DEF LapseSecret, devices_json, history
<1>14. CASE UNCHANGED vars
  BY <1>10, <1>14 DEF vars, devices_json, history
<1> QED
  BY <1>0, <1>1, <1>2, <1>3, <1>4, <1>5, <1>6, <1>7, <1>8, <1>9, <1>11, <1>12, <1>13, <1>14
  DEF Next, StoreStep, Kinds

\* A device that is withdrawn has no usable row.
LEMMA WithdrawnInactive ==
  ASSUME TypeInv, RowInv, FileInv, clean, NEW d \in Devices, d \in withdrawn
  PROVE  ~Active(d)
<1>1. rows \in [Devices -> Row] /\ (rows[d] = NoRow \/ rows[d].revoked)
  BY DEF TypeInv, TypeOK, FileInv, rows, Row
<1>2. CASE rows[d] = NoRow
  BY <1>2 DEF Active, active_secret, NoRow
<1>3. CASE rows[d].revoked
  BY <1>1, <1>3 DEF Active, active_secret, status
<1> QED
  BY <1>1, <1>2, <1>3

\* The router admits on a row it read before: what was withdrawn since has been
\* noted.
ReadInv == \A d \in Devices : session[d].pc = "checked" /\ d \in withdrawn /\ clean => d \in overtaken

LEMMA ReadStep ==
  ASSUME TypeInv, RowInv, FileInv, ReadInv, [Next]_vars
  PROVE  ReadInv'
<1> SUFFICES ASSUME NEW d \in Devices, session'[d].pc = "checked", d \in withdrawn', clean'
             PROVE  d \in overtaken'
  BY DEF ReadInv
<1>0. session \in [Devices -> Session] /\ (session[d].pc = "checked" /\ d \in withdrawn /\ clean => d \in overtaken)
  BY DEF TypeInv, TypeOK, ReadInv, Session
<1>1. CASE \E e \in Devices : SessionStep(e)
  <2>1. PICK e \in Devices : SessionStep(e)
    BY <1>1
  <2>2. UNCHANGED <<withdrawn, clean>>
    BY <2>1 DEF SessionStep, Upgrade, RegisterCheck, RegisterAdmit, Recheck, Hangup, history
  <2>3. CASE session[d].pc = "checked"
    <3>1. ~RegisterCheck(e)
      BY <2>3 DEF RegisterCheck
    <3> QED
      BY <1>0, <2>1, <2>2, <2>3, <3>1
      DEF SessionStep, Upgrade, RegisterAdmit, Recheck, Hangup, history
  <2>4. CASE session[d].pc # "checked"
    <3>1. RegisterCheck(d) /\ Admitted(d)
      <4>1. ~RegisterAdmit(e)
        BY <1>0, <2>4, OfflineOK DEF RegisterAdmit
      <4>2. ~Upgrade(e)
        BY <1>0, <2>4, OfflineOK DEF Upgrade, Session
      <4>3. ~(Recheck(e) \/ Hangup(e))
        BY <1>0, <2>4, OfflineOK DEF Recheck, Hangup
      <4>4. RegisterCheck(e)
        BY <2>1, <4>1, <4>2, <4>3 DEF SessionStep
      <4> QED
        BY <1>0, <2>4, <4>4, OfflineOK DEF RegisterCheck
    <3> QED
      BY <2>2, <3>1, WithdrawnInactive DEF Admitted
  <2> QED
    BY <2>3, <2>4
<1>2. CASE Crash
  BY <1>2 DEF Crash, Offline
<1>3. CASE \E p \in Procs : ReadRows(p)
  BY <1>0, <1>3 DEF ReadRows
<1>4. CASE \E p \in Procs : RenameTmp(p)
  BY <1>0, <1>4 DEF RenameTmp
<1>5. CASE UNCHANGED <<session, history>>
  BY <1>0, <1>5 DEF history
<1>6. CASE \E k \in Tasks : ConsumeReply(k)
  BY <1>0, <1>6 DEF ConsumeReply
<1> QED
  BY <1>1, <1>2, <1>3, <1>4, <1>5, <1>6
  DEF Next, TicketStep, IssueTicket, ExpireTicket, AgeTicket, Burn, FreshDevice, NoSuchDevice,
      ConnectLink, Command, StoreStep, CreateTmp, WriteTmp, RenameFails, Fail, LapseSecret, vars

\* ws_handler, handle_connection and the device commands: once a revoke or a
\* remove has returned, no session of the device opens, however far its
\* connection had got, but one whose row the router had read just before, as
\* long as no writes of two processes overlapped.
THEOREM RevocationHolds == Spec => RevokedStaysOut
<1>1. TypeInv /\ ReadInv /\ [Next]_vars
        => [\A d \in Devices : session[d].pc # "open" /\ session'[d].pc = "open"
                                 => d \notin withdrawn \/ d \in overtaken \/ ~clean]_vars
  <2> SUFFICES ASSUME TypeInv, ReadInv, [Next]_vars, NEW d \in Devices,
                      session[d].pc # "open", session'[d].pc = "open"
               PROVE  d \notin withdrawn \/ d \in overtaken \/ ~clean
    OBVIOUS
  <2>0. session # session'
    OBVIOUS
  <2>1. PICK e \in Devices : SessionStep(e)
    <3>1. ~Crash
      BY DEF Crash, Offline
    <3> QED
      BY <2>0, <3>1 DEF Next, TicketStep, IssueTicket, ExpireTicket, AgeTicket, Burn, ConsumeReply,
         FreshDevice, NoSuchDevice, ConnectLink, Command, StoreStep, ReadRows, CreateTmp, WriteTmp,
         RenameTmp, RenameFails, Fail, LapseSecret, vars
  <2>2. session \in [Devices -> Session]
    BY DEF TypeInv, TypeOK, Session
  <2>3. session[d].pc = "checked"
    <3>1. ~RegisterCheck(e)
      BY <2>2, OfflineOK DEF RegisterCheck, Session
    <3>2. ~Upgrade(e)
      BY <2>2, OfflineOK DEF Upgrade, Session
    <3>3. ~(Recheck(e) \/ Hangup(e))
      BY <2>2, OfflineOK DEF Recheck, Hangup
    <3>4. RegisterAdmit(e)
      BY <2>1, <3>1, <3>2, <3>3 DEF SessionStep
    <3> QED
      BY <2>2, <3>4 DEF RegisterAdmit
  <2> QED
    BY <2>3 DEF ReadInv
<1>2. Init => ReadInv
  BY DEF Init, ReadInv
<1> QED
  BY <1>1, <1>2, TypeInit, TypeStep, FileInit, RowStep, FileStep, ReadStep, PTL
  DEF Spec, RevokedStaysOut

\* write_private_atomic: no crash, error or concurrent step of another process
\* loses a row but a removal of that device, as long as no writes of two
\* processes overlapped.
THEOREM NoRowLost == Spec => RowsKept
<1>1. TypeInv /\ RowInv /\ FileInv /\ [Next]_vars
        => [\A d \in Devices : rows[d] # NoRow /\ rows'[d] = NoRow =>
              ~clean \/ \E c \in Cmds : op[c].kind = "remove" /\ op[c].dev = d]_vars
  <2> SUFFICES ASSUME TypeInv, RowInv, FileInv, [Next]_vars, NEW d \in Devices,
                      rows[d] # NoRow, rows'[d] = NoRow, clean
               PROVE  \E c \in Cmds : op[c].kind = "remove" /\ op[c].dev = d
    OBVIOUS
  <2>1. inode' # inode \/ file' # file
    BY DEF rows
  <2>2. PICK p \in Procs : CreateTmp(p) \/ WriteTmp(p) \/ RenameTmp(p)
    BY <2>1 DEF Next, TicketStep, IssueTicket, ExpireTicket, AgeTicket, Burn, ConsumeReply,
       FreshDevice, NoSuchDevice, ConnectLink, Command, StoreStep, ReadRows, RenameFails, Fail,
       LapseSecret, SessionStep, Upgrade, RegisterCheck, RegisterAdmit, Recheck, Hangup, Crash, vars, devices_json
  <2>3. Writing(p) /\ Pending(p) /\ op[p].dev \in Devices /\ op[p].pc # "idle"
    BY <2>2 DEF CreateTmp, WriteTmp, RenameTmp, Writing, FileInv, TypeInv, OpOK
  <2>4. ~CreateTmp(p)
    <3> SUFFICES ASSUME CreateTmp(p) PROVE FALSE
      OBVIOUS
    <3>1. PICK i \in Inodes : inode' = [inode EXCEPT ![i] = NoRows] /\ i # file /\ file' = file
      BY NewInodeOK DEF CreateTmp, TypeInv, TypeOK, OpOK, FileInv
    <3> QED
      BY <3>1 DEF rows, TypeInv, TypeOK
  <2>5. ~WriteTmp(p)
    <3> SUFFICES ASSUME WriteTmp(p) PROVE FALSE
      OBVIOUS
    <3>1. op[p].fd # file /\ inode' = [inode EXCEPT ![op[p].fd] = op[p].rows] /\ file' = file
      BY <2>3 DEF WriteTmp, Pending, FileInv
    <3> QED
      BY <3>1 DEF rows, TypeInv, TypeOK
  <2>6. RenameTmp(p)
    BY <2>2, <2>4, <2>5
  <2>7. rows' = op[p].rows
    BY <2>3, <2>6 DEF RenameTmp, Pending, rows
  <2>8. op[p].dev = d /\ op[p].kind = "remove"
    BY <2>3, <2>7 DEF Pending
  <2>9. p \in Cmds
    BY <2>3, <2>8 DEF FileInv, Procs
  <2> QED
    BY <2>8, <2>9
<1> QED
  BY <1>1, TypeInit, TypeStep, FileInit, RowStep, FileStep, PTL DEF Spec, RowsKept
=============================================================================
