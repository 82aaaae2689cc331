------------------------------ MODULE Pairing ------------------------------
(***************************************************************************)
(* Pairing tickets, device credentials and the sessions they open          *)
(* (auth/pairing.rs, auth/ticket_store.rs, auth/device_store.rs,           *)
(* cli/device.rs, the device gates of the router and the WS gateway).      *)
(*                                                                         *)
(* Tasks of the kernel trade tickets for credentials; `vyn device` commands*)
(* are processes of their own that rewrite the same devices.json. Writers  *)
(* of one process exclude each other, writers of two processes do not, and *)
(* all of them write through the same temporary file.                      *)
(***************************************************************************)
EXTENDS Integers, FiniteSets, FiniteSetsExt

CONSTANTS
    Tickets,
    Devices,
    Tasks,     \* API requests of the kernel that may be under way at once
    Cmds,      \* `vyn device` commands that may be under way at once
    MaxSecrets,\* bound: credentials issued
    MaxCmds,   \* bound: commands run
    MaxLapses, \* bound: tickets and credentials that time runs out for
    MaxFaults, \* bound: crashes of the kernel, I/O errors and killed commands
    None

Procs == Tasks \cup Cmds
Secrets == 1..MaxSecrets
\* Enough for devices.json, the temporary file and the files writers hold open.
Inodes == 1..(2 + Cardinality(Procs))

ASSUME PairingAssumption ==
    /\ {MaxSecrets, MaxCmds, MaxLapses, MaxFaults} \subseteq Nat
    /\ IsFiniteSet(Procs) /\ Tasks \cap Cmds = {}
    /\ None \notin Tickets \cup Devices \cup Procs

VARIABLES
    ticket,     \* tickets.json: ticket -> "none", "open", "used" or "swept"
    expired,    \* tickets past expires_at
    stale,      \* tickets past expiry or use and STALE_RETENTION_SECS
    inode,      \* files: inode -> its rows
    file,       \* devices.json: its inode
    tmp,        \* devices.json.tmp: its inode, 0 when there is none
    write_lock, \* DeviceStore::write_lock of the kernel: the task that holds it
    op,         \* task or command -> the operation it is in
    secrets,    \* number of secrets generated
    lapsed,     \* secrets whose expires_at has passed
    held,       \* device -> the secret it was last given, 0 for none
    session,    \* device -> its WS connection: [pc, watch, sec: the secret the router read]
    cmds,       \* number of commands run
    faults,     \* number of faults so far
    granted,    \* history: ticket -> secret handed out for it, 0 for none
    withdrawn,  \* history: devices revoked or removed, and nothing begun since
    overtaken,  \* history: devices whose revoke or remove returned after the router
                \* had read their row, and before it admitted them
    clean       \* history: no two processes' writes have overlapped

tickets_json == <<ticket, expired, stale>>
devices_json == <<inode, file, tmp>>
history == <<granted, withdrawn, overtaken, clean>>
vars == <<tickets_json, devices_json, write_lock, op, secrets, lapsed, held, session, cmds,
          faults, history>>

NoRow == [sec |-> 0, revoked |-> FALSE]
NoRows == [d \in Devices |-> NoRow]
Idle == [pc |-> "idle", kind |-> None, dev |-> None, tick |-> None, sec |-> 0,
         rows |-> NoRows, fd |-> 0]
Offline == [pc |-> "none", watch |-> FALSE, sec |-> 0]

Init ==
    /\ ticket = [t \in Tickets |-> "none"]
    /\ expired = {} /\ stale = {}
    /\ inode = [i \in Inodes |-> NoRows]
    /\ file = 1 /\ tmp = 0
    /\ write_lock = None
    /\ op = [p \in Procs |-> Idle]
    /\ secrets = 0 /\ lapsed = {}
    /\ held = [d \in Devices |-> 0]
    /\ session = [d \in Devices |-> Offline]
    /\ cmds = 0 /\ faults = 0
    /\ granted = [t \in Tickets |-> 0]
    /\ withdrawn = {} /\ overtaken = {} /\ clean = TRUE

rows == inode[file]

\* DeviceRecord::status, of a device with a row.
status(d) == CASE rows[d].revoked -> "revoked"
               [] ~rows[d].revoked /\ rows[d].sec \in lapsed -> "expired"
               [] OTHER -> "active"

\* active_secret: the secret of an active row, 0 without a row; another status
\* is an error.
active_secret(d) == IF status(d) = "active" THEN rows[d].sec ELSE -1

Active(d) == active_secret(d) > 0

\* Time passes.
Lapse == Cardinality(expired) + Cardinality(lapsed) < MaxLapses

-----------------------------------------------------------------------------
(* Tickets. Only the kernel touches tickets.json, under one mutex, and the *)
(* rename is the one step that counts: each operation is atomic.           *)

\* issue_at sweeps the stale rows and adds its own.
issue_at(t) ==
    ticket' = [u \in Tickets |->
      IF u = t THEN "open" ELSE IF u \in stale THEN "swept" ELSE ticket[u]]

\* A ticket is random: no two are the same.
create_ticket(t) == ticket[t] = "none" /\ issue_at(t)

\* `vyn device pair` and the admin API, both over POST /devices/pair.
IssueTicket(t) ==
    /\ create_ticket(t)
    /\ UNCHANGED <<expired, stale, devices_json, write_lock, op, secrets, lapsed, held,
                   session, cmds, faults, history>>

ExpireTicket(t) ==
    /\ Lapse /\ ticket[t] \in {"open", "used"} /\ t \notin expired
    /\ expired' = expired \cup {t}
    /\ UNCHANGED <<ticket, stale, devices_json, write_lock, op, secrets, lapsed, held,
                   session, cmds, faults, history>>

AgeTicket(t) ==
    /\ t \in expired \ stale
    /\ stale' = stale \cup {t}
    /\ UNCHANGED <<ticket, expired, devices_json, write_lock, op, secrets, lapsed, held,
                   session, cmds, faults, history>>

Consumable_used(t) == ticket[t] \in {"open", "used"} /\ t \notin expired

\* consume_at: unknown, used and expired tickets are refused.
Consumable(t) == ticket[t] = "open" /\ t \notin expired

\* The ticket is burned before anything is minted.
Burn(k, t) ==
    /\ op[k] = Idle /\ Consumable(t)
    /\ ticket' = [ticket EXCEPT ![t] = "used"]
    /\ op' = [op EXCEPT ![k] = [Idle EXCEPT !.pc = "fresh", !.kind = "issue", !.tick = t]]
    /\ UNCHANGED <<expired, stale, devices_json, write_lock, secrets, lapsed, held, session,
                   cmds, faults, history>>

\* fresh_device_id: a random id (48 bits: no other request has the same) that
\* has no row now.
FreshDevice(k, d) ==
    /\ op[k].pc = "fresh"
    /\ rows[d] = NoRow /\ \A p \in Procs : op[p].dev # d
    /\ op' = [op EXCEPT ![k].pc = "read", ![k].dev = d]
    /\ UNCHANGED <<tickets_json, devices_json, write_lock, secrets, lapsed, held, session,
                   cmds, faults, history>>

-----------------------------------------------------------------------------
(* devices.json: read, change a copy, write it to the temporary file and   *)
(* rename that.                                                            *)

\* connect, revoke, revoke --undo or remove.
Command(c, kind, d) ==
    /\ op[c] = Idle /\ cmds < MaxCmds
    /\ cmds' = cmds + 1
    /\ op' = [op EXCEPT ![c] = [Idle EXCEPT !.pc = "read", !.kind = kind, !.dev = d]]
    /\ UNCHANGED <<tickets_json, devices_json, write_lock, secrets, lapsed, held, session,
                   faults, history>>

\* What the operation makes of the rows; issue rotates a row that exists.
Changed(o, sec) ==
    CASE o.kind = "issue"  -> [rows EXCEPT ![o.dev] = [sec |-> sec, revoked |-> FALSE]]
      [] o.kind = "revoke" -> IF rows[o.dev] = NoRow THEN rows
                              ELSE [rows EXCEPT ![o.dev].revoked = TRUE]
      [] o.kind = "undo"   -> IF rows[o.dev] = NoRow THEN rows
                              ELSE [rows EXCEPT ![o.dev].revoked = FALSE]
      [] o.kind = "remove" -> [rows EXCEPT ![o.dev] = NoRow]

Writing(p) == op[p].pc \in {"create", "write", "rename"}

Lock_none(p) == UNCHANGED write_lock

Lock(p) == IF p \in Tasks THEN write_lock = None /\ write_lock' = p ELSE UNCHANGED write_lock
Unlock(p) == write_lock' = IF write_lock = p THEN None ELSE write_lock

\* A device without a row leaves a command nothing to write.
ReadRows(p) ==
    /\ op[p].pc = "read"
    /\ op[p].kind = "issue" \/ rows[op[p].dev] # NoRow
    /\ secrets < MaxSecrets \/ op[p].kind # "issue"
    /\ Lock(p)
    /\ secrets' = IF op[p].kind = "issue" THEN secrets + 1 ELSE secrets
    /\ op' = [op EXCEPT ![p].pc = "create", ![p].rows = Changed(op[p], secrets'),
                        ![p].sec = IF op[p].kind = "issue" THEN secrets' ELSE 0]
    /\ withdrawn' = IF op[p].kind \in {"issue", "undo"} THEN withdrawn \ {op[p].dev}
                    ELSE withdrawn
    /\ clean' = (clean /\ \A q \in Procs : ~Writing(q))
    /\ UNCHANGED <<tickets_json, devices_json, lapsed, held, session, cmds, faults, granted,
                   overtaken>>

NoSuchDevice(c) ==
    /\ op[c].pc = "read" /\ op[c].kind # "issue" /\ rows[op[c].dev] = NoRow
    /\ op' = [op EXCEPT ![c] = Idle]
    /\ UNCHANGED <<tickets_json, devices_json, write_lock, secrets, lapsed, held, session,
                   cmds, faults, history>>

NewInode == Min(Inodes \ ({file, tmp} \cup {op[p].fd : p \in Procs}))

CreateTmp_in_place(p) ==
    /\ op[p].pc = "create"
    /\ inode' = [inode EXCEPT ![file] = NoRows]
    /\ tmp' = file
    /\ op' = [op EXCEPT ![p].pc = "write", ![p].fd = file]
    /\ UNCHANGED <<tickets_json, file, write_lock, secrets, lapsed, held, session, cmds,
                   faults, history>>

\* File::create truncates the temporary file that is there, whoever writes it.
CreateTmp(p) ==
    /\ op[p].pc = "create"
    /\ LET i == IF tmp = 0 THEN NewInode ELSE tmp IN
         /\ inode' = [inode EXCEPT ![i] = NoRows]
         /\ tmp' = i
         /\ op' = [op EXCEPT ![p].pc = "write", ![p].fd = i]
    /\ UNCHANGED <<tickets_json, file, write_lock, secrets, lapsed, held, session, cmds,
                   faults, history>>

WriteTmp(p) ==
    /\ op[p].pc = "write"
    /\ inode' = [inode EXCEPT ![op[p].fd] = op[p].rows]
    /\ op' = [op EXCEPT ![p].pc = "rename"]
    /\ UNCHANGED <<tickets_json, file, tmp, write_lock, secrets, lapsed, held, session, cmds,
                   faults, history>>

RenameTmp(p) ==
    /\ op[p].pc = "rename" /\ tmp # 0
    /\ file' = tmp /\ tmp' = 0
    /\ Unlock(p)
    /\ op' = [op EXCEPT ![p] = IF @.kind = "issue"
                               THEN [@ EXCEPT !.pc = "reply", !.rows = NoRows, !.fd = 0]
                               ELSE Idle]
    /\ withdrawn' = IF op[p].kind \in {"revoke", "remove"} THEN withdrawn \cup {op[p].dev}
                    ELSE withdrawn
    /\ overtaken' = IF op[p].kind \in {"revoke", "remove"} /\ session[op[p].dev].pc = "checked"
                    THEN overtaken \cup {op[p].dev} ELSE overtaken
    /\ UNCHANGED <<tickets_json, inode, secrets, lapsed, held, session, cmds, faults, granted,
                   clean>>

\* Another process has renamed the temporary file: the operation fails.
RenameFails(p) ==
    /\ op[p].pc = "rename" /\ tmp = 0
    /\ Unlock(p)
    /\ op' = [op EXCEPT ![p] = Idle]
    /\ UNCHANGED <<tickets_json, devices_json, secrets, lapsed, held, session, cmds, faults,
                   history>>

\* A token is minted, with the lifetime of the secret, and both reach the device:
\* in the answer to the request that burned a ticket ...
ConsumeReply(k) ==
    /\ op[k].pc = "reply"
    /\ held' = [held EXCEPT ![op[k].dev] = op[k].sec]
    /\ granted' = [granted EXCEPT ![op[k].tick] = op[k].sec]
    /\ op' = [op EXCEPT ![k] = Idle]
    /\ UNCHANGED <<tickets_json, devices_json, write_lock, secrets, lapsed, session, cmds,
                   faults, withdrawn, overtaken, clean>>

\* ... or in the link that `vyn device connect` prints.
ConnectLink(c) ==
    /\ op[c].pc = "reply"
    /\ held' = [held EXCEPT ![op[c].dev] = op[c].sec]
    /\ op' = [op EXCEPT ![c] = Idle]
    /\ UNCHANGED <<tickets_json, devices_json, write_lock, secrets, lapsed, session, cmds,
                   faults, history>>

LapseSecret(s) ==
    /\ Lapse /\ s \in 1..secrets /\ s \notin lapsed
    /\ lapsed' = lapsed \cup {s}
    /\ UNCHANGED <<tickets_json, devices_json, write_lock, op, secrets, held, session, cmds,
                   faults, history>>

-----------------------------------------------------------------------------
(* Sessions of devices.                                                    *)

\* JwtValidator::validate: the token that came with the secret is not expired.
validate(d) == held[d] # 0 /\ held[d] \notin lapsed

\* ws_handler: a device without a row passes, and is not watched.
Upgrade(d) ==
    /\ session[d] = Offline
    /\ validate(d)
    /\ active_secret(d) >= 0
    /\ session' = [session EXCEPT ![d] = [Offline EXCEPT !.pc = "upgraded",
                                                                     !.watch = Active(d)]]
    /\ UNCHANGED <<tickets_json, devices_json, write_lock, op, secrets, lapsed, held, cmds,
                   faults, history>>

Admitted_once(d) == session[d].watch

\* The registration reads the row again.
Admitted(d) == Active(d)

\* The router, one task, reads the row ...
RegisterCheck(d) ==
    /\ session[d].pc = "upgraded" /\ \A e \in Devices : session[e].pc # "checked"
    /\ session' = [session EXCEPT ![d] =
         IF Admitted(d) THEN [@ EXCEPT !.pc = "checked", !.sec = rows[d].sec] ELSE Offline]
    /\ overtaken' = overtaken \ {d}
    /\ UNCHANGED <<tickets_json, devices_json, write_lock, op, secrets, lapsed, held, cmds,
                   faults, granted, withdrawn, clean>>

\* ... and goes on, past the eviction of a stale entry and its await, with what
\* it read. Both ends key the MAC off the secret: a device with another one is
\* cut off at its first frame.
RegisterAdmit(d) ==
    /\ session[d].pc = "checked"
    /\ session' = [session EXCEPT ![d] =
         IF @.sec = held[d] THEN [@ EXCEPT !.pc = "open", !.sec = 0] ELSE Offline]
    /\ UNCHANGED <<tickets_json, devices_json, write_lock, op, secrets, lapsed, held, cmds,
                   faults, history>>

still_active_missing(d) == Active(d) \/ rows[d] = NoRow

still_active(d) == Active(d)

Recheck(d) ==
    /\ session[d].pc # "none" /\ session[d].watch /\ ~still_active(d)
    /\ session' = [session EXCEPT ![d] = Offline]
    /\ UNCHANGED <<tickets_json, devices_json, write_lock, op, secrets, lapsed, held, cmds,
                   faults, history>>

\* The device leaves, or the registration deadline passes.
Hangup(d) ==
    /\ session[d].pc # "none"
    /\ session' = [session EXCEPT ![d] = Offline]
    /\ UNCHANGED <<tickets_json, devices_json, write_lock, op, secrets, lapsed, held, cmds,
                   faults, history>>

-----------------------------------------------------------------------------
(* Faults.                                                                 *)

\* An I/O error in a request, or a command killed: what it did so far stays.
Fail(p) ==
    /\ op[p] # Idle /\ faults < MaxFaults
    /\ faults' = faults + 1
    /\ op' = [op EXCEPT ![p] = Idle]
    /\ Unlock(p)
    /\ UNCHANGED <<tickets_json, devices_json, secrets, lapsed, held, session, cmds, history>>

Crash ==
    /\ faults < MaxFaults
    /\ faults' = faults + 1
    /\ op' = [p \in Procs |-> IF p \in Tasks THEN Idle ELSE op[p]]
    /\ write_lock' = None
    /\ session' = [d \in Devices |-> Offline]
    /\ UNCHANGED <<tickets_json, devices_json, secrets, lapsed, held, cmds, history>>

TicketStep(t) == IssueTicket(t) \/ ExpireTicket(t) \/ AgeTicket(t)
StoreStep(p) == ReadRows(p) \/ CreateTmp(p) \/ WriteTmp(p) \/ RenameTmp(p) \/ RenameFails(p)
                \/ Fail(p)
SessionStep(d) == Upgrade(d) \/ RegisterCheck(d) \/ RegisterAdmit(d) \/ Recheck(d) \/ Hangup(d)

Next ==
    \/ \E t \in Tickets : TicketStep(t) \/ \E k \in Tasks : Burn(k, t)
    \/ \E k \in Tasks : ConsumeReply(k) \/ \E d \in Devices : FreshDevice(k, d)
    \/ \E c \in Cmds : NoSuchDevice(c) \/ ConnectLink(c) \/ \E d \in Devices :
         \E kind \in {"issue", "revoke", "undo", "remove"} : Command(c, kind, d)
    \/ \E p \in Procs : StoreStep(p)
    \/ \E s \in Secrets : LapseSecret(s)
    \/ \E d \in Devices : SessionStep(d)
    \/ Crash

\* The gateway's interval ticks while the connection is up.
Fairness == \A d \in Devices : WF_vars(Recheck(d))

Spec == Init /\ [][Next]_vars /\ Fairness

-----------------------------------------------------------------------------
\* Types; a task that writes holds the lock, so tasks of the kernel never
\* write at the same time.
TypeOK ==
    /\ ticket \in [Tickets -> {"none", "open", "used", "swept"}]
    /\ stale \subseteq expired /\ expired \subseteq Tickets
    /\ inode \in [Inodes -> [Devices -> [sec : 0..MaxSecrets, revoked : BOOLEAN]]]
    /\ file \in Inodes /\ tmp \in Inodes \cup {0}
    /\ write_lock \in Tasks \cup {None}
    /\ \A k \in Tasks : Writing(k) <=> write_lock = k
    /\ held \in [Devices -> 0..MaxSecrets]
    /\ session \in [Devices -> [pc : {"none", "upgraded", "checked", "open"},
                               watch : BOOLEAN, sec : 0..MaxSecrets]]
    /\ granted \in [Tickets -> 0..MaxSecrets]

Life(t) ==
    CASE ticket[t] = "none" -> "none"
      [] ticket[t] = "open" /\ t \notin expired -> "open"
      [] granted[t] # 0 -> "granted"
      [] \E k \in Tasks : op[k].tick = t -> "claimed"
      [] OTHER -> "void"

Abstract == INSTANCE TicketLife WITH
    NoSecret <- 0,
    life <- [t \in Tickets |-> Life(t)],
    credential <- granted

\* "Exactly one caller ever gets Ok for a given ticket" (consume_at) and "a
\* failure afterwards fails closed" (consume): burning, minting and replying,
\* with crashes and errors anywhere between them and the sweep of old rows,
\* implement single-use tickets.
SingleUse == Abstract!Spec

\* "The router re-reads the store on every registration" (cli/device.rs): once
\* a revoke or remove has returned, and until the device is issued a credential
\* or the revocation is undone, no session of the device opens, not even one
\* that passed the upgrade before. The exceptions are a registration that was
\* between the read of its row and its ack when the command returned, and a
\* command whose writes overlapped with those of another process.
RevokedStaysOut ==
    [][\A d \in Devices :
         session[d].pc # "open" /\ session'[d].pc = "open" =>
           d \notin withdrawn \/ d \in overtaken \/ ~clean]_vars

\* "A crash mid-write can't shred existing rows" (write_private_atomic), nor
\* can anything else but the removal of the device, provided that no writes of
\* two processes have overlapped.
RowsKept ==
    [][\A d \in Devices : rows[d] # NoRow /\ rows'[d] = NoRow =>
         ~clean \/ \E c \in Cmds : op[c].kind = "remove" /\ op[c].dev = d]_vars

\* "The socket closes once the row is revoked, expired or removed"
\* (DeviceWatch), for a device that had a row at its upgrade.
WithdrawnCloses ==
    \A d \in Devices : (session[d].pc = "open" /\ session[d].watch /\ ~Active(d))
                         ~> (session[d].pc # "open" \/ Active(d))

=============================================================================
