--------------------------- MODULE SupervisorProofs ---------------------------
(***************************************************************************)
(* What holds of the supervisor for every number of plugins, tasks,        *)
(* processes and requests: types, that a stop ends the process, that no    *)
(* pids scope is forgotten and that restarts stay within their budget,     *)
(* whatever overlaps; and, when requests for one id overlap only where the *)
(* code guards against it (Serial), that a stop is terminal and that no    *)
(* living process is lost.                                                 *)
(***************************************************************************)
EXTENDS Supervisor, TLAPS

SpawnPcs == {"prepare", "exec", "handshake", "insert"}
StopPcs == {"stop_mark", "stop_signal", "stop_wait", "stop_kill"}
MonPcs == {"decide", "backoff", "drop"}

Pcs == {"idle", "restart"} \cup SpawnPcs \cup StopPcs \cup MonPcs

TaskRec == [pc : Pcs,
            id : Ids \cup {None}, epoch : 0..MaxEpoch, count : Nat, from : 0..MaxEpoch,
            forced : BOOLEAN]

\* What a task of each kind works on.
TaskOK(t, r) ==
    /\ r.pc = "idle" => r = Idle
    /\ r.pc # "idle" => r.id \in Ids
    /\ r.pc \in SpawnPcs \cup StopPcs \cup {"restart"} => r.epoch \in Epochs
    /\ r.pc \in StopPcs \cup {"restart"} => t \in Tasks
    /\ r.pc \in MonPcs => t = Monitor /\ r.from \in Epochs /\ r.epoch = 0

TypeInv ==
    /\ TypeOK
    /\ task \in [Workers -> TaskRec]
    /\ \A t \in Workers : TaskOK(t, task[t])
    /\ manual \in [Ids -> Nat] /\ halted \subseteq Ids /\ abandoned \subseteq Epochs

\* A process, whoever looks at it.
ProcOK(e) ==
    /\ e > next_epoch => proc[e] = NoProcess
    /\ proc[e].st = "none" => proc[e] = NoProcess
    /\ proc[e].st # "none" => proc[e].id \in Ids
    /\ proc[e].inner /\ proc[e].st # "up" /\ proc[e].wait => proc[e].sig = "kill"

\* A process, for the task that works on it.
TaskProcOK(r) ==
    LET x == proc[r.epoch] IN
    /\ r.pc \in SpawnPcs => r.epoch <= next_epoch
    /\ r.pc \in {"prepare", "exec"} => x = NoProcess
    /\ r.pc \in {"handshake", "insert"} => x.st # "none" /\ x.id = r.id /\ ~x.wait
    /\ r.pc = "insert" /\ x.inner /\ x.st # "up" => x.sig = "kill"
    /\ r.pc \in StopPcs \cup {"restart"} => x.wait
    /\ r.pc = "stop_wait" => x.st # "up" \/ x.sig # "none"
    /\ r.pc = "stop_kill" => x.st # "up" \/ x.sig = "kill"
    /\ r.from # 0 => proc[r.from].st = "sent"

EntryOK(p) ==
    entries[p] # None => proc[entries[p].epoch].wait /\ proc[entries[p].epoch].id = p

ProcInv ==
    /\ \A e \in Epochs : ProcOK(e)
    /\ \A t \in Workers : TaskProcOK(task[t])
    /\ \A t, u \in Workers : task[t].pc \in SpawnPcs /\ task[u].pc \in SpawnPcs
                               /\ task[t].epoch = task[u].epoch => t = u
    /\ \A p \in Ids : EntryOK(p)
    /\ \A k \in 1..Len(events) : proc[events[k]].st = "sent"
    /\ \A e \in abandoned : proc[e].st # "none"

-----------------------------------------------------------------------------
(* Types.                                                                  *)

\* Idle tasks and unborn processes have their types.
LEMMA IdleOK ==
  /\ Idle \in TaskRec /\ Idle.pc = "idle" /\ Idle.id = None /\ Idle.epoch = 0 /\ Idle.from = 0
  /\ Idle.count = 0 /\ ~Idle.forced
  /\ NoProcess \in Process /\ NoProcess.st = "none" /\ NoProcess.id = None /\ ~NoProcess.wait
  /\ ~NoProcess.inner /\ NoProcess.sig = "none"
  BY SupervisorAssumption DEF Idle, TaskRec, Pcs, NoProcess, Process

\* What becomes of a task, and of a process, is one.
LEMMA TaskRecOK ==
  ASSUME NEW x \in TaskRec, NEW c \in Pcs, NEW p \in Ids, NEW e \in 0..MaxEpoch, NEW n \in Nat,
         NEW f \in 0..MaxEpoch, NEW b \in BOOLEAN
  PROVE  /\ [x EXCEPT !.pc = c, !.epoch = e] \in TaskRec
         /\ [x EXCEPT !.pc = c, !.count = n] \in TaskRec
         /\ [Idle EXCEPT !.pc = c, !.id = p, !.epoch = e] \in TaskRec
         /\ [Idle EXCEPT !.pc = c, !.id = p, !.from = f, !.forced = b] \in TaskRec
<1> USE DEF TaskRec
<1>1. Idle \in TaskRec
  BY IdleOK
<1> QED
  BY <1>1

\* The same of processes.
LEMMA ProcessOK ==
  /\ \A x \in Process, s \in {"up", "dead", "reaped", "sent"} : [x EXCEPT !.st = s] \in Process
  /\ \A x \in Process, a \in BOOLEAN : [x EXCEPT !.inner = a] \in Process
  /\ \A x \in Process : [x EXCEPT !.wait = TRUE] \in Process
  /\ \A x \in Process, a, b \in BOOLEAN :
       [x EXCEPT !.st = "dead", !.ok = a, !.inner = b] \in Process
  /\ \A p \in Ids, a \in BOOLEAN :
       [NoProcess EXCEPT !.id = p, !.st = "up", !.joined = a] \in Process
<1> USE DEF Process
<1>1. NoProcess \in Process
  BY IdleOK
<1>2. \A x \in Process, s \in {"up", "dead", "reaped", "sent"} : [x EXCEPT !.st = s] \in Process
  OBVIOUS
<1>3. \A x \in Process, a \in BOOLEAN : [x EXCEPT !.inner = a] \in Process
  OBVIOUS
<1>4. \A x \in Process : [x EXCEPT !.wait = TRUE] \in Process
  OBVIOUS
<1>6. \A x \in Process, a, b \in BOOLEAN :
        [x EXCEPT !.st = "dead", !.ok = a, !.inner = b] \in Process
  OBVIOUS
<1>7. \A p \in Ids, a \in BOOLEAN :
        [NoProcess EXCEPT !.id = p, !.st = "up", !.joined = a] \in Process
  BY <1>1
<1> QED
  BY <1>2, <1>3, <1>4, <1>6, <1>7

\* Types, and what tasks see, hold at first.
LEMMA SupInit == Init => TypeInv /\ ProcInv
<1> SUFFICES ASSUME Init PROVE TypeInv /\ ProcInv
  OBVIOUS
<1>1. \A t \in Workers : task[t] = Idle
  BY DEF Init
<1>2. \A e \in Epochs : proc[e] = NoProcess
  BY DEF Init
<1>3. TypeOK
  BY <1>1, IdleOK, SupervisorAssumption DEF Init, TypeOK
<1>4. task \in [Workers -> TaskRec] /\ \A t \in Workers : TaskOK(t, task[t])
  BY <1>1, IdleOK DEF Init, TaskOK, SpawnPcs, StopPcs, MonPcs
<1>5. TypeInv
  BY <1>3, <1>4 DEF TypeInv, Init
<1>6. \A t \in Workers : TaskProcOK(task[t])
  BY <1>1, IdleOK DEF TaskProcOK, SpawnPcs, StopPcs
<1>7. \A e \in Epochs : ProcOK(e)
  BY <1>2, IdleOK DEF ProcOK
<1>8. ProcInv
  BY <1>1, <1>6, <1>7, IdleOK DEF Init, ProcInv, EntryOK, SpawnPcs
<1> QED
  BY <1>5, <1>8

\* A signal changes nothing but the pending signal of a process that is up.
LEMMA SignalledOK ==
  ASSUME proc \in [Epochs -> Process], NEW E, NEW s \in {"term", "kill"}, Kill(E, s)
  PROVE  /\ proc' \in [Epochs -> Process]
         /\ \A e \in Epochs : /\ proc'[e] = [proc[e] EXCEPT !.sig = proc'[e].sig]
                              /\ proc[e].st # "up" => proc'[e] = proc[e]
                              /\ proc[e].sig = "kill" => proc'[e] = proc[e]
                              /\ proc[e].sig # "none" => proc'[e].sig # "none"
                              /\ e \in E /\ proc[e].st = "up" => proc'[e].sig \in {s, "kill"}
  BY DEF Kill, Signalled, Process

\* One task moves.
LEMMA TaskMoves ==
  ASSUME TypeInv, NEW t \in Workers, NEW r \in TaskRec, TaskOK(t, r), task' = [task EXCEPT ![t] = r]
  PROVE  /\ task' \in [Workers -> TaskRec] /\ \A u \in Workers : TaskOK(u, task'[u])
         /\ task'[t] = r /\ \A u \in Workers : u # t => task'[u] = task[u]
<1>1. task \in [Workers -> TaskRec] /\ \A u \in Workers : TaskOK(u, task[u])
  BY DEF TypeInv
<1>2. task'[t] = r /\ \A u \in Workers : u # t => task'[u] = task[u]
  BY <1>1
<1>3. task' \in [Workers -> TaskRec]
  BY <1>1
<1>4. \A u \in Workers : TaskOK(u, task'[u])
  BY <1>1, <1>2
<1> QED
  BY <1>2, <1>3, <1>4

\* A task ends.
LEMMA TaskEnds ==
  ASSUME TypeInv, NEW t \in Workers, Finish(t)
  PROVE  /\ task' \in [Workers -> TaskRec] /\ \A u \in Workers : TaskOK(u, task'[u])
         /\ task'[t] = Idle /\ \A u \in Workers : u # t => task'[u] = task[u]
<1>1. Idle \in TaskRec /\ TaskOK(t, Idle)
  BY IdleOK DEF TaskOK, SpawnPcs, StopPcs, MonPcs
<1> QED
  BY <1>1, TaskMoves DEF Finish

\* A task goes on with the same work.
LEMMA TaskGoes ==
  ASSUME TypeInv, NEW t \in Workers, NEW loc, Goto(t, loc),
         \/ task[t].pc \in SpawnPcs /\ loc \in SpawnPcs
         \/ task[t].pc \in StopPcs /\ loc \in StopPcs
         \/ task[t].pc \in MonPcs /\ loc \in MonPcs
  PROVE  /\ task' \in [Workers -> TaskRec] /\ \A u \in Workers : TaskOK(u, task'[u])
         /\ task'[t] = [task[t] EXCEPT !.pc = loc]
         /\ \A u \in Workers : u # t => task'[u] = task[u]
<1>1. task[t] \in TaskRec /\ TaskOK(t, task[t])
  BY DEF TypeInv
<1>2. PICK r : r = [task[t] EXCEPT !.pc = loc]
  OBVIOUS
<1>3. r \in TaskRec
  BY <1>1, <1>2 DEF TaskRec, Pcs
<1>4. TaskOK(t, r)
  BY <1>1, <1>2 DEF TaskOK, TaskRec, SpawnPcs, StopPcs, MonPcs
<1>5. task' = [task EXCEPT ![t] = r]
  BY <1>2 DEF Goto
<1> QED
  BY <1>2, <1>3, <1>4, <1>5, TaskMoves

\* A cleanup removes a scope, or somebody else will, or it is on record; a scope
\* on record stays there until it is removed.
LEMMA CleanupOK ==
  ASSUME NEW p, NEW procs, Cleanup(p, procs)
  PROVE  /\ scopes' \subseteq scopes /\ scopes \subseteq scopes' \cup {p}
         /\ p \in scopes' => Attended(p, procs) \/ p \in leftover'
         /\ \A q \in leftover : q \in leftover' \/ q \notin scopes'
  BY DEF Cleanup

\* Every step keeps the types.
LEMMA TypeStep == TypeInv /\ ProcInv /\ [Next]_vars => TypeInv'
<1> SUFFICES ASSUME TypeInv, ProcInv, [Next]_vars PROVE TypeInv'
  OBVIOUS
<1>c. MaxEpoch \in Nat /\ QueueCap \in Nat
  BY SupervisorAssumption
<1>p. proc \in [Epochs -> Process]
  BY DEF TypeInv, TypeOK
<1>0. /\ TypeOK /\ task \in [Workers -> TaskRec] /\ \A t \in Workers : TaskOK(t, task[t])
      /\ Tasks \subseteq Workers /\ Monitor \in Workers
  BY DEF TypeInv, Workers
<1>t. ASSUME TypeInv, task' \in [Workers -> TaskRec], \A t \in Workers : TaskOK(t, task'[t]),
             entries' \in [Ids -> Entry \cup {None}], next_epoch' \in 0..MaxEpoch,
             forced_restarts' \subseteq Ids, stopped_epochs' \in [Ids -> 0..MaxEpoch],
             events' \in Seq(Epochs), Len(events') <= QueueCap, scopes' \subseteq Ids,
             proc' \in [Epochs -> Process],
             phase' \in {"run", "notified", "termed", "grace", "drained", "down"},
             doomed' \subseteq Epochs,
             manual' \in [Ids -> Nat], halted' \subseteq Ids, abandoned' \subseteq Epochs
      PROVE  TypeInv'
  <2>1. \A t \in Workers : /\ task'[t].id \in Ids \cup {None}
                           /\ task'[t].epoch \in 0..MaxEpoch
                           /\ task'[t].from \in 0..MaxEpoch
    BY <1>t DEF TaskRec
  <2> QED
    BY <1>t, <2>1 DEF TypeInv, TypeOK
<1>1. ASSUME NEW t \in Tasks, NEW p \in Ids, SpawnCheck(t, p) PROVE TypeInv'
  <2>2. /\ next_epoch' = next_epoch + 1 /\ next_epoch' \in 1..MaxEpoch
        /\ next_epoch + 1 \in 0..MaxEpoch
    BY <1>0, <1>c, <1>1 DEF SpawnCheck, TypeOK
  <2>1. PICK x \in TaskRec : x = [Idle EXCEPT !.pc = "prepare", !.id = p, !.epoch = next_epoch + 1]
    <3>1. "prepare" \in Pcs
      BY DEF Pcs, SpawnPcs
    <3> QED
      BY <2>2, <3>1, IdleOK, TaskRecOK
  <2>3. TaskOK(t, x) /\ task' = [task EXCEPT ![t] = x]
    BY <1>1, <2>1, <2>2 DEF SpawnCheck, TaskOK, SpawnPcs, StopPcs, MonPcs, Idle, Epochs
  <2>4. task' \in [Workers -> TaskRec] /\ \A u \in Workers : TaskOK(u, task'[u])
    BY <1>0, <2>3, TaskMoves
  <2> QED
    BY <1>0, <1>1, <1>t, <2>2, <2>4 DEF SpawnCheck, TypeInv, TypeOK
<1>2. ASSUME NEW t \in Tasks, NEW p \in Ids, StopRemove(t, p) \/ RestartLook(t, p) PROVE TypeInv'
  <2>1. PICK c \in {"stop_mark", "restart"} :
          task' = [task EXCEPT ![t] = [Idle EXCEPT !.pc = c, !.id = p, !.epoch = entries[p].epoch]]
    BY <1>2 DEF StopRemove, RestartLook
  <2>2. entries[p].epoch \in Epochs
    BY <1>0, <1>2 DEF StopRemove, RestartLook, TypeOK, Entry
  <2>3. PICK x \in TaskRec : x = [Idle EXCEPT !.pc = c, !.id = p, !.epoch = entries[p].epoch]
    <3>1. c \in Pcs /\ entries[p].epoch \in 0..MaxEpoch
      BY <1>c, <2>2 DEF Pcs, StopPcs, Epochs
    <3> QED
      BY <3>1, IdleOK, TaskRecOK
  <2>4. TaskOK(t, x) /\ task' = [task EXCEPT ![t] = x]
    BY <2>1, <2>2, <2>3 DEF TaskOK, SpawnPcs, StopPcs, MonPcs, Idle
  <2>5. task' \in [Workers -> TaskRec] /\ \A u \in Workers : TaskOK(u, task'[u])
    BY <1>0, <2>4, TaskMoves
  <2>6. entries' \in [Ids -> Entry \cup {None}]
    BY <1>0, <1>2 DEF StopRemove, RestartLook, sup, TypeOK
  <2> QED
    BY <1>0, <1>2, <1>t, <2>5, <2>6 DEF StopRemove, RestartLook, sup, history, TypeInv, TypeOK
<1>3. ASSUME NEW t \in Workers, SpawnPrepare(t) PROVE TypeInv'
  <2>1. task' \in [Workers -> TaskRec] /\ \A u \in Workers : TaskOK(u, task'[u])
    BY <1>3, TaskGoes DEF SpawnPrepare, At, SpawnPcs
  <2>2. scopes' \subseteq Ids
    BY <1>0, <1>3 DEF SpawnPrepare, At, prepare_pids_cgroup, TypeOK, TaskOK
  <2> QED
    BY <1>0, <1>3, <1>t, <2>1, <2>2 DEF SpawnPrepare, sup, TypeInv, TypeOK
<1>4. ASSUME NEW t \in Workers, SpawnExec(t) PROVE TypeInv'
  <2>1. task' \in [Workers -> TaskRec] /\ \A u \in Workers : TaskOK(u, task'[u])
    BY <1>4, TaskGoes DEF SpawnExec, At, SpawnPcs
  <2>2. task[t].id \in Ids
    BY <1>0, <1>4 DEF SpawnExec, At, TaskOK
  <2>3. [NoProcess EXCEPT !.id = task[t].id, !.st = "up",
                          !.joined = join_pids_cgroup(task[t].id)] \in Process
    <3>1. join_pids_cgroup(task[t].id) \in BOOLEAN
      BY DEF join_pids_cgroup
    <3> QED
      BY <2>2, <3>1, ProcessOK
  <2>4. proc' \in [Epochs -> Process]
    BY <1>0, <1>4, <2>3 DEF SpawnExec, TypeOK
  <2> QED
    BY <1>0, <1>4, <1>t, <2>1, <2>4 DEF SpawnExec, sup, history, TypeInv, TypeOK
<1>5. ASSUME NEW t \in Workers, SpawnFails(t) PROVE TypeInv'
  <2>1. task' \in [Workers -> TaskRec] /\ \A u \in Workers : TaskOK(u, task'[u])
    BY <1>5, TaskEnds DEF SpawnFails
  <2>2. scopes' \subseteq Ids
    BY <1>0, <1>5, CleanupOK DEF SpawnFails, TypeOK
  <2> QED
    BY <1>0, <1>5, <1>t, <2>1, <2>2 DEF SpawnFails, sup, TypeInv, TypeOK
<1>6. ASSUME NEW t \in Workers, HandshakeOk(t) PROVE TypeInv'
  <2>1. task' \in [Workers -> TaskRec] /\ \A u \in Workers : TaskOK(u, task'[u])
    BY <1>6, TaskGoes DEF HandshakeOk, At, SpawnPcs
  <2> QED
    BY <1>0, <1>6, <1>t, <2>1 DEF HandshakeOk, sup, history, TypeInv, TypeOK
<1>7. ASSUME NEW t \in Workers, HandshakeEof(t) PROVE TypeInv'
  <2>1. task' \in [Workers -> TaskRec] /\ \A u \in Workers : TaskOK(u, task'[u])
    BY <1>7, TaskEnds DEF HandshakeEof
  <2>2. proc' \in [Epochs -> Process]
    <3>1. \A e \in Epochs : [proc[e] EXCEPT !.st = "sent"] \in Process
      BY <1>p, ProcessOK
    <3> QED
      BY <1>0, <1>7, <3>1 DEF HandshakeEof, TypeOK
  <2>3. scopes' \subseteq Ids
    BY <1>0, <1>7, CleanupOK DEF HandshakeEof, TypeOK
  <2> QED
    BY <1>0, <1>7, <1>t, <2>1, <2>2, <2>3 DEF HandshakeEof, sup, TypeInv, TypeOK
<1>8. ASSUME NEW t \in Workers, HandshakeTimeout(t) PROVE TypeInv'
  <2>1. task' \in [Workers -> TaskRec] /\ \A u \in Workers : TaskOK(u, task'[u])
    BY <1>8, TaskEnds DEF HandshakeTimeout
  <2>2. task[t].epoch \in Epochs
    BY <1>0, <1>8 DEF HandshakeTimeout, At, TaskOK, SpawnPcs
  <2> QED
    BY <1>0, <1>8, <1>t, <2>1, <2>2 DEF HandshakeTimeout, sup, TypeInv, TypeOK
<1>9. ASSUME NEW t \in Workers, SpawnInsert(t) PROVE TypeInv'
  <2>1. task' \in [Workers -> TaskRec] /\ \A u \in Workers : TaskOK(u, task'[u])
    BY <1>9, TaskEnds DEF SpawnInsert
  <2>2. [epoch |-> task[t].epoch, count |-> task[t].count] \in Entry
    BY <1>0, <1>9 DEF SpawnInsert, At, TaskOK, SpawnPcs, TaskRec, Entry
  <2>3. entries' \in [Ids -> Entry \cup {None}]
    BY <1>0, <1>9, <2>2 DEF SpawnInsert, TypeOK
  <2>4. proc' \in [Epochs -> Process]
    <3>1. \A e \in Epochs : [proc[e] EXCEPT !.wait = TRUE] \in Process
      BY <1>p, ProcessOK
    <3> QED
      BY <1>0, <1>9, <3>1 DEF SpawnInsert, TypeOK
  <2> QED
    BY <1>0, <1>9, <1>t, <2>1, <2>3, <2>4 DEF SpawnInsert, history, TypeInv, TypeOK
<1>10. ASSUME NEW e \in Epochs, ShimForks(e) \/ Exit(e) \/ InnerDies(e) PROVE TypeInv'
  <2>1. proc' \in [Epochs -> Process]
    <3>1. \A a, b \in BOOLEAN : /\ [proc[e] EXCEPT !.st = "dead", !.ok = a, !.inner = b] \in Process
                                /\ [proc[e] EXCEPT !.inner = a] \in Process
      BY <1>p, ProcessOK
    <3>2. CASE Exit(e)
      BY ZenonT(30), <1>p, <3>1, <3>2 DEF Exit
    <3>3. CASE ShimForks(e) \/ InnerDies(e)
      BY <1>p, <3>1, <3>3 DEF ShimForks, InnerDies
    <3> QED
      BY <1>10, <3>2, <3>3
  <2> QED
    BY <1>0, <1>10, <1>t, <2>1 DEF ShimForks, Exit, InnerDies, sup, history, TypeInv, TypeOK
<1>11. ASSUME NEW e \in Epochs, Reap(e) PROVE TypeInv'
  <2>1. proc' \in [Epochs -> Process]
    <3>1. [proc[e] EXCEPT !.st = "reaped"] \in Process
      BY <1>p, ProcessOK
    <3> QED
      BY <1>0, <1>11, <3>1 DEF Reap, TypeOK
  <2>2. scopes' \subseteq Ids
    BY <1>0, <1>11, CleanupOK DEF Reap, TypeOK
  <2> QED
    BY <1>0, <1>11, <1>t, <2>1, <2>2 DEF Reap, sup, TypeInv, TypeOK
<1>12. ASSUME NEW e \in Epochs, SendExit(e) PROVE TypeInv'
  <2>1. proc' \in [Epochs -> Process]
    <3>1. [proc[e] EXCEPT !.st = "sent"] \in Process
      BY <1>p, ProcessOK
    <3> QED
      BY <1>0, <1>12, <3>1 DEF SendExit, TypeOK
  <2>2. events' \in Seq(Epochs) /\ Len(events') <= QueueCap
    BY <1>0, <1>c, <1>12 DEF SendExit, TypeOK
  <2> QED
    BY <1>0, <1>12, <1>t, <2>1, <2>2 DEF SendExit, sup, history, TypeInv, TypeOK
<1>13. ASSUME NEW t \in Tasks, StopMark(t) PROVE TypeInv'
  <2>1. task' \in [Workers -> TaskRec] /\ \A u \in Workers : TaskOK(u, task'[u])
    BY <1>0, <1>13, TaskGoes DEF StopMark, At, StopPcs
  <2>2. task[t].epoch \in 0..MaxEpoch /\ task[t].id \in Ids
    BY <1>0, <1>13 DEF StopMark, At, TaskOK, TaskRec
  <2>3. stopped_epochs' \in [Ids -> 0..MaxEpoch]
    BY <1>0, <1>13, <2>2 DEF StopMark, TypeOK
  <2> QED
    BY <1>0, <1>13, <1>t, <2>1, <2>2, <2>3 DEF StopMark, TypeInv, TypeOK
<1>14. ASSUME NEW t \in Tasks, StopSignal(t) \/ StopEscalate(t) PROVE TypeInv'
  <2>1. task' \in [Workers -> TaskRec] /\ \A u \in Workers : TaskOK(u, task'[u])
    BY <1>0, <1>14, TaskGoes DEF StopSignal, StopEscalate, At, StopPcs
  <2>2. proc' \in [Epochs -> Process]
    BY <1>0, <1>14, SignalledOK DEF StopSignal, StopEscalate, TypeOK
  <2> QED
    BY <1>0, <1>14, <1>t, <2>1, <2>2 DEF StopSignal, StopEscalate, sup, history, TypeInv, TypeOK
<1>15. ASSUME NEW t \in Tasks, StopExited(t) \/ StopGivesUp(t) PROVE TypeInv'
  <2>1. task' \in [Workers -> TaskRec] /\ \A u \in Workers : TaskOK(u, task'[u])
    BY <1>0, <1>15, TaskEnds DEF StopExited, StopGivesUp
  <2> QED
    BY <1>0, <1>15, <1>t, <2>1 DEF StopExited, StopGivesUp, sup, history, TypeInv, TypeOK
<1>16. ASSUME NEW t \in Tasks, RestartSignal(t) PROVE TypeInv'
  <2>1. task' \in [Workers -> TaskRec] /\ \A u \in Workers : TaskOK(u, task'[u])
    BY <1>0, <1>16, TaskEnds DEF RestartSignal
  <2>2. proc' \in [Epochs -> Process]
    BY <1>0, <1>16, SignalledOK DEF RestartSignal, TypeOK
  <2>3. task[t].id \in Ids
    BY <1>0, <1>16 DEF RestartSignal, At, TaskOK
  <2>4. manual' \in [Ids -> Nat]
    BY <1>16, <2>3 DEF RestartSignal, TypeInv
  <2> QED
    BY <1>0, <1>16, <1>t, <2>1, <2>2, <2>3, <2>4 DEF RestartSignal, TypeInv, TypeOK
<1>17. CASE MonRecv
  <2>1. PICK e \in Epochs : e = Head(events) /\ e = events[1] /\ 1 \in 1..Len(events)
    BY <1>0, <1>17 DEF MonRecv, TypeOK
  <2>2. proc[e].st = "sent" /\ proc[e].id \in Ids
    BY <2>1 DEF ProcInv, ProcOK
  <2>3. events' \in Seq(Epochs) /\ Len(events') <= QueueCap
    BY <1>0, <1>c, <1>17 DEF MonRecv, TypeOK
  <2>4. PICK x \in TaskRec :
          x = [Idle EXCEPT !.pc = "decide", !.id = proc[e].id, !.from = e,
                           !.forced = (proc[e].id \in forced_restarts)]
    <3>1. "decide" \in Pcs /\ e \in 0..MaxEpoch /\ (proc[e].id \in forced_restarts) \in BOOLEAN
      BY <1>c, <2>1 DEF Pcs, MonPcs, Epochs
    <3> QED
      BY <2>2, <3>1, IdleOK, TaskRecOK
  <2>5. TaskOK(Monitor, x)
    BY <2>1, <2>2, <2>4 DEF TaskOK, SpawnPcs, StopPcs, MonPcs, Idle
  <2>6. task' = task \/ task' = [task EXCEPT ![Monitor] = x]
    BY <1>17, <2>1, <2>4 DEF MonRecv
  <2>7. task' \in [Workers -> TaskRec] /\ \A u \in Workers : TaskOK(u, task'[u])
    BY <1>0, <2>5, <2>6, TaskMoves
  <2> QED
    BY <1>0, <1>17, <1>t, <2>3, <2>7 DEF MonRecv, history, TypeInv, TypeOK
<1>18. CASE MonDecide
  <2>1. task[Monitor] \in TaskRec /\ TaskOK(Monitor, task[Monitor]) /\ task[Monitor].pc = "decide"
    BY <1>0, <1>18 DEF MonDecide, At
  <2>2. CASE Goto(Monitor, "drop")
    <3>1. task' \in [Workers -> TaskRec] /\ \A u \in Workers : TaskOK(u, task'[u])
      BY <1>0, <2>1, <2>2, TaskGoes DEF MonPcs
    <3> QED
      BY <1>0, <1>18, <1>t, <3>1 DEF MonDecide, sup, history, TypeInv, TypeOK
  <2>3. CASE ~Goto(Monitor, "drop")
    <3>1. /\ entries[task[Monitor].id] # None
          /\ task' = [task EXCEPT ![Monitor].pc = "backoff",
                                  ![Monitor].count = entries[task[Monitor].id].count + 1]
      BY <1>18, <2>3 DEF MonDecide, Goto, ShouldRestart
    <3>2. entries[task[Monitor].id].count \in Nat
      BY <1>0, <2>1, <3>1 DEF TaskOK, TypeOK, Entry
    <3>3. PICK x : x = [task[Monitor] EXCEPT !.pc = "backoff",
                                             !.count = entries[task[Monitor].id].count + 1]
      OBVIOUS
    <3>4. x \in TaskRec
      <4>1. "backoff" \in Pcs /\ entries[task[Monitor].id].count + 1 \in Nat
        BY <3>2 DEF Pcs, MonPcs
      <4> QED
        BY <2>1, <3>3, <4>1, <1>c, TaskRecOK DEF TaskRec
    <3>5. TaskOK(Monitor, x) /\ task' = [task EXCEPT ![Monitor] = x]
      BY <1>0, <2>1, <3>1, <3>3 DEF TaskOK, TaskRec, SpawnPcs, StopPcs, MonPcs
    <3>6. task' \in [Workers -> TaskRec] /\ \A u \in Workers : TaskOK(u, task'[u])
      BY <1>0, <3>4, <3>5, TaskMoves
    <3> QED
      BY <1>0, <1>18, <1>t, <3>6 DEF MonDecide, sup, history, TypeInv, TypeOK
  <2> QED
    BY <2>2, <2>3
<1>19. CASE MonWake
  <2>1. task[Monitor] \in TaskRec /\ TaskOK(Monitor, task[Monitor]) /\ task[Monitor].pc = "backoff"
    BY <1>0, <1>19 DEF MonWake, At
  <2>2. CASE Finish(Monitor) /\ UNCHANGED next_epoch
    <3>1. task' \in [Workers -> TaskRec] /\ \A u \in Workers : TaskOK(u, task'[u])
      BY <1>0, <2>2, TaskEnds
    <3> QED
      BY <1>0, <1>19, <1>t, <2>2, <3>1 DEF MonWake, history, TypeInv, TypeOK
  <2>3. CASE ~(Finish(Monitor) /\ UNCHANGED next_epoch)
    <3>1. /\ next_epoch' = next_epoch + 1 /\ next_epoch' \in 1..MaxEpoch
          /\ task' = [task EXCEPT ![Monitor].pc = "prepare", ![Monitor].epoch = next_epoch']
      BY SMTT(20), <1>0, <1>c, <1>19, <2>3 DEF MonWake, TypeOK
    <3>2. PICK x : x = [task[Monitor] EXCEPT !.pc = "prepare", !.epoch = next_epoch + 1]
      OBVIOUS
    <3>3. x \in TaskRec
      <4>1. "prepare" \in Pcs /\ next_epoch + 1 \in 0..MaxEpoch
        BY <1>c, <3>1 DEF Pcs, SpawnPcs
      <4> QED
        BY <2>1, <3>2, <4>1, <1>c, TaskRecOK DEF TaskRec
    <3>4. TaskOK(Monitor, x) /\ task' = [task EXCEPT ![Monitor] = x]
      BY <1>0, <2>1, <3>1, <3>2 DEF TaskOK, TaskRec, SpawnPcs, StopPcs, MonPcs, Epochs
    <3>5. task' \in [Workers -> TaskRec] /\ \A u \in Workers : TaskOK(u, task'[u])
      BY <1>0, <3>3, <3>4, TaskMoves
    <3> QED
      BY <1>0, <1>19, <1>t, <3>1, <3>5 DEF MonWake, history, TypeInv, TypeOK
  <2> QED
    BY <2>2, <2>3
<1>20. CASE MonDrop
  <2>1. task' \in [Workers -> TaskRec] /\ \A u \in Workers : TaskOK(u, task'[u])
    BY <1>0, <1>20, TaskEnds DEF MonDrop
  <2>2. entries' \in [Ids -> Entry \cup {None}]
    BY <1>0, <1>20 DEF MonDrop, TypeOK
  <2> QED
    BY <1>0, <1>20, <1>t, <2>1, <2>2 DEF MonDrop, history, TypeInv, TypeOK
<1>21. ASSUME NEW E, NEW s \in {"term", "kill"}, Kill(E, s) \/ UNCHANGED proc,
              UNCHANGED <<sup, events, scopes, task, history>>, doomed' \subseteq Epochs,
              phase' \in {"run", "notified", "termed", "grace", "drained", "down"}
       PROVE  TypeInv'
  <2>1. proc' \in [Epochs -> Process]
    BY <1>0, <1>21, SignalledOK DEF TypeOK
  <2> QED
    BY <1>0, <1>21, <1>t, <2>1 DEF sup, history, TypeInv, TypeOK
<1>22. Registered \subseteq Epochs /\ doomed \subseteq Epochs
  BY <1>0 DEF Registered, TypeOK, Entry
<1>23. ASSUME NEW e \in Epochs, WatchdogKill(e) PROVE TypeInv'
  BY <1>0, <1>21, <1>22, <1>23 DEF WatchdogKill, TypeOK
<1>24. CASE ShutTerm \/ ShutKill
  BY <1>21, <1>22, <1>24 DEF ShutTerm, ShutKill
<1>25. CASE ShutBegin \/ ShutCollect
  BY <1>21, <1>22, <1>25 DEF ShutBegin, ShutCollect
<1>26. CASE ShutAbort
  BY <1>21, <1>22, <1>26 DEF ShutAbort
<1>27. CASE UNCHANGED vars
  BY <1>0, <1>t, <1>27 DEF vars, sup, history, TypeInv, TypeOK
<1> QED
  BY <1>1, <1>2, <1>3, <1>4, <1>5, <1>6, <1>7, <1>8, <1>9, <1>10, <1>11, <1>12, <1>13, <1>14,
     <1>15, <1>16, <1>17, <1>18, <1>19, <1>20, <1>23, <1>24, <1>25, <1>26, <1>27
  DEF Next, Spawning, Stopping, Monitoring, Shutdown, Quiet

-----------------------------------------------------------------------------
(* Processes and the tasks that work on them.                              *)

\* What any step may do to a process,
Grows(e) ==
    /\ proc[e].st # "none" => proc'[e].st # "none" /\ proc'[e].id = proc[e].id
    /\ proc[e].wait => proc'[e].wait
    /\ proc[e].st = "sent" => proc'[e].st = "sent"
    /\ proc[e].st \notin {"none", "up"} => proc'[e].st # "up"
    /\ proc[e].sig # "none" => proc'[e].sig # "none"
    /\ proc[e].sig = "kill" => proc'[e].sig = "kill"

\* and what it may do without the task that spawns it noticing.
Evolves(e) ==
    /\ Grows(e)
    /\ proc[e].st = "none" => proc'[e] = proc[e]
    /\ proc[e].st # "none" =>
         /\ proc'[e].wait = proc[e].wait
         /\ proc'[e].inner /\ proc'[e].st # "up" =>
              proc'[e].sig = "kill" \/ (proc[e].inner /\ proc[e].st # "up") \/ Unreported(e)

\* Tasks, entries, exit events and abandoned shims keep what they rely on.
LEMMA GrowsKeeps ==
  ASSUME TypeInv, ProcInv, TypeInv', next_epoch <= next_epoch',
         \A e \in Epochs : Grows(e) /\ ProcOK(e)',
         \A e \in Epochs : \/ Evolves(e)
                           \/ \A t \in Workers : task[t].pc \in SpawnPcs /\ task[t].epoch = e
                                                   => TaskProcOK(task[t])',
         \A t \in Workers : task'[t] = task[t] \/ task'[t] = Idle \/ TaskProcOK(task[t])',
         \A t \in Workers : task'[t].pc \in SpawnPcs =>
           \/ task[t].pc \in SpawnPcs /\ task'[t].epoch = task[t].epoch
           \/ task'[t].epoch > next_epoch /\ \A u \in Workers \ {t} : task'[u] = task[u],
         \A p \in Ids : entries'[p] = entries[p] \/ entries'[p] = None \/ EntryOK(p)',
         \A k \in 1..Len(events') :
           proc'[events'[k]].st = "sent" \/ \E i \in 1..Len(events) : events'[k] = events[i],
         \A e \in abandoned' : e \in abandoned \/ proc'[e].st # "none"
  PROVE  ProcInv'
<1>0. /\ task \in [Workers -> TaskRec] /\ \A t \in Workers : TaskOK(t, task[t])
      /\ events \in Seq(Epochs) /\ MaxEpoch \in Nat /\ next_epoch \in Nat /\ next_epoch' \in Nat
      /\ entries \in [Ids -> Entry \cup {None}]
      /\ abandoned \subseteq Epochs
  BY SupervisorAssumption DEF TypeInv, TypeOK
<1>1. \A t \in Workers : TaskProcOK(task[t])'
  <2> SUFFICES ASSUME NEW t \in Workers PROVE TaskProcOK(task[t])'
    OBVIOUS
  <2>1. CASE task'[t] = task[t]
    <3>1. TaskProcOK(task[t]) /\ TaskOK(t, task[t]) /\ task[t] \in TaskRec
      BY <1>0 DEF ProcInv
    <3>2. task[t].from # 0 => task[t].from \in Epochs
      BY <1>0, <3>1 DEF TaskRec, Epochs
    <3>3. task[t].pc \in SpawnPcs \cup StopPcs \cup {"restart"} => task[t].epoch \in Epochs
      BY <3>1 DEF TaskOK
    <3>4. /\ NoProcess.st = "none" /\ \A e \in Epochs : Grows(e)
          /\ \A e \in Epochs : proc[e].st = "none" => proc[e] = NoProcess
          /\ ~NoProcess.wait /\ task[t].epoch \in Int
      BY IdleOK, <1>0, <3>1 DEF ProcInv, ProcOK, TaskRec
    <3>5. CASE task[t].pc \in SpawnPcs
      <4>1. Evolves(task[t].epoch) \/ TaskProcOK(task[t])'
        BY <3>3, <3>5
      <4>2. CASE Evolves(task[t].epoch)
        BY <1>0, <2>1, <3>1, <3>2, <3>3, <3>4, <3>5, <4>2
        DEF TaskProcOK, Evolves, Grows, SpawnPcs, StopPcs, Unreported
      <4> QED
        BY <4>1, <4>2
    <3>6. CASE task[t].pc \in StopPcs \cup {"restart"}
      BY <2>1, <3>1, <3>2, <3>3, <3>4, <3>6 DEF TaskProcOK, Grows, SpawnPcs, StopPcs
    <3>7. CASE task[t].pc \notin SpawnPcs \cup StopPcs \cup {"restart"}
      BY <2>1, <3>1, <3>2, <3>4, <3>7 DEF TaskProcOK, Grows, SpawnPcs, StopPcs
    <3> QED
      BY <3>5, <3>6, <3>7
  <2>2. CASE task'[t] = Idle
    BY <2>2, IdleOK DEF TaskProcOK, SpawnPcs, StopPcs
  <2> QED
    BY <2>1, <2>2
<1>2. \A p \in Ids : EntryOK(p)'
  <2> SUFFICES ASSUME NEW p \in Ids, entries'[p] # None, entries'[p] = entries[p] PROVE EntryOK(p)'
    BY DEF EntryOK
  <2>1. entries[p] \in Entry /\ entries'[p] = entries[p] /\ EntryOK(p)
    BY <1>0 DEF ProcInv
  <2>2. PICK e \in Epochs : e = entries[p].epoch
    BY <2>1 DEF Entry
  <2>3. proc[e].wait /\ proc[e].id = p /\ proc[e].st # "none"
    BY <2>1, <2>2, IdleOK DEF EntryOK, ProcInv, ProcOK
  <2> QED
    BY <2>1, <2>2, <2>3 DEF EntryOK, Grows
<1>3. \A k \in 1..Len(events') : proc'[events'[k]].st = "sent"
  <2> SUFFICES ASSUME NEW k \in 1..Len(events'), NEW i \in 1..Len(events), events'[k] = events[i]
               PROVE  proc'[events'[k]].st = "sent"
    OBVIOUS
  <2>1. events[i] \in Epochs /\ proc[events[i]].st = "sent"
    BY <1>0 DEF ProcInv
  <2> QED
    BY <2>1 DEF Grows
<1>4. \A e \in abandoned' : proc'[e].st # "none"
  BY <1>0 DEF ProcInv, Grows
<1>5. \A t, u \in Workers : task'[t].pc \in SpawnPcs /\ task'[u].pc \in SpawnPcs
                              /\ task'[t].epoch = task'[u].epoch => t = u
  <2>1. \A t \in Workers : task[t].pc \in SpawnPcs => task[t].epoch <= next_epoch
    BY DEF ProcInv, TaskProcOK
  <2>2. \A t \in Workers : task[t].epoch \in Nat
    BY <1>0 DEF TaskRec
  <2> SUFFICES ASSUME NEW t \in Workers, NEW u \in Workers, t # u, task'[t].pc \in SpawnPcs,
                      task'[u].pc \in SpawnPcs, task'[t].epoch = task'[u].epoch
               PROVE  FALSE
    OBVIOUS
  <2>3. CASE task[t].pc \in SpawnPcs /\ task'[t].epoch = task[t].epoch
    <3>1. CASE task[u].pc \in SpawnPcs /\ task'[u].epoch = task[u].epoch
      BY <2>3, <3>1 DEF ProcInv
    <3>2. CASE task'[u].epoch > next_epoch
      BY <1>0, <2>1, <2>2, <2>3, <3>2
    <3> QED
      BY <3>1, <3>2
  <2>4. CASE task'[t].epoch > next_epoch /\ \A v \in Workers \ {t} : task'[v] = task[v]
    BY <1>0, <2>1, <2>2, <2>4
  <2> QED
    BY <2>3, <2>4
<1> QED
  BY <1>1, <1>2, <1>3, <1>4, <1>5 DEF ProcInv

\* Steps that leave processes alone, and steps that signal them.
LEMMA StillKeeps ==
  ASSUME TypeInv, ProcInv, TypeInv', UNCHANGED proc, next_epoch <= next_epoch'
  PROVE  \A e \in Epochs : Evolves(e) /\ Grows(e) /\ ProcOK(e)'
<1>1. next_epoch \in Nat /\ next_epoch' \in Nat /\ Epochs \subseteq Nat /\ MaxEpoch \in Nat
  BY SupervisorAssumption DEF TypeInv, TypeOK, Epochs
<1> QED
  BY <1>1 DEF ProcInv, ProcOK, Evolves, Grows

\* The latter.
LEMMA SignalKeeps ==
  ASSUME TypeInv, ProcInv, NEW E, NEW s \in {"term", "kill"}, Kill(E, s), UNCHANGED next_epoch
  PROVE  \A e \in Epochs : Evolves(e) /\ Grows(e) /\ ProcOK(e)'
<1> SUFFICES ASSUME NEW e \in Epochs PROVE Evolves(e) /\ Grows(e) /\ ProcOK(e)'
  OBVIOUS
<1>1. proc \in [Epochs -> Process] /\ proc[e] \in Process /\ ProcOK(e)
  BY DEF TypeInv, TypeOK, ProcInv
<1>2. /\ proc'[e] = [proc[e] EXCEPT !.sig = proc'[e].sig]
      /\ (proc[e].st # "up" => proc'[e] = proc[e])
      /\ (proc[e].sig = "kill" => proc'[e] = proc[e])
      /\ (proc[e].sig # "none" => proc'[e].sig # "none")
  BY <1>1, SignalledOK
<1>3. /\ proc'[e].st = proc[e].st /\ proc'[e].id = proc[e].id /\ proc'[e].wait = proc[e].wait
      /\ proc'[e].inner = proc[e].inner /\ (proc[e].st # "up" => proc'[e] = proc[e])
      /\ (proc[e].sig = "kill" => proc'[e] = proc[e])
      /\ (proc[e].sig # "none" => proc'[e].sig # "none")
  BY <1>1, <1>2, SignalledOK DEF Process
<1> QED
  BY <1>1, <1>3, IdleOK DEF ProcOK, Evolves, Grows

\* The process that is not there yet does not count for tasks.
LEMMA MoveKeeps ==
  ASSUME TypeInv, ProcInv, TypeInv', \A e \in Epochs : Evolves(e) /\ Grows(e) /\ ProcOK(e)',
         UNCHANGED <<next_epoch, abandoned>>,
         \A t \in Workers : \/ task'[t] = task[t] \/ task'[t] = Idle
                            \/ task'[t].pc \notin SpawnPcs /\ TaskProcOK(task[t])',
         \A p \in Ids : entries'[p] = entries[p] \/ entries'[p] = None,
         \A k \in 1..Len(events') :
           proc'[events'[k]].st = "sent" \/ \E i \in 1..Len(events) : events'[k] = events[i]
  PROVE  ProcInv'
<1>1. next_epoch \in Nat /\ next_epoch <= next_epoch'
  BY SupervisorAssumption DEF TypeInv, TypeOK
<1>2. \A t \in Workers : task'[t].pc \in SpawnPcs =>
           task[t].pc \in SpawnPcs /\ task'[t].epoch = task[t].epoch
  BY IdleOK DEF SpawnPcs
<1> QED
  BY <1>1, <1>2, GrowsKeeps

\* Every step keeps what tasks rely on.
LEMMA ProcStep == TypeInv /\ ProcInv /\ TypeInv' /\ [Next]_vars => ProcInv'
<1> SUFFICES ASSUME TypeInv, ProcInv, TypeInv', [Next]_vars PROVE ProcInv'
  OBVIOUS
<1>c. /\ MaxEpoch \in Nat /\ next_epoch \in Nat /\ next_epoch' \in Nat /\ next_epoch <= next_epoch
      /\ Epochs \subseteq Nat
  BY SupervisorAssumption DEF TypeInv, TypeOK, Epochs
<1>0. /\ TypeOK /\ task \in [Workers -> TaskRec] /\ \A t \in Workers : TaskOK(t, task[t])
      /\ Tasks \subseteq Workers /\ Monitor \in Workers /\ proc \in [Epochs -> Process]
      /\ \A t \in Workers : TaskProcOK(task[t])
      /\ \A e \in Epochs : ProcOK(e)
      /\ \A p \in Ids : EntryOK(p)
  BY DEF TypeInv, TypeOK, Workers, ProcInv
<1>ev. events' = events => \A k \in 1..Len(events') : \E i \in 1..Len(events) : events'[k] = events[i]
  OBVIOUS
<1>one. ASSUME NEW e \in Epochs, \A f \in Epochs : f # e => proc'[f] = proc[f],
               UNCHANGED next_epoch
        PROVE  \A f \in Epochs : f # e => Evolves(f) /\ Grows(f) /\ ProcOK(f)'
  BY <1>0, <1>one DEF Evolves, Grows, ProcOK
<1>1. ASSUME NEW t \in Workers, NEW r, task' = [task EXCEPT ![t] = r], r.pc = "prepare",
             r.epoch = next_epoch + 1, r.from # 0 => proc[r.from].st = "sent",
             next_epoch' = next_epoch + 1,
             UNCHANGED <<entries, proc, events, abandoned>>
      PROVE  ProcInv'
  <2>1. next_epoch <= next_epoch'
    BY <1>c, <1>1
  <2>2. \A e \in Epochs : Evolves(e) /\ Grows(e) /\ ProcOK(e)'
    BY <1>1, <2>1, StillKeeps
  <2>3. task'[t] = r /\ \A u \in Workers : u # t => task'[u] = task[u]
    BY <1>0, <1>1
  <2>4. r.epoch \in Epochs
    <3>1. TaskOK(t, task'[t])
      BY DEF TypeInv
    <3> QED
      BY <1>1, <2>3, <3>1 DEF TaskOK, SpawnPcs
  <2>5. proc[r.epoch] = NoProcess
    BY <1>0, <1>c, <1>1, <2>4 DEF ProcOK
  <2>6. TaskProcOK(task[t])'
    BY <1>c, <1>1, <2>3, <2>5 DEF TaskProcOK, SpawnPcs, StopPcs
  <2>7. \A u \in Workers : task'[u].pc \in SpawnPcs =>
           \/ task[u].pc \in SpawnPcs /\ task'[u].epoch = task[u].epoch
           \/ task'[u].epoch > next_epoch /\ \A v \in Workers \ {u} : task'[v] = task[v]
    BY <1>c, <1>1, <2>3
  <2> QED
    BY <1>1, <1>ev, <2>1, <2>2, <2>3, <2>6, <2>7, GrowsKeeps
<1>2. ASSUME NEW t \in Tasks, NEW p \in Ids, SpawnCheck(t, p) PROVE ProcInv'
  <2>1. PICK r : r = [Idle EXCEPT !.pc = "prepare", !.id = p, !.epoch = next_epoch + 1]
    OBVIOUS
  <2> QED
    BY <1>0, <1>1, <1>2, <2>1 DEF SpawnCheck, Idle
<1>3. ASSUME NEW t \in Tasks, NEW p \in Ids, StopRemove(t, p) \/ RestartLook(t, p) PROVE ProcInv'
  <2>1. PICK c \in {"stop_mark", "restart"} :
          task' = [task EXCEPT ![t] = [Idle EXCEPT !.pc = c, !.id = p, !.epoch = entries[p].epoch]]
    BY <1>3 DEF StopRemove, RestartLook
  <2>2. /\ UNCHANGED <<proc, events, next_epoch, abandoned>>
        /\ \A q \in Ids : entries'[q] = entries[q] \/ entries'[q] = None
        /\ proc[entries[p].epoch].wait
    BY <1>0, <1>3 DEF StopRemove, RestartLook, sup, history, TypeOK, EntryOK
  <2>3. \A e \in Epochs : Evolves(e) /\ Grows(e) /\ ProcOK(e)'
    BY <1>c, <2>2, StillKeeps
  <2>4. PICK r : r = [Idle EXCEPT !.pc = c, !.id = p, !.epoch = entries[p].epoch]
    OBVIOUS
  <2>5. r.pc = c /\ r.epoch = entries[p].epoch /\ r.from = 0
    BY <2>4 DEF Idle
  <2>6. task'[t] = r /\ \A u \in Workers : u # t => task'[u] = task[u]
    BY <1>0, <2>1, <2>4
  <2>7. TaskProcOK(task[t])' /\ task'[t].pc \notin SpawnPcs
    BY <2>2, <2>5, <2>6 DEF TaskProcOK, SpawnPcs, StopPcs
  <2> QED
    BY <1>ev, <2>2, <2>3, <2>6, <2>7, MoveKeeps
<1>4. ASSUME NEW t \in Workers, SpawnPrepare(t) PROVE ProcInv'
  <2>1. /\ task'[t] = [task[t] EXCEPT !.pc = "exec"]
        /\ \A u \in Workers : u # t => task'[u] = task[u]
    BY <1>0, <1>4 DEF SpawnPrepare, Goto
  <2>2. /\ task'[t].pc = "exec" /\ task'[t].epoch = task[t].epoch /\ task'[t].from = task[t].from
        /\ task[t].pc = "prepare"
    BY <1>0, <1>4, <2>1 DEF TaskRec, SpawnPrepare, At
  <2>3. UNCHANGED <<proc, events, next_epoch, abandoned, entries>>
    BY <1>4 DEF SpawnPrepare, sup
  <2>4. \A e \in Epochs : Evolves(e) /\ Grows(e) /\ ProcOK(e)'
    BY <1>c, <2>3, StillKeeps
  <2>5. TaskProcOK(task[t]) /\ TaskProcOK(task[t])'
    BY <1>0, <2>2, <2>3 DEF TaskProcOK, SpawnPcs, StopPcs
  <2>6. \A u \in Workers : task'[u].pc \in SpawnPcs =>
           task[u].pc \in SpawnPcs /\ task'[u].epoch = task[u].epoch
    BY <2>1, <2>2 DEF SpawnPcs
  <2> QED
    BY <1>c, <1>ev, <2>1, <2>3, <2>4, <2>5, <2>6, GrowsKeeps
<1>5. ASSUME NEW t \in Workers, SpawnExec(t) PROVE ProcInv'
  <2>1. PICK e \in Epochs : e = task[t].epoch
    BY <1>0, <1>5 DEF SpawnExec, At, TaskOK, SpawnPcs
  <2>2. PICK c \in {"handshake", "insert"} : Goto(t, c)
    BY <1>5 DEF SpawnExec
  <2>3. /\ task'[t] = [task[t] EXCEPT !.pc = c]
        /\ \A u \in Workers : u # t => task'[u] = task[u]
    BY <1>0, <2>2 DEF Goto
  <2>4. /\ task'[t].pc = c /\ task'[t].epoch = e /\ task'[t].from = task[t].from
        /\ task[t].pc = "exec" /\ task'[t].id = task[t].id
    BY <1>0, <1>5, <2>1, <2>3 DEF TaskRec, SpawnExec, At
  <2>5. UNCHANGED <<events, next_epoch, abandoned, entries>>
    BY <1>5 DEF SpawnExec, sup, history
  <2>6. /\ proc[e] = NoProcess /\ e <= next_epoch /\ task[t].id \in Ids
        /\ task[t].from # 0 => proc[task[t].from].st = "sent"
    BY <1>0, <2>1, <2>4 DEF TaskProcOK, TaskOK, SpawnPcs
  <2>7. /\ \A f \in Epochs : f # e => proc'[f] = proc[f]
        /\ proc'[e] = [NoProcess EXCEPT !.id = task[t].id, !.st = "up",
                                        !.joined = join_pids_cgroup(task[t].id)]
    BY <1>0, <1>5, <2>1 DEF SpawnExec
  <2>8. proc'[e].id = task[t].id /\ proc'[e].st = "up" /\ ~proc'[e].inner /\ ~proc'[e].wait
        /\ proc'[e].sig = "none"
    BY <2>7 DEF NoProcess
  <2>9. \A f \in Epochs : Grows(f) /\ ProcOK(f)' /\ (f # e => Evolves(f))
    <3>1. Grows(e)
      BY <2>6, <2>8, IdleOK DEF Grows
    <3>2. ProcOK(e)'
      BY <1>c, <2>5, <2>6, <2>8 DEF ProcOK
    <3> QED
      BY <1>one, <2>5, <2>7, <3>1, <3>2
  <2>10. task[t].from # 0 => proc'[task[t].from].st = "sent"
    <3>1. task[t].from # 0 => task[t].from \in Epochs
      BY <1>0, <1>c DEF TaskRec, Epochs
    <3> QED
      BY <2>6, <2>9, <3>1 DEF Grows
  <2>11. TaskProcOK(task[t])'
    BY <2>4, <2>5, <2>6, <2>8, <2>10 DEF TaskProcOK, SpawnPcs, StopPcs
  <2>12. \A u \in Workers : task[u].pc \in SpawnPcs /\ task[u].epoch = e => TaskProcOK(task[u])'
    BY <2>1, <2>4, <2>11 DEF ProcInv, SpawnPcs
  <2>13. \A u \in Workers : task'[u].pc \in SpawnPcs =>
           task[u].pc \in SpawnPcs /\ task'[u].epoch = task[u].epoch
    BY <2>1, <2>3, <2>4 DEF SpawnPcs
  <2> QED
    BY <1>c, <1>ev, <2>3, <2>5, <2>9, <2>11, <2>12, <2>13, GrowsKeeps
<1>6. ASSUME NEW t \in Workers, HandshakeOk(t) PROVE ProcInv'
  <2>1. PICK e \in Epochs : e = task[t].epoch
    BY <1>0, <1>6 DEF HandshakeOk, At, TaskOK, SpawnPcs
  <2>3. /\ task'[t] = [task[t] EXCEPT !.pc = "insert"]
        /\ \A u \in Workers : u # t => task'[u] = task[u]
    BY <1>0, <1>6 DEF HandshakeOk, Goto
  <2>4. /\ task'[t].pc = "insert" /\ task'[t].epoch = e /\ task'[t].from = task[t].from
        /\ task[t].pc = "handshake" /\ task'[t].id = task[t].id
    BY <1>0, <1>6, <2>1, <2>3 DEF TaskRec, HandshakeOk, At
  <2>5. UNCHANGED <<proc, events, next_epoch, abandoned, entries>>
    BY <1>6 DEF HandshakeOk, sup, history
  <2>6. \A f \in Epochs : Evolves(f) /\ Grows(f) /\ ProcOK(f)'
    BY <1>c, <2>5, StillKeeps
  <2>7. proc[e].inner <=> proc[e].st = "up"
    BY <1>6, <2>1 DEF HandshakeOk
  <2>8. TaskProcOK(task[t]) /\ TaskProcOK(task[t])'
    BY <1>0, <2>1, <2>4, <2>5, <2>7 DEF TaskProcOK, SpawnPcs, StopPcs
  <2>9. \A u \in Workers : task'[u].pc \in SpawnPcs =>
           task[u].pc \in SpawnPcs /\ task'[u].epoch = task[u].epoch
    BY <2>1, <2>3, <2>4 DEF SpawnPcs
  <2> QED
    BY <1>c, <1>ev, <2>3, <2>5, <2>6, <2>8, <2>9, GrowsKeeps
<1>7. ASSUME NEW t \in Workers, SpawnInsert(t) PROVE ProcInv'
  <2>1. PICK e \in Epochs : e = task[t].epoch
    BY <1>0, <1>7 DEF SpawnInsert, At, TaskOK, SpawnPcs
  <2>3. /\ task'[t] = Idle /\ \A u \in Workers : u # t => task'[u] = task[u]
        /\ task[t].pc = "insert"
    BY <1>0, <1>7 DEF SpawnInsert, Finish, At
  <2>5. UNCHANGED <<events, next_epoch, abandoned>>
    BY <1>7 DEF SpawnInsert, history
  <2>6. /\ proc[e].st # "none" /\ proc[e].id = task[t].id /\ e <= next_epoch /\ task[t].id \in Ids
        /\ proc[e] \in Process /\ (proc[e].inner /\ proc[e].st # "up" => proc[e].sig = "kill")
    BY <1>0, <2>1, <2>3 DEF TaskProcOK, TaskOK, SpawnPcs
  <2>7. /\ \A f \in Epochs : f # e => proc'[f] = proc[f]
        /\ proc'[e] = [proc[e] EXCEPT !.wait = TRUE]
    BY <1>0, <1>7, <2>1 DEF SpawnInsert
  <2>8. /\ proc'[e].id = proc[e].id /\ proc'[e].st = proc[e].st /\ proc'[e].wait
        /\ proc'[e].sig = proc[e].sig /\ proc'[e].inner = proc[e].inner
    BY <2>6, <2>7 DEF Process
  <2>9. \A f \in Epochs : Grows(f) /\ ProcOK(f)' /\ (f # e => Evolves(f))
    <3>1. Grows(e)
      BY <2>6, <2>8 DEF Grows
    <3>2. ProcOK(e)'
      BY <1>0, <1>c, <2>5, <2>6, <2>8 DEF ProcOK
    <3> QED
      BY <1>one, <2>5, <2>7, <3>1, <3>2
  <2>11. TaskProcOK(task[t])'
    BY <2>3, IdleOK DEF TaskProcOK, SpawnPcs, StopPcs
  <2>12. \A u \in Workers : task[u].pc \in SpawnPcs /\ task[u].epoch = e => TaskProcOK(task[u])'
    BY <2>1, <2>3, <2>11 DEF ProcInv, SpawnPcs
  <2>13. \A u \in Workers : task'[u].pc \in SpawnPcs =>
           task[u].pc \in SpawnPcs /\ task'[u].epoch = task[u].epoch
    BY <2>3, IdleOK DEF SpawnPcs
  <2>14. \A p \in Ids : entries'[p] = entries[p] \/ EntryOK(p)'
    <3>1. PICK p \in Ids : p = task[t].id
      BY <2>6
    <3>2. entries' = [entries EXCEPT ![p] = [epoch |-> e, count |-> task[t].count]]
      BY <1>7, <2>1, <3>1 DEF SpawnInsert
    <3>3. /\ entries'[p].epoch = e
          /\ \A q \in Ids : q # p => entries'[q] = entries[q]
      BY <1>0, <3>2 DEF TypeOK
    <3>4. EntryOK(p)'
      BY <2>6, <2>8, <3>1, <3>3 DEF EntryOK
    <3> QED
      BY <3>3, <3>4
  <2> QED
    BY <1>c, <1>ev, <2>3, <2>5, <2>9, <2>11, <2>12, <2>13, <2>14, GrowsKeeps
<1>8. ASSUME NEW t \in Workers, SpawnFails(t) PROVE ProcInv'
  <2>1. /\ task'[t] = Idle /\ \A u \in Workers : u # t => task'[u] = task[u]
        /\ UNCHANGED <<events, next_epoch, abandoned, proc, entries>>
    BY <1>0, <1>8 DEF SpawnFails, Finish, sup
  <2>2. \A e \in Epochs : Evolves(e) /\ Grows(e) /\ ProcOK(e)'
    BY <1>c, <2>1, StillKeeps
  <2> QED
    BY <1>ev, <2>1, <2>2, MoveKeeps
<1>9. ASSUME NEW t \in Workers, HandshakeTimeout(t) PROVE ProcInv'
  <2>1. /\ task'[t] = Idle /\ \A u \in Workers : u # t => task'[u] = task[u]
        /\ UNCHANGED <<events, next_epoch, proc, entries>>
        /\ abandoned' = abandoned \cup {task[t].epoch} /\ task[t].pc = "handshake"
    BY <1>0, <1>9 DEF HandshakeTimeout, Finish, sup, At
  <2>2. \A e \in Epochs : Evolves(e) /\ Grows(e) /\ ProcOK(e)'
    BY <1>c, <2>1, StillKeeps
  <2>3. proc'[task[t].epoch].st # "none"
    BY <1>0, <2>1 DEF TaskProcOK
  <2>4. \A u \in Workers : task'[u].pc \in SpawnPcs =>
           task[u].pc \in SpawnPcs /\ task'[u].epoch = task[u].epoch
    BY <2>1, IdleOK DEF SpawnPcs
  <2> QED
    BY <1>c, <1>ev, <2>1, <2>2, <2>3, <2>4, GrowsKeeps
<1>10. ASSUME NEW e \in Epochs, Evolves(e), ProcOK(e)', \A f \in Epochs : f # e => proc'[f] = proc[f],
              UNCHANGED <<next_epoch, abandoned, entries>>,
              \A t \in Workers : task'[t] = task[t] \/ task'[t] = Idle,
              \A k \in 1..Len(events') :
                proc'[events'[k]].st = "sent" \/ \E i \in 1..Len(events) : events'[k] = events[i]
       PROVE  ProcInv'
  <2>1. \A f \in Epochs : Evolves(f) /\ Grows(f) /\ ProcOK(f)'
    BY <1>one, <1>10 DEF Evolves
  <2> QED
    BY <1>10, <2>1, MoveKeeps
<1>11. ASSUME NEW t \in Workers, HandshakeEof(t) PROVE ProcInv'
  <2>1. PICK e \in Epochs : e = task[t].epoch
    BY <1>0, <1>11 DEF HandshakeEof, At, TaskOK, SpawnPcs
  <2>2. /\ task'[t] = Idle /\ \A u \in Workers : u # t => task'[u] = task[u]
        /\ UNCHANGED <<events, next_epoch, abandoned, entries>>
        /\ task[t].pc = "handshake" /\ proc[e].st = "dead"
    BY <1>0, <1>11, <2>1 DEF HandshakeEof, Finish, sup, At
  <2>3. /\ \A f \in Epochs : f # e => proc'[f] = proc[f]
        /\ proc'[e] = [proc[e] EXCEPT !.st = "sent"]
    BY <1>0, <1>11, <2>1 DEF HandshakeEof
  <2>5. /\ proc'[e].st = "sent" /\ proc'[e].id = proc[e].id /\ proc'[e].wait = proc[e].wait
        /\ proc'[e].inner = proc[e].inner /\ proc'[e].sig = proc[e].sig
    BY <1>0, <2>3 DEF Process
  <2>6. Evolves(e)
    BY <2>2, <2>5 DEF Evolves, Grows
  <2>7. ProcOK(e)'
    BY <1>0, <2>2, <2>5, IdleOK DEF ProcOK
  <2> QED
    BY <1>10, <1>ev, <2>2, <2>3, <2>6, <2>7
<1>12. ASSUME NEW e \in Epochs, Exit(e) PROVE ProcInv'
  <2>1. PICK ok \in BOOLEAN, left \in BOOLEAN :
          /\ left => proc[e].inner /\ (proc[e].sig = "kill" \/ Unreported(e))
          /\ proc' = [proc EXCEPT ![e].st = "dead", ![e].ok = ok, ![e].inner = left]
    BY <1>12 DEF Exit
  <2>2. UNCHANGED <<events, next_epoch, abandoned, entries, task>> /\ proc[e].st = "up"
    BY <1>12 DEF Exit, sup, history
  <2>3. \A f \in Epochs : f # e => proc'[f] = proc[f]
    BY <1>0, <2>1
  <2>4. /\ proc'[e].st = "dead" /\ proc'[e].id = proc[e].id /\ proc'[e].wait = proc[e].wait
        /\ proc'[e].inner = left /\ proc'[e].sig = proc[e].sig
    BY <1>0, <2>1 DEF Process
  <2>6. Evolves(e)
    BY <2>1, <2>2, <2>4 DEF Evolves, Grows
  <2>7. ProcOK(e)'
    BY <1>0, <2>1, <2>2, <2>4, IdleOK DEF ProcOK, Unreported
  <2> QED
    BY <1>10, <1>ev, <2>2, <2>3, <2>6, <2>7
<1>f. ASSUME NEW e \in Epochs, ShimForks(e) PROVE ProcInv'
  <2>2. UNCHANGED <<events, next_epoch, abandoned, entries, task>> /\ proc[e].st = "up"
    BY <1>f DEF ShimForks, sup, history
  <2>3. \A f \in Epochs : f # e => proc'[f] = proc[f]
    BY <1>0, <1>f DEF ShimForks
  <2>4. /\ proc'[e].st = proc[e].st /\ proc'[e].id = proc[e].id /\ proc'[e].wait = proc[e].wait
        /\ proc'[e].sig = proc[e].sig
    BY <1>0, <1>f DEF Process, ShimForks
  <2>6. Evolves(e)
    BY <2>2, <2>4 DEF Evolves, Grows
  <2>7. ProcOK(e)'
    BY <1>0, <2>2, <2>4, IdleOK DEF ProcOK
  <2> QED
    BY <1>10, <1>ev, <2>2, <2>3, <2>6, <2>7
<1>13. ASSUME NEW e \in Epochs, InnerDies(e) \/ Reap(e) PROVE ProcInv'
  <2>2. /\ UNCHANGED <<events, next_epoch, abandoned, entries, task>>
        /\ proc[e].st # "up" /\ proc[e].st # "none"
        /\ proc'[e].st = "reaped" => proc[e].st \in {"dead", "reaped"}
    BY <1>0, <1>13, IdleOK DEF InnerDies, Reap, sup, history, ProcOK, Process
  <2>3. \A f \in Epochs : f # e => proc'[f] = proc[f]
    BY <1>0, <1>13 DEF InnerDies, Reap
  <2>4. /\ proc'[e].st \in {proc[e].st, "reaped"} /\ proc'[e].id = proc[e].id
        /\ proc'[e].wait = proc[e].wait /\ proc'[e].sig = proc[e].sig
        /\ proc'[e].inner => proc[e].inner
    <3>1. CASE InnerDies(e)
      BY <1>0, <3>1 DEF Process, InnerDies
    <3>2. CASE Reap(e)
      BY <1>0, <3>2 DEF Process, Reap
    <3> QED
      BY <1>13, <3>1, <3>2
  <2>6. Evolves(e)
    BY <2>2, <2>4 DEF Evolves, Grows
  <2>7. ProcOK(e)'
    BY <1>0, <2>2, <2>4, IdleOK DEF ProcOK
  <2> QED
    BY <1>10, <1>ev, <2>2, <2>3, <2>6, <2>7
<1>14. ASSUME NEW e \in Epochs, SendExit(e) PROVE ProcInv'
  <2>2. UNCHANGED <<next_epoch, abandoned, entries, task>> /\ proc[e].st = "reaped"
    BY <1>14 DEF SendExit, sup, history
  <2>3. \A f \in Epochs : f # e => proc'[f] = proc[f]
    BY <1>0, <1>14 DEF SendExit
  <2>4. /\ proc'[e].st = "sent" /\ proc'[e].id = proc[e].id /\ proc'[e].wait = proc[e].wait
        /\ proc'[e].inner = proc[e].inner /\ proc'[e].sig = proc[e].sig
    BY <1>0, <1>14 DEF Process, SendExit
  <2>5. \A k \in 1..Len(events') :
          proc'[events'[k]].st = "sent" \/ \E i \in 1..Len(events) : events'[k] = events[i]
    <3>1. events' = Append(events, e) /\ events \in Seq(Epochs)
      BY <1>0, <1>14 DEF SendExit, TypeOK
    <3>2. Len(events) \in Nat /\ Len(events') = Len(events) + 1 /\ events'[Len(events) + 1] = e
          /\ \A k \in 1..Len(events) : events'[k] = events[k]
      BY <3>1
    <3> QED
      BY <2>4, <3>2
  <2>6. Evolves(e)
    BY <2>2, <2>4 DEF Evolves, Grows
  <2>7. ProcOK(e)'
    BY <1>0, <2>2, <2>4, IdleOK DEF ProcOK
  <2> QED
    BY <1>10, <2>2, <2>3, <2>5, <2>6, <2>7
<1>15. ASSUME NEW t \in Tasks, StopMark(t) PROVE ProcInv'
  <2>1. /\ task'[t] = [task[t] EXCEPT !.pc = "stop_signal"]
        /\ \A u \in Workers : u # t => task'[u] = task[u]
        /\ UNCHANGED <<events, next_epoch, abandoned, entries, proc>> /\ task[t].pc = "stop_mark"
    BY <1>0, <1>15 DEF StopMark, Goto, At
  <2>2. /\ task'[t].pc = "stop_signal" /\ task'[t].epoch = task[t].epoch
        /\ task'[t].from = task[t].from
    BY <1>0, <2>1 DEF TaskRec
  <2>3. \A e \in Epochs : Evolves(e) /\ Grows(e) /\ ProcOK(e)'
    BY <1>c, <2>1, StillKeeps
  <2>4. TaskProcOK(task[t])' /\ task'[t].pc \notin SpawnPcs
    <3>1. TaskProcOK(task[t])
      BY <1>0
    <3> QED
      BY <2>1, <2>2, <3>1 DEF TaskProcOK, SpawnPcs, StopPcs
  <2> QED
    BY <1>ev, <2>1, <2>3, <2>4, MoveKeeps
<1>16. ASSUME NEW t \in Tasks, StopSignal(t) \/ StopEscalate(t) PROVE ProcInv'
  <2>1. PICK e \in Epochs : e = task[t].epoch
    BY <1>0, <1>16 DEF StopSignal, StopEscalate, At, TaskOK, StopPcs
  <2>2. PICK c \in {"stop_wait", "stop_kill"}, s \in {"term", "kill"} :
          /\ Goto(t, c) /\ Kill({e}, s) /\ (c = "stop_kill" => s = "kill")
          /\ task[t].pc \in {"stop_signal", "stop_wait"}
          /\ UNCHANGED <<events, next_epoch, abandoned, entries>>
    BY <1>16, <2>1 DEF StopSignal, StopEscalate, At, sup, history
  <2>3. /\ task'[t] = [task[t] EXCEPT !.pc = c] /\ \A u \in Workers : u # t => task'[u] = task[u]
    BY <1>0, <2>2 DEF Goto
  <2>4. task'[t].pc = c /\ task'[t].epoch = e /\ task'[t].from = task[t].from
    BY <1>0, <2>1, <2>3 DEF TaskRec
  <2>5. \A f \in Epochs : Evolves(f) /\ Grows(f) /\ ProcOK(f)'
    BY <2>2, SignalKeeps
  <2>6. /\ proc'[e].st = proc[e].st
        /\ proc[e].st = "up" => proc'[e].sig \in {s, "kill"}
    <3>1. /\ proc'[e] = [proc[e] EXCEPT !.sig = proc'[e].sig]
          /\ proc[e].st = "up" => proc'[e].sig \in {s, "kill"}
      BY <1>0, <2>2, SignalledOK
    <3> QED
      BY <1>0, <3>1 DEF Process
  <2>7. TaskProcOK(task[t])' /\ task'[t].pc \notin SpawnPcs
    <3>1. /\ proc[e].wait /\ (task[t].from # 0 => proc[task[t].from].st = "sent")
          /\ (task[t].from # 0 => task[t].from \in Epochs)
      BY <1>0, <1>c, <2>1, <2>2 DEF TaskProcOK, StopPcs, TaskRec, Epochs
    <3>2. proc'[e].wait /\ (task[t].from # 0 => proc'[task[t].from].st = "sent")
      BY <2>5, <3>1 DEF Grows
    <3> QED
      BY <2>2, <2>4, <2>6, <3>2 DEF TaskProcOK, SpawnPcs, StopPcs
  <2> QED
    BY <1>ev, <2>2, <2>3, <2>5, <2>7, MoveKeeps
<1>17. ASSUME NEW t \in Workers, Finish(t),
              UNCHANGED <<events, next_epoch, abandoned, proc>>,
              \A p \in Ids : entries'[p] = entries[p] \/ entries'[p] = None
       PROVE  ProcInv'
  <2>1. /\ task'[t] = Idle /\ \A u \in Workers : u # t => task'[u] = task[u]
    BY <1>0, <1>17 DEF Finish
  <2>2. \A e \in Epochs : Evolves(e) /\ Grows(e) /\ ProcOK(e)'
    BY <1>c, <1>17, StillKeeps
  <2> QED
    BY <1>ev, <1>17, <2>1, <2>2, MoveKeeps
<1>18. ASSUME NEW t \in Tasks, StopExited(t) \/ StopGivesUp(t) PROVE ProcInv'
  BY <1>0, <1>17, <1>18 DEF StopExited, StopGivesUp, sup, history
<1>19. ASSUME NEW t \in Tasks, RestartSignal(t) PROVE ProcInv'
  <2>1. /\ task'[t] = Idle /\ \A u \in Workers : u # t => task'[u] = task[u]
        /\ UNCHANGED <<events, next_epoch, abandoned, entries>>
    BY <1>0, <1>19 DEF RestartSignal, Finish
  <2>2. \A e \in Epochs : Evolves(e) /\ Grows(e) /\ ProcOK(e)'
    BY <1>19, <2>1, SignalKeeps DEF RestartSignal
  <2> QED
    BY <1>ev, <2>1, <2>2, MoveKeeps
<1>20. CASE MonRecv
  <2>1. PICK e \in Epochs : e = Head(events) /\ e = events[1] /\ 1 \in 1..Len(events)
    BY <1>0, <1>20 DEF MonRecv, TypeOK
  <2>2. proc[e].st = "sent"
    BY <2>1 DEF ProcInv
  <2>3. UNCHANGED <<next_epoch, abandoned, entries, proc>>
    BY <1>20 DEF MonRecv, history
  <2>4. \A f \in Epochs : Evolves(f) /\ Grows(f) /\ ProcOK(f)'
    BY <1>c, <2>3, StillKeeps
  <2>5. \A k \in 1..Len(events') : \E i \in 1..Len(events) : events'[k] = events[i]
    <3>1. events' = Tail(events) /\ events \in Seq(Epochs) /\ events # <<>>
      BY <1>0, <1>20 DEF MonRecv, TypeOK
    <3>2. /\ Len(events) \in Nat /\ Len(events') = Len(events) - 1
          /\ \A k \in 1..Len(events') : events'[k] = events[k + 1]
      BY <3>1
    <3>3. \A k \in 1..Len(events') : k + 1 \in 1..Len(events)
      BY <3>2
    <3> QED
      BY <3>2, <3>3
  <2>6. \A t \in Workers : \/ task'[t] = task[t]
                           \/ task'[t].pc \notin SpawnPcs /\ TaskProcOK(task[t])'
    <3>1. CASE task' = task
      BY <3>1
    <3>2. CASE task' # task
      <4>1. PICK x : /\ x = [Idle EXCEPT !.pc = "decide", !.id = proc[e].id, !.from = e,
                           !.forced = (proc[e].id \in forced_restarts)]
                     /\ task' = [task EXCEPT ![Monitor] = x]
        BY <1>20, <2>1, <3>2 DEF MonRecv
      <4>2. x.pc = "decide" /\ x.from = e
        BY <4>1 DEF Idle
      <4>3. task'[Monitor] = x /\ \A u \in Workers : u # Monitor => task'[u] = task[u]
        BY <1>0, <4>1
      <4>4. task'[Monitor].pc \notin SpawnPcs /\ TaskProcOK(task[Monitor])'
        BY <2>2, <2>3, <4>2, <4>3 DEF TaskProcOK, SpawnPcs, StopPcs
      <4> QED
        BY <4>3, <4>4
    <3> QED
      BY <3>1, <3>2
  <2> QED
    BY <2>3, <2>4, <2>5, <2>6, MoveKeeps
<1>21. CASE MonDecide
  <2>1. /\ task[Monitor] \in TaskRec /\ TaskProcOK(task[Monitor]) /\ task[Monitor].pc = "decide"
        /\ TaskOK(Monitor, task[Monitor])
    BY <1>0, <1>21 DEF MonDecide, At
  <2>2. UNCHANGED <<events, next_epoch, abandoned, entries, proc>>
    BY <1>21 DEF MonDecide, sup, history
  <2>3. \A e \in Epochs : Evolves(e) /\ Grows(e) /\ ProcOK(e)'
    BY <1>c, <2>2, StillKeeps
  <2>4. /\ task'[Monitor].pc \in {"backoff", "drop"} /\ task'[Monitor].from = task[Monitor].from
        /\ \A u \in Workers : u # Monitor => task'[u] = task[u]
    BY <1>0, <1>21, <2>1 DEF MonDecide, TaskRec
  <2>5. task'[Monitor].pc \notin SpawnPcs /\ TaskProcOK(task[Monitor])'
    BY <2>1, <2>2, <2>4 DEF TaskProcOK, SpawnPcs, StopPcs
  <2> QED
    BY <1>ev, <2>2, <2>3, <2>4, <2>5, MoveKeeps
<1>22. CASE MonWake
  <2>1. /\ task[Monitor] \in TaskRec /\ TaskProcOK(task[Monitor]) /\ task[Monitor].pc = "backoff"
    BY <1>0, <1>22 DEF MonWake, At
  <2>2. UNCHANGED <<events, abandoned, entries, proc>>
    BY <1>22 DEF MonWake, history
  <2>3. CASE Finish(Monitor) /\ UNCHANGED next_epoch
    BY <1>0, <1>17, <2>2, <2>3
  <2>4. CASE ~(Finish(Monitor) /\ UNCHANGED next_epoch)
    <3>1. PICK r : /\ r = [task[Monitor] EXCEPT !.pc = "prepare", !.epoch = next_epoch + 1]
                   /\ next_epoch' = next_epoch + 1 /\ task' = [task EXCEPT ![Monitor] = r]
      BY <1>0, <1>22, <2>4 DEF MonWake
    <3>2. /\ r.pc = "prepare" /\ r.epoch = next_epoch + 1
          /\ r.from # 0 => proc[r.from].st = "sent"
      BY <2>1, <3>1 DEF TaskRec, TaskProcOK
    <3> QED
      BY <1>0, <1>1, <2>2, <3>1, <3>2
  <2> QED
    BY <2>3, <2>4
<1>23. CASE MonDrop
  <2>1. \A p \in Ids : entries'[p] = entries[p] \/ entries'[p] = None
    BY <1>0, <1>23 DEF MonDrop, TypeOK
  <2> QED
    BY <1>0, <1>17, <1>23, <2>1 DEF MonDrop, history
<1>24. ASSUME NEW E, NEW s \in {"term", "kill"}, Kill(E, s),
              UNCHANGED <<sup, events, scopes, task, history>>
       PROVE  ProcInv'
  <2>1. UNCHANGED <<events, next_epoch, abandoned, entries, task>>
    BY <1>24 DEF sup, history
  <2>2. \A e \in Epochs : Evolves(e) /\ Grows(e) /\ ProcOK(e)'
    BY <1>24, <2>1, SignalKeeps
  <2> QED
    BY <1>ev, <2>1, <2>2, MoveKeeps
<1>25. ASSUME NEW e \in Epochs, WatchdogKill(e) PROVE ProcInv'
  BY <1>24, <1>25 DEF WatchdogKill
<1>26. CASE ShutTerm \/ ShutKill \/ ShutAbort
  BY <1>24, <1>26 DEF ShutTerm, ShutKill, ShutAbort
<1>27. CASE ShutBegin \/ ShutCollect \/ UNCHANGED vars
  <2>1. UNCHANGED <<events, next_epoch, abandoned, entries, task, proc>>
    BY <1>27 DEF ShutBegin, ShutCollect, vars, sup, history
  <2>2. \A e \in Epochs : Evolves(e) /\ Grows(e) /\ ProcOK(e)'
    BY <1>c, <2>1, StillKeeps
  <2> QED
    BY <1>ev, <2>1, <2>2, MoveKeeps
<1> QED
  BY <1>2, <1>3, <1>4, <1>5, <1>6, <1>7, <1>8, <1>9, <1>11, <1>12, <1>f, <1>13, <1>14, <1>15,
     <1>16, <1>18, <1>19, <1>20, <1>21, <1>22, <1>23, <1>25, <1>26, <1>27
  DEF Next, Spawning, Stopping, Monitoring, Shutdown, Quiet

\* Types hold, and what the tasks of the supervisor rely on.
LEMMA ProcInvariant == Spec => [](TypeInv /\ ProcInv)
<1>1. TypeInv /\ ProcInv /\ [Next]_vars => (TypeInv /\ ProcInv)'
  BY TypeStep, ProcStep
<1> QED
  BY <1>1, SupInit, PTL DEF Spec

\* The tables, the channel, the processes and the tasks have their types.
THEOREM TypeCorrect == Spec => []TypeOK
<1>1. TypeInv => TypeOK
  BY DEF TypeInv
<1> QED
  BY <1>1, ProcInvariant, PTL

-----------------------------------------------------------------------------
(* Who moves what.                                                         *)

\* A signal reaches a process, or nothing does that anybody but its shim sees.
Signals(e) ==
    /\ proc'[e].st = proc[e].st /\ proc'[e].id = proc[e].id /\ proc'[e].wait = proc[e].wait
    /\ proc'[e].joined = proc[e].joined
    /\ proc[e].sig # "none" => proc'[e].sig # "none"

\* The steps of the task that spawns a process.
Spawns(t) == SpawnExec(t) \/ HandshakeEof(t) \/ SpawnInsert(t)

\* A process changes by a signal, by the task that spawns it, by itself, or by
\* its wait task.
LEMMA ProcMoves ==
  ASSUME TypeInv, ProcInv, [Next]_vars, NEW e \in Epochs
  PROVE  \/ Signals(e)
         \/ \E t \in Workers : task[t].epoch = e /\ Spawns(t)
         \/ Exit(e) \/ InnerDies(e) \/ Reap(e) \/ SendExit(e)
<1>0. proc \in [Epochs -> Process] /\ task \in [Workers -> TaskRec]
  BY DEF TypeInv, TypeOK
<1>1. ASSUME UNCHANGED proc PROVE Signals(e)
  BY <1>1 DEF Signals
<1>2. ASSUME NEW E, NEW s \in {"term", "kill"}, Kill(E, s) PROVE Signals(e)
  <2>1. proc'[e] = [proc[e] EXCEPT !.sig = proc'[e].sig]
        /\ (proc[e].sig # "none" => proc'[e].sig # "none")
    BY <1>0, <1>2, SignalledOK
  <2> QED
    BY <1>0, <2>1 DEF Signals, Process
<1>3. ASSUME NEW t \in Workers, Spawns(t), task[t].epoch # e PROVE Signals(e)
  <2>1. proc'[e] = proc[e]
    BY <1>0, <1>3 DEF Spawns, SpawnExec, HandshakeEof, SpawnInsert
  <2> QED
    BY <2>1 DEF Signals
<1>4. ASSUME NEW f \in Epochs, f # e, Exit(f) \/ InnerDies(f) \/ Reap(f) \/ SendExit(f)
      PROVE  Signals(e)
  <2>1. proc'[e] = proc[e]
    BY <1>0, <1>4 DEF Exit, InnerDies, Reap, SendExit
  <2> QED
    BY <2>1 DEF Signals
<1>5. CASE \E t \in Tasks, p \in Ids : SpawnCheck(t, p) \/ StopRemove(t, p) \/ RestartLook(t, p)
  BY <1>1, <1>5 DEF SpawnCheck, StopRemove, RestartLook
<1>6. CASE \E t \in Workers : Spawning(t)
  <2>1. PICK t \in Workers : Spawning(t)
    BY <1>6
  <2>2. CASE SpawnPrepare(t) \/ SpawnFails(t) \/ HandshakeOk(t) \/ HandshakeTimeout(t)
    BY <1>1, <2>2 DEF SpawnPrepare, SpawnFails, HandshakeOk, HandshakeTimeout
  <2> QED
    BY <1>3, <2>1, <2>2 DEF Spawning, Spawns
<1>7. CASE \E t \in Tasks : Stopping(t) \/ RestartSignal(t)
  <2>1. PICK t \in Tasks : Stopping(t) \/ RestartSignal(t)
    BY <1>7
  <2>2. CASE StopMark(t) \/ StopExited(t) \/ StopGivesUp(t)
    BY <1>1, <2>2 DEF StopMark, StopExited, StopGivesUp
  <2>3. CASE StopSignal(t) \/ StopEscalate(t) \/ RestartSignal(t)
    BY <1>2, <2>3 DEF StopSignal, StopEscalate, RestartSignal
  <2> QED
    BY <2>1, <2>2, <2>3 DEF Stopping
<1>8. CASE \E f \in Epochs : WatchdogKill(f)
  BY <1>2, <1>8 DEF WatchdogKill
<1>9. CASE Monitoring \/ ShutBegin \/ ShutCollect \/ UNCHANGED vars
  BY <1>1, <1>9 DEF Monitoring, MonRecv, MonDecide, MonWake, MonDrop, ShutBegin, ShutCollect, vars
<1>10. CASE ShutTerm \/ ShutKill \/ ShutAbort
  BY <1>2, <1>10 DEF ShutTerm, ShutKill, ShutAbort
<1>11. CASE \E f \in Epochs : ShimForks(f)
  <2>1. PICK f \in Epochs : ShimForks(f)
    BY <1>11
  <2>2. proc'[e] = proc[e] \/ proc'[e] = [proc[e] EXCEPT !.inner = TRUE]
    BY <1>0, <2>1 DEF ShimForks
  <2> QED
    BY <1>0, <2>2 DEF Signals, Process
<1> QED
  BY <1>4, <1>5, <1>6, <1>7, <1>8, <1>9, <1>10, <1>11 DEF Next, Shutdown, Quiet

\* What a task may do, by where it is.
OwnStep(t) ==
    \/ t \in Workers /\ Spawning(t)
    \/ t \in Tasks /\ (Stopping(t) \/ RestartSignal(t))
    \/ t \in Tasks /\ \E p \in Ids : SpawnCheck(t, p) \/ StopRemove(t, p) \/ RestartLook(t, p)
    \/ t = Monitor /\ Monitoring

\* A task only moves by a step of its own.
LEMMA TaskMovesItself ==
  ASSUME TypeInv, [Next]_vars, NEW t \in Workers
  PROVE  task'[t] = task[t] \/ OwnStep(t)
<1>0. task \in [Workers -> TaskRec] /\ Tasks \subseteq Workers /\ Monitor \in Workers
  BY DEF TypeInv, Workers
<1>1. ASSUME NEW u \in Tasks, NEW p \in Ids, SpawnCheck(u, p) \/ StopRemove(u, p) \/ RestartLook(u, p)
      PROVE  u # t => task'[t] = task[t]
  BY <1>0, <1>1 DEF SpawnCheck, StopRemove, RestartLook
<1>2. ASSUME NEW u \in Workers, Spawning(u) PROVE u # t => task'[t] = task[t]
  BY <1>0, <1>2 DEF Spawning, SpawnPrepare, SpawnExec, SpawnFails, HandshakeOk, HandshakeEof,
                HandshakeTimeout, SpawnInsert, Goto, Finish
<1>3. ASSUME NEW u \in Tasks, Stopping(u) \/ RestartSignal(u) PROVE u # t => task'[t] = task[t]
  BY <1>0, <1>3 DEF Stopping, StopMark, StopSignal, StopEscalate, StopExited, StopGivesUp,
                    RestartSignal, Goto, Finish
<1>4. CASE Monitoring
  BY <1>0, <1>4 DEF Monitoring, MonRecv, MonDecide, MonWake, MonDrop, Finish, OwnStep
<1>5. CASE UNCHANGED task
  BY <1>5
<1> QED
  BY <1>1, <1>2, <1>3, <1>4, <1>5
  DEF Next, ShimForks, Exit, InnerDies, Reap, SendExit, WatchdogKill, ShutBegin, Shutdown, ShutTerm,
      ShutCollect, ShutKill, ShutAbort, Quiet, vars, OwnStep

\* What a request starts with.
LEMMA RequestSteps ==
  ASSUME TypeInv, NEW t \in Tasks, NEW p \in Ids
  PROVE  /\ SpawnCheck(t, p) =>
              /\ task'[t].pc = "prepare" /\ task'[t].id = p /\ task'[t].epoch = next_epoch + 1
              /\ task'[t].from = 0 /\ task'[t].count = 0
         /\ StopRemove(t, p) =>
              /\ task'[t].pc = "stop_mark" /\ task'[t].id = p /\ task'[t].epoch = entries[p].epoch
              /\ task'[t].from = 0 /\ task'[t].count = 0
         /\ RestartLook(t, p) =>
              /\ task'[t].pc = "restart" /\ task'[t].id = p /\ task'[t].epoch = entries[p].epoch
              /\ task'[t].from = 0 /\ task'[t].count = 0
<1>0. task \in [Workers -> TaskRec] /\ t \in Workers
  BY DEF TypeInv, Workers
<1>1. ASSUME NEW c, NEW e, task' = [task EXCEPT ![t] = [Idle EXCEPT !.pc = c, !.id = p, !.epoch = e]]
      PROVE  task'[t].pc = c /\ task'[t].id = p /\ task'[t].epoch = e /\ task'[t].from = 0
             /\ task'[t].count = 0
  <2>1. task'[t] = [Idle EXCEPT !.pc = c, !.id = p, !.epoch = e]
    BY <1>0, <1>1
  <2> QED
    BY <2>1 DEF Idle
<1> QED
  BY <1>1 DEF SpawnCheck, StopRemove, RestartLook

\* What the monitor does.
LEMMA MonSteps ==
  ASSUME TypeInv
  PROVE  /\ MonRecv => \/ task' = task
                       \/ /\ task'[Monitor].pc = "decide" /\ task'[Monitor].id = proc[Head(events)].id
                          /\ task'[Monitor].from = Head(events) /\ task'[Monitor].count = 0
                          /\ task'[Monitor].epoch = 0
                          /\ task'[Monitor].forced = (proc[Head(events)].id \in forced_restarts)
                          /\ entries[proc[Head(events)].id] # None
                          /\ entries[proc[Head(events)].id].epoch = Head(events)
                          /\ stopped_epochs[proc[Head(events)].id] # Head(events)
         /\ MonDecide => /\ task'[Monitor].pc \in {"backoff", "drop"}
                         /\ task'[Monitor].id = task[Monitor].id
                         /\ task'[Monitor].from = task[Monitor].from
                         /\ task'[Monitor].epoch = task[Monitor].epoch
                         /\ task'[Monitor].forced = task[Monitor].forced
                         /\ task'[Monitor].pc = "backoff" =>
                              /\ ShouldRestart(task[Monitor].id, task[Monitor].forced,
                                               proc[task[Monitor].from].ok)
                              /\ task'[Monitor].count = entries[task[Monitor].id].count + 1
                         /\ task'[Monitor].pc = "drop" => task'[Monitor].count = task[Monitor].count
         /\ MonWake => \/ task'[Monitor] = Idle
                       \/ /\ task'[Monitor].pc = "prepare" /\ task'[Monitor].id = task[Monitor].id
                          /\ task'[Monitor].from = task[Monitor].from
                          /\ task'[Monitor].count = task[Monitor].count
                          /\ task'[Monitor].epoch = next_epoch + 1
                          /\ stopped_epochs[task[Monitor].id] # task[Monitor].from
         /\ MonDrop => task'[Monitor] = Idle
<1>0. task \in [Workers -> TaskRec] /\ Monitor \in Workers /\ task[Monitor] \in TaskRec
  BY DEF TypeInv, Workers
<1>1. ASSUME MonRecv, task' # task
      PROVE  /\ task'[Monitor].pc = "decide" /\ task'[Monitor].id = proc[Head(events)].id
             /\ task'[Monitor].from = Head(events) /\ task'[Monitor].count = 0
             /\ task'[Monitor].epoch = 0
             /\ task'[Monitor].forced = (proc[Head(events)].id \in forced_restarts)
  <2>1. task'[Monitor] = [Idle EXCEPT !.pc = "decide", !.id = proc[Head(events)].id,
                            !.from = Head(events), !.forced = (proc[Head(events)].id \in forced_restarts)]
    BY <1>0, <1>1 DEF MonRecv
  <2> QED
    BY <2>1 DEF Idle
<1>2. ASSUME MonRecv, task' # task
      PROVE  /\ entries[proc[Head(events)].id] # None
             /\ entries[proc[Head(events)].id].epoch = Head(events)
             /\ stopped_epochs[proc[Head(events)].id] # Head(events)
  BY <1>2 DEF MonRecv
<1>3. ASSUME MonDecide
      PROVE  /\ task'[Monitor].pc \in {"backoff", "drop"}
             /\ task'[Monitor].id = task[Monitor].id
             /\ task'[Monitor].from = task[Monitor].from
             /\ task'[Monitor].epoch = task[Monitor].epoch
             /\ task'[Monitor].forced = task[Monitor].forced
             /\ task'[Monitor].pc = "backoff" =>
                  /\ ShouldRestart(task[Monitor].id, task[Monitor].forced, proc[task[Monitor].from].ok)
                  /\ task'[Monitor].count = entries[task[Monitor].id].count + 1
             /\ task'[Monitor].pc = "drop" => task'[Monitor].count = task[Monitor].count
  <2>1. CASE ShouldRestart(task[Monitor].id, task[Monitor].forced, proc[task[Monitor].from].ok)
    <3>1. task'[Monitor] = [task[Monitor] EXCEPT !.pc = "backoff",
                                                 !.count = entries[task[Monitor].id].count + 1]
      BY <1>0, <1>3, <2>1 DEF MonDecide
    <3> QED
      BY <1>0, <2>1, <3>1 DEF TaskRec
  <2>2. CASE ~ShouldRestart(task[Monitor].id, task[Monitor].forced, proc[task[Monitor].from].ok)
    <3>1. task'[Monitor] = [task[Monitor] EXCEPT !.pc = "drop"]
      BY <1>0, <1>3, <2>2 DEF MonDecide
    <3> QED
      BY <1>0, <3>1 DEF TaskRec
  <2> QED
    BY <2>1, <2>2
<1>4. ASSUME MonWake, task'[Monitor] # Idle
      PROVE  /\ task'[Monitor].pc = "prepare" /\ task'[Monitor].id = task[Monitor].id
             /\ task'[Monitor].from = task[Monitor].from
             /\ task'[Monitor].count = task[Monitor].count
             /\ task'[Monitor].epoch = next_epoch + 1
             /\ stopped_epochs[task[Monitor].id] # task[Monitor].from
  <2>1. /\ task'[Monitor] = [task[Monitor] EXCEPT !.pc = "prepare", !.epoch = next_epoch + 1]
        /\ stopped_epochs[task[Monitor].id] # task[Monitor].from
    BY <1>0, <1>4 DEF MonWake, Finish
  <2> QED
    BY <1>0, <2>1 DEF TaskRec
<1>5. MonDrop => task'[Monitor] = Idle
  BY <1>0 DEF MonDrop, Finish
<1>6. MonRecv => \/ task' = task
                 \/ /\ task'[Monitor].pc = "decide" /\ task'[Monitor].id = proc[Head(events)].id
                    /\ task'[Monitor].from = Head(events) /\ task'[Monitor].count = 0
                    /\ task'[Monitor].epoch = 0
                    /\ task'[Monitor].forced = (proc[Head(events)].id \in forced_restarts)
                    /\ entries[proc[Head(events)].id] # None
                    /\ entries[proc[Head(events)].id].epoch = Head(events)
                    /\ stopped_epochs[proc[Head(events)].id] # Head(events)
  BY <1>1, <1>2
<1>7. MonWake => \/ task'[Monitor] = Idle
                 \/ /\ task'[Monitor].pc = "prepare" /\ task'[Monitor].id = task[Monitor].id
                    /\ task'[Monitor].from = task[Monitor].from
                    /\ task'[Monitor].count = task[Monitor].count
                    /\ task'[Monitor].epoch = next_epoch + 1
                    /\ stopped_epochs[task[Monitor].id] # task[Monitor].from
  BY <1>4
<1> QED
  BY <1>3, <1>5, <1>6, <1>7

\* A spawn, a stop or a restart goes on with the same work until it ends.
LEMMA WorkSteps ==
  ASSUME TypeInv, NEW t \in Workers, Spawning(t) \/ Stopping(t) \/ RestartSignal(t)
  PROVE  \/ task'[t] = Idle
         \/ /\ task'[t].id = task[t].id /\ task'[t].epoch = task[t].epoch
            /\ task'[t].count = task[t].count /\ task'[t].from = task[t].from
            /\ task[t].pc \in SpawnPcs => task'[t].pc \in SpawnPcs
            /\ task[t].pc \notin SpawnPcs => task[t].pc \in StopPcs /\ task'[t].pc \in StopPcs
<1>0. task \in [Workers -> TaskRec]
  BY DEF TypeInv
<1>1. ASSUME NEW c, Goto(t, c)
      PROVE  /\ task'[t].pc = c /\ task'[t].id = task[t].id /\ task'[t].epoch = task[t].epoch
             /\ task'[t].count = task[t].count /\ task'[t].from = task[t].from
  <2>1. task'[t] = [task[t] EXCEPT !.pc = c]
    BY <1>0, <1>1 DEF Goto
  <2> QED
    BY <1>0, <2>1 DEF TaskRec
<1>2. Finish(t) => task'[t] = Idle
  BY <1>0 DEF Finish
<1>3. CASE SpawnPrepare(t) \/ SpawnExec(t) \/ HandshakeOk(t)
  <2>1. \E c \in {"exec", "handshake", "insert"} : Goto(t, c)
    BY <1>3 DEF SpawnPrepare, SpawnExec, HandshakeOk
  <2>2. task[t].pc \in {"prepare", "exec", "handshake"}
    BY <1>3 DEF SpawnPrepare, SpawnExec, HandshakeOk, At
  <2> QED
    BY <1>1, <2>1, <2>2 DEF SpawnPcs
<1>4. CASE StopMark(t) \/ StopSignal(t) \/ StopEscalate(t)
  <2>1. \E c \in {"stop_signal", "stop_wait", "stop_kill"} : Goto(t, c)
    BY <1>4 DEF StopMark, StopSignal, StopEscalate
  <2>2. task[t].pc \in {"stop_mark", "stop_signal", "stop_wait"}
    BY <1>4 DEF StopMark, StopSignal, StopEscalate, At
  <2> QED
    BY <1>1, <2>1, <2>2 DEF SpawnPcs, StopPcs
<1> QED
  BY <1>2, <1>3, <1>4 DEF Spawning, Stopping, SpawnFails, HandshakeEof, HandshakeTimeout, SpawnInsert,
     StopExited, StopGivesUp, RestartSignal

\* What a process and its wait task do to it.
LEMMA LifeSteps ==
  ASSUME TypeInv, NEW e \in Epochs, Exit(e) \/ InnerDies(e) \/ Reap(e) \/ SendExit(e)
  PROVE  /\ proc'[e].id = proc[e].id /\ proc'[e].wait = proc[e].wait
         /\ proc'[e].joined = proc[e].joined /\ proc'[e].sig = proc[e].sig
         /\ Exit(e) => proc[e].st = "up" /\ proc'[e].st = "dead"
         /\ InnerDies(e) => proc[e].inner /\ proc[e].st # "up" /\ proc'[e].st = proc[e].st
         /\ Reap(e) => proc[e].st = "dead" /\ proc[e].wait /\ proc'[e].st = "reaped"
         /\ SendExit(e) => proc[e].st = "reaped" /\ proc'[e].st = "sent"
<1>0. proc \in [Epochs -> Process] /\ proc[e] \in Process
  BY DEF TypeInv, TypeOK
<1>1. CASE Exit(e)
  <2>1. PICK ok \in BOOLEAN, left \in BOOLEAN :
          proc' = [proc EXCEPT ![e].st = "dead", ![e].ok = ok, ![e].inner = left]
    BY <1>1 DEF Exit
  <2>2. proc'[e] = [proc[e] EXCEPT !.st = "dead", !.ok = ok, !.inner = left]
    BY <1>0, <2>1
  <2> QED
    BY <1>0, <1>1, <2>2 DEF Exit, InnerDies, Reap, SendExit, Process
<1>2. CASE InnerDies(e)
  <2>1. proc'[e] = [proc[e] EXCEPT !.inner = FALSE]
    BY <1>0, <1>2 DEF InnerDies
  <2>2. ~Exit(e) /\ ~Reap(e) /\ ~SendExit(e)
    <3>1. proc'[e].st = proc[e].st /\ proc[e].st # "up"
      BY <1>0, <1>2, <2>1 DEF InnerDies, Process
    <3>2. Reap(e) => proc[e].st = "dead" /\ proc'[e].st = "reaped"
      BY <1>0 DEF Reap, Process
    <3>3. SendExit(e) => proc[e].st = "reaped" /\ proc'[e].st = "sent"
      BY <1>0 DEF SendExit, Process
    <3> QED
      BY <3>1, <3>2, <3>3 DEF Exit
  <2> QED
    BY <1>0, <1>2, <2>1, <2>2 DEF InnerDies, Process
<1>3. CASE Reap(e)
  <2>1. proc'[e] = [proc[e] EXCEPT !.st = "reaped"]
    BY <1>0, <1>3 DEF Reap
  <2>2. ~Exit(e) /\ ~InnerDies(e) /\ ~SendExit(e)
    BY <1>0, <1>3, <2>1 DEF Exit, InnerDies, Reap, SendExit, Process
  <2> QED
    BY <1>0, <1>3, <2>1, <2>2 DEF Reap, Process
<1>4. CASE SendExit(e)
  <2>1. proc'[e] = [proc[e] EXCEPT !.st = "sent"]
    BY <1>0, <1>4 DEF SendExit
  <2>2. ~Exit(e) /\ ~InnerDies(e) /\ ~Reap(e)
    BY <1>0, <1>4, <2>1 DEF Exit, InnerDies, Reap, SendExit, Process
  <2> QED
    BY <1>0, <1>4, <2>1, <2>2 DEF SendExit, Process
<1> QED
  BY <1>1, <1>2, <1>3, <1>4

\* What the task that spawns a process does to it.
LEMMA SpawnSteps ==
  ASSUME TypeInv, NEW t \in Workers, Spawns(t), NEW e, e = task[t].epoch
  PROVE  /\ e \in Epochs
         /\ SpawnExec(t) => proc'[e].st = "up" /\ proc'[e].id = task[t].id
         /\ ~SpawnExec(t) => /\ proc'[e].id = proc[e].id
                             /\ proc'[e].sig = proc[e].sig /\ proc'[e].joined = proc[e].joined
         /\ HandshakeEof(t) => proc[e].st = "dead" /\ proc'[e].st = "sent"
         /\ SpawnInsert(t) => proc'[e].st = proc[e].st /\ proc'[e].inner = proc[e].inner
<1>0. proc \in [Epochs -> Process] /\ TaskOK(t, task[t])
  BY DEF TypeInv, TypeOK
<1>1. task[t].pc \in {"exec", "handshake", "insert"} /\ e \in Epochs
  BY <1>0 DEF Spawns, SpawnExec, HandshakeEof, SpawnInsert, At, TaskOK, SpawnPcs
<1>2. CASE SpawnExec(t)
  <2>1. proc'[e] = [NoProcess EXCEPT !.id = task[t].id, !.st = "up",
                                     !.joined = join_pids_cgroup(task[t].id)]
    BY <1>0, <1>1, <1>2 DEF SpawnExec
  <2>2. ~HandshakeEof(t) /\ ~SpawnInsert(t)
    BY <1>2 DEF SpawnExec, HandshakeEof, SpawnInsert, At
  <2> QED
    BY <1>1, <1>2, <2>1, <2>2 DEF NoProcess
<1>4. CASE HandshakeEof(t)
  <2>1. proc'[e] = [proc[e] EXCEPT !.st = "sent"] /\ proc[e].st = "dead" /\ proc[e] \in Process
    BY <1>0, <1>1, <1>4 DEF HandshakeEof
  <2>2. ~SpawnExec(t) /\ ~SpawnInsert(t)
    BY <1>4 DEF SpawnExec, HandshakeEof, SpawnInsert, At
  <2> QED
    BY <1>0, <1>1, <2>1, <2>2 DEF Process
<1>5. CASE SpawnInsert(t)
  <2>1. proc'[e] = [proc[e] EXCEPT !.wait = TRUE]
    BY <1>0, <1>1, <1>5 DEF SpawnInsert
  <2>2. ~SpawnExec(t) /\ ~HandshakeEof(t)
    BY <1>5 DEF SpawnExec, HandshakeEof, SpawnInsert, At
  <2> QED
    BY <1>0, <1>1, <2>1, <2>2 DEF Process
<1> QED
  BY <1>2, <1>4, <1>5 DEF Spawns

\* Abandoned shims are not forgotten, and the kernel ends for good.
LEMMA HistoryStays ==
  ASSUME [Next]_vars
  PROVE  abandoned \subseteq abandoned' /\ (~Alive => ~Alive')
<1> USE DEF Next, ShimForks, Exit, InnerDies, SendExit, WatchdogKill, ShutBegin, Shutdown, ShutTerm,
        ShutCollect, ShutKill, ShutAbort, Quiet, vars, SpawnCheck, StopRemove, RestartLook, Stopping,
        StopMark, StopSignal, StopEscalate, StopExited, StopGivesUp, RestartSignal, Monitoring,
        MonRecv, MonDecide, MonWake, MonDrop, Reap, Spawning, SpawnPrepare, SpawnExec, SpawnFails,
        HandshakeOk, HandshakeEof, HandshakeTimeout, SpawnInsert, history
<1>1. abandoned \subseteq abandoned'
  OBVIOUS
<1>2. ~Alive => ~Alive'
  BY DEF Alive
<1> QED
  BY <1>1, <1>2

\* A process keeps its id from the moment it is spawned.
LEMMA IdsStay ==
  ASSUME TypeInv, ProcInv, [Next]_vars, NEW e \in Epochs, proc[e].st # "none"
  PROVE  proc'[e].id = proc[e].id
<1>0. proc \in [Epochs -> Process] /\ \A t \in Workers : TaskProcOK(task[t])
  BY DEF TypeInv, TypeOK, ProcInv
<1>1. CASE Signals(e)
  BY <1>1 DEF Signals
<1>2. CASE Exit(e) \/ InnerDies(e) \/ Reap(e) \/ SendExit(e)
  BY <1>2, LifeSteps
<1>3. ASSUME NEW t \in Workers, task[t].epoch = e, Spawns(t) PROVE proc'[e].id = proc[e].id
  <2>1. ~SpawnExec(t)
    BY <1>0, <1>3, IdleOK DEF SpawnExec, At, TaskProcOK
  <2> QED
    BY <1>3, <2>1, SpawnSteps
<1> QED
  BY <1>1, <1>2, <1>3, ProcMoves

-----------------------------------------------------------------------------
(* Stops.                                                                  *)

\* stop_plugin returns from its wait by finding the exit, or by giving up.
LEMMA StopReturns ==
  ASSUME TypeInv, [Next]_vars, NEW t \in Tasks, task[t].pc \in {"stop_wait", "stop_kill"},
         task'[t].pc = "idle"
  PROVE  StopExited(t) \/ StopGivesUp(t)
<1>0. task \in [Workers -> TaskRec] /\ Tasks \subseteq Workers /\ Monitor \in Workers
      /\ Monitor \notin Tasks
  BY SupervisorAssumption DEF TypeInv, Workers
<1>1. ASSUME NEW u \in Tasks, NEW p \in Ids, SpawnCheck(u, p) \/ StopRemove(u, p) \/ RestartLook(u, p)
      PROVE  FALSE
  BY <1>0, <1>1 DEF SpawnCheck, StopRemove, RestartLook, Request
<1>2. ASSUME NEW u \in Workers, Spawning(u) PROVE FALSE
  <2>1. task[u].pc \notin {"stop_wait", "stop_kill"}
    BY <1>2 DEF Spawning, SpawnPrepare, SpawnExec, SpawnFails, HandshakeOk, HandshakeEof,
                HandshakeTimeout, SpawnInsert, At
  <2>2. \A v \in Workers : v # u => task'[v] = task[v]
    BY <1>0, <1>2 DEF Spawning, SpawnPrepare, SpawnExec, SpawnFails, HandshakeOk, HandshakeEof,
                HandshakeTimeout, SpawnInsert, Goto, Finish
  <2> QED
    BY <1>0, <2>1, <2>2
<1>3. ASSUME NEW u \in Tasks, StopMark(u) \/ StopSignal(u) \/ StopEscalate(u) PROVE FALSE
  <2>1. \E c \in {"stop_signal", "stop_wait", "stop_kill"} : task' = [task EXCEPT ![u].pc = c]
    BY <1>3 DEF StopMark, StopSignal, StopEscalate, Goto
  <2> QED
    BY <1>0, <2>1 DEF TaskRec
<1>4. ASSUME NEW u \in Tasks, StopExited(u) \/ StopGivesUp(u) PROVE u = t
  BY <1>0, <1>4 DEF StopExited, StopGivesUp, Finish
<1>5. ASSUME NEW u \in Tasks, RestartSignal(u) PROVE FALSE
  BY <1>0, <1>5 DEF RestartSignal, At, Finish
<1>6. CASE Monitoring
  BY <1>0, <1>6 DEF Monitoring, MonRecv, MonDecide, MonWake, MonDrop, Finish
<1>7. CASE UNCHANGED task
  BY <1>7
<1> QED
  BY <1>1, <1>2, <1>3, <1>4, <1>5, <1>6, <1>7
  DEF Next, Stopping, ShimForks, Exit, InnerDies, Reap, SendExit, WatchdogKill, ShutBegin, Shutdown, ShutTerm,
      ShutCollect, ShutKill, ShutAbort, Quiet, vars

\* "Stopped means the process tree actually exited, not just signalled": when
\* stop_plugin returns, process and plugin are gone, or SIGKILL was sent, for
\* any number of overlapping requests (supervisor/mod.rs stop_plugin).
THEOREM StopEndsProcess == Spec => StopMeansExited
<1>1. ASSUME TypeInv, ProcInv, [Next]_vars, NEW t \in Tasks,
             task[t].pc \in {"stop_wait", "stop_kill"}, task'[t].pc = "idle"
      PROVE  LET x == proc[task[t].epoch] IN x.sig = "kill" \/ (x.st # "up" /\ ~x.inner)
  <2>1. /\ t \in Workers /\ TaskProcOK(task[t]) /\ TaskOK(t, task[t])
        /\ proc \in [Epochs -> Process]
    BY <1>1 DEF ProcInv, TypeInv, TypeOK, Workers
  <2>2. PICK e \in Epochs : e = task[t].epoch
    BY <1>1, <2>1 DEF TaskOK, StopPcs
  <2>3. ProcOK(e) /\ proc[e] \in Process
    BY <1>1, <2>1, <2>2 DEF ProcInv
  <2>4. CASE StopExited(t)
    BY <1>1, <2>1, <2>2, <2>3, <2>4 DEF StopExited, Exited, ProcOK, TaskProcOK, StopPcs
  <2>5. CASE StopGivesUp(t)
    <3>1. task[t].pc = "stop_kill" /\ ~Exited(e)
      BY <2>2, <2>5 DEF StopGivesUp, At
    <3>2. proc[e].sig = "kill" \/ proc[e].st \in {"dead", "none"}
      BY <2>1, <2>2, <2>3, <3>1 DEF TaskProcOK, Exited, Process
    <3> QED
      BY <1>1, <2>1, <2>2, <2>3, <3>2, IdleOK DEF ProcOK, TaskProcOK, StopPcs
  <2> QED
    BY <1>1, <2>4, <2>5, StopReturns
<1>2. TypeInv /\ ProcInv /\ [Next]_vars =>
        [\A t \in Tasks :
         task[t].pc \in {"stop_wait", "stop_kill"} /\ task'[t].pc = "idle" =>
           LET x == proc[task[t].epoch] IN
           x.sig = "kill" \/ (x.st # "up" /\ ~x.inner)]_vars
  BY <1>1
<1> QED
  BY <1>2, ProcInvariant, PTL DEF Spec, StopMeansExited

-----------------------------------------------------------------------------
(* Scopes.                                                                 *)

\* Why p's scope may be there.
Held(p) ==
    \/ Attended(p, proc)
    \/ p \in leftover
    \/ \E t \in Workers : task[t].id = p /\ task[t].pc \in {"exec", "handshake"}
    \/ \E e \in abandoned : proc[e].id = p
    \/ ~Alive

\* A shim lives or is a zombie as long as its handshake is awaited: it has no
\* wait task yet.
ShimInv == \A t \in Workers : task[t].pc = "handshake" => proc[task[t].epoch].st \in {"up", "dead"}

\* A handshake that is awaited still has its shim after any step.
LEMMA ShimStep == TypeInv /\ ProcInv /\ ShimInv /\ [Next]_vars => ShimInv'
<1> SUFFICES ASSUME TypeInv, ProcInv, ShimInv, [Next]_vars, NEW t \in Workers,
                    task'[t].pc = "handshake"
             PROVE  proc'[task'[t].epoch].st \in {"up", "dead"}
  BY DEF ShimInv
<1>0. /\ task \in [Workers -> TaskRec] /\ TaskOK(t, task[t]) /\ TaskProcOK(task[t])
      /\ Monitor \in Workers
  BY DEF TypeInv, ProcInv, Workers
<1>1. CASE task'[t] = task[t]
  <2>1. PICK e \in Epochs : e = task[t].epoch
    BY <1>0, <1>1 DEF TaskOK, SpawnPcs
  <2>2. proc[e].st \in {"up", "dead"} /\ ~proc[e].wait
    BY <1>0, <1>1, <2>1 DEF ShimInv, TaskProcOK
  <2>3. CASE Signals(e)
    BY <1>1, <2>1, <2>2, <2>3 DEF Signals
  <2>4. CASE Exit(e) \/ InnerDies(e) \/ Reap(e) \/ SendExit(e)
    BY <1>1, <2>1, <2>2, <2>4, LifeSteps
  <2>5. ASSUME NEW u \in Workers, task[u].epoch = e, Spawns(u) PROVE FALSE
    <3>1. task[u].pc \in SpawnPcs /\ task'[u] # task[u]
      BY <1>0, <2>5, IdleOK DEF Spawns, SpawnExec, HandshakeEof, SpawnInsert, At, Goto,
         Finish, SpawnPcs, TaskRec
    <3>2. u = t
      BY <1>1, <2>1, <2>5, <3>1 DEF ProcInv, SpawnPcs
    <3> QED
      BY <1>1, <3>1, <3>2
  <2> QED
    BY <2>3, <2>4, <2>5, ProcMoves
<1>2. CASE task'[t] # task[t]
  <2>1. SpawnExec(t) /\ task'[t].epoch = task[t].epoch
    <3>1. OwnStep(t)
      BY <1>2, TaskMovesItself
    <3>2. ~(t = Monitor /\ Monitoring)
      BY <1>2, IdleOK, MonSteps DEF Monitoring
    <3>3. ~(t \in Tasks /\ (Stopping(t) \/ RestartSignal(t)))
      BY <1>0, IdleOK DEF Stopping, StopMark, StopSignal, StopEscalate, StopExited, StopGivesUp,
                    RestartSignal, Goto, Finish, TaskRec
    <3>4. ~(t \in Tasks /\ \E p \in Ids : SpawnCheck(t, p) \/ StopRemove(t, p) \/ RestartLook(t, p))
      BY RequestSteps
    <3>5. Spawning(t)
      BY <3>1, <3>2, <3>3, <3>4 DEF OwnStep
    <3> QED
      BY <1>0, <3>5, IdleOK DEF Spawning, SpawnPrepare, SpawnExec, SpawnFails, HandshakeOk, HandshakeEof,
                    HandshakeTimeout, SpawnInsert, Goto, Finish, TaskRec
  <2> QED
    BY <2>1, SpawnSteps DEF Spawns
<1> QED
  BY <1>1, <1>2

\* Every step leaves a scope only to somebody who will remove it, or on record.
LEMMA ScopeStep ==
  TypeInv /\ ProcInv /\ TypeInv' /\ ProcInv' /\ ShimInv /\ NoScopeLeak /\ [Next]_vars => NoScopeLeak'
<1> SUFFICES ASSUME TypeInv, ProcInv, TypeInv', ProcInv', ShimInv, NoScopeLeak, [Next]_vars,
                    NEW p \in scopes'
             PROVE  Held(p)'
  BY DEF NoScopeLeak, Held
<1>0. /\ task \in [Workers -> TaskRec] /\ \A t \in Workers : TaskOK(t, task[t])
      /\ \A t \in Workers : TaskProcOK(task[t]) /\ Monitor \in Workers
      /\ proc \in [Epochs -> Process] /\ abandoned \subseteq Epochs /\ p \in Ids
      /\ \A e \in Epochs : ProcOK(e)
  BY DEF TypeInv, TypeOK, ProcInv, Workers
<1>1. ASSUME NEW t \in Workers, task[t].id = p, SpawnPrepare(t) PROVE Held(p)'
  <2>1. task'[t].id = p /\ task'[t].pc = "exec"
    BY <1>0, <1>1 DEF SpawnPrepare, Goto, TaskRec
  <2> QED
    BY <2>1 DEF Held
<1>2. ASSUME Cleanup(p, proc') PROVE Held(p)'
  BY <1>2, CleanupOK DEF Held
<1>3. ASSUME NEW t \in Workers, task[t].id = p, SpawnFails(t) PROVE Held(p)'
  BY <1>2, <1>3 DEF SpawnFails
<1>4. ASSUME NEW t \in Workers, task[t].id = p, HandshakeEof(t) PROVE Held(p)'
  BY <1>2, <1>4 DEF HandshakeEof
<1>5. ASSUME NEW e \in Epochs, proc[e].id = p, Reap(e) PROVE Held(p)'
  BY <1>2, <1>5 DEF Reap
<1>6. \/ p \in scopes \/ \E t \in Workers : task[t].id = p /\ SpawnPrepare(t)
  <2>1. ASSUME NEW t \in Workers, Spawning(t), ~SpawnPrepare(t) PROVE scopes' \subseteq scopes
    BY <2>1, CleanupOK DEF Spawning, SpawnExec, SpawnFails, HandshakeOk, HandshakeEof,
                           HandshakeTimeout, SpawnInsert
  <2>2. ASSUME NEW e \in Epochs, Reap(e) PROVE scopes' \subseteq scopes
    BY <2>2, CleanupOK DEF Reap
  <2>3. ASSUME NEW t \in Workers, SpawnPrepare(t), p \notin scopes PROVE task[t].id = p
    BY <2>3 DEF SpawnPrepare, prepare_pids_cgroup
  <2>4. CASE UNCHANGED scopes
    BY <2>4
  <2> QED
    BY <2>1, <2>2, <2>3, <2>4
    DEF Next, ShimForks, Exit, InnerDies, SendExit, WatchdogKill, ShutBegin, Shutdown, ShutTerm, ShutCollect,
        ShutKill, ShutAbort, Quiet, vars, SpawnCheck, StopRemove, RestartLook, Stopping, StopMark,
        StopSignal, StopEscalate, StopExited, StopGivesUp, RestartSignal, Monitoring, MonRecv,
        MonDecide, MonWake, MonDrop
<1>r. ASSUME p \in leftover, ~\E t \in Workers : task[t].id = p /\ SpawnPrepare(t)
      PROVE  Held(p)'
  <2>1. ASSUME NEW t \in Workers, SpawnPrepare(t) PROVE p \in leftover'
    BY <1>r, <2>1 DEF SpawnPrepare, prepare_pids_cgroup
  <2>2. ASSUME NEW t \in Workers, SpawnFails(t) \/ HandshakeEof(t) PROVE p \in leftover'
    BY <1>r, <2>2, CleanupOK DEF SpawnFails, HandshakeEof
  <2>3. ASSUME NEW e \in Epochs, Reap(e) PROVE p \in leftover'
    BY <1>r, <2>3, CleanupOK DEF Reap
  <2>4. UNCHANGED leftover => p \in leftover'
    BY <1>r
  <2>5. p \in leftover'
    BY <2>1, <2>2, <2>3, <2>4
    DEF Next, ShimForks, Exit, InnerDies, SendExit, WatchdogKill, ShutBegin, Shutdown, ShutTerm,
        ShutCollect, ShutKill, ShutAbort, Quiet, vars, history, SpawnCheck, StopRemove, RestartLook,
        Stopping, StopMark, StopSignal, StopEscalate, StopExited, StopGivesUp, RestartSignal,
        Monitoring, MonRecv, MonDecide, MonWake, MonDrop, Spawning, SpawnExec, HandshakeOk,
        HandshakeTimeout, SpawnInsert
  <2> QED
    BY <2>5 DEF Held
<1>7. ASSUME NEW e \in Epochs, proc[e].id = p, proc[e].st \in {"up", "dead"} PROVE Held(p)'
  <2>1. proc[e].st \in {"up", "dead"}
    BY <1>7
  <2>2. ASSUME proc'[e].id = p, proc'[e].st \in {"up", "dead"} PROVE Held(p)'
    BY <2>2 DEF Held, Attended
  <2>3. CASE Signals(e)
    BY <1>7, <2>1, <2>2, <2>3 DEF Signals
  <2>4. CASE Exit(e) \/ InnerDies(e) \/ SendExit(e)
    BY <1>7, <2>1, <2>2, <2>4, LifeSteps
  <2>5. CASE Reap(e)
    BY <1>5, <1>7, <2>5
  <2>6. ASSUME NEW t \in Workers, task[t].epoch = e, Spawns(t) PROVE Held(p)'
    <3>1. ~SpawnExec(t)
      BY <1>0, <2>1, <2>6, IdleOK DEF SpawnExec, At, TaskProcOK
    <3>2. CASE HandshakeEof(t)
      <4>1. task[t].id = p
        BY <1>0, <1>7, <2>6, <3>2 DEF HandshakeEof, At, TaskProcOK
      <4> QED
        BY <1>4, <3>2, <4>1
    <3>3. CASE SpawnInsert(t)
      BY <1>7, <2>1, <2>2, <2>6, <3>1, <3>3, SpawnSteps
    <3> QED
      BY <2>6, <3>1, <3>2, <3>3 DEF Spawns
  <2> QED
    BY <2>3, <2>4, <2>5, <2>6, ProcMoves
<1>8. ASSUME NEW t \in Workers, task[t].id = p, task[t].pc \in {"exec", "handshake"} PROVE Held(p)'
  <2>0. PICK e \in Epochs : e = task[t].epoch
    BY <1>0, <1>8 DEF TaskOK, SpawnPcs
  <2>1. CASE task'[t] = task[t]
    BY <1>8, <2>1 DEF Held
  <2>2. CASE SpawnExec(t)
    BY <1>8, <2>0, <2>2, SpawnSteps DEF Spawns, Held, Attended
  <2>3. CASE SpawnFails(t)
    BY <1>3, <1>8, <2>3
  <2>4. CASE HandshakeEof(t)
    BY <1>4, <1>8, <2>4
  <2>5. CASE HandshakeOk(t)
    <3>1. proc[e].st \in {"up", "dead"} /\ proc[e].id = p
      BY <1>0, <1>8, <2>0, <2>5 DEF HandshakeOk, At, ShimInv, TaskProcOK
    <3> QED
      BY <1>7, <3>1
  <2>6. CASE HandshakeTimeout(t)
    <3>1. proc[e].id = p /\ e \in abandoned' /\ proc' = proc
      BY <1>0, <1>8, <2>0, <2>6 DEF HandshakeTimeout, At, TaskProcOK
    <3> QED
      BY <3>1 DEF Held
  <2>7. ~OwnStep(t) \/ Spawning(t)
    BY <1>8 DEF OwnStep, Stopping, StopMark, StopSignal, StopEscalate, StopExited, StopGivesUp,
             RestartSignal, Monitoring, MonRecv, MonDecide, MonWake, MonDrop, At, SpawnCheck,
             StopRemove, RestartLook, Request
  <2>8. ~SpawnPrepare(t) /\ ~SpawnInsert(t)
    BY <1>8 DEF SpawnPrepare, SpawnInsert, At
  <2> QED
    BY <2>1, <2>2, <2>3, <2>4, <2>5, <2>6, <2>7, <2>8, TaskMovesItself DEF Spawning
<1>9. ASSUME NEW e \in abandoned, proc[e].id = p PROVE Held(p)'
  <2>1. e \in abandoned'
    BY <1>9, HistoryStays
  <2>2. proc'[e].id = p
    <3>1. e \in Epochs /\ proc[e].st # "none"
      BY <1>0, <1>9 DEF ProcInv
    <3> QED
      BY <1>9, <3>1, IdsStay
  <2> QED
    BY <2>1, <2>2 DEF Held
<1>10. CASE ~Alive
  BY <1>10, HistoryStays DEF Held
<1> QED
  BY <1>1, <1>6, <1>r, <1>7, <1>8, <1>9, <1>10 DEF NoScopeLeak, Attended

\* No pids scope is forgotten, whatever overlaps: when the last process of its
\* plugin has been waited for, the scope is gone, or the last cleanup could not
\* remove it after all its tries, except for a shim whose handshake timed out
\* (spawn.rs spawn_internal and its wait task, runner.rs cleanup_pids_cgroup).
THEOREM ScopesRemoved == Spec => []NoScopeLeak
<1>1. Init => ShimInv /\ NoScopeLeak
  <2>1. Init => \A t \in Workers : task[t] = Idle
    BY DEF Init
  <2> QED
    BY <2>1, IdleOK DEF Init, ShimInv, NoScopeLeak
<1>2. (TypeInv /\ ProcInv) /\ (TypeInv /\ ProcInv)' /\ ShimInv /\ NoScopeLeak /\ [Next]_vars
        => (ShimInv /\ NoScopeLeak)'
  BY ShimStep, ScopeStep
<1> QED
  BY <1>1, <1>2, ProcInvariant, PTL DEF Spec

-----------------------------------------------------------------------------
(* Restarts.                                                               *)

\* A manual restart of p that has not been used: its flag, or the monitor has
\* just found the flag. No more of them than were asked for, and together with
\* every restart count in use they fit the budget.
Tokens(p) ==
    (IF p \in forced_restarts THEN 1 ELSE 0) +
    (IF task[Monitor].pc = "decide" /\ task[Monitor].id = p /\ task[Monitor].forced THEN 1 ELSE 0)

Within(n, p) == n + Tokens(p) <= MaxRestarts + manual[p]

Budget(p) ==
    /\ Tokens(p) <= manual[p]
    /\ entries[p] # None => Within(entries[p].count, p)
    /\ \A t \in Workers : task[t].id = p => Within(task[t].count, p)

\* Counts of a plugin that come from its counts fit as before.
LEMMA BudgetKeeps ==
  ASSUME TypeInv, TypeInv', NEW p \in Ids, Budget(p),
         Tokens(p)' + manual[p] <= Tokens(p) + manual'[p],
         \/ entries'[p] = entries[p] \/ entries'[p] = None
         \/ \E t \in Workers : task[t].id = p /\ entries'[p].count = task[t].count,
         \A t \in Workers : task'[t].id = p => \/ task'[t].count = 0 \/ Within(task[t].count, p)'
                                               \/ /\ task[t].id = p
                                                  /\ task'[t].count = task[t].count
  PROVE  Budget(p)'
<1>0. /\ manual[p] \in Nat /\ manual'[p] \in Nat /\ MaxRestarts \in Nat
      /\ Tokens(p) \in Nat /\ Tokens(p)' \in Nat
      /\ \A t \in Workers : task[t].count \in Nat /\ task'[t].count \in Nat
      /\ entries[p] # None => entries[p].count \in Nat
      /\ entries'[p] # None => entries'[p].count \in Nat
  <2>1. manual[p] \in Nat /\ manual'[p] \in Nat /\ MaxRestarts \in Nat
    BY SupervisorAssumption DEF TypeInv
  <2>2. Tokens(p) \in Nat /\ Tokens(p)' \in Nat
    BY DEF Tokens
  <2>3. \A t \in Workers : task[t].count \in Nat /\ task'[t].count \in Nat
    <3>1. task \in [Workers -> TaskRec] /\ task' \in [Workers -> TaskRec]
      BY DEF TypeInv
    <3> QED
      BY <3>1 DEF TaskRec
  <2>4. entries \in [Ids -> Entry \cup {None}] /\ entries' \in [Ids -> Entry \cup {None}]
    BY DEF TypeInv, TypeOK
  <2> QED
    BY <2>1, <2>2, <2>3, <2>4 DEF Entry
<1>1. Tokens(p)' <= manual'[p]
  BY <1>0 DEF Budget
<1>2. entries'[p] # None => Within(entries[p].count, p)'
  BY <1>0 DEF Budget, Within
<1>3. \A t \in Workers : task'[t].id = p => Within(task[t].count, p)'
  BY <1>0, <1>1 DEF Budget, Within
<1> QED
  BY <1>1, <1>2, <1>3 DEF Budget

\* Every step keeps to the budget.
LEMMA BudgetStep ==
  TypeInv /\ ProcInv /\ TypeInv' /\ (\A p \in Ids : Budget(p)) /\ [Next]_vars
    => \A p \in Ids : Budget(p)'
<1> SUFFICES ASSUME TypeInv, ProcInv, TypeInv', [Next]_vars, NEW p \in Ids, Budget(p)
             PROVE  Budget(p)'
  OBVIOUS
<1>0. /\ task \in [Workers -> TaskRec] /\ \A t \in Workers : TaskOK(t, task[t])
      /\ Monitor \in Workers /\ Tasks \subseteq Workers /\ Monitor \notin Tasks
      /\ manual \in [Ids -> Nat] /\ entries \in [Ids -> Entry \cup {None}] /\ MaxRestarts \in Nat
      /\ events \in Seq(Epochs)
      /\ None \notin Ids
  BY SupervisorAssumption DEF TypeInv, TypeOK, Workers
<1>1. \A t \in Workers : task'[t].id = p =>
        \/ task'[t].count = 0
        \/ task[t].id = p /\ task'[t].count = task[t].count
        \/ t = Monitor /\ MonDecide /\ task'[t].pc = "backoff"
  <2> SUFFICES ASSUME NEW t \in Workers, OwnStep(t), task'[t].id = p
               PROVE  \/ task'[t].count = 0
                      \/ task[t].id = p /\ task'[t].count = task[t].count
                      \/ t = Monitor /\ MonDecide /\ task'[t].pc = "backoff"
    BY TaskMovesItself
  <2>1. task'[t] # Idle
    BY <1>0, IdleOK
  <2>2. CASE Spawning(t) \/ Stopping(t) \/ RestartSignal(t)
    BY <2>1, <2>2, WorkSteps
  <2>3. CASE t \in Tasks /\ \E q \in Ids : SpawnCheck(t, q) \/ StopRemove(t, q) \/ RestartLook(t, q)
    BY <2>3, RequestSteps
  <2>4. CASE t = Monitor /\ Monitoring
    BY <2>1, <2>4, MonSteps DEF Monitoring
  <2> QED
    BY <2>2, <2>3, <2>4 DEF OwnStep
<1>2. \/ entries'[p] = entries[p] \/ entries'[p] = None
      \/ \E t \in Workers : task[t].id = p /\ entries'[p].count = task[t].count
  <2>1. ASSUME NEW t \in Workers, SpawnInsert(t)
        PROVE  entries'[p] = entries[p] \/ (task[t].id = p /\ entries'[p].count = task[t].count)
    BY <1>0, <2>1 DEF SpawnInsert
  <2>2. ASSUME NEW t \in Tasks, NEW q \in Ids, StopRemove(t, q)
        PROVE  entries'[p] = entries[p] \/ entries'[p] = None
    BY <1>0, <2>2 DEF StopRemove
  <2>3. MonDrop => entries'[p] = entries[p] \/ entries'[p] = None
    BY <1>0 DEF MonDrop
  <2>4. CASE UNCHANGED entries
    BY <2>4
  <2> QED
    BY <2>1, <2>2, <2>3, <2>4
    DEF Next, ShimForks, Exit, InnerDies, Reap, SendExit, WatchdogKill, ShutBegin, Shutdown, ShutTerm, ShutCollect,
        ShutKill, ShutAbort, Quiet, vars, SpawnCheck, RestartLook, Stopping, StopMark,
        StopSignal, StopEscalate, StopExited, StopGivesUp, RestartSignal, Monitoring, MonRecv,
        MonDecide, MonWake, Spawning, SpawnPrepare, SpawnExec, SpawnFails,
        HandshakeOk, HandshakeEof, HandshakeTimeout, sup
<1>3. ASSUME NEW t \in Tasks, RestartSignal(t) PROVE Budget(p)'
  <2>1. task'[Monitor] = task[Monitor] /\ task[t].id \in Ids
    BY <1>0, <1>3 DEF RestartSignal, Finish, At, TaskOK
  <2>2. Tokens(p)' + manual[p] <= Tokens(p) + manual'[p]
    BY <1>0, <1>3, <2>1 DEF RestartSignal, Tokens
  <2>3. ~MonDecide
    BY <1>0, <1>3, <2>1 DEF RestartSignal, MonDecide, history
  <2> QED
    BY <1>1, <1>2, <2>2, <2>3, BudgetKeeps
<1>4. CASE MonRecv
  <2>1. manual' = manual /\ task[Monitor].pc = "idle" /\ ~MonDecide
    BY <1>4 DEF MonRecv, history, At, MonDecide
  <2>2. Tokens(p)' <= Tokens(p)
    <3>1. forced_restarts' = forced_restarts \ {proc[Head(events)].id}
      BY <1>4 DEF MonRecv
    <3>2. CASE task' = task
      BY <2>1, <3>1, <3>2 DEF Tokens
    <3>3. CASE task' # task
      <4>1. task'[Monitor].id = proc[Head(events)].id
            /\ task'[Monitor].forced = (proc[Head(events)].id \in forced_restarts)
        BY <1>4, <3>3, MonSteps
      <4>2. CASE p = proc[Head(events)].id
        <5>1. p \notin forced_restarts' /\ (task'[Monitor].forced => p \in forced_restarts)
          BY <3>1, <4>1, <4>2
        <5> QED
          BY <2>1, <5>1 DEF Tokens
      <4>3. CASE p # proc[Head(events)].id
        <5>1. (p \in forced_restarts' => p \in forced_restarts) /\ task'[Monitor].id # p
          BY <3>1, <4>1, <4>3
        <5> QED
          BY <2>1, <5>1 DEF Tokens
      <4> QED
        BY <4>2, <4>3
    <3> QED
      BY <3>2, <3>3
  <2>3. Tokens(p)' \in Nat /\ Tokens(p) \in Nat
    BY DEF Tokens
  <2> QED
    BY <1>0, <1>1, <1>2, <2>1, <2>2, <2>3, BudgetKeeps
<1>5. CASE MonDecide
  <2>1. /\ manual' = manual /\ task[Monitor].pc = "decide" /\ forced_restarts' = forced_restarts
        /\ entries' = entries
    BY <1>5 DEF MonDecide, history, At, sup
  <2>2. Tokens(p) \in Nat /\ Tokens(p)' \in Nat /\ manual[p] \in Nat
    BY <1>0 DEF Tokens
  <2>3. task'[Monitor].pc \in {"backoff", "drop"} /\ task'[Monitor].id = task[Monitor].id
    BY <1>5, MonSteps
  <2>4. /\ Tokens(p)' <= Tokens(p)
        /\ task[Monitor].id = p /\ task[Monitor].forced => Tokens(p)' = Tokens(p) - 1
    BY <2>1, <2>3 DEF Tokens
  <2>5. task'[Monitor].id = p /\ task'[Monitor].pc = "backoff" => Within(task[Monitor].count, p)'
    <3> SUFFICES ASSUME task'[Monitor].id = p, task'[Monitor].pc = "backoff"
                 PROVE  Within(task[Monitor].count, p)'
      OBVIOUS
    <3>1. /\ ShouldRestart(p, task[Monitor].forced, proc[task[Monitor].from].ok)
          /\ task'[Monitor].count = entries[p].count + 1
      BY <1>5, <2>3, MonSteps
    <3>2. entries[p] # None /\ entries[p].count \in Nat
      BY <1>0, <3>1 DEF ShouldRestart, Entry
    <3>3. entries[p].count + Tokens(p) <= MaxRestarts + manual[p] /\ Tokens(p) <= manual[p]
      BY <3>2 DEF Budget, Within
    <3>4. task[Monitor].forced \/ entries[p].count < MaxRestarts
      BY <3>1 DEF ShouldRestart
    <3>5. entries[p].count + 1 + Tokens(p)' <= MaxRestarts + manual[p]
      BY <1>0, <2>2, <2>3, <2>4, <3>2, <3>3, <3>4
    <3> QED
      BY <2>1, <3>1, <3>5 DEF Within
  <2>6. \A t \in Workers : task'[t].id = p => \/ task'[t].count = 0 \/ Within(task[t].count, p)'
                                              \/ /\ task[t].id = p
                                                 /\ task'[t].count = task[t].count
    BY <1>1, <2>5
  <2> QED
    BY <1>0, <1>2, <2>1, <2>2, <2>4, <2>6, BudgetKeeps
<1>6. ASSUME ~MonRecv, ~MonDecide, \A t \in Tasks : ~RestartSignal(t) PROVE Budget(p)'
  <2>1. forced_restarts' \subseteq forced_restarts /\ manual' = manual
    BY <1>6
    DEF Next, ShimForks, Exit, InnerDies, Reap, SendExit, WatchdogKill, ShutBegin, Shutdown, ShutTerm, ShutCollect,
        ShutKill, ShutAbort, Quiet, vars, SpawnCheck, StopRemove, RestartLook, Stopping, StopMark,
        StopSignal, StopEscalate, StopExited, StopGivesUp, Monitoring, MonDrop,
        MonWake, Spawning, SpawnPrepare, SpawnExec, SpawnFails,
        HandshakeOk, HandshakeEof, HandshakeTimeout, SpawnInsert, sup, history
  <2>2. task'[Monitor].pc = "decide" => task'[Monitor] = task[Monitor]
    <3>1. Spawning(Monitor) => task'[Monitor].pc # "decide"
      <4>1. Spawning(Monitor) => task[Monitor].pc \in SpawnPcs
        BY DEF Spawning, SpawnPrepare, SpawnExec, SpawnFails, HandshakeOk, HandshakeEof,
               HandshakeTimeout, SpawnInsert, At, SpawnPcs
      <4> QED
        BY <1>0, <4>1, WorkSteps, IdleOK DEF SpawnPcs
    <3>2. MonWake \/ MonDrop => task'[Monitor].pc # "decide"
      BY MonSteps, IdleOK
    <3> QED
      BY <1>0, <1>6, <3>1, <3>2, TaskMovesItself DEF OwnStep, Monitoring
  <2>3. Tokens(p)' <= Tokens(p) /\ Tokens(p) \in Nat /\ Tokens(p)' \in Nat
    BY <2>1, <2>2 DEF Tokens
  <2> QED
    BY <1>0, <1>1, <1>2, <1>6, <2>1, <2>3, BudgetKeeps
<1> QED
  BY <1>3, <1>4, <1>5, <1>6

\* Beyond max_restarts a plugin comes up only as often as somebody asked for it,
\* whatever overlaps: a forced-restart flag is good for one restart, also when
\* the exit that consumes it is not the one it was set for.
THEOREM RestartsBounded == Spec => []RestartBudget
<1>1. Init => \A p \in Ids : Budget(p)
  <2> SUFFICES ASSUME Init, NEW p \in Ids PROVE Budget(p)
    OBVIOUS
  <2>1. \A t \in Workers : task[t] = Idle
    BY DEF Init
  <2>2. Tokens(p) = 0
    BY <2>1, IdleOK DEF Init, Tokens, Workers
  <2> QED
    BY <2>1, <2>2, IdleOK, SupervisorAssumption DEF Init, Budget
<1>2. (TypeInv /\ ProcInv) /\ (TypeInv /\ ProcInv)' /\ (\A p \in Ids : Budget(p)) /\ [Next]_vars
        => (\A p \in Ids : Budget(p))'
  BY BudgetStep
<1>3. TypeInv /\ (\A p \in Ids : Budget(p)) => RestartBudget
  <2> SUFFICES ASSUME TypeInv, NEW p \in Ids, Budget(p), entries[p] # None
               PROVE  entries[p].count <= MaxRestarts + manual[p]
    BY DEF RestartBudget
  <2>1. /\ entries[p].count \in Nat /\ MaxRestarts \in Nat /\ manual[p] \in Nat /\ Tokens(p) \in Nat
        /\ entries[p].count + Tokens(p) <= MaxRestarts + manual[p]
    BY SupervisorAssumption DEF TypeInv, TypeOK, Entry, Budget, Within, Tokens
  <2> QED
    BY <2>1
<1> QED
  BY <1>1, <1>2, <1>3, ProcInvariant, PTL DEF Spec

-----------------------------------------------------------------------------
(* Stops and restarts of one id, when its requests do not overlap.         *)

\* Who spawns p is alone with it.
Alone == \A t, u \in Workers : task[t].pc \in SpawnPcs /\ task[u].id = task[t].id => t = u

\* A stop has removed the entry, a start has found none.
Removed ==
    /\ \A t \in Workers : task[t].pc \in StopPcs => entries[task[t].id] = None
    /\ \A t \in Tasks : task[t].pc \in SpawnPcs => entries[task[t].id] = None

\* Nobody spawns a stopped plugin.
NotHalted == \A t \in Workers : task[t].pc \in SpawnPcs => task[t].id \notin halted

\* The monitor restarts or drops the entry whose exit it handles, or none,
Replaces ==
    task[Monitor].pc \in MonPcs \cup SpawnPcs =>
      \/ entries[task[Monitor].id] = None
      \/ entries[task[Monitor].id].epoch = task[Monitor].from

\* a stop that overtakes it stops that instance,
StopsIt ==
    task[Monitor].pc \in MonPcs =>
      \A t \in Workers : task[t].pc = "stop_mark" /\ task[t].id = task[Monitor].id
                           => task[t].epoch = task[Monitor].from

\* and leaves its mark.
StopSeen ==
    task[Monitor].pc \in MonPcs /\ task[Monitor].id \in halted
      => stopped_epochs[task[Monitor].id] = task[Monitor].from

SerialInv == Alone /\ Removed /\ NotHalted /\ Replaces /\ StopsIt /\ StopSeen /\ StopIsTerminal

\* A task that stays, ends, or goes on with the same work.
Continues(t) ==
    \/ task'[t] = task[t] \/ task'[t] = Idle
    \/ /\ task'[t].id = task[t].id /\ task'[t].epoch = task[t].epoch /\ task'[t].from = task[t].from
       /\ \/ task[t].pc \in SpawnPcs /\ task'[t].pc \in SpawnPcs
          \/ task[t].pc \in MonPcs /\ task'[t].pc \in MonPcs
          \/ task[t].pc \in StopPcs /\ task'[t].pc \in StopPcs \ {"stop_mark"}

\* What a task goes on with.
LEMMA ContinuesMeans ==
  ASSUME NEW t, Continues(t)
  PROVE  /\ task'[t].pc \in SpawnPcs => task[t].pc \in SpawnPcs
         /\ task'[t].pc \in MonPcs => task[t].pc \in MonPcs
         /\ task'[t].pc \in StopPcs => task[t].pc \in StopPcs
         /\ task'[t].pc = "stop_mark" => task[t].pc = "stop_mark"
         /\ task'[t].id # None => /\ task'[t].id = task[t].id /\ task'[t].epoch = task[t].epoch
                                  /\ task'[t].from = task[t].from
  BY IdleOK DEF Continues, SpawnPcs, MonPcs, StopPcs

\* Steps in which every task goes on and no entry appears.
LEMMA SerialKeeps ==
  ASSUME TypeInv, TypeInv', SerialInv, \A t \in Workers : Continues(t),
         \A p \in Ids : entries'[p] = entries[p] \/ entries'[p] = None,
         UNCHANGED <<halted, stopped_epochs>>
  PROVE  SerialInv'
<1>0. /\ Monitor \in Workers /\ Tasks \subseteq Workers /\ None \notin Ids /\ halted \subseteq Ids
      /\ \A t \in Workers : task'[t].pc \in SpawnPcs \cup StopPcs \cup MonPcs => task'[t].id \in Ids
  <2>1. \A t \in Workers : TaskOK(t, task'[t])
    BY DEF TypeInv
  <2> QED
    BY <2>1, SupervisorAssumption DEF TypeInv, Workers, TaskOK, SpawnPcs, StopPcs, MonPcs
<1>1. \A t \in Workers :
         /\ task'[t].pc \in SpawnPcs => task[t].pc \in SpawnPcs
         /\ task'[t].pc \in MonPcs => task[t].pc \in MonPcs
         /\ task'[t].pc \in StopPcs => task[t].pc \in StopPcs
         /\ task'[t].pc = "stop_mark" => task[t].pc = "stop_mark"
         /\ task'[t].id # None => /\ task'[t].id = task[t].id /\ task'[t].epoch = task[t].epoch
                                  /\ task'[t].from = task[t].from
  BY ContinuesMeans
<1>2. Alone'
  BY <1>0, <1>1 DEF SerialInv, Alone
<1>3. Removed'
  BY <1>0, <1>1 DEF SerialInv, Removed
<1>4. NotHalted'
  BY <1>0, <1>1 DEF SerialInv, NotHalted
<1>5. Replaces'
  BY <1>0, <1>1 DEF SerialInv, Replaces
<1>6. StopsIt'
  BY <1>0, <1>1 DEF SerialInv, StopsIt
<1>7. StopSeen'
  BY <1>0, <1>1 DEF SerialInv, StopSeen
<1>8. StopIsTerminal'
  BY <1>0 DEF SerialInv, StopIsTerminal
<1> QED
  BY <1>2, <1>3, <1>4, <1>5, <1>6, <1>7, <1>8 DEF SerialInv

\* A request that begins while only the monitor's backoff is busy with its id.
LEMMA SerialRequest ==
  ASSUME TypeInv, ProcInv, TypeInv', SerialInv, Serial, NEW t \in Tasks, NEW p \in Ids,
         SpawnCheck(t, p) \/ StopRemove(t, p) \/ RestartLook(t, p)
  PROVE  SerialInv'
<1>0. /\ Monitor \in Workers /\ t \in Workers /\ t # Monitor /\ None \notin Ids
      /\ task \in [Workers -> TaskRec] /\ \A u \in Workers : TaskOK(u, task[u])
      /\ entries \in [Ids -> Entry \cup {None}] /\ Tasks \subseteq Workers
  BY SupervisorAssumption DEF TypeInv, TypeOK, Workers
<1>1. /\ \A u \in Workers : u # t => task'[u] = task[u]
      /\ task'[t].id = p /\ task'[t].pc \in {"prepare", "stop_mark", "restart"}
  <2>1. \E r : task' = [task EXCEPT ![t] = r]
    BY DEF SpawnCheck, StopRemove, RestartLook
  <2> QED
    BY <1>0, <2>1, RequestSteps
<1>2. \A u \in Workers : u # t /\ task[u].id = p => task[u].pc = "backoff"
  BY DEF SpawnCheck, StopRemove, RestartLook, MayStart, MayStop, Handled
<1>3. /\ \A u \in Workers : u # t /\ task'[u].id = p => task'[u].pc = "backoff"
      /\ halted' \subseteq halted /\ stopped_epochs' = stopped_epochs
      /\ \A q \in Ids : entries'[q] = entries[q] \/ entries'[q] = None
  BY <1>0, <1>1, <1>2 DEF SpawnCheck, StopRemove, RestartLook, sup, history
<1>4. Alone'
  <2> SUFFICES ASSUME NEW u \in Workers, NEW v \in Workers, task'[u].pc \in SpawnPcs,
                      task'[v].id = task'[u].id, u # v
               PROVE  FALSE
    BY DEF Alone
  <2>1. u = t => FALSE
    <3>1. ASSUME u = t PROVE SpawnCheck(t, p)
      BY <3>1, RequestSteps DEF SpawnPcs
    <3> QED
      BY <1>0, <1>1, <3>1 DEF SpawnCheck, MayStart
  <2>2. v = t => FALSE
    BY <1>1, <1>3 DEF SpawnPcs
  <2> QED
    BY <1>1, <2>1, <2>2 DEF SerialInv, Alone
<1>5. Removed'
  <2>1. task'[t].pc \in SpawnPcs \cup StopPcs => entries'[p] = None
    <3>1. SpawnCheck(t, p) => entries'[p] = None
      BY DEF SpawnCheck
    <3>2. StopRemove(t, p) => entries'[p] = None
      BY <1>0 DEF StopRemove
    <3>3. RestartLook(t, p) => task'[t].pc = "restart"
      BY RequestSteps
    <3> QED
      BY <3>1, <3>2, <3>3 DEF SpawnPcs, StopPcs
  <2>2. \A u \in Workers : task[u].pc \in SpawnPcs \cup StopPcs => task[u].id \in Ids
    BY <1>0 DEF TaskOK, SpawnPcs, StopPcs
  <2> QED
    BY <1>0, <1>1, <1>3, <2>1, <2>2 DEF SerialInv, Removed
<1>6. NotHalted'
  <2>1. task'[t].pc \in SpawnPcs => p \notin halted'
    <3>1. SpawnCheck(t, p) => p \notin halted'
      BY DEF SpawnCheck
    <3> QED
      BY <3>1, RequestSteps DEF SpawnPcs
  <2> QED
    BY <1>1, <1>3, <2>1 DEF SerialInv, NotHalted
<1>7. Replaces'
  <2>1. task[Monitor].pc \in MonPcs \cup SpawnPcs => task[Monitor].id \in Ids
    BY <1>0 DEF TaskOK, SpawnPcs, MonPcs
  <2> QED
    BY <1>0, <1>1, <1>3, <2>1 DEF SerialInv, Replaces
<1>8. StopsIt'
  <2> SUFFICES ASSUME task[Monitor].pc \in MonPcs, task'[t].pc = "stop_mark", p = task[Monitor].id
               PROVE  task'[t].epoch = task[Monitor].from
    BY <1>0, <1>1 DEF SerialInv, StopsIt
  <2>1. StopRemove(t, p)
    BY RequestSteps
  <2>2. entries[p] # None /\ task'[t].epoch = entries[p].epoch
    BY <2>1, RequestSteps DEF StopRemove
  <2> QED
    BY <2>2 DEF SerialInv, Replaces
<1>9. StopSeen'
  BY <1>0, <1>1, <1>3 DEF SerialInv, StopSeen
<1>10. StopIsTerminal'
  BY <1>3 DEF SerialInv, StopIsTerminal, TypeInv
<1> QED
  BY <1>4, <1>5, <1>6, <1>7, <1>8, <1>9, <1>10 DEF SerialInv

\* Every step keeps stops and restarts of one id apart.
LEMMA SerialStep ==
  ASSUME TypeInv, ProcInv, TypeInv', SerialInv, Serial, [Next]_vars
  PROVE  SerialInv'
<1>0. /\ Monitor \in Workers /\ Tasks \subseteq Workers /\ Monitor \notin Tasks /\ None \notin Ids
      /\ task \in [Workers -> TaskRec] /\ \A u \in Workers : TaskOK(u, task[u])
      /\ entries \in [Ids -> Entry \cup {None}] /\ halted \subseteq Ids
      /\ stopped_epochs \in [Ids -> 0..MaxEpoch]
  BY SupervisorAssumption DEF TypeInv, TypeOK, Workers
<1>1. ASSUME NEW t \in Tasks, NEW p \in Ids, SpawnCheck(t, p) \/ StopRemove(t, p) \/ RestartLook(t, p)
      PROVE  SerialInv'
  BY <1>1, SerialRequest
<1>2. ASSUME NEW t \in Tasks, StopMark(t) PROVE SerialInv'
  <2>1. PICK p \in Ids : p = task[t].id
    BY <1>0, <1>2 DEF StopMark, At, TaskOK
  <2>2. /\ \A u \in Workers : u # t => task'[u] = task[u]
        /\ task'[t].id = p /\ task'[t].pc = "stop_signal" /\ task[t].pc = "stop_mark"
    BY <1>0, <1>2, <2>1 DEF StopMark, Goto, TaskRec, At
  <2>3. /\ entries' = entries /\ halted' = halted \cup {p}
        /\ stopped_epochs'[p] = task[t].epoch
        /\ \A q \in Ids : q # p => stopped_epochs'[q] = stopped_epochs[q]
    BY <1>0, <1>2, <2>1 DEF StopMark
  <2>4. /\ t \in Workers /\ t # Monitor /\ "stop_signal" \notin SpawnPcs /\ "stop_signal" \in StopPcs
        /\ "stop_mark" \in StopPcs /\ "stop_mark" \notin SpawnPcs
        /\ \A u \in Workers : task[u].pc \in MonPcs \cup SpawnPcs => task[u].id \in Ids
    BY <1>0, <1>2 DEF SpawnPcs, StopPcs, MonPcs, TaskOK
  <2>5. Alone'
    BY <2>1, <2>2, <2>4 DEF SerialInv, Alone
  <2>6. Removed'
    BY <1>0, <2>1, <2>2, <2>3, <2>4 DEF SerialInv, Removed
  <2>7. NotHalted'
    BY <2>1, <2>2, <2>3, <2>4 DEF SerialInv, NotHalted, Alone
  <2>8. Replaces' /\ StopsIt'
    BY <1>0, <2>2, <2>3, <2>4 DEF SerialInv, Replaces, StopsIt
  <2>9. StopSeen'
    BY <1>0, <2>1, <2>2, <2>3, <2>4 DEF SerialInv, StopSeen, StopsIt
  <2>10. StopIsTerminal'
    BY <2>1, <2>2, <2>3, <2>4 DEF SerialInv, StopIsTerminal, Removed
  <2> QED
    BY <2>5, <2>6, <2>7, <2>8, <2>9, <2>10 DEF SerialInv
<1>3. ASSUME NEW t \in Workers, SpawnInsert(t) PROVE SerialInv'
  <2>1. PICK p \in Ids : p = task[t].id
    BY <1>0, <1>3 DEF SpawnInsert, At, TaskOK
  <2>2. /\ \A u \in Workers : u # t => task'[u] = task[u] /\ task[u].id # p
        /\ task'[t].id = None /\ task'[t].pc = "idle" /\ p \notin halted
    <3>1. task[t].pc \in SpawnPcs
      BY <1>3 DEF SpawnInsert, At, SpawnPcs
    <3> QED
      BY <1>0, <1>3, <2>1, <3>1, IdleOK DEF SpawnInsert, Finish, SerialInv, Alone, NotHalted
  <2>3. /\ \A q \in Ids : q # p => entries'[q] = entries[q]
        /\ UNCHANGED <<halted, stopped_epochs>>
    BY <1>0, <1>3, <2>1 DEF SpawnInsert, history
  <2>4. /\ "idle" \notin SpawnPcs \cup StopPcs \cup MonPcs /\ "idle" # "stop_mark"
        /\ \A u \in Workers : task[u].pc \in MonPcs \cup SpawnPcs \cup StopPcs => task[u].id \in Ids
    BY <1>0 DEF SpawnPcs, StopPcs, MonPcs, TaskOK
  <2>5. Alone'
    <3> SUFFICES ASSUME NEW u \in Workers, NEW v \in Workers, task'[u].pc \in SpawnPcs,
                        task'[v].id = task'[u].id
                 PROVE  u = v
      BY DEF Alone
    <3>1. u # t /\ task[u].id \in Ids /\ task[u].pc \in SpawnPcs /\ task'[u].id = task[u].id
      BY <2>2, <2>4
    <3>2. v # t
      BY <1>0, <2>2, <3>1
    <3> QED
      BY <2>2, <3>1, <3>2 DEF SerialInv, Alone
  <2>6. Removed'
    BY <1>0, <2>2, <2>3, <2>4 DEF SerialInv, Removed
  <2>7. NotHalted'
    BY <2>2, <2>3, <2>4 DEF SerialInv, NotHalted
  <2>8. Replaces' /\ StopsIt'
    BY <1>0, <2>2, <2>3, <2>4 DEF SerialInv, Replaces, StopsIt
  <2>9. StopSeen'
    BY <1>0, <2>2, <2>3, <2>4 DEF SerialInv, StopSeen
  <2>10. StopIsTerminal'
    BY <1>0, <2>2, <2>3 DEF SerialInv, StopIsTerminal
  <2> QED
    BY <2>5, <2>6, <2>7, <2>8, <2>9, <2>10 DEF SerialInv
<1>4. ASSUME MonRecv, task' # task PROVE SerialInv'
  <2>1. PICK p \in Ids : p = proc[Head(events)].id
    <3>1. PICK e \in Epochs : e = Head(events) /\ e = events[1] /\ 1 \in 1..Len(events)
      BY <1>4 DEF MonRecv, TypeInv, TypeOK
    <3>2. proc[e].st = "sent" /\ ProcOK(e)
      BY <3>1 DEF ProcInv
    <3> QED
      BY <3>1, <3>2 DEF ProcOK
  <2>2. /\ task'[Monitor].pc = "decide" /\ task'[Monitor].id = p
        /\ task'[Monitor].from = Head(events)
        /\ entries[p] # None /\ entries[p].epoch = Head(events)
    BY <1>4, <2>1, MonSteps
  <2>3. /\ \A u \in Workers : u # Monitor => task'[u] = task[u]
        /\ UNCHANGED <<entries, stopped_epochs, halted>>
    BY <1>0, <1>4 DEF MonRecv, history
  <2>4. "decide" \notin SpawnPcs \cup StopPcs /\ "decide" \in MonPcs /\ "stop_mark" \in StopPcs
    BY DEF SpawnPcs, StopPcs, MonPcs
  <2>5. \A u \in Workers : u # Monitor => u \in Tasks
    BY DEF Workers
  <2>6. Alone'
    <3> SUFFICES ASSUME NEW u \in Workers, NEW v \in Workers, task'[u].pc \in SpawnPcs,
                        task'[v].id = task'[u].id
                 PROVE  u = v
      BY DEF Alone
    <3>1. u # Monitor /\ u \in Tasks /\ task'[u] = task[u] /\ entries[task[u].id] = None
      BY <2>2, <2>3, <2>4, <2>5 DEF SerialInv, Removed
    <3>2. v # Monitor
      BY <2>2, <3>1
    <3> QED
      BY <2>3, <3>1, <3>2 DEF SerialInv, Alone
  <2>7. Removed'
    BY <1>0, <2>2, <2>3, <2>4 DEF SerialInv, Removed
  <2>8. NotHalted'
    BY <2>2, <2>3, <2>4 DEF SerialInv, NotHalted
  <2>9. Replaces'
    BY <2>2, <2>3 DEF Replaces
  <2>10. StopsIt'
    BY <2>2, <2>3, <2>4 DEF StopsIt, SerialInv, Removed
  <2>11. StopSeen'
    BY <2>2, <2>3 DEF StopSeen, SerialInv, StopIsTerminal
  <2>12. StopIsTerminal'
    BY <2>3 DEF SerialInv, StopIsTerminal
  <2> QED
    BY <2>6, <2>7, <2>8, <2>9, <2>10, <2>11, <2>12 DEF SerialInv
<1>5. ASSUME MonWake, task'[Monitor] # Idle PROVE SerialInv'
  <2>1. PICK p \in Ids : p = task[Monitor].id
    BY <1>0, <1>5 DEF MonWake, At, TaskOK
  <2>2. /\ task'[Monitor].pc = "prepare" /\ task'[Monitor].id = p
        /\ task'[Monitor].from = task[Monitor].from
        /\ stopped_epochs[p] # task[Monitor].from /\ task[Monitor].pc = "backoff"
    BY <1>5, <2>1, MonSteps DEF MonWake, At
  <2>3. /\ \A u \in Workers : u # Monitor => task'[u] = task[u]
        /\ UNCHANGED <<entries, stopped_epochs, halted>>
    BY <1>0, <1>5 DEF MonWake, history, Finish
  <2>4. /\ "prepare" \notin MonPcs \cup StopPcs /\ "prepare" \in SpawnPcs /\ "stop_mark" \in StopPcs
        /\ "backoff" \in MonPcs /\ "backoff" \notin SpawnPcs
    BY DEF SpawnPcs, StopPcs, MonPcs
  <2>5. \A u \in Workers : u # Monitor => task[u].id # p
    <3> SUFFICES ASSUME NEW u \in Workers, u # Monitor, task[u].id = p PROVE FALSE
      OBVIOUS
    <3>1. task[u].pc = "backoff"
      BY <1>5, <2>1 DEF MonWake, Handled
    <3> QED
      BY <1>0, <3>1, <2>4 DEF TaskOK
  <2>6. Alone'
    <3> SUFFICES ASSUME NEW u \in Workers, NEW v \in Workers, task'[u].pc \in SpawnPcs,
                        task'[v].id = task'[u].id
                 PROVE  u = v
      BY DEF Alone
    <3>1. CASE u = Monitor
      BY <2>2, <2>3, <2>5, <3>1
    <3>2. CASE u # Monitor
      <4>1. v # Monitor
        BY <2>2, <2>3, <2>5, <3>2
      <4> QED
        BY <2>3, <3>2, <4>1 DEF SerialInv, Alone
    <3> QED
      BY <3>1, <3>2
  <2>7. Removed'
    BY <1>0, <2>2, <2>3, <2>4 DEF SerialInv, Removed
  <2>8. NotHalted'
    BY <2>1, <2>2, <2>3, <2>4 DEF SerialInv, NotHalted, StopSeen
  <2>9. Replaces'
    BY <2>1, <2>2, <2>3, <2>4 DEF SerialInv, Replaces
  <2>10. StopsIt' /\ StopSeen'
    BY <2>2, <2>4 DEF StopsIt, StopSeen
  <2>12. StopIsTerminal'
    BY <2>3 DEF SerialInv, StopIsTerminal
  <2> QED
    BY <2>6, <2>7, <2>8, <2>9, <2>10, <2>12 DEF SerialInv
<1>6. ASSUME \A t \in Tasks, p \in Ids : ~SpawnCheck(t, p) /\ ~StopRemove(t, p) /\ ~RestartLook(t, p),
             \A t \in Tasks : ~StopMark(t), \A t \in Workers : ~SpawnInsert(t),
             ~(MonRecv /\ task' # task), ~(MonWake /\ task'[Monitor] # Idle)
      PROVE  SerialInv'
  <2>1. UNCHANGED <<halted, stopped_epochs>>
    BY <1>6
    DEF Next, ShimForks, Exit, InnerDies, Reap, SendExit, WatchdogKill, ShutBegin, Shutdown, ShutTerm, ShutCollect,
        ShutKill, ShutAbort, Quiet, vars, Stopping, StopSignal, StopEscalate, StopExited, StopGivesUp,
        RestartSignal, Monitoring, MonRecv, MonDecide, MonDrop, MonWake, Spawning, SpawnPrepare,
        SpawnExec, SpawnFails, HandshakeOk, HandshakeEof, HandshakeTimeout, sup, history
  <2>2. UNCHANGED entries \/ MonDrop
    BY <1>6
    DEF Next, ShimForks, Exit, InnerDies, Reap, SendExit, WatchdogKill, ShutBegin, Shutdown, ShutTerm, ShutCollect,
        ShutKill, ShutAbort, Quiet, vars, Stopping, StopSignal, StopEscalate, StopExited, StopGivesUp,
        RestartSignal, Monitoring, MonRecv, MonDecide, MonWake, Spawning, SpawnPrepare,
        SpawnExec, SpawnFails, HandshakeOk, HandshakeEof, HandshakeTimeout, sup, history
  <2>3. \A p \in Ids : entries'[p] = entries[p] \/ entries'[p] = None
    BY <1>0, <2>2 DEF MonDrop
  <2>4. \A t \in Workers : Continues(t)
    <3> SUFFICES ASSUME NEW t \in Workers, OwnStep(t) PROVE Continues(t)
      BY TaskMovesItself DEF Continues
    <3>1. CASE Spawning(t) \/ (t \in Tasks /\ (Stopping(t) \/ RestartSignal(t)))
      <4>1. CASE task[t].pc \in SpawnPcs \/ task'[t] = Idle
        BY <3>1, <4>1, WorkSteps DEF Continues
      <4>2. CASE task[t].pc \notin SpawnPcs /\ task'[t] # Idle
        <5>1. /\ task'[t].id = task[t].id /\ task'[t].epoch = task[t].epoch
              /\ task'[t].from = task[t].from /\ task[t].pc \in StopPcs /\ task'[t].pc \in StopPcs
          BY <3>1, <4>2, WorkSteps
        <5>2. StopSignal(t) \/ StopEscalate(t)
          <6>1. Finish(t) => task'[t] = Idle
            BY <1>0 DEF Finish
          <6>2. ~Spawning(t)
            BY <4>2 DEF Spawning, SpawnPrepare, SpawnExec, SpawnFails, HandshakeOk, HandshakeEof,
               HandshakeTimeout, SpawnInsert, At, SpawnPcs
          <6> QED
            BY <1>6, <3>1, <4>2, <6>1, <6>2 DEF Stopping, StopExited, StopGivesUp, RestartSignal
        <5>3. task'[t].pc # "stop_mark"
          <6>1. \E c \in {"stop_wait", "stop_kill"} : Goto(t, c)
            BY <5>2 DEF StopSignal, StopEscalate
          <6> QED
            BY <1>0, <6>1 DEF Goto, TaskRec
        <5> QED
          BY <5>1, <5>3 DEF Continues
      <4> QED
        BY <4>1, <4>2
    <3>2. CASE t = Monitor /\ Monitoring
      <4>1. CASE MonDecide
        <5>1. task[Monitor].pc = "decide"
          BY <4>1 DEF MonDecide, At
        <5> QED
          BY <3>2, <4>1, <5>1, MonSteps DEF Continues, MonPcs
      <4>2. CASE ~MonDecide
        BY <1>6, <3>2, <4>2, MonSteps DEF Continues, Monitoring
      <4> QED
        BY <4>1, <4>2
    <3> QED
      BY <1>6, <3>1, <3>2 DEF OwnStep
  <2> QED
    BY <2>1, <2>3, <2>4, SerialKeeps
<1> QED
  BY <1>1, <1>2, <1>3, <1>4, <1>5, <1>6

\* It holds at first.
LEMMA SerialInit == Init => SerialInv
<1> SUFFICES ASSUME Init PROVE SerialInv
  OBVIOUS
<1>1. \A t \in Workers : task[t].pc = "idle"
  BY IdleOK DEF Init
<1>2. Monitor \in Workers /\ Tasks \subseteq Workers /\ "idle" \notin SpawnPcs \cup StopPcs \cup MonPcs
  BY DEF Workers, SpawnPcs, StopPcs, MonPcs
<1>3. halted = {}
  BY DEF Init
<1> QED
  BY <1>1, <1>2, <1>3 DEF SerialInv, Alone, Removed, NotHalted, Replaces, StopsIt, StopSeen, StopIsTerminal

\* Spawns, stops and restarts of one id stay apart.
LEMMA SerialInvariant == ASSUME Serial PROVE Spec => []SerialInv
<1>1. (TypeInv /\ ProcInv) /\ (TypeInv /\ ProcInv)' /\ SerialInv /\ [Next]_vars => SerialInv'
  BY SerialStep
<1> QED
  BY <1>1, SerialInit, ProcInvariant, PTL DEF Spec

\* "An explicit stop is terminal" (supervisor/mod.rs, B3), for any number of
\* plugins, tasks and requests, when requests for one id do not overlap: once
\* stop_plugin has recorded its stop the id has no entry until it is started
\* again, also when the stop falls into the monitor's backoff.
THEOREM StopsAreTerminal == ASSUME Serial PROVE Spec => []StopIsTerminal
<1>1. SerialInv => StopIsTerminal
  BY DEF SerialInv
<1> QED
  BY <1>1, SerialInvariant, PTL

\* Why a process that is up is not lost.
Known(e) ==
    \/ \E p \in Ids : entries[p] # None /\ entries[p].epoch = e
    \/ \E t \in Workers : task[t].epoch = e
    \/ proc[e].sig # "none"
    \/ e \in abandoned
    \/ ~Alive

\* The entry that a step removes or overwrites is handed on, or its process is gone.
LEMMA EntryHandedOn ==
  ASSUME TypeInv, ProcInv, TypeInv', SerialInv, [Next]_vars, NEW e \in Epochs, proc[e].st = "up",
         NEW p \in Ids, entries[p] # None, entries[p].epoch = e
  PROVE  Known(e)'
<1>0. /\ Monitor \in Workers /\ Tasks \subseteq Workers /\ Workers = Tasks \cup {Monitor}
      /\ task \in [Workers -> TaskRec] /\ \A u \in Workers : TaskOK(u, task[u])
      /\ entries \in [Ids -> Entry \cup {None}] /\ e # 0 /\ \A u \in Workers : TaskProcOK(task[u])
  BY SupervisorAssumption DEF TypeInv, TypeOK, Workers, ProcInv, Epochs
<1>1. CASE entries'[p] = entries[p]
  BY <1>1 DEF Known
<1>m. task[Monitor].pc \in MonPcs \cup SpawnPcs => task[Monitor].id # p
  BY <1>0 DEF SerialInv, Replaces, TaskProcOK
<1>2. ASSUME NEW t \in Workers, SpawnInsert(t) PROVE entries'[p] = entries[p]
  <2>1. task[t].id # p
    <3>1. task[t].pc \in SpawnPcs
      BY <1>2 DEF SpawnInsert, At, SpawnPcs
    <3> QED
      BY <1>0, <1>m, <3>1 DEF SerialInv, Removed
  <2> QED
    BY <1>0, <1>2, <2>1 DEF SpawnInsert
<1>3. MonDrop => entries'[p] = entries[p]
  <2>1. MonDrop => task[Monitor].id # p
    BY <1>m DEF MonDrop, At, MonPcs
  <2> QED
    BY <1>0, <2>1 DEF MonDrop
<1>4. ASSUME NEW t \in Tasks, NEW q \in Ids, StopRemove(t, q), entries'[p] # entries[p]
      PROVE  Known(e)'
  <2>1. q = p
    BY <1>0, <1>4 DEF StopRemove
  <2>2. task'[t].epoch = e
    BY <1>4, <2>1, RequestSteps
  <2> QED
    BY <1>0, <2>2 DEF Known
<1>5. \/ UNCHANGED entries \/ \E t \in Workers : SpawnInsert(t)
      \/ MonDrop \/ \E t \in Tasks, q \in Ids : StopRemove(t, q)
    BY DEF Next, ShimForks, Exit, InnerDies, Reap, SendExit, WatchdogKill, ShutBegin, Shutdown, ShutTerm, ShutCollect,
        ShutKill, ShutAbort, Quiet, vars, SpawnCheck, RestartLook, Stopping, StopMark,
        StopSignal, StopEscalate, StopExited, StopGivesUp, RestartSignal, Monitoring, MonRecv,
        MonDecide, MonWake, Spawning, SpawnPrepare, SpawnExec, SpawnFails,
        HandshakeOk, HandshakeEof, HandshakeTimeout, sup
<1> QED
  BY <1>1, <1>2, <1>3, <1>4, <1>5

\* A process that a task lets go of is in the table, abandoned, signalled or gone.
LEMMA TaskHandsOn ==
  ASSUME TypeInv, ProcInv, TypeInv', [Next]_vars, NEW e \in Epochs, proc[e].st = "up",
         proc[e].sig # "none" => proc'[e].sig # "none",
         NEW t \in Workers, task[t].epoch = e
  PROVE  Known(e)'
<1>0. /\ task \in [Workers -> TaskRec] /\ TaskOK(t, task[t]) /\ e # 0
      /\ TaskProcOK(task[t]) /\ proc \in [Epochs -> Process] /\ entries \in [Ids -> Entry \cup {None}]
      /\ None \notin Entry
  BY SupervisorAssumption DEF TypeInv, TypeOK, ProcInv, Epochs, Entry
<1>1. CASE task'[t].epoch = e
  BY <1>1 DEF Known
<1>2. task[t].pc \in SpawnPcs \cup StopPcs \cup {"restart"}
  <2>1. task[t].pc \in Pcs /\ task[t].pc # "idle" /\ task[t].pc \notin MonPcs
    BY <1>0, IdleOK DEF TaskOK, TaskRec
  <2> QED
    BY <2>1 DEF Pcs
<1>3. CASE SpawnFails(t) \/ HandshakeEof(t)
  BY <1>0, <1>3, IdleOK DEF SpawnFails, HandshakeEof, At, TaskProcOK
<1>4. CASE HandshakeTimeout(t)
  BY <1>4 DEF HandshakeTimeout, Known
<1>5. CASE SpawnInsert(t)
  <2>1. PICK p \in Ids : p = task[t].id
    BY <1>0, <1>5 DEF SpawnInsert, At, TaskOK
  <2>2. entries'[p] = [epoch |-> e, count |-> task[t].count]
    BY <1>0, <1>5, <2>1 DEF SpawnInsert
  <2>3. entries'[p] \in Entry
    BY <1>0, <2>2 DEF Entry, TaskRec
  <2> QED
    BY <1>0, <2>2, <2>3 DEF Known
<1>6. CASE StopExited(t) \/ StopGivesUp(t)
  BY <1>0, <1>6 DEF StopExited, StopGivesUp, Exited, At, TaskProcOK, Known
<1>7. CASE RestartSignal(t)
  <2>1. proc'[e].sig \in {"term", "kill"}
    BY <1>0, <1>7, SignalledOK DEF RestartSignal
  <2> QED
    BY <2>1 DEF Known
<1>8. CASE OwnStep(t) /\ task'[t].epoch # e
  <2>1. Spawning(t) \/ Stopping(t) \/ RestartSignal(t)
    BY <1>2, <1>8 DEF OwnStep, SpawnCheck, StopRemove, RestartLook, Request, Monitoring, MonRecv, MonDecide,
       MonWake, MonDrop, At, SpawnPcs, StopPcs
  <2>2. task'[t] = Idle
    BY <1>8, <2>1, WorkSteps
  <2>3. ASSUME NEW c \in {"exec", "handshake", "insert", "stop_signal", "stop_wait", "stop_kill"},
               Goto(t, c)
        PROVE  FALSE
    <3>1. task'[t] = [task[t] EXCEPT !.pc = c]
      BY <1>0, <2>3 DEF Goto
    <3> QED
      BY <1>0, <1>8, <3>1 DEF TaskRec
  <2> QED
    BY <1>3, <1>4, <1>5, <1>6, <1>7, <2>1, <2>3
    DEF Spawning, Stopping, SpawnPrepare, SpawnExec, HandshakeOk, StopMark, StopSignal, StopEscalate
<1> QED
  BY <1>1, <1>8, TaskMovesItself

\* No step loses a living process.
LEMMA KnownStep ==
  ASSUME TypeInv, ProcInv, TypeInv', SerialInv, [Next]_vars,
         \A e \in Epochs : proc[e].st = "up" => Known(e)
  PROVE  \A e \in Epochs : proc'[e].st = "up" => Known(e)'
<1> SUFFICES ASSUME NEW e \in Epochs, proc'[e].st = "up" PROVE Known(e)'
  OBVIOUS
<1>0. /\ task \in [Workers -> TaskRec] /\ \A u \in Workers : TaskProcOK(task[u])
  BY DEF TypeInv, ProcInv
<1>1. ASSUME NEW t \in Workers, task[t].epoch = e, SpawnExec(t) PROVE Known(e)'
  <2>1. task'[t].epoch = e
    BY <1>0, <1>1 DEF SpawnExec, Goto, TaskRec
  <2> QED
    BY <2>1 DEF Known
<1>2. CASE \A t \in Workers : task[t].epoch = e => ~SpawnExec(t)
  <2>1. proc[e].st = "up" /\ (proc[e].sig # "none" => proc'[e].sig # "none")
    <3>1. CASE Signals(e)
      BY <3>1 DEF Signals
    <3>2. CASE Exit(e) \/ InnerDies(e) \/ Reap(e) \/ SendExit(e)
      BY <3>2, LifeSteps
    <3>3. ASSUME NEW t \in Workers, task[t].epoch = e, Spawns(t)
          PROVE  proc[e].st = "up" /\ (proc[e].sig # "none" => proc'[e].sig # "none")
      BY <1>2, <3>3, SpawnSteps DEF Spawns
    <3> QED
      BY <3>1, <3>2, <3>3, ProcMoves
  <2>2. CASE \E p \in Ids : entries[p] # None /\ entries[p].epoch = e
    BY <2>1, <2>2, EntryHandedOn
  <2>3. CASE \E t \in Workers : task[t].epoch = e
    BY <2>1, <2>3, TaskHandsOn
  <2>4. CASE proc[e].sig # "none" \/ e \in abandoned \/ ~Alive
    BY <2>1, <2>4, HistoryStays DEF Known
  <2> QED
    BY <2>1, <2>2, <2>3, <2>4 DEF Known
<1> QED
  BY <1>1, <1>2

\* No living process is lost, for any number of plugins, tasks and requests,
\* when requests for one id do not overlap: it is in the table, or some task is
\* about to insert or signal it, or has signalled it, or its handshake timed out
\* (spawn_internal, stop_plugin and monitor_loop together).
THEOREM ProcessesSupervised == ASSUME Serial PROVE Spec => []Supervised
<1>1. Init => \A e \in Epochs : proc[e].st = "up" => Known(e)
  BY IdleOK DEF Init
<1>2. /\ (TypeInv /\ ProcInv) /\ (TypeInv /\ ProcInv)' /\ SerialInv /\ [Next]_vars
      /\ (\A e \in Epochs : proc[e].st = "up" => Known(e))
      => (\A e \in Epochs : proc[e].st = "up" => Known(e))'
  BY KnownStep
<1>3. (\A e \in Epochs : proc[e].st = "up" => Known(e)) => Supervised
  BY DEF Supervised, Known, Registered
<1> QED
  BY <1>1, <1>2, <1>3, ProcInvariant, SerialInvariant, PTL DEF Spec
=============================================================================
