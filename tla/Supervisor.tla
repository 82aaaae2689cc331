----------------------------- MODULE Supervisor -----------------------------
(***************************************************************************)
(* The process supervisor (plugins/supervisor, plugins/manager,            *)
(* plugins/runner, plugins/shim) and the part of the kernel's shutdown     *)
(* that ends the plugins.                                                  *)
(*                                                                         *)
(* Tasks that serve start, stop and restart requests, the monitor loop,    *)
(* one wait task per process, the watchdog and the shutdown share the      *)
(* table of entries, the forced-restart flags, the stop epochs and the     *)
(* pids scopes of the plugins. A spawned process is named by its epoch.    *)
(* A step ends where another task may see or change what it uses: at an    *)
(* await and between two accesses to different maps.                       *)
(***************************************************************************)
EXTENDS Integers, Sequences, FiniteSets

CONSTANTS
    Ids,          \* plugin ids
    Tasks,        \* tasks that serve start, stop and restart requests
    Policy,       \* restart_policy of each id
    MaxRestarts,  \* max_restarts of every id
    Sandboxed,    \* ids that run under the shim
    Serial,       \* TRUE: requests for one id overlap only where the code
                  \* guards against it, see MayStart, MayStop and MonWake
    QueueCap,     \* capacity of the exit-event channel
    MaxEpoch,     \* bound: processes spawned
    MaxOps,       \* bound: requests
    Monitor, None

Epochs == 1..MaxEpoch

ASSUME SupervisorAssumption ==
    /\ Policy \in [Ids -> {"always", "on-failure", "never"}]
    /\ MaxRestarts \in Nat /\ MaxEpoch \in Nat /\ MaxOps \in Nat
    /\ QueueCap \in Nat \ {0}
    /\ Sandboxed \subseteq Ids
    /\ Serial \in BOOLEAN
    /\ Monitor \notin Tasks
    /\ None \notin Ids /\ None \notin [epoch : Epochs, count : Nat]

VARIABLES
    entries,         \* id -> [epoch, restart_count], or None
    next_epoch,      \* last epoch handed out
    forced_restarts, \* ids whose next exit is a manual restart
    stopped_epochs,  \* id -> epoch of its last explicit stop, 0 for none
    events,          \* the channel of ExitEvents
    scopes,          \* ids whose pids cgroup directory exists
    proc,            \* epoch -> the process
    task,            \* task -> where it is, and what it works on
    phase,           \* of the kernel's shutdown
    doomed,          \* epochs the shutdown will SIGKILL
    ops,             \* number of requests so far
    halted,          \* history: ids stopped and not started again
    abandoned,       \* history: epochs whose handshake timed out
    unreplaced,      \* history: epochs whose restart failed to spawn
    manual,          \* history: manual restarts of each id
    leftover         \* history: ids whose scope the last cleanup did not remove

sup == <<entries, next_epoch, forced_restarts, stopped_epochs>>
history == <<halted, abandoned, unreplaced, manual, leftover>>
vars == <<sup, events, scopes, proc, task, phase, doomed, ops, history>>

Entry == [epoch : Epochs, count : Nat]

\* st: "none", "up", "dead" (a zombie), "reaped" (exit published), "sent" (its
\* ExitEvent is in the channel or was handled). inner: the plugin below a shim
\* lives. joined: it is in its id's scope. wait: it has a wait task.
Process == [id : Ids \cup {None}, st : {"none", "up", "dead", "reaped", "sent"},
            sig : {"none", "term", "kill"}, ok : BOOLEAN, inner : BOOLEAN,
            joined : BOOLEAN, wait : BOOLEAN]

NoProcess == [id |-> None, st |-> "none", sig |-> "none", ok |-> TRUE,
              inner |-> FALSE, joined |-> FALSE, wait |-> FALSE]

\* epoch: the process a task works on; count: its restart_count; from: the
\* epoch it replaces (replace_epoch), 0 for a manual start; forced: the monitor
\* found the forced-restart flag.
Idle == [pc |-> "idle", id |-> None, epoch |-> 0, count |-> 0, from |-> 0,
         forced |-> FALSE]

Workers == Tasks \cup {Monitor}

Init ==
    /\ entries = [p \in Ids |-> None]
    /\ next_epoch = 0
    /\ forced_restarts = {}
    /\ stopped_epochs = [p \in Ids |-> 0]
    /\ events = <<>>
    /\ scopes = {}
    /\ proc = [e \in Epochs |-> NoProcess]
    /\ task = [t \in Workers |-> Idle]
    /\ phase = "run"
    /\ doomed = {}
    /\ ops = 0
    /\ halted = {} /\ abandoned = {} /\ unreplaced = {}
    /\ manual = [p \in Ids |-> 0]
    /\ leftover = {}

\* The kernel process exists; it still accepts requests.
Alive == phase # "down"
Serving == phase \notin {"drained", "down"}

\* Some process of p is in the scope: rmdir fails with DirectoryNotEmpty.
Populated(p, procs) ==
    \E e \in Epochs : procs[e].id = p /\ procs[e].joined /\
                      (procs[e].st \in {"up", "dead"} \/ procs[e].inner)

\* A scope is a directory below a cgroup delegated to us; where there is none
\* the plugin runs without, and nothing here concerns it.
prepare_pids_cgroup(p) == scopes' = scopes \cup {p} /\ leftover' = leftover \ {p}

\* In pre_exec the child moves itself into the scope, if it is still there.
join_pids_cgroup(p) == p \in scopes

\* Some process of p has not been waited for; whoever does cleans up again.
Attended(p, procs) == \E e \in Epochs : procs[e].id = p /\ procs[e].st \in {"up", "dead"}

\* runner::cleanup_pids_cgroup, tried ten times by a wait task and once by a
\* failed spawn. An rmdir that fails is given up on: the scope may still hold a
\* plugin that is being killed or what a plugin started, or there is an error.
Cleanup(p, procs) ==
    \/ /\ ~Populated(p, procs)
       /\ scopes' = scopes \ {p} /\ leftover' = leftover \ {p}
    \/ /\ UNCHANGED scopes
       /\ leftover' = IF Attended(p, procs) THEN leftover ELSE leftover \cup {p}

\* kill(2) on the shim or the plugin: no effect on a process that is gone, and
\* SIGTERM does not take a SIGKILL back.
Signalled(procs, E, s) ==
    [e \in Epochs |-> IF e \in E /\ procs[e].st = "up" /\ procs[e].sig # "kill"
                      THEN [procs[e] EXCEPT !.sig = s] ELSE procs[e]]

Kill(E, s) == proc' = Signalled(proc, E, s)

At(t, loc) == Alive /\ task[t].pc = loc
Goto(t, loc) == task' = [task EXCEPT ![t].pc = loc]
Finish(t) == task' = [task EXCEPT ![t] = Idle]

\* Whom an id is busy with, apart from the monitor's backoff.
Handled(p) == {t \in Workers : task[t].id = p /\ task[t].pc # "backoff"}

\* With Serial a start waits for all work on its id, a stop and a restart
\* for all but the monitor's backoff.
MayStart(p) == Serial => \A t \in Workers : task[t].id # p
MayStop(p) == Serial => Handled(p) = {}

Request(t) == /\ task[t].pc = "idle" /\ t \in Tasks /\ Serving
              /\ ops < MaxOps /\ ops' = ops + 1

-----------------------------------------------------------------------------
(* spawn_internal, by a request and by the monitor.                        *)

SpawnCheck_clobbers(t, p) ==
    /\ Request(t) /\ MayStart(p)
    /\ next_epoch < MaxEpoch
    /\ next_epoch' = next_epoch + 1
    /\ task' = [task EXCEPT ![t] = [Idle EXCEPT !.pc = "prepare", !.id = p,
                                                !.epoch = next_epoch']]
    /\ halted' = halted \ {p}
    /\ UNCHANGED <<entries, forced_restarts, stopped_epochs, events, scopes, proc,
                   phase, doomed, abandoned, unreplaced, manual, leftover>>

\* A start is refused while the id has an entry.
SpawnCheck(t, p) ==
    /\ Request(t) /\ MayStart(p)
    /\ entries[p] = None
    /\ next_epoch < MaxEpoch
    /\ next_epoch' = next_epoch + 1
    /\ task' = [task EXCEPT ![t] = [Idle EXCEPT !.pc = "prepare", !.id = p,
                                                !.epoch = next_epoch']]
    /\ halted' = halted \ {p}
    /\ UNCHANGED <<entries, forced_restarts, stopped_epochs, events, scopes, proc,
                   phase, doomed, abandoned, unreplaced, manual, leftover>>

\* The command, its environment and its scope are prepared.
SpawnPrepare(t) ==
    /\ At(t, "prepare")
    /\ prepare_pids_cgroup(task[t].id)
    /\ Goto(t, "exec")
    /\ UNCHANGED <<sup, events, proc, phase, doomed, ops, halted, abandoned, unreplaced,
                   manual>>

SpawnExec(t) ==
    /\ At(t, "exec")
    /\ proc' = [proc EXCEPT ![task[t].epoch] =
                  [NoProcess EXCEPT !.id = task[t].id, !.st = "up",
                                    !.joined = join_pids_cgroup(task[t].id)]]
    /\ Goto(t, IF task[t].id \in Sandboxed THEN "handshake" ELSE "insert")
    /\ UNCHANGED <<sup, events, scopes, phase, doomed, ops, history>>

\* A failed restart: nobody will handle the dead entry.
FailedRestart(t) ==
    unreplaced' = IF task[t].from = 0 THEN unreplaced ELSE unreplaced \cup {task[t].from}

SpawnFails_no_cleanup(t) ==
    /\ At(t, "exec")
    /\ FailedRestart(t) /\ Finish(t)
    /\ UNCHANGED <<sup, events, scopes, proc, phase, doomed, ops, halted, abandoned, manual,
                   leftover>>

SpawnFails(t) ==
    /\ At(t, "exec")
    /\ Cleanup(task[t].id, proc)
    /\ FailedRestart(t) /\ Finish(t)
    /\ UNCHANGED <<sup, events, proc, phase, doomed, ops, halted, abandoned, manual>>

\* The pid of e's plugin has not been read from the pid channel.
Unreported(e) ==
    ~proc[e].wait /\ \A t \in Workers : ~(task[t].epoch = e /\ task[t].pc = "insert")

\* shim::run forks the plugin, in the scope, and awaits its readiness byte.
ShimForks(e) ==
    /\ proc[e].id \in Sandboxed /\ proc[e].st = "up" /\ ~proc[e].inner
    /\ Unreported(e)
    /\ proc' = [proc EXCEPT ![e].inner = TRUE]
    /\ UNCHANGED <<sup, events, scopes, task, phase, doomed, ops, history>>

\* shim::run has printed the plugin's pid, and may have ended since.
HandshakeOk(t) ==
    /\ At(t, "handshake")
    /\ proc[task[t].epoch].inner <=> proc[task[t].epoch].st = "up"
    /\ Goto(t, "insert")
    /\ UNCHANGED <<sup, events, scopes, proc, phase, doomed, ops, history>>

\* The shim ended without a pid: it is reaped, and one attempt is made to remove
\* the scope, in which a plugin that was not ready in time may be dying.
HandshakeEof(t) ==
    LET e == task[t].epoch
        reaped == [proc EXCEPT ![e].st = "sent"]
    IN  /\ At(t, "handshake") /\ proc[e].st = "dead"
        /\ proc' = reaped
        /\ Cleanup(task[t].id, reaped)
        /\ FailedRestart(t) /\ Finish(t)
        /\ UNCHANGED <<sup, events, phase, doomed, ops, halted, abandoned, manual>>

\* No pid within 15 s: the spawn fails and leaves the shim to itself.
HandshakeTimeout(t) ==
    /\ At(t, "handshake")
    /\ abandoned' = abandoned \cup {task[t].epoch}
    /\ FailedRestart(t) /\ Finish(t)
    /\ UNCHANGED <<sup, events, scopes, proc, phase, doomed, ops, halted, manual, leftover>>

\* The entry is inserted, over whatever is there, and the wait task starts.
SpawnInsert(t) ==
    LET r == task[t] IN
    /\ At(t, "insert")
    /\ entries' = [entries EXCEPT ![r.id] = [epoch |-> r.epoch, count |-> r.count]]
    /\ proc' = [proc EXCEPT ![r.epoch].wait = TRUE]
    /\ Finish(t)
    /\ UNCHANGED <<next_epoch, forced_restarts, stopped_epochs, events, scopes, phase,
                   doomed, ops, history>>

-----------------------------------------------------------------------------
(* Processes and their wait tasks.                                         *)

\* A process ends by itself, by a signal, or in a crash. A shim that is killed
\* outright may leave its plugin behind, as does one that gives the plugin up
\* before it reports it: that one has just sent it a SIGKILL.
Exit(e) ==
    /\ proc[e].st = "up"
    /\ \E ok \in BOOLEAN, left \in BOOLEAN :
         /\ proc[e].sig = "kill" => ~ok
         /\ left => proc[e].inner /\ (proc[e].sig = "kill" \/ Unreported(e))
         /\ proc' = [proc EXCEPT ![e].st = "dead", ![e].ok = ok, ![e].inner = left]
    /\ UNCHANGED <<sup, events, scopes, task, phase, doomed, ops, history>>

\* The death signal of its shim, or a SIGKILL, reaches a plugin late.
InnerDies(e) ==
    /\ proc[e].inner /\ proc[e].st # "up"
    /\ proc' = [proc EXCEPT ![e].inner = FALSE]
    /\ UNCHANGED <<sup, events, scopes, task, phase, doomed, ops, history>>

\* The wait task: SIGKILL what the shim left, which InnerDies may be late to
\* show, try to remove the scope, publish the exit.
Reap(e) ==
    LET reaped == [proc EXCEPT ![e].st = "reaped"]
    IN  /\ Alive /\ proc[e].st = "dead" /\ proc[e].wait
        /\ proc' = reaped
        /\ Cleanup(proc[e].id, reaped)
        /\ UNCHANGED <<sup, events, task, phase, doomed, ops, halted, abandoned, unreplaced,
                       manual>>

SendExit_unbounded(e) ==
    /\ Alive /\ proc[e].st = "reaped"
    /\ events' = Append(events, e)
    /\ proc' = [proc EXCEPT ![e].st = "sent"]
    /\ UNCHANGED <<sup, scopes, task, phase, doomed, ops, history>>

SendExit(e) ==
    /\ Alive /\ proc[e].st = "reaped" /\ Len(events) < QueueCap
    /\ events' = Append(events, e)
    /\ proc' = [proc EXCEPT ![e].st = "sent"]
    /\ UNCHANGED <<sup, scopes, task, phase, doomed, ops, history>>

Exited(e) == proc[e].st \in {"reaped", "sent"}

-----------------------------------------------------------------------------
(* stop_plugin and restart_plugin.                                         *)

StopRemove(t, p) ==
    /\ Request(t) /\ MayStop(p)
    /\ entries[p] # None
    /\ entries' = [entries EXCEPT ![p] = None]
    /\ task' = [task EXCEPT ![t] = [Idle EXCEPT !.pc = "stop_mark", !.id = p,
                                                !.epoch = entries[p].epoch]]
    /\ UNCHANGED <<next_epoch, forced_restarts, stopped_epochs, events, scopes, proc,
                   phase, doomed, history>>

StopMark(t) ==
    /\ At(t, "stop_mark")
    /\ stopped_epochs' = [stopped_epochs EXCEPT ![task[t].id] = task[t].epoch]
    /\ halted' = halted \cup {task[t].id}
    /\ Goto(t, "stop_signal")
    /\ UNCHANGED <<entries, next_epoch, forced_restarts, events, scopes, proc, phase,
                   doomed, ops, abandoned, unreplaced, manual, leftover>>

StopSignal(t) ==
    /\ At(t, "stop_signal")
    /\ forced_restarts' = forced_restarts \ {task[t].id}
    /\ Kill({task[t].epoch}, "term")
    /\ Goto(t, "stop_wait")
    /\ UNCHANGED <<entries, next_epoch, stopped_epochs, events, scopes, phase, doomed,
                   ops, history>>

\* The grace period is over: SIGKILL, and ten more seconds.
StopEscalate(t) ==
    /\ At(t, "stop_wait") /\ ~Exited(task[t].epoch)
    /\ Kill({task[t].epoch}, "kill")
    /\ Goto(t, "stop_kill")
    /\ UNCHANGED <<sup, events, scopes, phase, doomed, ops, history>>

StopExited_unwaited(t) ==
    /\ At(t, "stop_wait") \/ At(t, "stop_kill")
    /\ Finish(t)
    /\ UNCHANGED <<sup, events, scopes, proc, phase, doomed, ops, history>>

StopExited(t) ==
    /\ At(t, "stop_wait") \/ At(t, "stop_kill")
    /\ Exited(task[t].epoch)
    /\ Finish(t)
    /\ UNCHANGED <<sup, events, scopes, proc, phase, doomed, ops, history>>

StopGivesUp(t) ==
    /\ At(t, "stop_kill") /\ ~Exited(task[t].epoch)
    /\ Finish(t)
    /\ UNCHANGED <<sup, events, scopes, proc, phase, doomed, ops, history>>

RestartLook(t, p) ==
    /\ Request(t) /\ MayStop(p)
    /\ entries[p] # None
    /\ task' = [task EXCEPT ![t] = [Idle EXCEPT !.pc = "restart", !.id = p,
                                                !.epoch = entries[p].epoch]]
    /\ UNCHANGED <<sup, events, scopes, proc, phase, doomed, history>>

RestartSignal(t) ==
    LET p == task[t].id IN
    /\ At(t, "restart")
    /\ forced_restarts' = forced_restarts \cup {p}
    /\ Kill({task[t].epoch}, "term")
    /\ manual' = [manual EXCEPT ![p] = @ + 1]
    /\ Finish(t)
    /\ UNCHANGED <<entries, next_epoch, stopped_epochs, events, scopes, phase, doomed,
                   ops, halted, abandoned, unreplaced, leftover>>

-----------------------------------------------------------------------------
(* monitor_loop and watchdog_loop.                                         *)

\* A forced-restart flag is consumed by whatever exit comes next; an exit of
\* another instance than the registered one, or of a stopped one, is ignored.
\* (The three maps are read one after the other; a request in between has the
\* same effect as one before or after the three.)
MonRecv ==
    LET e == Head(events)
        p == proc[e].id
        current == entries[p] # None /\ entries[p].epoch = e
    IN  /\ At(Monitor, "idle") /\ events # <<>>
        /\ events' = Tail(events)
        /\ forced_restarts' = forced_restarts \ {p}
        /\ task' = IF current /\ stopped_epochs[p] # e
                   THEN [task EXCEPT ![Monitor] =
                           [Idle EXCEPT !.pc = "decide", !.id = p, !.from = e,
                                        !.forced = (p \in forced_restarts)]]
                   ELSE task
        /\ UNCHANGED <<entries, next_epoch, stopped_epochs, scopes, proc, phase, doomed,
                       ops, history>>

ShouldRestart_one_more(p, forced, ok) ==
    /\ entries[p] # None
    /\ \/ forced
       \/ /\ Policy[p] = "always" \/ (Policy[p] = "on-failure" /\ ~ok)
          /\ entries[p].count <= MaxRestarts

\* Whether the entry that is there now is to be restarted.
ShouldRestart(p, forced, ok) ==
    /\ entries[p] # None
    /\ \/ forced
       \/ /\ Policy[p] = "always" \/ (Policy[p] = "on-failure" /\ ~ok)
          /\ entries[p].count < MaxRestarts

\* The decision; then system.plugin_died is published, which awaits the store.
MonDecide ==
    LET r == task[Monitor] IN
    /\ At(Monitor, "decide")
    /\ task' = IF ShouldRestart(r.id, r.forced, proc[r.from].ok)
               THEN [task EXCEPT ![Monitor].pc = "backoff",
                                 ![Monitor].count = entries[r.id].count + 1]
               ELSE [task EXCEPT ![Monitor].pc = "drop"]
    /\ UNCHANGED <<sup, events, scopes, proc, phase, doomed, ops, history>>

MonWake_unchecked ==
    LET r == task[Monitor] IN
    /\ At(Monitor, "backoff")
    /\ Serial => Handled(r.id) = {}
    /\ next_epoch < MaxEpoch
    /\ next_epoch' = next_epoch + 1
    /\ task' = [task EXCEPT ![Monitor].pc = "prepare", ![Monitor].epoch = next_epoch']
    /\ UNCHANGED <<entries, forced_restarts, stopped_epochs, events, scopes, proc, phase,
                   doomed, ops, history>>

\* After the backoff: cancelled if this instance was the last one stopped. With
\* Serial no stop of the id is between its two map accesses.
MonWake ==
    LET r == task[Monitor] IN
    /\ At(Monitor, "backoff")
    /\ Serial => Handled(r.id) = {}
    /\ IF stopped_epochs[r.id] = r.from
       THEN Finish(Monitor) /\ UNCHANGED next_epoch
       ELSE /\ next_epoch < MaxEpoch
            /\ next_epoch' = next_epoch + 1
            /\ task' = [task EXCEPT ![Monitor].pc = "prepare", ![Monitor].epoch = next_epoch']
    /\ UNCHANGED <<entries, forced_restarts, stopped_epochs, events, scopes, proc, phase,
                   doomed, ops, history>>

MonDrop_keeps_entry ==
    /\ At(Monitor, "drop")
    /\ Finish(Monitor)
    /\ UNCHANGED <<sup, events, scopes, proc, phase, doomed, ops, history>>

\* No restart: the entry goes, whichever it is by now.
MonDrop ==
    /\ At(Monitor, "drop")
    /\ entries' = [entries EXCEPT ![task[Monitor].id] = None]
    /\ Finish(Monitor)
    /\ UNCHANGED <<next_epoch, forced_restarts, stopped_epochs, events, scopes, proc,
                   phase, doomed, ops, history>>

\* The watchdog kills a supervised process whose id has not answered; its list
\* of processes may be old.
WatchdogKill(e) ==
    /\ Alive /\ proc[e].wait /\ proc[e].st = "up"
    /\ Kill({e}, "kill")
    /\ UNCHANGED <<sup, events, scopes, task, phase, doomed, ops, history>>

-----------------------------------------------------------------------------
(* graceful_shutdown of the kernel and of the supervisor.                  *)

Registered == {entries[p].epoch : p \in {q \in Ids : entries[q] # None}}

\* The accept loop and the lazy waker are aborted, plugins are notified.
ShutBegin ==
    /\ phase = "run"
    /\ phase' = "notified"
    /\ UNCHANGED <<sup, events, scopes, proc, task, doomed, ops, history>>

ShutTerm ==
    /\ phase = "notified"
    /\ Kill(Registered, "term")
    /\ phase' = IF Registered = {} THEN "drained" ELSE "termed"
    /\ UNCHANGED <<sup, events, scopes, task, doomed, ops, history>>

\* A second pass over the entries starts one timer each.
ShutCollect ==
    /\ phase = "termed"
    /\ doomed' = Registered
    /\ phase' = "grace"
    /\ UNCHANGED <<sup, events, scopes, proc, task, ops, history>>

\* The last timer fired. Then the API server is drained: requests under way
\* finish, none begins.
ShutKill ==
    /\ phase = "grace"
    /\ Kill(doomed, "kill")
    /\ doomed' = {} /\ phase' = "drained"
    /\ UNCHANGED <<sup, events, scopes, task, ops, history>>

\* The drain ended or took too long. The background loops are aborted and the
\* process ends; shims die with it.
ShutAbort ==
    /\ phase = "drained"
    /\ phase' = "down"
    /\ Kill({e \in Epochs : proc[e].id \in Sandboxed}, "kill")
    /\ UNCHANGED <<sup, events, scopes, task, doomed, ops, history>>

Spawning(t) ==
    \/ SpawnPrepare(t) \/ SpawnExec(t) \/ SpawnFails(t)
    \/ HandshakeOk(t) \/ HandshakeEof(t) \/ HandshakeTimeout(t)
    \/ SpawnInsert(t)

Stopping(t) ==
    \/ StopMark(t) \/ StopSignal(t) \/ StopEscalate(t) \/ StopExited(t) \/ StopGivesUp(t)

Monitoring == MonRecv \/ MonDecide \/ MonWake \/ MonDrop

Shutdown == ShutTerm \/ ShutCollect \/ ShutKill \/ ShutAbort

\* The kernel is gone.
Quiet == phase = "down" /\ UNCHANGED vars

Next ==
    \/ \E t \in Tasks, p \in Ids : SpawnCheck(t, p) \/ StopRemove(t, p) \/ RestartLook(t, p)
    \/ \E t \in Workers : Spawning(t)
    \/ \E t \in Tasks : Stopping(t) \/ RestartSignal(t)
    \/ \E e \in Epochs : \/ ShimForks(e) \/ Exit(e) \/ InnerDies(e)
                         \/ Reap(e) \/ SendExit(e) \/ WatchdogKill(e)
    \/ Monitoring
    \/ ShutBegin \/ Shutdown
    \/ Quiet

\* The runtime runs every task, and SIGKILL works. Nobody has to make a request
\* and no plugin has to exit by itself.
Fairness ==
    /\ \A t \in Workers : WF_vars(Spawning(t))
    /\ \A t \in Tasks : WF_vars(Stopping(t)) /\ WF_vars(RestartSignal(t))
    /\ \A e \in Epochs : /\ WF_vars(Reap(e)) /\ WF_vars(SendExit(e))
                         /\ WF_vars(proc[e].sig = "kill" /\ Exit(e))
    /\ WF_vars(Monitoring)
    /\ WF_vars(Shutdown)

Spec == Init /\ [][Next]_vars /\ Fairness

-----------------------------------------------------------------------------
\* Types.
TypeOK ==
    /\ entries \in [Ids -> Entry \cup {None}]
    /\ next_epoch \in 0..MaxEpoch
    /\ forced_restarts \subseteq Ids
    /\ stopped_epochs \in [Ids -> 0..MaxEpoch]
    /\ events \in Seq(Epochs) /\ Len(events) <= QueueCap
    /\ scopes \subseteq Ids
    /\ proc \in [Epochs -> Process]
    /\ \A t \in Workers : /\ task[t].id \in Ids \cup {None}
                          /\ task[t].epoch \in 0..MaxEpoch
                          /\ task[t].from \in 0..MaxEpoch
    /\ phase \in {"run", "notified", "termed", "grace", "drained", "down"}
    /\ doomed \subseteq Epochs

\* Every living process is in the table, or some task is about to insert it or
\* to signal it, or has signalled it; the exception is a shim whose handshake
\* timed out, which spawn_internal leaves running (spawn.rs, the pid channel).
\* Breaks when an insert or a removal hits an entry of another instance.
Supervised ==
    \A e \in Epochs : proc[e].st = "up" =>
      \/ e \in Registered
      \/ \E t \in Workers : task[t].epoch = e
      \/ proc[e].sig # "none"
      \/ e \in abandoned
      \/ ~Alive

\* "An explicit stop is terminal" (supervisor/mod.rs, B3): once stop_plugin has
\* recorded its stop, the id has no entry until it is started again, whatever
\* the monitor had under way.
StopIsTerminal == \A p \in halted : entries[p] = None

\* "Stopped means the process tree actually exited, not just signalled" (B2):
\* stop_plugin returns when process and plugin are gone, or after a SIGKILL.
StopMeansExited ==
    [][\A t \in Tasks :
         task[t].pc \in {"stop_wait", "stop_kill"} /\ task'[t].pc = "idle" =>
           LET x == proc[task[t].epoch] IN
           x.sig = "kill" \/ (x.st # "up" /\ ~x.inner)]_vars

\* No pids scope is forgotten: when nobody spawns or waits for a process of the
\* plugin any more, its scope is gone, or the last one to clean up tried and
\* failed to remove it (the ten tries of spawn.rs, the one try of a failed
\* spawn). Except, again, for an abandoned shim, and for what the end of the
\* kernel interrupts.
NoScopeLeak ==
    \A p \in scopes :
      \/ Attended(p, proc)
      \/ p \in leftover
      \/ \E t \in Workers : task[t].id = p /\ task[t].pc \in {"exec", "handshake"}
      \/ \E e \in abandoned : proc[e].id = p
      \/ ~Alive

\* Beyond max_restarts a plugin comes up only as often as somebody asked for it:
\* a forced-restart flag is good for one restart.
RestartBudget ==
    \A p \in Ids : entries[p] # None => entries[p].count <= MaxRestarts + manual[p]

\* An exit of the registered instance is dealt with: the entry is replaced or
\* removed, unless the new process could not be spawned, also when exits queue
\* up behind the monitor's backoff in the bounded channel.
ExitHandled ==
    \A e \in Epochs :
      (proc[e].st = "dead" /\ e \in Registered)
        ~> (e \notin Registered \/ e \in unreplaced \/ ~Alive \/ next_epoch = MaxEpoch)

=============================================================================
