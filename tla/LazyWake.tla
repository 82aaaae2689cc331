------------------------------ MODULE LazyWake ------------------------------
(***************************************************************************)
(* Lazy start (plugins/lazy.rs, the gates and the idle clock of            *)
(* plugins/registry.rs, the ActionRequest arm of the router): calls for    *)
(* one lazy plugin go from the router to the waker, which starts the       *)
(* plugin, holds them until it has registered and sends them through the   *)
(* router again. The router, the waker, its start and stop tasks and the   *)
(* plugin run concurrently. Calls are numbered in the order they arrive.   *)
(***************************************************************************)
EXTENDS Integers, Sequences, SequencesExt

CONSTANTS
    RouterCap,   \* capacity of the router's channel
    LazyCap,     \* capacity of the waker's channel
    MaxQueued,   \* MAX_QUEUED: calls held during a wake
    MaxCalls,    \* bound: calls
    MaxExits,    \* bound: exits of the plugin by itself
    MaxSweeps,   \* bound: idle sweeps that find something to do
    MaxStale     \* bound: frames that wait longer than ALLOW_TTL for the router

Calls == 1..MaxCalls

ASSUME LazyAssumption ==
    /\ {RouterCap, LazyCap, MaxQueued} \subseteq Nat \ {0}
    /\ {MaxCalls, MaxExits, MaxSweeps, MaxStale} \subseteq Nat

VARIABLES
    router_q,   \* the router's channel
    router,     \* what the router is doing: [pc, call]
    lazy_q,     \* the waker's channel of WakeRequests
    waking,     \* the plugin's Waking record; on: there is one
    waker,      \* what the waker is doing: [pc, out]
    started_q,  \* results of starts the waker has not seen
    stopped_q,  \* number of ends of stops the waker has not seen
    starts,     \* start tasks: [new, spawned], before and after the spawn
    stops,      \* number of stop tasks
    up,         \* the plugin's process runs
    registered, \* "no", "serves" (registered with the action), "other"
    inst,       \* number of registrations so far
    gate,       \* lazy_gates: [on, allowed]
    pending,    \* calls the plugin has not answered
    last_used,  \* idle clock: "never", "fresh", "idle"
    next,       \* number of calls so far
    routed,     \* history: calls sent to the plugin, in order
    failed,     \* history: calls answered with an error
    woken,      \* history: call -> the instance whose wake it waited for, or 0
    count       \* bounded events so far: [exits, sweeps, stale]

plugin == <<up, registered, inst>>
tasks == <<started_q, stopped_q, starts, stops>>
history == <<routed, failed, woken, count>>
vars == <<router_q, router, lazy_q, waking, waker, tasks, plugin, gate, pending,
          last_used, next, history>>

Asleep == [on |-> FALSE, queue |-> <<>>, starting |-> FALSE, want_stop |-> FALSE,
           stopping |-> FALSE]

\* inst: the registration the router found the call's provider in.
RouterIdle == [pc |-> "idle", call |-> 0, inst |-> 0]

NoGate == [on |-> FALSE, allowed |-> {}]

Init ==
    /\ router_q = <<>> /\ router = RouterIdle
    /\ lazy_q = <<>>
    /\ waking = Asleep /\ waker = [pc |-> "idle", out |-> <<>>]
    /\ started_q = <<>> /\ stopped_q = 0
    /\ starts = [new |-> 0, spawned |-> 0] /\ stops = 0
    /\ up \in BOOLEAN \* an operator may have started it
    /\ registered = "no" /\ inst = 0
    /\ gate = NoGate
    /\ pending = {}
    /\ last_used = "never"
    /\ next = 0
    /\ routed = <<>> /\ failed = {} /\ woken = [c \in Calls |-> 0]
    /\ count = [exits |-> 0, sweeps |-> 0, stale |-> 0]

\* The call was sent to the plugin or answered.
Resolved(c) == c \in failed \/ c \in ToSet(routed)

-----------------------------------------------------------------------------
(* The gate, registry.rs.                                                  *)

lazy_gate_hold == gate' = [gate EXCEPT !.on = TRUE]
lazy_gate_release == gate' = NoGate
lazy_gate_allow(c) ==
    gate' = IF gate.on THEN [gate EXCEPT !.allowed = @ \cup {c}] ELSE gate
lazy_gate_passes(c) == gate.on => c \in gate.allowed

-----------------------------------------------------------------------------
(* The router.                                                             *)

\* A connection hands a call to the router, which may have to wait.
Arrive ==
    /\ next < MaxCalls /\ Len(router_q) < RouterCap
    /\ next' = next + 1
    /\ router_q' = Append(router_q, next')
    /\ UNCHANGED <<router, lazy_q, waking, waker, tasks, plugin, gate, pending,
                   last_used, history>>

\* find_action_provider: the live index first, then the dormant declarer.
find_action_provider == IF registered = "serves" THEN "found" ELSE "dormant"

RouterLookup ==
    /\ router.pc = "idle" /\ router_q # <<>>
    /\ router' = [pc |-> find_action_provider, call |-> Head(router_q), inst |-> inst]
    /\ router_q' = Tail(router_q)
    /\ UNCHANGED <<lazy_q, waking, waker, tasks, plugin, gate, pending, last_used, next,
                   history>>

RouterGate_open ==
    /\ router.pc = "found"
    /\ gate' = [gate EXCEPT !.allowed = @ \ {router.call}]
    /\ router' = [router EXCEPT !.pc = "route"]
    /\ UNCHANGED <<router_q, lazy_q, waking, waker, tasks, plugin, pending, last_used,
                   next, history>>

\* A live lazy plugin whose gate the frame does not pass counts as dormant; an
\* allowance is used up.
RouterGate ==
    /\ router.pc = "found"
    /\ gate' = [gate EXCEPT !.allowed = @ \ {router.call}]
    /\ router' = [router EXCEPT !.pc = IF lazy_gate_passes(router.call) THEN "route"
                                                                        ELSE "dormant"]
    /\ UNCHANGED <<router_q, lazy_q, waking, waker, tasks, plugin, pending, last_used,
                   next, history>>

\* A permission, the concurrency cap or the rate limit says no.
RouterRefuse ==
    /\ router.pc \in {"route", "dormant"}
    /\ failed' = failed \cup {router.call}
    /\ router' = RouterIdle
    /\ UNCHANGED <<router_q, lazy_q, waking, waker, tasks, plugin, gate, pending,
                   last_used, next, routed, woken, count>>

\* The pending action is registered and the frame sent, to the instance the
\* lookup found. Should that be gone by now, nobody answers and the call times
\* out (module ActionRouting).
RouterRoute ==
    /\ router.pc = "route"
    /\ routed' = Append(routed, router.call)
    /\ pending' = pending \cup {router.call}
    /\ last_used' = "fresh"
    /\ router' = RouterIdle
    /\ UNCHANGED <<router_q, lazy_q, waking, waker, tasks, plugin, gate, next, failed,
                   woken, count>>

\* try_send to the waker: a full channel is an error for the caller.
RouterHand ==
    /\ router.pc = "dormant"
    /\ IF Len(lazy_q) < LazyCap
       THEN lazy_q' = Append(lazy_q, router.call) /\ UNCHANGED failed
       ELSE failed' = failed \cup {router.call} /\ UNCHANGED lazy_q
    /\ router' = RouterIdle
    /\ UNCHANGED <<router_q, waking, waker, tasks, plugin, gate, pending, last_used,
                   next, routed, woken, count>>

-----------------------------------------------------------------------------
(* The plugin and the supervisor's start and stop, off the waker's loop.   *)

\* A process exits by itself; the supervisor may have it back at once. Its
\* pending calls are failed.
Exits ==
    /\ up /\ count.exits < MaxExits
    /\ count' = [count EXCEPT !.exits = @ + 1]
    /\ up' \in BOOLEAN
    /\ registered' = "no"
    /\ pending' = {}
    /\ UNCHANGED <<router_q, router, lazy_q, waking, waker, tasks, inst, gate, last_used,
                   next, routed, failed, woken>>

Registers ==
    /\ up /\ registered = "no"
    /\ registered' \in {"serves", "other"}
    /\ inst' = inst + 1
    /\ UNCHANGED <<router_q, router, lazy_q, waking, waker, tasks, up, gate, pending,
                   last_used, next, history>>

\* resolve_action_response also restarts the idle clock.
Answers ==
    /\ registered # "no"
    /\ \E c \in pending : pending' = pending \ {c}
    /\ last_used' = "fresh"
    /\ UNCHANGED <<router_q, router, lazy_q, waking, waker, tasks, plugin, gate, next,
                   history>>

\* ManagerStarter::start: a plugin that is already supervised is no error.
StartSpawns ==
    /\ starts.new > 0
    /\ up' = TRUE
    /\ starts' = [new |-> starts.new - 1, spawned |-> starts.spawned + 1]
    /\ UNCHANGED <<router_q, router, lazy_q, waking, waker, started_q, stopped_q, stops,
                   registered, inst, gate, pending, last_used, next, history>>

StartFails ==
    /\ starts.new > 0
    /\ starts' = [starts EXCEPT !.new = @ - 1]
    /\ started_q' = Append(started_q, FALSE)
    /\ UNCHANGED <<router_q, router, lazy_q, waking, waker, stopped_q, stops, plugin,
                   gate, pending, last_used, next, history>>

StartReturns ==
    /\ starts.spawned > 0
    /\ starts' = [starts EXCEPT !.spawned = @ - 1]
    /\ started_q' = Append(started_q, TRUE)
    /\ UNCHANGED <<router_q, router, lazy_q, waking, waker, stopped_q, stops, plugin,
                   gate, pending, last_used, next, history>>

\* PluginManager::stop ends the process and unregisters it; an error is logged.
StopEnds ==
    /\ stops > 0
    /\ up' = FALSE /\ registered' = "no" /\ pending' = {}
    /\ stops' = stops - 1
    /\ stopped_q' = stopped_q + 1
    /\ UNCHANGED <<router_q, router, lazy_q, waking, waker, started_q, starts, inst,
                   gate, last_used, next, history>>

\* idle_stop passes; it is far longer than a call takes to its provider.
Tick ==
    /\ last_used = "fresh" /\ \A c \in 1..next : Resolved(c)
    /\ last_used' = "idle"
    /\ UNCHANGED <<router_q, router, lazy_q, waking, waker, tasks, plugin, gate, pending,
                   next, history>>

-----------------------------------------------------------------------------
(* The waker's loop. It handles one thing at a time; while it sends frames *)
(* back to a full router it does nothing else.                             *)

WakerIdle == waker.pc = "idle"

Failed(q) == failed' = failed \cup ToSet(q)

spawn_start(w) ==
    /\ waking' = [w EXCEPT !.starting = TRUE]
    /\ starts' = [starts EXCEPT !.new = @ + 1]

spawn_stop(w) ==
    /\ waking' = [w EXCEPT !.stopping = TRUE]
    /\ stops' = stops + 1

\* A wake is under way: the call joins the queue, if there is room.
WakeQueued ==
    LET c == Head(lazy_q) IN
    /\ WakerIdle /\ lazy_q # <<>> /\ waking.on
    /\ lazy_q' = Tail(lazy_q)
    /\ IF Len(waking.queue) < MaxQueued
       THEN waking' = [waking EXCEPT !.queue = Append(@, c)] /\ UNCHANGED failed
       ELSE failed' = failed \cup {c} /\ UNCHANGED waking
    /\ UNCHANGED <<router_q, router, waker, tasks, plugin, gate, pending, last_used,
                   next, routed, woken, count>>

\* Registered, and no wake: the call goes back to the router if the plugin
\* really serves it, and is never treated as dormant again.
WakeRegistered ==
    LET c == Head(lazy_q) IN
    /\ WakerIdle /\ lazy_q # <<>> /\ ~waking.on /\ registered # "no"
    /\ lazy_q' = Tail(lazy_q)
    /\ IF registered = "serves"
       THEN waker' = [pc |-> "reinject", out |-> <<c>>] /\ UNCHANGED failed
       ELSE failed' = failed \cup {c} /\ UNCHANGED waker
    /\ UNCHANGED <<router_q, router, waking, tasks, plugin, gate, pending, last_used,
                   next, routed, woken, count>>

\* The first call for a sleeping plugin.
WakeStart ==
    /\ WakerIdle /\ lazy_q # <<>> /\ ~waking.on /\ registered = "no"
    /\ lazy_q' = Tail(lazy_q)
    /\ last_used' = "fresh"
    /\ lazy_gate_hold
    /\ spawn_start([Asleep EXCEPT !.on = TRUE, !.queue = <<Head(lazy_q)>>])
    /\ UNCHANGED <<router_q, router, waker, started_q, stopped_q, stops, plugin, pending,
                   next, history>>

on_start_result_drops ==
    /\ WakerIdle /\ started_q # <<>>
    /\ started_q' = Tail(started_q)
    /\ IF ~waking.on THEN UNCHANGED <<waking, stops, gate, failed>>
       ELSE IF waking.want_stop
       THEN spawn_stop([waking EXCEPT !.starting = FALSE]) /\ UNCHANGED <<gate, failed>>
       ELSE IF Head(started_q)
       THEN waking' = [waking EXCEPT !.starting = FALSE] /\ UNCHANGED <<stops, gate, failed>>
       ELSE waking' = Asleep /\ lazy_gate_release /\ UNCHANGED <<stops, failed>>
    /\ UNCHANGED <<router_q, router, lazy_q, waker, stopped_q, starts, plugin, pending,
                   last_used, next, routed, woken, count>>

\* A start returned. It may belong to a wake that is over, or that has timed
\* out and wants to stop; a failed start fails the queue.
on_start_result ==
    /\ WakerIdle /\ started_q # <<>>
    /\ started_q' = Tail(started_q)
    /\ IF ~waking.on THEN UNCHANGED <<waking, stops, gate, failed>>
       ELSE IF waking.want_stop
       THEN spawn_stop([waking EXCEPT !.starting = FALSE]) /\ UNCHANGED <<gate, failed>>
       ELSE IF Head(started_q)
       THEN waking' = [waking EXCEPT !.starting = FALSE] /\ UNCHANGED <<stops, gate, failed>>
       ELSE waking' = Asleep /\ lazy_gate_release /\ Failed(waking.queue) /\ UNCHANGED stops
    /\ UNCHANGED <<router_q, router, lazy_q, waker, stopped_q, starts, plugin, pending,
                   last_used, next, routed, woken, count>>

\* A stop is done. Calls that came meanwhile start the plugin afresh.
on_stopped ==
    LET w == [waking EXCEPT !.stopping = FALSE, !.want_stop = FALSE] IN
    /\ WakerIdle /\ stopped_q > 0
    /\ stopped_q' = stopped_q - 1
    /\ IF ~waking.on THEN UNCHANGED <<waking, starts, gate>>
       ELSE IF waking.queue = <<>>
       THEN waking' = Asleep /\ lazy_gate_release /\ UNCHANGED starts
       ELSE lazy_gate_hold /\ spawn_start(w)
    /\ UNCHANGED <<router_q, router, lazy_q, waker, started_q, stops, plugin, pending,
                   last_used, next, history>>

Polling_no_gates == WakerIdle /\ waking.on

\* The poll timer is on while a wake is under way or a gate awaits trimming.
Polling == WakerIdle /\ (waking.on \/ gate.on)
Expirable == waking.on /\ ~waking.stopping /\ ~waking.want_stop

\* poll_waking finds the plugin registered: its queue goes to the router.
PollReady ==
    /\ Polling /\ Expirable /\ registered # "no"
    /\ waking' = Asleep
    /\ waker' = [pc |-> "reinject", out |-> waking.queue]
    /\ woken' = [c \in Calls |-> IF c \in ToSet(waking.queue) THEN inst ELSE woken[c]]
    /\ UNCHANGED <<router_q, router, lazy_q, tasks, plugin, gate, pending, last_used,
                   next, routed, failed, count>>

PollExpired_keeps_queue ==
    LET w == [waking EXCEPT !.want_stop = TRUE] IN
    /\ Polling /\ Expirable /\ registered = "no"
    /\ lazy_gate_release
    /\ IF waking.starting THEN waking' = w /\ UNCHANGED stops ELSE spawn_stop(w)
    /\ UNCHANGED <<router_q, router, lazy_q, waker, started_q, stopped_q, starts, plugin,
                   pending, last_used, next, history>>

\* The plugin did not register in time: its queue fails, and it is stopped as
\* soon as no start is under way.
PollExpired ==
    LET w == [waking EXCEPT !.queue = <<>>, !.want_stop = TRUE] IN
    /\ Polling /\ Expirable /\ registered = "no"
    /\ Failed(waking.queue)
    /\ lazy_gate_release
    /\ IF waking.starting THEN waking' = w /\ UNCHANGED stops ELSE spawn_stop(w)
    /\ UNCHANGED <<router_q, router, lazy_q, waker, started_q, stopped_q, starts, plugin,
                   pending, last_used, next, routed, woken, count>>

\* The gate goes when no wake is under way and no allowance is left.
PollTrim ==
    /\ Polling /\ gate.on /\ ~waking.on /\ gate.allowed = {}
    /\ lazy_gate_release
    /\ UNCHANGED <<router_q, router, lazy_q, waking, waker, tasks, plugin, pending,
                   last_used, next, history>>

\* Allowances older than ALLOW_TTL are dropped, and the gate with the last one:
\* of frames that took another way through the router, and of frames that are
\* still on their way.
PollStale ==
    /\ Polling /\ gate.on /\ ~waking.on
    /\ \E stale \in (SUBSET gate.allowed) \ {{}} :
         LET late == stale \cap (ToSet(router_q) \cup {router.call}) # {} IN
         /\ late => count.stale < MaxStale
         /\ count' = IF late THEN [count EXCEPT !.stale = @ + 1] ELSE count
         /\ gate' = IF stale = gate.allowed THEN NoGate
                    ELSE [gate EXCEPT !.allowed = @ \ stale]
    /\ UNCHANGED <<router_q, router, lazy_q, waking, waker, tasks, plugin, pending,
                   last_used, next, routed, failed, woken>>

\* One queued frame is allowed through the gate and sent; waits for room.
Reinject ==
    /\ waker.pc = "reinject" /\ waker.out # <<>>
    /\ Len(router_q) < RouterCap
    /\ lazy_gate_allow(Head(waker.out))
    /\ router_q' = Append(router_q, Head(waker.out))
    /\ waker' = [waker EXCEPT !.out = Tail(@)]
    /\ UNCHANGED <<router, lazy_q, waking, tasks, plugin, pending, last_used, next,
                   history>>

Reinjected ==
    /\ waker.pc = "reinject" /\ waker.out = <<>>
    /\ waker' = [waker EXCEPT !.pc = "idle"]
    /\ UNCHANGED <<router_q, router, lazy_q, waking, tasks, plugin, gate, pending,
                   last_used, next, history>>

Sweeping == WakerIdle /\ ~waking.on /\ registered # "no" /\ count.sweeps < MaxSweeps

\* sweep_idle starts the clock of a plugin nobody has used yet.
SweepTouch ==
    /\ Sweeping /\ last_used = "never"
    /\ last_used' = "fresh"
    /\ UNCHANGED <<router_q, router, lazy_q, waking, waker, tasks, plugin, gate, pending,
                   next, history>>

\* sweep_idle finds an idle plugin with no pending action ...
SweepCheck ==
    /\ Sweeping /\ last_used = "idle" /\ pending = {}
    /\ count' = [count EXCEPT !.sweeps = @ + 1]
    /\ waker' = [waker EXCEPT !.pc = "sweep"]
    /\ UNCHANGED <<router_q, router, lazy_q, waking, tasks, plugin, gate, pending,
                   last_used, next, routed, failed, woken>>

\* ... and then closes its gate and stops it.
SweepStop ==
    /\ waker.pc = "sweep"
    /\ lazy_gate_hold
    /\ spawn_stop([Asleep EXCEPT !.on = TRUE])
    /\ waker' = [waker EXCEPT !.pc = "idle"]
    /\ UNCHANGED <<router_q, router, lazy_q, started_q, stopped_q, starts, plugin,
                   pending, last_used, next, history>>

Routing == RouterLookup \/ RouterGate \/ RouterRoute \/ RouterHand
Starting == StartSpawns \/ StartFails \/ StartReturns
Waker ==
    \/ WakeQueued \/ WakeRegistered \/ WakeStart
    \/ on_start_result \/ on_stopped
    \/ PollReady \/ PollTrim
    \/ Reinject \/ Reinjected \/ SweepStop

\* Nothing to do until the next call.
Quiet ==
    /\ next = MaxCalls
    /\ router_q = <<>> /\ router.pc = "idle" /\ lazy_q = <<>>
    /\ UNCHANGED vars

Next ==
    \/ Arrive \/ Routing \/ RouterRefuse
    \/ Exits \/ Registers \/ Answers \/ Tick
    \/ Starting \/ StopEnds
    \/ Waker \/ PollExpired \/ PollStale \/ SweepTouch \/ SweepCheck
    \/ Quiet

\* Router, waker, start and stop tasks run; time passes, for wakes and for
\* allowances. The plugin owes nothing.
Fairness ==
    /\ WF_vars(Routing) /\ WF_vars(Starting) /\ WF_vars(StopEnds)
    /\ WF_vars(Waker) /\ WF_vars(PollExpired) /\ WF_vars(PollStale)

Spec == Init /\ [][Next]_vars /\ Fairness

-----------------------------------------------------------------------------
\* Types and the bounds of the channels and of the wake queue.
TypeOK ==
    /\ Len(router_q) <= RouterCap /\ Len(lazy_q) <= LazyCap
    /\ Len(waking.queue) <= MaxQueued
    /\ router.pc \in {"idle", "found", "dormant", "route"}
    /\ waker.pc \in {"idle", "reinject", "sweep"}
    /\ registered \in {"no", "serves", "other"}
    /\ gate.allowed \subseteq Calls
    /\ last_used \in {"never", "fresh", "idle"}

\* A call is in one place: copies of a frame travel between router and waker,
\* and none of them is lost or handled twice, whatever happens to the plugin.
OnePlace ==
    \A c \in 1..next :
      LET places == <<c \in ToSet(router_q), router.call = c, c \in ToSet(lazy_q),
                      c \in ToSet(waking.queue), c \in ToSet(waker.out),
                      c \in failed, c \in ToSet(routed)>>
      IN  /\ \E i \in DOMAIN places : places[i]
          /\ \A i, j \in DOMAIN places : places[i] /\ places[j] => i = j

\* A call that came after registration does not overtake the earlier ones that
\* waited for the wake (the gates, registry.rs: "a call arriving after
\* registration cannot overtake the ones queued during the wake").
NotOvertaken ==
    [][\A y \in ToSet(routed') \ ToSet(routed) :
         count.exits + count.sweeps + count.stale = 0 /\ router.inst = inst /\ registered # "no" =>
           \A x \in Calls : x < y /\ woken[x] = inst => Resolved(x)]_vars

\* Every call is sent to the plugin or answered, also when starts fail, wakes
\* time out, the plugin exits during the drain or is stopped for idleness just
\* then: no call goes round between router and waker for ever.
CallResolved == \A c \in Calls : (next >= c) ~> Resolved(c)

\* A closed gate opens again, and calls take the short way to the live plugin.
GateOpens == gate.on ~> ~gate.on
=============================================================================
