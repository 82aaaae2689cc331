# TLA+ models of the Vynkor kernel

Vynkor is a small kernel that runs plugins as separate processes and connects
them over a Unix socket, a WebSocket gateway and a bridge to another kernel.
This directory holds TLA+ models of its concurrent core, the TLC
configurations that check them, and TLAPS proofs. Paths below are relative to
the repository's `src/`.

## 1. The system

| Part | Source | State | Operations | Module |
|---|---|---|---|---|
| Plugin registry | `plugins/registry.rs` | a dozen `DashMap`s: id to entry, connection to id, pong times, devices, action index, ambiguous actions, pending actions, dormant plugins, gates | register, unregister (three predicates), record_pong, index and unindex an action, look up a provider | `Registry`, `ActionRouting`, `LazyWake` |
| Router | `ipc/protocol/router.rs`, `helpers.rs` | error budgets, limiters; otherwise the registry | one arm per message; prune tick. A single task, the only one that handles frames | `ActionRouting`, and its arms in the others |
| Connections | `ipc/server.rs`, `ipc/connection.rs`, `api/websocket.rs` | a read and a write task per connection, reassembly buffers, session key | accept, reassemble, deliver, tear down, signal the disconnect | `Connection`, `Bridge` |
| Disconnect loops | `kernel/orchestrator/shutdown.rs` | a channel of connection ids each | unregister what the connection held | `Registry`, `Events` |
| Manager and supervisor | `plugins/manager.rs`, `plugins/supervisor/*`, `plugins/runner.rs`, `plugins/shim.rs` | process table, stop epochs, forced restarts, pids scopes | spawn, stop, restart with backoff, watchdog, shutdown | `Supervisor` |
| Loader | `plugins/loader.rs` | none of its own | validate, order by `requires`, start or register as dormant | `Loader` |
| Lazy start | `plugins/lazy.rs` | waking plugins with their queued calls, gates | wake, replay, idle stop | `LazyWake` |
| Event bus and store | `events/bus.rs`, `events/store.rs` | subscriptions; an SQLite table of events | publish, deliver, acknowledge, retry, dead-letter | `Events` |
| Pairing | `auth/pairing.rs`, `ticket_store.rs`, `device_store.rs`, `cli/device.rs` | ticket and device files | issue, consume, mint, revoke, remove | `Pairing`, `TicketLife` |
| Bridge | `bridge/mod.rs`, `bridge/transport.rs` | link to the host kernel, status, backoff | connect, register, prove, relay, tear down | `Bridge`, and its local entry in `Registry` |
| Commands, permissions, HTTP listings, sandbox filters, CLI, configuration | `kernel/commands.rs`, `auth/permissions.rs`, `api/*`, ... | little or none | checks, parsing, thin calls | none |

What makes it hard:

* the registry is a set of maps that are locked row by row. No lock covers two
  maps, and the router, two disconnect loops, the callers of `stop` and the
  bridge all write to them;
* disconnects are handled behind the router, so a removal may be late: the id
  may already belong to someone else;
* the map of pending actions is ended from five sides: the provider's answer,
  a failing channel, the timeout sweep, the idle sweep, and the removal of the
  provider on another task;
* start, stop, restart, the monitor and the watchdog race on the process table,
  which is checked when a spawn begins and written when it ends;
* calls to a sleeping plugin go round between router and waker while the plugin
  starts, hangs, exits or is stopped for idleness;
* acknowledgements race with retries, statements of the outbox may fail, and the
  kernel may crash between any two of them;
* the maps of the event bus are written one after the other by the router, the
  disconnect loops and the loader;
* the device file is rewritten by the kernel and by commands in processes of
  their own, without a common lock;
* a device is registered, acknowledged and switched to tagged frames in three
  steps, while other tasks send to it; the network can go dark.

What makes each part correct:

* registry: an id has one holder and a connection one id; a live id is not
  taken over; a client is not refused on account of its own dead entry; the
  index and the device records follow the registered manifests;
* action routing: one final answer per request, no request forgotten, every
  request answered or accepted, sessions ended when their provider leaves;
* supervisor: no process out of reach, no return after a stop, stopped means
  exited, no scope forgotten, every exit dealt with;
* loader: requirements first, and everything loaded that can be;
* lazy start: a call is in one place, in order, and ends;
* events: a bounded number of deliveries, every stored event ends, every
  subscription can be removed;
* pairing: a ticket buys one credential at most, rows are not lost, a
  withdrawn device stays out;
* bridge: Connected means proven where there is a key, and a good client gets
  there;
* connections: whole messages, bounded buffers, and a peer that is gone is
  cleaned up after.

## 2. The modules

An operation is cut into steps where the code awaits, or lets go of one map and
takes another; what lies between is one action. Definitions carry the names of
the functions they translate.

### Registry

One step per `DashMap` access of `register_with_device`, `register_device`
(which follows the same path with the capability names as its actions),
`unregister_if` and `record_pong`.

| Model | Code |
|---|---|
| `by_plugin_id`, `by_conn_id`, `pong_times`, `devices`, `action_index`, `ambiguous_actions` | the maps of the same names; an entry is represented by its connection, whose manifest and device are the constants `Manifest` and `DeviceOf` |
| `conn` | `closed`: the write loop has ended, so `write_tx.is_closed()`; `signalled`: the id was then sent to the disconnect loop |
| `frames`, `disc` | the router's inbox (bounded) and the inboxes of the disconnect loops |
| `pc`, `pid`, `cid`, `gone`, `todo`, `cur`, `only`, `unseen`, `saw` | where each task is inside an operation, and its local variables |
| `SlotHeld` | `register` holds the vacant entry of its id from the reservation to the final insert; whoever needs that row waits |
| `RouterRegister`, `RemoveHit` ... `MarkOffline` | the arm of PluginRegister: look at the holder, evict it if dead, register, acknowledge |
| `DiscMiss`, `DiscHit` | `disconnect_loop` |
| `Stop`; `BridgeUp`, `BridgeDown`, `BridgeHangup` | `PluginManager::stop`; `Bridge::run_conn` |

A refused registration (version, token, device credential, id syntax) is
`RouterRefuse`; a frame that is dropped by the rate limiter, the error budget
or the registration gate is `RouterDrop`. Both may happen at any time. The
order in which a manifest's actions are indexed is left open.

### ActionRouting

One action per step of the router's arms that uses the map of pending
actions; an arm is cut wherever it lets go of the map and later uses what it
read, because removals run on other tasks.

| Model | Code |
|---|---|
| `pending_actions` | the map; a slot has the fields of `PendingAction`, with the two clocks reduced to `expired` and `idle`, and the request it stands for |
| keys `1..MaxReqs`, keys in `ActionIds` | minted ids `kact-N`; the callers' own ids, which the mux path of `forward()` uses |
| `LookupFound`/`RoutePut`, `LookupMux`/`RoutePut`, `LookupHost`/`RelayPut`/`RelaySent`/`RelayFailed` | the Found arm, `forward()`, `relay_action_to_host` |
| `RefuseRequest` | every refusal: caller denied, not found, ambiguous, permission, cap, rate, a full wake queue |
| `ResolveFinal`, `ResolveAccept`, `TellFinal`, `TellAccept` | `resolve_action_response`, and the forwarding of what it returned |
| `RequestChunk`, `RequestChunkAbort`, `ResponseChunk`, `ChunkSent`, `ChunkFailed` | the chunk arms and `abort_stream` |
| `CloseByProvider`, `CloseSend`, `CloseByCaller`, `CloseTake` | SessionClose |
| `PruneTick`, `Expire`, `GoIdle` | the tick with its two sweeps; time |
| `Unregister`, `FailCollect`, `FailTake`, `FailSend`, `FailDone` | `unregister_if`, `take_pending_actions_for_provider`, `fail_pending_for_provider` |
| `finals`, `told`, `route` | history: final responses, notices and the way of each request |

`finals` counts responses handed to the caller's channel. Whether the channel
takes them is not modelled: `send_envelope` drops a response when the channel
is full, by design, and no property of the kernel can promise more.

### Supervisor

Tasks that serve requests, the monitor, a wait task per process, the watchdog
and the shutdown, over the table of entries, the flags and the scopes.

| Model | Code |
|---|---|
| `entries`, `next_epoch`, `forced_restarts`, `stopped_epochs` | the fields of `PluginSupervisor`; an entry is its epoch and its restart count |
| `proc` | the process of an epoch: alive, dead or reaped, the signal it has had, and the plugin behind the shim (`inner`) |
| `scopes`, `leftover` | pids cgroups (`runner.rs`); history: those whose removal was tried for the last time and failed |
| `events` | the bounded channel of exits |
| `SpawnCheck` ... `SpawnInsert` | `spawn_internal`: check, prepare, exec, handshake, insert; each failure its own action |
| `ShimForks`, `Exit`, `InnerDies`, `Reap` | `shim::run`, which forks the plugin before it prints its pid and gives it up if it is not ready; the wait task of a process |
| `Cleanup` | `cleanup_pids_cgroup`, with all its tries in one step: it removes an empty scope, or the scope is given up |
| `StopRemove`, `StopMark`, `StopSignal`, `StopEscalate`, `StopExited`, `StopGivesUp` | `stop_plugin` |
| `RestartLook`, `RestartSignal` | `restart_plugin` |
| `MonRecv`, `MonDecide`, `MonWake`, `MonDrop` | `monitor_loop`: stale exits, policy and budget, the look after the backoff, the removal |
| `ShutBegin` ... `ShutAbort` | `Kernel::graceful_shutdown`, `PluginSupervisor::graceful_shutdown` |

`Serial = TRUE` lets requests for an id overlap with the monitor only where the
code takes precautions; `Serial = FALSE` lets them overlap anywhere.

### Loader

`load_all` for one configuration, chosen in `Init`: every list of requirements
(with repetitions and ids that are not configured) and every set of valid
manifests. The loops of `topo_sort` are steps, so no recursion is needed. The
entries of a list are pairs of a plugin and a position: `rev` is the set of
entries that wait for a plugin, `rest` those the inner loop has still to visit,
which it takes in the order of the configuration. `Circular` is the reference
definition the result is compared with, and `ConfigOrder` the order of the file
that is used when there is a cycle. The names `LoaderInit`, `LoaderNext`,
`LoaderSpec` keep them apart from those of `Events` where both are proved about.

### LazyWake

One lazy plugin, the router, the waker and the waker's start and stop tasks.

| Model | Code |
|---|---|
| `router_q`, `lazy_q`, `started_q`, `stopped_q` | the channels between the tasks |
| `waking` | the plugin's `Waking` record |
| `gate` | its row of `lazy_gates`: present, and the frames allowed through |
| `RouterLookup`, `RouterGate`, `RouterHand`, `RouterRoute`, `RouterRefuse` | the ActionRequest arm |
| `WakeQueued`, `WakeRegistered`, `WakeStart`, `on_start_result`, `on_stopped`, `PollReady`, `PollExpired`, `PollTrim`, `PollStale`, `Reinject`, `SweepCheck`, `SweepTouch`, `SweepStop` | the arms of `LazyStarter::run` |
| `up`, `registered`, `inst` | the plugin; it may register without the action |

### Events

One event type with its subscribers, the outbox and the retry worker.

| Model | Code |
|---|---|
| `subscriptions`, `by_plugin` | the two maps of `EventBus`, for this event type; every operation on them is two steps |
| `writer` | where the router, the two disconnect loops and the boot task are inside a bus operation |
| `Subscribe`, `Unsubscribe`, `Evict` | the router's arms, the eviction of a closed connection included |
| `LoaderSubscribe` | `load_all` subscribes a plugin it has spawned, which may have come and gone by then |
| `Close`, `Disconnect`, `Stopped` | the end of a connection, a disconnect loop, `PluginManager::stop` |
| `status`, `retry_count` | the row of an event; a crash keeps them and nothing else |
| `increment_retry_or_dead` | two UPDATEs, each of which may fail |
| `Age` | the ten seconds after which an event is due |
| `uncounted`, `unmarked`, `crossed` | history: rounds a failed UPDATE did not count, or did not end; plugins the loader began to subscribe between the two writes of their unsubscribe |

The store's errors are logged or dropped by the code, so a failed statement
changes nothing and its caller goes on. The id of a connection that closes is
handled by one of the two loops; which one is left open.

### Pairing and TicketLife

| Model | Code |
|---|---|
| `ticket`, `expired`, `stale` | `tickets.json`; one mutex and one rename make an operation on it atomic |
| `inode`, `file`, `tmp` | `devices.json` and `devices.json.tmp` as directory entries for files, so that two writers of the temporary file meet |
| `op` | the request or command each task or process is in |
| `Burn`, `FreshDevice`, `ReadRows`, `CreateTmp`, `WriteTmp`, `RenameTmp`, `ConsumeReply` | `PairingService::consume` and `DeviceStore::issue` |
| `Command`, `ConnectLink` | `vyn device connect`, `revoke`, `revoke --undo`, `remove` |
| `Upgrade`, `RegisterCheck`, `RegisterAdmit`, `Recheck` | the gates of the gateway and the router, which reads the row and goes on with what it read, and `DeviceWatch` |
| `Fail`, `Crash` | an I/O error or a killed command; the end of the kernel |

`TicketLife` is what tickets promise: claimed once, while open, for at most one
credential that no other ticket buys. `Pairing` implements it under the mapping
`Life`: a ticket is claimed while a task holds it, granted once its credential
was handed out, and void if it expired, or failed after it was burned. The run
`pairing` checks `Abstract!Spec`.

### Bridge

The client (`Bridge::run`, `one_cycle`, `run_conn`, its read and write loops),
the host's gateway (`handle_socket`) and the register, ping and forward arms of
the host's router, over connections that are cut or go dark. A frame's tag is
the secret it was computed with. `Setups` says how the two are configured: the
client may have no secret, and the host may not authenticate, and then the
client has no session key (`SessionKey`). `Probe` is the ping that asks for a
tagged answer; the first frame of any kind that verifies makes the status
Connected, and without a key every frame does.

The client bounds its reads (`Silence` on a connection that carries nothing,
`HostStalls` on one whose host does not answer). The gateway does not: on a dark
connection only the registration deadline is certain to end it
(`RegisterDeadline`), and the TCP stack may report it or not (`HostMayNotice`).
The signal of a connection that ends is in `gone` until the disconnect loop has
handled it, whatever the router does meanwhile.

### Connection

The loops of `ConnectionHandler::run` and `write_loop`, the slot in
`UdsServer::start`, and the router as the reader of one bounded channel and a
writer of the other. The peer sends any fragments in any order, also again,
larger, smaller or empty, and also after their message was complete; it may stop
reading, and may go away. The read loop cannot tell which message a fragment is
of: the model records it, and `mixed` holds the streams on which a timeout, a
late repeat or a message begun too early put fragments of two messages together.

`buffered_bytes` is counted modulo `UsizeSpan`, in the order of the code: for a
smaller fragment the subtraction wraps and the addition wraps back (`Insert`). A
build with overflow checks panics there instead (`Underflow`): the task unwinds
without the disconnect signal and without giving its slot back.

The `MC` modules give the constants for TLC. The modules named `...Proofs` hold
the theorems about the modules they are named after, `BootAndEventsProofs` those
about `Loader` and `Events`.

## 3. The runs

| Run | Checks | Result |
|---|---|---|
| `registry_interleaved` | types, `OwnershipConsistent`, `NoTakeover`, `RejectOnlyIfLive`, `DisconnectFreesId` | hold for the router, two disconnect loops and a stop, interleaved at every map access |
| `registry_serial` | `IndexExact`, `DeviceExact` | hold when operations do not overlap, the bridge included |
| `registry_survives` | `RegistrationSurvives` | violated |
| `action_routing` | types, `OneFinalResponse`, `SessionNotAnswered`, `NoLostRequest`, `EveryRequestAnswered`, `DepartureEndsRequests` | hold |
| `supervisor` | types, `Supervised`, `StopIsTerminal`, `NoScopeLeak`, `RestartBudget`, `StopMeansExited`, `ExitHandled` | hold with `Serial = TRUE`; a scope may stay when its removal has failed |
| `supervisor_stop` | `StopIsTerminal` | violated with `Serial = FALSE` |
| `lazy_wake` | `OnePlace`, `NotOvertaken`, `CallResolved`, `GateOpens` | hold |
| `loader` | `DepsFirst`, `LoadsTheRest` | hold, the first without cycles |
| `events` | `RetriesBounded`, `NoOrphanSubscription`, `EventSettles` | hold, with one more delivery for each failed UPDATE, and except for a loader that crosses an unsubscribe |
| `pairing` | types, `SingleUse`, `RevokedStaysOut`, `RowsKept`, `WithdrawnCloses` | hold, `RevokedStaysOut` and `RowsKept` as long as no writes of two processes overlap, the first for registrations checked after the withdrawal |
| `bridge` | `ConnectedProven`, `GoodConnects` | hold, the first where there is a key, the second unless the host holds a dark connection for ever |
| `connection` | types with the byte counts, `ReassemblyBounded`, `WholeMessages`, `GoneIsCleanedUp` | hold, `WholeMessages` for streams that are not mixed, and without the slot of a read loop that panicked |

The two violations are places where a comment of the code promises more than
the code does:

1. *A registration does not always survive an older disconnect*
   (`registry.rs:417`). Connection 1 of id `p` closes; the disconnect loop
   removes `p` from `by_plugin_id`; connection 2 registers `p` and gets its
   pong row and index rows; the disconnect loop goes on and removes them.
   `p` is registered, is not found by its actions, and has no pong row.
2. *A stop is not always terminal* (`supervisor/mod.rs:218`). The plugin
   crashes and the monitor waits out its backoff. It looks at the table and at
   the stop epochs and begins to spawn; a stop removes the old entry and
   returns; the new process is inserted. The same happens when the monitor's
   look falls between the stop's removal and its mark.

### Bounds

`registry_interleaved` has two plugins, two connections on different loops, one
common action, one frame per connection and one stop: an old and a new holder
of one id, with a removal of each kind racing them. Two connections suffice for
every two-party race; the theorems of section 4 cover any number.
`registry_serial` has three connections, the bridge's among them, two actions,
two devices and two frames per connection, so collisions are created and
dissolved, and devices are shared. `action_routing` has two requests, one
caller, a provider that is also a mux device, a host, one removing task and a
cap of one: both requests may share the caller's action id, one may be a
session while the other is relayed, and the provider may leave and return
between them.

`supervisor` has one sandboxed plugin, three processes, three requests and an
exit channel of one: a process, its replacement and the replacement's
replacement, with a full channel. Entries of different ids share nothing but
that channel and the monitor. `lazy_wake` has two calls (one waits, one comes
later), an exit, a sweep and a stale allowance, and channels that fill up.
`loader` has three plugins with up to two requirements each: a cycle, a
requirement of it and a bystander fit, and so does every repeated entry.
`events` has one subscriber with two registrations, an event with one retry, and
two faults, each a crash or a failed statement: the router, both loops and the
loader can all be inside the bus at once. Events and subscribers share nothing
but the worker's batch and the channels, and the theorems cover any number.
`pairing` has two tickets, two devices, two requests, a command, one lapse and
one fault. `bridge` has two connections (the old one and the next) and two
events, each a fault or a frame of another task, for a client with the right
secret, another one or none, a revoked row (by an event), and a host that does
not authenticate. `connection` has three messages of two fragments on streams
that are one too many, or used again, with empty fragments and such as fill a
buffer, and four frames: a repeated fragment that grows or shrinks fits with a
whole message, and so do two messages that are mixed up. `UsizeSpan = 8` is more
than twice `MaxPayload`, as `2^64` is, so a wrap is not mistaken for a count.

The constants named `Max...` are bounds of the models (`MaxQueued`,
`MaxBackoff`, `MaxRestarts`, `MaxStreams` and `MaxPayload` are limits of the
code, and so is `UsizeSpan`); the capacities of channels are the code's, made small.

### Fairness

Tasks of the kernel run, timers fire and time passes; clients, plugins,
operators and faults need not act. In `ActionRouting` the prune tick has strong
fairness: it is enabled only between two frames, and the `biased` select of the
router polls it first, however many frames wait. In `Supervisor` a process that
was sent SIGKILL exits; one that was sent SIGTERM need not. In `LazyWake` a
start task finishes, but need not succeed, and the plugin need not register or
answer: a call that was routed is the router's pending action and ends with its
timeout. In `Events` only the retry worker and time have to go on. In `Bridge`
nothing makes the host learn of a dead peer: the gateway sends no pings, bounds
no read and sets no keepalive, so `HostMayNotice` has no fairness. In
`Connection` a peer that has stalled need not read again, and nothing is
promised until it is gone.

TLC's deadlock check is on except where the system really may stop: `pairing`
(tickets and bounds used up), `bridge` (connected, nothing to send),
`connection` (the connection is over) and `loader` (the boot is over). `Quiet`
in the other modules stands for the idle kernel.

Every property has a mutant, a definition named `<definition>_<change>` next
to the one it changes, under which TLC finds that property violated.

## 4. The proofs

Every theorem holds for every value of the constants that satisfies the named
`ASSUME` of the module: any number of plugins, connections, tasks, requests,
tickets, faults, and any capacity. Most properties are not inductive; what
follows names the strengthening and why it is needed. The strengthenings were
checked with TLC on the instances of section 3 before they were proved.

| Module | Theorem | States | For |
|---|---|---|---|
| `RegistryProofs` | `TypeCorrect`, `Ownership`, `OpenKeepsId` | `[]TypeOK`, `[]OwnershipConsistent`, `NoTakeover` | all interleavings |
| | `RefusedOnlyForLive` | `RejectOnlyIfLive` | all interleavings, `Bridges = {}` |
| | `SerialIndexExact`, `SerialDeviceExact` | `[]IndexExact`, `[]DeviceExact` | `Serial = TRUE` |
| `ActionRoutingProofs` | `TypeCorrect`, `AtMostOneAnswer`, `NothingForgotten`, `SessionsNotAnswered` | `[]TypeOK`, `[]OneFinalResponse`, `[]NoLostRequest`, `[]SessionNotAnswered` | all interleavings |
| `SupervisorProofs` | `TypeCorrect`, `StopEndsProcess`, `ScopesRemoved`, `RestartsBounded` | `[]TypeOK`, `StopMeansExited`, `[]NoScopeLeak`, `[]RestartBudget` | all interleavings |
| | `StopsAreTerminal`, `ProcessesSupervised` | `[]StopIsTerminal`, `[]Supervised` | `Serial = TRUE` |
| `LazyWakeProofs` | `TypeCorrect`, `CallsInOnePlace`, `DrainInOrder` | `[]TypeOK` (types, and the capacities of the queues), `[]OnePlace`, `NotOvertaken` | all interleavings |
| `BootAndEventsProofs` | `DependenciesFirst`, `TheRestIsLoaded` | `[]DepsFirst`, `[]LoadsTheRest` | all numbers of plugins and all lists of requirements |
| | `SubscriptionsFound`, `DeliveriesBounded` | `[]NoOrphanSubscription`, `[]RetriesBounded` | all interleavings, crashes and failed statements |
| `PairingProofs` | `TypeCorrect`, `TicketsSingleUse`, `RevocationHolds`, `NoRowLost` | `[]TypeOK`, `SingleUse`, `RevokedStaysOut`, `RowsKept` | all interleavings, crashes and I/O errors |
| `BridgeProofs` | `ConnectedMeansProven` | `[]ConnectedProven` | all setups, interleavings and faults |
| `ConnectionProofs` | `TypeCorrect`, `MessagesAreWhole`, `BuffersBounded` | `[]TypeOK` (types, and the byte counts), `[]WholeMessages`, `[]ReassemblyBounded` | all orders of fragments |

**Registry.** `Ownership` is not inductive:
that a task which removes an entry still finds its connection mapped to that
id depends on no other task registering that connection meanwhile, which in
turn depends on who is at which step. The strengthening says, for every task
by its location, which of `pid`, `cid`, `gone` are set, that two tasks never
register the same id or work for the same mapping, and that the mapping of
each is in place. Most steps move no task between these roles; they are
dealt with by one frame lemma, and only the steps that change a role
(reserving, committing, removing an entry, removing a mapping) are argued
one by one. `OpenKeepsId` needs an invariant about the
disconnect loops: an id in a loop's inbox, or in its hands, belongs to a
connection whose channel is closed, and a closed connection is never opened
again unless it is the bridge's.

`RefusedOnlyForLive` says what the router knows between its look and its
reservation (`SeenInv`): other tasks only remove entries and close connections,
so the holder of the id is still the one it saw alive, or nobody. The bridge
registers without the router, hence `Bridges = {}`, as in the run
`registry_interleaved`.

`SerialIndexExact` and `SerialDeviceExact` have the hypothesis `Serial`: an
operation begins when no other is under way. The first is false without it
(section 5). `SerialInv` names the one task that is inside an operation, and says
of each row that it is exact for the registered declarers together with the id
that is being registered, for the actions already indexed, or removed, for the
actions still indexed (`Supply`); the row the task is working on is described
step by step (`FluxOK`: an entry to be turned into a set, a set left with one
member that is about to be promoted, a row about to be deleted). For devices,
the one of the task's connection is online until the scan has found no entry of
it among those it has passed (`DeviceOK`). `NoneAssumption` keeps the value of an
empty row apart from the values of the others.

**Action routing.** From `RoutingAssumption` (minted keys are not action ids of
callers) and `NoneAssumption`. `TypeCorrect` is strengthened with `HandOK`,
which says what the router task holds at each point inside a handler. For
`AtMostOneAnswer` a count of answers is not inductive: it holds because a
request is in one place at a time. `OnePlace`
says that no request is at once in two slots, two removing tasks' hands, or
the router's; `Unanswered` that a request in any of these places has had no
final response (unless it is relayed to a host); `Unsaid` that a request not
yet numbered has none either. For `NothingForgotten` the danger is an insertion
that overwrites a slot. `KeysOK` says that a minted key holds its own request
and a caller's key a relayed one, so that an insertion can displace a relayed
request only (which it does: section 5);
`ClosingOK` says that the slot the router is about to drop when a session
closes belongs to a caller that has been sent the close. The rest is that each
step which clears a slot sends its caller an answer, an abort or a close.
For `SessionsNotAnswered` (`SessInv`): while a slot is in the map its request has
no answer of the kernel, accepted or not, because it may still be accepted;
in the hands of a removing task an accepted slot has none, and one that is not
accepted has had no acceptance; and between marking a slot as accepted and
passing that on, every copy of the slot is marked.

**Supervisor.** `TypeInv` adds to the types what a task at each location works
on. `ProcInv` ties processes to tasks, entries and events: an epoch that was not
handed out has no process, two spawns have different epochs, a task before its
exec has no process and one after it has its own, an entry and a stop name a
process with a wait task, and a queued exit is of a process that was reaped. A
plugin that outlives its shim, once the shim has a wait task or its pid was
read, was left by a SIGKILL. `StopEndsProcess` follows from it. `ShimInv` (a
handshake that is awaited has its shim) is what `ScopesRemoved` needs besides,
and then each way out of `spawn_internal` and each wait task is argued by
itself: it removes the scope, or gives it up while somebody else will clean up,
or is the last one and has failed (`CleanupOK`, `leftover`). `RestartsBounded` counts tokens: a restart
beyond the budget uses up a forced-restart flag, or a flag the monitor has just
found, and the count in every entry and task, with the flags not used yet, stays
within `MaxRestarts` and the restarts that were asked for.

`StopsAreTerminal` and `ProcessesSupervised` have the hypothesis `Serial`:
a start waits for all work on its id, a stop or a restart for all but the
monitor's backoff, and the monitor does not wake between the two map accesses of
a stop. Without it both are false, the first as run `supervisor_stop` shows. The
invariant `SerialInv` says that who spawns an id is alone with it, that a stop
has removed the entry and a start found none, that nobody spawns a stopped id,
that the monitor's restart is for the entry it will replace (or for none), and
that a stop which overtook the monitor stopped that very instance and left its
mark where the monitor looks. `ProcessesSupervised` adds that an entry which a
step removes or overwrites, and a task that ends, hand their process on.

**Lazy start.** `LazyInv` states `OnePlace` as a partition of the numbers given
out into seven sets, with each queue free of repetitions (or the tail of a
queue would still hold its head), and adds which holder is empty when: an idle
router has no call, a plugin without a wake no queue, the waker a way out only
while it sends. Every step then moves one call, or one queue, from one set to
another. The lemmas about queues (`QueueAppend`, `QueueTail`) are stated once.

`DrainInOrder` follows from `OrderInv`, which speaks of behaviours without exits,
sweeps and stale allowances, as the property does. They have one drain at most.
Before it (`BeforeInv`) the calls are in the order of their numbers from the
wake's queue through the waker's channel and the router's hands to the router's
channel, since nothing was sent back; one start or one stop is under way, as the
wake's record says; and the gate lets nothing pass. After it (`AfterInv`) nobody
stops the plugin, so it stays registered; the calls of the drain that are on
their way have their allowance, the gate is closed as long as one of them has
not passed, and whatever is allowed to pass is behind every earlier one of them.
A stop that ends after its wake was given up is what needs the count of tasks:
it could otherwise take away the plugin that the drain is for.

**Loader.** `LoaderInv` is the loop invariant of `topo_sort`. `in_degree` of a
plugin is the number of its `Pending` entries: those that name a plugin which was
not refused and is not popped yet, or is popped with the entry still in `rest`. Queue and order together hold, once each, exactly the plugins whose
count is zero, and a popped plugin comes after all its requirements
(`OrderInv`). At the end no plugin is queued, so each plugin that was not popped
requires another of them, and they are all `Circular` (`RestCircular`).
Conversely a circular set has no popped member: the first one popped would
require a member that was popped before it (`PoppedNotCircular`, by a least
position). So the sort took everything exactly when there is no cycle, and then
`loaded` followed by what is still planned is the sorted order (`LoadInv`); with
a cycle it is the other plugins in the order of the file. That `ConfigOrder`
lists each of them once is a fact about counting: the rank of a plugin is an
injection between finite sets of the same size (`ConfigOrdered`). No step needs
an induction over the graph.

**Events.** `NoOrphanSubscription` allows for tasks between the two writes of
`subscribe` and of `unsubscribe_all`; what is missing is that between the two
writes of `unsubscribe` the id is out of the subscriptions, unless the loader has
put it back meanwhile (`SubscriptionInv`).
`DeliveriesBounded` relates deliveries to `retry_count` (`RetryInv`): those made,
the publisher's if it is still to come, and the worker's if its round has begun,
are at most one more than the rounds, counted by the store or not (`Paid`); the
count is within the limit and the rounds that were not marked dead (`Allowed`),
and below it for an event that may be counted again, which needs that no event is
twice in the worker's hands. A crash forgets the worker's list, never the count.

**Pairing.** From `PairingAssumption`. `TicketsSingleUse` is the refinement
`Spec => Abstract!Spec`: the initial states map to the initial state, and every
step to a step of `TicketLife` or a stutter. `TicketInv` says that two tasks
never hold one ticket, and that a held ticket is burned and has bought nothing;
`SecretInv` that a credential on its way is nobody else's and was handed to
nobody. `RevocationHolds` and `NoRowLost` need `FileInv`: while no writes of two
processes have overlapped, there is one writer, its rows are the file's but for
the one it changes, the temporary file it renames holds exactly them, and the
rows of withdrawn devices are revoked or gone. The condition `clean` is part of
the properties, because the code has no lock across processes. `RevocationHolds`
needs `ReadInv` besides: a registration that was checked and has not been
admitted, of a device withdrawn by now, was overtaken by the withdrawal, because
the check itself found the row active.

**Bridge.** A host's row only ever changes to revoked, so everything the host
arms is one secret `s` (`Armed`): the row, the router's hands, the session keys,
every `enable_mac` on its way, and every tag on a frame to the client are `s`, or
there is none. A client with a secret has a session key when the host
authenticates, and a frame whose tag it accepts with that key then shows that the
connection was armed with it, which `ConnectedMeansProven` asks for. For the
other setups it asks for nothing.

**Connection.** `MessagesAreWhole`: whatever a stream has buffered was sent on it
(`Owned`), and a complete buffer has `total` fragments of `total` possible ones.
On a stream that is not mixed the buffer holds exactly what was sent of the one
message under way, and is empty when none is (`Follows`), so a complete one is all
of that message. `TypeCorrect` includes that the running total of a buffer is the
number of bytes it holds. The bytes of a buffer are a set of pairs of a fragment
and a place in it, so that a fragment which comes again takes the place of its own
former bytes and of no others (`InsertCounts`); `Counted` carries that the sets
are finite, without which a count means nothing. The count and the limit hold each
other up (`BoundInv`): a subtraction that wraps is undone by the addition because
the bytes are within `MaxPayload`, less than half of `UsizeSpan` (`WrapsBack`),
and the limit is checked on what was counted. `BuffersBounded` needs besides that
discarding late streams opens none (`PruneShrinks`) and that one fragment opens at
most one.

Only model-checked: the ten liveness properties (`DisconnectFreesId`,
`EveryRequestAnswered`, `DepartureEndsRequests`, `ExitHandled`, `CallResolved`,
`GateOpens`, `EventSettles`, `WithdrawnCloses`, `GoodConnects`,
`GoneIsCleanedUp`). Fairness and `ENABLED` are beyond the prover. Every safety
property of a passing run is stated by a theorem.

## 5. Behaviour the models show that no property promises

Registry and routing:

* two colliding declarers that leave at the same time can leave an index row
  that names nobody (`registry.rs:754`): the task that removes `p` remembers
  that `q` is left, the task that removes `q` passes, and the first one then
  inserts `q`;
* mux calls are keyed by the callers' own ids (`router.rs:1438`): two callers
  with the same id share a slot, and the first is forgotten;
* a relayed request may be answered by the bridge's removal and again because
  the send failed (`router.rs:1308`);
* an abort may precede the acceptance of a session, which is marked in the map
  before it is forwarded (`registry.rs:816`).

Processes and calls:

* two starts of one plugin at once both pass the check of `spawn_internal`;
* a shim whose handshake times out is left running, with its scope;
* a scope that cannot be removed stays: after ten tries of `rmdir`, 50 ms apart,
  the wait task publishes the exit all the same (`spawn.rs:375-387`), and a
  failed spawn tries once (`spawn.rs:219-229`), also when the shim has forked a
  plugin that is still being killed (`spawn.rs:257-266`). The next spawn of the id
  uses the scope again;
* the shutdown aborts tasks, so a process spawned at that moment may survive;
* the idle sweep may stop a plugin that was just sent a call (`lazy.rs:401`):
  the call ends with its timeout. `NotOvertaken` is promised only while the
  plugin neither exits nor is swept and no allowance goes stale;
* with a cycle anywhere in the configuration, the other plugins are loaded in
  the order of the file, not of their requirements (`loader.rs:167`), and a
  plugin whose requirement was refused or failed to start is loaded all the
  same.

Events:

* with `event_max_retries = n` an event that nobody acknowledges goes out
  `n + 1` times (`bus.rs:209`): the first delivery is not counted, and the row
  that the last count has marked dead is redelivered once more, whereas
  `config.rs:311` and `config.yaml:119` speak of the "max delivery attempts".
  With `n = 0` there is still one retry. `RetriesBounded` states what the code
  keeps to;
* the errors of both UPDATEs are dropped (`store.rs:140-150`): as long as the
  count cannot be written, a pending event goes out again with every round of the
  worker, and no limit ends that. `RetriesBounded` adds those rounds, and
  `EventSettles` holds because the model has finitely many of them;
* the loader subscribes a plugin after it was started (`loader.rs:230`). If the
  plugin has registered and unsubscribes, and the loader's two writes fall between
  the two of `unsubscribe`, the plugin stays in the subscriptions of the type and
  `unsubscribe_all` does not find it (`crossed`); a later `subscribe` mends it;
* one acknowledgement ends the retries for all subscribers; a row acknowledged
  between the worker's scan and its count may still become dead;
* `unsubscribe_all` does not compare connections, so a late clean-up may take
  the subscriptions of a plugin's new connection; `PluginManager::stop` leaves
  them behind.

Devices and the bridge:

* `vyn device` and the kernel share no lock (`device_store.rs:75` says so): a
  revocation written while the kernel issues a credential can be lost;
* the router reads a device's row (`router.rs:436`), may then await the eviction of
  a stale entry, and registers and acknowledges the device (`router.rs:506-591`): a
  revocation that returns in between does not keep the session from opening
  (`overtaken`); the recheck ends it;
* a removed device passes the upgrade, unwatched, and is refused at its
  registration; rotation leaves an old session in place;
* a frame pushed between the acknowledgement and the switch to tags is untagged:
  the client takes it for a failure of authentication and comes back;
* without a secret in the client's configuration, or a nonce in the host's
  acknowledgement, there is no session key (`bridge/mod.rs:393-400`), and the first
  frame of any kind makes the status Connected. The tests at
  `bridge/mod.rs:1139-1153` and `1292-1317` expect this;
* a half-open former connection makes the host reject the client until it
  notices. `handle_socket` (`websocket.rs:193-314`) bounds no read and sends no
  pings, so for an idle connection that may be never: the last two
  alternatives of `GoodConnects`.

Connections:

* after a reassembly timeout the rest of a message may join the next one on its
  stream; and a fragment that is repeated after its message was complete opens a
  new buffer (`connection.rs:260`) and joins the next message of the stream;
* a fragment sent again with fewer bytes takes `connection.rs:289` below zero. A
  release build wraps and comes out right; a build with overflow checks panics, the
  disconnect is not signalled, and `server.rs:100-103` does not give the slot back;
* the router waits for a stalled peer when it sends `EnableMac`.

## 6. Not modelled

Kernel commands and listings only read. Permissions, tokens, versions, rate
limits and the error budget appear as a refusal or a dropped frame that may
happen at any time. Broadcast and the plain hand-over of `forward()` look up
and send once. Parsing of configuration and manifests, seccomp and Landlock
filters, TLS, logging, metrics, embedding and the rest of the command line are
input, output or system calls. The byte layout of frames, checksums and
cryptography are abstracted to what they distinguish. Locks are rows, not
shards of a map, so lock order between shards is not covered. The bridge's
failure to register itself locally, and ids that two kernel events share, are
left out.

## 7. Plan

1. `Registry`, `ActionRouting`, `Supervisor`, `LazyWake`, `Loader`, `Events`,
   `Pairing` with `TicketLife`, `Bridge`, `Connection`: modelled and checked.
2. Proofs: section 4 has every safety property of the passing runs. The liveness
   properties stay with TLC.
