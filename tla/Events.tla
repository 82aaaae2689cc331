------------------------------- MODULE Events -------------------------------
(***************************************************************************)
(* Event delivery (events/bus.rs, events/store.rs, the event arms of the   *)
(* router, the disconnect loops, the loader): one event type, its          *)
(* subscribers, the outbox in SQLite and the retry worker. Publishers, the *)
(* router, the two disconnect loops, the boot task and the worker run      *)
(* concurrently, a statement on the database may fail, and the kernel may  *)
(* crash and start again with nothing but the outbox.                      *)
(***************************************************************************)
EXTENDS Integers, Sequences, FiniteSets, SequencesExt

CONSTANTS
    Plugins,    \* ids of subscribers
    MaxEvents,  \* bound: events published
    max_retries,
    ChanCap,    \* capacity of a connection's write channel
    MaxRegs,    \* bound: registrations
    MaxFaults,  \* bound: crashes of the kernel and failed statements of the store
    None

EventIds == 1..MaxEvents
Loops == {"uds", "ws"} \* the disconnect loops of the two transports
Writers == {"router", "boot"} \cup Loops

ASSUME EventsAssumption ==
    /\ {MaxEvents, max_retries, MaxRegs, MaxFaults} \subseteq Nat
    /\ ChanCap \in Nat \ {0}
    /\ IsFiniteSet(Plugins) /\ None \notin Plugins

VARIABLES
    subscriptions, \* plugins in the event type's set
    by_plugin,     \* plugins whose own set has the event type
    conn,          \* plugin -> its registration, 0 for none
    dead,          \* plugins whose registered connection is closed
    chan,          \* plugin -> events in the write channel of its connection
    writer,        \* task -> the bus operation it is in: [pc, id]
    to_load,       \* plugins whose manifest the loader has yet to subscribe
    status,        \* event -> its row in the store: "none" before, "pruned" after
    retry_count,   \* event -> retry_count of its row
    aged,          \* events created more than 10 s ago
    publish,       \* event -> where its publisher is
    worker,        \* the retry worker: [pc, batch, out]
    regs,          \* number of registrations so far
    faults,        \* number of crashes and failed statements so far
    got,           \* history: plugin -> events it has received
    sends,         \* history: event -> rounds of delivery
    uncounted,     \* history: event -> rounds the store failed to count
    unmarked,      \* history: event -> rounds the store failed to mark it dead
    crossed        \* history: plugins the loader began to subscribe between the two
                   \* writes of their unsubscribe, and that have not subscribed since

bus == <<subscriptions, by_plugin>>
links == <<conn, dead, chan>>
store == <<status, retry_count, aged>>
bounds == <<regs, faults>>
missed == <<uncounted, unmarked>>
history == <<got, sends, missed, crossed>>
vars == <<bus, links, writer, to_load, store, publish, worker, bounds, history>>

AtRest == [pc |-> "idle", id |-> None]
WorkerIdle == [pc |-> "sleep", batch |-> <<>>, out |-> <<>>]

Init ==
    /\ subscriptions = {} /\ by_plugin = {}
    /\ conn = [p \in Plugins |-> 0] /\ dead = {}
    /\ chan = [p \in Plugins |-> <<>>]
    /\ writer = [t \in Writers |-> AtRest] /\ to_load = Plugins
    /\ status = [e \in EventIds |-> "none"]
    /\ retry_count = [e \in EventIds |-> 0]
    /\ aged = {}
    /\ publish = [e \in EventIds |-> "new"]
    /\ worker = WorkerIdle
    /\ regs = 0 /\ faults = 0
    /\ got = [p \in Plugins |-> {}]
    /\ sends = [e \in EventIds |-> 0]
    /\ uncounted = sends /\ unmarked = sends /\ crossed = {}

-----------------------------------------------------------------------------
(* Connections and subscriptions. The two maps of the bus have a lock each:*)
(* every operation is two writes, and other tasks run between them.        *)

Fault == faults < MaxFaults /\ faults' = faults + 1

At(t, pc, p) == writer[t].pc = pc /\ writer[t].id = p
Go(t, pc, p) == writer' = [writer EXCEPT ![t] = [pc |-> pc, id |-> p]]
Done(t) == writer' = [writer EXCEPT ![t] = AtRest]

\* The router registers an id that is free, or that it has just evicted.
Register(p) ==
    /\ writer["router"] = AtRest \/ At("router", "register", p)
    /\ conn[p] = 0 /\ regs < MaxRegs
    /\ regs' = regs + 1
    /\ conn' = [conn EXCEPT ![p] = regs']
    /\ Done("router")
    /\ UNCHANGED <<bus, dead, chan, to_load, store, publish, worker, faults, history>>

SubscribeWrite_reversed(k, p) ==
    IF k = 1 THEN by_plugin' = by_plugin \cup {p} /\ UNCHANGED subscriptions
             ELSE subscriptions' = subscriptions \cup {p} /\ UNCHANGED by_plugin

\* subscribe writes the set of the event type first, then that of the plugin.
SubscribeWrite(k, p) ==
    IF k = 1 THEN subscriptions' = subscriptions \cup {p} /\ UNCHANGED by_plugin
             ELSE by_plugin' = by_plugin \cup {p} /\ UNCHANGED subscriptions

\* The router's subscribe, of the plugin of a connection ...
Subscribe(p) ==
    /\ writer["router"] = AtRest /\ conn[p] # 0
    /\ SubscribeWrite(1, p)
    /\ Go("router", "subscribe", p)
    /\ UNCHANGED <<links, to_load, store, publish, worker, bounds, history>>

\* ... and the loader's, of a plugin it has spawned, which may have registered,
\* subscribed and gone again by then, or not yet.
LoaderSubscribe(p) ==
    /\ writer["boot"] = AtRest /\ p \in to_load
    /\ to_load' = to_load \ {p}
    /\ SubscribeWrite(1, p)
    /\ Go("boot", "subscribe", p)
    /\ crossed' = IF At("router", "unsubscribe", p) THEN crossed \cup {p} ELSE crossed
    /\ UNCHANGED <<links, store, publish, worker, bounds, got, sends, missed>>

Subscribed(t) ==
    /\ writer[t].pc = "subscribe"
    /\ SubscribeWrite(2, writer[t].id)
    /\ Done(t)
    /\ crossed' = IF t = "router" THEN crossed \ {writer[t].id} ELSE crossed
    /\ UNCHANGED <<links, to_load, store, publish, worker, bounds, got, sends, missed>>

Unsubscribe(p) ==
    /\ writer["router"] = AtRest /\ conn[p] # 0
    /\ subscriptions' = subscriptions \ {p}
    /\ Go("router", "unsubscribe", p)
    /\ UNCHANGED <<by_plugin, links, to_load, store, publish, worker, bounds, history>>

Unsubscribed ==
    /\ writer["router"].pc = "unsubscribe"
    /\ by_plugin' = by_plugin \ {writer["router"].id}
    /\ Done("router")
    /\ UNCHANGED <<subscriptions, links, to_load, store, publish, worker, bounds, history>>

\* The connection closes; its registration stays until a loop or the router
\* finds it.
Close(p) ==
    /\ conn[p] # 0 /\ p \notin dead
    /\ dead' = dead \cup {p}
    /\ chan' = [chan EXCEPT ![p] = <<>>]
    /\ UNCHANGED <<bus, conn, writer, to_load, store, publish, worker, bounds, history>>

\* A disconnect loop frees the id at once and unsubscribes it afterwards ...
Disconnect(t, p) ==
    /\ writer[t] = AtRest /\ p \in dead
    /\ conn' = [conn EXCEPT ![p] = 0] /\ dead' = dead \ {p}
    /\ Go(t, "take", p)
    /\ UNCHANGED <<bus, chan, to_load, store, publish, worker, bounds, history>>

\* ... and so does the router, before it registers the id for a new connection.
Evict(p) == Disconnect("router", p) /\ regs < MaxRegs

\* What a task does after its unsubscribe_all.
AfterClear(t) == IF t = "router" THEN Go(t, "register", writer[t].id) ELSE Done(t)

\* unsubscribe_all takes the plugin's set, and then clears it from every type.
UnsubscribeTake(t) ==
    /\ writer[t].pc = "take"
    /\ IF writer[t].id \in by_plugin THEN Go(t, "clear", writer[t].id) ELSE AfterClear(t)
    /\ by_plugin' = by_plugin \ {writer[t].id}
    /\ UNCHANGED <<subscriptions, links, to_load, store, publish, worker, bounds, history>>

UnsubscribeClear(t) ==
    /\ writer[t].pc = "clear"
    /\ subscriptions' = subscriptions \ {writer[t].id}
    /\ AfterClear(t)
    /\ UNCHANGED <<by_plugin, links, to_load, store, publish, worker, bounds, history>>

\* PluginManager::stop unregisters; the disconnect loop then finds nothing to
\* do, and the subscriptions stay.
Stopped(p) ==
    /\ conn[p] # 0
    /\ conn' = [conn EXCEPT ![p] = 0] /\ dead' = dead \ {p}
    /\ chan' = [chan EXCEPT ![p] = <<>>]
    /\ UNCHANGED <<bus, writer, to_load, store, publish, worker, bounds, history>>

-----------------------------------------------------------------------------
(* Publishing. Errors of the store are logged or dropped, never returned: a *)
(* statement that fails changes nothing, and its caller goes on.            *)


\* deliver: one try_send to every subscriber; a full channel, or a subscriber
\* that is not registered, loses the event.
Deliver(e) ==
    LET reached == {p \in subscriptions : conn[p] # 0 /\ p \notin dead /\ Len(chan[p]) < ChanCap} IN
    /\ chan' = [p \in Plugins |-> IF p \in reached THEN Append(chan[p], e) ELSE chan[p]]
    /\ sends' = [sends EXCEPT ![e] = @ + 1]

\* A permitted EventPublish, or an event of the kernel itself; ids are unique.
Publish(e) ==
    /\ publish[e] = "new" /\ \A f \in EventIds : f < e => publish[f] # "new"
    /\ publish' = [publish EXCEPT ![e] = "persist"]
    /\ UNCHANGED <<bus, links, writer, to_load, store, worker, bounds, history>>

\* The row is written before anything is sent.
Persist(e) ==
    /\ publish[e] = "persist"
    /\ \/ status' = [status EXCEPT ![e] = IF @ = "none" THEN "pending" ELSE @] /\ UNCHANGED faults
       \/ Fault /\ UNCHANGED status
    /\ publish' = [publish EXCEPT ![e] = "deliver"]
    /\ UNCHANGED <<bus, links, writer, to_load, retry_count, aged, worker, regs, history>>

PublishDeliver(e) ==
    /\ publish[e] = "deliver"
    /\ Deliver(e)
    /\ publish' = [publish EXCEPT ![e] = "done"]
    /\ UNCHANGED <<bus, conn, dead, writer, to_load, store, worker, bounds, got, missed, crossed>>

\* The connection's write loop.
Receive(p) ==
    /\ chan[p] # <<>>
    /\ got' = [got EXCEPT ![p] = @ \cup {Head(chan[p])}]
    /\ chan' = [chan EXCEPT ![p] = Tail(@)]
    /\ UNCHANGED <<bus, conn, dead, writer, to_load, store, publish, worker, bounds, sends,
                   missed, crossed>>

\* The row, if there is one, whatever it says. An error is as good as no ack.
mark_delivered(e) ==
    status' = [status EXCEPT ![e] = IF @ \in {"none", "pruned"} THEN @ ELSE "delivered"]

\* The EventAck of a plugin that has received e, and may have gone since.
EventAck(p, e) ==
    /\ e \in got[p]
    /\ mark_delivered(e)
    /\ UNCHANGED <<bus, links, writer, to_load, retry_count, aged, publish, worker, bounds,
                   history>>

-----------------------------------------------------------------------------
(* run_retry_worker.                                                       *)

Age(e) ==
    /\ status[e] # "none" /\ e \notin aged
    /\ aged' = aged \cup {e}
    /\ UNCHANGED <<bus, links, writer, to_load, status, retry_count, publish, worker, bounds,
                   history>>

pending_older_than_below ==
    {e \in aged : status[e] = "pending" /\ retry_count[e] < max_retries - 1}

pending_older_than == {e \in aged : status[e] = "pending"}

\* One blocking task reads the batch, in whatever order the query returns; a row
\* that cannot be read, or the whole query, may fail ...
WorkerScan ==
    /\ worker.pc = "sleep"
    /\ \E unread \in SUBSET pending_older_than :
         /\ IF unread = {} THEN UNCHANGED faults ELSE Fault
         /\ \E batch \in SetToSeqs(pending_older_than \ unread) :
              worker' = [pc |-> "bump", batch |-> batch, out |-> <<>>]
    /\ UNCHANGED <<bus, links, writer, to_load, store, publish, regs, history>>

increment_retry_or_dead_late(e, counted, marked) ==
    /\ retry_count' = [retry_count EXCEPT ![e] = IF counted THEN @ + 1 ELSE @]
    /\ status' = [status EXCEPT ![e] =
         IF marked /\ retry_count[e] >= max_retries THEN "dead" ELSE @]

\* Two UPDATEs under one lock, each of which may fail: one counts, the other
\* marks the row dead, also one that has been marked delivered since the scan.
increment_retry_or_dead(e, counted, marked) ==
    /\ retry_count' = [retry_count EXCEPT ![e] = IF counted THEN @ + 1 ELSE @]
    /\ status' = [status EXCEPT ![e] =
         IF marked /\ retry_count'[e] >= max_retries THEN "dead" ELSE @]

\* ... counts every event of it ...
WorkerBump ==
    /\ worker.pc = "bump" /\ worker.batch # <<>>
    /\ LET e == Head(worker.batch) IN
       \E counted, marked \in BOOLEAN :
         /\ IF counted /\ marked THEN UNCHANGED faults ELSE Fault
         /\ increment_retry_or_dead(e, counted, marked)
         /\ uncounted' = IF counted THEN uncounted ELSE [uncounted EXCEPT ![e] = @ + 1]
         /\ unmarked' = IF counted /\ ~marked /\ retry_count'[e] >= max_retries
                        THEN [unmarked EXCEPT ![e] = @ + 1] ELSE unmarked
    /\ worker' = [worker EXCEPT !.batch = Tail(@), !.out = Append(@, Head(worker.batch))]
    /\ UNCHANGED <<bus, links, writer, to_load, aged, publish, regs, got, sends, crossed>>

\* Rows that prune may delete: terminal and past their retention.
Prunable == {e \in aged : status[e] \in {"delivered", "dead"}}

\* ... and prunes; how many rows are past their retention is up to the clock, and
\* a DELETE that fails takes none.
WorkerPrune ==
    /\ worker.pc = "bump" /\ worker.batch = <<>>
    /\ \E old \in SUBSET Prunable :
         status' = [e \in EventIds |-> IF e \in old THEN "pruned" ELSE status[e]]
    /\ worker' = [worker EXCEPT !.pc = "redeliver"]
    /\ UNCHANGED <<bus, links, writer, to_load, retry_count, aged, publish, bounds, history>>

\* Back on the runtime, the batch is delivered again.
WorkerRedeliver ==
    /\ worker.pc = "redeliver" /\ worker.out # <<>>
    /\ Deliver(Head(worker.out))
    /\ worker' = [worker EXCEPT !.out = Tail(@)]
    /\ UNCHANGED <<bus, conn, dead, writer, to_load, store, publish, bounds, got, missed, crossed>>

WorkerSleep ==
    /\ worker.pc = "redeliver" /\ worker.out = <<>>
    /\ worker' = WorkerIdle
    /\ UNCHANGED <<bus, links, writer, to_load, store, publish, bounds, history>>

Worker == WorkerScan \/ WorkerBump \/ WorkerPrune \/ WorkerRedeliver \/ WorkerSleep

-----------------------------------------------------------------------------
\* The kernel crashes, or shuts down, and starts again: the rows are left.
Crash ==
    /\ Fault
    /\ subscriptions' = {} /\ by_plugin' = {}
    /\ conn' = [p \in Plugins |-> 0] /\ dead' = {}
    /\ chan' = [p \in Plugins |-> <<>>]
    /\ writer' = [t \in Writers |-> AtRest] /\ to_load' = Plugins
    /\ publish' = [e \in EventIds |-> IF publish[e] = "new" THEN "new" ELSE "done"]
    /\ worker' = WorkerIdle
    /\ crossed' = {}
    /\ UNCHANGED <<store, regs, got, sends, missed>>

Publishing(e) == Persist(e) \/ PublishDeliver(e)
BusStep(t) == Subscribed(t) \/ UnsubscribeTake(t) \/ UnsubscribeClear(t)

\* With nothing left to publish the kernel may be idle for ever.
Quiet ==
    /\ \A e \in EventIds : publish[e] = "done"
    /\ UNCHANGED vars

Next ==
    \/ \E p \in Plugins : Register(p) \/ Subscribe(p) \/ LoaderSubscribe(p) \/ Unsubscribe(p)
                          \/ Close(p) \/ Evict(p) \/ Stopped(p) \/ Receive(p)
    \/ \E p \in Plugins, t \in Loops : Disconnect(t, p)
    \/ \E p \in Plugins, e \in EventIds : EventAck(p, e)
    \/ \E e \in EventIds : Publish(e) \/ Publishing(e) \/ Age(e)
    \/ \E t \in Writers : BusStep(t)
    \/ Unsubscribed \/ Worker \/ Crash \/ Quiet

\* The retry worker runs and time passes; nothing else has to happen.
Fairness == WF_vars(Worker) /\ \A e \in EventIds : WF_vars(Age(e))

Spec == Init /\ [][Next]_vars /\ Fairness

-----------------------------------------------------------------------------
\* An event goes out once, and once for every round of the worker in which it is
\* still pending, whatever crash comes between the count and the delivery. The
\* count kills when it reaches max_retries, so that many rounds of retries, and
\* with max_retries = 0 still one; and one more for every round whose UPDATE the
\* store failed to make.
RetriesBounded ==
    \A e \in EventIds : sends[e] <= 1 + Max({1, max_retries}) + uncounted[e] + unmarked[e]

\* A subscription that unsubscribe_all would not find is one nobody can remove:
\* there is none, except while a subscribe or unsubscribe_all is between its two
\* writes, even if an old connection is cleaned up while a new one subscribes and
\* the loader subscribes it too. Only the loader's subscribe, when it begins
\* between the two writes of an unsubscribe, leaves one behind.
NoOrphanSubscription ==
    \A p \in subscriptions \ by_plugin :
      (\E t \in Writers : At(t, "subscribe", p) \/ At(t, "clear", p)) \/ p \in crossed

\* The worker brings every stored event to an end, over crashes and restarts and
\* the failed statements, of which there are finitely many.
EventSettles ==
    \A e \in EventIds : (status[e] = "pending") ~> (status[e] \in {"delivered", "dead", "pruned"})

=============================================================================
