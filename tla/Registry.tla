------------------------------ MODULE Registry ------------------------------
(***************************************************************************)
(* The plugin registry of the kernel and every task that writes to it:     *)
(* the router (PluginRegister, Pong), the two disconnect loops, the        *)
(* callers of PluginManager::stop and the bridge.  Each DashMap operation  *)
(* of register_with_device and unregister_if is one step, because the maps *)
(* are locked one row at a time and nothing orders two tasks across maps.  *)
(***************************************************************************)
EXTENDS Naturals, Sequences

CONSTANTS
    Plugins,      \* plugin ids that may be claimed
    Conns,        \* connection ids; only the bridge's is used again
    Actions,      \* action names plugins declare
    Devices,      \* device ids
    None,         \* an absent map row
    Manifest,     \* Conns -> actions declared by the registration it sends
    DeviceOf,     \* Conns -> device its registration names
    Router,       \* the router task
    DiscLoops,    \* the disconnect loops (one for UDS, one for WebSocket)
    LoopOf,       \* Conns -> the disconnect loop its teardown signals
    Stoppers,     \* tasks that call PluginManager::stop
    Bridges,      \* bridge tasks, which register without going through Router
    BridgeConns,  \* connection ids reserved for the bridges
    Serial,       \* TRUE: at most one registry operation is in progress
    InboxCap,     \* capacity of the router's inbox
    MaxSends,     \* bound: frames a connection sends
    MaxStops      \* bound: calls of PluginManager::stop

Threads == {Router} \cup DiscLoops \cup Stoppers \cup Bridges

ASSUME ConstantsAssumption ==
    /\ None \notin Plugins \cup Conns \cup Actions
    /\ Manifest \in [Conns -> SUBSET Actions]
    /\ DeviceOf \in [Conns -> Devices]
    /\ LoopOf \in [Conns -> DiscLoops]
    /\ Router \notin DiscLoops \cup Stoppers \cup Bridges
    /\ DiscLoops \cap (Stoppers \cup Bridges) = {}
    /\ Stoppers \cap Bridges = {}
    /\ BridgeConns \subseteq Conns
    /\ Serial \in BOOLEAN
    /\ InboxCap \in Nat
    /\ MaxSends \in Nat
    /\ MaxStops \in Nat

\* An absent row is neither a set of providers nor a state of a device.
ASSUME NoneAssumption == (\A S \in SUBSET Plugins : S # None) /\ None # "online"

\* The bridge's entry declares no actions (bridge/mod.rs, local_manifest).
ASSUME BridgeAssumption == \A c \in BridgeConns : Manifest[c] = {}

VARIABLES
    conn,               \* new, open, closed (write channel closed), signalled
    sent,               \* frames each connection has sent
    stops,              \* calls of stop so far
    frames,             \* the router's inbox
    disc,               \* the disconnect loops' inboxes
    ack,                \* result of the last registration of each connection
    by_plugin_id,       \* plugin id -> connection of its entry
    by_conn_id,         \* connection -> plugin id
    pong_times,         \* plugin ids with a pong row
    devices,            \* device -> None, online or offline
    action_index,       \* action -> its only provider
    ambiguous_actions,  \* action -> its colliding providers
    pc,                 \* where each task is inside its operation
    pid,                \* the plugin id a task is working on
    cid,                \* the connection a task is working for
    gone,               \* connection of the entry a task has removed
    saw,                \* live entry the router found before registering
    todo,               \* declared actions still to be indexed or unindexed
    cur,                \* the action being indexed or unindexed
    only,               \* the other provider of cur
    unseen              \* ids the device scan has still to visit

clients == <<conn, sent, stops, frames, disc>>
owners  == <<by_plugin_id, by_conn_id>>
indexes == <<action_index, ambiguous_actions>>
maps    == <<owners, indexes, pong_times, devices>>
scratch == <<gone, todo, cur, only, unseen>>
locals  == <<pid, cid, saw, scratch>>
vars    == <<clients, maps, locals, pc, ack>>

-----------------------------------------------------------------------------
RegisterPcs == {"index", "index_entry", "index_evacuate", "device", "commit"}

UnregisterPcs == {"unconn", "unpong", "unindex", "promote", "promote_put",
                  "unindex_get", "unindex_del", "scan"}

Pcs == RegisterPcs \cup UnregisterPcs
         \cup {"idle", "remove", "reserve", "pong_put", "pong_device",
               "up", "hangup"}

Frame == [kind : {"register"}, conn : Conns, plugin : Plugins]
           \cup [kind : {"pong"}, conn : Conns, plugin : {None}]

\* A task that waits for its next input.
AtRest(t) == pc[t] \in {"idle", "up"}

\* With Serial, an operation starts only when no other is under way.
CanStart(t) == Serial => \A u \in Threads : AtRest(u)

\* write_tx.is_closed(): the receiver is gone once the write loop has ended.
is_closed(c) == conn[c] \in {"closed", "signalled"}

\* register() owns the by_plugin_id row of its id, as a vacant entry, from
\* the reservation to the final insert; other accesses to that row wait.
SlotHeld(p) == \E t \in Threads : pc[t] \in RegisterPcs /\ pid[t] = p

Goto(t, l) == pc' = [pc EXCEPT ![t] = l]

\* Task t returns to location l; an idle task has no locals.
Return(t, l) ==
    /\ Goto(t, l)
    /\ gone' = [gone EXCEPT ![t] = None]
    /\ cur' = [cur EXCEPT ![t] = None]
    /\ only' = [only EXCEPT ![t] = None]
    /\ unseen' = [unseen EXCEPT ![t] = {}]
    /\ pid' = IF l = "idle" THEN [pid EXCEPT ![t] = None] ELSE pid
    /\ cid' = IF l = "idle" THEN [cid EXCEPT ![t] = None] ELSE cid
    /\ saw' = IF l = "idle" THEN [saw EXCEPT ![t] = None] ELSE saw
    /\ UNCHANGED todo

\* Where a task goes when unregister_if returns.
AfterUnregister(t) == IF t = Router THEN "reserve"
                      ELSE IF t \in Bridges THEN "hangup"
                      ELSE "idle"

-----------------------------------------------------------------------------
(* Connections: accepted by the servers, they send frames to the router's  *)
(* inbox; teardown first closes the write channel and then signals.        *)

Accept(c) ==
    /\ c \notin BridgeConns
    /\ conn[c] = "new"
    /\ conn' = [conn EXCEPT ![c] = "open"]
    /\ UNCHANGED <<sent, stops, frames, disc, maps, locals, pc, ack>>

Send(c, f) ==
    /\ c \notin BridgeConns
    /\ conn[c] = "open"
    /\ sent[c] < MaxSends
    /\ Len(frames) < InboxCap
    /\ sent' = [sent EXCEPT ![c] = @ + 1]
    /\ frames' = Append(frames, f)
    /\ UNCHANGED <<conn, stops, disc, maps, locals, pc, ack>>

SendRegister(c, p) ==
    Send(c, [kind |-> "register", conn |-> c, plugin |-> p])

SendPong(c) == Send(c, [kind |-> "pong", conn |-> c, plugin |-> None])

\* The bridge's write loop, running while the bridge is up, may end too.
Close(c) ==
    /\ c \in BridgeConns => \E t \in Bridges : pc[t] = "up" /\ cid[t] = c
    /\ conn[c] = "open"
    /\ conn' = [conn EXCEPT ![c] = "closed"]
    /\ UNCHANGED <<sent, stops, frames, disc, maps, locals, pc, ack>>

SignalDisconnect(c) ==
    /\ c \notin BridgeConns
    /\ conn[c] = "closed"
    /\ conn' = [conn EXCEPT ![c] = "signalled"]
    /\ disc' = [disc EXCEPT ![LoopOf[c]] = Append(@, c)]
    /\ UNCHANGED <<sent, stops, frames, maps, locals, pc, ack>>

-----------------------------------------------------------------------------
(* What starts an operation.                                               *)

NextFrame(k) ==
    /\ pc[Router] = "idle"
    /\ CanStart(Router)
    /\ frames # <<>>
    /\ Head(frames).kind = k
    /\ frames' = Tail(frames)
    /\ UNCHANGED <<conn, sent, stops, disc>>

\* PluginRegister refused before the registry is touched: protocol version,
\* token, device credential or an id that does not validate.
RouterRefuse ==
    /\ NextFrame("register")
    /\ ack' = [ack EXCEPT ![Head(frames).conn] = "rejected"]
    /\ UNCHANGED <<maps, locals, pc>>

\* Mutant: the dead holder is not evicted.
RouterRegister_no_evict ==
    /\ NextFrame("register")
    /\ LET f == Head(frames)
           holder == by_plugin_id[f.plugin]
       IN  /\ ~SlotHeld(f.plugin)
           /\ pid' = [pid EXCEPT ![Router] = f.plugin]
           /\ cid' = [cid EXCEPT ![Router] = f.conn]
           /\ saw' = [saw EXCEPT ![Router] =
                        IF holder # None /\ is_closed(holder) THEN None ELSE holder]
           /\ Goto(Router, "reserve")
    /\ UNCHANGED <<maps, scratch, ack>>

\* PluginRegister: look at the current holder and evict it if it is dead.
RouterRegister ==
    /\ NextFrame("register")
    /\ LET f == Head(frames)
           holder == by_plugin_id[f.plugin]
           dead == holder # None /\ is_closed(holder)
       IN  /\ ~SlotHeld(f.plugin)
           /\ pid' = [pid EXCEPT ![Router] = f.plugin]
           /\ cid' = [cid EXCEPT ![Router] = f.conn]
           /\ saw' = [saw EXCEPT ![Router] = IF dead THEN None ELSE holder]
           /\ Goto(Router, IF dead THEN "remove" ELSE "reserve")
    /\ UNCHANGED <<maps, scratch, ack>>

\* get_by_conn_id(c): the entry of the id that c maps to; the entry's own
\* connection is not compared with c.
get_by_conn_id(c) ==
    IF by_conn_id[c] = None THEN None ELSE by_plugin_id[by_conn_id[c]]

LookupReady(c) == by_conn_id[c] # None => ~SlotHeld(by_conn_id[c])

\* A frame that has no effect: over the rate limit, from a connection that has
\* used up its error budget, or a Pong from one that has no entry.
RouterDrop ==
    /\ \E k \in {"register", "pong"} : NextFrame(k)
    /\ UNCHANGED <<maps, locals, pc, ack>>

\* Mutant: a pong is recorded without the registration check.
RouterPong_unchecked ==
    /\ NextFrame("pong")
    /\ pid' = [pid EXCEPT ![Router] = by_conn_id[Head(frames).conn]]
    /\ Goto(Router, "pong_put")
    /\ UNCHANGED <<maps, cid, scratch, saw, ack>>

RouterPong ==
    /\ NextFrame("pong")
    /\ LookupReady(Head(frames).conn)
    /\ get_by_conn_id(Head(frames).conn) # None
    /\ pid' = [pid EXCEPT ![Router] = by_conn_id[Head(frames).conn]]
    /\ Goto(Router, "pong_put")
    /\ UNCHANGED <<maps, cid, scratch, saw, ack>>

RecordPong ==
    /\ pc[Router] = "pong_put"
    /\ pong_times' = pong_times \cup {pid[Router]}
    /\ Goto(Router, "pong_device")
    /\ UNCHANGED <<clients, owners, devices, indexes, locals, ack>>

\* The by_plugin_id guard is held while the device row is written.
RecordPongDevice ==
    /\ pc[Router] = "pong_device"
    /\ ~SlotHeld(pid[Router])
    /\ LET c == by_plugin_id[pid[Router]]
       IN  devices' = IF c = None THEN devices
                      ELSE [devices EXCEPT ![DeviceOf[c]] = "online"]
    /\ Return(Router, "idle")
    /\ UNCHANGED <<clients, owners, pong_times, indexes, ack>>

NextDisc(d) ==
    /\ pc[d] = "idle"
    /\ CanStart(d)
    /\ disc[d] # <<>>
    /\ LookupReady(Head(disc[d]))
    /\ disc' = [disc EXCEPT ![d] = Tail(@)]
    /\ UNCHANGED <<conn, sent, stops, frames>>

DiscMiss(d) ==
    /\ NextDisc(d)
    /\ get_by_conn_id(Head(disc[d])) = None
    /\ UNCHANGED <<maps, locals, pc, ack>>

DiscHit(d) ==
    /\ NextDisc(d)
    /\ get_by_conn_id(Head(disc[d])) # None
    /\ cid' = [cid EXCEPT ![d] = Head(disc[d])]
    /\ pid' = [pid EXCEPT ![d] = by_conn_id[Head(disc[d])]]
    /\ Goto(d, "remove")
    /\ UNCHANGED <<maps, scratch, saw, ack>>

\* PluginManager::stop: once the process is stopped, always unregister.
Stop(t, p) ==
    /\ pc[t] = "idle"
    /\ CanStart(t)
    /\ stops < MaxStops
    /\ stops' = stops + 1
    /\ pid' = [pid EXCEPT ![t] = p]
    /\ Goto(t, "remove")
    /\ UNCHANGED <<conn, sent, frames, disc, maps, cid, scratch, saw, ack>>

\* The bridge registers its device once the host has accepted it, always
\* under the same connection id, and unregisters it, whoever holds it, when
\* the host link ends.
BridgeUp(t, c, p) ==
    /\ pc[t] = "idle"
    /\ CanStart(t)
    /\ conn[c] \in {"new", "closed"}
    /\ conn' = [conn EXCEPT ![c] = "open"]
    /\ pid' = [pid EXCEPT ![t] = p]
    /\ cid' = [cid EXCEPT ![t] = c]
    /\ Goto(t, "reserve")
    /\ UNCHANGED <<sent, stops, frames, disc, maps, scratch, saw, ack>>

BridgeDown(t) ==
    /\ pc[t] = "up"
    /\ CanStart(t)
    /\ Goto(t, "remove")
    /\ UNCHANGED <<clients, maps, locals, ack>>

BridgeHangup(t) ==
    /\ pc[t] = "hangup"
    /\ conn' = [conn EXCEPT ![cid[t]] = "closed"]
    /\ Return(t, "idle")
    /\ UNCHANGED <<sent, stops, frames, disc, maps, ack>>

-----------------------------------------------------------------------------
(* unregister_if, for every caller.                                        *)

\* Mutant: the disconnect loop removes whatever entry holds the id.
unregister_conn_any(t, c) == TRUE

\* The predicates of unregister_conn, unregister_if_dead and unregister.
unregister_conn_pred(t, c) == c = cid[t]

unregister_if_dead_pred(c) == is_closed(c)

Removable(t, c) ==
    /\ t \in DiscLoops => unregister_conn_pred(t, c)
    /\ t = Router => unregister_if_dead_pred(c)

RemoveMiss(t) ==
    /\ pc[t] = "remove"
    /\ ~SlotHeld(pid[t])
    /\ by_plugin_id[pid[t]] # None => ~Removable(t, by_plugin_id[pid[t]])
    /\ Return(t, AfterUnregister(t))
    /\ UNCHANGED <<clients, maps, ack>>

RemoveHit(t) ==
    /\ pc[t] = "remove"
    /\ ~SlotHeld(pid[t])
    /\ by_plugin_id[pid[t]] # None
    /\ Removable(t, by_plugin_id[pid[t]])
    /\ by_plugin_id' = [by_plugin_id EXCEPT ![pid[t]] = None]
    /\ gone' = [gone EXCEPT ![t] = by_plugin_id[pid[t]]]
    /\ todo' = [todo EXCEPT ![t] = Manifest[by_plugin_id[pid[t]]]]
    /\ Goto(t, "unconn")
    /\ UNCHANGED <<clients, by_conn_id, pong_times, devices, indexes, pid, cid,
                   saw, cur, only, unseen, ack>>

\* Mutant: the connection's mapping is left behind.
RemoveConn_skip(t) ==
    /\ pc[t] = "unconn"
    /\ Goto(t, "unpong")
    /\ UNCHANGED <<clients, maps, locals, ack>>

RemoveConn(t) ==
    /\ pc[t] = "unconn"
    /\ by_conn_id' = [by_conn_id EXCEPT ![gone[t]] = None]
    /\ Goto(t, "unpong")
    /\ UNCHANGED <<clients, by_plugin_id, pong_times, devices, indexes, locals,
                   ack>>

RemovePong(t) ==
    /\ pc[t] = "unpong"
    /\ pong_times' = pong_times \ {pid[t]}
    /\ Goto(t, "unindex")
    /\ UNCHANGED <<clients, owners, devices, indexes, locals, ack>>

\* unindex_action: drop the id from the action's collision row; when one
\* provider is left it is remembered for the promotion that follows.
UnindexRetain(t) ==
    /\ pc[t] = "unindex"
    /\ \E a \in todo[t] :
         LET row  == ambiguous_actions[a]
             rest == IF row = None THEN {} ELSE row \ {pid[t]}
         IN  /\ cur' = [cur EXCEPT ![t] = a]
             /\ todo' = [todo EXCEPT ![t] = @ \ {a}]
             /\ ambiguous_actions' = IF row = None THEN ambiguous_actions
                                     ELSE [ambiguous_actions EXCEPT ![a] = rest]
             /\ \/ \E q \in Plugins :
                     /\ rest = {q}
                     /\ only' = [only EXCEPT ![t] = q]
                     /\ Goto(t, "promote")
                \/ /\ \A q \in Plugins : rest # {q}
                   /\ Goto(t, "unindex_get")
                   /\ UNCHANGED only
    /\ UNCHANGED <<clients, owners, pong_times, devices, action_index, pid,
                   cid, gone, saw, unseen, ack>>

PromoteDropRow(t) ==
    /\ pc[t] = "promote"
    /\ ambiguous_actions' = [ambiguous_actions EXCEPT ![cur[t]] = None]
    /\ Goto(t, "promote_put")
    /\ UNCHANGED <<clients, owners, pong_times, devices, action_index, locals,
                   ack>>

\* Mutant: the remaining provider is not put back on the fast path.
PromotePut_skip(t) ==
    /\ pc[t] = "promote_put"
    /\ Goto(t, "unindex")
    /\ UNCHANGED <<clients, maps, locals, ack>>

PromotePut(t) ==
    /\ pc[t] = "promote_put"
    /\ action_index' = [action_index EXCEPT ![cur[t]] = only[t]]
    /\ Goto(t, "unindex")
    /\ UNCHANGED <<clients, owners, pong_times, devices, ambiguous_actions,
                   locals, ack>>

UnindexGet(t) ==
    /\ pc[t] = "unindex_get"
    /\ Goto(t, IF action_index[cur[t]] = pid[t] THEN "unindex_del"
               ELSE "unindex")
    /\ UNCHANGED <<clients, maps, locals, ack>>

UnindexDel(t) ==
    /\ pc[t] = "unindex_del"
    /\ action_index' = [action_index EXCEPT ![cur[t]] = None]
    /\ Goto(t, "unindex")
    /\ UNCHANGED <<clients, owners, pong_times, devices, ambiguous_actions,
                   locals, ack>>

\* Mutant: the device goes offline with any of its plugins.
ScanStart_none(t) ==
    /\ pc[t] = "unindex"
    /\ todo[t] = {}
    /\ Goto(t, "scan")
    /\ UNCHANGED <<clients, maps, locals, ack>>

ScanStart(t) ==
    /\ pc[t] = "unindex"
    /\ todo[t] = {}
    /\ unseen' = [unseen EXCEPT ![t] = Plugins]
    /\ Goto(t, "scan")
    /\ UNCHANGED <<clients, maps, pid, cid, gone, saw, todo, cur, only, ack>>

SameDevice(t, c) == c # None /\ DeviceOf[c] = DeviceOf[gone[t]]

\* by_plugin_id.iter() visits the rows one at a time.
ScanNext(t) ==
    /\ pc[t] = "scan"
    /\ \E p \in unseen[t] :
         /\ ~SlotHeld(p)
         /\ ~SameDevice(t, by_plugin_id[p])
         /\ unseen' = [unseen EXCEPT ![t] = @ \ {p}]
    /\ UNCHANGED <<clients, maps, pc, pid, cid, gone, saw, todo, cur, only,
                   ack>>

\* A plugin of the device is still registered: nothing more to write.
ScanFound(t) ==
    /\ pc[t] = "scan"
    /\ \E p \in unseen[t] :
         ~SlotHeld(p) /\ SameDevice(t, by_plugin_id[p])
    /\ Return(t, AfterUnregister(t))
    /\ UNCHANGED <<clients, maps, ack>>

\* No plugin of the device was seen: it is offline, and unregister_if is done
\* (the pending actions it fails are the subject of ActionRouting).
MarkOffline(t) ==
    /\ pc[t] = "scan"
    /\ unseen[t] = {}
    /\ devices' = [devices EXCEPT ![DeviceOf[gone[t]]] =
                     IF @ = None THEN None ELSE "offline"]
    /\ Return(t, AfterUnregister(t))
    /\ UNCHANGED <<clients, owners, pong_times, indexes, ack>>

UnregisterStep(t) ==
    \/ RemoveMiss(t) \/ RemoveHit(t) \/ RemoveConn(t) \/ RemovePong(t)
    \/ UnindexRetain(t) \/ PromoteDropRow(t) \/ PromotePut(t)
    \/ UnindexGet(t) \/ UnindexDel(t)
    \/ ScanStart(t) \/ ScanNext(t) \/ ScanFound(t) \/ MarkOffline(t)

-----------------------------------------------------------------------------
(* register_with_device and register_device.                               *)

\* Mutant: the id's slot is overwritten.
Reservable_taken(p, c) == by_conn_id[c] = None

\* One registration per connection and one holder per id.
Reservable(p, c) == by_conn_id[c] = None /\ by_plugin_id[p] = None

ReserveReject(t) ==
    /\ pc[t] = "reserve"
    /\ ~SlotHeld(pid[t])
    /\ ~Reservable(pid[t], cid[t])
    /\ ack' = [ack EXCEPT ![cid[t]] = "rejected"]
    /\ Return(t, IF t \in Bridges THEN "hangup" ELSE "idle")
    /\ UNCHANGED <<clients, maps>>

Reserve(t) ==
    /\ pc[t] = "reserve"
    /\ ~SlotHeld(pid[t])
    /\ Reservable(pid[t], cid[t])
    /\ by_conn_id' = [by_conn_id EXCEPT ![cid[t]] = pid[t]]
    /\ todo' = [todo EXCEPT ![t] = Manifest[cid[t]]]
    /\ Goto(t, "index")
    /\ UNCHANGED <<clients, by_plugin_id, pong_times, devices, indexes, pid,
                   cid, gone, saw, cur, only, unseen, ack>>

\* index_action: join the collision row if there is one.
IndexPush(t) ==
    /\ pc[t] = "index"
    /\ \E a \in todo[t] :
         LET row == ambiguous_actions[a]
         IN  /\ cur' = [cur EXCEPT ![t] = a]
             /\ todo' = [todo EXCEPT ![t] = @ \ {a}]
             /\ ambiguous_actions' =
                  IF row = None THEN ambiguous_actions
                  ELSE [ambiguous_actions EXCEPT ![a] = row \cup {pid[t]}]
             /\ Goto(t, IF row = None THEN "index_entry" ELSE "index")
    /\ UNCHANGED <<clients, owners, pong_times, devices, action_index, pid,
                   cid, gone, saw, only, unseen, ack>>

\* Otherwise take the index row, or take its holder out of it.
IndexEntry(t) ==
    /\ pc[t] = "index_entry"
    /\ LET holder == action_index[cur[t]]
           collides == holder \notin {None, pid[t]}
       IN  /\ action_index' = [action_index EXCEPT ![cur[t]] =
                                 IF collides THEN None ELSE pid[t]]
           /\ only' = IF collides THEN [only EXCEPT ![t] = holder] ELSE only
           /\ Goto(t, IF collides THEN "index_evacuate" ELSE "index")
    /\ UNCHANGED <<clients, owners, pong_times, devices, ambiguous_actions,
                   pid, cid, gone, saw, todo, cur, unseen, ack>>

IndexEvacuate(t) ==
    /\ pc[t] = "index_evacuate"
    /\ ambiguous_actions' =
         [ambiguous_actions EXCEPT ![cur[t]] = {only[t], pid[t]}]
    /\ Goto(t, "index")
    /\ UNCHANGED <<clients, owners, pong_times, devices, action_index, locals,
                   ack>>

InsertPong(t) ==
    /\ pc[t] = "index"
    /\ todo[t] = {}
    /\ pong_times' = pong_times \cup {pid[t]}
    /\ Goto(t, "device")
    /\ UNCHANGED <<clients, owners, devices, indexes, locals, ack>>

UpsertDevice(t) ==
    /\ pc[t] = "device"
    /\ devices' = [devices EXCEPT ![DeviceOf[cid[t]]] = "online"]
    /\ Goto(t, "commit")
    /\ UNCHANGED <<clients, owners, pong_times, indexes, locals, ack>>

\* plugin_slot.insert ends the registration and frees the row; the
\* acknowledgement follows.
Commit(t) ==
    /\ pc[t] = "commit"
    /\ by_plugin_id' = [by_plugin_id EXCEPT ![pid[t]] = cid[t]]
    /\ ack' = [ack EXCEPT ![cid[t]] = "accepted"]
    /\ Return(t, IF t \in Bridges THEN "up" ELSE "idle")
    /\ UNCHANGED <<clients, by_conn_id, pong_times, devices, indexes>>

RegisterStep(t) ==
    \/ ReserveReject(t) \/ Reserve(t)
    \/ IndexPush(t) \/ IndexEntry(t) \/ IndexEvacuate(t)
    \/ InsertPong(t) \/ UpsertDevice(t) \/ Commit(t)

-----------------------------------------------------------------------------
Init ==
    /\ conn = [c \in Conns |-> "new"]
    /\ sent = [c \in Conns |-> 0]
    /\ stops = 0
    /\ frames = <<>>
    /\ disc = [d \in DiscLoops |-> <<>>]
    /\ ack = [c \in Conns |-> "none"]
    /\ by_plugin_id = [p \in Plugins |-> None]
    /\ by_conn_id = [c \in Conns |-> None]
    /\ pong_times = {}
    /\ devices = [d \in Devices |-> None]
    /\ action_index = [a \in Actions |-> None]
    /\ ambiguous_actions = [a \in Actions |-> None]
    /\ pc = [t \in Threads |-> "idle"]
    /\ pid = [t \in Threads |-> None]
    /\ cid = [t \in Threads |-> None]
    /\ gone = [t \in Threads |-> None]
    /\ saw = [t \in Threads |-> None]
    /\ todo = [t \in Threads |-> {}]
    /\ cur = [t \in Threads |-> None]
    /\ only = [t \in Threads |-> None]
    /\ unseen = [t \in Threads |-> {}]

Environment ==
    \/ \E c \in Conns : Accept(c) \/ Close(c) \/ SendPong(c)
    \/ \E c \in Conns, p \in Plugins : SendRegister(c, p)
    \/ \E t \in Stoppers, p \in Plugins : Stop(t, p)
    \/ \E t \in Bridges, c \in BridgeConns, p \in Plugins : BridgeUp(t, c, p)
    \/ \E t \in Bridges : BridgeDown(t)

RouterStep ==
    RouterRefuse \/ RouterRegister \/ RouterDrop \/ RouterPong
    \/ RecordPong \/ RecordPongDevice

DiscStep(d) == DiscMiss(d) \/ DiscHit(d)

\* Every task waits for input: the kernel is idle, which is not a deadlock.
Quiet ==
    /\ \A t \in Threads : AtRest(t)
    /\ frames = <<>>
    /\ \A d \in DiscLoops : disc[d] = <<>>
    /\ UNCHANGED vars

Next ==
    \/ Environment
    \/ \E c \in Conns : SignalDisconnect(c)
    \/ RouterStep
    \/ \E d \in DiscLoops : DiscStep(d)
    \/ \E t \in Bridges : BridgeHangup(t)
    \/ \E t \in Threads : UnregisterStep(t) \/ RegisterStep(t)
    \/ Quiet

Spec == Init /\ [][Next]_vars

\* The tasks of the kernel run; clients, operators and hosts need not act.
Fairness ==
    /\ \A c \in Conns : WF_vars(SignalDisconnect(c))
    /\ WF_vars(RouterStep)
    /\ \A d \in DiscLoops : WF_vars(DiscStep(d))
    /\ \A t \in Bridges : WF_vars(BridgeHangup(t))
    /\ \A t \in Threads : WF_vars(UnregisterStep(t) \/ RegisterStep(t))

FairSpec == Spec /\ Fairness

-----------------------------------------------------------------------------
(* Properties.                                                             *)

\* Every variable keeps its type.
TypeOK ==
    /\ conn \in [Conns -> {"new", "open", "closed", "signalled"}]
    /\ sent \in [Conns -> 0..MaxSends]
    /\ stops \in 0..MaxStops
    /\ frames \in Seq(Frame)
    /\ disc \in [DiscLoops -> Seq(Conns)]
    /\ ack \in [Conns -> {"none", "accepted", "rejected"}]
    /\ by_plugin_id \in [Plugins -> Conns \cup {None}]
    /\ by_conn_id \in [Conns -> Plugins \cup {None}]
    /\ pong_times \subseteq Plugins
    /\ devices \in [Devices -> {None, "online", "offline"}]
    /\ action_index \in [Actions -> Plugins \cup {None}]
    /\ ambiguous_actions \in [Actions -> (SUBSET Plugins) \cup {None}]
    /\ pc \in [Threads -> Pcs]
    /\ pid \in [Threads -> Plugins \cup {None}]
    /\ cid \in [Threads -> Conns \cup {None}]
    /\ gone \in [Threads -> Conns \cup {None}]
    /\ saw \in [Threads -> Conns \cup {None}]
    /\ todo \in [Threads -> SUBSET Actions]
    /\ cur \in [Threads -> Actions \cup {None}]
    /\ only \in [Threads -> Plugins \cup {None}]
    /\ unseen \in [Threads -> SUBSET Plugins]

\* Task t is between its removal of p's entry and that of c's mapping.
Unmapping(t, p, c) == pc[t] = "unconn" /\ pid[t] = p /\ gone[t] = c

\* Task t has reserved p for c and has not published the entry yet.
Registering(t, p, c) == pc[t] \in RegisterPcs /\ pid[t] = p /\ cid[t] = c

\* The two maps agree under every interleaving of registrations, evictions,
\* disconnects and stops: an entry's connection maps back to its id, so a
\* connection holds at most one id, and a mapping without its entry belongs
\* to exactly one operation that is about to add the one or drop the other
\* (register_with_device: otherwise an entry "would leak in by_plugin_id
\* forever").
OwnershipConsistent ==
    /\ \A p \in Plugins :
         by_plugin_id[p] # None => by_conn_id[by_plugin_id[p]] = p
    /\ \A c \in Conns :
         LET p == by_conn_id[c]
             busy == {t \in Threads : Unmapping(t, p, c) \/ Registering(t, p, c)}
         IN  p # None => IF by_plugin_id[p] = c THEN busy = {}
                         ELSE \E t \in Threads : busy = {t}

\* An id is never taken from a connection that is still open except by an
\* explicit stop or the bridge: not by the eviction in PluginRegister, and
\* not by a disconnect loop that is late (unregister_if_dead: "an id cannot
\* be taken over from a running plugin").
NoTakeover ==
    [][\A p \in Plugins :
         LET c == by_plugin_id[p]
         IN  (c # None /\ ~is_closed(c) /\ by_plugin_id'[p] # c) =>
               \E t \in Stoppers \cup Bridges : pc[t] = "remove" /\ pid[t] = p
      ]_vars

\* A connection that is not registered is refused an id only in favour of
\* the very entry that was alive when the router looked: a client that exits
\* and reconnects is never refused because of its own dead registration,
\* however far the disconnect loop has got with it.
RejectOnlyIfLive ==
    [][\A c \in Conns :
         (pc[Router] = "reserve" /\ cid[Router] = c /\ by_conn_id[c] = None
            /\ pc'[Router] = "idle") =>
           /\ saw[Router] # None
           /\ by_plugin_id[pid[Router]] = saw[Router]
      ]_vars

\* The router has nothing left to do for connection c.
Drained(c) ==
    /\ \A i \in 1..Len(frames) : frames[i].conn # c
    /\ pc[Router] # "idle" => cid[Router] # c

\* A disconnect that is signalled after the router has drained the
\* connection frees its id and its mapping, whatever else runs meanwhile.
DisconnectFreesId ==
    \A c \in Conns :
      (Drained(c) /\ \E d \in DiscLoops : \E i \in 1..Len(disc[d]) : disc[d][i] = c)
        ~> (by_conn_id[c] = None /\ \A p \in Plugins : by_plugin_id[p] # c)

-----------------------------------------------------------------------------
\* No registry operation is under way.
Quiescent == \A t \in Threads : AtRest(t)

Declarers(a) ==
    {p \in Plugins : by_plugin_id[p] # None /\ a \in Manifest[by_plugin_id[p]]}

\* Between operations that did not overlap, the routing index is a function
\* of the registered manifests: the only declarer in action_index, two or
\* more in ambiguous_actions, never both.
IndexExact ==
    Quiescent =>
      \A a \in Actions :
        /\ action_index[a] # None <=> \E p \in Plugins : Declarers(a) = {p}
        /\ action_index[a] # None => Declarers(a) = {action_index[a]}
        /\ ambiguous_actions[a] =
             IF \E p, q \in Declarers(a) : p # q THEN Declarers(a) ELSE None

\* Between operations that did not overlap, a device that was ever seen is
\* online exactly while one of its plugins is registered.
DeviceExact ==
    Quiescent =>
      \A d \in Devices :
        devices[d] = "online" <=>
          \E p \in Plugins : by_plugin_id[p] # None /\ DeviceOf[by_plugin_id[p]] = d

\* Doc of unregister_conn: the disconnect of an old connection leaves the
\* registration of a newer one intact ("that registration must survive"):
\* between operations, a registered id has its pong row and is found by
\* every action it declares.
RegistrationSurvives ==
    Quiescent =>
      \A p \in Plugins : by_plugin_id[p] # None =>
        /\ p \in pong_times
        /\ \A a \in Manifest[by_plugin_id[p]] :
             \/ action_index[a] = p
             \/ ambiguous_actions[a] # None /\ p \in ambiguous_actions[a]

=============================================================================
