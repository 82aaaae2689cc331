--------------------------- MODULE ActionRouting ---------------------------
(***************************************************************************)
(* How the kernel routes an action: the pending_actions map, the router's  *)
(* arms for ActionRequest, ActionResponse, the stream chunks, SessionClose *)
(* and the prune tick, the mux path of forward() and the relay to the      *)
(* host, against the tasks that unregister providers and fail what was     *)
(* routed to them.  The router handles one frame at a time; a handler is   *)
(* cut where it lets go of the map and uses what it read afterwards.       *)
(*                                                                         *)
(* Frames wait in the router's inbox for any time, so a handler may run    *)
(* whenever its sender is registered.  Write channels are bounded and only *)
(* ever tried: any send may fail, and a caller that has left is a channel  *)
(* on which every send fails.  Notices are recorded when they are sent.    *)
(***************************************************************************)
EXTENDS Naturals, FiniteSets

CONSTANTS
    Callers,      \* plugins that call actions
    Providers,    \* plugins that declare actions
    Hosts,        \* ids of the bridge's entry: the remote host as a provider
    MuxDevices,   \* providers called through forward() as <device>.<cap>
    ActionIds,    \* action ids the callers choose
    Failers,      \* tasks that unregister a provider
    None,         \* an absent slot
    Cap,          \* action_caller_max_concurrent
    IdleSweep,    \* session_idle_timeout_secs is configured
    MaxReqs       \* bound: action requests

ASSUME RoutingAssumption ==
    /\ MuxDevices \subseteq Providers
    /\ Cap \in Nat
    /\ IdleSweep \in BOOLEAN
    /\ MaxReqs \in Nat
    /\ ActionIds \cap Nat = {}

Requests == 1..MaxReqs

\* Keys of pending_actions: minted ones ("kact-N") and, from the mux path,
\* the callers' own.
Keys == Requests \cup ActionIds

\* PendingAction.  expired: the deadline has passed; idle: last_activity is
\* older than the idle timeout; req: the request it stands for.
Slot == [caller : Callers, aid : ActionIds, prov : Providers \cup Hosts,
         streaming : BOOLEAN, session_accepted : BOOLEAN,
         expired : BOOLEAN, idle : BOOLEAN, req : Requests]

ASSUME NoneAssumption == None \notin Slot

VARIABLES
    pending_actions,  \* key -> slot or None
    seq,              \* requests handled so far; mints the keys
    up,               \* registered providers
    rpc,              \* where the router is in the handler of a frame
    rkey,             \* the key the router is working on
    rslot,            \* the slot it has built, cloned or taken
    fpc,              \* where each failer is
    fprov,            \* the provider it has unregistered
    fkeys,            \* keys it has collected and not yet taken
    fheld,            \* slots it has taken and not yet answered
    route,            \* request -> how it was routed
    finals,           \* request -> final ActionResponses sent (2: or more)
    told              \* request -> the kinds of notices sent

slots   == <<pending_actions, seq>>
router  == <<rpc, rkey, rslot>>
failers == <<fpc, fprov, fkeys, fheld>>
history == <<route, finals, told>>
vars    == <<slots, up, router, failers, history>>

-----------------------------------------------------------------------------
Live == {i \in Keys : pending_actions[i] # None}

\* Counting one, several.
OneMore(n) == IF n = 0 THEN 1 ELSE 2

\* A final ActionResponse, made by a provider or by the kernel.
SendFinal(q, by) ==
    /\ finals' = [finals EXCEPT ![q] = OneMore(@)]
    /\ told' = [told EXCEPT ![q] = @ \cup {"final", by}]

Notice(q, n) ==
    /\ told' = [told EXCEPT ![q] = @ \cup {n}]
    /\ UNCHANGED finals

Done == rpc' = "idle" /\ rkey' = None /\ rslot' = None

take_pending_action(i) ==
    pending_actions' = [pending_actions EXCEPT ![i] = None]

touch_pending_action(i) ==
    pending_actions' = [pending_actions EXCEPT ![i].idle = FALSE]

\* find_pending_internal_id: some slot of the caller under its own action id.
find_pending_internal_id(c, a) ==
    {i \in Live : pending_actions[i].caller = c /\ pending_actions[i].aid = a}

count_pending_actions_for(c, p) ==
    Cardinality({i \in Live : pending_actions[i].caller = c
                                /\ pending_actions[i].prov = p})

\* notify_forced_termination: ActionStreamAbort to the caller, and the final
\* response too when the session was not accepted.
notify_forced_termination(s) ==
    IF s.session_accepted
    THEN Notice(s.req, "abort")
    ELSE /\ finals' = [finals EXCEPT ![s.req] = OneMore(@)]
         /\ told' = [told EXCEPT ![s.req] = @ \cup {"abort", "final", "kernel"}]

\* abort_stream: nothing happens when the slot is already gone.
abort_stream(i) ==
    IF pending_actions[i] = None
    THEN UNCHANGED <<pending_actions, finals, told>>
    ELSE /\ take_pending_action(i)
         /\ notify_forced_termination(pending_actions[i])

NewSlot(c, a, p, s) ==
    [caller |-> c, aid |-> a, prov |-> p, streaming |-> s,
     session_accepted |-> FALSE, expired |-> FALSE, idle |-> FALSE,
     req |-> seq + 1]

-----------------------------------------------------------------------------
(* ActionRequest.                                                          *)

CanRequest == rpc = "idle" /\ seq < MaxReqs

\* Answered at once: caller denied, no provider and no host, ambiguous,
\* permission, concurrency cap, rate limit, or a lazy queue that is full.
RefuseRequest ==
    /\ CanRequest
    /\ seq' = seq + 1
    /\ route' = [route EXCEPT ![seq + 1] = "refused"]
    /\ SendFinal(seq + 1, "kernel")
    /\ UNCHANGED <<pending_actions, up, router, failers>>

UnderCap(c, p) == count_pending_actions_for(c, p) < Cap

\* find_action_provider has found p, and the quota admits the call.
LookupFound(c, a, p, s) ==
    /\ CanRequest
    /\ p \in up
    /\ UnderCap(c, p)
    /\ rpc' = "route"
    /\ rkey' = seq + 1
    /\ rslot' = NewSlot(c, a, p, s)
    /\ UNCHANGED <<slots, up, failers, history>>

\* register_pending_action and the forward to the provider, which is dropped
\* when the provider's channel is full or closed.
RoutePut ==
    /\ rpc = "route"
    /\ pending_actions' = [pending_actions EXCEPT ![rkey] = rslot]
    /\ seq' = seq + 1
    /\ route' = [route EXCEPT ![seq + 1] = IF rkey \in ActionIds THEN "mux"
                                           ELSE "found"]
    /\ Done
    /\ UNCHANGED <<up, failers, finals, told>>

\* forward(): a call addressed to <device>.<cap> with an empty action is
\* correlated under the caller's own action id.
LookupMux(c, a, p, s) ==
    /\ CanRequest
    /\ p \in up \cap MuxDevices
    /\ rpc' = "route"
    /\ rkey' = a
    /\ rslot' = NewSlot(c, a, p, s)
    /\ UNCHANGED <<slots, up, failers, history>>

\* relay_action_to_host, for an action that no local plugin declares.
LookupHost(c, a, h, s) ==
    /\ CanRequest
    /\ c \notin Hosts
    /\ h \in up \cap Hosts
    /\ rpc' = "relay"
    /\ rkey' = seq + 1
    /\ rslot' = NewSlot(c, a, h, s)
    /\ UNCHANGED <<slots, up, failers, history>>

RelayPut ==
    /\ rpc = "relay"
    /\ pending_actions' = [pending_actions EXCEPT ![rkey] = rslot]
    /\ seq' = seq + 1
    /\ route' = [route EXCEPT ![seq + 1] = "relay"]
    /\ rpc' = "relay_send"
    /\ UNCHANGED <<up, rkey, rslot, failers, finals, told>>

RelaySent ==
    /\ rpc = "relay_send"
    /\ Done
    /\ UNCHANGED <<slots, up, failers, history>>

\* The host's channel is full or closed: drop the slot, whether or not it is
\* still there, and answer ACTION_NOT_FOUND.
RelayFailed ==
    /\ rpc = "relay_send"
    /\ take_pending_action(rkey)
    /\ SendFinal(rslot.req, "kernel")
    /\ Done
    /\ UNCHANGED <<seq, up, failers, route>>

-----------------------------------------------------------------------------
(* ActionResponse.                                                         *)

\* A slot that p was routed: the guard against spoofed responses.  The sender
\* is looked up in the same step as the slot: a removal of p between the two
\* has the same effect after them, since it ends at the slots.
RoutedTo(p, i) == i \in Live /\ pending_actions[i].prov = p

\* Mutant: the slot stays when the provider answers.
ResolveFinal_keep(p, i) ==
    /\ rpc = "idle"
    /\ p \in up
    /\ RoutedTo(p, i)
    /\ rpc' = "tell_final"
    /\ rkey' = i
    /\ rslot' = pending_actions[i]
    /\ UNCHANGED <<slots, up, failers, history>>

\* resolve_action_response: an ordinary answer, or a rejected stream.
ResolveFinal(p, i) ==
    /\ rpc = "idle"
    /\ p \in up
    /\ RoutedTo(p, i)
    /\ take_pending_action(i)
    /\ rpc' = "tell_final"
    /\ rkey' = i
    /\ rslot' = pending_actions[i]
    /\ UNCHANGED <<seq, up, failers, history>>

\* resolve_action_response: ACTION_OK accepts a stream in place.
ResolveAccept(p, i) ==
    /\ rpc = "idle"
    /\ p \in up
    /\ RoutedTo(p, i)
    /\ pending_actions[i].streaming
    /\ pending_actions' = [pending_actions EXCEPT ![i].session_accepted = TRUE,
                                                  ![i].idle = FALSE]
    /\ rpc' = "tell_accept"
    /\ rkey' = i
    /\ rslot' = pending_actions[i]
    /\ UNCHANGED <<seq, up, failers, history>>

TellFinal ==
    /\ rpc = "tell_final"
    /\ SendFinal(rslot.req, "provider")
    /\ Done
    /\ UNCHANGED <<slots, up, failers, route>>

TellAccept ==
    /\ rpc = "tell_accept"
    /\ Notice(rslot.req, "accept")
    /\ Done
    /\ UNCHANGED <<slots, up, failers, route>>

-----------------------------------------------------------------------------
(* Stream chunks and SessionClose.                                         *)

\* ActionRequestChunk, forwarded to the provider.
RequestChunk(c, a) ==
    /\ rpc = "idle"
    /\ \E i \in find_pending_internal_id(c, a) :
         /\ pending_actions[i].prov \in up
         /\ touch_pending_action(i)
    /\ UNCHANGED <<seq, up, router, failers, history>>

\* The provider's channel is full or closed, or it has no entry any more.
RequestChunkAbort(c, a) ==
    /\ rpc = "idle"
    /\ \E i \in find_pending_internal_id(c, a) : abort_stream(i)
    /\ UNCHANGED <<seq, up, router, failers, route>>

\* ActionResponseChunk: the slot is cloned and touched ...
ResponseChunk(p, i) ==
    /\ rpc = "idle"
    /\ p \in up
    /\ RoutedTo(p, i)
    /\ touch_pending_action(i)
    /\ rpc' = "chunk"
    /\ rkey' = i
    /\ rslot' = pending_actions[i]
    /\ UNCHANGED <<seq, up, failers, history>>

\* ... and the chunk is sent to the caller,
ChunkSent ==
    /\ rpc = "chunk"
    /\ Done
    /\ UNCHANGED <<slots, up, failers, history>>

\* or the caller's channel is full or closed and the stream is aborted.
ChunkFailed ==
    /\ rpc = "chunk"
    /\ abort_stream(rkey)
    /\ Done
    /\ UNCHANGED <<seq, up, failers, route>>

\* SessionClose from the provider of an accepted session ...
CloseByProvider(p, i) ==
    /\ rpc = "idle"
    /\ p \in up
    /\ RoutedTo(p, i)
    /\ pending_actions[i].session_accepted
    /\ rpc' = "close"
    /\ rkey' = i
    /\ rslot' = pending_actions[i]
    /\ UNCHANGED <<slots, up, failers, history>>

\* ... is passed on to the caller,
CloseSend ==
    /\ rpc = "close"
    /\ Notice(rslot.req, "close")
    /\ rpc' = "close_take"
    /\ UNCHANGED <<slots, up, rkey, rslot, failers, route>>

\* or it comes from the caller, and is passed on to the provider.
CloseByCaller(c, a) ==
    /\ rpc = "idle"
    /\ \E i \in find_pending_internal_id(c, a) :
         /\ pending_actions[i].session_accepted
         /\ Notice(pending_actions[i].req, "close")
         /\ rkey' = i
         /\ rslot' = pending_actions[i]
    /\ rpc' = "close_take"
    /\ UNCHANGED <<slots, up, failers, route>>

CloseTake ==
    /\ rpc = "close_take"
    /\ take_pending_action(rkey)
    /\ Done
    /\ UNCHANGED <<seq, up, failers, history>>

-----------------------------------------------------------------------------
(* Time and the prune tick.                                                *)

\* The deadline governs only the time before acceptance, last_activity only
\* the time after it.
Expire(i) ==
    /\ i \in Live
    /\ ~pending_actions[i].session_accepted
    /\ pending_actions' = [pending_actions EXCEPT ![i].expired = TRUE]
    /\ UNCHANGED <<seq, up, router, failers, history>>

GoIdle(i) ==
    /\ i \in Live
    /\ pending_actions[i].session_accepted
    /\ pending_actions' = [pending_actions EXCEPT ![i].idle = TRUE]
    /\ UNCHANGED <<seq, up, router, failers, history>>

\* Mutant: the deadline applies to accepted sessions too.
Overdue_any == {i \in Live : pending_actions[i].expired}

\* Mutant: a stream has no deadline, accepted or not.
Overdue_ordinary == {i \in Live : /\ pending_actions[i].expired
                                  /\ ~pending_actions[i].streaming}

\* sweep_expired_actions
Overdue == {i \in Live : /\ pending_actions[i].expired
                         /\ ~pending_actions[i].session_accepted}

\* sweep_idle_sessions
IdleSessions == {i \in Live : /\ IdleSweep
                              /\ pending_actions[i].idle
                              /\ pending_actions[i].session_accepted}

RequestsOf(S) == {pending_actions[i].req : i \in S}

\* The tick takes every overdue request and answers ACTION_TIMEOUT, then
\* takes every idle session and aborts it.
PruneTick ==
    /\ rpc = "idle"
    /\ Overdue \cup IdleSessions # {}
    /\ pending_actions' = [i \in Keys |-> IF i \in Overdue \cup IdleSessions THEN None
                                         ELSE pending_actions[i]]
    /\ finals' = [q \in Requests |-> IF q \in RequestsOf(Overdue)
                                    THEN OneMore(finals[q]) ELSE finals[q]]
    /\ told' = [q \in Requests |->
                  told[q]
                    \cup (IF q \in RequestsOf(Overdue) THEN {"final", "kernel"} ELSE {})
                    \cup (IF q \in RequestsOf(IdleSessions) THEN {"abort"} ELSE {})]
    /\ UNCHANGED <<seq, up, router, failers, route>>

-----------------------------------------------------------------------------
(* Providers come and go.                                                  *)

\* The router registers local providers, the bridge its own entry.
Register(p) ==
    /\ p \in Hosts \/ rpc = "idle"
    /\ p \notin up
    /\ up' = up \cup {p}
    /\ UNCHANGED <<slots, router, failers, history>>

\* unregister_if removes the entry first.  When the router itself evicts a
\* dead holder, it handles no frame meanwhile, which is one of the cases.
Unregister(t, p) ==
    /\ fpc[t] = "idle"
    /\ p \in up
    /\ up' = up \ {p}
    /\ fpc' = [fpc EXCEPT ![t] = "collect"]
    /\ fprov' = [fprov EXCEPT ![t] = p]
    /\ UNCHANGED <<slots, router, fkeys, fheld, history>>

\* Mutant: only requests without a session are collected.
FailCollect_unaccepted(t) ==
    /\ fpc[t] = "collect"
    /\ fpc' = [fpc EXCEPT ![t] = "take"]
    /\ fkeys' = [fkeys EXCEPT ![t] =
                   {i \in Live : /\ pending_actions[i].prov = fprov[t]
                                 /\ ~pending_actions[i].session_accepted}]
    /\ UNCHANGED <<slots, up, router, fprov, fheld, history>>

\* At its end fail_pending_for_provider collects the keys,
FailCollect(t) ==
    /\ fpc[t] = "collect"
    /\ fpc' = [fpc EXCEPT ![t] = "take"]
    /\ fkeys' = [fkeys EXCEPT ![t] =
                   {i \in Live : pending_actions[i].prov = fprov[t]}]
    /\ UNCHANGED <<slots, up, router, fprov, fheld, history>>

\* Mutant: a key whose slot is gone is held as well.
FailTake_all(t, i) ==
    /\ fpc[t] = "take"
    /\ i \in fkeys[t]
    /\ fkeys' = [fkeys EXCEPT ![t] = @ \ {i}]
    /\ fheld' = [fheld EXCEPT ![t] = @ \cup {pending_actions[i]}]
    /\ take_pending_action(i)
    /\ UNCHANGED <<seq, up, router, fpc, fprov, history>>

\* takes the slots that are still there, one by one,
FailTake(t, i) ==
    /\ fpc[t] = "take"
    /\ i \in fkeys[t]
    /\ fkeys' = [fkeys EXCEPT ![t] = @ \ {i}]
    /\ fheld' = [fheld EXCEPT ![t] = IF i \in Live
                                     THEN @ \cup {pending_actions[i]} ELSE @]
    /\ take_pending_action(i)
    /\ UNCHANGED <<seq, up, router, fpc, fprov, history>>

\* Mutant: what was taken is not answered.
FailSend_skip(t, s) ==
    /\ fpc[t] = "take"
    /\ fkeys[t] = {}
    /\ s \in fheld[t]
    /\ fheld' = [fheld EXCEPT ![t] = @ \ {s}]
    /\ UNCHANGED <<slots, up, router, fpc, fprov, fkeys, history>>

\* and then answers each: a session is aborted, anything else failed.
FailSend(t, s) ==
    /\ fpc[t] = "take"
    /\ fkeys[t] = {}
    /\ s \in fheld[t]
    /\ fheld' = [fheld EXCEPT ![t] = @ \ {s}]
    /\ IF s.session_accepted THEN Notice(s.req, "abort")
       ELSE SendFinal(s.req, "kernel")
    /\ UNCHANGED <<slots, up, router, fpc, fprov, fkeys, route>>

FailDone(t) ==
    /\ fpc[t] = "take"
    /\ fkeys[t] = {}
    /\ fheld[t] = {}
    /\ fpc' = [fpc EXCEPT ![t] = "idle"]
    /\ fprov' = [fprov EXCEPT ![t] = None]
    /\ UNCHANGED <<slots, up, router, fkeys, fheld, history>>

-----------------------------------------------------------------------------
Init ==
    /\ pending_actions = [i \in Keys |-> None]
    /\ seq = 0
    /\ up = {}
    /\ rpc = "idle"
    /\ rkey = None
    /\ rslot = None
    /\ fpc = [t \in Failers |-> "idle"]
    /\ fprov = [t \in Failers |-> None]
    /\ fkeys = [t \in Failers |-> {}]
    /\ fheld = [t \in Failers |-> {}]
    /\ route = [q \in Requests |-> "none"]
    /\ finals = [q \in Requests |-> 0]
    /\ told = [q \in Requests |-> {}]

\* Frames the router takes up.
Frames ==
    \/ RefuseRequest
    \/ \E c \in Callers, a \in ActionIds :
         \/ \E s \in BOOLEAN :
              \/ \E p \in Providers : LookupFound(c, a, p, s)
                                        \/ LookupMux(c, a, p, s)
              \/ \E h \in Hosts : LookupHost(c, a, h, s)
         \/ RequestChunk(c, a) \/ RequestChunkAbort(c, a)
         \/ CloseByCaller(c, a)
    \/ \E p \in Providers \cup Hosts, i \in Keys :
         \/ ResolveFinal(p, i) \/ ResolveAccept(p, i)
         \/ ResponseChunk(p, i) \/ CloseByProvider(p, i)

\* The rest of a frame's handler.
Finish ==
    \/ RoutePut \/ RelayPut \/ RelaySent \/ RelayFailed
    \/ TellFinal \/ TellAccept \/ ChunkSent \/ ChunkFailed
    \/ CloseSend \/ CloseTake

Time == \E i \in Keys : Expire(i) \/ GoIdle(i)

FailStep(t) ==
    \/ FailCollect(t) \/ FailDone(t)
    \/ \E i \in Keys : FailTake(t, i)
    \/ \E s \in fheld[t] : FailSend(t, s)

Next ==
    \/ Frames
    \/ Finish
    \/ PruneTick
    \/ Time
    \/ \E p \in Providers \cup Hosts : Register(p)
    \/ \E t \in Failers, p \in Providers \cup Hosts : Unregister(t, p)
    \/ \E t \in Failers : FailStep(t)

Spec == Init /\ [][Next]_vars

\* A handler that has started finishes, and so does a removal; deadlines
\* pass; the router's select is biased towards the tick, so a due tick is
\* taken however many frames wait.  No client has to do anything.
Fairness ==
    /\ WF_vars(Finish)
    /\ SF_vars(PruneTick)
    /\ \A i \in Keys : WF_vars(Expire(i))
    /\ \A t \in Failers : WF_vars(FailStep(t))

FairSpec == Spec /\ Fairness

-----------------------------------------------------------------------------
(* Properties.                                                             *)

\* Every variable keeps its type.
TypeOK ==
    /\ pending_actions \in [Keys -> Slot \cup {None}]
    /\ seq \in 0..MaxReqs
    /\ up \subseteq Providers \cup Hosts
    /\ rpc \in {"idle", "route", "relay", "relay_send", "tell_final",
                "tell_accept", "chunk", "close", "close_take"}
    /\ rkey \in Keys \cup {None}
    /\ rslot \in Slot \cup {None}
    /\ fpc \in [Failers -> {"idle", "collect", "take"}]
    /\ fprov \in [Failers -> Providers \cup Hosts \cup {None}]
    /\ fkeys \in [Failers -> SUBSET Keys]
    /\ fheld \in [Failers -> SUBSET Slot]
    /\ route \in [Requests -> {"none", "refused", "found", "mux", "relay"}]
    /\ finals \in [Requests -> 0..2]
    /\ told \in [Requests -> SUBSET {"accept", "abort", "close", "final",
                                     "kernel", "provider"}]

\* A caller gets at most one final ActionResponse for a request that was
\* routed to a local provider, whichever of the provider, the timeout
\* sweep, a failing stream and the provider's departure race for it.
OneFinalResponse ==
    \A q \in Requests : route[q] # "relay" => finals[q] <= 1

\* The kernel never answers a session that it has passed the acceptance of:
\* "a second ActionResponse for the same action_id would be a surprising
\* duplicate" (notify_forced_termination).
SessionNotAnswered ==
    \A q \in Requests : ~({"accept", "kernel"} \subseteq told[q])

Ended(q) == {"final", "abort", "close"} \cap told[q] # {}

\* The kernel still knows the request: in the map, or in the hands of a task
\* that is about to answer it.
Tracked(q) ==
    \/ \E i \in Live : pending_actions[i].req = q
    \/ rpc = "tell_final" /\ rslot.req = q
    \/ \E t \in Failers : \E s \in fheld[t] : s.req = q

\* A request that was given a minted key is never forgotten before its
\* caller has been told how it ended.
NoLostRequest ==
    \A q \in 1..seq : route[q] # "mux" => Ended(q) \/ Tracked(q)

\* Every request with a minted key is answered or its session accepted:
\* nobody waits for ever on a provider that is silent, gone or was removed
\* in the instant it was looked up.
EveryRequestAnswered ==
    \A q \in Requests :
      route[q] \in {"found", "relay"} ~> ("accept" \in told[q] \/ Ended(q))

\* What was routed to a provider under a minted key when its removal comes
\* to fail the pending actions is ended, accepted sessions included, which
\* no deadline would end.
DepartureEndsRequests ==
    \A q \in Requests, t \in Failers :
      (/\ fpc[t] = "collect"
       /\ route[q] # "mux"
       /\ \E i \in Live : /\ pending_actions[i].req = q
                          /\ pending_actions[i].prov = fprov[t]) ~> Ended(q)
=============================================================================
