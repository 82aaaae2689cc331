------------------------------- MODULE Bridge -------------------------------
(***************************************************************************)
(* A client kernel bridged to its host (bridge/mod.rs, bridge/transport.rs)*)
(* composed with the host's WS gateway (api/websocket.rs) and the register *)
(* arm of the host's router, over a network that may cut a connection or   *)
(* stop carrying it without telling either end.                            *)
(*                                                                         *)
(* Both ends key the frame MAC off the device's secret and a nonce of the  *)
(* registration, if the client has a secret and the host sends a nonce. A  *)
(* frame's tag is the secret it was computed with, 0 for no tag; a tag of  *)
(* another registration never occurs on a connection.                      *)
(***************************************************************************)
EXTENDS Integers, Sequences

CONSTANTS
    Setups,       \* how client and host may be configured: [secret, host_auth, row]
    Conns,        \* WS connections, one for each of max_connections slots
    transports,   \* BridgeConfig::effective_transports: "relay" or "direct"
    MaxBackoff,   \* BRIDGE_MAX_BACKOFF, in units of the first backoff
    MaxEvents,    \* bound: faults of the network, the host and its clock, and
                  \* frames other tasks of the two kernels send, together
    None

\* The client's secret; the host's row may have another one, or be revoked.
Mine == 1
Other == 2
Revoked == 0

ASSUME BridgeAssumption ==
    /\ {MaxBackoff, MaxEvents} \subseteq Nat
    /\ transports \in Seq({"relay", "direct"}) /\ transports # <<>>
    /\ None \notin Conns
    /\ Setups \subseteq [secret : {0, Mine}, host_auth : BOOLEAN, row : {Mine, Other, Revoked}]

VARIABLES
    secret,     \* the client's secret, 0 if its config has none
    host_auth,  \* the host has a jwt_secret: tokens, rows and nonces count
    \* the client
    pc,         \* where Bridge::run is
    cur,        \* its connection
    i,          \* index into transports
    key,        \* secret of its session key, 0 for none
    backoff,
    status,     \* BridgeStatus, a failure by its kind
    host_tx,    \* queue of the write loop
    \* the network and the host
    up,         \* connection -> frames on their way to the host
    down,       \* connection -> frames on their way to the client
    gateway,    \* connection -> "free", "open" or "closed": the gateway's end
    client,     \* connections whose client end is open
    dark,       \* connections that carry nothing any more
    write_rx,   \* connection -> write channel of the gateway
    session_key,\* connection -> secret its MAC is armed with, 0 before
    rq,         \* queue of the host's router
    gone,       \* connections whose end the disconnect loop has yet to handle
    router,     \* the registration under way: [pc, conn, sec]
    owner,      \* connection registered for the device, None for none
    row,        \* secret in the device's row
    events      \* number of faults and of frames pushed so far

bridge == <<pc, cur, i, key, backoff, status, host_tx>>
network == <<up, down, gateway, client, dark>>
host == <<write_rx, session_key, rq, gone, router, owner, row>>
given == <<secret, host_auth>>
vars == <<given, bridge, network, host, events>>

Frame(kind, tag) == [kind |-> kind, tag |-> tag]

\* BridgeStatus, with BridgeFailure for Failed; and BridgeError, as far as the
\* model tells its members apart.
Statuses == {"disabled", "connecting", "connected", "unreachable", "timeout", "auth",
             "protocol", "unsupported"}
Errors == {"unreachable", "timeout", "unsupported", "http401", "http503", "register",
           "rejected", "mac", "disconnected"}

NotRouting == [pc |-> "idle", conn |-> None, sec |-> 0]

\* The row is only looked at by a host that authenticates.
Init ==
    /\ \E x \in Setups : secret = x.secret /\ host_auth = x.host_auth /\ row = x.row
    /\ pc = "cycle" /\ cur = None /\ i = 1 /\ key = 0
    /\ backoff = 1 /\ status = "disabled" /\ host_tx = <<>>
    /\ up = [c \in Conns |-> <<>>] /\ down = [c \in Conns |-> <<>>]
    /\ gateway = [c \in Conns |-> "free"]
    /\ client = {} /\ dark = {}
    /\ write_rx = [c \in Conns |-> <<>>]
    /\ session_key = [c \in Conns |-> 0]
    /\ rq = <<>> /\ gone = {} /\ router = NotRouting /\ owner = None
    /\ events = 0

\* A message written to the client's end of c, if c still carries anything.
Down(c, m) == IF c \in dark THEN down ELSE [down EXCEPT ![c] = Append(@, m)]

-----------------------------------------------------------------------------
(* The client: Bridge::run and one_cycle.                                  *)

\* classify
classify(e) ==
    CASE e \in {"register", "rejected", "mac", "http401"} -> "auth"
      [] e \in {"disconnected", "http503"} -> "protocol"
      [] OTHER -> e

\* A cycle has ended with error e: run_conn takes its entry out of the local
\* registry and the handle (host_tx is gone), and run waits.
EndCycle(e) ==
    /\ e \in Errors
    /\ status' = classify(e)
    /\ backoff' = IF status = "connected" THEN 1 ELSE backoff
    /\ pc' = "sleep"
    /\ key' = 0 /\ host_tx' = <<>> /\ cur' = None
    /\ UNCHANGED i

\* The connection is dropped with the stream.
HangUp == client' = client \ {cur}

Wake ==
    /\ pc = "sleep"
    /\ pc' = "cycle" /\ i' = 1
    /\ backoff' = IF 2 * backoff > MaxBackoff THEN MaxBackoff ELSE 2 * backoff
    /\ UNCHANGED <<cur, key, status, host_tx, network, host, events>>

TryTransport ==
    /\ pc = "cycle"
    /\ status' = "connecting"
    /\ pc' = "connect"
    /\ UNCHANGED <<cur, i, key, backoff, host_tx, network, host, events>>

\* The next transport is tried; the error of the last one ends the cycle.
ConnectFails(e) ==
    /\ pc = "connect"
    /\ IF i < Len(transports)
       THEN i' = i + 1 /\ pc' = "cycle" /\ UNCHANGED <<cur, key, backoff, status, host_tx>>
       ELSE EndCycle(e)

RelayUnsupported ==
    /\ transports[i] = "relay"
    /\ ConnectFails("unsupported")
    /\ UNCHANGED <<network, host, events>>

\* ws_handler turns a revoked device away before the upgrade.
UpgradeRefused ==
    /\ transports[i] = "direct" /\ host_auth /\ row = Revoked
    /\ ConnectFails("http401")
    /\ UNCHANGED <<network, host, events>>

\* All of the gateway's slots are taken.
NoSlot ==
    /\ transports[i] = "direct" /\ ~(host_auth /\ row = Revoked)
    /\ \A c \in Conns : gateway[c] = "open"
    /\ ConnectFails("http503")
    /\ UNCHANGED <<network, host, events>>

\* Nothing answers, or others have the slots.
Unreachable ==
    /\ transports[i] = "direct" /\ events < MaxEvents
    /\ events' = events + 1
    /\ \E e \in {"unreachable", "timeout", "http503"} : ConnectFails(e)
    /\ UNCHANGED <<network, host>>

\* The gateway's slot is taken, and handle_socket begins with no key.
Upgraded(c) ==
    /\ gateway[c] = "free" /\ ~(host_auth /\ row = Revoked)
    /\ gateway' = [gateway EXCEPT ![c] = "open"]

\* A new connection; the register frame goes out at once.
Connect(c) ==
    /\ pc = "connect" /\ transports[i] = "direct"
    /\ Upgraded(c)
    /\ client' = client \cup {c}
    /\ up' = [up EXCEPT ![c] = <<Frame("register", 0)>>]
    /\ cur' = c /\ pc' = "ack"
    /\ UNCHANGED <<i, key, backoff, status, host_tx, down, dark, host, events>>

Take == down' = [down EXCEPT ![cur] = Tail(@)]
Got == Head(down[cur])

\* A key takes both a secret and a nonce; a host has a nonce in its ack if it
\* authenticates.
SessionKey == IF host_auth THEN secret ELSE 0

Registered_connected == pc' = "probe" /\ key' = SessionKey /\ status' = "connected"

Registered_unprobed == pc' = "run" /\ key' = SessionKey /\ UNCHANGED status

\* The ack proves the token and not the secret: the connection is put in the
\* registry and the handle, and its write loop runs, but it is not Connected.
Registered == pc' = "probe" /\ key' = SessionKey /\ UNCHANGED status

\* The probe asks for a tagged answer; then the read loop begins.
Probe ==
    /\ pc = "probe"
    /\ pc' = "run"
    /\ host_tx' = Append(host_tx, Frame("ping", 0))
    /\ UNCHANGED <<cur, i, key, backoff, status, network, host, events>>

\* A rejection or an error ends the wait for the ack; other frames are skipped.
AwaitAck ==
    /\ pc = "ack" /\ down[cur] # <<>>
    /\ Take
    /\ CASE Got.kind = "ack" -> Registered /\ UNCHANGED <<cur, i, backoff, host_tx, client>>
         [] Got.kind \in {"reject", "error"} -> EndCycle("register") /\ HangUp
         [] Got.kind = "close" -> EndCycle("disconnected") /\ HangUp
         [] Got.kind = "close4401" -> EndCycle("rejected") /\ HangUp
         [] OTHER -> UNCHANGED <<bridge, client>>
    /\ UNCHANGED <<up, gateway, dark, host, events>>

\* read_loop: the first frame that verifies makes the status Connected. Without
\* a key every frame does.
ReadLoop ==
    /\ pc = "run" /\ down[cur] # <<>>
    /\ Take
    /\ CASE Got.kind = "close" -> EndCycle("disconnected") /\ HangUp
         [] Got.kind = "close4401" -> EndCycle("rejected") /\ HangUp
         [] Got.kind \notin {"close", "close4401"} /\ key # 0 /\ Got.tag # key ->
              EndCycle("mac") /\ HangUp
         [] OTHER -> status' = "connected"
                     /\ UNCHANGED <<pc, cur, i, key, backoff, host_tx, client>>
    /\ UNCHANGED <<up, gateway, dark, host, events>>

\* The silence limit passes: nothing gets through ...
Silence ==
    /\ pc \in {"ack", "run"} /\ cur \in dark
    /\ EndCycle("timeout") /\ HangUp
    /\ UNCHANGED <<up, down, gateway, dark, host, events>>

\* ... or the host is there and does not answer in time.
HostStalls ==
    /\ pc \in {"ack", "run"} /\ cur \notin dark /\ events < MaxEvents
    /\ events' = events + 1
    /\ EndCycle("timeout") /\ HangUp
    /\ UNCHANGED <<up, down, gateway, dark, host>>

WriteLoop ==
    /\ pc \in {"probe", "run"} /\ host_tx # <<>>
    /\ host_tx' = Tail(host_tx)
    /\ up' = IF cur \in dark THEN up
             ELSE [up EXCEPT ![cur] = Append(@, Frame(Head(host_tx).kind, key))]
    /\ UNCHANGED <<pc, cur, i, key, backoff, status, down, gateway, client, dark, host, events>>

\* The client's router relays a frame whose target it does not know, as soon as
\* the connection is in the handle.
relay_to_host ==
    /\ pc \in {"probe", "run"} /\ events < MaxEvents
    /\ events' = events + 1
    /\ host_tx' = Append(host_tx, Frame("relay", 0))
    /\ UNCHANGED <<pc, cur, i, key, backoff, status, network, host>>

-----------------------------------------------------------------------------
(* The host: handle_socket and the router.                                 *)

\* handle_socket ends: the write channel is closed, then the disconnect signalled.
CloseGateway(c) ==
    /\ gateway' = [gateway EXCEPT ![c] = "closed"]
    /\ gone' = gone \cup {c}

\* Once the session key is set, every frame must carry its tag.
VerifyInbound(c, tag) == session_key[c] = 0 \/ tag = session_key[c]

HostRead(c) ==
    /\ gateway[c] = "open" /\ up[c] # <<>>
    /\ up' = [up EXCEPT ![c] = Tail(@)]
    /\ IF VerifyInbound(c, Head(up[c]).tag)
       THEN rq' = Append(rq, [kind |-> Head(up[c]).kind, conn |-> c])
            /\ UNCHANGED <<down, gateway, gone>>
       ELSE down' = Down(c, Frame("close4401", 0)) /\ CloseGateway(c) /\ UNCHANGED rq
    /\ UNCHANGED <<bridge, client, dark, write_rx, session_key, router, owner, row, events>>

HostWrite(c) ==
    /\ gateway[c] = "open" /\ write_rx[c] # <<>>
    /\ write_rx' = [write_rx EXCEPT ![c] = Tail(@)]
    /\ LET item == Head(write_rx[c]) IN
       IF item.kind = "enable_mac"
       THEN session_key' = [session_key EXCEPT ![c] = item.tag] /\ UNCHANGED down
       ELSE down' = Down(c, Frame(item.kind, session_key[c])) /\ UNCHANGED session_key
    /\ UNCHANGED <<bridge, up, gateway, client, dark, rq, gone, router, owner, row, events>>

\* try_send: a closed channel loses the frame.
Send(c, m) == IF gateway[c] = "open" THEN [write_rx EXCEPT ![c] = Append(@, m)] ELSE write_rx

\* A revoked device is rejected. So is one whose id a live connection has; a
\* dead one is evicted.
RouterRegister ==
    /\ router.pc = "idle" /\ rq # <<>> /\ Head(rq).kind = "register"
    /\ rq' = Tail(rq)
    /\ LET c == Head(rq).conn IN
       IF (host_auth /\ row = Revoked) \/ (owner # None /\ gateway[owner] = "open")
       THEN write_rx' = Send(c, Frame("reject", 0)) /\ UNCHANGED <<router, owner>>
       ELSE owner' = c /\ router' = [pc |-> "ack", conn |-> c, sec |-> row]
            /\ UNCHANGED write_rx
    /\ UNCHANGED <<bridge, network, session_key, gone, row, events>>

\* A register frame the host answers with an error and no ack: a protocol version
\* it does not speak, a frame it cannot decode, a rate limit.
RouterErrors ==
    /\ router.pc = "idle" /\ rq # <<>> /\ Head(rq).kind = "register" /\ events < MaxEvents
    /\ events' = events + 1
    /\ rq' = Tail(rq)
    /\ write_rx' = Send(Head(rq).conn, Frame("error", 0))
    /\ UNCHANGED <<bridge, network, session_key, gone, router, owner, row>>

\* The ack is queued when the device is registered already ...
RouterAck ==
    /\ router.pc = "ack"
    /\ write_rx' = Send(router.conn, Frame("ack", 0))
    /\ router' = IF host_auth THEN [router EXCEPT !.pc = "mac"] ELSE NotRouting
    /\ UNCHANGED <<bridge, network, session_key, rq, gone, owner, row, events>>

\* ... and the MAC is armed by a third step, if the host authenticates.
RouterEnableMac ==
    /\ router.pc = "mac"
    /\ write_rx' = Send(router.conn, Frame("enable_mac", router.sec))
    /\ router' = NotRouting
    /\ UNCHANGED <<bridge, network, session_key, rq, gone, owner, row, events>>

RouterPing ==
    /\ router.pc = "idle" /\ rq # <<>> /\ Head(rq).kind = "ping"
    /\ rq' = Tail(rq)
    /\ write_rx' = Send(Head(rq).conn, Frame("pong", 0))
    /\ UNCHANGED <<bridge, network, session_key, gone, router, owner, row, events>>

\* A relayed frame goes to its target, or its sender is told there is none.
RouterForward ==
    /\ router.pc = "idle" /\ rq # <<>> /\ Head(rq).kind = "relay"
    /\ rq' = Tail(rq)
    /\ write_rx' \in {write_rx, Send(Head(rq).conn, Frame("error", 0))}
    /\ UNCHANGED <<bridge, network, session_key, gone, router, owner, row, events>>

\* Another task of the host sends the device a frame (EventBus::deliver).
Push ==
    /\ owner # None /\ events < MaxEvents
    /\ events' = events + 1
    /\ write_rx' = Send(owner, Frame("event", 0))
    /\ UNCHANGED <<bridge, network, session_key, rq, gone, router, owner, row>>

\* What a connection leaves alone when only its gateway's end closes.
host_data == <<write_rx, session_key, rq, router, owner, row>>

\* The client's close arrives, and handle_socket ends.
HostNotices(c) ==
    /\ gateway[c] = "open" /\ c \notin client \cup dark
    /\ CloseGateway(c)
    /\ UNCHANGED <<bridge, up, down, client, dark, host_data, events>>

\* On a dark connection nothing arrives. The gateway sends no pings and bounds
\* no read: the TCP stack may report the dead peer one day, and need not.
HostMayNotice(c) ==
    /\ gateway[c] = "open" /\ c \in dark
    /\ CloseGateway(c)
    /\ UNCHANGED <<bridge, up, down, client, dark, host_data, events>>

\* Only a connection that has not registered is dropped for certain, by a host
\* that authenticates. (A live one that is too slow: see Cut.)
RegisterDeadline(c) ==
    /\ host_auth /\ gateway[c] = "open" /\ c \in dark /\ session_key[c] = 0
    /\ CloseGateway(c)
    /\ UNCHANGED <<bridge, up, down, client, dark, host_data, events>>

\* The disconnect loop, whatever the router does meanwhile.
Disconnected(c) ==
    /\ c \in gone
    /\ gone' = gone \ {c}
    /\ owner' = IF owner = c THEN None ELSE owner
    /\ UNCHANGED <<bridge, network, write_rx, session_key, rq, router, row, events>>

\* Nothing is left of a connection both ends have given up. An entry the router
\* made for it after all is dead: the next registration evicts it, as if there
\* were none.
Reclaim(c) ==
    /\ gateway[c] = "closed" /\ c \notin client \cup gone /\ router.conn # c
    /\ \A k \in DOMAIN rq : rq[k].conn # c
    /\ gateway' = [gateway EXCEPT ![c] = "free"]
    /\ up' = [up EXCEPT ![c] = <<>>] /\ down' = [down EXCEPT ![c] = <<>>]
    /\ write_rx' = [write_rx EXCEPT ![c] = <<>>]
    /\ session_key' = [session_key EXCEPT ![c] = 0]
    /\ dark' = dark \ {c}
    /\ owner' = IF owner = c THEN None ELSE owner
    /\ UNCHANGED <<bridge, client, rq, gone, router, row, events>>

\* A recheck of DeviceWatch finds the row revoked; both its step and the
\* revocation are at a time of their own.
Revoke ==
    /\ host_auth /\ row # Revoked /\ events < MaxEvents
    /\ events' = events + 1
    /\ row' = Revoked
    /\ UNCHANGED <<bridge, network, write_rx, session_key, rq, gone, router, owner>>

Recheck(c) ==
    /\ host_auth /\ gateway[c] = "open" /\ row = Revoked
    /\ down' = Down(c, Frame("close", 0))
    /\ CloseGateway(c)
    /\ UNCHANGED <<bridge, up, client, dark, host_data, events>>

-----------------------------------------------------------------------------
(* Faults.                                                                 *)

\* The connection is reset, the registration deadline of the gateway passes,
\* or the host process ends: the client reads a close.
Cut(c) ==
    /\ gateway[c] = "open" /\ events < MaxEvents
    /\ events' = events + 1
    /\ down' = Down(c, Frame("close", 0))
    /\ CloseGateway(c)
    /\ UNCHANGED <<bridge, up, client, dark, host_data>>

GoDark(c) ==
    /\ gateway[c] = "open" /\ c \in client \ dark /\ events < MaxEvents
    /\ events' = events + 1
    /\ dark' = dark \cup {c}
    /\ up' = [up EXCEPT ![c] = <<>>] /\ down' = [down EXCEPT ![c] = <<>>]
    /\ UNCHANGED <<bridge, gateway, client, host>>

BridgeStep == \/ Wake \/ TryTransport \/ RelayUnsupported \/ UpgradeRefused \/ NoSlot
              \/ (\E c \in Conns : Connect(c)) \/ AwaitAck \/ Probe \/ ReadLoop
              \/ Silence
RouterStep == RouterRegister \/ RouterAck \/ RouterEnableMac \/ RouterPing \/ RouterForward
GatewayStep(c) == HostRead(c) \/ HostWrite(c)
HostStep(c) == HostNotices(c) \/ RegisterDeadline(c) \/ Disconnected(c) \/ Reclaim(c) \/ Recheck(c)
Fault == \/ Unreachable \/ HostStalls \/ RouterErrors \/ Revoke
         \/ \E c \in Conns : Cut(c) \/ GoDark(c) \/ HostMayNotice(c)

Step ==
    \/ BridgeStep \/ WriteLoop \/ relay_to_host \/ RouterStep \/ Push \/ Fault
    \/ \E c \in Conns : GatewayStep(c) \/ HostStep(c)

Next == Step /\ UNCHANGED given

\* Tasks run and timers fire; nothing makes TCP report a dead peer.
Fairness ==
    /\ WF_vars(BridgeStep /\ UNCHANGED given) /\ WF_vars(WriteLoop /\ UNCHANGED given)
    /\ WF_vars(RouterStep /\ UNCHANGED given)
    /\ \A c \in Conns : /\ WF_vars(HostRead(c) /\ UNCHANGED given)
                        /\ WF_vars(HostWrite(c) /\ UNCHANGED given)
                        /\ WF_vars(HostStep(c) /\ UNCHANGED given)

Spec == Init /\ [][Next]_vars /\ Fairness

-----------------------------------------------------------------------------
\* "So it proves the token but not the secret": a client that has a secret, on a
\* host that authenticates, is only said to be Connected when the host has armed
\* this very connection with that secret, whatever order the ack, the probe, its
\* answer and frames of other tasks come in. Without a secret, or without a
\* nonce in the ack, there is no key, and the first frame of any kind will do.
ConnectedProven ==
    status = "connected" => session_key[cur] = Mine \/ secret = 0 \/ ~host_auth

\* A client with the right secret, or any client of a host that does not
\* authenticate, is connected in the end and stays so, with the host still
\* holding its former connection, transports that fail and frames that race the
\* registration (run, one_cycle, unregister_if_dead). But for one thing: the
\* gateway may hold a dark connection for ever, which keeps the device's id, or
\* such connections all the slots.
GoodConnects ==
    \/ <>[](status = "connected")
    \/ <>[](host_auth /\ (row # Mine \/ secret = 0))
    \/ <>[](owner \in dark /\ gateway[owner] = "open")
    \/ <>[](\A c \in Conns : c \in dark /\ gateway[c] = "open")

=============================================================================
