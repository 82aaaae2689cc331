---------------------------- MODULE BridgeProofs ----------------------------
(***************************************************************************)
(* What a Connected bridge proves (bridge/mod.rs), for every number of     *)
(* connections, faults and frames of other tasks, and every list of        *)
(* transports: where both ends can have a key, the host has armed this very*)
(* connection with the client's secret.                                    *)
(***************************************************************************)
EXTENDS Bridge, TLAPS

Kinds == {"register", "ack", "reject", "enable_mac", "ping", "pong", "relay", "error", "event",
          "close", "close4401"}
Frames == [kind : Kinds, tag : 0..2]

\* The connection Bridge::run is at work on.
Attached == pc \in {"ack", "probe", "run"}

ClientOK ==
    /\ pc \in {"cycle", "connect", "ack", "probe", "run", "sleep"}
    /\ client \subseteq Conns
    /\ Attached => cur \in client
    /\ pc \in {"probe", "run"} => key = SessionKey
    /\ secret \in {0, Mine} /\ host_auth \in BOOLEAN
    /\ status = "connected" => pc = "run"
    /\ key \in 0..2
    /\ host_tx \in Seq(Frames)

NetworkOK ==
    /\ up \in [Conns -> Seq(Frames)] /\ down \in [Conns -> Seq(Frames)]
    /\ gateway \in [Conns -> {"free", "open", "closed"}]

HostOK ==
    /\ write_rx \in [Conns -> Seq(Frames)]
    /\ session_key \in [Conns -> 0..2]
    /\ rq \in Seq([kind : Kinds, conn : Conns])
    /\ router \in [pc : {"idle", "ack", "mac"}, conn : Conns \cup {None}, sec : 0..2]
    /\ router.pc # "idle" => router.conn \in Conns
    /\ router.pc = "mac" => host_auth
    /\ owner \in Conns \cup {None}
    /\ row \in 0..2

TypeInv == ClientOK /\ NetworkOK /\ HostOK

-----------------------------------------------------------------------------
(* Queues of frames.                                                       *)

\* Every frame has no tag, or k's.
Tagged(q, k) == \A n \in 1..Len(q) : q[n].tag \in {0, k}

\* Every enable_mac on its way to a gateway arms s.
Arms(q, s) == \A n \in 1..Len(q) : q[n].kind = "enable_mac" => q[n].tag = s

\* Taking a frame off a queue.
LEMMA TakeFrame ==
  ASSUME NEW q \in Seq(Frames), q # <<>>, NEW k
  PROVE  /\ Head(q) \in Frames /\ Tail(q) \in Seq(Frames)
         /\ Tagged(q, k) => Tagged(Tail(q), k) /\ Head(q).tag \in {0, k}
         /\ Arms(q, k) => Arms(Tail(q), k) /\ (Head(q).kind = "enable_mac" => Head(q).tag = k)
<1>1. Head(q) \in Frames /\ Tail(q) \in Seq(Frames) /\ Head(q) = q[1] /\ 1 \in 1..Len(q)
  OBVIOUS
<1>2. \A n \in 1..Len(Tail(q)) : Tail(q)[n] = q[n + 1] /\ n + 1 \in 1..Len(q)
  OBVIOUS
<1> QED
  BY <1>1, <1>2 DEF Tagged, Arms

\* Adding one.
LEMMA AddFrame ==
  ASSUME NEW q \in Seq(Frames), NEW f \in Frames, NEW k
  PROVE  /\ Append(q, f) \in Seq(Frames)
         /\ Tagged(q, k) /\ f.tag \in {0, k} => Tagged(Append(q, f), k)
         /\ Arms(q, k) /\ (f.kind = "enable_mac" => f.tag = k) => Arms(Append(q, f), k)
<1>1. Append(q, f) \in Seq(Frames) /\ Len(Append(q, f)) = Len(q) + 1
  OBVIOUS
<1>2. \A n \in 1..Len(Append(q, f)) :
        Append(q, f)[n] = f \/ (n \in 1..Len(q) /\ Append(q, f)[n] = q[n])
  OBVIOUS
<1> QED
  BY <1>1, <1>2 DEF Tagged, Arms

\* The frames of the model are frames.
LEMMA FrameOK ==
  ASSUME NEW kind \in Kinds, NEW tag \in 0..2
  PROVE  Frame(kind, tag) \in Frames /\ Frame(kind, tag).kind = kind /\ Frame(kind, tag).tag = tag
  BY DEF Frame, Frames

-----------------------------------------------------------------------------
(* One secret at a time: the row only changes to Revoked, so everything    *)
(* that was ever armed is the same secret s.                               *)
Armed(s) ==
    /\ row \in {s, Revoked}
    /\ host_auth /\ router.pc # "idle" => router.sec = s
    /\ \A c \in Conns : /\ session_key[c] \in {0, s}
                        /\ Tagged(down[c], session_key[c])
                        /\ Arms(write_rx[c], s)

Proven == ConnectedProven

\* Initially nothing is armed, and the row's secret is the one to be.
LEMMA BridgeInit == Init => TypeInv /\ Proven /\ \E s \in {Mine, Other} : Armed(s)
<1> SUFFICES ASSUME Init PROVE TypeInv /\ Proven /\ \E s \in {Mine, Other} : Armed(s)
  OBVIOUS
<1>1. TypeInv
  <2>1. <<>> \in Seq(Frames) /\ <<>> \in Seq([kind : Kinds, conn : Conns])
    OBVIOUS
  <2>2. ClientOK
    BY <2>1, BridgeAssumption DEF Init, ClientOK, Attached
  <2>3. NetworkOK
    BY <2>1 DEF Init, NetworkOK
  <2>4. HostOK
    BY <2>1, BridgeAssumption DEF Init, HostOK, NotRouting, Mine, Other, Revoked
  <2> QED
    BY <2>2, <2>3, <2>4 DEF TypeInv
<1>2. Proven
  BY DEF Init, Proven, ConnectedProven
<1>3. \A s \in {Mine, Other} : \A c \in Conns : /\ session_key[c] \in {0, s}
                                 /\ Tagged(down[c], session_key[c])
                                 /\ Arms(write_rx[c], s)
  <2>1. \A c \in Conns : session_key[c] = 0 /\ down[c] = <<>> /\ write_rx[c] = <<>>
    BY DEF Init
  <2>2. \A k : Tagged(<<>>, k) /\ Arms(<<>>, k)
    BY DEF Tagged, Arms
  <2> QED
    BY <2>1, <2>2
<1>4. \E s \in {Mine, Other} : row \in {s, Revoked}
  BY BridgeAssumption DEF Init
<1> QED
  BY <1>1, <1>2, <1>3, <1>4 DEF Armed, Init, NotRouting

Inv(s) == TypeInv /\ Armed(s) /\ Proven

\* A cycle that ends leaves the client unattached and not connected.
LEMMA CycleEnds ==
  ASSUME ClientOK, NEW e, EndCycle(e), client' = client \/ client' = client \ {cur},
         UNCHANGED given
  PROVE  ClientOK' /\ Proven'
<1>1. status' # "connected"
  BY DEF EndCycle, Errors, classify
<1>2. <<>> \in Seq(Frames)
  OBVIOUS
<1> QED
  BY <1>1, <1>2 DEF EndCycle, ClientOK, Attached, Proven, ConnectedProven, given

\* A step of the client alone: the host's state, and what is armed, stay.
LEMMA HostKept ==
  ASSUME NEW s, TypeInv, Armed(s), UNCHANGED host, UNCHANGED down, UNCHANGED given
  PROVE  Armed(s)' /\ HostOK'
  BY DEF host, given, Armed, TypeInv, HostOK

\* The steps of Bridge::run.
LEMMA BridgeSteps ==
  ASSUME NEW s \in {Mine, Other}, Inv(s), UNCHANGED given,
         BridgeStep \/ WriteLoop \/ relay_to_host \/ Unreachable \/ HostStalls
  PROVE  Inv(s)'
<1> USE DEF Inv
<1>0. /\ TypeInv /\ Armed(s) /\ Proven /\ ClientOK /\ NetworkOK /\ HostOK
      /\ UNCHANGED <<secret, host_auth>> /\ SessionKey' = SessionKey
  BY DEF TypeInv, given, SessionKey
<1>1. CASE Wake \/ TryTransport
  <2>1. ClientOK' /\ Proven'
    BY <1>0, <1>1 DEF Wake, TryTransport, ClientOK, Attached, Proven, ConnectedProven, network, host
  <2>2. UNCHANGED host /\ UNCHANGED network
    BY <1>1 DEF Wake, TryTransport
  <2> QED
    BY <1>0, <2>1, <2>2, HostKept DEF network, TypeInv, NetworkOK
<1>2. ASSUME NEW e, ConnectFails(e), UNCHANGED <<network, host>> PROVE Inv(s)'
  <2>1. ClientOK' /\ Proven'
    <3>1. CASE i < Len(transports)
      BY <1>0, <1>2, <3>1 DEF ConnectFails, ClientOK, Attached, Proven, ConnectedProven, network, host
    <3>2. CASE ~(i < Len(transports))
      BY <1>0, <1>2, <3>2, CycleEnds DEF ConnectFails, network
    <3> QED
      BY <3>1, <3>2
  <2> QED
    BY <1>0, <1>2, <2>1, HostKept DEF network, TypeInv, NetworkOK
<1>3. CASE RelayUnsupported \/ UpgradeRefused \/ NoSlot \/ Unreachable
  BY <1>2, <1>3 DEF RelayUnsupported, UpgradeRefused, NoSlot, Unreachable
<1>4. ASSUME NEW c \in Conns, Connect(c) PROVE Inv(s)'
  <2>1. ClientOK' /\ Proven'
    BY <1>0, <1>4 DEF Connect, ClientOK, Attached, Proven, ConnectedProven
  <2>2. NetworkOK'
    <3>1. <<Frame("register", 0)>> \in Seq(Frames)
      BY DEF Frame, Frames, Kinds
    <3>2. up' \in [Conns -> Seq(Frames)]
      BY <1>0, <1>4, <3>1 DEF Connect, NetworkOK
    <3> QED
      BY <1>0, <1>4, <3>2 DEF Connect, Upgraded, NetworkOK
  <2> QED
    BY <1>0, <1>4, <2>1, <2>2, HostKept DEF Connect, TypeInv
<1>5. CASE Probe \/ relay_to_host
  <2>1. host_tx' \in Seq(Frames)
    <3>1. Frame("ping", 0) \in Frames /\ Frame("relay", 0) \in Frames
      BY DEF Frame, Frames, Kinds
    <3> QED
      BY <1>0, <1>5, <3>1, AddFrame DEF Probe, relay_to_host, ClientOK
  <2>2. ClientOK' /\ Proven'
    BY <1>0, <1>5, <2>1 DEF Probe, relay_to_host, ClientOK, Attached, Proven, ConnectedProven, network, host
  <2>3. UNCHANGED host /\ UNCHANGED network
    BY <1>5 DEF Probe, relay_to_host
  <2> QED
    BY <1>0, <2>2, <2>3, HostKept DEF network, TypeInv, NetworkOK
<1>6. CASE WriteLoop
  <2>1. /\ host_tx # <<>> /\ cur \in Conns /\ UNCHANGED host
        /\ UNCHANGED <<down, gateway, client>>
    BY <1>0, <1>6 DEF WriteLoop, ClientOK, Attached
  <2>2. Head(host_tx) \in Frames /\ host_tx' \in Seq(Frames)
    BY <1>0, <1>6, <2>1, TakeFrame DEF WriteLoop, ClientOK
  <2>3. up' \in [Conns -> Seq(Frames)]
    <3>1. Frame(Head(host_tx).kind, key) \in Frames
      BY <1>0, <2>1, <2>2 DEF Frame, Frames, ClientOK
    <3>2. Append(up[cur], Frame(Head(host_tx).kind, key)) \in Seq(Frames)
      BY <1>0, <2>1, <3>1, AddFrame DEF NetworkOK
    <3> QED
      BY <1>0, <1>6, <3>2 DEF WriteLoop, NetworkOK
  <2>4. ClientOK' /\ Proven'
    BY <1>0, <1>6, <2>1, <2>2 DEF WriteLoop, ClientOK, Attached, Proven, ConnectedProven, host
  <2> QED
    BY <1>0, <2>1, <2>3, <2>4, HostKept DEF TypeInv, NetworkOK
<1>7. ASSUME cur \in client, down[cur] # <<>>, Take, UNCHANGED host, UNCHANGED <<up, gateway>>
      PROVE  /\ Armed(s)' /\ HostOK' /\ NetworkOK'
             /\ Got \in Frames /\ Got.tag \in {0, session_key[cur]}
  <2>1. cur \in Conns /\ down[cur] \in Seq(Frames) /\ Tagged(down[cur], session_key[cur])
    BY <1>0, <1>7 DEF ClientOK, NetworkOK, Armed
  <2>2. /\ Tail(down[cur]) \in Seq(Frames) /\ Tagged(Tail(down[cur]), session_key[cur])
        /\ Got \in Frames /\ Got.tag \in {0, session_key[cur]}
    BY <1>7, <2>1, TakeFrame DEF Got
  <2>3. down' \in [Conns -> Seq(Frames)]
    BY <1>0, <1>7, <2>2 DEF Take, NetworkOK
  <2>4. \A c \in Conns : Tagged(down'[c], session_key'[c])
    BY <1>0, <1>7, <2>2 DEF Take, NetworkOK, Armed, host
  <2>5. Armed(s)' /\ HostOK'
    BY <1>0, <1>7, <2>4 DEF Armed, HostOK, host
  <2> QED
    BY <1>0, <1>7, <2>2, <2>3, <2>5 DEF NetworkOK
<1>8. CASE AwaitAck
  <2>1. Armed(s)' /\ HostOK' /\ NetworkOK'
    BY <1>0, <1>7, <1>8 DEF AwaitAck, ClientOK, Attached
  <2>2. CASE Got.kind = "ack"
    <3>1. pc' = "probe" /\ key' = SessionKey /\ UNCHANGED <<status, cur, host_tx, client>>
      BY <1>8, <2>2 DEF AwaitAck, Registered
    <3>2. SessionKey \in 0..2 /\ status # "connected"
      BY <1>0, <1>8 DEF SessionKey, ClientOK, Mine, AwaitAck
    <3>3. ClientOK'
      BY <1>0, <1>8, <3>1, <3>2 DEF AwaitAck, ClientOK, Attached
    <3> QED
      BY <2>1, <3>1, <3>2, <3>3 DEF Proven, ConnectedProven, TypeInv
  <2>3. CASE Got.kind \in {"reject", "error", "close", "close4401"}
    <3>1. HangUp /\ \E e \in Errors : EndCycle(e)
      BY <1>8, <2>3 DEF AwaitAck, EndCycle
    <3> QED
      BY <1>0, <2>1, <3>1, CycleEnds DEF HangUp, TypeInv
  <2>4. CASE Got.kind \notin {"ack", "reject", "error", "close", "close4401"}
    BY <1>0, <1>8, <2>1, <2>4 DEF AwaitAck, bridge, ClientOK, Attached, Proven, ConnectedProven, TypeInv
  <2> QED
    BY <2>2, <2>3, <2>4
<1>9. CASE ReadLoop
  <2>1. /\ Armed(s)' /\ HostOK' /\ NetworkOK' /\ cur \in client /\ UNCHANGED host
        /\ Got.tag \in {0, session_key[cur]} /\ key = SessionKey
    BY <1>0, <1>7, <1>9 DEF ReadLoop, ClientOK, Attached
  <2>2. CASE Got.kind \in {"close", "close4401"} \/ (key # 0 /\ Got.tag # key)
    <3>1. HangUp /\ \E e \in Errors : EndCycle(e)
      BY <1>9, <2>2 DEF ReadLoop, EndCycle
    <3> QED
      BY <1>0, <2>1, <3>1, CycleEnds DEF HangUp, TypeInv
  <2>3. CASE Got.kind \notin {"close", "close4401"} /\ (key = 0 \/ Got.tag = key)
    <3>1. status' = "connected" /\ UNCHANGED <<pc, cur, key, host_tx, client>>
      BY <1>9, <2>3 DEF ReadLoop
    <3>2. session_key'[cur'] = Mine \/ secret' = 0 \/ ~host_auth'
      <4>1. CASE secret = 0 \/ ~host_auth
        BY <1>0, <4>1
      <4>2. CASE secret # 0 /\ host_auth
        <5>1. key = Mine
          BY <1>0, <2>1, <4>2 DEF SessionKey, ClientOK
        <5> QED
          BY <2>1, <2>3, <3>1, <5>1 DEF Mine, host
      <4> QED
        BY <1>0, <4>1, <4>2 DEF ClientOK
    <3>3. ClientOK'
      BY <1>0, <1>9, <3>1 DEF ReadLoop, ClientOK, Attached
    <3> QED
      BY <2>1, <3>2, <3>3 DEF Proven, ConnectedProven, TypeInv
  <2> QED
    BY <2>2, <2>3
<1>10. CASE Silence \/ HostStalls
  BY <1>0, <1>10, CycleEnds, HostKept DEF Silence, HostStalls, HangUp, TypeInv, NetworkOK
<1> QED
  BY <1>1, <1>3, <1>4, <1>5, <1>6, <1>8, <1>9, <1>10 DEF BridgeStep

\* A step of the host or the network leaves the client as it is; it keeps
\* Proven when it keeps the keys of connections the client has open.
LEMMA ClientKept ==
  ASSUME TypeInv, Proven, UNCHANGED bridge, UNCHANGED client, UNCHANGED given,
         \A c \in client : session_key[c] = Mine => session_key'[c] = Mine
  PROVE  ClientOK' /\ Proven'
  BY DEF TypeInv, ClientOK, Attached, Proven, ConnectedProven, SessionKey, bridge, given

\* A frame written to the client's end carries no tag or the connection's.
LEMMA SentDown ==
  ASSUME NEW s, TypeInv, Armed(s), NEW c \in Conns, NEW f \in Frames,
         f.tag \in {0, session_key[c]}, down' = Down(c, f), UNCHANGED session_key
  PROVE  /\ down' \in [Conns -> Seq(Frames)]
         /\ \A d \in Conns : Tagged(down'[d], session_key'[d])
<1>1. /\ down \in [Conns -> Seq(Frames)] /\ \A d \in Conns : Tagged(down[d], session_key[d])
  BY DEF TypeInv, NetworkOK, Armed
<1>2. CASE c \in dark
  BY <1>1, <1>2 DEF Down
<1>3. CASE c \notin dark
  <2>1. down' = [down EXCEPT ![c] = Append(down[c], f)]
    BY <1>3 DEF Down
  <2>2. /\ Append(down[c], f) \in Seq(Frames)
        /\ Tagged(Append(down[c], f), session_key[c])
    BY <1>1, AddFrame
  <2>3. down'[c] = Append(down[c], f) /\ \A d \in Conns : d # c => down'[d] = down[d]
    BY <1>1, <2>1
  <2> QED
    BY <1>1, <2>1, <2>2, <2>3
<1> QED
  BY <1>2, <1>3

\* A frame sent to a gateway; only enable_mac arms anything.
LEMMA SentToGateway ==
  ASSUME NEW s, TypeInv, Armed(s), NEW c \in Conns, NEW f \in Frames,
         f.kind = "enable_mac" => f.tag = s, write_rx' = Send(c, f)
  PROVE  /\ write_rx' \in [Conns -> Seq(Frames)]
         /\ \A d \in Conns : Arms(write_rx'[d], s)
<1>1. write_rx \in [Conns -> Seq(Frames)] /\ \A d \in Conns : Arms(write_rx[d], s)
  BY DEF TypeInv, HostOK, Armed
<1>2. CASE gateway[c] # "open"
  BY <1>1, <1>2 DEF Send
<1>3. CASE gateway[c] = "open"
  <2>1. write_rx' = [write_rx EXCEPT ![c] = Append(write_rx[c], f)]
    BY <1>3 DEF Send
  <2>2. Append(write_rx[c], f) \in Seq(Frames) /\ Arms(Append(write_rx[c], f), s)
    BY <1>1, AddFrame
  <2>3. /\ write_rx'[c] = Append(write_rx[c], f)
        /\ \A d \in Conns : d # c => write_rx'[d] = write_rx[d]
    BY <1>1, <2>1
  <2> QED
    BY <1>1, <2>1, <2>2, <2>3
<1> QED
  BY <1>2, <1>3

\* The steps of the host's router, and of other tasks of the host.
LEMMA RouterSteps ==
  ASSUME NEW s \in {Mine, Other}, Inv(s), UNCHANGED given,
         RouterStep \/ RouterErrors \/ Push \/ Revoke
  PROVE  Inv(s)'
<1> USE DEF Inv
<1>0. /\ TypeInv /\ Armed(s) /\ Proven /\ ClientOK /\ NetworkOK /\ HostOK
      /\ UNCHANGED <<secret, host_auth>>
  BY DEF TypeInv, given
<1>1. ClientOK' /\ Proven' /\ NetworkOK' /\ UNCHANGED <<session_key, down>>
  <2>1. UNCHANGED <<bridge, network, session_key>>
    BY DEF RouterStep, RouterRegister, RouterAck, RouterEnableMac, RouterPing, RouterForward, Push,
       Revoke, RouterErrors
  <2> QED
    BY <1>0, <2>1, ClientKept DEF network, NetworkOK
<1>2. ASSUME /\ write_rx' \in [Conns -> Seq(Frames)] /\ \A d \in Conns : Arms(write_rx'[d], s),
             rq' \in Seq([kind : Kinds, conn : Conns]), row' \in {s, Revoked},
             router' \in [pc : {"idle", "ack", "mac"}, conn : Conns \cup {None}, sec : 0..2],
             router'.pc # "idle" => router'.conn \in Conns /\ (host_auth => router'.sec = s),
             router'.pc = "mac" => host_auth,
             owner' \in Conns \cup {None}
      PROVE  Inv(s)'
  <2>1. row' \in 0..2
    BY <1>2 DEF Mine, Other, Revoked
  <2>2. HostOK'
    BY <1>0, <1>1, <1>2, <2>1 DEF HostOK
  <2>3. Armed(s)'
    BY <1>0, <1>1, <1>2 DEF Armed
  <2> QED
    BY <1>1, <2>2, <2>3 DEF TypeInv
<1>3. /\ \A f \in Frames, c \in Conns : write_rx' = Send(c, f) /\ f.kind # "enable_mac"
           => write_rx' \in [Conns -> Seq(Frames)] /\ \A d \in Conns : Arms(write_rx'[d], s)
      /\ write_rx' = write_rx
           => write_rx' \in [Conns -> Seq(Frames)] /\ \A d \in Conns : Arms(write_rx'[d], s)
  BY <1>0, SentToGateway DEF HostOK, Armed
<1>4. \A kind \in Kinds : Frame(kind, 0) \in Frames /\ Frame(kind, 0).kind = kind
  BY DEF Frame, Frames
<1>5. /\ rq # <<>> => /\ Head(rq).conn \in Conns
                      /\ Tail(rq) \in Seq([kind : Kinds, conn : Conns])
      /\ row \in {s, Revoked} /\ s \in 0..2
      /\ router.pc # "idle" => router.conn \in Conns /\ (host_auth => router.sec = s)
      /\ router.pc = "mac" => host_auth
  <2>1. rq # <<>> => Head(rq) \in [kind : Kinds, conn : Conns]
                     /\ Tail(rq) \in Seq([kind : Kinds, conn : Conns])
    <3>1. \A R : rq \in Seq(R) /\ rq # <<>> => Head(rq) \in R /\ Tail(rq) \in Seq(R)
      OBVIOUS
    <3> QED
      BY <1>0, <3>1 DEF HostOK
  <2> QED
    BY <1>0, <2>1 DEF HostOK, Armed, Mine, Other
<1>6. CASE RouterRegister
  <2>1. CASE (host_auth /\ row = Revoked) \/ (owner # None /\ gateway[owner] = "open")
    <3>1. write_rx' = Send(Head(rq).conn, Frame("reject", 0)) /\ UNCHANGED <<router, owner>>
      BY <1>6, <2>1 DEF RouterRegister
    <3>2. /\ write_rx' \in [Conns -> Seq(Frames)] /\ \A d \in Conns : Arms(write_rx'[d], s)
      BY <1>3, <1>4, <1>5, <1>6, <3>1 DEF RouterRegister, Kinds
    <3> QED
      BY <1>0, <1>2, <1>5, <1>6, <3>1, <3>2 DEF RouterRegister, HostOK
  <2>2. CASE ~((host_auth /\ row = Revoked) \/ (owner # None /\ gateway[owner] = "open"))
    <3>1. /\ owner' = Head(rq).conn /\ router' = [pc |-> "ack", conn |-> Head(rq).conn, sec |-> row]
          /\ UNCHANGED write_rx /\ (host_auth => row = s)
      BY <1>5, <1>6, <2>2 DEF RouterRegister
    <3>2. row \in 0..2
      BY <1>0 DEF HostOK
    <3> QED
      BY <1>2, <1>3, <1>5, <1>6, <3>1, <3>2 DEF RouterRegister
  <2> QED
    BY <2>1, <2>2
<1>7. CASE RouterAck
  <2>1. /\ write_rx' \in [Conns -> Seq(Frames)] /\ \A d \in Conns : Arms(write_rx'[d], s)
    BY <1>3, <1>4, <1>5, <1>7 DEF RouterAck, Kinds
  <2>2. /\ router' \in [pc : {"idle", "ack", "mac"}, conn : Conns \cup {None}, sec : 0..2]
        /\ router'.pc # "idle" => host_auth /\ router'.conn = router.conn /\ router'.sec = router.sec
    <3>1. CASE host_auth
      <4>1. router' = [router EXCEPT !.pc = "mac"]
        BY <1>7, <3>1 DEF RouterAck
      <4> QED
        BY <1>0, <3>1, <4>1 DEF HostOK
    <3>2. CASE ~host_auth
      BY <1>7, <3>2 DEF RouterAck, NotRouting
    <3> QED
      BY <3>1, <3>2
  <2>3. router.pc # "idle" /\ UNCHANGED <<rq, owner, row>>
    BY <1>7 DEF RouterAck
  <2> QED
    BY <1>0, <1>2, <1>5, <2>1, <2>2, <2>3 DEF HostOK
<1>8. CASE RouterEnableMac
  <2>1. Frame("enable_mac", router.sec) \in Frames /\ Frame("enable_mac", router.sec).tag = s
    BY <1>5, <1>8 DEF RouterEnableMac, Frame, Frames, Kinds
  <2>2. /\ write_rx' \in [Conns -> Seq(Frames)] /\ \A d \in Conns : Arms(write_rx'[d], s)
    BY <1>0, <1>5, <1>8, <2>1, SentToGateway DEF RouterEnableMac
  <2> QED
    BY <1>0, <1>2, <1>5, <1>8, <2>2 DEF RouterEnableMac, HostOK, NotRouting
<1>9. CASE RouterPing \/ RouterForward \/ RouterErrors
  <2>1. /\ write_rx' \in [Conns -> Seq(Frames)] /\ \A d \in Conns : Arms(write_rx'[d], s)
    <3>1. "pong" \in Kinds /\ "error" \in Kinds /\ rq # <<>>
      BY <1>9 DEF Kinds, RouterPing, RouterForward, RouterErrors
    <3>2. /\ Frame("pong", 0) \in Frames /\ Frame("pong", 0).kind # "enable_mac"
          /\ Frame("error", 0) \in Frames /\ Frame("error", 0).kind # "enable_mac"
      BY <1>4, <3>1
    <3>3. \/ write_rx' = Send(Head(rq).conn, Frame("pong", 0)) \/ write_rx' = write_rx
          \/ write_rx' = Send(Head(rq).conn, Frame("error", 0))
      BY <1>9 DEF RouterPing, RouterForward, RouterErrors
    <3> QED
      BY <1>3, <1>5, <3>1, <3>2, <3>3
  <2> QED
    BY <1>0, <1>2, <1>5, <1>9, <2>1 DEF RouterPing, RouterForward, RouterErrors, HostOK
<1>10. CASE Push
  <2>1. owner \in Conns
    BY <1>0, <1>10 DEF Push, HostOK
  <2>2. /\ write_rx' \in [Conns -> Seq(Frames)] /\ \A d \in Conns : Arms(write_rx'[d], s)
    BY <1>3, <1>4, <1>10, <2>1 DEF Push, Kinds
  <2> QED
    BY <1>0, <1>2, <1>5, <1>10, <2>2 DEF Push, HostOK
<1>11. CASE Revoke
  BY <1>0, <1>2, <1>3, <1>5, <1>11 DEF Revoke, HostOK
<1> QED
  BY <1>6, <1>7, <1>8, <1>9, <1>10, <1>11 DEF RouterStep

\* The steps of a connection's gateway, of its end and of the network.
LEMMA GatewaySteps ==
  ASSUME NEW s \in {Mine, Other}, Inv(s), NEW c \in Conns, UNCHANGED given,
         GatewayStep(c) \/ HostStep(c) \/ Cut(c) \/ GoDark(c) \/ HostMayNotice(c)
  PROVE  Inv(s)'
<1> USE DEF Inv
<1>0. /\ TypeInv /\ Armed(s) /\ Proven /\ ClientOK /\ NetworkOK /\ HostOK
      /\ UNCHANGED <<secret, host_auth>>
  BY DEF TypeInv, given
<1>1. \A kind \in Kinds : Frame(kind, 0) \in Frames /\ Frame(kind, 0).tag = 0
  BY DEF Frame, Frames
<1>2. ASSUME UNCHANGED <<session_key, write_rx, router, row>>,
             down' \in [Conns -> Seq(Frames)], \A d \in Conns : Tagged(down'[d], session_key'[d]),
             up' \in [Conns -> Seq(Frames)], UNCHANGED <<bridge, client>>,
             gateway' \in [Conns -> {"free", "open", "closed"}],
             rq' \in Seq([kind : Kinds, conn : Conns]), owner' \in Conns \cup {None}
      PROVE  Inv(s)'
  <2>1. ClientOK' /\ Proven'
    BY <1>0, <1>2, ClientKept
  <2>2. NetworkOK' /\ HostOK'
    BY <1>0, <1>2 DEF NetworkOK, HostOK
  <2>3. Armed(s)'
    BY <1>0, <1>2 DEF Armed
  <2> QED
    BY <2>1, <2>2, <2>3 DEF TypeInv
<1>3. UNCHANGED <<down, session_key>> =>
        down' \in [Conns -> Seq(Frames)] /\ \A d \in Conns : Tagged(down'[d], session_key'[d])
  BY <1>0 DEF NetworkOK, Armed
<1>4. \A kind \in Kinds : UNCHANGED session_key /\ down' = Down(c, Frame(kind, 0)) =>
        down' \in [Conns -> Seq(Frames)] /\ \A d \in Conns : Tagged(down'[d], session_key'[d])
  BY <1>0, <1>1, SentDown
<1>5. CASE HostRead(c)
  <2>1. /\ Head(up[c]) \in Frames /\ Tail(up[c]) \in Seq(Frames)
        /\ UNCHANGED <<session_key, write_rx, router, row, bridge, client, owner>>
    BY <1>0, <1>5, TakeFrame DEF HostRead, NetworkOK
  <2>2. up' \in [Conns -> Seq(Frames)]
    BY <1>0, <1>5, <2>1 DEF HostRead, NetworkOK
  <2>3. CASE VerifyInbound(c, Head(up[c]).tag)
    <3>1. rq' = Append(rq, [kind |-> Head(up[c]).kind, conn |-> c]) /\ UNCHANGED <<down, gateway>>
      BY <1>5, <2>3 DEF HostRead
    <3>2. [kind |-> Head(up[c]).kind, conn |-> c] \in [kind : Kinds, conn : Conns]
      BY <2>1 DEF Frames
    <3>3. rq' \in Seq([kind : Kinds, conn : Conns])
      BY <1>0, <3>1, <3>2 DEF HostOK
    <3> QED
      BY <1>0, <1>2, <1>3, <2>1, <2>2, <3>1, <3>3 DEF NetworkOK, HostOK
  <2>4. CASE ~VerifyInbound(c, Head(up[c]).tag)
    <3>1. down' = Down(c, Frame("close4401", 0)) /\ CloseGateway(c) /\ UNCHANGED rq
      BY <1>5, <2>4 DEF HostRead
    <3>2. "close4401" \in Kinds /\ gateway' \in [Conns -> {"free", "open", "closed"}]
      BY <1>0, <3>1 DEF Kinds, CloseGateway, NetworkOK
    <3> QED
      BY <1>0, <1>2, <1>4, <2>1, <2>2, <3>1, <3>2 DEF HostOK
  <2> QED
    BY <2>3, <2>4
<1>6. CASE HostWrite(c)
  <2> DEFINE item == Head(write_rx[c])
  <2>1. /\ write_rx[c] \in Seq(Frames) /\ write_rx[c] # <<>> /\ Arms(write_rx[c], s)
        /\ session_key[c] \in {0, s} /\ write_rx' = [write_rx EXCEPT ![c] = Tail(@)]
        /\ UNCHANGED <<bridge, up, gateway, client, rq, router, owner, row>>
    BY <1>0, <1>6 DEF HostWrite, HostOK, Armed
  <2>2. /\ item \in Frames /\ Tail(write_rx[c]) \in Seq(Frames)
        /\ Arms(Tail(write_rx[c]), s) /\ (item.kind = "enable_mac" => item.tag = s)
    BY <2>1, TakeFrame
  <2>3. /\ write_rx' \in [Conns -> Seq(Frames)] /\ \A d \in Conns : Arms(write_rx'[d], s)
    BY <1>0, <2>1, <2>2 DEF HostOK, Armed
  <2>4. /\ down' \in [Conns -> Seq(Frames)] /\ session_key' \in [Conns -> 0..2]
        /\ \A d \in Conns : Tagged(down'[d], session_key'[d]) /\ session_key'[d] \in {0, s}
        /\ \A d \in Conns : session_key[d] = Mine => session_key'[d] = Mine
    <3>1. CASE item.kind = "enable_mac"
      <4>1. session_key' = [session_key EXCEPT ![c] = s] /\ UNCHANGED down
        BY <1>6, <2>2, <3>1 DEF HostWrite
      <4>2. \A d \in Conns : Tagged(down[d], session_key'[d])
        <5>1. Tagged(down[c], s)
          BY <1>0, <2>1 DEF Armed, Tagged
        <5> QED
          BY <1>0, <4>1, <5>1 DEF Armed, HostOK
      <4>3. s \in 0..2 /\ s # 0
        BY DEF Mine, Other
      <4>4. \A d \in Conns : session_key[d] = Mine => session_key'[d] = Mine
        BY <1>0, <2>1, <4>1, <4>3 DEF HostOK, Mine
      <4> QED
        BY <1>0, <4>1, <4>2, <4>3, <4>4 DEF NetworkOK, HostOK, Armed
    <3>2. CASE item.kind # "enable_mac"
      <4>1. down' = Down(c, Frame(item.kind, session_key[c])) /\ UNCHANGED session_key
        BY <1>6, <3>2 DEF HostWrite
      <4>2. /\ Frame(item.kind, session_key[c]) \in Frames
            /\ Frame(item.kind, session_key[c]).tag = session_key[c]
        BY <1>0, <2>2 DEF HostOK, Frame, Frames
      <4>3. down' \in [Conns -> Seq(Frames)] /\ \A d \in Conns : Tagged(down'[d], session_key'[d])
        BY <1>0, <4>1, <4>2, SentDown
      <4> QED
        BY <1>0, <4>1, <4>3 DEF HostOK, Armed
    <3> QED
      BY <3>1, <3>2
  <2>5. ClientOK' /\ Proven'
    BY <1>0, <2>1, <2>4, ClientKept DEF ClientOK
  <2>6. NetworkOK' /\ HostOK'
    BY <1>0, <2>1, <2>3, <2>4 DEF NetworkOK, HostOK
  <2>7. Armed(s)'
    BY <1>0, <2>1, <2>3, <2>4 DEF Armed
  <2> QED
    BY <2>5, <2>6, <2>7 DEF TypeInv
<1>7. CASE HostNotices(c) \/ HostMayNotice(c) \/ RegisterDeadline(c) \/ Disconnected(c)
  <2>1. gateway' \in [Conns -> {"free", "open", "closed"}] /\ owner' \in Conns \cup {None}
    BY <1>0, <1>7 DEF HostNotices, HostMayNotice, RegisterDeadline, Disconnected, CloseGateway,
       NetworkOK, HostOK, network, host_data
  <2> QED
    BY <1>0, <1>2, <1>3, <1>7, <2>1
    DEF HostNotices, HostMayNotice, RegisterDeadline, Disconnected, NetworkOK, HostOK, network, host_data
<1>8. CASE Reclaim(c)
  <2>1. /\ up' \in [Conns -> Seq(Frames)] /\ down' \in [Conns -> Seq(Frames)]
        /\ write_rx' \in [Conns -> Seq(Frames)] /\ session_key' \in [Conns -> 0..2]
        /\ gateway' \in [Conns -> {"free", "open", "closed"}]
    BY <1>0, <1>8 DEF Reclaim, NetworkOK, HostOK
  <2>2. \A d \in Conns : d # c => /\ down'[d] = down[d] /\ write_rx'[d] = write_rx[d]
                                  /\ session_key'[d] = session_key[d]
    BY <1>0, <1>8 DEF Reclaim, NetworkOK, HostOK
  <2>3. down'[c] = <<>> /\ write_rx'[c] = <<>> /\ session_key'[c] = 0
    BY <1>0, <1>8 DEF Reclaim, NetworkOK, HostOK
  <2>4. Tagged(<<>>, 0) /\ Arms(<<>>, s)
    BY DEF Tagged, Arms
  <2>5. Armed(s)'
    BY <1>0, <1>8, <2>2, <2>3, <2>4 DEF Reclaim, Armed
  <2>6. ClientOK' /\ Proven'
    BY <1>0, <1>8, <2>2, ClientKept DEF Reclaim, ClientOK
  <2> QED
    BY <1>0, <1>8, <2>1, <2>5, <2>6 DEF Reclaim, TypeInv, NetworkOK, HostOK
<1>9. CASE Recheck(c) \/ Cut(c)
  <2>1. "close" \in Kinds /\ gateway' \in [Conns -> {"free", "open", "closed"}]
    BY <1>0, <1>9 DEF Recheck, Cut, CloseGateway, NetworkOK, Kinds
  <2> QED
    BY <1>0, <1>2, <1>4, <1>9, <2>1 DEF Recheck, Cut, NetworkOK, HostOK, host_data
<1>10. CASE GoDark(c)
  <2>1. up' \in [Conns -> Seq(Frames)] /\ down' \in [Conns -> Seq(Frames)]
    BY <1>0, <1>10 DEF GoDark, NetworkOK
  <2>2. \A d \in Conns : Tagged(down'[d], session_key'[d])
    BY <1>0, <1>10 DEF GoDark, NetworkOK, Armed, Tagged, host
  <2> QED
    BY <1>0, <1>2, <1>10, <2>1, <2>2 DEF GoDark, NetworkOK, HostOK, host
<1> QED
  BY <1>5, <1>6, <1>7, <1>8, <1>9, <1>10 DEF GatewayStep, HostStep

BridgeInv == \E s \in {Mine, Other} : Inv(s)

\* read_loop, one_cycle, handle_socket and the register arm: for a client with a
\* secret and a host that authenticates, Connected means that the host holds
\* that secret and has armed this connection with it.
THEOREM ConnectedMeansProven == Spec => []ConnectedProven
<1>1. Init => BridgeInv
  BY BridgeInit DEF BridgeInv, Inv
<1>2. BridgeInv /\ [Next]_vars => BridgeInv'
  <2> SUFFICES ASSUME NEW s \in {Mine, Other}, Inv(s), [Next]_vars PROVE Inv(s)'
    BY DEF BridgeInv
  <2>1. CASE UNCHANGED vars
    BY <2>1 DEF vars, given, bridge, network, host, Inv, TypeInv, ClientOK, NetworkOK, HostOK, Attached,
       Armed, Proven, ConnectedProven, SessionKey
  <2> QED
    BY <2>1, BridgeSteps, RouterSteps, GatewaySteps DEF Next, Step, Fault
<1>3. BridgeInv => ConnectedProven
  BY DEF BridgeInv, Inv, Proven, ConnectedProven
<1> QED
  BY <1>1, <1>2, <1>3, PTL DEF Spec
=============================================================================
