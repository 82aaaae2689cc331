--------------------------- MODULE LazyWakeProofs ---------------------------
(***************************************************************************)
(* What lazy start guarantees for every capacity and every number of calls,*)
(* exits, sweeps and stale frames: the channels keep to their capacity,    *)
(* and a call is at every time in exactly one place, so that none is lost  *)
(* or handled twice between the router and the waker; and the calls that   *)
(* waited for a wake are sent before later ones.                           *)
(***************************************************************************)
EXTENDS LazyWake, SequenceTheorems, TLAPS

-----------------------------------------------------------------------------
(* Queues of calls, each call in a queue once.                             *)

Queue(s) ==
    /\ s \in Seq(Nat)
    /\ \A i, j \in 1..Len(s) : s[i] = s[j] => i = j

\* What is in a queue.
LEMMA QueueSet ==
  ASSUME NEW s \in Seq(Nat)
  PROVE  ToSet(s) = {s[i] : i \in 1..Len(s)} /\ ToSet(s) \in SUBSET Nat
  BY DEF ToSet

\* The empty queue holds nothing.
LEMMA QueueEmpty == Queue(<<>>) /\ ToSet(<<>>) = {} /\ Len(<<>>) = 0
  BY DEF Queue, ToSet

\* A queue of one call.
LEMMA QueueOne ==
  ASSUME NEW c \in Nat
  PROVE  Queue(<<c>>) /\ ToSet(<<c>>) = {c} /\ Len(<<c>>) = 1
<1>1. <<c>> \in Seq(Nat) /\ Len(<<c>>) = 1 /\ <<c>>[1] = c
  OBVIOUS
<1>2. Queue(<<c>>)
  BY <1>1 DEF Queue
<1>3. ToSet(<<c>>) = {c}
  <2>1. ToSet(<<c>>) = {<<c>>[i] : i \in 1..Len(<<c>>)}
    BY <1>1, QueueSet
  <2>2. 1..Len(<<c>>) = {1}
    BY <1>1
  <2> QED
    BY <1>1, <2>1, <2>2
<1> QED
  BY <1>1, <1>2, <1>3

\* A new call joins a queue at its end.
LEMMA QueueAppend ==
  ASSUME NEW s, Queue(s), NEW c \in Nat, c \notin ToSet(s)
  PROVE  /\ Queue(Append(s, c)) /\ ToSet(Append(s, c)) = ToSet(s) \cup {c}
         /\ Len(Append(s, c)) = Len(s) + 1
<1>1. s \in Seq(Nat) /\ \A i, j \in 1..Len(s) : s[i] = s[j] => i = j
  BY DEF Queue
<1>2. PICK a : a = Append(s, c)
  OBVIOUS
<1>3. /\ a \in Seq(Nat) /\ Len(a) = Len(s) + 1 /\ a[Len(s) + 1] = c
      /\ \A i \in 1..Len(s) : a[i] = s[i]
  BY <1>1, <1>2, AppendProperties
<1>4. Len(s) \in Nat /\ 1..Len(a) = 1..Len(s) \cup {Len(s) + 1} /\ Len(s) + 1 \notin 1..Len(s)
  BY <1>1, <1>3, LenProperties
<1>5. \A i \in 1..Len(s) : s[i] # c
  BY <1>1, QueueSet
<1>6. \A i, j \in 1..Len(a) : a[i] = a[j] => i = j
  BY <1>1, <1>3, <1>4, <1>5
<1>7. ToSet(a) = ToSet(s) \cup {c}
  <2>1. ToSet(a) = {a[i] : i \in 1..Len(a)} /\ ToSet(s) = {s[i] : i \in 1..Len(s)}
    BY <1>1, <1>3, QueueSet
  <2> QED
    BY <1>3, <1>4, <2>1
<1> QED
  BY <1>2, <1>3, <1>6, <1>7 DEF Queue

\* The first call leaves a queue.
LEMMA QueueTail ==
  ASSUME NEW s, Queue(s), s # <<>>
  PROVE  /\ Queue(Tail(s)) /\ ToSet(Tail(s)) = ToSet(s) \ {Head(s)}
         /\ Len(Tail(s)) = Len(s) - 1 /\ Len(s) \in Nat
         /\ Head(s) \in Nat /\ Head(s) \in ToSet(s)
<1>1. s \in Seq(Nat) /\ \A i, j \in 1..Len(s) : s[i] = s[j] => i = j
  BY DEF Queue
<1>2. PICK t : t = Tail(s)
  OBVIOUS
<1>3. /\ t \in Seq(Nat) /\ Len(t) = Len(s) - 1 /\ Len(s) \in Nat \ {0}
      /\ Head(s) = s[1] /\ \A i \in 1..Len(t) : t[i] = s[i + 1]
  BY <1>1, <1>2, HeadTailProperties, EmptySeq, LenProperties
<1>4. \A i \in 1..Len(t) : i + 1 \in 1..Len(s) /\ i + 1 # 1
  BY <1>3
<1>5. \A k \in 1..Len(s) : k # 1 => k - 1 \in 1..Len(t) /\ (k - 1) + 1 = k
  BY <1>3
<1>6. ASSUME NEW i \in 1..Len(t), NEW j \in 1..Len(t), t[i] = t[j] PROVE i = j
  <2>1. s[i + 1] = s[j + 1] /\ i + 1 \in 1..Len(s) /\ j + 1 \in 1..Len(s)
    BY <1>3, <1>4, <1>6
  <2>2. i + 1 = j + 1
    BY <1>1, <2>1
  <2> QED
    BY <2>2
<1>7. ToSet(t) = ToSet(s) \ {s[1]}
  <2>1. ToSet(t) = {t[i] : i \in 1..Len(t)} /\ ToSet(s) = {s[i] : i \in 1..Len(s)}
    BY <1>1, <1>3, QueueSet
  <2>2. 1 \in 1..Len(s)
    BY <1>3
  <2>3. ASSUME NEW c \in ToSet(t) PROVE c \in ToSet(s) \ {s[1]}
    <3>1. PICK i \in 1..Len(t) : c = t[i]
      BY <2>1, <2>3
    <3>2. c = s[i + 1] /\ i + 1 \in 1..Len(s) /\ i + 1 # 1
      BY <1>3, <1>4, <3>1
    <3> QED
      BY <1>1, <2>1, <2>2, <3>2
  <2>4. ASSUME NEW c \in ToSet(s), c # s[1] PROVE c \in ToSet(t)
    <3>1. PICK k \in 1..Len(s) : c = s[k] /\ k # 1
      BY <2>1, <2>4
    <3>2. k - 1 \in 1..Len(t) /\ t[k - 1] = s[k]
      BY <1>3, <1>5, <3>1
    <3> QED
      BY <2>1, <3>1, <3>2
  <2> QED
    BY <2>3, <2>4
<1>8. Head(s) \in Nat /\ Head(s) \in ToSet(s)
  <2>1. 1 \in 1..Len(s)
    BY <1>3
  <2> QED
    BY <1>1, <1>3, <2>1, QueueSet
<1> QED
  BY <1>2, <1>3, <1>6, <1>7, <1>8 DEF Queue

-----------------------------------------------------------------------------
(* The inductive invariant.                                                *)

\* The fields of the records.
Shape ==
    /\ router = [pc |-> router.pc, call |-> router.call, inst |-> router.inst]
    /\ router.pc \in {"idle", "found", "dormant", "route"} /\ router.call \in Nat
    /\ waking = [on |-> waking.on, queue |-> waking.queue, starting |-> waking.starting,
                 want_stop |-> waking.want_stop, stopping |-> waking.stopping]
    /\ waking.on \in BOOLEAN
    /\ waker = [pc |-> waker.pc, out |-> waker.out]
    /\ waker.pc \in {"idle", "reinject", "sweep"}
    /\ gate = [on |-> gate.on, allowed |-> gate.allowed] /\ gate.allowed \subseteq Calls
    /\ registered \in {"no", "serves", "other"}
    /\ last_used \in {"never", "fresh", "idle"}

\* The queues and their bounds.
Queues ==
    /\ next \in Nat /\ next <= MaxCalls
    /\ Queue(router_q) /\ Len(router_q) <= RouterCap
    /\ Queue(lazy_q) /\ Len(lazy_q) <= LazyCap
    /\ Queue(waking.queue) /\ Len(waking.queue) <= MaxQueued
    /\ Queue(waker.out) /\ Queue(routed)

\* Who holds a call, and when.
Holders ==
    /\ router.pc = "idle" <=> router.call = 0
    /\ ~waking.on => waking.queue = <<>>
    /\ waker.pc # "reinject" => waker.out = <<>>
    /\ waker.pc = "sweep" => ~waking.on

\* The calls are split among the seven places.
Split(N, a, b, c, d, e, f, g) ==
    /\ N = a \cup b \cup c \cup d \cup e \cup f \cup g
    /\ a \cap (b \cup c \cup d \cup e \cup f \cup g) = {}
    /\ b \cap (c \cup d \cup e \cup f \cup g) = {}
    /\ c \cap (d \cup e \cup f \cup g) = {}
    /\ d \cap (e \cup f \cup g) = {}
    /\ e \cap (f \cup g) = {}
    /\ f \cap g = {}

Placed ==
    Split(1..next, ToSet(router_q), {router.call} \ {0}, ToSet(lazy_q), ToSet(waking.queue),
          ToSet(waker.out), failed, ToSet(routed))

LazyInv == Shape /\ Queues /\ Holders /\ Placed

\* The constants.
LEMMA Bounds ==
  /\ RouterCap \in Nat \ {0} /\ LazyCap \in Nat \ {0} /\ MaxQueued \in Nat \ {0}
  /\ MaxCalls \in Nat
  BY LazyAssumption

\* At first there are no calls.
LEMMA LazyInit == Init => LazyInv
<1> SUFFICES ASSUME Init PROVE LazyInv
  OBVIOUS
<1>1. /\ router_q = <<>> /\ lazy_q = <<>> /\ routed = <<>> /\ failed = {} /\ next = 0
      /\ router.call = 0 /\ router.pc = "idle" /\ waking.queue = <<>> /\ ~waking.on
      /\ waker.out = <<>> /\ waker.pc = "idle"
  BY DEF Init, RouterIdle, Asleep
<1>2. Shape
  BY DEF Init, Shape, RouterIdle, Asleep, NoGate
<1>3. Queues
  BY <1>1, QueueEmpty, Bounds DEF Queues
<1>4. Holders
  BY <1>1 DEF Holders
<1>5. Placed
  <2>1. 1..0 = {}
    OBVIOUS
  <2> QED
    BY <1>1, <2>1, QueueEmpty DEF Placed, Split
<1> QED
  BY <1>2, <1>3, <1>4, <1>5 DEF LazyInv

\* The invariant implies that the calls are in one place each.
LEMMA PlacedIsOnePlace == LazyInv => OnePlace
<1> SUFFICES ASSUME LazyInv, NEW c \in 1..next
             PROVE  LET places == <<c \in ToSet(router_q), router.call = c, c \in ToSet(lazy_q),
                                    c \in ToSet(waking.queue), c \in ToSet(waker.out),
                                    c \in failed, c \in ToSet(routed)>>
                    IN  /\ \E i \in DOMAIN places : places[i]
                        /\ \A i, j \in DOMAIN places : places[i] /\ places[j] => i = j
  BY DEF OnePlace
<1> DEFINE places == <<c \in ToSet(router_q), router.call = c, c \in ToSet(lazy_q),
                       c \in ToSet(waking.queue), c \in ToSet(waker.out),
                       c \in failed, c \in ToSet(routed)>>
<1>1. DOMAIN places = {1, 2, 3, 4, 5, 6, 7}
  OBVIOUS
<1>2. /\ places[1] = (c \in ToSet(router_q)) /\ places[2] = (router.call = c)
      /\ places[3] = (c \in ToSet(lazy_q)) /\ places[4] = (c \in ToSet(waking.queue))
      /\ places[5] = (c \in ToSet(waker.out)) /\ places[6] = (c \in failed)
      /\ places[7] = (c \in ToSet(routed))
  OBVIOUS
<1>3. c # 0 /\ Placed
  BY DEF LazyInv
<1> HIDE DEF places
<1>4. \E i \in DOMAIN places : places[i]
  BY <1>1, <1>2, <1>3 DEF Placed, Split
<1>5. /\ ~(places[1] /\ (places[2] \/ places[3] \/ places[4] \/ places[5] \/ places[6] \/ places[7]))
      /\ ~(places[2] /\ (places[3] \/ places[4] \/ places[5] \/ places[6] \/ places[7]))
      /\ ~(places[3] /\ (places[4] \/ places[5] \/ places[6] \/ places[7]))
      /\ ~(places[4] /\ (places[5] \/ places[6] \/ places[7]))
      /\ ~(places[5] /\ (places[6] \/ places[7]))
      /\ ~(places[6] /\ places[7])
  BY <1>2, <1>3 DEF Placed, Split
<1>6. ASSUME NEW i \in DOMAIN places, NEW j \in DOMAIN places, places[i], places[j] PROVE i = j
  BY <1>1, <1>5, <1>6
<1> QED
  BY <1>4, <1>6 DEF places

-----------------------------------------------------------------------------
(* The steps of the router.                                                *)

\* Calls are numbers that were given out.
LEMMA Given ==
  ASSUME LazyInv
  PROVE  \A c : \/ c \in ToSet(router_q) \/ c \in ToSet(lazy_q) \/ c \in ToSet(waking.queue)
                \/ c \in ToSet(waker.out) \/ c \in failed \/ c \in ToSet(routed)
                \/ (c = router.call /\ c # 0)
                => c \in Nat /\ c # 0 /\ c <= next /\ c \in Calls
<1>1. next \in Nat /\ MaxCalls \in Nat /\ next <= MaxCalls
  BY Bounds DEF LazyInv, Queues
<1>2. \A c \in 1..next : c \in Nat /\ c # 0 /\ c <= next /\ c \in Calls
  BY <1>1 DEF Calls
<1> QED
  BY <1>2 DEF LazyInv, Placed, Split

\* The calls do not move.
LEMMA CallsStay ==
  ASSUME LazyInv, UNCHANGED <<router_q, router, lazy_q, waking, waker, routed, failed, next>>,
         gate' = [on |-> gate'.on, allowed |-> gate'.allowed], gate'.allowed \subseteq Calls,
         registered' \in {"no", "serves", "other"}, last_used' \in {"never", "fresh", "idle"}
  PROVE  LazyInv'
<1>1. Shape'
  BY DEF LazyInv, Shape
<1>2. Queues'
  BY DEF LazyInv, Queues
<1>3. Holders'
  BY DEF LazyInv, Holders
<1>4. Placed'
  BY DEF LazyInv, Placed
<1> QED
  BY <1>1, <1>2, <1>3, <1>4 DEF LazyInv

\* A call arrives.
LEMMA ArriveStep == ASSUME LazyInv, Arrive PROVE LazyInv'
<1>1. /\ next \in Nat /\ next < MaxCalls /\ MaxCalls \in Nat /\ Queue(router_q)
      /\ Len(router_q) < RouterCap /\ RouterCap \in Nat /\ Len(router_q) \in Nat
      /\ next' = next + 1 /\ router_q' = Append(router_q, next + 1)
      /\ UNCHANGED <<router, lazy_q, waking, waker, routed, failed, gate, registered, last_used>>
  BY Bounds DEF LazyInv, Queues, Queue, Arrive, history, plugin
<1>2. next + 1 \in Nat /\ next + 1 # 0 /\ 1..(next + 1) = 1..next \cup {next + 1} /\ next + 1 \notin 1..next
  BY <1>1
<1>3. next + 1 \notin ToSet(router_q)
  BY <1>1, Given
<1>4. /\ Queue(router_q') /\ ToSet(router_q') = ToSet(router_q) \cup {next + 1}
      /\ Len(router_q') = Len(router_q) + 1
  BY <1>1, <1>2, <1>3, QueueAppend
<1>5. Shape' /\ Holders'
  BY <1>1 DEF LazyInv, Shape, Holders
<1>6. Queues'
  BY <1>1, <1>4 DEF LazyInv, Queues
<1>7. Placed'
  BY <1>1, <1>2, <1>4 DEF LazyInv, Placed, Split
<1> QED
  BY <1>5, <1>6, <1>7 DEF LazyInv

\* The router takes the next frame.
LEMMA LookupStep == ASSUME LazyInv, RouterLookup PROVE LazyInv'
<1>1. PICK c : c = Head(router_q)
  OBVIOUS
<1>2. /\ router.call = 0 /\ Queue(router_q) /\ router_q # <<>> /\ router_q' = Tail(router_q)
      /\ router' = [pc |-> find_action_provider, call |-> c, inst |-> inst]
      /\ UNCHANGED <<lazy_q, waking, waker, gate, last_used, registered, next, routed, failed>>
  BY <1>1 DEF LazyInv, Holders, Queues, RouterLookup, history, plugin
<1>3. /\ Queue(router_q') /\ ToSet(router_q') = ToSet(router_q) \ {c} /\ c \in ToSet(router_q)
      /\ Len(router_q') = Len(router_q) - 1 /\ Len(router_q) \in Nat
  BY <1>1, <1>2, QueueTail
<1>4. c \in Nat /\ c # 0
  BY <1>3, Given
<1>5. find_action_provider \in {"found", "dormant"}
  BY DEF find_action_provider
<1>6. router'.pc \in {"found", "dormant"} /\ router'.call = c
  BY <1>2, <1>5
<1>7. Shape'
  BY <1>2, <1>4, <1>6 DEF LazyInv, Shape
<1>8. Queues'
  BY <1>2, <1>3, Bounds DEF LazyInv, Queues
<1>9. Holders'
  BY <1>2, <1>4, <1>6 DEF LazyInv, Holders
<1>10. Placed'
  BY <1>2, <1>3, <1>4, <1>6 DEF LazyInv, Placed, Split
<1> QED
  BY <1>7, <1>8, <1>9, <1>10 DEF LazyInv

\* The gate decides; the router keeps the call.
LEMMA GateStep == ASSUME LazyInv, RouterGate PROVE LazyInv'
<1>1. /\ UNCHANGED <<router_q, lazy_q, waking, waker, last_used, registered, next, routed, failed>>
      /\ router.pc = "found"
  BY DEF RouterGate, history, plugin
<1>2. /\ router'.pc \in {"route", "dormant"} /\ router'.call = router.call
      /\ router' = [pc |-> router'.pc, call |-> router'.call, inst |-> router'.inst]
  BY DEF LazyInv, Shape, RouterGate
<1>3. gate' = [on |-> gate'.on, allowed |-> gate'.allowed] /\ gate'.allowed \subseteq Calls
  BY DEF LazyInv, Shape, RouterGate
<1>4. Shape'
  BY <1>1, <1>2, <1>3 DEF LazyInv, Shape
<1>5. Queues'
  BY <1>1 DEF LazyInv, Queues
<1>6. Holders'
  BY <1>1, <1>2 DEF LazyInv, Holders
<1>7. Placed'
  BY <1>1, <1>2 DEF LazyInv, Placed
<1> QED
  BY <1>4, <1>5, <1>6, <1>7 DEF LazyInv

\* The router is done with its call.
LEMMA IdleFacts ==
  /\ RouterIdle.pc = "idle" /\ RouterIdle.call = 0
  /\ RouterIdle = [pc |-> RouterIdle.pc, call |-> RouterIdle.call, inst |-> RouterIdle.inst]
  BY DEF RouterIdle

\* The call is refused.
LEMMA RefuseStep == ASSUME LazyInv, RouterRefuse PROVE LazyInv'
<1>1. /\ UNCHANGED <<router_q, lazy_q, waking, waker, gate, last_used, registered, next, routed>>
      /\ failed' = failed \cup {router.call} /\ router' = RouterIdle /\ router.call # 0
  BY DEF LazyInv, Holders, RouterRefuse, plugin
<1>2. Shape'
  BY <1>1, IdleFacts DEF LazyInv, Shape
<1>3. Queues'
  BY <1>1 DEF LazyInv, Queues
<1>4. Holders'
  BY <1>1, IdleFacts DEF LazyInv, Holders
<1>5. Placed'
  BY <1>1, IdleFacts DEF LazyInv, Placed, Split
<1> QED
  BY <1>2, <1>3, <1>4, <1>5 DEF LazyInv

\* The call is sent to the plugin.
LEMMA RouteStep == ASSUME LazyInv, RouterRoute PROVE LazyInv'
<1>1. PICK c : c = router.call
  OBVIOUS
<1>2. /\ UNCHANGED <<router_q, lazy_q, waking, waker, gate, registered, next, failed>>
      /\ routed' = Append(routed, c) /\ router' = RouterIdle /\ c # 0 /\ last_used' = "fresh"
      /\ Queue(routed)
  BY <1>1 DEF LazyInv, Holders, Queues, RouterRoute, plugin
<1>3. c \in Nat /\ c \notin ToSet(routed)
  BY <1>1, <1>2, Given DEF LazyInv, Placed, Split
<1>4. Queue(routed') /\ ToSet(routed') = ToSet(routed) \cup {c}
  BY <1>2, <1>3, QueueAppend
<1>5. Shape'
  BY <1>2, IdleFacts DEF LazyInv, Shape
<1>6. Queues'
  BY <1>2, <1>4 DEF LazyInv, Queues
<1>7. Holders'
  BY <1>2, IdleFacts DEF LazyInv, Holders
<1>8. Placed'
  BY <1>1, <1>2, <1>4, IdleFacts DEF LazyInv, Placed, Split
<1> QED
  BY <1>5, <1>6, <1>7, <1>8 DEF LazyInv

\* The call is handed to the waker, or fails when its channel is full.
LEMMA HandStep == ASSUME LazyInv, RouterHand PROVE LazyInv'
<1>1. PICK c : c = router.call
  OBVIOUS
<1>2. /\ UNCHANGED <<router_q, waking, waker, gate, registered, last_used, next, routed>>
      /\ router' = RouterIdle /\ c # 0 /\ Queue(lazy_q) /\ Len(lazy_q) \in Nat
  <2>1. /\ UNCHANGED <<router_q, waking, waker, gate, registered, last_used, next, routed>>
        /\ router' = RouterIdle /\ router.pc = "dormant"
    BY DEF RouterHand, plugin
  <2>2. c # 0
    BY <1>1, <2>1 DEF LazyInv, Holders
  <2>3. Queue(lazy_q) /\ Len(lazy_q) \in Nat
    BY DEF LazyInv, Queues, Queue
  <2> QED
    BY <2>1, <2>2, <2>3
<1>3. c \in Nat /\ c \notin ToSet(lazy_q)
  BY <1>1, <1>2, Given DEF LazyInv, Placed, Split
<1>4. Shape' /\ Holders'
  BY <1>2, IdleFacts DEF LazyInv, Shape, Holders
<1>5. CASE Len(lazy_q) < LazyCap
  <2>1. lazy_q' = Append(lazy_q, c) /\ failed' = failed
    BY <1>1, <1>5 DEF RouterHand
  <2>2. Queue(lazy_q') /\ ToSet(lazy_q') = ToSet(lazy_q) \cup {c} /\ Len(lazy_q') = Len(lazy_q) + 1
    BY <1>2, <1>3, <2>1, QueueAppend
  <2>3. Queues'
    BY <1>2, <1>5, <2>2, Bounds DEF LazyInv, Queues
  <2>4. Placed'
    BY <1>1, <1>2, <2>1, <2>2, IdleFacts DEF LazyInv, Placed, Split
  <2> QED
    BY <1>4, <2>3, <2>4 DEF LazyInv
<1>6. CASE ~(Len(lazy_q) < LazyCap)
  <2>1. lazy_q' = lazy_q /\ failed' = failed \cup {c}
    BY <1>1, <1>6 DEF RouterHand
  <2>2. Queues'
    BY <1>2, <2>1 DEF LazyInv, Queues
  <2>3. Placed'
    BY <1>1, <1>2, <2>1, IdleFacts DEF LazyInv, Placed, Split
  <2> QED
    BY <1>4, <2>2, <2>3 DEF LazyInv
<1> QED
  BY <1>5, <1>6

-----------------------------------------------------------------------------
(* The steps of the waker.                                                 *)

\* The waker takes the next request.
LEMMA TakeRequest ==
  ASSUME LazyInv, lazy_q # <<>>, NEW c, c = Head(lazy_q), lazy_q' = Tail(lazy_q)
  PROVE  /\ Queue(lazy_q') /\ Len(lazy_q') <= LazyCap /\ c \in Nat /\ c # 0 /\ c \in ToSet(lazy_q)
         /\ ToSet(lazy_q') = ToSet(lazy_q) \ {c}
<1>1. Queue(lazy_q) /\ Len(lazy_q) <= LazyCap /\ LazyCap \in Nat
  BY Bounds DEF LazyInv, Queues
<1>2. /\ Queue(lazy_q') /\ ToSet(lazy_q') = ToSet(lazy_q) \ {c} /\ c \in ToSet(lazy_q)
      /\ Len(lazy_q') = Len(lazy_q) - 1 /\ Len(lazy_q) \in Nat
  BY <1>1, QueueTail
<1>3. c \in Nat /\ c # 0
  BY <1>2, Given
<1> QED
  BY <1>1, <1>2, <1>3

\* No wake: nothing is held.
LEMMA AsleepFacts ==
  /\ Asleep = [on |-> Asleep.on, queue |-> Asleep.queue, starting |-> Asleep.starting,
               want_stop |-> Asleep.want_stop, stopping |-> Asleep.stopping]
  /\ Asleep.on = FALSE /\ Asleep.queue = <<>>
  BY DEF Asleep

\* The request joins the wake that is under way.
LEMMA QueuedStep == ASSUME LazyInv, WakeQueued PROVE LazyInv'
<1>1. PICK c : c = Head(lazy_q)
  OBVIOUS
<1>2. /\ UNCHANGED <<router_q, router, waker, gate, registered, last_used, next, routed>>
      /\ lazy_q # <<>> /\ lazy_q' = Tail(lazy_q) /\ waking.on /\ waker.pc = "idle"
  BY DEF WakeQueued, WakerIdle, plugin
<1>3. /\ Queue(lazy_q') /\ Len(lazy_q') <= LazyCap /\ c \in Nat /\ c # 0 /\ c \in ToSet(lazy_q)
      /\ ToSet(lazy_q') = ToSet(lazy_q) \ {c}
  BY <1>1, <1>2, TakeRequest
<1>4. Queue(waking.queue) /\ Len(waking.queue) \in Nat /\ c \notin ToSet(waking.queue)
  BY <1>3 DEF LazyInv, Queues, Queue, Placed, Split
<1>5. CASE Len(waking.queue) < MaxQueued
  <2>1. waking' = [waking EXCEPT !.queue = Append(@, c)] /\ failed' = failed
    BY <1>1, <1>5 DEF WakeQueued
  <2>2. /\ waking'.queue = Append(waking.queue, c) /\ waking'.on = waking.on
        /\ waking' = [on |-> waking'.on, queue |-> waking'.queue, starting |-> waking'.starting,
                      want_stop |-> waking'.want_stop, stopping |-> waking'.stopping]
    BY <2>1 DEF LazyInv, Shape
  <2>3. /\ Queue(waking'.queue) /\ ToSet(waking'.queue) = ToSet(waking.queue) \cup {c}
        /\ Len(waking'.queue) = Len(waking.queue) + 1
    BY <1>3, <1>4, <2>2, QueueAppend
  <2>4. Shape'
    BY <1>2, <2>2 DEF LazyInv, Shape
  <2>5. Queues'
    BY <1>2, <1>3, <1>4, <1>5, <2>3, Bounds DEF LazyInv, Queues
  <2>6. Holders'
    BY <1>2, <2>2 DEF LazyInv, Holders
  <2>7. Placed'
    BY <1>2, <1>3, <2>1, <2>3 DEF LazyInv, Placed, Split
  <2> QED
    BY <2>4, <2>5, <2>6, <2>7 DEF LazyInv
<1>6. CASE ~(Len(waking.queue) < MaxQueued)
  <2>1. waking' = waking /\ failed' = failed \cup {c}
    BY <1>1, <1>6 DEF WakeQueued
  <2>2. Shape' /\ Holders'
    BY <1>2, <2>1 DEF LazyInv, Shape, Holders
  <2>3. Queues'
    BY <1>2, <1>3, <2>1 DEF LazyInv, Queues
  <2>4. Placed'
    BY <1>2, <1>3, <2>1 DEF LazyInv, Placed, Split
  <2> QED
    BY <2>2, <2>3, <2>4 DEF LazyInv
<1> QED
  BY <1>5, <1>6

\* The request goes straight back to the router, or fails.
LEMMA RegisteredStep == ASSUME LazyInv, WakeRegistered PROVE LazyInv'
<1>1. PICK c : c = Head(lazy_q)
  OBVIOUS
<1>2. /\ UNCHANGED <<router_q, router, waking, gate, registered, last_used, next, routed>>
      /\ lazy_q # <<>> /\ lazy_q' = Tail(lazy_q) /\ ~waking.on /\ waker.out = <<>>
  BY DEF LazyInv, Holders, WakeRegistered, WakerIdle, plugin
<1>3. /\ Queue(lazy_q') /\ Len(lazy_q') <= LazyCap /\ c \in Nat /\ c # 0 /\ c \in ToSet(lazy_q)
      /\ ToSet(lazy_q') = ToSet(lazy_q) \ {c}
  BY <1>1, <1>2, TakeRequest
<1>4. CASE registered = "serves"
  <2>1. waker' = [pc |-> "reinject", out |-> <<c>>] /\ failed' = failed
    BY <1>1, <1>4 DEF WakeRegistered
  <2>2. waker'.pc = "reinject" /\ waker'.out = <<c>>
    BY <2>1
  <2>3. Queue(waker'.out) /\ ToSet(waker'.out) = {c}
    BY <1>3, <2>2, QueueOne
  <2>4. Shape' /\ Holders'
    BY <1>2, <2>1, <2>2 DEF LazyInv, Shape, Holders
  <2>5. Queues'
    BY <1>2, <1>3, <2>3 DEF LazyInv, Queues
  <2>6. Placed'
    BY <1>2, <1>3, <2>1, <2>3, QueueEmpty DEF LazyInv, Placed, Split
  <2> QED
    BY <2>4, <2>5, <2>6 DEF LazyInv
<1>5. CASE registered # "serves"
  <2>1. waker' = waker /\ failed' = failed \cup {c}
    BY <1>1, <1>5 DEF WakeRegistered
  <2>2. Shape' /\ Holders'
    BY <1>2, <2>1 DEF LazyInv, Shape, Holders
  <2>3. Queues'
    BY <1>2, <1>3, <2>1 DEF LazyInv, Queues
  <2>4. Placed'
    BY <1>2, <1>3, <2>1 DEF LazyInv, Placed, Split
  <2> QED
    BY <2>2, <2>3, <2>4 DEF LazyInv
<1> QED
  BY <1>4, <1>5

\* The first request starts the plugin.
LEMMA StartStep == ASSUME LazyInv, WakeStart PROVE LazyInv'
<1>1. PICK c : c = Head(lazy_q)
  OBVIOUS
<1>2. /\ UNCHANGED <<router_q, router, waker, registered, next, routed, failed>>
      /\ lazy_q # <<>> /\ lazy_q' = Tail(lazy_q) /\ waking.queue = <<>> /\ waker.pc = "idle"
      /\ last_used' = "fresh"
      /\ waking' = [[Asleep EXCEPT !.on = TRUE, !.queue = <<c>>] EXCEPT !.starting = TRUE]
      /\ gate' = [gate EXCEPT !.on = TRUE]
  BY <1>1 DEF LazyInv, Holders, WakeStart, WakerIdle, spawn_start, lazy_gate_hold, history, plugin
<1>3. /\ Queue(lazy_q') /\ Len(lazy_q') <= LazyCap /\ c \in Nat /\ c # 0 /\ c \in ToSet(lazy_q)
      /\ ToSet(lazy_q') = ToSet(lazy_q) \ {c}
  BY <1>1, <1>2, TakeRequest
<1>4. /\ waking'.queue = <<c>> /\ waking'.on = TRUE
      /\ waking' = [on |-> waking'.on, queue |-> waking'.queue, starting |-> waking'.starting,
                    want_stop |-> waking'.want_stop, stopping |-> waking'.stopping]
  BY <1>2 DEF Asleep
<1>5. Queue(waking'.queue) /\ ToSet(waking'.queue) = {c} /\ Len(waking'.queue) <= MaxQueued
  BY <1>3, <1>4, QueueOne, Bounds
<1>6. gate' = [on |-> gate'.on, allowed |-> gate'.allowed] /\ gate'.allowed \subseteq Calls
  BY <1>2 DEF LazyInv, Shape
<1>7. Shape'
  BY <1>2, <1>4, <1>6 DEF LazyInv, Shape
<1>8. Queues'
  BY <1>2, <1>3, <1>5 DEF LazyInv, Queues
<1>9. Holders'
  BY <1>2, <1>4 DEF LazyInv, Holders
<1>10. Placed'
  BY <1>2, <1>3, <1>5, QueueEmpty DEF LazyInv, Placed, Split
<1> QED
  BY <1>7, <1>8, <1>9, <1>10 DEF LazyInv

\* The wake keeps its queue, and the gate its allowances or none.
LEMMA WakingStays ==
  ASSUME LazyInv, UNCHANGED <<router_q, router, lazy_q, registered, last_used, next, routed, failed>>,
         waking'.queue = waking.queue, waking'.on = waking.on,
         waking' = [on |-> waking'.on, queue |-> waking'.queue, starting |-> waking'.starting,
                    want_stop |-> waking'.want_stop, stopping |-> waking'.stopping],
         gate' = [on |-> gate'.on, allowed |-> gate'.allowed], gate'.allowed \subseteq Calls,
         waker' = waker
  PROVE  LazyInv'
<1>1. Shape'
  BY DEF LazyInv, Shape
<1>2. Queues'
  BY DEF LazyInv, Queues
<1>3. Holders'
  BY DEF LazyInv, Holders
<1>4. Placed'
  BY DEF LazyInv, Placed
<1> QED
  BY <1>1, <1>2, <1>3, <1>4 DEF LazyInv

\* The queue of the wake fails.
LEMMA WakingFails ==
  ASSUME LazyInv, UNCHANGED <<router_q, router, lazy_q, registered, last_used, next, routed>>,
         waking'.queue = <<>>, waking'.on \in BOOLEAN, waker.pc # "sweep",
         waking' = [on |-> waking'.on, queue |-> waking'.queue, starting |-> waking'.starting,
                    want_stop |-> waking'.want_stop, stopping |-> waking'.stopping],
         gate' = NoGate, waker' = waker, failed' = failed \cup ToSet(waking.queue)
  PROVE  LazyInv'
<1>1. gate' = [on |-> gate'.on, allowed |-> gate'.allowed] /\ gate'.allowed \subseteq Calls
  BY DEF NoGate
<1>2. Shape'
  BY <1>1 DEF LazyInv, Shape
<1>3. Queues'
  BY QueueEmpty, Bounds DEF LazyInv, Queues
<1>4. Holders'
  BY DEF LazyInv, Holders
<1>5. Placed'
  BY QueueEmpty DEF LazyInv, Placed, Split
<1> QED
  BY <1>2, <1>3, <1>4, <1>5 DEF LazyInv

\* A start has returned.
LEMMA StartResultStep == ASSUME LazyInv, on_start_result PROVE LazyInv'
<1>1. /\ UNCHANGED <<router_q, router, lazy_q, waker, registered, last_used, next, routed>>
      /\ waker.pc = "idle"
  BY DEF on_start_result, WakerIdle, plugin
<1>2. gate = [on |-> gate.on, allowed |-> gate.allowed] /\ gate.allowed \subseteq Calls
  BY DEF LazyInv, Shape
<1>3. CASE waking' = Asleep /\ gate' = NoGate /\ failed' = failed \cup ToSet(waking.queue)
  <2>1. /\ waking'.queue = <<>> /\ waking'.on \in BOOLEAN
        /\ waking' = [on |-> waking'.on, queue |-> waking'.queue, starting |-> waking'.starting,
                      want_stop |-> waking'.want_stop, stopping |-> waking'.stopping]
    BY <1>3, AsleepFacts
  <2> QED
    BY <1>1, <1>3, <2>1, WakingFails
<1>4. CASE gate' = gate /\ failed' = failed
           /\ waking' \in {waking, [waking EXCEPT !.starting = FALSE],
                           [[waking EXCEPT !.starting = FALSE] EXCEPT !.stopping = TRUE]}
  <2>1. /\ waking'.queue = waking.queue /\ waking'.on = waking.on
        /\ waking' = [on |-> waking'.on, queue |-> waking'.queue, starting |-> waking'.starting,
                      want_stop |-> waking'.want_stop, stopping |-> waking'.stopping]
    BY <1>4 DEF LazyInv, Shape
  <2> QED
    BY <1>1, <1>2, <1>4, <2>1, WakingStays
<1> QED
  BY <1>3, <1>4 DEF on_start_result, spawn_stop, lazy_gate_release, Failed

\* A stop has ended.
LEMMA StoppedStep == ASSUME LazyInv, on_stopped PROVE LazyInv'
<1>1. /\ UNCHANGED <<router_q, router, lazy_q, waker, registered, last_used, next, routed, failed>>
      /\ waker.pc = "idle"
  BY DEF on_stopped, WakerIdle, plugin, history
<1>2. gate = [on |-> gate.on, allowed |-> gate.allowed] /\ gate.allowed \subseteq Calls
  BY DEF LazyInv, Shape
<1>3. CASE waking.queue = <<>> /\ waking' = Asleep /\ gate' = NoGate
  <2>1. /\ waking'.queue = <<>> /\ waking'.on \in BOOLEAN
        /\ waking' = [on |-> waking'.on, queue |-> waking'.queue, starting |-> waking'.starting,
                      want_stop |-> waking'.want_stop, stopping |-> waking'.stopping]
    BY <1>3, AsleepFacts
  <2>2. failed' = failed \cup ToSet(waking.queue)
    BY <1>1, <1>3, QueueEmpty
  <2> QED
    BY <1>1, <1>3, <2>1, <2>2, WakingFails
<1>4. CASE gate' = gate /\ waking' = waking
  <2>1. registered' \in {"no", "serves", "other"} /\ last_used' \in {"never", "fresh", "idle"}
    BY <1>1 DEF LazyInv, Shape
  <2> QED
    BY <1>1, <1>2, <1>4, <2>1, CallsStay
<1>5. CASE /\ gate' = [gate EXCEPT !.on = TRUE]
           /\ waking' = [[waking EXCEPT !.stopping = FALSE, !.want_stop = FALSE] EXCEPT !.starting = TRUE]
  <2>1. /\ waking'.queue = waking.queue /\ waking'.on = waking.on
        /\ waking' = [on |-> waking'.on, queue |-> waking'.queue, starting |-> waking'.starting,
                      want_stop |-> waking'.want_stop, stopping |-> waking'.stopping]
    BY <1>5 DEF LazyInv, Shape
  <2>2. gate' = [on |-> gate'.on, allowed |-> gate'.allowed] /\ gate'.allowed \subseteq Calls
    BY <1>2, <1>5
  <2> QED
    BY <1>1, <2>1, <2>2, WakingStays
<1> QED
  BY <1>3, <1>4, <1>5 DEF on_stopped, spawn_start, lazy_gate_release, lazy_gate_hold

\* The plugin has registered: its queue moves to the waker's way out.
LEMMA ReadyStep == ASSUME LazyInv, PollReady PROVE LazyInv'
<1>1. /\ UNCHANGED <<router_q, router, lazy_q, gate, registered, last_used, next, routed, failed>>
      /\ waker.out = <<>> /\ waking' = Asleep
      /\ waker' = [pc |-> "reinject", out |-> waking.queue]
  BY DEF LazyInv, Holders, PollReady, Polling, WakerIdle, plugin
<1>2. waker'.pc = "reinject" /\ waker'.out = waking.queue /\ waking'.queue = <<>> /\ waking'.on = FALSE
  BY <1>1, AsleepFacts
<1>3. Shape'
  BY <1>1, <1>2, AsleepFacts DEF LazyInv, Shape
<1>4. Queues'
  BY <1>1, <1>2, QueueEmpty, Bounds DEF LazyInv, Queues
<1>5. Holders'
  BY <1>1, <1>2 DEF LazyInv, Holders
<1>6. Placed'
  BY <1>1, <1>2, QueueEmpty DEF LazyInv, Placed, Split
<1> QED
  BY <1>3, <1>4, <1>5, <1>6 DEF LazyInv

\* The plugin did not register in time.
LEMMA ExpiredStep == ASSUME LazyInv, PollExpired PROVE LazyInv'
<1>1. /\ UNCHANGED <<router_q, router, lazy_q, waker, registered, last_used, next, routed>>
      /\ waker.pc # "sweep" /\ gate' = NoGate /\ failed' = failed \cup ToSet(waking.queue)
  BY DEF PollExpired, Polling, WakerIdle, Failed, lazy_gate_release, plugin
<1>2. waking' \in {[waking EXCEPT !.queue = <<>>, !.want_stop = TRUE],
                   [[waking EXCEPT !.queue = <<>>, !.want_stop = TRUE] EXCEPT !.stopping = TRUE]}
  BY DEF PollExpired, spawn_stop
<1>3. /\ waking'.queue = <<>> /\ waking'.on \in BOOLEAN
      /\ waking' = [on |-> waking'.on, queue |-> waking'.queue, starting |-> waking'.starting,
                    want_stop |-> waking'.want_stop, stopping |-> waking'.stopping]
  BY <1>2 DEF LazyInv, Shape
<1> QED
  BY <1>1, <1>3, WakingFails

\* One call goes back to the router.
LEMMA ReinjectStep == ASSUME LazyInv, Reinject PROVE LazyInv'
<1>1. PICK c : c = Head(waker.out)
  OBVIOUS
<1>2. /\ UNCHANGED <<router, lazy_q, waking, registered, last_used, next, routed, failed>>
      /\ waker.pc = "reinject" /\ waker.out # <<>> /\ Queue(waker.out)
      /\ Len(router_q) < RouterCap /\ RouterCap \in Nat /\ Queue(router_q) /\ Len(router_q) \in Nat
      /\ router_q' = Append(router_q, c) /\ waker' = [waker EXCEPT !.out = Tail(@)]
      /\ gate' = IF gate.on THEN [gate EXCEPT !.allowed = @ \cup {c}] ELSE gate
  BY <1>1, Bounds DEF LazyInv, Queues, Queue, Reinject, lazy_gate_allow, history, plugin
<1>3. /\ waker'.pc = "reinject" /\ waker'.out = Tail(waker.out)
      /\ waker' = [pc |-> waker'.pc, out |-> waker'.out]
  BY <1>2 DEF LazyInv, Shape
<1>4. Queue(waker'.out) /\ ToSet(waker'.out) = ToSet(waker.out) \ {c} /\ c \in ToSet(waker.out)
  BY <1>1, <1>2, <1>3, QueueTail
<1>5. c \in Nat /\ c # 0 /\ c \in Calls /\ c \notin ToSet(router_q)
  BY <1>4, Given DEF LazyInv, Placed, Split
<1>6. /\ Queue(router_q') /\ ToSet(router_q') = ToSet(router_q) \cup {c}
      /\ Len(router_q') = Len(router_q) + 1
  BY <1>2, <1>5, QueueAppend
<1>7. gate' = [on |-> gate'.on, allowed |-> gate'.allowed] /\ gate'.allowed \subseteq Calls
  BY <1>2, <1>5 DEF LazyInv, Shape
<1>8. Shape'
  BY <1>2, <1>3, <1>7 DEF LazyInv, Shape
<1>9. Queues'
  BY <1>2, <1>4, <1>6 DEF LazyInv, Queues
<1>10. Holders'
  BY <1>2, <1>3 DEF LazyInv, Holders
<1>11. Placed'
  BY <1>2, <1>4, <1>6 DEF LazyInv, Placed, Split
<1> QED
  BY <1>8, <1>9, <1>10, <1>11 DEF LazyInv

\* The waker is done with its queue, or looks at an idle plugin.
LEMMA WakerPcStep == ASSUME LazyInv, Reinjected \/ SweepCheck PROVE LazyInv'
<1>1. /\ UNCHANGED <<router_q, router, lazy_q, waking, gate, registered, last_used, next, routed, failed>>
      /\ waker.out = <<>> /\ (SweepCheck => ~waking.on)
      /\ waker' = [waker EXCEPT !.pc = "idle"] \/ (SweepCheck /\ waker' = [waker EXCEPT !.pc = "sweep"])
  BY DEF LazyInv, Holders, Reinjected, SweepCheck, Sweeping, WakerIdle, history, plugin
<1>2. /\ waker'.pc = "idle" \/ (waker'.pc = "sweep" /\ ~waking.on)
      /\ waker'.out = waker.out /\ waker' = [pc |-> waker'.pc, out |-> waker'.out]
  BY <1>1 DEF LazyInv, Shape
<1>3. Shape'
  BY <1>1, <1>2 DEF LazyInv, Shape
<1>4. Queues'
  BY <1>1, <1>2 DEF LazyInv, Queues
<1>5. Holders'
  BY <1>1, <1>2 DEF LazyInv, Holders
<1>6. Placed'
  BY <1>1, <1>2 DEF LazyInv, Placed
<1> QED
  BY <1>3, <1>4, <1>5, <1>6 DEF LazyInv

\* An idle plugin is stopped.
LEMMA SweepStopStep == ASSUME LazyInv, SweepStop PROVE LazyInv'
<1>1. /\ UNCHANGED <<router_q, router, lazy_q, registered, last_used, next, routed, failed>>
      /\ waker.out = <<>> /\ waking.queue = <<>> /\ gate' = [gate EXCEPT !.on = TRUE]
      /\ waking' = [[Asleep EXCEPT !.on = TRUE] EXCEPT !.stopping = TRUE]
      /\ waker' = [waker EXCEPT !.pc = "idle"]
  BY DEF LazyInv, Holders, SweepStop, spawn_stop, lazy_gate_hold, history, plugin
<1>2. /\ waker'.pc = "idle" /\ waker'.out = waker.out /\ waker' = [pc |-> waker'.pc, out |-> waker'.out]
      /\ gate' = [on |-> gate'.on, allowed |-> gate'.allowed] /\ gate'.allowed \subseteq Calls
  BY <1>1 DEF LazyInv, Shape
<1>3. /\ waking'.on = TRUE /\ waking'.queue = <<>>
      /\ waking' = [on |-> waking'.on, queue |-> waking'.queue, starting |-> waking'.starting,
                    want_stop |-> waking'.want_stop, stopping |-> waking'.stopping]
  BY <1>1 DEF Asleep
<1>4. Shape'
  BY <1>1, <1>2, <1>3 DEF LazyInv, Shape
<1>5. Queues'
  BY <1>1, <1>2, <1>3 DEF LazyInv, Queues
<1>6. Holders'
  BY <1>1, <1>2, <1>3 DEF LazyInv, Holders
<1>7. Placed'
  BY <1>1, <1>2, <1>3 DEF LazyInv, Placed
<1> QED
  BY <1>4, <1>5, <1>6, <1>7 DEF LazyInv

\* Every other step leaves the calls where they are.
LEMMA OtherStep ==
  ASSUME LazyInv, \/ Exits \/ Registers \/ Answers \/ Tick \/ Starting \/ StopEnds
                  \/ PollTrim \/ PollStale \/ SweepTouch \/ Quiet \/ UNCHANGED vars
  PROVE  LazyInv'
<1>1. UNCHANGED <<router_q, router, lazy_q, waking, waker, routed, failed, next>>
  BY DEF Exits, Registers, Answers, Tick, Starting, StartSpawns, StartFails, StartReturns, StopEnds,
         PollTrim, PollStale, SweepTouch, Quiet, vars, history
<1>2. registered' \in {"no", "serves", "other"} /\ last_used' \in {"never", "fresh", "idle"}
  BY DEF LazyInv, Shape, Exits, Registers, Answers, Tick, Starting, StartSpawns, StartFails,
         StartReturns, StopEnds, PollTrim, PollStale, SweepTouch, Quiet, vars, plugin
<1>3. gate' = [on |-> gate'.on, allowed |-> gate'.allowed] /\ gate'.allowed \subseteq Calls
  <2>1. gate = [on |-> gate.on, allowed |-> gate.allowed] /\ gate.allowed \subseteq Calls
    BY DEF LazyInv, Shape
  <2>2. NoGate = [on |-> NoGate.on, allowed |-> NoGate.allowed] /\ NoGate.allowed \subseteq Calls
    BY DEF NoGate
  <2>3. CASE PollStale
    <3>1. PICK stale : gate' = IF stale = gate.allowed THEN NoGate
                               ELSE [gate EXCEPT !.allowed = @ \ stale]
      BY <2>3 DEF PollStale
    <3> QED
      BY <2>1, <2>2, <3>1
  <2>4. CASE gate' \in {gate, NoGate}
    BY <2>1, <2>2, <2>4
  <2> QED
    BY <2>3, <2>4 DEF Exits, Registers, Answers, Tick, Starting, StartSpawns, StartFails, StartReturns,
         StopEnds, PollTrim, lazy_gate_release, SweepTouch, Quiet, vars
<1> QED
  BY <1>1, <1>2, <1>3, CallsStay

\* The invariant is inductive.
LEMMA LazyStep == LazyInv /\ [Next]_vars => LazyInv'
  BY ArriveStep, LookupStep, GateStep, RefuseStep, RouteStep, HandStep, QueuedStep, RegisteredStep,
     StartStep, StartResultStep, StoppedStep, ReadyStep, ExpiredStep, ReinjectStep, WakerPcStep,
     SweepStopStep, OtherStep
  DEF Next, Routing, Waker

-----------------------------------------------------------------------------
(* The order of the calls that waited for a wake, while the plugin neither *)
(* exits by itself nor is swept, and no allowance goes stale. There is then*)
(* one drain at most: before it the calls are in line, from the wake's     *)
(* queue to the router's channel, and nothing was sent back; after it the  *)
(* plugin stays registered and the gate holds the others back.             *)

Calm == count.exits = 0 /\ count.sweeps = 0 /\ count.stale = 0

\* The rest of the state: counters, tasks and instances.
Rest ==
    /\ count = [exits |-> count.exits, sweeps |-> count.sweeps, stale |-> count.stale]
    /\ count.exits \in Nat /\ count.sweeps \in Nat /\ count.stale \in Nat
    /\ starts = [new |-> starts.new, spawned |-> starts.spawned]
    /\ starts.new \in Nat /\ starts.spawned \in Nat /\ stops \in Nat /\ stopped_q \in Nat
    /\ started_q \in Seq(BOOLEAN)
    /\ waking.starting \in BOOLEAN /\ waking.want_stop \in BOOLEAN /\ waking.stopping \in BOOLEAN
    /\ gate.on \in BOOLEAN /\ gate.allowed \subseteq 1..next
    /\ inst \in Nat /\ router.inst \in Nat /\ router.inst <= inst
    /\ registered # "no" => inst > 0
    /\ woken \in [Calls -> Nat]

\* The router finds the action with the instance that serves it.
FoundServes ==
    router.pc \in {"found", "route"} /\ router.inst = inst /\ registered # "no" =>
      registered = "serves"

Before == waking.on \/ registered = "no"

\* One start or one stop is under way, as the wake's record says; once a stop
\* has ended the plugin is down.
OneTask ==
    /\ starts.new + starts.spawned + Len(started_q) = IF waking.starting THEN 1 ELSE 0
    /\ stops + stopped_q = IF waking.stopping THEN 1 ELSE 0
    /\ waking.stopping => waking.want_stop /\ ~waking.starting
    /\ waking.starting \/ waking.want_stop => waking.on
    /\ stopped_q > 0 => ~up /\ registered = "no"

Ascending(s) == \A i, j \in 1..Len(s) : i < j => s[i] < s[j]
Below(S, T) == \A a \in S : \A b \in T : a < b
Hand == {router.call} \ {0}

\* Nothing was sent back yet, so the calls are in the order they came in.
InLine ==
    /\ Ascending(waking.queue) /\ Ascending(lazy_q) /\ Ascending(router_q)
    /\ Below(ToSet(waking.queue), ToSet(lazy_q) \cup Hand \cup ToSet(router_q))
    /\ Below(ToSet(lazy_q), Hand \cup ToSet(router_q))
    /\ Below(Hand, ToSet(router_q))

\* During a wake the gate is closed, for every call.
Closed ==
    /\ gate.allowed = {}
    /\ waking.on /\ ~waking.want_stop =>
         /\ gate.on
         /\ router.pc = "route" /\ registered # "no" => router.inst # inst

BeforeInv ==
    /\ \A c \in Calls : woken[c] = 0
    /\ waker.pc = "idle"
    /\ OneTask /\ InLine /\ Closed

\* The calls of the drain that are on their way.
Waiting == {x \in Calls : woken[x] = inst /\ ~Resolved(x)}

\* Where they are; the gate is on and lets them through.
Passing ==
    \A x \in Waiting :
      /\ \/ x \in ToSet(router_q) \/ x \in ToSet(waker.out)
         \/ x = router.call /\ router.pc \in {"found", "route"}
      /\ gate.on \/ (x = router.call /\ router.pc = "route")
      /\ x \in ToSet(router_q) \/ (x = router.call /\ router.pc = "found") => x \in gate.allowed

\* What passes, or may pass, the gate is not ahead of one that came earlier.
FirstInHand ==
    (\/ router.pc = "route" /\ router.inst = inst
     \/ router.pc = "found" /\ router.call \in gate.allowed) =>
      \A x \in Waiting : router.call <= x

Ordered ==
    /\ Ascending(waker.out)
    /\ \A i, j \in 1..Len(router_q) :
         i < j /\ router_q[j] \in Waiting /\ router_q[i] \in gate.allowed =>
           router_q[i] < router_q[j]
    /\ Below(ToSet(router_q) \cap gate.allowed, ToSet(waker.out) \cap Waiting)

Drain == Passing /\ FirstInHand /\ Ordered

AfterInv ==
    /\ waker.pc # "sweep" /\ stops = 0
    /\ registered = "serves" => Drain

OrderInv ==
    /\ Rest /\ FoundServes
    /\ Calm => (Before => BeforeInv) /\ (~Before => AfterInv)

\* The first call of a queue in order is ahead of the rest.
LEMMA AscendingTail ==
  ASSUME NEW s, Queue(s), s # <<>>, Ascending(s)
  PROVE  Ascending(Tail(s)) /\ Below({Head(s)}, ToSet(Tail(s)))
<1>1. s \in Seq(Nat) /\ \A i, j \in 1..Len(s) : i < j => s[i] < s[j]
  BY DEF Queue, Ascending
<1>2. PICK t : t = Tail(s)
  OBVIOUS
<1>3. /\ t \in Seq(Nat) /\ Len(t) = Len(s) - 1 /\ Len(s) \in Nat \ {0}
      /\ Head(s) = s[1] /\ \A i \in 1..Len(t) : t[i] = s[i + 1]
  BY <1>1, <1>2, HeadTailProperties, EmptySeq, LenProperties
<1>4. \A i \in 1..Len(t) : i + 1 \in 1..Len(s) /\ 1 < i + 1 /\ 1 \in 1..Len(s)
  BY <1>3
<1>5. ASSUME NEW i \in 1..Len(t), NEW j \in 1..Len(t), i < j PROVE t[i] < t[j]
  <2>1. i + 1 < j + 1 /\ i + 1 \in 1..Len(s) /\ j + 1 \in 1..Len(s)
    BY <1>4, <1>5
  <2>2. s[i + 1] < s[j + 1]
    BY <1>1, <2>1
  <2> QED
    BY <1>3, <2>2
<1>6. ASSUME NEW b \in ToSet(t) PROVE s[1] < b
  <2>1. PICK i \in 1..Len(t) : b = t[i]
    BY <1>3, <1>6, QueueSet
  <2>2. i + 1 \in 1..Len(s) /\ 1 < i + 1 /\ 1 \in 1..Len(s)
    BY <1>4
  <2>3. s[1] < s[i + 1]
    BY <1>1, <2>2
  <2> QED
    BY <1>3, <2>1, <2>3
<1> QED
  BY <1>2, <1>3, <1>5, <1>6 DEF Ascending, Below

\* A later call joins a queue in order.
LEMMA AscendingAppend ==
  ASSUME NEW s, Queue(s), NEW c \in Nat, Ascending(s), Below(ToSet(s), {c})
  PROVE  Ascending(Append(s, c))
<1>1. s \in Seq(Nat) /\ \A i, j \in 1..Len(s) : i < j => s[i] < s[j]
  BY DEF Queue, Ascending
<1>2. PICK a : a = Append(s, c)
  OBVIOUS
<1>3. /\ a \in Seq(Nat) /\ Len(a) = Len(s) + 1 /\ a[Len(s) + 1] = c /\ Len(s) \in Nat
      /\ \A i \in 1..Len(s) : a[i] = s[i]
  BY <1>1, <1>2, AppendProperties, LenProperties
<1>4. \A i \in 1..Len(s) : s[i] < c
  BY <1>1, QueueSet DEF Below
<1>5. ASSUME NEW i \in 1..Len(a), NEW j \in 1..Len(a), i < j PROVE a[i] < a[j]
  <2>1. i \in 1..Len(s) /\ (j \in 1..Len(s) \/ j = Len(s) + 1)
    BY <1>3, <1>5
  <2>2. CASE j \in 1..Len(s)
    BY <1>1, <1>3, <1>5, <2>1, <2>2
  <2>3. CASE j = Len(s) + 1
    BY <1>3, <1>4, <2>1, <2>3
  <2> QED
    BY <2>1, <2>2, <2>3
<1> QED
  BY <1>2, <1>5 DEF Ascending

\* Queues of one call or none are in order.
LEMMA AscendingShort == Ascending(<<>>) /\ \A c : Ascending(<<c>>)
<1>1. Len(<<>>) = 0 /\ \A c : Len(<<c>>) = 1
  OBVIOUS
<1>2. \A i, j \in 1..0 : i < j => FALSE
  OBVIOUS
<1>3. \A i, j \in 1..1 : i < j => FALSE
  OBVIOUS
<1> QED
  BY <1>1, <1>2, <1>3 DEF Ascending

-----------------------------------------------------------------------------
(* The rest of the state.                                                  *)

\* At first nothing is under way.
LEMMA RestInit == Init => Rest
<1> SUFFICES ASSUME Init PROVE Rest
  OBVIOUS
<1>1. <<>> \in Seq(BOOLEAN)
  OBVIOUS
<1>2. [c \in Calls |-> 0] \in [Calls -> Nat]
  OBVIOUS
<1> QED
  BY <1>1, <1>2 DEF Init, Rest, RouterIdle, Asleep, NoGate

\* The bounded events are counted, and never forgotten.
LEMMA CountStep ==
  ASSUME [Next]_vars
  PROVE  count' \in {count, [count EXCEPT !.exits = @ + 1], [count EXCEPT !.sweeps = @ + 1],
                     [count EXCEPT !.stale = @ + 1]}
<1>1. CASE PollStale
  BY <1>1 DEF PollStale
<1> QED
  BY <1>1 DEF Next, vars, history, Arrive, Routing, RouterLookup, RouterGate, RouterRoute, RouterHand,
     RouterRefuse, Exits, Registers, Answers, Tick, Starting, StartSpawns, StartFails, StartReturns,
     StopEnds, Waker, WakeQueued, WakeRegistered, WakeStart, on_start_result, on_stopped, PollReady,
     PollTrim, Reinject, Reinjected, SweepStop, PollExpired, SweepTouch, SweepCheck, Quiet

\* Counters, tasks, instances and the flags of the wake keep their types.
LEMMA RestStep == ASSUME LazyInv, Rest, [Next]_vars PROVE Rest'
<1>1. /\ count' = [exits |-> count'.exits, sweeps |-> count'.sweeps, stale |-> count'.stale]
      /\ count'.exits \in Nat /\ count'.sweeps \in Nat /\ count'.stale \in Nat
  <2>1. /\ count = [exits |-> count.exits, sweeps |-> count.sweeps, stale |-> count.stale]
        /\ count.exits \in Nat /\ count.sweeps \in Nat /\ count.stale \in Nat
    BY DEF Rest
  <2>2. CASE count' = count
    BY <2>1, <2>2
  <2>3. CASE count' = [count EXCEPT !.exits = @ + 1]
    BY <2>1, <2>3
  <2>4. CASE count' = [count EXCEPT !.sweeps = @ + 1]
    BY <2>1, <2>4
  <2>5. CASE count' = [count EXCEPT !.stale = @ + 1]
    BY <2>1, <2>5
  <2> QED
    BY <2>2, <2>3, <2>4, <2>5, CountStep
<1>2. /\ starts' = [new |-> starts'.new, spawned |-> starts'.spawned]
      /\ starts'.new \in Nat /\ starts'.spawned \in Nat
  <2>1. \/ starts' = starts \/ starts' = [starts EXCEPT !.new = @ + 1]
        \/ starts.new > 0 /\ starts' = [new |-> starts.new - 1, spawned |-> starts.spawned + 1]
        \/ starts.new > 0 /\ starts' = [starts EXCEPT !.new = @ - 1]
        \/ starts.spawned > 0 /\ starts' = [starts EXCEPT !.spawned = @ - 1]
    BY DEF Next, vars, tasks, Arrive, Routing, RouterLookup, RouterGate, RouterRoute, RouterHand,
         RouterRefuse, Exits, Registers, Answers, Tick, Starting, StartSpawns, StartFails, StartReturns,
         StopEnds, Waker, WakeQueued, WakeRegistered, WakeStart, on_start_result, on_stopped, PollReady,
         PollTrim, Reinject, Reinjected, SweepStop, PollExpired, SweepTouch, SweepCheck, Quiet,
         spawn_start, PollStale
  <2>2. /\ starts = [new |-> starts.new, spawned |-> starts.spawned]
        /\ starts.new \in Nat /\ starts.spawned \in Nat
    BY DEF Rest
  <2>3. CASE starts' = starts
    BY <2>2, <2>3
  <2>4. CASE starts' = [starts EXCEPT !.new = @ + 1]
    BY <2>2, <2>4
  <2>5. CASE starts.new > 0 /\ starts' = [new |-> starts.new - 1, spawned |-> starts.spawned + 1]
    BY <2>2, <2>5
  <2>6. CASE starts.new > 0 /\ starts' = [starts EXCEPT !.new = @ - 1]
    BY <2>2, <2>6
  <2>7. CASE starts.spawned > 0 /\ starts' = [starts EXCEPT !.spawned = @ - 1]
    BY <2>2, <2>7
  <2> QED
    BY <2>1, <2>3, <2>4, <2>5, <2>6, <2>7
<1>3. stops' \in Nat /\ stopped_q' \in Nat
  <2>1. stops' \in {stops, stops + 1} \/ (stops > 0 /\ stops' = stops - 1)
    BY DEF Next, vars, tasks, Arrive, Routing, RouterLookup, RouterGate, RouterRoute, RouterHand,
         RouterRefuse, Exits, Registers, Answers, Tick, Starting, StartSpawns, StartFails, StartReturns,
         StopEnds, Waker, WakeQueued, WakeRegistered, WakeStart, on_start_result, on_stopped, PollReady,
         PollTrim, Reinject, Reinjected, SweepStop, PollExpired, SweepTouch, SweepCheck, Quiet,
         spawn_stop, PollStale
  <2>2. stopped_q' \in {stopped_q, stopped_q + 1} \/ (stopped_q > 0 /\ stopped_q' = stopped_q - 1)
    BY DEF Next, vars, tasks, Arrive, Routing, RouterLookup, RouterGate, RouterRoute, RouterHand,
         RouterRefuse, Exits, Registers, Answers, Tick, Starting, StartSpawns, StartFails, StartReturns,
         StopEnds, Waker, WakeQueued, WakeRegistered, WakeStart, on_start_result, on_stopped, PollReady,
         PollTrim, Reinject, Reinjected, SweepStop, PollExpired, SweepTouch, SweepCheck, Quiet, PollStale
  <2>3. stops \in Nat /\ stopped_q \in Nat
    BY DEF Rest
  <2>4. stops' \in Nat
    BY <2>1, <2>3
  <2>5. stopped_q' \in Nat
    BY <2>2, <2>3
  <2> QED
    BY <2>4, <2>5
<1>4. started_q' \in Seq(BOOLEAN)
  <2>1. \/ started_q' = started_q \/ (started_q # <<>> /\ started_q' = Tail(started_q))
        \/ started_q' = Append(started_q, TRUE) \/ started_q' = Append(started_q, FALSE)
    BY DEF Next, vars, tasks, Arrive, Routing, RouterLookup, RouterGate, RouterRoute, RouterHand,
         RouterRefuse, Exits, Registers, Answers, Tick, Starting, StartSpawns, StartFails, StartReturns,
         StopEnds, Waker, WakeQueued, WakeRegistered, WakeStart, on_start_result, on_stopped, PollReady,
         PollTrim, Reinject, Reinjected, SweepStop, PollExpired, SweepTouch, SweepCheck, Quiet, PollStale
  <2>2. started_q \in Seq(BOOLEAN) /\ TRUE \in BOOLEAN /\ FALSE \in BOOLEAN
    BY DEF Rest
  <2>3. started_q # <<>> => Tail(started_q) \in Seq(BOOLEAN)
    BY <2>2, HeadTailProperties
  <2>4. Append(started_q, TRUE) \in Seq(BOOLEAN) /\ Append(started_q, FALSE) \in Seq(BOOLEAN)
    BY <2>2, AppendProperties
  <2> QED
    BY <2>1, <2>2, <2>3, <2>4
<1>5. waking'.starting \in BOOLEAN /\ waking'.want_stop \in BOOLEAN /\ waking'.stopping \in BOOLEAN
  <2>1. \/ waking' \in {waking, Asleep} \/ (\E q : waking' = [waking EXCEPT !.queue = q])
        \/ \E q : waking' = [[Asleep EXCEPT !.on = TRUE, !.queue = q] EXCEPT !.starting = TRUE]
        \/ waking' = [waking EXCEPT !.starting = FALSE]
        \/ waking' = [[waking EXCEPT !.starting = FALSE] EXCEPT !.stopping = TRUE]
        \/ waking' = [[waking EXCEPT !.stopping = FALSE, !.want_stop = FALSE] EXCEPT !.starting = TRUE]
        \/ waking' = [waking EXCEPT !.queue = <<>>, !.want_stop = TRUE]
        \/ waking' = [[waking EXCEPT !.queue = <<>>, !.want_stop = TRUE] EXCEPT !.stopping = TRUE]
        \/ waking' = [[Asleep EXCEPT !.on = TRUE] EXCEPT !.stopping = TRUE]
    BY DEF Next, vars, Arrive, Routing, RouterLookup, RouterGate, RouterRoute, RouterHand,
         RouterRefuse, Exits, Registers, Answers, Tick, Starting, StartSpawns, StartFails, StartReturns,
         StopEnds, Waker, WakeQueued, WakeRegistered, WakeStart, on_start_result, on_stopped, PollReady,
         PollTrim, Reinject, Reinjected, SweepStop, PollExpired, SweepTouch, SweepCheck, Quiet, PollStale,
         spawn_start, spawn_stop
  <2>2. /\ waking.starting \in BOOLEAN /\ waking.want_stop \in BOOLEAN /\ waking.stopping \in BOOLEAN
        /\ waking = [on |-> waking.on, queue |-> waking.queue, starting |-> waking.starting,
                     want_stop |-> waking.want_stop, stopping |-> waking.stopping]
    BY DEF Rest, LazyInv, Shape
  <2>3. CASE waking' \in {waking, Asleep}
    <3>1. Asleep.starting = FALSE /\ Asleep.want_stop = FALSE /\ Asleep.stopping = FALSE
      BY DEF Asleep
    <3> QED
      BY <2>2, <2>3, <3>1
  <2>9. CASE \E q : waking' = [waking EXCEPT !.queue = q]
    BY <2>2, <2>9
  <2>4. CASE \E q : waking' = [[Asleep EXCEPT !.on = TRUE, !.queue = q] EXCEPT !.starting = TRUE]
    BY <2>4 DEF Asleep
  <2>5. CASE \/ waking' = [waking EXCEPT !.starting = FALSE]
             \/ waking' = [[waking EXCEPT !.starting = FALSE] EXCEPT !.stopping = TRUE]
    BY <2>2, <2>5
  <2>6. CASE waking' = [[waking EXCEPT !.stopping = FALSE, !.want_stop = FALSE] EXCEPT !.starting = TRUE]
    BY <2>2, <2>6
  <2>7. CASE \/ waking' = [waking EXCEPT !.queue = <<>>, !.want_stop = TRUE]
             \/ waking' = [[waking EXCEPT !.queue = <<>>, !.want_stop = TRUE] EXCEPT !.stopping = TRUE]
    BY <2>2, <2>7
  <2>8. CASE waking' = [[Asleep EXCEPT !.on = TRUE] EXCEPT !.stopping = TRUE]
    BY <2>8 DEF Asleep
  <2> QED
    BY <2>1, <2>3, <2>4, <2>5, <2>6, <2>7, <2>8, <2>9
<1>6. gate'.on \in BOOLEAN /\ gate'.allowed \subseteq 1..next'
  <2>1. 1..next \subseteq 1..next'
    <3>1. next \in Nat /\ (next' = next \/ next' = next + 1)
      BY DEF LazyInv, Queues, Next, vars, Arrive, Routing, RouterLookup, RouterGate, RouterRoute, RouterHand,
         RouterRefuse, Exits, Registers, Answers, Tick, Starting, StartSpawns, StartFails, StartReturns,
         StopEnds, Waker, WakeQueued, WakeRegistered, WakeStart, on_start_result, on_stopped, PollReady,
         PollTrim, Reinject, Reinjected, SweepStop, PollExpired, SweepTouch, SweepCheck, Quiet, PollStale
    <3> QED
      BY <3>1
  <2>2. CASE \/ gate' \in {gate, NoGate, [gate EXCEPT !.on = TRUE]}
             \/ \E S : gate' = [gate EXCEPT !.allowed = @ \ S]
    <3>1. /\ gate = [on |-> gate.on, allowed |-> gate.allowed]
          /\ gate.on \in BOOLEAN /\ gate.allowed \subseteq 1..next
      BY DEF Rest, LazyInv, Shape
    <3>2. CASE gate' = gate
      BY <2>1, <3>1, <3>2
    <3>5. CASE gate' = NoGate
      BY <3>5 DEF NoGate
    <3>3. CASE gate' = [gate EXCEPT !.on = TRUE]
      BY <2>1, <3>1, <3>3
    <3>4. CASE \E S : gate' = [gate EXCEPT !.allowed = @ \ S]
      <4>1. PICK S : gate' = [gate EXCEPT !.allowed = @ \ S]
        BY <3>4
      <4>2. gate'.on = gate.on /\ gate'.allowed = gate.allowed \ S
        BY <3>1, <4>1
      <4> QED
        BY <2>1, <3>1, <4>2
    <3> QED
      BY <2>2, <3>2, <3>3, <3>4, <3>5
  <2>3. CASE PollStale
    <3>1. PICK stale : gate' = IF stale = gate.allowed THEN NoGate
                               ELSE [gate EXCEPT !.allowed = @ \ stale]
      BY <2>3 DEF PollStale
    <3> QED
      BY <2>1, <3>1 DEF Rest, LazyInv, Shape, NoGate
  <2>4. CASE Reinject
    <3>1. PICK c : c = Head(waker.out)
      OBVIOUS
    <3>2. gate' = IF gate.on THEN [gate EXCEPT !.allowed = @ \cup {c}] ELSE gate
      BY <2>4, <3>1 DEF Reinject, lazy_gate_allow
    <3>3. c \in 1..next
      BY <2>4, <3>1, QueueTail, Given DEF LazyInv, Queues, Reinject, Placed, Split
    <3> QED
      BY <2>1, <3>2, <3>3 DEF Rest, LazyInv, Shape
  <2> QED
    BY <2>2, <2>3, <2>4 DEF Next, vars, Arrive, Routing, RouterLookup, RouterGate, RouterRoute, RouterHand,
         RouterRefuse, Exits, Registers, Answers, Tick, Starting, StartSpawns, StartFails, StartReturns,
         StopEnds, Waker, WakeQueued, WakeRegistered, WakeStart, on_start_result, on_stopped, PollReady,
         PollTrim, Reinjected, SweepStop, PollExpired, SweepTouch, SweepCheck, Quiet,
         lazy_gate_hold, lazy_gate_release
<1>7. inst' \in Nat /\ inst <= inst' /\ (registered' # "no" => inst' > 0)
  <2>1. \/ inst' = inst /\ registered' \in {registered, "no"}
        \/ inst' = inst + 1
    BY DEF Next, vars, plugin, Arrive, Routing, RouterLookup, RouterGate, RouterRoute, RouterHand,
         RouterRefuse, Exits, Registers, Answers, Tick, Starting, StartSpawns, StartFails, StartReturns,
         StopEnds, Waker, WakeQueued, WakeRegistered, WakeStart, on_start_result, on_stopped, PollReady,
         PollTrim, Reinject, Reinjected, SweepStop, PollExpired, SweepTouch, SweepCheck, Quiet, PollStale
  <2> QED
    BY <2>1 DEF Rest
<1>8. router'.inst \in Nat /\ router'.inst <= inst'
  <2>1. CASE RouterLookup
    BY <2>1, <1>7 DEF RouterLookup, Rest
  <2>2. CASE RouterGate
    <3>1. router'.inst = router.inst
      BY <2>2 DEF RouterGate, LazyInv, Shape
    <3> QED
      BY <3>1, <1>7 DEF Rest
  <2>3. CASE router' = RouterIdle
    BY <2>3, <1>7 DEF Rest, RouterIdle
  <2>4. CASE router' = router
    BY <2>4, <1>7 DEF Rest
  <2> QED
    BY <2>1, <2>2, <2>3, <2>4 DEF Next, vars, Arrive, Routing, RouterRoute,
         RouterHand, RouterRefuse, Exits, Registers, Answers, Tick, Starting, StartSpawns, StartFails,
         StartReturns, StopEnds, Waker, WakeQueued, WakeRegistered, WakeStart, on_start_result, on_stopped,
         PollReady, PollTrim, Reinject, Reinjected, SweepStop, PollExpired, SweepTouch, SweepCheck, Quiet,
         PollStale
<1>9. woken' \in [Calls -> Nat]
  <2>1. CASE PollReady
    BY <2>1 DEF PollReady, Rest
  <2> QED
    BY <2>1 DEF Rest, Next, vars, history, Arrive, Routing, RouterLookup, RouterGate, RouterRoute,
         RouterHand, RouterRefuse, Exits, Registers, Answers, Tick, Starting, StartSpawns, StartFails,
         StartReturns, StopEnds, Waker, WakeQueued, WakeRegistered, WakeStart, on_start_result, on_stopped,
         PollTrim, Reinject, Reinjected, SweepStop, PollExpired, SweepTouch, SweepCheck, Quiet,
         PollStale
<1> QED
  BY <1>1, <1>2, <1>3, <1>4, <1>5, <1>6, <1>7, <1>8, <1>9 DEF Rest

\* A calm state has a calm past.
LEMMA CalmStep ==
  ASSUME Rest, [Next]_vars, Calm'
  PROVE  count' = count /\ Calm /\ ~Exits /\ ~SweepCheck
<1>1. count' = count
  BY CountStep DEF Rest, Calm
<1>2. ~Exits
  BY <1>1 DEF Exits, Rest
<1>3. ~SweepCheck
  BY <1>1 DEF SweepCheck, Rest
<1> QED
  BY <1>1, <1>2, <1>3 DEF Calm

-----------------------------------------------------------------------------
(* After the drain has begun.                                              *)

\* The plugin stays registered: nobody stops it.
LEMMA AfterStays ==
  ASSUME LazyInv, Rest, ~Before, AfterInv, [Next]_vars, Calm'
  PROVE  /\ ~Before' /\ waker'.pc # "sweep" /\ stops' = 0
         /\ UNCHANGED <<registered, inst, woken, waking>>
<1>1. ~waking.on /\ registered # "no" /\ stops = 0 /\ waker.pc # "sweep"
  BY DEF Before, AfterInv
<1>2. ~Exits /\ ~SweepCheck
  BY CalmStep
<1>3. /\ ~Registers /\ ~StopEnds /\ ~WakeQueued /\ ~WakeStart /\ ~PollReady /\ ~PollExpired
      /\ ~SweepStop
  BY <1>1 DEF Registers, StopEnds, WakeQueued, WakeStart, PollReady, PollExpired, Expirable, SweepStop
<1>4. UNCHANGED <<registered, inst, woken>>
  BY <1>2, <1>3 DEF Next, vars, history, plugin, Arrive, Routing, RouterLookup, RouterGate, RouterRoute,
     RouterHand, RouterRefuse, Answers, Tick, Starting, StartSpawns, StartFails, StartReturns,
     Waker, WakeRegistered, on_start_result, on_stopped, PollTrim, Reinject, Reinjected, SweepTouch,
     PollStale, Quiet
<1>5. UNCHANGED <<waking, stops>>
  BY <1>1, <1>2, <1>3 DEF Next, vars, tasks, Arrive, Routing, RouterLookup, RouterGate, RouterRoute,
     RouterHand, RouterRefuse, Answers, Tick, Starting, StartSpawns, StartFails, StartReturns,
     Waker, WakeRegistered, on_start_result, on_stopped, PollTrim, Reinject, Reinjected, SweepTouch,
     PollStale, Quiet
<1>6. waker'.pc # "sweep"
  <2>1. CASE Reinject \/ Reinjected
    BY <1>1, <2>1 DEF LazyInv, Shape, Reinject, Reinjected
  <2>2. CASE WakeRegistered
    BY <1>1, <2>2 DEF WakeRegistered
  <2>3. CASE waker' = waker
    BY <1>1, <2>3
  <2> QED
    BY <1>2, <1>3, <2>1, <2>2, <2>3 DEF Next, vars, Arrive, Routing, RouterLookup, RouterGate,
       RouterRoute, RouterHand, RouterRefuse, Answers, Tick, Starting, StartSpawns, StartFails,
       StartReturns, Waker, on_start_result, on_stopped, PollTrim, SweepTouch, PollStale, Quiet
<1> QED
  BY <1>1, <1>4, <1>5, <1>6 DEF Before

\* A call that is resolved stays so.
LEMMA WaitingShrinks ==
  ASSUME UNCHANGED <<inst, woken>>, failed \subseteq failed', ToSet(routed) \subseteq ToSet(routed')
  PROVE  Waiting' \subseteq Waiting
  BY DEF Waiting, Resolved

\* No two queues share a call.
LEMMA Apart ==
  ASSUME LazyInv
  PROVE  /\ ToSet(router_q) \cap ToSet(waker.out) = {}
         /\ router.call # 0 => router.call \notin ToSet(router_q) \cup ToSet(waker.out)
         /\ ToSet(lazy_q) \cap (ToSet(router_q) \cup ToSet(waker.out) \cup {router.call}) = {}
<1>1. 0 \notin ToSet(lazy_q)
  BY Given
<1> QED
  BY <1>1 DEF LazyInv, Placed, Split

\* Nothing moves.
LEMMA DrainFrame ==
  ASSUME Drain, Waiting' \subseteq Waiting, UNCHANGED <<router_q, router, gate, inst>>,
         waker'.out = waker.out
  PROVE  Drain'
<1>1. Passing'
  BY DEF Drain, Passing
<1>2. FirstInHand'
  BY DEF Drain, FirstInHand
<1>3. Ordered'
  BY DEF Drain, Ordered, Below, Ascending
<1> QED
  BY <1>1, <1>2, <1>3 DEF Drain

\* The calls of the drain are in the given numbers.
LEMMA WaitingGiven ==
  ASSUME LazyInv, Drain
  PROVE  \A x \in Waiting : x \in Nat /\ x # 0 /\ x <= next
<1>1. \A x \in Waiting : x # 0 /\ x \in Nat
  BY Bounds DEF Waiting, Calls
<1> QED
  BY <1>1, Given DEF Drain, Passing

\* A call arrives, behind all others, and is not allowed to pass.
LEMMA DrainArrive ==
  ASSUME LazyInv, Rest, Drain, Arrive, UNCHANGED <<inst, woken>> PROVE Drain'
<1>1. /\ router_q' = Append(router_q, next + 1) /\ UNCHANGED <<router, waker, gate, failed, routed>>
      /\ Queue(router_q) /\ next \in Nat /\ gate.allowed \subseteq 1..next
  BY DEF Arrive, history, LazyInv, Queues, Rest
<1>2. next + 1 \notin ToSet(router_q) /\ next + 1 \notin gate.allowed /\ next + 1 \in Nat
  BY <1>1, Given
<1>3. ToSet(router_q') = ToSet(router_q) \cup {next + 1}
  BY <1>1, <1>2, QueueAppend
<1>4. Waiting' \subseteq Waiting /\ next + 1 \notin Waiting
  <2>1. Waiting' \subseteq Waiting
    BY <1>1, WaitingShrinks
  <2> QED
    BY <1>1, <2>1, WaitingGiven
<1>5. Passing'
  BY <1>1, <1>3, <1>4 DEF Drain, Passing
<1>6. FirstInHand'
  BY <1>1, <1>4 DEF Drain, FirstInHand
<1>7. Ordered'
  <2>1. Ascending(waker'.out)
    BY <1>1 DEF Drain, Ordered
  <2>2. Below(ToSet(router_q') \cap gate'.allowed, ToSet(waker'.out) \cap Waiting')
    BY <1>1, <1>2, <1>3, <1>4 DEF Drain, Ordered, Below
  <2>3. ASSUME NEW i \in 1..Len(router_q'), NEW j \in 1..Len(router_q'), i < j,
               router_q'[j] \in Waiting', router_q'[i] \in gate'.allowed
        PROVE  router_q'[i] < router_q'[j]
    <3>1. /\ Len(router_q') = Len(router_q) + 1 /\ router_q'[Len(router_q) + 1] = next + 1
          /\ Len(router_q) \in Nat /\ \A k \in 1..Len(router_q) : router_q'[k] = router_q[k]
      BY <1>1, <1>2, AppendProperties, LenProperties DEF Queue
    <3>2. j \in 1..Len(router_q) /\ i \in 1..Len(router_q)
      BY <1>4, <2>3, <3>1
    <3> QED
      BY <1>1, <1>4, <2>3, <3>1, <3>2 DEF Drain, Ordered
  <2> QED
    BY <2>1, <2>2, <2>3 DEF Ordered
<1> QED
  BY <1>5, <1>6, <1>7 DEF Drain

\* The router takes the next frame. One that may pass is ahead of the others.
LEMMA DrainLookup ==
  ASSUME LazyInv, Drain, RouterLookup, registered = "serves", UNCHANGED <<inst, woken>> PROVE Drain'
<1>1. PICK c : c = Head(router_q)
  OBVIOUS
<1>2. /\ router_q # <<>> /\ router_q' = Tail(router_q) /\ router.pc = "idle" /\ router.call = 0
      /\ router' = [pc |-> "found", call |-> c, inst |-> inst]
      /\ UNCHANGED <<waker, gate, failed, routed>> /\ Queue(router_q)
  BY <1>1 DEF RouterLookup, find_action_provider, history, LazyInv, Queues, Holders
<1>3. ToSet(router_q') = ToSet(router_q) \ {c} /\ c \in ToSet(router_q) /\ c # 0
  BY <1>1, <1>2, QueueTail, Given
<1>4. Waiting' \subseteq Waiting /\ 0 \notin Waiting
  BY <1>2, WaitingShrinks, WaitingGiven
<1>5. router'.pc = "found" /\ router'.call = c
  BY <1>2
<1>6. /\ Len(router_q') = Len(router_q) - 1 /\ Len(router_q) \in Nat \ {0} /\ c = router_q[1]
      /\ \A k \in 1..Len(router_q') : router_q'[k] = router_q[k + 1]
  BY <1>1, <1>2, HeadTailProperties, EmptySeq, LenProperties DEF Queue
<1>7. Passing'
  BY <1>2, <1>3, <1>4, <1>5 DEF Drain, Passing
<1>8. FirstInHand'
  <2> SUFFICES ASSUME c \in gate.allowed, NEW x \in Waiting PROVE c <= x
    BY <1>2, <1>4, <1>5 DEF FirstInHand
  <2>1. c \in Nat /\ x \in Nat
    BY <1>2, <1>3, WaitingGiven, QueueSet DEF Queue
  <2>2. CASE x \in ToSet(router_q)
    <3>1. PICK j \in 1..Len(router_q) : x = router_q[j]
      BY <1>2, <2>2, QueueSet DEF Queue
    <3>2. CASE j = 1
      BY <1>6, <2>1, <3>1, <3>2
    <3>3. CASE j # 1
      <4>1. 1 \in 1..Len(router_q) /\ 1 < j
        BY <1>6, <3>3
      <4>2. c < x
        BY <1>6, <3>1, <4>1 DEF Drain, Ordered
      <4> QED
        BY <2>1, <4>2
    <3> QED
      BY <3>2, <3>3
  <2>3. CASE x \in ToSet(waker.out)
    BY <1>3, <2>1, <2>3 DEF Drain, Ordered, Below
  <2> QED
    BY <1>2, <2>2, <2>3 DEF Drain, Passing
<1>9. Ordered'
  <2>1. Ascending(waker'.out)
    BY <1>2 DEF Drain, Ordered
  <2>2. Below(ToSet(router_q') \cap gate'.allowed, ToSet(waker'.out) \cap Waiting')
    BY <1>2, <1>3, <1>4 DEF Drain, Ordered, Below
  <2>3. ASSUME NEW i \in 1..Len(router_q'), NEW j \in 1..Len(router_q'), i < j,
               router_q'[j] \in Waiting', router_q'[i] \in gate'.allowed
        PROVE  router_q'[i] < router_q'[j]
    <3>1. i + 1 \in 1..Len(router_q) /\ j + 1 \in 1..Len(router_q) /\ i + 1 < j + 1
      BY <1>6, <2>3
    <3>2. router_q'[i] = router_q[i + 1] /\ router_q'[j] = router_q[j + 1]
      BY <1>6
    <3>3. router_q[j + 1] \in Waiting /\ router_q[i + 1] \in gate.allowed
      BY <1>2, <1>4, <2>3, <3>2
    <3>4. router_q[i + 1] < router_q[j + 1]
      BY <3>1, <3>3 DEF Drain, Ordered
    <3> QED
      BY <3>2, <3>4
  <2> QED
    BY <2>1, <2>2, <2>3 DEF Ordered
<1> QED
  BY <1>7, <1>8, <1>9 DEF Drain

\* The gate lets a call of the drain pass, and takes its allowance.
LEMMA DrainGate ==
  ASSUME LazyInv, Drain, RouterGate, UNCHANGED <<inst, woken>> PROVE Drain'
<1>1. /\ UNCHANGED <<router_q, waker, failed, routed>> /\ router.pc = "found" /\ router.call # 0
      /\ router'.pc = (IF gate.on => router.call \in gate.allowed THEN "route" ELSE "dormant")
      /\ router'.call = router.call /\ router'.inst = router.inst
      /\ gate'.on = gate.on /\ gate'.allowed = gate.allowed \ {router.call}
  BY DEF RouterGate, lazy_gate_passes, history, LazyInv, Shape, Holders
<1>2. Waiting' \subseteq Waiting
  BY <1>1, WaitingShrinks
<1>3. router.call \notin ToSet(router_q) \cup ToSet(waker.out)
  BY <1>1, Apart
<1>4. router'.pc \in {"route", "dormant"}
  BY <1>1
<1>5. Passing'
  <2> SUFFICES ASSUME NEW x \in Waiting
               PROVE  /\ \/ x \in ToSet(router_q) \/ x \in ToSet(waker.out)
                         \/ x = router'.call /\ router'.pc \in {"found", "route"}
                      /\ gate'.on \/ (x = router'.call /\ router'.pc = "route")
                      /\ x \in ToSet(router_q) \/ (x = router'.call /\ router'.pc = "found") =>
                           x \in gate'.allowed
    BY <1>1, <1>2 DEF Passing
  <2>1. CASE x = router.call
    <3>1. x \in gate.allowed
      BY <1>1, <2>1 DEF Drain, Passing
    <3>2. router'.pc = "route"
      BY <1>1, <2>1, <3>1
    <3> QED
      BY <1>1, <1>3, <2>1, <3>2
  <2>2. CASE x # router.call
    BY <1>1, <2>2 DEF Drain, Passing
  <2> QED
    BY <2>1, <2>2
<1>6. FirstInHand'
  <2> SUFFICES ASSUME router'.pc = "route", NEW x \in Waiting PROVE router.call <= x
    BY <1>1, <1>2, <1>4 DEF FirstInHand
  <2>1. gate.on
    BY <1>1 DEF Drain, Passing
  <2>2. router.call \in gate.allowed
    BY <1>1, <2>1
  <2> QED
    BY <1>1, <2>2 DEF Drain, FirstInHand
<1>7. Ordered'
  BY <1>1, <1>2 DEF Drain, Ordered, Below
<1> QED
  BY <1>5, <1>6, <1>7 DEF Drain

\* The router has sent, refused or handed over its call.
LEMMA DrainDone ==
  ASSUME LazyInv, Drain, RouterRoute \/ RouterRefuse \/ RouterHand, UNCHANGED <<inst, woken>>
  PROVE  Drain'
<1>1. UNCHANGED <<router_q, waker, gate>> /\ router' = RouterIdle /\ router.call # 0
  BY DEF RouterRoute, RouterRefuse, RouterHand, LazyInv, Holders
<1>2. router'.pc = "idle" /\ router'.call = 0
  BY <1>1, IdleFacts
<1>3. failed \subseteq failed' /\ ToSet(routed) \subseteq ToSet(routed')
      /\ (RouterRoute \/ RouterRefuse => router.call \in failed' \cup ToSet(routed'))
  <2>1. CASE RouterRoute
    <3>1. routed' = Append(routed, router.call) /\ failed' = failed /\ Queue(routed)
      BY <2>1 DEF RouterRoute, LazyInv, Queues
    <3>2. router.call \in Nat /\ router.call \notin ToSet(routed)
      BY <1>1, Given DEF LazyInv, Placed, Split
    <3>3. ToSet(routed') = ToSet(routed) \cup {router.call}
      BY <3>1, <3>2, QueueAppend
    <3> QED
      BY <3>1, <3>3
  <2>2. CASE RouterRefuse
    BY <2>2 DEF RouterRefuse
  <2>3. CASE RouterHand /\ ~RouterRoute /\ ~RouterRefuse
    BY <2>3 DEF RouterHand
  <2> QED
    BY <2>1, <2>2, <2>3
<1>4. Waiting' \subseteq Waiting \ {router.call}
  <2>1. Waiting' \subseteq Waiting
    BY <1>3, WaitingShrinks
  <2>2. CASE RouterRoute \/ RouterRefuse
    BY <1>3, <2>1, <2>2 DEF Waiting, Resolved
  <2>3. CASE RouterHand
    <3>1. router.pc = "dormant"
      BY <2>3 DEF RouterHand
    <3>2. router.call \notin Waiting
      BY <1>1, <3>1, Apart DEF Drain, Passing
    <3> QED
      BY <2>1, <3>2
  <2> QED
    BY <2>2, <2>3
<1>5. Passing'
  BY <1>1, <1>2, <1>4 DEF Drain, Passing
<1>6. FirstInHand'
  BY <1>2 DEF FirstInHand
<1>7. Ordered'
  BY <1>1, <1>4 DEF Drain, Ordered, Below
<1> QED
  BY <1>5, <1>6, <1>7 DEF Drain

\* Allowances of calls that are not on their way go, and the gate with the
\* last one.
LEMMA DrainTrim ==
  ASSUME Drain, UNCHANGED <<router_q, router, waker, inst, woken, failed, routed>>, waker.out = <<>>,
         gate'.allowed \subseteq gate.allowed, gate'.on \/ gate'.allowed = {},
         \A c \in gate.allowed \ gate'.allowed : c \notin ToSet(router_q) \cup {router.call}
  PROVE  Drain'
<1>1. Waiting' \subseteq Waiting
  BY WaitingShrinks
<1>2. Passing'
  <2> SUFFICES ASSUME NEW x \in Waiting
               PROVE  /\ \/ x \in ToSet(router_q) \/ x \in ToSet(waker.out)
                         \/ x = router.call /\ router.pc \in {"found", "route"}
                      /\ gate'.on \/ (x = router.call /\ router.pc = "route")
                      /\ x \in ToSet(router_q) \/ (x = router.call /\ router.pc = "found") =>
                           x \in gate'.allowed
    BY <1>1 DEF Passing
  <2>1. x \notin ToSet(waker.out)
    BY QueueEmpty
  <2> QED
    BY <2>1 DEF Drain, Passing
<1>3. FirstInHand'
  BY <1>1 DEF Drain, FirstInHand
<1>4. Ordered'
  BY <1>1 DEF Drain, Ordered, Below
<1> QED
  BY <1>2, <1>3, <1>4 DEF Drain

\* A call that was held back is taken to be sent behind the drain.
LEMMA DrainTake ==
  ASSUME LazyInv, Drain, WakeRegistered, registered = "serves", UNCHANGED <<inst, woken>> PROVE Drain'
<1>1. PICK c : c = Head(lazy_q)
  OBVIOUS
<1>2. /\ UNCHANGED <<router_q, router, gate, failed, routed>> /\ waker.out = <<>>
      /\ waker'.out = <<c>> /\ lazy_q # <<>> /\ lazy_q' = Tail(lazy_q)
  BY <1>1 DEF WakeRegistered, WakerIdle, LazyInv, Holders
<1>3. c \in Nat /\ c # 0 /\ c \in ToSet(lazy_q)
  BY <1>1, <1>2, TakeRequest
<1>4. ToSet(waker'.out) = {c} /\ Ascending(waker'.out) /\ ToSet(waker.out) = {}
  BY <1>2, <1>3, QueueOne, QueueEmpty, AscendingShort
<1>5. c \notin Waiting
  BY <1>3, Apart DEF Drain, Passing
<1>6. Waiting' \subseteq Waiting
  BY <1>2, WaitingShrinks
<1>7. Passing'
  BY <1>2, <1>4, <1>6 DEF Drain, Passing
<1>8. FirstInHand'
  BY <1>2, <1>6 DEF Drain, FirstInHand
<1>9. Ordered'
  BY <1>2, <1>4, <1>5, <1>6 DEF Drain, Ordered, Below
<1> QED
  BY <1>7, <1>8, <1>9 DEF Drain

\* A call is sent back, behind the earlier ones of the drain.
LEMMA DrainReinject ==
  ASSUME LazyInv, Drain, Reinject, UNCHANGED <<inst, woken>> PROVE Drain'
<1>1. PICK c : c = Head(waker.out)
  OBVIOUS
<1>2. /\ UNCHANGED <<router, failed, routed>> /\ Queue(waker.out) /\ waker.out # <<>> /\ Queue(router_q)
      /\ router_q' = Append(router_q, c) /\ waker'.out = Tail(waker.out)
      /\ gate'.on = gate.on /\ gate'.allowed \subseteq gate.allowed \cup {c}
      /\ gate.allowed \subseteq gate'.allowed /\ (gate.on => c \in gate'.allowed)
  BY <1>1 DEF Reinject, lazy_gate_allow, history, LazyInv, Queues, Shape
<1>3. /\ ToSet(waker'.out) = ToSet(waker.out) \ {c} /\ c \in ToSet(waker.out) /\ c \in Nat
      /\ Ascending(waker'.out) /\ Below({c}, ToSet(waker'.out))
  BY <1>1, <1>2, QueueTail, AscendingTail DEF Drain, Ordered
<1>4. c \notin ToSet(router_q) /\ c # router.call
  BY <1>3, Apart, Given
<1>5. ToSet(router_q') = ToSet(router_q) \cup {c}
  BY <1>2, <1>3, <1>4, QueueAppend
<1>6. Waiting' \subseteq Waiting
  BY <1>2, WaitingShrinks
<1>7. Passing'
  <2> SUFFICES ASSUME NEW x \in Waiting
               PROVE  /\ \/ x \in ToSet(router_q') \/ x \in ToSet(waker'.out)
                         \/ x = router.call /\ router.pc \in {"found", "route"}
                      /\ gate'.on \/ (x = router.call /\ router.pc = "route")
                      /\ x \in ToSet(router_q') \/ (x = router.call /\ router.pc = "found") =>
                           x \in gate'.allowed
    BY <1>2, <1>6 DEF Passing
  <2>1. CASE x = c
    BY <1>2, <1>4, <1>5, <2>1 DEF Drain, Passing
  <2>2. CASE x # c
    BY <1>2, <1>3, <1>5, <2>2 DEF Drain, Passing
  <2> QED
    BY <2>1, <2>2
<1>8. FirstInHand'
  BY <1>2, <1>4, <1>6 DEF Drain, FirstInHand
<1>9. Ordered'
  <2>1. Below(ToSet(router_q') \cap gate'.allowed, ToSet(waker'.out) \cap Waiting')
    BY <1>2, <1>3, <1>5, <1>6 DEF Drain, Ordered, Below
  <2>2. ASSUME NEW i \in 1..Len(router_q'), NEW j \in 1..Len(router_q'), i < j,
               router_q'[j] \in Waiting', router_q'[i] \in gate'.allowed
        PROVE  router_q'[i] < router_q'[j]
    <3>1. /\ Len(router_q') = Len(router_q) + 1 /\ router_q'[Len(router_q) + 1] = c
          /\ Len(router_q) \in Nat /\ \A k \in 1..Len(router_q) : router_q'[k] = router_q[k]
      BY <1>2, <1>3, AppendProperties, LenProperties DEF Queue
    <3>2. i \in 1..Len(router_q) /\ (j \in 1..Len(router_q) \/ j = Len(router_q) + 1)
      BY <2>2, <3>1
    <3>3. router_q[i] \in ToSet(router_q) /\ router_q'[i] = router_q[i]
      BY <1>2, <3>1, <3>2, QueueSet DEF Queue
    <3>4. router_q[i] \in gate.allowed
      BY <1>2, <1>4, <2>2, <3>3
    <3>5. CASE j \in 1..Len(router_q)
      BY <1>6, <2>2, <3>1, <3>2, <3>4, <3>5 DEF Drain, Ordered
    <3>6. CASE j = Len(router_q) + 1
      <4>1. c \in ToSet(waker.out) \cap Waiting
        BY <1>3, <1>6, <2>2, <3>1, <3>6
      <4> QED
        BY <3>1, <3>3, <3>4, <3>6, <4>1 DEF Drain, Ordered, Below
    <3> QED
      BY <3>2, <3>5, <3>6
  <2> QED
    BY <1>3, <2>1, <2>2 DEF Ordered
<1> QED
  BY <1>7, <1>8, <1>9 DEF Drain

\* Every step keeps the drain in order.
LEMMA AfterStep ==
  ASSUME LazyInv, Rest, ~Before, AfterInv, [Next]_vars, Calm'
  PROVE  ~Before' /\ AfterInv'
<1>1. /\ ~Before' /\ waker'.pc # "sweep" /\ stops' = 0
      /\ UNCHANGED <<registered, inst, woken, waking>> /\ ~waking.on /\ registered # "no" /\ stops = 0
      /\ waker.pc # "sweep"
  BY AfterStays DEF Before, AfterInv
<1>2. SUFFICES ASSUME registered = "serves" PROVE Drain'
  BY <1>1 DEF AfterInv
<1>3. Drain
  BY <1>2 DEF AfterInv
<1>4. count' = count /\ ~Exits /\ ~SweepCheck
  BY CalmStep
<1>5. CASE PollTrim
  <2>1. /\ UNCHANGED <<router_q, router, waker, failed, routed>> /\ waker.out = <<>>
        /\ gate' = NoGate /\ gate.allowed = {}
    BY <1>5 DEF PollTrim, Polling, WakerIdle, lazy_gate_release, history, LazyInv, Holders
  <2>2. gate'.allowed = {}
    BY <2>1 DEF NoGate
  <2> QED
    BY <1>1, <1>3, <2>1, <2>2, DrainTrim
<1>6. CASE PollStale
  <2>1. /\ UNCHANGED <<router_q, router, waker, failed, routed>> /\ waker.out = <<>> /\ gate.on
    BY <1>6 DEF PollStale, Polling, WakerIdle, LazyInv, Holders
  <2>2. PICK stale \in (SUBSET gate.allowed) \ {{}} :
          /\ count' = IF stale \cap (ToSet(router_q) \cup {router.call}) # {}
                      THEN [count EXCEPT !.stale = @ + 1] ELSE count
          /\ gate' = IF stale = gate.allowed THEN NoGate ELSE [gate EXCEPT !.allowed = @ \ stale]
    BY <1>6 DEF PollStale
  <2>3. stale \cap (ToSet(router_q) \cup {router.call}) = {}
    <3>1. [count EXCEPT !.stale = @ + 1] # count
      BY DEF Rest
    <3> QED
      BY <1>4, <2>2, <3>1
  <2>4. gate'.allowed = gate.allowed \ stale /\ (gate'.on \/ gate'.allowed = {})
    BY <2>1, <2>2 DEF NoGate, LazyInv, Shape
  <2> QED
    BY <1>1, <1>3, <2>1, <2>3, <2>4, DrainTrim
<1>7. CASE Arrive
  BY <1>1, <1>3, <1>7, DrainArrive
<1>8. CASE RouterLookup
  BY <1>1, <1>2, <1>3, <1>8, DrainLookup
<1>9. CASE RouterGate
  BY <1>1, <1>3, <1>9, DrainGate
<1>10. CASE RouterRoute \/ RouterRefuse \/ RouterHand
  BY <1>1, <1>3, <1>10, DrainDone
<1>11. CASE WakeRegistered
  BY <1>1, <1>2, <1>3, <1>11, DrainTake
<1>12. CASE Reinject
  BY <1>1, <1>3, <1>12, DrainReinject
<1>13. CASE \/ Answers \/ Tick \/ Starting \/ on_start_result \/ on_stopped \/ Reinjected \/ SweepTouch
            \/ Quiet \/ UNCHANGED vars
  <2>1. UNCHANGED <<router_q, router, gate, failed, routed>>
    BY <1>1, <1>13 DEF Answers, Tick, Starting, StartSpawns, StartFails, StartReturns, on_start_result,
       on_stopped, Reinjected, SweepTouch, Quiet, vars, history
  <2>2. waker'.out = waker.out
    BY <1>13 DEF LazyInv, Shape, Answers, Tick, Starting, StartSpawns, StartFails, StartReturns,
       on_start_result, on_stopped, Reinjected, SweepTouch, Quiet, vars
  <2> QED
    BY <1>1, <1>3, <2>1, <2>2, WaitingShrinks, DrainFrame
<1>14. /\ ~Registers /\ ~StopEnds /\ ~WakeQueued /\ ~WakeStart /\ ~PollReady /\ ~PollExpired
       /\ ~SweepStop
  BY <1>1 DEF Registers, StopEnds, WakeQueued, WakeStart, PollReady, PollExpired, Expirable, SweepStop
<1> QED
  BY <1>4, <1>5, <1>6, <1>7, <1>8, <1>9, <1>10, <1>11, <1>12, <1>13, <1>14 DEF Next, Routing, Waker

-----------------------------------------------------------------------------
(* Before the drain.                                                       *)

\* The fields of the wake's record.
LEMMA WakeFields ==
  ASSUME LazyInv, Rest
  PROVE  /\ waking = [on |-> waking.on, queue |-> waking.queue, starting |-> waking.starting,
                      want_stop |-> waking.want_stop, stopping |-> waking.stopping]
         /\ waking.on \in BOOLEAN /\ waking.starting \in BOOLEAN /\ waking.want_stop \in BOOLEAN
         /\ waking.stopping \in BOOLEAN
  BY DEF LazyInv, Shape, Rest

\* A wake begins.
LEMMA WakeBegins ==
  ASSUME WakeStart
  PROVE  /\ waking'.on /\ waking'.starting /\ ~waking'.want_stop /\ ~waking'.stopping
         /\ waking'.queue = <<Head(lazy_q)>>
  BY DEF WakeStart, spawn_start, Asleep

\* What the end of a start does to the wake's record.
LEMMA StartResult ==
  ASSUME LazyInv, Rest, on_start_result, waking.on
  PROVE  \/ /\ waking.want_stop /\ waking'.on /\ ~waking'.starting /\ waking'.stopping
            /\ waking'.want_stop /\ waking'.queue = waking.queue /\ stops' = stops + 1 /\ gate' = gate
         \/ /\ ~waking.want_stop /\ waking'.on /\ ~waking'.starting /\ waking'.stopping = waking.stopping
            /\ ~waking'.want_stop /\ waking'.queue = waking.queue /\ stops' = stops /\ gate' = gate
         \/ /\ ~waking.want_stop /\ waking' = Asleep /\ stops' = stops /\ gate' = NoGate
<1>1. CASE waking.want_stop
  <2>1. /\ waking' = [[waking EXCEPT !.starting = FALSE] EXCEPT !.stopping = TRUE]
        /\ stops' = stops + 1 /\ gate' = gate
    BY <1>1 DEF on_start_result, spawn_stop
  <2> QED
    BY <1>1, <2>1, WakeFields
<1>2. CASE ~waking.want_stop /\ waking' = [waking EXCEPT !.starting = FALSE] /\ UNCHANGED <<stops, gate>>
  BY <1>2, WakeFields
<1>3. CASE ~waking.want_stop /\ waking' = Asleep /\ gate' = NoGate /\ stops' = stops
  BY <1>3
<1> QED
  BY <1>1, <1>2, <1>3 DEF on_start_result, lazy_gate_release

\* What the end of a stop does to it.
LEMMA StopResult ==
  ASSUME LazyInv, Rest, on_stopped, waking.on
  PROVE  \/ waking' = Asleep /\ starts' = starts /\ gate' = NoGate
         \/ /\ waking'.on /\ waking'.starting /\ ~waking'.stopping /\ ~waking'.want_stop
            /\ waking'.queue = waking.queue /\ starts' = [starts EXCEPT !.new = @ + 1]
            /\ gate' = [gate EXCEPT !.on = TRUE]
<1>1. CASE waking.queue = <<>>
  BY <1>1 DEF on_stopped, lazy_gate_release
<1>2. CASE waking.queue # <<>>
  <2>1. /\ waking' = [[waking EXCEPT !.stopping = FALSE, !.want_stop = FALSE] EXCEPT !.starting = TRUE]
        /\ starts' = [starts EXCEPT !.new = @ + 1] /\ gate' = [gate EXCEPT !.on = TRUE]
    BY <1>2 DEF on_stopped, lazy_gate_hold, spawn_start
  <2> QED
    BY <2>1, WakeFields
<1> QED
  BY <1>1, <1>2

\* What a wake that has timed out leaves.
LEMMA Expiry ==
  ASSUME LazyInv, Rest, PollExpired
  PROVE  /\ waking'.on = waking.on /\ waking'.starting = waking.starting /\ waking'.want_stop
         /\ waking'.queue = <<>> /\ gate' = NoGate
         /\ \/ waking.starting /\ waking'.stopping = waking.stopping /\ stops' = stops
            \/ ~waking.starting /\ waking'.stopping /\ stops' = stops + 1
<1>1. gate' = NoGate
  BY DEF PollExpired, lazy_gate_release
<1>2. CASE waking.starting
  <2>1. waking' = [waking EXCEPT !.queue = <<>>, !.want_stop = TRUE] /\ stops' = stops
    BY <1>2 DEF PollExpired
  <2> QED
    BY <1>1, <1>2, <2>1, WakeFields
<1>3. CASE ~waking.starting
  <2>1. /\ waking' = [[waking EXCEPT !.queue = <<>>, !.want_stop = TRUE] EXCEPT !.stopping = TRUE]
        /\ stops' = stops + 1
    BY <1>3 DEF PollExpired, spawn_stop
  <2> QED
    BY <1>1, <1>3, <2>1, WakeFields
<1> QED
  BY <1>2, <1>3

\* No wake and no gate.
LEMMA SleepFields ==
  /\ ~Asleep.on /\ ~Asleep.starting /\ ~Asleep.want_stop /\ ~Asleep.stopping /\ Asleep.queue = <<>>
  /\ ~NoGate.on /\ NoGate.allowed = {}
  BY DEF Asleep, NoGate

\* One start or stop at a time, as the wake's record says.
LEMMA OneTaskStep ==
  ASSUME LazyInv, Rest, Before, BeforeInv, [Next]_vars, Calm', ~PollReady
  PROVE  OneTask'
<1>1. OneTask /\ waker.pc = "idle"
  BY DEF BeforeInv
<1>2. /\ starts = [new |-> starts.new, spawned |-> starts.spawned]
      /\ starts.new \in Nat /\ starts.spawned \in Nat /\ stops \in Nat /\ stopped_q \in Nat
      /\ started_q \in Seq(BOOLEAN) /\ Len(started_q) \in Nat
  BY DEF Rest
<1>3. ~Exits /\ ~SweepCheck /\ ~SweepStop /\ ~Reinject /\ ~Reinjected
  BY <1>1, CalmStep DEF SweepStop, Reinject, Reinjected
<1>4. CASE UNCHANGED <<starts, started_q, stops, stopped_q, up, registered>>
           /\ waking'.starting = waking.starting /\ waking'.stopping = waking.stopping
           /\ waking'.want_stop = waking.want_stop /\ waking'.on = waking.on
  BY <1>1, <1>4 DEF OneTask
<1>5. CASE WakeStart
  <2>1. /\ UNCHANGED <<started_q, stops, stopped_q, up, registered>> /\ ~waking.on
        /\ starts'.new = starts.new + 1 /\ starts'.spawned = starts.spawned
    BY <1>2, <1>5 DEF WakeStart, spawn_start, plugin
  <2> QED
    BY <1>1, <1>2, <1>5, <2>1, WakeBegins, WakeFields DEF OneTask
<1>6. CASE on_start_result
  <2>1. /\ UNCHANGED <<starts, stopped_q, up, registered>> /\ started_q # <<>>
        /\ started_q' = Tail(started_q)
    BY <1>6 DEF on_start_result, plugin
  <2>2. Len(started_q') = Len(started_q) - 1 /\ Len(started_q) > 0
    BY <1>2, <2>1, HeadTailProperties, EmptySeq, LenProperties
  <2>3. waking.starting /\ waking.on /\ ~waking.stopping
    BY <1>1, <1>2, <2>2, WakeFields DEF OneTask
  <2>4. waking' = Asleep => ~waking'.on /\ ~waking'.starting /\ ~waking'.want_stop /\ ~waking'.stopping
    BY SleepFields
  <2> QED
    BY <1>1, <1>2, <1>6, <2>1, <2>2, <2>3, <2>4, StartResult, WakeFields DEF OneTask
<1>7. CASE on_stopped
  <2>1. /\ UNCHANGED <<started_q, stops, up, registered>> /\ stopped_q > 0 /\ stopped_q' = stopped_q - 1
    BY <1>7 DEF on_stopped, plugin
  <2>2. waking.stopping /\ waking.on /\ ~waking.starting /\ stops = 0 /\ stopped_q = 1
    BY <1>1, <1>2, <2>1, WakeFields DEF OneTask
  <2>3. waking' = Asleep => ~waking'.on /\ ~waking'.starting /\ ~waking'.want_stop /\ ~waking'.stopping
    BY SleepFields
  <2>4. starts' = [starts EXCEPT !.new = @ + 1] =>
          starts'.new = starts.new + 1 /\ starts'.spawned = starts.spawned
    BY <1>2
  <2> QED
    BY <1>1, <1>2, <1>7, <2>1, <2>2, <2>3, <2>4, StopResult, WakeFields DEF OneTask
<1>8. CASE PollExpired
  <2>1. /\ UNCHANGED <<starts, started_q, stopped_q, up, registered>>
        /\ waking.on /\ ~waking.stopping /\ ~waking.want_stop
    BY <1>8 DEF PollExpired, Expirable, plugin
  <2>2. /\ waking'.on = waking.on /\ waking'.starting = waking.starting /\ waking'.want_stop
        /\ \/ waking.starting /\ waking'.stopping = waking.stopping /\ stops' = stops
           \/ ~waking.starting /\ waking'.stopping /\ stops' = stops + 1
    BY <1>8, Expiry
  <2>3. CASE waking.starting
    BY <1>1, <1>2, <2>1, <2>2, <2>3, WakeFields DEF OneTask
  <2>4. CASE ~waking.starting
    <3>1. stops + stopped_q = 0 /\ starts.new + starts.spawned + Len(started_q) = 0
      BY <1>1, <2>1, <2>4 DEF OneTask
    <3>2. waking'.stopping /\ ~waking'.starting /\ waking'.on /\ waking'.want_stop /\ stops' = stops + 1
      BY <2>1, <2>2, <2>4
    <3>3. stops' + stopped_q' = 1 /\ stopped_q' = 0
      BY <1>2, <2>1, <3>1, <3>2
    <3>4. starts'.new + starts'.spawned + Len(started_q') = 0
      BY <2>1, <3>1
    <3> QED
      BY <3>2, <3>3, <3>4 DEF OneTask
  <2> QED
    BY <2>3, <2>4
<1>9. CASE StartSpawns
  <2>1. /\ UNCHANGED <<waking, started_q, stops, stopped_q, registered>> /\ starts.new > 0
        /\ starts'.new = starts.new - 1 /\ starts'.spawned = starts.spawned + 1
    BY <1>9 DEF StartSpawns
  <2> QED
    BY <1>1, <1>2, <2>1, WakeFields DEF OneTask
<1>10. CASE StartFails
  <2>1. /\ UNCHANGED <<waking, stops, stopped_q, up, registered>> /\ starts.new > 0
        /\ starts'.new = starts.new - 1 /\ starts'.spawned = starts.spawned
        /\ started_q' = Append(started_q, FALSE)
    BY <1>2, <1>10 DEF StartFails, plugin
  <2>2. Len(started_q') = Len(started_q) + 1
    BY <1>2, <2>1, AppendProperties
  <2> QED
    BY <1>1, <1>2, <2>1, <2>2, WakeFields DEF OneTask
<1>11. CASE StartReturns
  <2>1. /\ UNCHANGED <<waking, stops, stopped_q, up, registered>> /\ starts.spawned > 0
        /\ starts'.new = starts.new /\ starts'.spawned = starts.spawned - 1
        /\ started_q' = Append(started_q, TRUE)
    BY <1>2, <1>11 DEF StartReturns, plugin
  <2>2. Len(started_q') = Len(started_q) + 1
    BY <1>2, <2>1, AppendProperties
  <2> QED
    BY <1>1, <1>2, <2>1, <2>2, WakeFields DEF OneTask
<1>12. CASE StopEnds
  <2>1. /\ UNCHANGED <<waking, starts, started_q>> /\ stops > 0 /\ ~up' /\ registered' = "no"
        /\ stops' = stops - 1 /\ stopped_q' = stopped_q + 1
    BY <1>12 DEF StopEnds
  <2> QED
    BY <1>1, <1>2, <2>1, WakeFields DEF OneTask
<1>13. CASE Registers
  <2>1. UNCHANGED <<waking, starts, started_q, stops, stopped_q, up>> /\ up
    BY <1>13 DEF Registers, tasks
  <2> QED
    BY <1>1, <1>2, <2>1, WakeFields DEF OneTask
<1>14. CASE WakeQueued
  <2>1. /\ UNCHANGED <<starts, started_q, stops, stopped_q, up, registered>>
        /\ waking' = waking \/ waking' = [waking EXCEPT !.queue = Append(@, Head(lazy_q))]
    BY <1>14 DEF WakeQueued, tasks, plugin
  <2>2. /\ waking'.starting = waking.starting /\ waking'.stopping = waking.stopping
        /\ waking'.want_stop = waking.want_stop /\ waking'.on = waking.on
    BY <2>1, WakeFields
  <2> QED
    BY <1>4, <2>1, <2>2
<1>15. CASE \/ Arrive \/ Routing \/ RouterRefuse \/ Answers \/ Tick \/ WakeRegistered \/ PollTrim
            \/ PollStale \/ SweepTouch \/ Quiet \/ UNCHANGED vars
  <2>1. UNCHANGED <<starts, started_q, stops, stopped_q, up, registered, waking>>
    BY <1>15 DEF Arrive, Routing, RouterLookup, RouterGate, RouterRoute, RouterHand, RouterRefuse, Answers,
       Tick, WakeRegistered, PollTrim, PollStale, SweepTouch, Quiet, vars, tasks, plugin
  <2> QED
    BY <1>4, <2>1
<1> QED
  BY <1>3, <1>5, <1>6, <1>7, <1>8, <1>9, <1>10, <1>11, <1>12, <1>13, <1>14, <1>15
  DEF Next, Waker, Starting

\* The calls stay in line.
LEMMA InLineStep ==
  ASSUME LazyInv, Rest, Before, BeforeInv, [Next]_vars, Calm', ~PollReady
  PROVE  InLine'
<1>1. InLine /\ waker.pc = "idle"
  BY DEF BeforeInv
<1>2. ~Exits /\ ~SweepCheck /\ ~SweepStop /\ ~Reinject /\ ~Reinjected /\ ~WakeRegistered
  BY <1>1, CalmStep DEF SweepStop, Reinject, Reinjected, WakeRegistered, Before
<1>3. Queue(router_q) /\ Queue(lazy_q) /\ Queue(waking.queue) /\ next \in Nat
  BY DEF LazyInv, Queues
<1>4. CASE UNCHANGED <<router_q, lazy_q>> /\ router'.call \in {router.call, 0}
           /\ waking'.queue \in {waking.queue, <<>>}
  <2>1. ToSet(waking'.queue) \subseteq ToSet(waking.queue) /\ Hand' \subseteq Hand /\ Ascending(waking'.queue)
    BY <1>1, <1>4, QueueEmpty, AscendingShort DEF Hand, InLine
  <2> QED
    BY <1>1, <1>4, <2>1 DEF InLine, Below
<1>5. CASE Arrive
  <2>1. router_q' = Append(router_q, next + 1) /\ UNCHANGED <<router, lazy_q, waking>>
    BY <1>5 DEF Arrive
  <2>2. next + 1 \notin ToSet(router_q) /\ next + 1 \in Nat
    BY <1>3, Given
  <2>3. ToSet(router_q') = ToSet(router_q) \cup {next + 1}
    BY <1>3, <2>1, <2>2, QueueAppend
  <2>4. /\ Below(ToSet(router_q), {next + 1}) /\ Below(ToSet(lazy_q), {next + 1})
        /\ Below(ToSet(waking.queue), {next + 1}) /\ Below(Hand, {next + 1})
    <3>1. \A c \in Nat : c <= next => c < next + 1
      BY <1>3
    <3> QED
      BY <3>1, Given DEF Below, Hand
  <2>5. Ascending(router_q')
    BY <1>1, <1>3, <2>1, <2>2, <2>4, AscendingAppend DEF InLine
  <2>6. Hand' = Hand
    BY <2>1 DEF Hand
  <2> QED
    BY <1>1, <2>1, <2>3, <2>4, <2>5, <2>6 DEF InLine, Below
<1>6. CASE RouterLookup
  <2>1. PICK c : c = Head(router_q)
    OBVIOUS
  <2>2. /\ router_q # <<>> /\ router_q' = Tail(router_q) /\ router'.call = c
        /\ UNCHANGED <<lazy_q, waking>>
    BY <1>6, <2>1 DEF RouterLookup
  <2>3. ToSet(router_q') = ToSet(router_q) \ {c} /\ c \in ToSet(router_q)
    BY <1>3, <2>1, <2>2, QueueTail
  <2>4. Ascending(router_q') /\ Below({c}, ToSet(router_q'))
    BY <1>1, <1>3, <2>1, <2>2, AscendingTail DEF InLine
  <2>5. Hand' \subseteq {c}
    BY <2>2 DEF Hand
  <2> QED
    BY <1>1, <2>2, <2>3, <2>4, <2>5 DEF InLine, Below
<1>7. CASE RouterHand
  <2>1. UNCHANGED <<router_q, waking>> /\ router'.call = 0 /\ router.pc = "dormant"
    BY <1>7, IdleFacts DEF RouterHand
  <2>2. CASE lazy_q' = lazy_q
    BY <1>4, <2>1, <2>2
  <2>3. CASE lazy_q' = Append(lazy_q, router.call)
    <3>1. router.call # 0 /\ router.call \in Nat /\ router.call \notin ToSet(lazy_q) /\ router.call \in Hand
      BY <2>1, Apart DEF LazyInv, Holders, Shape, Hand
    <3>2. ToSet(lazy_q') = ToSet(lazy_q) \cup {router.call}
      BY <1>3, <2>3, <3>1, QueueAppend
    <3>3. Below(ToSet(lazy_q), {router.call})
      BY <1>1, <3>1 DEF InLine, Below
    <3>4. Ascending(lazy_q')
      BY <1>1, <1>3, <2>3, <3>1, <3>3, AscendingAppend DEF InLine
    <3>5. Hand' = {}
      BY <2>1 DEF Hand
    <3> QED
      BY <1>1, <2>1, <3>1, <3>2, <3>4, <3>5 DEF InLine, Below
  <2> QED
    BY <1>7, <2>2, <2>3 DEF RouterHand
<1>8. CASE WakeQueued \/ WakeStart
  <2>1. PICK c : c = Head(lazy_q)
    OBVIOUS
  <2>2. lazy_q # <<>> /\ lazy_q' = Tail(lazy_q) /\ UNCHANGED <<router_q, router>>
    BY <1>8 DEF WakeQueued, WakeStart
  <2>3. ToSet(lazy_q') = ToSet(lazy_q) \ {c} /\ c \in ToSet(lazy_q) /\ c \in Nat
    BY <1>3, <2>1, <2>2, QueueTail
  <2>4. Ascending(lazy_q') /\ Below({c}, ToSet(lazy_q'))
    BY <1>1, <1>3, <2>1, <2>2, AscendingTail DEF InLine
  <2>5. Hand' = Hand
    BY <2>2 DEF Hand
  <2>6. Ascending(waking'.queue) /\ ToSet(waking'.queue) \subseteq ToSet(waking.queue) \cup {c}
    <3>1. CASE WakeStart
      <4>1. waking'.queue = <<c>>
        BY <2>1, <3>1, WakeBegins
      <4> QED
        BY <2>3, <4>1, QueueOne, AscendingShort
    <3>2. CASE waking' = waking
      BY <1>1, <3>2 DEF InLine
    <3>3. CASE waking' = [waking EXCEPT !.queue = Append(@, c)]
      <4>1. waking'.queue = Append(waking.queue, c)
        BY <3>3, WakeFields
      <4>2. c \notin ToSet(waking.queue)
        BY <2>3 DEF LazyInv, Placed, Split
      <4>3. Below(ToSet(waking.queue), {c})
        BY <1>1, <2>3 DEF InLine, Below
      <4> QED
        BY <1>1, <1>3, <2>3, <4>1, <4>2, <4>3, QueueAppend, AscendingAppend DEF InLine
    <3> QED
      BY <1>8, <2>1, <3>1, <3>2, <3>3 DEF WakeQueued
  <2> QED
    BY <1>1, <2>2, <2>3, <2>4, <2>5, <2>6 DEF InLine, Below
<1>9. CASE RouterGate
  <2>1. UNCHANGED <<router_q, lazy_q, waking>> /\ router'.call = router.call
    BY <1>9 DEF RouterGate, LazyInv, Shape
  <2> QED
    BY <1>4, <2>1
<1>10. CASE RouterRoute \/ RouterRefuse
  <2>1. UNCHANGED <<router_q, lazy_q, waking>> /\ router'.call = 0
    BY <1>10, IdleFacts DEF RouterRoute, RouterRefuse
  <2> QED
    BY <1>4, <2>1
<1>11. CASE on_start_result
  <2>1. UNCHANGED <<router_q, router, lazy_q>> /\ (~waking.on => waking' = waking)
    BY <1>11 DEF on_start_result
  <2>2. waking' \in {waking, Asleep} \/ waking'.queue = waking.queue
    BY <1>11, <2>1, StartResult, WakeFields
  <2> QED
    BY <1>4, <2>1, <2>2, SleepFields
<1>12. CASE on_stopped
  <2>1. UNCHANGED <<router_q, router, lazy_q>> /\ (~waking.on => waking' = waking)
    BY <1>12 DEF on_stopped
  <2>2. waking' \in {waking, Asleep} \/ waking'.queue = waking.queue
    BY <1>12, <2>1, StopResult, WakeFields
  <2> QED
    BY <1>4, <2>1, <2>2, SleepFields
<1>13. CASE PollExpired
  <2>1. UNCHANGED <<router_q, router, lazy_q>>
    BY <1>13 DEF PollExpired
  <2> QED
    BY <1>4, <1>13, <2>1, Expiry
<1>14. CASE \/ Registers \/ Answers \/ Tick \/ Starting \/ StopEnds \/ PollTrim
            \/ PollStale \/ SweepTouch \/ Quiet \/ UNCHANGED vars
  <2>1. UNCHANGED <<router_q, router, lazy_q, waking>>
    BY <1>14 DEF Registers, Answers, Tick, Starting, StartSpawns, StartFails, StartReturns, StopEnds,
       PollTrim, PollStale, SweepTouch, Quiet, vars
  <2> QED
    BY <1>4, <2>1
<1> QED
  BY <1>2, <1>5, <1>6, <1>7, <1>8, <1>9, <1>10, <1>11, <1>12, <1>13, <1>14 DEF Next, Routing, Waker

\* The gate stays closed while a wake is under way.
LEMMA ClosedStep ==
  ASSUME LazyInv, Rest, Before, BeforeInv, [Next]_vars, Calm', ~PollReady
  PROVE  Closed'
<1>1. Closed /\ OneTask /\ waker.pc = "idle" /\ gate.allowed = {}
  BY DEF BeforeInv, Closed
<1>2. ~Exits /\ ~SweepCheck /\ ~SweepStop /\ ~Reinject /\ ~Reinjected /\ ~WakeRegistered /\ ~PollStale
  <2>1. ~Exits /\ ~SweepCheck /\ ~SweepStop /\ ~Reinject /\ ~Reinjected /\ ~WakeRegistered
    BY <1>1, CalmStep DEF SweepStop, Reinject, Reinjected, WakeRegistered, Before
  <2>2. ASSUME PollStale PROVE FALSE
    <3>1. PICK stale \in (SUBSET gate.allowed) \ {{}} :
            gate' = IF stale = gate.allowed THEN NoGate ELSE [gate EXCEPT !.allowed = @ \ stale]
      BY <2>2 DEF PollStale
    <3>2. stale \subseteq {} /\ stale # {}
      BY <1>1
    <3> QED
      BY <3>2
  <2> QED
    BY <2>1, <2>2
<1>3. gate = [on |-> gate.on, allowed |-> gate.allowed]
  BY DEF LazyInv, Shape
<1>4. CASE UNCHANGED <<gate, router, inst>> /\ registered' \in {registered, "no"}
           /\ waking'.want_stop = waking.want_stop /\ waking'.on = waking.on
  BY <1>1, <1>4 DEF Closed
<1>5. CASE gate' = NoGate /\ ~(waking'.on /\ ~waking'.want_stop)
  BY <1>5, SleepFields DEF Closed
<1>6. CASE gate' = [gate EXCEPT !.on = TRUE] /\ registered' = "no"
  <2>1. gate'.on /\ gate'.allowed = {}
    BY <1>1, <1>3, <1>6
  <2> QED
    BY <1>6, <2>1 DEF Closed
<1>7. CASE UNCHANGED <<gate, inst, registered, waking>> /\ router'.pc # "route"
  BY <1>1, <1>7 DEF Closed
<1>8. CASE RouterLookup \/ RouterRoute \/ RouterRefuse \/ RouterHand
  <2>1. UNCHANGED <<gate, inst, registered, waking>>
    BY <1>8 DEF RouterLookup, RouterRoute, RouterRefuse, RouterHand, plugin
  <2>2. router'.pc # "route"
    BY <1>8, IdleFacts DEF RouterLookup, RouterRoute, RouterRefuse, RouterHand, find_action_provider
  <2> QED
    BY <1>7, <2>1, <2>2
<1>9. CASE RouterGate
  <2>1. /\ UNCHANGED <<inst, registered, waking>> /\ gate'.on = gate.on /\ gate'.allowed = {}
        /\ (gate.on => router'.pc # "route")
    BY <1>1, <1>3, <1>9 DEF RouterGate, lazy_gate_passes, plugin, LazyInv, Shape
  <2> QED
    BY <1>1, <2>1 DEF Closed
<1>10. CASE WakeStart
  <2>1. gate' = [gate EXCEPT !.on = TRUE] /\ registered' = "no"
    BY <1>10 DEF WakeStart, lazy_gate_hold, plugin
  <2> QED
    BY <1>6, <2>1
<1>11. CASE on_start_result
  <2>1. UNCHANGED <<router, inst, registered>> /\ (~waking.on => UNCHANGED <<waking, gate>>)
    BY <1>11 DEF on_start_result, plugin
  <2>2. CASE waking' = Asleep /\ gate' = NoGate
    BY <1>5, <2>2, SleepFields
  <2>3. CASE gate' = gate /\ waking'.on = waking.on /\ waking'.want_stop = waking.want_stop
    BY <1>4, <2>1, <2>3
  <2>4. CASE /\ waking.on /\ waking'.on /\ gate' = gate
             /\ \/ waking.want_stop /\ waking'.want_stop
                \/ ~waking.want_stop /\ ~waking'.want_stop
    BY <1>1, <2>1, <2>4 DEF Closed
  <2> QED
    BY <1>11, <2>1, <2>2, <2>3, <2>4, StartResult, WakeFields
<1>12. CASE on_stopped
  <2>1. UNCHANGED <<router, inst, registered>> /\ stopped_q > 0
    BY <1>12 DEF on_stopped, plugin
  <2>2. registered = "no" /\ waking.on
    BY <1>1, <2>1, WakeFields DEF OneTask, Rest
  <2>3. CASE waking' = Asleep /\ gate' = NoGate
    BY <1>5, <2>3, SleepFields
  <2>4. CASE gate' = [gate EXCEPT !.on = TRUE]
    BY <1>6, <2>1, <2>2, <2>4
  <2> QED
    BY <1>12, <2>2, <2>3, <2>4, StopResult
<1>13. CASE PollExpired
  BY <1>5, <1>13, Expiry
<1>14. CASE PollTrim
  <2>1. gate' = NoGate /\ waking' = waking /\ ~waking.on
    BY <1>14 DEF PollTrim, lazy_gate_release
  <2> QED
    BY <1>5, <2>1
<1>15. CASE Registers
  <2>1. UNCHANGED <<gate, router, waking>> /\ inst' = inst + 1
    BY <1>15 DEF Registers
  <2>2. router.inst # inst + 1
    BY DEF Rest
  <2> QED
    BY <1>1, <2>1, <2>2 DEF Closed
<1>16. CASE WakeQueued
  <2>1. /\ UNCHANGED <<gate, router, inst, registered>>
        /\ waking' = waking \/ waking' = [waking EXCEPT !.queue = Append(@, Head(lazy_q))]
    BY <1>16 DEF WakeQueued, plugin
  <2>2. waking'.want_stop = waking.want_stop /\ waking'.on = waking.on
    BY <2>1, WakeFields
  <2> QED
    BY <1>4, <2>1, <2>2
<1>17. CASE \/ Arrive \/ Answers \/ Tick \/ Starting \/ StopEnds \/ SweepTouch \/ Quiet \/ UNCHANGED vars
  <2>1. UNCHANGED <<gate, router, inst, waking>> /\ registered' \in {registered, "no"}
    BY <1>17 DEF Arrive, Answers, Tick, Starting, StartSpawns, StartFails, StartReturns, StopEnds,
       SweepTouch, Quiet, vars, plugin
  <2> QED
    BY <1>4, <2>1
<1> QED
  BY <1>2, <1>8, <1>9, <1>10, <1>11, <1>12, <1>13, <1>14, <1>15, <1>16, <1>17 DEF Next, Routing, Waker

\* The queue of the wake becomes the drain.
LEMMA DrainBegins ==
  ASSUME LazyInv, Rest, Before, BeforeInv, PollReady
  PROVE  ~Before' /\ AfterInv'
<1>1. /\ waker'.pc = "reinject" /\ waker'.out = waking.queue /\ registered' = registered
      /\ UNCHANGED <<router_q, router, gate, inst, stops, failed, routed>> /\ registered # "no"
      /\ waking.on /\ ~waking.stopping /\ ~waking.want_stop /\ waking' = Asleep
  BY DEF PollReady, Expirable, tasks, plugin
<1>2. ~Before'
  BY <1>1, SleepFields DEF Before
<1>3. stops' = 0
  BY <1>1, WakeFields DEF BeforeInv, OneTask, Rest
<1>4. \A x \in Waiting' : x \in ToSet(waking.queue)
  <2>1. \A x \in Calls : woken[x] = 0 /\ inst # 0
    BY <1>1 DEF BeforeInv, Rest
  <2>2. \A x \in Calls : woken'[x] = IF x \in ToSet(waking.queue) THEN inst ELSE woken[x]
    BY DEF PollReady
  <2> QED
    BY <1>1, <2>1, <2>2 DEF Waiting
<1>5. \A x \in ToSet(waking.queue) : x \notin ToSet(router_q) /\ x # router.call
  BY Given DEF LazyInv, Placed, Split
<1>6. /\ gate.on /\ gate.allowed = {} /\ (router.pc = "route" => router.inst # inst)
      /\ Ascending(waking.queue)
  BY <1>1 DEF BeforeInv, Closed, InLine
<1>7. Passing'
  BY <1>1, <1>4, <1>5, <1>6 DEF Passing
<1>8. FirstInHand'
  BY <1>1, <1>6 DEF FirstInHand
<1>9. Ordered'
  BY <1>1, <1>6 DEF Ordered, Below
<1> QED
  BY <1>1, <1>2, <1>3, <1>7, <1>8, <1>9 DEF AfterInv, Drain

\* Before the drain nothing is sent back; when the plugin registers without a
\* wake there is no drain.
LEMMA BeforeStep ==
  ASSUME LazyInv, Rest, Before, BeforeInv, [Next]_vars, Calm'
  PROVE  (Before' => BeforeInv') /\ (~Before' => AfterInv')
<1>1. CASE PollReady
  BY <1>1, DrainBegins
<1>2. CASE ~PollReady
  <2>1. OneTask' /\ InLine' /\ Closed' /\ LazyInv' /\ Rest'
    BY <1>2, OneTaskStep, InLineStep, ClosedStep, LazyStep, RestStep
  <2>2. waker.pc = "idle" /\ \A c \in Calls : woken[c] = 0
    BY DEF BeforeInv
  <2>3. ~Exits /\ ~SweepCheck /\ ~SweepStop /\ ~Reinject /\ ~Reinjected /\ ~WakeRegistered
    BY <2>2, CalmStep DEF SweepStop, Reinject, Reinjected, WakeRegistered, Before
  <2>4. UNCHANGED <<waker, woken>>
    BY <1>2, <2>3 DEF Next, vars, history, Arrive, Routing, RouterLookup, RouterGate, RouterRoute,
       RouterHand, RouterRefuse, Registers, Answers, Tick, Starting, StartSpawns, StartFails, StartReturns,
       StopEnds, Waker, WakeQueued, WakeStart, on_start_result, on_stopped, PollTrim, PollExpired,
       PollStale, SweepTouch, Quiet
  <2>5. Before' => BeforeInv'
    BY <2>1, <2>2, <2>4 DEF BeforeInv
  <2>6. ASSUME ~Before' PROVE AfterInv'
    <3>1. ~waking'.on /\ registered' # "no"
      BY <2>6 DEF Before
    <3>2. stops' = 0
      <4>1. ~waking'.stopping
        BY <2>1, <3>1 DEF OneTask
      <4>2. stops' + stopped_q' = 0 /\ stops' \in Nat /\ stopped_q' \in Nat
        BY <2>1, <4>1 DEF OneTask, Rest
      <4>3. \A a, b \in Nat : a + b = 0 => a = 0
        OBVIOUS
      <4> QED
        BY <4>2, <4>3
    <3>3. Waiting' = {}
      <4>1. inst' # 0
        BY <2>1, <3>1 DEF Rest
      <4> QED
        BY <2>2, <2>4, <4>1 DEF Waiting
    <3>4. waker'.out = <<>> /\ gate'.allowed = {}
      BY <2>1, <2>2, <2>4 DEF LazyInv, Holders, Closed
    <3>5. Passing' /\ FirstInHand'
      BY <3>3 DEF Passing, FirstInHand
    <3>6. Ordered'
      BY <3>3, <3>4, AscendingShort DEF Ordered, Below
    <3> QED
      BY <2>2, <2>4, <3>2, <3>5, <3>6 DEF AfterInv, Drain
  <2> QED
    BY <2>5, <2>6
<1> QED
  BY <1>1, <1>2

-----------------------------------------------------------------------------
(* The order invariant.                                                    *)

\* A new instance has a new number.
LEMMA FoundStep == ASSUME LazyInv, Rest, FoundServes, [Next]_vars PROVE FoundServes'
<1>1. CASE RouterLookup
  BY <1>1 DEF RouterLookup, find_action_provider, FoundServes, plugin
<1>2. CASE RouterGate
  <2>1. UNCHANGED <<inst, registered>> /\ router.pc = "found" /\ router'.inst = router.inst
    BY <1>2 DEF RouterGate, plugin, LazyInv, Shape
  <2> QED
    BY <2>1 DEF FoundServes
<1>3. CASE router' = RouterIdle
  BY <1>3, IdleFacts DEF FoundServes
<1>4. CASE Registers
  <2>1. router' = router /\ inst' = inst + 1
    BY <1>4 DEF Registers
  <2> QED
    BY <2>1 DEF FoundServes, Rest
<1>5. CASE UNCHANGED <<router, inst>> /\ registered' \in {registered, "no"}
  BY <1>5 DEF FoundServes
<1> QED
  BY <1>1, <1>2, <1>3, <1>4, <1>5 DEF Next, vars, plugin, Arrive, Routing, RouterRoute, RouterHand,
     RouterRefuse, Exits, Answers, Tick, Starting, StartSpawns, StartFails, StartReturns, StopEnds, Waker,
     WakeQueued, WakeRegistered, WakeStart, on_start_result, on_stopped, PollReady, PollTrim, Reinject,
     Reinjected, SweepStop, PollExpired, PollStale, SweepTouch, SweepCheck, Quiet

\* At first nothing is registered, nothing under way.
LEMMA OrderInit == Init => OrderInv
<1> SUFFICES ASSUME Init PROVE OrderInv
  OBVIOUS
<1>1. Rest
  BY RestInit
<1>2. FoundServes /\ Before
  BY DEF Init, FoundServes, Before
<1>3. /\ router_q = <<>> /\ lazy_q = <<>> /\ waking = Asleep /\ router.call = 0 /\ gate = NoGate
      /\ starts.new = 0 /\ starts.spawned = 0 /\ started_q = <<>> /\ stops = 0 /\ stopped_q = 0
      /\ waker.pc = "idle" /\ woken = [c \in Calls |-> 0]
  BY DEF Init, RouterIdle
<1>4. OneTask
  BY <1>3, SleepFields, QueueEmpty DEF OneTask
<1>5. InLine
  <2>1. Hand = {} /\ ToSet(router_q) = {} /\ ToSet(lazy_q) = {} /\ ToSet(waking.queue) = {}
    BY <1>3, SleepFields, QueueEmpty DEF Hand
  <2> QED
    BY <1>3, <2>1, SleepFields, AscendingShort DEF InLine, Below
<1>6. Closed
  BY <1>3, SleepFields DEF Closed
<1>7. BeforeInv
  BY <1>3, <1>4, <1>5, <1>6 DEF BeforeInv
<1> QED
  BY <1>1, <1>2, <1>7 DEF OrderInv

\* The invariant is inductive.
LEMMA OrderStep == LazyInv /\ OrderInv /\ [Next]_vars => OrderInv'
<1> SUFFICES ASSUME LazyInv, OrderInv, [Next]_vars PROVE OrderInv'
  OBVIOUS
<1>1. Rest' /\ FoundServes' /\ Rest
  BY RestStep, FoundStep DEF OrderInv
<1>2. ASSUME Calm' PROVE (Before' => BeforeInv') /\ (~Before' => AfterInv')
  <2>1. Calm
    BY <1>1, <1>2, CalmStep
  <2>2. CASE Before
    BY <1>1, <1>2, <2>1, <2>2, BeforeStep DEF OrderInv
  <2>3. CASE ~Before
    BY <1>1, <1>2, <2>1, <2>3, AfterStep DEF OrderInv
  <2> QED
    BY <2>2, <2>3
<1> QED
  BY <1>1, <1>2 DEF OrderInv

\* A call is sent only when no earlier one of the drain is on its way.
LEMMA SentInOrder ==
  ASSUME LazyInv, OrderInv, [Next]_vars,
         NEW y \in ToSet(routed') \ ToSet(routed),
         count.exits + count.sweeps + count.stale = 0, router.inst = inst, registered # "no",
         NEW x \in Calls, x < y, woken[x] = inst
  PROVE  Resolved(x)
<1>1. RouterRoute
  BY DEF Next, vars, history, Arrive, Routing, RouterLookup, RouterGate, RouterHand, RouterRefuse, Exits,
     Registers, Answers, Tick, Starting, StartSpawns, StartFails, StartReturns, StopEnds, Waker, WakeQueued,
     WakeRegistered, WakeStart, on_start_result, on_stopped, PollReady, PollTrim, Reinject, Reinjected,
     SweepStop, PollExpired, PollStale, SweepTouch, SweepCheck, Quiet
<1>2. router.pc = "route" /\ routed' = Append(routed, router.call) /\ Queue(routed)
  BY <1>1 DEF RouterRoute, LazyInv, Queues
<1>3. router.call # 0 /\ router.call \in Nat /\ router.call \notin ToSet(routed)
  BY <1>2 DEF LazyInv, Holders, Shape, Placed, Split
<1>4. y = router.call
  BY <1>2, <1>3, QueueAppend
<1>5. Calm /\ Rest /\ FoundServes
  BY DEF OrderInv, Rest, Calm
<1>6. ~Before
  <2>1. inst # 0
    BY <1>5 DEF Rest
  <2> QED
    BY <1>5, <2>1 DEF OrderInv, BeforeInv
<1>7. Drain
  BY <1>2, <1>5, <1>6 DEF OrderInv, AfterInv, FoundServes
<1>8. \A z \in Waiting : router.call <= z
  BY <1>2, <1>7 DEF Drain, FirstInHand
<1>9. x \in Nat
  BY Bounds DEF Calls
<1> QED
  BY <1>3, <1>4, <1>8, <1>9 DEF Waiting

-----------------------------------------------------------------------------
(* Theorems.                                                               *)

\* The router's and the waker's channels and the queue of a wake keep to their
\* capacities (lazy.rs: try_send, MAX_QUEUED), and a gate allows calls only.
THEOREM TypeCorrect == Spec => []TypeOK
<1>1. LazyInv => TypeOK
  BY DEF LazyInv, Shape, Queues, TypeOK
<1> QED
  BY <1>1, LazyInit, LazyStep, PTL DEF Spec

\* A call is in one place: whatever happens to the plugin, its start and its
\* stop, the router and the waker lose no frame and handle none twice (the
\* ActionRequest arm of router.rs, the loop of lazy.rs).
THEOREM CallsInOnePlace == Spec => []OnePlace
  BY PlacedIsOnePlace, LazyInit, LazyStep, PTL DEF Spec

\* While the plugin neither exits by itself nor is swept and no allowance goes
\* stale, a call that came after registration is not sent to the plugin ahead
\* of an earlier one that waited for the wake (the gates of registry.rs, the
\* drain of lazy.rs), for every number of calls and every capacity.
THEOREM DrainInOrder == Spec => NotOvertaken
<1>1. LazyInv /\ OrderInv /\ [Next]_vars =>
        [\A y \in ToSet(routed') \ ToSet(routed) :
           count.exits + count.sweeps + count.stale = 0 /\ router.inst = inst /\ registered # "no" =>
             \A x \in Calls : x < y /\ woken[x] = inst => Resolved(x)]_vars
  BY SentInOrder
<1> QED
  BY <1>1, LazyInit, LazyStep, OrderInit, OrderStep, PTL DEF Spec, NotOvertaken
=============================================================================
