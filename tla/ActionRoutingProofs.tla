------------------------ MODULE ActionRoutingProofs ------------------------
(***************************************************************************)
(* What holds of action routing for every number of requests, callers,     *)
(* providers and removing tasks: type correctness, at most one final       *)
(* response per request, that no request is forgotten, and that the kernel *)
(* does not answer for a session that was accepted.                        *)
(***************************************************************************)
EXTENDS ActionRouting, TLAPS

\* What the router has in its hands while it is inside a handler.
HandOK ==
    /\ rpc # "idle" => rkey \in Keys /\ rslot \in Slot
    /\ rpc \in {"route", "relay"} => /\ seq < MaxReqs
                                     /\ rslot.req = seq + 1
                                     /\ rkey \in ActionIds \/ rkey = seq + 1
    /\ rpc = "relay" => rkey = seq + 1
    /\ rpc = "relay_send" => /\ rkey = rslot.req
                             /\ rslot.req <= seq
                             /\ route[rslot.req] = "relay"

TypeInv == TypeOK /\ HandOK

-----------------------------------------------------------------------------
(* Slots.                                                                  *)

\* A slot's request is one of the requests.
LEMMA SlotReq == ASSUME NEW s \in Slot PROVE s.req \in Requests
  BY DEF Slot

\* The slot that a lookup builds.
LEMMA NewSlotOK ==
  ASSUME NEW c \in Callers, NEW a \in ActionIds, NEW p \in Providers \cup Hosts,
         NEW s \in BOOLEAN, seq \in 0..MaxReqs, seq < MaxReqs
  PROVE  NewSlot(c, a, p, s) \in Slot /\ NewSlot(c, a, p, s).req = seq + 1
  BY RoutingAssumption DEF NewSlot, Slot, Requests

\* A slot that is touched, expired, idle or accepted is a slot of the same
\* request.
LEMMA SlotMarks ==
  ASSUME NEW s \in Slot, NEW b \in BOOLEAN
  PROVE  /\ [s EXCEPT !.idle = b] \in Slot
         /\ [s EXCEPT !.idle = b].req = s.req
         /\ [s EXCEPT !.expired = b] \in Slot
         /\ [s EXCEPT !.expired = b].req = s.req
         /\ [s EXCEPT !.session_accepted = TRUE, !.idle = b] \in Slot
         /\ [s EXCEPT !.session_accepted = TRUE, !.idle = b].req = s.req
  BY DEF Slot

-----------------------------------------------------------------------------
(* Type correctness.                                                       *)

\* Counting stays within zero, one, several.
LEMMA OneMoreOK == ASSUME NEW n PROVE OneMore(n) \in 0..2 /\ (n = 0 => OneMore(n) = 1)
  BY DEF OneMore

\* The notices and counts of a response keep their types.
LEMMA SendTypes ==
  ASSUME TypeOK, NEW q, NEW by \in {"kernel", "provider"}, SendFinal(q, by)
  PROVE  /\ finals' \in [Requests -> 0..2]
         /\ told' \in [Requests -> SUBSET {"accept", "abort", "close", "final",
                                            "kernel", "provider"}]
  BY OneMoreOK DEF TypeOK, SendFinal

\* So do those of a notice.
LEMMA NoticeTypes ==
  ASSUME TypeOK, NEW q, NEW n \in {"accept", "abort", "close"}, Notice(q, n)
  PROVE  /\ finals' \in [Requests -> 0..2]
         /\ told' \in [Requests -> SUBSET {"accept", "abort", "close", "final",
                                            "kernel", "provider"}]
  BY DEF TypeOK, Notice

\* And those of a stream that is aborted.
LEMMA AbortTypes ==
  ASSUME TypeOK, NEW i, abort_stream(i)
  PROVE  /\ pending_actions' \in [Keys -> Slot \cup {None}]
         /\ finals' \in [Requests -> 0..2]
         /\ told' \in [Requests -> SUBSET {"accept", "abort", "close", "final",
                                            "kernel", "provider"}]
  BY OneMoreOK DEF TypeOK, abort_stream, take_pending_action, Notice,
     notify_forced_termination

\* A touched map is a map.
LEMMA TouchTypes ==
  ASSUME TypeOK, NEW i \in Live, touch_pending_action(i)
  PROVE  pending_actions' \in [Keys -> Slot \cup {None}]
<1>1. pending_actions[i] \in Slot
  BY DEF TypeOK, Live
<1> QED
  BY <1>1, SlotMarks DEF TypeOK, touch_pending_action

\* The empty map and the idle tasks have their types.
LEMMA TypeInit == Init => TypeInv
  BY RoutingAssumption DEF Init, TypeInv, TypeOK, HandOK, Requests

\* Every step keeps the types, and the router's hands full while it works.
LEMMA TypeStep == TypeInv /\ [Next]_vars => TypeInv'
<1> SUFFICES ASSUME TypeInv, [Next]_vars PROVE TypeInv'
  OBVIOUS
<1> USE RoutingAssumption DEF TypeInv, TypeOK, HandOK, vars, slots, router, failers,
      history, Done
<1>1. ASSUME RefuseRequest PROVE TypeInv'
  <2>1. seq' \in 0..MaxReqs
    BY <1>1 DEF RefuseRequest, CanRequest
  <2>2. route' \in [Requests -> {"none", "refused", "found", "mux", "relay"}]
    BY <1>1 DEF RefuseRequest
  <2> QED
    BY <1>1, <2>1, <2>2, SendTypes DEF RefuseRequest, CanRequest
<1>2. ASSUME NEW c \in Callers, NEW a \in ActionIds, NEW p \in Providers,
             NEW s \in BOOLEAN, LookupFound(c, a, p, s)
      PROVE TypeInv'
  BY <1>2, NewSlotOK DEF LookupFound, CanRequest, Keys, Requests
<1>3. ASSUME NEW c \in Callers, NEW a \in ActionIds, NEW p \in Providers,
             NEW s \in BOOLEAN, LookupMux(c, a, p, s)
      PROVE TypeInv'
  BY <1>3, NewSlotOK DEF LookupMux, CanRequest, Keys, Requests
<1>4. ASSUME NEW c \in Callers, NEW a \in ActionIds, NEW h \in Hosts,
             NEW s \in BOOLEAN, LookupHost(c, a, h, s)
      PROVE TypeInv'
  BY <1>4, NewSlotOK DEF LookupHost, CanRequest, Keys, Requests
<1>5. ASSUME NEW c \in Callers, NEW a \in ActionIds, RequestChunk(c, a) PROVE TypeInv'
  BY <1>5, TouchTypes DEF RequestChunk, find_pending_internal_id
<1>6. ASSUME NEW c \in Callers, NEW a \in ActionIds, RequestChunkAbort(c, a)
      PROVE TypeInv'
  BY <1>6, AbortTypes DEF RequestChunkAbort
<1>7. ASSUME NEW c \in Callers, NEW a \in ActionIds, CloseByCaller(c, a) PROVE TypeInv'
  BY <1>7, NoticeTypes DEF CloseByCaller, find_pending_internal_id, Live
<1>8. ASSUME NEW p \in Providers \cup Hosts, NEW i \in Keys, ResolveFinal(p, i)
      PROVE TypeInv'
  BY <1>8 DEF ResolveFinal, RoutedTo, Live, take_pending_action
<1>9. ASSUME NEW p \in Providers \cup Hosts, NEW i \in Keys, ResolveAccept(p, i)
      PROVE TypeInv'
  <2>1. pending_actions[i] \in Slot
    BY <1>9 DEF ResolveAccept, RoutedTo, Live
  <2>2. pending_actions' \in [Keys -> Slot \cup {None}]
    BY <1>9, <2>1, SlotMarks DEF ResolveAccept
  <2> QED
    BY <1>9, <2>1, <2>2 DEF ResolveAccept
<1>10. ASSUME NEW p \in Providers \cup Hosts, NEW i \in Keys, ResponseChunk(p, i)
       PROVE TypeInv'
  BY <1>10, TouchTypes DEF ResponseChunk, RoutedTo, Live
<1>11. ASSUME NEW p \in Providers \cup Hosts, NEW i \in Keys, CloseByProvider(p, i)
       PROVE TypeInv'
  BY <1>11 DEF CloseByProvider, RoutedTo, Live
<1>12. ASSUME RoutePut PROVE TypeInv'
  <2>1. pending_actions' \in [Keys -> Slot \cup {None}]
    BY <1>12 DEF RoutePut
  <2>2. route' \in [Requests -> {"none", "refused", "found", "mux", "relay"}]
    BY <1>12 DEF RoutePut
  <2>3. seq' \in 0..MaxReqs
    BY <1>12 DEF RoutePut
  <2> QED
    BY <1>12, <2>1, <2>2, <2>3 DEF RoutePut
<1>13. ASSUME RelayPut PROVE TypeInv'
  BY <1>13, SlotReq DEF RelayPut, Requests
<1>14. ASSUME RelaySent PROVE TypeInv'
  BY <1>14 DEF RelaySent
<1>15. ASSUME RelayFailed PROVE TypeInv'
  BY <1>15, SendTypes DEF RelayFailed, take_pending_action
<1>16. ASSUME TellFinal PROVE TypeInv'
  BY <1>16, SendTypes DEF TellFinal
<1>17. ASSUME TellAccept PROVE TypeInv'
  BY <1>17, NoticeTypes DEF TellAccept
<1>18. ASSUME ChunkSent PROVE TypeInv'
  BY <1>18 DEF ChunkSent
<1>19. ASSUME ChunkFailed PROVE TypeInv'
  BY <1>19, AbortTypes DEF ChunkFailed
<1>20. ASSUME CloseSend PROVE TypeInv'
  BY <1>20, NoticeTypes DEF CloseSend
<1>21. ASSUME CloseTake PROVE TypeInv'
  BY <1>21 DEF CloseTake, take_pending_action
<1>22. ASSUME PruneTick PROVE TypeInv'
  BY <1>22, OneMoreOK DEF PruneTick
<1>23. ASSUME NEW i \in Keys, Expire(i) PROVE TypeInv'
  <2>1. pending_actions[i] \in Slot
    BY <1>23 DEF Expire, Live
  <2>2. pending_actions' \in [Keys -> Slot \cup {None}]
    BY <1>23, <2>1, SlotMarks DEF Expire
  <2> QED
    BY <1>23, <2>2 DEF Expire
<1>24. ASSUME NEW i \in Keys, GoIdle(i) PROVE TypeInv'
  <2>1. pending_actions[i] \in Slot
    BY <1>24 DEF GoIdle, Live
  <2>2. pending_actions' \in [Keys -> Slot \cup {None}]
    BY <1>24, <2>1, SlotMarks DEF GoIdle
  <2> QED
    BY <1>24, <2>2 DEF GoIdle
<1>25. ASSUME NEW p \in Providers \cup Hosts, Register(p) PROVE TypeInv'
  BY <1>25 DEF Register
<1>26. ASSUME NEW t \in Failers, NEW p \in Providers \cup Hosts, Unregister(t, p)
       PROVE TypeInv'
  BY <1>26 DEF Unregister
<1>27. ASSUME NEW t \in Failers, FailCollect(t) PROVE TypeInv'
  BY <1>27 DEF FailCollect, Live
<1>28. ASSUME NEW t \in Failers, NEW i \in Keys, FailTake(t, i) PROVE TypeInv'
  BY <1>28 DEF FailTake, Live, take_pending_action
<1>29. ASSUME NEW t \in Failers, NEW s \in fheld[t], FailSend(t, s) PROVE TypeInv'
  BY <1>29, SendTypes, NoticeTypes DEF FailSend
<1>30. ASSUME NEW t \in Failers, FailDone(t) PROVE TypeInv'
  BY <1>30 DEF FailDone
<1>31. ASSUME UNCHANGED vars PROVE TypeInv'
  BY <1>31
<1> QED
  BY <1>1, <1>2, <1>3, <1>4, <1>5, <1>6, <1>7, <1>8, <1>9, <1>10, <1>11, <1>12, <1>13,
     <1>14, <1>15, <1>16, <1>17, <1>18, <1>19, <1>20, <1>21, <1>22, <1>23, <1>24, <1>25,
     <1>26, <1>27, <1>28, <1>29, <1>30, <1>31
     DEF Next, Frames, Finish, Time, FailStep

\* Every variable of the router, of pending_actions and of the removing tasks
\* keeps its type.
THEOREM TypeCorrect == Spec => []TypeOK
<1>1. TypeInv => TypeOK
  BY DEF TypeInv
<1> QED
  BY <1>1, TypeInit, TypeStep, PTL DEF Spec

-----------------------------------------------------------------------------
(* At most one final response.                                             *)

\* A request is in one place: a key of the map, the hands of one removing
\* task, or those of the router that is about to forward its answer.
OnePlace ==
    /\ \A i, j \in Live : pending_actions[i].req = pending_actions[j].req => i = j
    /\ \A t \in Failers : \A s \in fheld[t] :
         \A i \in Live : pending_actions[i].req # s.req
    /\ \A t, u \in Failers : \A s \in fheld[t], r \in fheld[u] :
         s.req = r.req => t = u /\ s = r
    /\ rpc = "tell_final" =>
         /\ \A i \in Live : pending_actions[i].req # rslot.req
         /\ \A t \in Failers : \A s \in fheld[t] : s.req # rslot.req

\* What is still tracked was handled and, unless relayed, is not answered.
Unanswered ==
    \A q \in Requests :
      Tracked(q) => q <= seq /\ (route[q] # "relay" => finals[q] = 0)

\* Nothing is said of a request that has not been handled.
Unsaid == \A q \in Requests : q > seq => finals[q] = 0

AnswerInv == OnePlace /\ Unanswered /\ Unsaid /\ OneFinalResponse

\* No request is tracked that was not, and no place has a new request.
Shrinks ==
    /\ \A i \in Keys : pending_actions'[i] # None =>
         /\ pending_actions[i] # None
         /\ pending_actions'[i].req = pending_actions[i].req
    /\ \A t \in Failers : fheld'[t] \subseteq fheld[t]
    /\ rpc' = "tell_final" => rpc = "tell_final" /\ rslot' = rslot

\* The step answers only requests that it gives up.
AnswersOnce ==
    \A q \in Requests :
      \/ finals'[q] = finals[q]
      \/ /\ q <= seq
         /\ route[q] # "relay" => finals'[q] <= 1 /\ ~Tracked(q)'

\* A step that gives requests up, and answers those it gives up, keeps the
\* invariant: most steps are of this kind.
LEMMA AnswerFrame ==
  ASSUME TypeInv, TypeInv', AnswerInv, Shrinks, AnswersOnce, seq' = seq, route' = route
  PROVE  AnswerInv'
<1> USE DEF AnswerInv, TypeInv, TypeOK
<1>1. Live' \subseteq Live /\ \A i \in Live' : pending_actions'[i].req = pending_actions[i].req
  BY DEF Shrinks, Live
<1>2. OnePlace'
  BY <1>1 DEF OnePlace, Shrinks
<1>3. \A q \in Requests : Tracked(q)' => Tracked(q)
  BY <1>1 DEF Tracked, Shrinks
<1>4. Unanswered'
  BY <1>3 DEF Unanswered, AnswersOnce
<1>5. Unsaid'
  BY DEF Unsaid, AnswersOnce, Requests
<1>6. OneFinalResponse'
  BY DEF OneFinalResponse, AnswersOnce
<1> QED
  BY <1>2, <1>4, <1>5, <1>6

\* The request of one place is nowhere else once that place is cleared.
LEMMA GivenUp ==
  ASSUME TypeInv, TypeInv', AnswerInv, Shrinks, NEW q \in Requests, Tracked(q),
         \/ \E i \in Live : pending_actions[i].req = q /\ pending_actions'[i] = None
         \/ \E t \in Failers : \E s \in fheld[t] : s.req = q /\ s \notin fheld'[t]
         \/ rpc = "tell_final" /\ rslot.req = q /\ rpc' # "tell_final"
  PROVE  ~Tracked(q)'
<1>1. Live' \subseteq Live /\ \A i \in Live' : pending_actions'[i].req = pending_actions[i].req
  BY DEF Shrinks, Live
<1> QED
  BY <1>1 DEF AnswerInv, OnePlace, Tracked, Shrinks, Live

\* A response to a request that is given up.
LEMMA FinalOnce ==
  ASSUME TypeInv, AnswerInv, NEW q \in Requests, NEW by, q <= seq,
         SendFinal(q, by),
         route[q] # "relay" => finals[q] = 0 /\ ~Tracked(q)'
  PROVE  AnswersOnce
  BY OneMoreOK DEF AnswersOnce, SendFinal, TypeInv, TypeOK

\* An aborted stream is answered at most once.
LEMMA AbortOnce ==
  ASSUME TypeInv, TypeInv', AnswerInv, NEW i \in Keys, abort_stream(i), fheld' = fheld,
         rpc # "tell_final", rpc' # "tell_final"
  PROVE  Shrinks /\ AnswersOnce
<1> USE DEF TypeInv, TypeOK
<1>1. CASE pending_actions[i] = None
  BY <1>1 DEF abort_stream, Shrinks, AnswersOnce
<1>2. CASE pending_actions[i] # None
  <2>1. pending_actions[i] \in Slot /\ i \in Live
    BY <1>2 DEF Live
  <2>2. PICK q \in Requests : q = pending_actions[i].req
    BY <2>1, SlotReq
  <2>3. Tracked(q)
    BY <2>1, <2>2 DEF Tracked
  <2>4. Shrinks
    BY <1>2 DEF abort_stream, Shrinks, take_pending_action
  <2>5. ~Tracked(q)'
    BY <1>2, <2>1, <2>2, <2>3, <2>4, GivenUp DEF abort_stream, take_pending_action
  <2>6. q <= seq /\ (route[q] # "relay" => finals[q] = 0)
    BY <2>2, <2>3 DEF AnswerInv, Unanswered
  <2>7. \A r \in Requests : finals'[r] = finals[r] \/ (r = q /\ finals'[r] = OneMore(finals[r]))
    BY <1>2, <2>2 DEF abort_stream, notify_forced_termination, Notice
  <2> QED
    BY <2>4, <2>5, <2>6, <2>7, OneMoreOK DEF AnswersOnce
<1> QED
  BY <1>1, <1>2

\* Nothing is tracked or said at the start.
LEMMA AnswerInit == Init => AnswerInv
  BY RoutingAssumption DEF Init, AnswerInv, OnePlace, Unanswered, Unsaid,
     OneFinalResponse, Tracked, Live, Requests

\* A step that neither answers nor moves a request.
LEMMA AnswerSame ==
  ASSUME TypeInv, TypeInv', AnswerInv, Shrinks, finals' = finals, seq' = seq,
         route' = route
  PROVE  AnswerInv'
  BY AnswerFrame DEF AnswersOnce

\* Taking, touching and marking a slot.
LEMMA SlotShrinks ==
  ASSUME TypeInv, NEW i \in Keys,
         \/ pending_actions' = pending_actions
         \/ take_pending_action(i)
         \/ /\ pending_actions[i] # None
            /\ \/ touch_pending_action(i)
               \/ pending_actions' = [pending_actions EXCEPT ![i].session_accepted = TRUE,
                                                             ![i].idle = FALSE]
               \/ pending_actions' = [pending_actions EXCEPT ![i].expired = TRUE]
               \/ pending_actions' = [pending_actions EXCEPT ![i].idle = TRUE]
  PROVE  \A k \in Keys : pending_actions'[k] # None =>
           /\ pending_actions[k] # None
           /\ pending_actions'[k].req = pending_actions[k].req
<1> SUFFICES ASSUME NEW k \in Keys, pending_actions'[k] # None
             PROVE  /\ pending_actions[k] # None
                    /\ pending_actions'[k].req = pending_actions[k].req
  OBVIOUS
<1>1. CASE k # i
  BY <1>1 DEF take_pending_action, touch_pending_action, TypeInv, TypeOK
<1>2. CASE k = i
  BY <1>2, SlotMarks DEF take_pending_action, touch_pending_action, TypeInv, TypeOK
<1> QED
  BY <1>1, <1>2

\* A request with the next number is put into the map, or answered at once.
LEMMA AnswerNext ==
  ASSUME TypeInv, TypeInv', AnswerInv, NEW n \in Requests, n = seq + 1, seq' = n,
         fheld' = fheld, rpc # "tell_final", rpc' # "tell_final",
         \A q \in Requests : q # n => finals'[q] = finals[q] /\ route'[q] = route[q],
         \/ pending_actions' = pending_actions /\ finals'[n] <= 1
         \/ /\ finals' = finals
            /\ \E i \in Keys : \E s \in Slot :
                 s.req = n /\ pending_actions' = [pending_actions EXCEPT ![i] = s]
  PROVE  AnswerInv'
<1> USE RoutingAssumption DEF AnswerInv, TypeInv, TypeOK
<1>1. \A k \in Live : pending_actions[k].req \in Requests /\ pending_actions[k].req <= seq
  BY SlotReq DEF Unanswered, Tracked, Live
<1>2. \A t \in Failers : \A s \in fheld[t] : s.req \in Requests /\ s.req <= seq
  BY SlotReq DEF Unanswered, Tracked
<1>3. \A q \in Requests : q <= seq => q # n
  BY DEF Requests
<1>4. finals[n] = 0
  BY DEF Unsaid, Requests
<1>5. Unsaid'
  BY DEF Unsaid, Requests
<1>6. OneFinalResponse'
  BY <1>4 DEF OneFinalResponse
<1>7. CASE pending_actions' = pending_actions /\ finals'[n] <= 1
  <2>1. Live' = Live
    BY <1>7 DEF Live
  <2>2. OnePlace'
    BY <1>7, <2>1 DEF OnePlace
  <2>3. \A q \in Requests : Tracked(q)' => Tracked(q) /\ q # n
    BY <1>1, <1>2, <1>3, <1>7, <2>1 DEF Tracked
  <2>4. Unanswered'
    BY <2>3 DEF Unanswered, Requests
  <2> QED
    BY <1>5, <1>6, <2>2, <2>4
<1>8. ASSUME finals' = finals, NEW i \in Keys, NEW s \in Slot, s.req = n,
             pending_actions' = [pending_actions EXCEPT ![i] = s]
      PROVE  AnswerInv'
  <2>1. \A k \in Live' : IF k = i THEN pending_actions'[k].req = n
                         ELSE k \in Live /\ pending_actions'[k] = pending_actions[k]
    BY <1>8 DEF Live
  <2>2. OnePlace'
    <3>1. \A k \in Live : pending_actions[k].req # n
      BY <1>1, <1>3
    <3>2. ASSUME NEW k \in Live', NEW l \in Live',
                 pending_actions'[k].req = pending_actions'[l].req
          PROVE  k = l
      <4>1. k = i <=> l = i
        BY <2>1, <3>1, <3>2
      <4> QED
        BY <2>1, <3>2, <4>1 DEF OnePlace
    <3>3. ASSUME NEW t \in Failers, NEW r \in fheld[t], NEW k \in Live'
          PROVE  pending_actions'[k].req # r.req
      <4>1. r.req # n
        BY <1>2, <1>3
      <4> QED
        BY <2>1, <4>1 DEF OnePlace
    <3>4. \A t, u \in Failers : \A r \in fheld'[t], v \in fheld'[u] :
            r.req = v.req => t = u /\ r = v
      BY DEF OnePlace
    <3> QED
      BY <3>2, <3>3, <3>4 DEF OnePlace
  <2>3. \A q \in Requests : Tracked(q)' => Tracked(q) \/ q = n
    BY <2>1 DEF Tracked
  <2>4. Unanswered'
    BY <1>4, <1>8, <2>3 DEF Unanswered, Requests
  <2> QED
    BY <1>5, <1>6, <2>2, <2>4
<1> QED
  BY <1>7, <1>8

\* Every step keeps each request in one place until it is answered.
LEMMA AnswerStep == TypeInv /\ TypeInv' /\ AnswerInv /\ [Next]_vars => AnswerInv'
<1> SUFFICES ASSUME TypeInv, TypeInv', AnswerInv, [Next]_vars PROVE AnswerInv'
  OBVIOUS
<1> USE RoutingAssumption DEF vars, slots, router, failers, history, Done
<1>1. ASSUME RefuseRequest PROVE AnswerInv'
  <2>1. PICK n \in Requests : n = seq + 1
    BY <1>1 DEF RefuseRequest, CanRequest, TypeInv, TypeOK, Requests
  <2>2. finals[n] = 0
    BY <2>1 DEF AnswerInv, Unsaid, TypeInv, TypeOK
  <2>3. finals'[n] <= 1
    BY <1>1, <2>1, <2>2, OneMoreOK DEF RefuseRequest, SendFinal, TypeInv, TypeOK
  <2>4. \A q \in Requests : q # n => finals'[q] = finals[q] /\ route'[q] = route[q]
    BY <1>1, <2>1 DEF RefuseRequest, SendFinal, TypeInv, TypeOK
  <2> QED
    BY <1>1, <2>1, <2>3, <2>4, AnswerNext DEF RefuseRequest, CanRequest
<1>2. ASSUME NEW c \in Callers, NEW a \in ActionIds, NEW p \in Providers,
             NEW s \in BOOLEAN, LookupFound(c, a, p, s) \/ LookupMux(c, a, p, s)
      PROVE AnswerInv'
  BY <1>2, AnswerSame DEF LookupFound, LookupMux, Shrinks
<1>3. ASSUME NEW c \in Callers, NEW a \in ActionIds, NEW h \in Hosts,
             NEW s \in BOOLEAN, LookupHost(c, a, h, s)
      PROVE AnswerInv'
  BY <1>3, AnswerSame DEF LookupHost, Shrinks
<1>4. ASSUME NEW c \in Callers, NEW a \in ActionIds, RequestChunk(c, a) PROVE AnswerInv'
  <2>1. Shrinks
    BY <1>4, SlotShrinks DEF RequestChunk, find_pending_internal_id, Live, Shrinks
  <2> QED
    BY <1>4, <2>1, AnswerSame DEF RequestChunk
<1>5. ASSUME NEW c \in Callers, NEW a \in ActionIds, RequestChunkAbort(c, a)
      PROVE AnswerInv'
  BY <1>5, AbortOnce, AnswerFrame
     DEF RequestChunkAbort, find_pending_internal_id, Live
<1>6. ASSUME NEW c \in Callers, NEW a \in ActionIds, CloseByCaller(c, a) PROVE AnswerInv'
  BY <1>6, AnswerSame DEF CloseByCaller, Notice, Shrinks
<1>7. ASSUME NEW p \in Providers \cup Hosts, NEW i \in Keys, ResolveFinal(p, i)
      PROVE AnswerInv'
  <2> USE DEF TypeInv, TypeOK, AnswerInv
  <2>1. /\ i \in Live
        /\ Live' = Live \ {i}
        /\ \A k \in Live' : pending_actions'[k] = pending_actions[k]
    BY <1>7 DEF ResolveFinal, RoutedTo, take_pending_action, Live
  <2>2. rpc' = "tell_final" /\ rslot' = pending_actions[i] /\ rpc = "idle"
    BY <1>7 DEF ResolveFinal
  <2>3. UNCHANGED <<seq, fheld, route, finals>>
    BY <1>7 DEF ResolveFinal
  <2>4. OnePlace'
    BY <2>1, <2>2, <2>3 DEF OnePlace
  <2>5. \A q \in Requests : Tracked(q)' => Tracked(q)
    BY <2>1, <2>2, <2>3 DEF Tracked
  <2>6. Unanswered' /\ Unsaid' /\ OneFinalResponse'
    BY <2>3, <2>5 DEF Unanswered, Unsaid, OneFinalResponse
  <2> QED
    BY <2>4, <2>6
<1>8. ASSUME NEW p \in Providers \cup Hosts, NEW i \in Keys, ResolveAccept(p, i)
      PROVE AnswerInv'
  <2>1. Shrinks
    BY <1>8, SlotShrinks DEF ResolveAccept, RoutedTo, Live, Shrinks
  <2> QED
    BY <1>8, <2>1, AnswerSame DEF ResolveAccept
<1>9. ASSUME NEW p \in Providers \cup Hosts, NEW i \in Keys, ResponseChunk(p, i)
      PROVE AnswerInv'
  <2>1. Shrinks
    BY <1>9, SlotShrinks DEF ResponseChunk, RoutedTo, Live, Shrinks
  <2> QED
    BY <1>9, <2>1, AnswerSame DEF ResponseChunk
<1>10. ASSUME NEW p \in Providers \cup Hosts, NEW i \in Keys, CloseByProvider(p, i)
       PROVE AnswerInv'
  BY <1>10, AnswerSame DEF CloseByProvider, Shrinks
<1>11. ASSUME RoutePut PROVE AnswerInv'
  <2>1. PICK n \in Requests : n = seq + 1
    BY <1>11 DEF RoutePut, TypeInv, TypeOK, HandOK, Requests
  <2>2. rkey \in Keys /\ rslot \in Slot /\ rslot.req = n
    BY <1>11, <2>1 DEF RoutePut, TypeInv, HandOK
  <2>3. \A q \in Requests : q # n => finals'[q] = finals[q] /\ route'[q] = route[q]
    BY <1>11, <2>1 DEF RoutePut, TypeInv, TypeOK
  <2> QED
    BY <1>11, <2>1, <2>2, <2>3, AnswerNext DEF RoutePut
<1>12. ASSUME RelayPut PROVE AnswerInv'
  <2>1. PICK n \in Requests : n = seq + 1
    BY <1>12 DEF RelayPut, TypeInv, TypeOK, HandOK, Requests
  <2>2. rkey \in Keys /\ rslot \in Slot /\ rslot.req = n
    BY <1>12, <2>1 DEF RelayPut, TypeInv, HandOK
  <2>3. \A q \in Requests : q # n => finals'[q] = finals[q] /\ route'[q] = route[q]
    BY <1>12, <2>1 DEF RelayPut, TypeInv, TypeOK
  <2> QED
    BY <1>12, <2>1, <2>2, <2>3, AnswerNext DEF RelayPut
<1>13. ASSUME RelaySent PROVE AnswerInv'
  BY <1>13, AnswerSame DEF RelaySent, Shrinks
<1>14. ASSUME RelayFailed PROVE AnswerInv'
  <2>1. Shrinks
    BY <1>14, SlotShrinks DEF RelayFailed, Shrinks, TypeInv, HandOK
  <2>2. PICK q \in Requests : q = rslot.req
    BY <1>14, SlotReq DEF RelayFailed, TypeInv, HandOK
  <2>3. q <= seq /\ route[q] = "relay"
    BY <1>14, <2>2 DEF RelayFailed, TypeInv, HandOK
  <2>4. AnswersOnce
    BY <1>14, <2>2, <2>3, FinalOnce DEF RelayFailed
  <2> QED
    BY <1>14, <2>1, <2>4, AnswerFrame DEF RelayFailed
<1>15. ASSUME TellFinal PROVE AnswerInv'
  <2>1. Shrinks
    BY <1>15 DEF TellFinal, Shrinks
  <2>2. PICK q \in Requests : q = rslot.req
    BY <1>15, SlotReq DEF TellFinal, TypeInv, HandOK
  <2>3. Tracked(q)
    BY <1>15, <2>2 DEF TellFinal, Tracked
  <2>4. ~Tracked(q)'
    BY <1>15, <2>1, <2>2, <2>3, GivenUp DEF TellFinal
  <2>5. AnswersOnce
    BY <1>15, <2>2, <2>3, <2>4, FinalOnce DEF TellFinal, AnswerInv, Unanswered
  <2> QED
    BY <1>15, <2>1, <2>5, AnswerFrame DEF TellFinal
<1>16. ASSUME TellAccept PROVE AnswerInv'
  BY <1>16, AnswerSame DEF TellAccept, Notice, Shrinks
<1>17. ASSUME ChunkSent PROVE AnswerInv'
  BY <1>17, AnswerSame DEF ChunkSent, Shrinks
<1>18. ASSUME ChunkFailed PROVE AnswerInv'
  <2>1. PICK i \in Keys : i = rkey
    BY <1>18 DEF ChunkFailed, TypeInv, HandOK
  <2> QED
    BY <1>18, <2>1, AbortOnce, AnswerFrame DEF ChunkFailed
<1>19. ASSUME CloseSend PROVE AnswerInv'
  BY <1>19, AnswerSame DEF CloseSend, Notice, Shrinks
<1>20. ASSUME CloseTake PROVE AnswerInv'
  <2>1. Shrinks
    BY <1>20, SlotShrinks DEF CloseTake, Shrinks, TypeInv, HandOK
  <2> QED
    BY <1>20, <2>1, AnswerSame DEF CloseTake
<1>21. ASSUME PruneTick PROVE AnswerInv'
  <2> USE DEF TypeInv, TypeOK
  <2>1. Shrinks
    BY <1>21 DEF PruneTick, Shrinks
  <2>2. ASSUME NEW q \in Requests, q \in RequestsOf(Overdue)
        PROVE  q <= seq /\ (route[q] # "relay" => finals'[q] <= 1 /\ ~Tracked(q)')
    <3>1. PICK i \in Overdue : pending_actions[i].req = q
      BY <2>2 DEF RequestsOf
    <3>2. i \in Live /\ pending_actions'[i] = None
      BY <1>21, <3>1 DEF PruneTick, Overdue, Live
    <3>3. Tracked(q)
      BY <3>1, <3>2 DEF Tracked
    <3>4. ~Tracked(q)'
      BY <2>1, <3>1, <3>2, <3>3, GivenUp
    <3>5. q <= seq /\ (route[q] # "relay" => finals[q] = 0)
      BY <3>3 DEF AnswerInv, Unanswered
    <3>6. finals'[q] = OneMore(finals[q])
      BY <1>21, <2>2 DEF PruneTick
    <3> QED
      BY <3>4, <3>5, <3>6, OneMoreOK
  <2>3. \A q \in Requests : q \notin RequestsOf(Overdue) => finals'[q] = finals[q]
    BY <1>21 DEF PruneTick
  <2>4. AnswersOnce
    BY <2>2, <2>3 DEF AnswersOnce
  <2> QED
    BY <1>21, <2>1, <2>4, AnswerFrame DEF PruneTick
<1>22. ASSUME NEW i \in Keys, Expire(i) \/ GoIdle(i) PROVE AnswerInv'
  <2>1. Shrinks
    BY <1>22, SlotShrinks DEF Expire, GoIdle, Live, Shrinks
  <2> QED
    BY <1>22, <2>1, AnswerSame DEF Expire, GoIdle
<1>23. ASSUME NEW p \in Providers \cup Hosts, Register(p) PROVE AnswerInv'
  BY <1>23, AnswerSame DEF Register, Shrinks
<1>24. ASSUME NEW t \in Failers, NEW p \in Providers \cup Hosts, Unregister(t, p)
       PROVE AnswerInv'
  BY <1>24, AnswerSame DEF Unregister, Shrinks
<1>25. ASSUME NEW t \in Failers, FailCollect(t) \/ FailDone(t) PROVE AnswerInv'
  BY <1>25, AnswerSame DEF FailCollect, FailDone, Shrinks
<1>26. ASSUME NEW t \in Failers, NEW i \in Keys, FailTake(t, i) PROVE AnswerInv'
  <2> USE DEF TypeInv, TypeOK, AnswerInv
  <2>1. CASE pending_actions[i] = None
    <3>1. Shrinks
      BY <1>26, <2>1, SlotShrinks DEF FailTake, Live, Shrinks
    <3> QED
      BY <1>26, <3>1, AnswerSame DEF FailTake
  <2>2. CASE pending_actions[i] # None
    <3>1. /\ i \in Live
          /\ Live' = Live \ {i}
          /\ \A k \in Live' : pending_actions'[k] = pending_actions[k]
      BY <1>26, <2>2 DEF FailTake, take_pending_action, Live
    <3>2. /\ fheld'[t] = fheld[t] \cup {pending_actions[i]}
          /\ \A u \in Failers : u # t => fheld'[u] = fheld[u]
      BY <1>26, <3>1 DEF FailTake
    <3>3. UNCHANGED <<seq, rpc, rslot, route, finals>>
      BY <1>26 DEF FailTake
    <3>4. OnePlace'
      <4>1. \A u \in Failers : \A s \in fheld'[u] :
              s \in fheld[u] \/ (u = t /\ s = pending_actions[i])
        BY <3>2
      <4>2. \A u \in Failers : \A s \in fheld'[u] :
              \A k \in Live' : pending_actions'[k].req # s.req
        BY <3>1, <4>1 DEF OnePlace
      <4>3. \A u, v \in Failers : \A s \in fheld'[u], r \in fheld'[v] :
              s.req = r.req => u = v /\ s = r
        BY <3>1, <4>1 DEF OnePlace
      <4>4. rpc = "tell_final" => \A u \in Failers : \A s \in fheld'[u] : s.req # rslot.req
        BY <3>1, <4>1 DEF OnePlace
      <4> QED
        BY <3>1, <3>3, <4>2, <4>3, <4>4 DEF OnePlace
    <3>5. \A q \in Requests : Tracked(q)' => Tracked(q)
      BY <3>1, <3>2, <3>3 DEF Tracked
    <3>6. Unanswered' /\ Unsaid' /\ OneFinalResponse'
      BY <3>3, <3>5 DEF Unanswered, Unsaid, OneFinalResponse
    <3> QED
      BY <3>4, <3>6
  <2> QED
    BY <2>1, <2>2
<1>27. ASSUME NEW t \in Failers, NEW s \in fheld[t], FailSend(t, s) PROVE AnswerInv'
  <2>1. Shrinks
    BY <1>27 DEF FailSend, Shrinks, TypeInv, TypeOK
  <2>2. PICK q \in Requests : q = s.req
    BY <1>27, SlotReq DEF TypeInv, TypeOK
  <2>3. Tracked(q)
    BY <2>2 DEF Tracked
  <2>4. s \notin fheld'[t]
    BY <1>27 DEF FailSend, TypeInv, TypeOK
  <2>5. ~Tracked(q)'
    BY <2>1, <2>2, <2>3, <2>4, GivenUp
  <2>6. AnswersOnce
    BY <1>27, <2>2, <2>3, <2>5, FinalOnce
       DEF FailSend, Notice, AnswersOnce, AnswerInv, Unanswered
  <2> QED
    BY <1>27, <2>1, <2>6, AnswerFrame DEF FailSend
<1>28. ASSUME UNCHANGED vars PROVE AnswerInv'
  BY <1>28, AnswerSame DEF Shrinks
<1> QED
  BY <1>1, <1>2, <1>3, <1>4, <1>5, <1>6, <1>7, <1>8, <1>9, <1>10, <1>11, <1>12, <1>13,
     <1>14, <1>15, <1>16, <1>17, <1>18, <1>19, <1>20, <1>21, <1>22, <1>23, <1>24, <1>25,
     <1>26, <1>27, <1>28
     DEF Next, Frames, Finish, Time, FailStep

\* A caller gets at most one final ActionResponse for a request that is not
\* relayed: the provider's answer, the sweep, a failing stream and any number
\* of removals of the provider exclude one another.
THEOREM AtMostOneAnswer == Spec => []OneFinalResponse
<1>1. AnswerInv => OneFinalResponse
  BY DEF AnswerInv
<1>2. TypeInv /\ AnswerInv /\ [Next]_vars => (TypeInv /\ AnswerInv)'
  BY TypeStep, AnswerStep
<1> QED
  BY <1>1, <1>2, TypeInit, AnswerInit, PTL DEF Spec

-----------------------------------------------------------------------------
(* No request is forgotten.                                                *)

\* A minted key holds its own request; a caller's key holds a mux request.
KeysOK ==
    /\ \A i \in Requests : pending_actions[i] # None => pending_actions[i].req = i
    /\ \A a \in ActionIds : pending_actions[a] # None =>
         route[pending_actions[a].req] = "mux"

\* A session that the router is about to drop has been closed.
ClosingOK ==
    rkey \in Requests =>
      /\ rpc \in {"close", "close_take"} => rslot.req = rkey
      /\ rpc = "close_take" => "close" \in told[rkey]

LostInv == KeysOK /\ ClosingOK /\ NoLostRequest

\* Slots stay under their keys, and what was told stays told.
Preserves ==
    /\ \A i \in Keys : pending_actions'[i] # None =>
         /\ pending_actions[i] # None
         /\ pending_actions'[i].req = pending_actions[i].req
    /\ \A q \in Requests : told[q] \subseteq told'[q]
    /\ seq' = seq
    /\ route' = route

\* Every request keeps its place.
KeepsPlaces ==
    /\ \A i \in Live : /\ pending_actions'[i] # None
                       /\ pending_actions'[i].req = pending_actions[i].req
    /\ \A t \in Failers : fheld[t] \subseteq fheld'[t]
    /\ rpc = "tell_final" => rpc' = "tell_final" /\ rslot' = rslot

\* A step that gives a request up only when its caller is told how it ended.
LEMMA LostFrame ==
  ASSUME TypeInv, TypeInv', LostInv, Preserves, ClosingOK',
         \A q \in 1..seq : route[q] # "mux" /\ Tracked(q) => Ended(q)' \/ Tracked(q)'
  PROVE  LostInv'
<1> USE DEF LostInv, TypeInv, TypeOK
<1>1. \A q \in Requests : Ended(q) => Ended(q)'
  BY DEF Preserves, Ended
<1>2. 1..seq \subseteq Requests
  BY RoutingAssumption DEF Requests
<1>3. NoLostRequest'
  BY <1>1, <1>2 DEF NoLostRequest, Preserves
<1>4. KeysOK'
  BY DEF KeysOK, Preserves, Keys
<1> QED
  BY <1>3, <1>4

\* A step that moves no request.
LEMMA LostSame ==
  ASSUME TypeInv, TypeInv', LostInv, Preserves, ClosingOK', KeepsPlaces
  PROVE  LostInv'
<1>1. \A q \in 1..seq : Tracked(q) => Tracked(q)'
  BY DEF Tracked, KeepsPlaces, Live, TypeInv, TypeOK
<1> QED
  BY <1>1, LostFrame

\* Touching and marking a slot.
LEMMA MarkKeeps ==
  ASSUME TypeInv, NEW i \in Live,
         \/ touch_pending_action(i)
         \/ pending_actions' = [pending_actions EXCEPT ![i].session_accepted = TRUE,
                                                       ![i].idle = FALSE]
         \/ pending_actions' = [pending_actions EXCEPT ![i].expired = TRUE]
         \/ pending_actions' = [pending_actions EXCEPT ![i].idle = TRUE]
  PROVE  /\ \A k \in Live : /\ pending_actions'[k] # None
                            /\ pending_actions'[k].req = pending_actions[k].req
         /\ \A k \in Keys : pending_actions'[k] # None =>
              /\ pending_actions[k] # None
              /\ pending_actions'[k].req = pending_actions[k].req
<1> USE DEF TypeInv, TypeOK
<1>1. pending_actions[i] \in Slot /\ pending_actions[i] # None /\ i \in Keys
  BY DEF Live
<1>2. \A k \in Keys : k # i => pending_actions'[k] = pending_actions[k]
  BY DEF touch_pending_action
<1>3. pending_actions'[i] \in Slot /\ pending_actions'[i].req = pending_actions[i].req
  <2>1. CASE touch_pending_action(i)
    <3>1. pending_actions'[i] = [pending_actions[i] EXCEPT !.idle = FALSE]
      BY <1>1, <2>1 DEF touch_pending_action
    <3> QED
      BY <1>1, <3>1 DEF Slot
  <2>2. CASE pending_actions' = [pending_actions EXCEPT ![i].session_accepted = TRUE,
                                                        ![i].idle = FALSE]
    <3>1. pending_actions'[i] = [pending_actions[i] EXCEPT !.session_accepted = TRUE,
                                                           !.idle = FALSE]
      BY <1>1, <2>2
    <3> QED
      BY <1>1, <3>1 DEF Slot
  <2>3. CASE pending_actions' = [pending_actions EXCEPT ![i].expired = TRUE]
    <3>1. pending_actions'[i] = [pending_actions[i] EXCEPT !.expired = TRUE]
      BY <1>1, <2>3
    <3> QED
      BY <1>1, <3>1 DEF Slot
  <2>4. CASE pending_actions' = [pending_actions EXCEPT ![i].idle = TRUE]
    <3>1. pending_actions'[i] = [pending_actions[i] EXCEPT !.idle = TRUE]
      BY <1>1, <2>4
    <3> QED
      BY <1>1, <3>1 DEF Slot
  <2> QED
    BY <2>1, <2>2, <2>3, <2>4
<1>4. pending_actions'[i] # None
  BY <1>3, NoneAssumption
<1> QED
  BY <1>1, <1>2, <1>3, <1>4 DEF Live

\* A response or a notice only adds to what was told.
LEMMA ToldGrows ==
  ASSUME TypeInv, NEW q, NEW n, SendFinal(q, n) \/ Notice(q, n)
  PROVE  \A r \in Requests : told[r] \subseteq told'[r]
  BY DEF SendFinal, Notice, TypeInv, TypeOK

\* After a final response the request has ended.
LEMMA FinalEnds ==
  ASSUME TypeInv, NEW q \in Requests, NEW by, SendFinal(q, by)
  PROVE  Ended(q)'
  BY DEF SendFinal, Ended, TypeInv, TypeOK

\* After an abort or a close the request has ended.
LEMMA NoticeEnds ==
  ASSUME TypeInv, NEW q \in Requests, NEW n \in {"abort", "close"}, Notice(q, n)
  PROVE  Ended(q)'
  BY DEF Notice, Ended, TypeInv, TypeOK

\* Taking a slot gives up its request and no other.
LEMMA TakeGivesUp ==
  ASSUME TypeInv, NEW i \in Keys, take_pending_action(i), fheld' = fheld,
         rpc # "tell_final", NEW q \in Requests, Tracked(q)
  PROVE  Tracked(q)' \/ (i \in Live /\ pending_actions[i].req = q)
  BY DEF Tracked, take_pending_action, Live, TypeInv, TypeOK

\* An aborted stream is told.
LEMMA AbortTells ==
  ASSUME TypeInv, NEW i \in Keys, abort_stream(i), fheld' = fheld, rpc # "tell_final"
  PROVE  /\ \A q \in Requests : told[q] \subseteq told'[q]
         /\ \A q \in Requests : Tracked(q) => Tracked(q)' \/ Ended(q)'
         /\ \A k \in Keys : pending_actions'[k] # None =>
              pending_actions'[k] = pending_actions[k]
<1> USE DEF TypeInv, TypeOK
<1>1. CASE pending_actions[i] = None
  BY <1>1 DEF abort_stream, Tracked, Live
<1>2. CASE pending_actions[i] # None
  <2>1. i \in Live /\ take_pending_action(i) /\ pending_actions[i] \in Slot
    BY <1>2 DEF abort_stream, Live
  <2>2. PICK r \in Requests : r = pending_actions[i].req
    BY <2>1, SlotReq
  <2>3. \A q \in Requests : told[q] \subseteq told'[q]
    BY <1>2 DEF abort_stream, notify_forced_termination, Notice
  <2>4. "abort" \in told'[r]
    BY <1>2, <2>2 DEF abort_stream, notify_forced_termination, Notice
  <2>5. Ended(r)'
    BY <2>4 DEF Ended
  <2>6. \A q \in Requests : Tracked(q) => Tracked(q)' \/ q = r
    BY <2>1, <2>2, TakeGivesUp
  <2> QED
    BY <2>1, <2>3, <2>5, <2>6 DEF take_pending_action
<1> QED
  BY <1>1, <1>2

\* At the start there is nothing to forget.
LEMMA LostInit == Init => LostInv
  BY RoutingAssumption DEF Init, LostInv, KeysOK, ClosingOK, NoLostRequest, Keys

\* Every step keeps each request tracked until its caller is told.
LEMMA LostStep ==
  TypeInv /\ TypeInv' /\ AnswerInv /\ LostInv /\ [Next]_vars => LostInv'
<1> SUFFICES ASSUME TypeInv, TypeInv', AnswerInv, LostInv, [Next]_vars PROVE LostInv'
  OBVIOUS
<1> USE RoutingAssumption DEF vars, slots, router, failers, history, Done
<1>0. 1..seq \subseteq Requests
  BY DEF TypeInv, TypeOK, Requests
<1>1. ASSUME RefuseRequest PROVE LostInv'
  <2> USE DEF TypeInv, TypeOK
  <2>1. PICK n \in Requests : n = seq + 1
    BY <1>1 DEF RefuseRequest, CanRequest, Requests
  <2>2. Ended(n)'
    BY <1>1, <2>1, FinalEnds DEF RefuseRequest
  <2>3. \A q \in Requests : Ended(q) => Ended(q)'
    BY <1>1, ToldGrows DEF RefuseRequest, Ended
  <2>4. \A q \in Requests : Tracked(q) => Tracked(q)'
    BY <1>1 DEF RefuseRequest, Tracked, Live
  <2>5. \A q \in Requests : q <= seq => route'[q] = route[q]
    BY <1>1, <2>1 DEF RefuseRequest, Requests
  <2>6. \A q \in (1..seq)' : q = n \/ q \in 1..seq
    BY <1>1, <2>1 DEF RefuseRequest
  <2>7. NoLostRequest'
    <3> SUFFICES ASSUME NEW q \in (1..seq)', route'[q] # "mux"
                 PROVE  Ended(q)' \/ Tracked(q)'
      BY DEF NoLostRequest
    <3>1. CASE q = n
      BY <2>2, <3>1
    <3>2. CASE q \in 1..seq
      <4>1. q \in Requests /\ q <= seq
        BY <1>0, <3>2
      <4>2. route[q] # "mux"
        BY <2>5, <4>1
      <4>3. Ended(q) \/ Tracked(q)
        BY <3>2, <4>2 DEF LostInv, NoLostRequest
      <4> QED
        BY <2>3, <2>4, <4>1, <4>3
    <3> QED
      BY <2>6, <3>1, <3>2
  <2>8. \A a \in ActionIds : pending_actions[a] # None => pending_actions[a].req \in Requests
                                                       /\ pending_actions[a].req <= seq
    BY SlotReq DEF AnswerInv, Unanswered, Tracked, Live, Keys
  <2>9. KeysOK'
    BY <1>1, <2>5, <2>8 DEF RefuseRequest, LostInv, KeysOK
  <2>10. ClosingOK'
    BY <1>1 DEF RefuseRequest, CanRequest, ClosingOK
  <2> QED
    BY <2>7, <2>9, <2>10 DEF LostInv
<1>2. ASSUME NEW c \in Callers, NEW a \in ActionIds, NEW p \in Providers,
             NEW s \in BOOLEAN, LookupFound(c, a, p, s) \/ LookupMux(c, a, p, s)
      PROVE LostInv'
  BY <1>2, LostSame DEF LookupFound, LookupMux, CanRequest, Preserves, KeepsPlaces,
     ClosingOK, Live
<1>3. ASSUME NEW c \in Callers, NEW a \in ActionIds, NEW h \in Hosts,
             NEW s \in BOOLEAN, LookupHost(c, a, h, s)
      PROVE LostInv'
  BY <1>3, LostSame DEF LookupHost, CanRequest, Preserves, KeepsPlaces, ClosingOK, Live
<1>4. ASSUME NEW c \in Callers, NEW a \in ActionIds, RequestChunk(c, a) PROVE LostInv'
  <2>1. PICK i \in Live : touch_pending_action(i)
    BY <1>4 DEF RequestChunk, find_pending_internal_id
  <2>2. Preserves /\ KeepsPlaces
    BY <1>4, <2>1, MarkKeeps DEF RequestChunk, Preserves, KeepsPlaces
  <2>3. ClosingOK'
    BY <1>4 DEF RequestChunk, ClosingOK
  <2> QED
    BY <2>2, <2>3, LostSame
<1>5. ASSUME NEW c \in Callers, NEW a \in ActionIds, RequestChunkAbort(c, a)
      PROVE LostInv'
  <2>1. PICK i \in Keys : abort_stream(i)
    BY <1>5 DEF RequestChunkAbort, find_pending_internal_id, Live
  <2>2. Preserves
    BY <1>5, <2>1, AbortTells DEF RequestChunkAbort, Preserves, Live
  <2>3. ClosingOK'
    BY <1>5 DEF RequestChunkAbort, ClosingOK
  <2> QED
    BY <1>0, <1>5, <2>1, <2>2, <2>3, AbortTells, LostFrame DEF RequestChunkAbort
<1>6. ASSUME NEW c \in Callers, NEW a \in ActionIds, CloseByCaller(c, a) PROVE LostInv'
  <2> USE DEF TypeInv, TypeOK
  <2>1. PICK i \in Live : /\ Notice(pending_actions[i].req, "close")
                          /\ rkey' = i
                          /\ rslot' = pending_actions[i]
    BY <1>6 DEF CloseByCaller, find_pending_internal_id
  <2>2. Preserves /\ KeepsPlaces
    BY <1>6, <2>1, ToldGrows DEF CloseByCaller, Preserves, KeepsPlaces, Live
  <2>3. ClosingOK'
    BY <1>6, <2>1 DEF CloseByCaller, ClosingOK, LostInv, KeysOK, Notice, Live
  <2> QED
    BY <2>2, <2>3, LostSame
<1>7. ASSUME NEW p \in Providers \cup Hosts, NEW i \in Keys, ResolveFinal(p, i)
      PROVE LostInv'
  <2>1. i \in Live /\ take_pending_action(i) /\ rpc = "idle" /\ fheld' = fheld
    BY <1>7 DEF ResolveFinal, RoutedTo
  <2>2. rpc' = "tell_final" /\ rslot' = pending_actions[i]
    BY <1>7 DEF ResolveFinal
  <2>3. \A q \in Requests : Tracked(q) => Tracked(q)'
    <3> SUFFICES ASSUME NEW q \in Requests, Tracked(q), ~Tracked(q)' PROVE FALSE
      OBVIOUS
    <3>1. pending_actions[i].req = q
      BY <2>1, TakeGivesUp
    <3> QED
      BY <2>2, <3>1 DEF Tracked
  <2>4. Preserves
    BY <1>7 DEF ResolveFinal, Preserves, take_pending_action, TypeInv, TypeOK
  <2>5. ClosingOK'
    BY <2>2 DEF ClosingOK
  <2> QED
    BY <1>0, <2>3, <2>4, <2>5, LostFrame
<1>8. ASSUME NEW p \in Providers \cup Hosts, NEW i \in Keys, ResolveAccept(p, i)
      PROVE LostInv'
  <2>1. Preserves /\ KeepsPlaces
    BY <1>8, MarkKeeps DEF ResolveAccept, RoutedTo, Preserves, KeepsPlaces
  <2> QED
    BY <1>8, <2>1, LostSame DEF ResolveAccept, ClosingOK
<1>9. ASSUME NEW p \in Providers \cup Hosts, NEW i \in Keys, ResponseChunk(p, i)
      PROVE LostInv'
  <2>1. Preserves /\ KeepsPlaces
    BY <1>9, MarkKeeps DEF ResponseChunk, RoutedTo, Preserves, KeepsPlaces
  <2> QED
    BY <1>9, <2>1, LostSame DEF ResponseChunk, ClosingOK
<1>10. ASSUME NEW p \in Providers \cup Hosts, NEW i \in Keys, CloseByProvider(p, i)
       PROVE LostInv'
  <2>1. Preserves /\ KeepsPlaces
    BY <1>10 DEF CloseByProvider, Preserves, KeepsPlaces, Live
  <2>2. ClosingOK'
    BY <1>10 DEF CloseByProvider, RoutedTo, Live, ClosingOK, LostInv, KeysOK
  <2> QED
    BY <2>1, <2>2, LostSame
<1>11. ASSUME NEW n \in Requests, n = seq + 1, rkey \in ActionIds \/ rkey = n,
              rslot \in Slot, rslot.req = n, rpc # "tell_final", seq' = n,
              pending_actions' = [pending_actions EXCEPT ![rkey] = rslot],
              \A q \in Requests : q # n => route'[q] = route[q],
              rkey \in ActionIds => route'[n] = "mux", rpc' \notin {"close", "close_take"},
              UNCHANGED <<fheld, finals, told>>
       PROVE LostInv'
  <2> USE DEF TypeInv, TypeOK
  <2>1. \A k \in Live : pending_actions[k].req \in Requests /\ pending_actions[k].req <= seq
    BY SlotReq DEF AnswerInv, Unanswered, Tracked, Live
  <2>2. rkey \in Keys /\ rslot # None
    BY <1>11, NoneAssumption DEF Keys
  <2>3. pending_actions'[rkey] = rslot
        /\ \A k \in Keys : k # rkey => pending_actions'[k] = pending_actions[k]
    BY <1>11, <2>2
  <2>4. KeysOK'
    <3>1. ASSUME NEW k \in Requests, pending_actions'[k] # None
          PROVE  pending_actions'[k].req = k
      <4>1. k \notin ActionIds
        <5>1. k \in Nat
          BY DEF Requests
        <5>2. ActionIds \cap Nat = {}
          BY RoutingAssumption
        <5>3. k \notin ActionIds \cap Nat
          BY <5>2
        <5> QED
          BY <5>1, <5>3, Zenon
      <4>2. CASE k = rkey
        BY <1>11, <2>3, <4>1, <4>2
      <4>3. CASE k # rkey
        BY <2>3, <3>1, <4>3 DEF LostInv, KeysOK, Keys
      <4> QED
        BY <4>2, <4>3
    <3>2. ASSUME NEW a \in ActionIds, pending_actions'[a] # None
          PROVE  route'[pending_actions'[a].req] = "mux"
      <4>1. CASE a = rkey
        BY <1>11, <2>3, <4>1
      <4>2. CASE a # rkey
        <5>1. a \in Live /\ pending_actions'[a] = pending_actions[a]
          BY <2>3, <3>2, <4>2 DEF Keys, Live
        <5>2. pending_actions[a].req \in Requests /\ pending_actions[a].req # n
          BY <1>11, <2>1, <5>1 DEF Requests
        <5>3. route[pending_actions[a].req] = "mux"
          BY <5>1 DEF LostInv, KeysOK, Live
        <5> QED
          BY <1>11, <5>1, <5>2, <5>3
      <4> QED
        BY <4>1, <4>2
    <3> QED
      BY <3>1, <3>2 DEF KeysOK
  <2>5. \A q \in 1..seq : route'[q] = route[q]
    BY <1>0, <1>11
  <2>6. rkey \in Live => route[pending_actions[rkey].req] = "mux"
    BY <1>11, <2>1 DEF LostInv, KeysOK, Live
  <2>7. \A q \in 1..seq : route[q] # "mux" /\ Tracked(q) => Tracked(q)'
    BY <1>11, <2>2, <2>3, <2>6 DEF Tracked, Live
  <2>8. Tracked(n)'
    BY <1>11, <2>2, <2>3 DEF Tracked, Live
  <2>9. \A q \in (1..seq)' : q = n \/ q \in 1..seq
    BY <1>11
  <2>10. \A q : Ended(q)' <=> Ended(q)
    BY <1>11 DEF Ended
  <2>11. NoLostRequest'
    BY <2>5, <2>7, <2>8, <2>9, <2>10 DEF LostInv, NoLostRequest
  <2>12. ClosingOK'
    BY <1>11 DEF ClosingOK
  <2> QED
    BY <2>4, <2>11, <2>12 DEF LostInv
<1>12. ASSUME RoutePut PROVE LostInv'
  <2>1. PICK n \in Requests : n = seq + 1
    BY <1>12 DEF RoutePut, TypeInv, TypeOK, HandOK, Requests
  <2>2. rslot \in Slot /\ rslot.req = n /\ (rkey \in ActionIds \/ rkey = n)
    BY <1>12, <2>1 DEF RoutePut, TypeInv, HandOK
  <2>3. /\ \A q \in Requests : q # n => route'[q] = route[q]
        /\ rkey \in ActionIds => route'[n] = "mux"
    BY <1>12, <2>1 DEF RoutePut, TypeInv, TypeOK
  <2> QED
    BY <1>11, <1>12, <2>1, <2>2, <2>3 DEF RoutePut
<1>13. ASSUME RelayPut PROVE LostInv'
  <2>1. PICK n \in Requests : n = seq + 1
    BY <1>13 DEF RelayPut, TypeInv, TypeOK, HandOK, Requests
  <2>2. rslot \in Slot /\ rslot.req = n /\ rkey = n
    BY <1>13, <2>1 DEF RelayPut, TypeInv, HandOK
  <2>3. rkey \notin ActionIds
    BY <2>2 DEF Requests
  <2>4. \A q \in Requests : q # n => route'[q] = route[q]
    BY <1>13, <2>1 DEF RelayPut, TypeInv, TypeOK
  <2> QED
    BY <1>11, <1>13, <2>1, <2>2, <2>3, <2>4 DEF RelayPut
<1>14. ASSUME RelaySent PROVE LostInv'
  BY <1>14, LostSame DEF RelaySent, Preserves, KeepsPlaces, ClosingOK, Live
<1>15. ASSUME RelayFailed PROVE LostInv'
  <2>1. PICK i \in Requests : i = rkey /\ i = rslot.req
    BY <1>15, SlotReq DEF RelayFailed, TypeInv, HandOK
  <2>2. Ended(i)'
    BY <1>15, <2>1, FinalEnds DEF RelayFailed
  <2>3. take_pending_action(i) /\ fheld' = fheld /\ rpc # "tell_final" /\ i \in Keys
    BY <1>15, <2>1 DEF RelayFailed, Keys
  <2>4. \A q \in Requests : Tracked(q) => Tracked(q)' \/ q = i
    BY <2>1, <2>3, TakeGivesUp DEF LostInv, KeysOK, Live
  <2>5. Preserves
    BY <1>15, ToldGrows DEF RelayFailed, Preserves, take_pending_action, TypeInv, TypeOK
  <2>6. ClosingOK'
    BY <1>15 DEF RelayFailed, ClosingOK
  <2> QED
    BY <1>0, <2>2, <2>4, <2>5, <2>6, LostFrame
<1>16. ASSUME TellFinal PROVE LostInv'
  <2>1. PICK r \in Requests : r = rslot.req
    BY <1>16, SlotReq DEF TellFinal, TypeInv, HandOK
  <2>2. Ended(r)'
    BY <1>16, <2>1, FinalEnds DEF TellFinal
  <2>3. \A q \in Requests : Tracked(q) => Tracked(q)' \/ q = r
    BY <1>16, <2>1 DEF TellFinal, Tracked, Live
  <2>4. Preserves
    BY <1>16, ToldGrows DEF TellFinal, Preserves
  <2>5. ClosingOK'
    BY <1>16 DEF TellFinal, ClosingOK
  <2> QED
    BY <1>0, <2>2, <2>3, <2>4, <2>5, LostFrame
<1>17. ASSUME TellAccept PROVE LostInv'
  <2>1. Preserves /\ KeepsPlaces
    BY <1>17, ToldGrows DEF TellAccept, Preserves, KeepsPlaces, Live
  <2> QED
    BY <1>17, <2>1, LostSame DEF TellAccept, ClosingOK
<1>18. ASSUME ChunkSent PROVE LostInv'
  BY <1>18, LostSame DEF ChunkSent, Preserves, KeepsPlaces, ClosingOK, Live
<1>19. ASSUME ChunkFailed PROVE LostInv'
  <2>1. PICK i \in Keys : i = rkey
    BY <1>19 DEF ChunkFailed, TypeInv, HandOK
  <2>2. Preserves
    BY <1>19, <2>1, AbortTells DEF ChunkFailed, Preserves, Live
  <2>3. ClosingOK'
    BY <1>19 DEF ChunkFailed, ClosingOK
  <2> QED
    BY <1>0, <1>19, <2>1, <2>2, <2>3, AbortTells, LostFrame DEF ChunkFailed
<1>20. ASSUME CloseSend PROVE LostInv'
  <2>1. Preserves /\ KeepsPlaces
    BY <1>20, ToldGrows DEF CloseSend, Preserves, KeepsPlaces, Live
  <2>2. ClosingOK'
    BY <1>20 DEF CloseSend, ClosingOK, LostInv, Notice, TypeInv, TypeOK
  <2> QED
    BY <2>1, <2>2, LostSame
<1>21. ASSUME CloseTake PROVE LostInv'
  <2>1. PICK i \in Keys : i = rkey
    BY <1>21 DEF CloseTake, TypeInv, HandOK
  <2>2. take_pending_action(i) /\ fheld' = fheld /\ rpc # "tell_final"
    BY <1>21, <2>1 DEF CloseTake
  <2>3. \A q \in Requests : Tracked(q) => Tracked(q)' \/ (i \in Live /\ pending_actions[i].req = q)
    BY <2>2, TakeGivesUp
  <2>4. i \in Live => route[pending_actions[i].req] = "mux"
                        \/ (pending_actions[i].req = i /\ i \in Requests)
    BY DEF LostInv, KeysOK, Live, Keys
  <2>5. i \in Requests => Ended(i)'
    BY <1>21, <2>1 DEF CloseTake, LostInv, ClosingOK, Ended
  <2>6. Preserves
    BY <1>21 DEF CloseTake, Preserves, take_pending_action, TypeInv, TypeOK
  <2>7. ClosingOK'
    BY <1>21 DEF CloseTake, ClosingOK
  <2> QED
    BY <1>0, <2>3, <2>4, <2>5, <2>6, <2>7, LostFrame
<1>22. ASSUME PruneTick PROVE LostInv'
  <2> USE DEF TypeInv, TypeOK
  <2>1. Preserves
    BY <1>22 DEF PruneTick, Preserves
  <2>2. \A k \in Live : \/ pending_actions'[k] = pending_actions[k]
                        \/ k \in Overdue \cup IdleSessions
    BY <1>22 DEF PruneTick, Live
  <2>3. ASSUME NEW q \in Requests, q \in RequestsOf(Overdue) \cup RequestsOf(IdleSessions)
        PROVE  Ended(q)'
    BY <1>22, <2>3 DEF PruneTick, Ended
  <2>4. \A k \in Overdue \cup IdleSessions :
          pending_actions[k].req \in RequestsOf(Overdue) \cup RequestsOf(IdleSessions)
    BY DEF RequestsOf
  <2>5. \A q \in Requests : Tracked(q) => Tracked(q)' \/ Ended(q)'
    BY <1>22, <2>2, <2>3, <2>4 DEF PruneTick, Tracked, Live
  <2>6. ClosingOK'
    BY <1>22 DEF PruneTick, ClosingOK
  <2> QED
    BY <1>0, <2>1, <2>5, <2>6, LostFrame
<1>23. ASSUME NEW i \in Keys, Expire(i) \/ GoIdle(i) PROVE LostInv'
  <2>1. Preserves /\ KeepsPlaces
    BY <1>23, MarkKeeps DEF Expire, GoIdle, Preserves, KeepsPlaces
  <2>2. ClosingOK'
    BY <1>23 DEF Expire, GoIdle, ClosingOK, LostInv
  <2> QED
    BY <2>1, <2>2, LostSame
<1>24. ASSUME NEW p \in Providers \cup Hosts, Register(p) PROVE LostInv'
  BY <1>24, LostSame DEF Register, Preserves, KeepsPlaces, ClosingOK, LostInv, Live
<1>25. ASSUME NEW t \in Failers, NEW p \in Providers \cup Hosts, Unregister(t, p)
       PROVE LostInv'
  BY <1>25, LostSame DEF Unregister, Preserves, KeepsPlaces, ClosingOK, LostInv, Live
<1>26. ASSUME NEW t \in Failers, FailCollect(t) \/ FailDone(t) PROVE LostInv'
  BY <1>26, LostSame DEF FailCollect, FailDone, Preserves, KeepsPlaces, ClosingOK,
     LostInv, Live
<1>27. ASSUME NEW t \in Failers, NEW i \in Keys, FailTake(t, i) PROVE LostInv'
  <2> USE DEF TypeInv, TypeOK
  <2>1. \A u \in Failers : fheld[u] \subseteq fheld'[u]
    BY <1>27 DEF FailTake
  <2>2. i \in Live => pending_actions[i] \in fheld'[t]
    BY <1>27 DEF FailTake
  <2>3. \A k \in Live : k = i \/ pending_actions'[k] = pending_actions[k]
    BY <1>27 DEF FailTake, take_pending_action, Live
  <2>4. \A q \in Requests : Tracked(q) => Tracked(q)'
    BY <1>27, <2>1, <2>2, <2>3 DEF FailTake, Tracked, Live
  <2>5. Preserves
    BY <1>27 DEF FailTake, Preserves, take_pending_action
  <2>6. ClosingOK'
    BY <1>27 DEF FailTake, ClosingOK, LostInv
  <2> QED
    BY <1>0, <2>4, <2>5, <2>6, LostFrame
<1>28. ASSUME NEW t \in Failers, NEW s \in fheld[t], FailSend(t, s) PROVE LostInv'
  <2>1. PICK r \in Requests : r = s.req
    BY <1>28, SlotReq DEF TypeInv, TypeOK
  <2>2. Ended(r)'
    BY <1>28, <2>1, FinalEnds, NoticeEnds DEF FailSend
  <2>3. \A u \in Failers : \A h \in fheld[u] : h \in fheld'[u] \/ h = s
    BY <1>28 DEF FailSend, TypeInv, TypeOK
  <2>4. \A q \in Requests : Tracked(q) => Tracked(q)' \/ q = r
    BY <1>28, <2>1, <2>3 DEF FailSend, Tracked, Live
  <2>5. Preserves
    BY <1>28, ToldGrows DEF FailSend, Preserves
  <2>6. ClosingOK'
    <3>1. \A q \in Requests : told[q] \subseteq told'[q]
      BY <2>5 DEF Preserves
    <3> QED
      BY <1>28, <3>1 DEF FailSend, ClosingOK, LostInv
  <2> QED
    BY <1>0, <2>2, <2>4, <2>5, <2>6, LostFrame
<1>29. ASSUME UNCHANGED vars PROVE LostInv'
  BY <1>29, LostSame DEF Preserves, KeepsPlaces, ClosingOK, LostInv, Live
<1> QED
  BY <1>1, <1>2, <1>3, <1>4, <1>5, <1>6, <1>7, <1>8, <1>9, <1>10, <1>12, <1>13, <1>14,
     <1>15, <1>16, <1>17, <1>18, <1>19, <1>20, <1>21, <1>22, <1>23, <1>24, <1>25, <1>26,
     <1>27, <1>28, <1>29
     DEF Next, Frames, Finish, Time, FailStep

\* A request that was given a minted key is in the map, in the hands of a task
\* that is about to answer it, or its caller was told how it ended: no
\* interleaving of the router with the removal of providers forgets it.
THEOREM NothingForgotten == Spec => []NoLostRequest
<1>1. LostInv => NoLostRequest
  BY DEF LostInv
<1>2. TypeInv /\ AnswerInv /\ LostInv /\ [Next]_vars => (TypeInv /\ AnswerInv /\ LostInv)'
  BY TypeStep, AnswerStep, LostStep
<1> QED
  BY <1>1, <1>2, TypeInit, AnswerInit, LostInit, PTL DEF Spec
-----------------------------------------------------------------------------
(* An accepted session is never answered by the kernel.                    *)

\* What was said of a request agrees with the slot that stands for it.  Not
\* even a slot that is not accepted may be in the map once the kernel has
\* answered, since it could still be accepted; one in the hands of a removing
\* task may, when the relay of its request failed meanwhile.
SlotsTold ==
    /\ \A i \in Live :
         /\ "kernel" \notin told[pending_actions[i].req]
         /\ ~pending_actions[i].session_accepted =>
              "accept" \notin told[pending_actions[i].req]
    /\ \A t \in Failers : \A s \in fheld[t] :
         IF s.session_accepted THEN "kernel" \notin told[s.req]
         ELSE "accept" \notin told[s.req]

\* Every slot of the request is an accepted session.
AllAccepted(q) ==
    /\ \A i \in Live : pending_actions[i].req = q => pending_actions[i].session_accepted
    /\ \A t \in Failers : \A s \in fheld[t] : s.req = q => s.session_accepted

\* None is.
NoneAccepted(q) ==
    /\ \A i \in Live : pending_actions[i].req = q => ~pending_actions[i].session_accepted
    /\ \A t \in Failers : \A s \in fheld[t] : s.req = q => ~s.session_accepted

\* The router between the acceptance of a session and passing it on, and
\* between the registration of a relayed request and its send.
RouterTold ==
    /\ rpc = "tell_accept" => /\ rslot.req <= seq
                              /\ "kernel" \notin told[rslot.req]
                              /\ AllAccepted(rslot.req)
    /\ rpc = "relay_send" => "accept" \notin told[rslot.req] /\ NoneAccepted(rslot.req)
    /\ rpc \in {"route", "relay"} => ~rslot.session_accepted

\* Nothing is told of a request that has not been handled.
NotTold == \A q \in Requests : q > seq => {"accept", "kernel"} \cap told[q] = {}

SessInv == SlotsTold /\ RouterTold /\ NotTold /\ SessionNotAnswered

\* No slot is accepted, and none is new.
SameSlots ==
    /\ \A i \in Keys : pending_actions'[i] # None =>
         /\ pending_actions[i] # None
         /\ pending_actions'[i].req = pending_actions[i].req
         /\ pending_actions'[i].session_accepted = pending_actions[i].session_accepted
    /\ \A t \in Failers : fheld'[t] \subseteq fheld[t]

\* No acceptance is passed on, and the kernel answers only a request that is
\* given up and is not a session.
ToldOK ==
    \A q \in Requests :
      /\ "accept" \in told'[q] => "accept" \in told[q]
      /\ "kernel" \in told'[q] =>
           \/ "kernel" \in told[q]
           \/ /\ q <= seq
              /\ "accept" \notin told[q]
              /\ \A i \in Live' : pending_actions'[i].req # q
              /\ \A t \in Failers : \A s \in fheld'[t] : s.req = q => ~s.session_accepted
              /\ rpc' = "tell_accept" => rslot'.req # q

\* The router does not come to pass an acceptance on, nor to relay.
SameHand ==
    /\ rpc' \in {"tell_accept", "relay_send"} => rpc' = rpc /\ rslot' = rslot
    /\ rpc' \in {"route", "relay"} => ~rslot'.session_accepted

\* A step that accepts nothing, and answers only what it gives up, keeps the
\* invariant.
LEMMA SessFrame ==
  ASSUME TypeInv, TypeInv', SessInv, SameSlots, ToldOK, SameHand, seq' = seq
  PROVE  SessInv'
<1> USE DEF TypeInv, TypeOK, SessInv
<1>1. /\ Live' \subseteq Live
      /\ \A i \in Live' : /\ pending_actions[i] \in Slot
                          /\ pending_actions'[i].req = pending_actions[i].req
                          /\ pending_actions'[i].session_accepted
                               = pending_actions[i].session_accepted
                          /\ pending_actions[i].req \in Requests
  BY SlotReq DEF SameSlots, Live
<1>2. \A t \in Failers : \A s \in fheld'[t] : s \in fheld[t] /\ s.req \in Requests
  BY SlotReq DEF SameSlots
<1>3. SlotsTold'
  <2>1. ASSUME NEW i \in Live'
        PROVE  /\ "kernel" \notin told'[pending_actions'[i].req]
               /\ ~pending_actions'[i].session_accepted =>
                    "accept" \notin told'[pending_actions'[i].req]
    BY <1>1 DEF SlotsTold, ToldOK
  <2>2. ASSUME NEW t \in Failers, NEW s \in fheld'[t]
        PROVE  IF s.session_accepted THEN "kernel" \notin told'[s.req]
               ELSE "accept" \notin told'[s.req]
    BY <1>2 DEF SlotsTold, ToldOK
  <2> QED
    BY <2>1, <2>2 DEF SlotsTold
<1>4. RouterTold'
  <2>1. ASSUME rpc' = "tell_accept"
        PROVE  (/\ rslot.req <= seq
                /\ "kernel" \notin told[rslot.req]
                /\ AllAccepted(rslot.req))'
    <3>1. rpc = "tell_accept" /\ rslot' = rslot /\ rslot.req \in Requests
      BY <2>1, SlotReq DEF SameHand, HandOK
    <3>2. "kernel" \notin told'[rslot.req]
      BY <2>1, <3>1 DEF RouterTold, ToldOK
    <3>3. AllAccepted(rslot.req)'
      BY <1>1, <1>2, <3>1 DEF RouterTold, AllAccepted
    <3> QED
      BY <3>1, <3>2, <3>3 DEF RouterTold
  <2>2. ASSUME rpc' = "relay_send"
        PROVE  ("accept" \notin told[rslot.req] /\ NoneAccepted(rslot.req))'
    <3>1. rpc = "relay_send" /\ rslot' = rslot /\ rslot.req \in Requests
      BY <2>2, SlotReq DEF SameHand, HandOK
    <3>2. "accept" \notin told'[rslot.req]
      BY <3>1 DEF RouterTold, ToldOK
    <3>3. NoneAccepted(rslot.req)'
      BY <1>1, <1>2, <3>1 DEF RouterTold, NoneAccepted
    <3> QED
      BY <3>1, <3>2, <3>3
  <2> QED
    BY <2>1, <2>2 DEF RouterTold, SameHand
<1>5. NotTold'
  BY DEF NotTold, ToldOK, Requests
<1>6. SessionNotAnswered'
  BY DEF SessionNotAnswered, ToldOK
<1> QED
  BY <1>3, <1>4, <1>5, <1>6

\* A step that says nothing of acceptance, and lets the kernel answer nothing.
LEMMA SessSame ==
  ASSUME TypeInv, TypeInv', SessInv, SameSlots, SameHand, seq' = seq,
         \A q \in Requests : \A n \in {"accept", "kernel"} : n \in told'[q] => n \in told[q]
  PROVE  SessInv'
  BY SessFrame DEF ToldOK

\* Taking a slot, and marking it other than accepted.
LEMMA SlotSame ==
  ASSUME TypeInv, NEW i \in Keys,
         \/ take_pending_action(i)
         \/ /\ pending_actions[i] # None
            /\ \/ touch_pending_action(i)
               \/ pending_actions' = [pending_actions EXCEPT ![i].expired = TRUE]
               \/ pending_actions' = [pending_actions EXCEPT ![i].idle = TRUE]
  PROVE  \A k \in Keys : pending_actions'[k] # None =>
           /\ pending_actions[k] # None
           /\ pending_actions'[k].req = pending_actions[k].req
           /\ pending_actions'[k].session_accepted = pending_actions[k].session_accepted
<1> USE DEF TypeInv, TypeOK
<1>1. CASE take_pending_action(i)
  BY <1>1 DEF take_pending_action
<1>2. ASSUME NEW s, pending_actions[i] # None,
             \/ s = [pending_actions[i] EXCEPT !.idle = FALSE]
             \/ s = [pending_actions[i] EXCEPT !.idle = TRUE]
             \/ s = [pending_actions[i] EXCEPT !.expired = TRUE],
             pending_actions' = [pending_actions EXCEPT ![i] = s],
             NEW k \in Keys, pending_actions'[k] # None
      PROVE  /\ pending_actions[k] # None
             /\ pending_actions'[k].req = pending_actions[k].req
             /\ pending_actions'[k].session_accepted = pending_actions[k].session_accepted
  <2>1. CASE k # i
    BY <1>2, <2>1
  <2>2. CASE k = i
    <3>1. pending_actions[i] \in Slot /\ pending_actions'[i] = s
      BY <1>2
    <3>2. s.req = pending_actions[i].req
          /\ s.session_accepted = pending_actions[i].session_accepted
      BY <1>2, <3>1 DEF Slot
    <3> QED
      BY <1>2, <2>2, <3>1, <3>2
  <2> QED
    BY <2>1, <2>2
<1>3. CASE touch_pending_action(i) /\ pending_actions[i] # None
  BY <1>2, <1>3 DEF touch_pending_action
<1>4. CASE /\ pending_actions' = [pending_actions EXCEPT ![i].expired = TRUE]
           /\ pending_actions[i] # None
  BY <1>2, <1>4
<1>5. CASE /\ pending_actions' = [pending_actions EXCEPT ![i].idle = TRUE]
           /\ pending_actions[i] # None
  BY <1>2, <1>5
<1> QED
  BY <1>1, <1>3, <1>4, <1>5

\* Where requests are, every one has been handled.
LEMMA PlacedHandled ==
  ASSUME TypeInv, AnswerInv
  PROVE  /\ \A i \in Live : /\ pending_actions[i] \in Slot
                            /\ pending_actions[i].req \in Requests
                            /\ pending_actions[i].req <= seq
         /\ \A t \in Failers : \A s \in fheld[t] : /\ s \in Slot
                                                   /\ s.req \in Requests
                                                   /\ s.req <= seq
  BY SlotReq DEF TypeInv, TypeOK, AnswerInv, Unanswered, Tracked, Live

\* An aborted stream: the kernel answers it only when it is not a session.
LEMMA AbortSess ==
  ASSUME TypeInv, TypeInv', AnswerInv, SessInv, NEW i \in Keys, abort_stream(i),
         fheld' = fheld, seq' = seq, rpc' = "idle"
  PROVE  SessInv'
<1> USE DEF TypeInv, TypeOK
<1>1. CASE pending_actions[i] = None
  BY <1>1, SessSame DEF abort_stream, SameSlots, SameHand
<1>2. CASE pending_actions[i] # None
  <2>1. i \in Live /\ pending_actions[i] \in Slot /\ take_pending_action(i)
    BY <1>2 DEF abort_stream, Live
  <2>2. PICK q \in Requests : q = pending_actions[i].req /\ q <= seq
    BY <2>1, PlacedHandled
  <2>3. SameSlots
    BY <2>1, SlotSame DEF SameSlots
  <2>4. /\ \A k \in Live' : pending_actions'[k].req # q
        /\ \A t \in Failers : \A s \in fheld'[t] : s.req # q
    BY <2>1, <2>2 DEF take_pending_action, Live, AnswerInv, OnePlace
  <2>5. \A r \in Requests :
          /\ "accept" \in told'[r] => "accept" \in told[r]
          /\ "kernel" \in told'[r] => "kernel" \in told[r]
                                        \/ (r = q /\ ~pending_actions[i].session_accepted)
    BY <1>2, <2>2 DEF abort_stream, notify_forced_termination, Notice
  <2>6. ~pending_actions[i].session_accepted => "accept" \notin told[q]
    BY <2>1, <2>2 DEF SessInv, SlotsTold
  <2>7. ToldOK
    BY <2>2, <2>4, <2>5, <2>6 DEF ToldOK
  <2> QED
    BY <2>3, <2>7, SessFrame DEF SameHand
<1> QED
  BY <1>1, <1>2

\* A request with the next number is put into the map.
LEMMA SessPut ==
  ASSUME TypeInv, TypeInv', AnswerInv, SessInv, NEW n \in Requests, n = seq + 1,
         seq' = n, NEW i \in Keys, NEW s \in Slot, s.req = n, ~s.session_accepted,
         pending_actions' = [pending_actions EXCEPT ![i] = s], fheld' = fheld,
         told' = told, rpc' = "idle" \/ (rpc' = "relay_send" /\ rslot' = s)
  PROVE  SessInv'
<1> USE DEF TypeInv, TypeOK, SessInv
<1>1. \A k \in Live' : IF k = i THEN pending_actions'[k] = s
                       ELSE k \in Live /\ pending_actions'[k] = pending_actions[k]
  BY DEF Live
<1>2. {"accept", "kernel"} \cap told[n] = {}
  BY DEF NotTold, Requests
<1>3. SlotsTold'
  BY <1>1, <1>2 DEF SlotsTold
<1>4. /\ \A k \in Live : pending_actions[k].req # n
      /\ \A t \in Failers : \A r \in fheld[t] : r.req # n
  BY PlacedHandled DEF Requests
<1>5. NoneAccepted(n)'
  BY <1>1, <1>4 DEF NoneAccepted
<1>6. RouterTold'
  BY <1>2, <1>5 DEF RouterTold
<1>7. NotTold'
  BY DEF NotTold, Requests
<1>8. SessionNotAnswered'
  BY DEF SessionNotAnswered
<1> QED
  BY <1>3, <1>6, <1>7, <1>8

\* At the start nothing is said.
LEMMA SessInit == Init => SessInv
  BY RoutingAssumption DEF Init, SessInv, SlotsTold, RouterTold, NotTold,
     SessionNotAnswered, Live, Requests

\* Every step keeps what was said of a request in agreement with its slot.
LEMMA SessStep ==
  TypeInv /\ TypeInv' /\ AnswerInv /\ LostInv /\ SessInv /\ [Next]_vars => SessInv'
<1> SUFFICES ASSUME TypeInv, TypeInv', AnswerInv, LostInv, SessInv, [Next]_vars
             PROVE  SessInv'
  OBVIOUS
<1> USE RoutingAssumption DEF vars, slots, router, failers, history, Done
<1>1. ASSUME RefuseRequest PROVE SessInv'
  <2> USE DEF TypeInv, TypeOK, SessInv
  <2>1. PICK n \in Requests : n = seq + 1
    BY <1>1 DEF RefuseRequest, CanRequest, Requests
  <2>2. \A q \in Requests : q # n => told'[q] = told[q]
    BY <1>1, <2>1 DEF RefuseRequest, SendFinal
  <2>3. "accept" \notin told'[n]
    BY <1>1, <2>1 DEF RefuseRequest, SendFinal, NotTold, Requests
  <2>4. UNCHANGED <<pending_actions, fheld, rpc, rslot>> /\ rpc = "idle" /\ seq' = n
    BY <1>1, <2>1 DEF RefuseRequest, CanRequest
  <2>5. /\ \A k \in Live : pending_actions[k].req \in Requests \ {n}
        /\ \A t \in Failers : \A s \in fheld[t] : s.req \in Requests \ {n}
    BY <2>1, PlacedHandled DEF Requests
  <2>6. SlotsTold'
    BY <2>2, <2>4, <2>5 DEF SlotsTold, Live
  <2>7. RouterTold'
    BY <2>4 DEF RouterTold
  <2>8. NotTold'
    BY <2>1, <2>2, <2>4 DEF NotTold, Requests
  <2>9. SessionNotAnswered'
    BY <2>2, <2>3 DEF SessionNotAnswered
  <2> QED
    BY <2>6, <2>7, <2>8, <2>9
<1>2. ASSUME NEW c \in Callers, NEW a \in ActionIds, NEW p \in Providers,
             NEW s \in BOOLEAN, LookupFound(c, a, p, s) \/ LookupMux(c, a, p, s)
      PROVE SessInv'
  BY <1>2, SessSame DEF LookupFound, LookupMux, NewSlot, SameSlots, SameHand
<1>3. ASSUME NEW c \in Callers, NEW a \in ActionIds, NEW h \in Hosts,
             NEW s \in BOOLEAN, LookupHost(c, a, h, s)
      PROVE SessInv'
  BY <1>3, SessSame DEF LookupHost, NewSlot, SameSlots, SameHand
<1>4. ASSUME NEW c \in Callers, NEW a \in ActionIds, RequestChunk(c, a) PROVE SessInv'
  <2>1. PICK i \in Live : touch_pending_action(i)
    BY <1>4 DEF RequestChunk, find_pending_internal_id
  <2>2. SameSlots
    BY <1>4, <2>1, SlotSame DEF RequestChunk, SameSlots, Live
  <2> QED
    BY <1>4, <2>2, SessSame DEF RequestChunk, SameHand
<1>5. ASSUME NEW c \in Callers, NEW a \in ActionIds, RequestChunkAbort(c, a)
      PROVE SessInv'
  <2>1. PICK i \in Keys : abort_stream(i)
    BY <1>5 DEF RequestChunkAbort, find_pending_internal_id, Live
  <2> QED
    BY <1>5, <2>1, AbortSess DEF RequestChunkAbort
<1>6. ASSUME NEW c \in Callers, NEW a \in ActionIds, CloseByCaller(c, a) PROVE SessInv'
  <2>1. \A q \in Requests : \A n \in {"accept", "kernel"} : n \in told'[q] => n \in told[q]
    BY <1>6 DEF CloseByCaller, Notice, TypeInv, TypeOK
  <2> QED
    BY <1>6, <2>1, SessSame DEF CloseByCaller, SameSlots, SameHand
<1>7. ASSUME NEW p \in Providers \cup Hosts, NEW i \in Keys, ResolveFinal(p, i)
      PROVE SessInv'
  <2>1. SameSlots
    BY <1>7, SlotSame DEF ResolveFinal, SameSlots
  <2> QED
    BY <1>7, <2>1, SessSame DEF ResolveFinal, SameHand
<1>8. ASSUME NEW p \in Providers \cup Hosts, NEW i \in Keys, ResolveAccept(p, i)
      PROVE SessInv'
  <2> USE DEF TypeInv, TypeOK, SessInv
  <2>1. i \in Live /\ pending_actions[i] \in Slot /\ rpc = "idle"
    BY <1>8 DEF ResolveAccept, RoutedTo, Live
  <2>2. UNCHANGED <<fheld, told, seq>> /\ rpc' = "tell_accept" /\ rslot' = pending_actions[i]
    BY <1>8 DEF ResolveAccept
  <2>3. pending_actions'[i] = [pending_actions[i] EXCEPT !.session_accepted = TRUE,
                                                         !.idle = FALSE]
    BY <1>8 DEF ResolveAccept
  <2>4. pending_actions'[i].req = pending_actions[i].req
        /\ pending_actions'[i].session_accepted
    BY <2>1, <2>3 DEF Slot
  <2>5. \A k \in Live' : k = i \/ (k \in Live /\ pending_actions'[k] = pending_actions[k])
    BY <1>8 DEF ResolveAccept, Live
  <2>6. PICK q \in Requests : q = pending_actions[i].req /\ q <= seq
    BY <2>1, PlacedHandled
  <2>7. "kernel" \notin told[q]
    BY <2>1, <2>6 DEF SlotsTold
  <2>8. SlotsTold'
    BY <2>2, <2>4, <2>5, <2>6, <2>7 DEF SlotsTold
  <2>9. AllAccepted(q)'
    <3>1. \A k \in Live' : pending_actions'[k].req = q => k = i
      BY <2>1, <2>5, <2>6 DEF AnswerInv, OnePlace
    <3>2. \A t \in Failers : \A s \in fheld'[t] : s.req # q
      BY <2>1, <2>2, <2>6 DEF AnswerInv, OnePlace
    <3> QED
      BY <2>4, <3>1, <3>2 DEF AllAccepted
  <2>10. RouterTold'
    BY <2>2, <2>6, <2>7, <2>9 DEF RouterTold
  <2> QED
    BY <2>2, <2>8, <2>10 DEF NotTold, SessionNotAnswered
<1>9. ASSUME NEW p \in Providers \cup Hosts, NEW i \in Keys, ResponseChunk(p, i)
      PROVE SessInv'
  <2>1. SameSlots
    BY <1>9, SlotSame DEF ResponseChunk, RoutedTo, Live, SameSlots
  <2> QED
    BY <1>9, <2>1, SessSame DEF ResponseChunk, SameHand
<1>10. ASSUME NEW p \in Providers \cup Hosts, NEW i \in Keys, CloseByProvider(p, i)
       PROVE SessInv'
  BY <1>10, SessSame DEF CloseByProvider, SameSlots, SameHand
<1>11. ASSUME RoutePut \/ RelayPut PROVE SessInv'
  <2>1. PICK n \in Requests : n = seq + 1
    BY <1>11 DEF RoutePut, RelayPut, TypeInv, TypeOK, HandOK, Requests
  <2>2. rslot \in Slot /\ rslot.req = n /\ rkey \in Keys
    BY <1>11, <2>1 DEF RoutePut, RelayPut, TypeInv, HandOK
  <2>3. ~rslot.session_accepted
    BY <1>11 DEF RoutePut, RelayPut, SessInv, RouterTold
  <2> QED
    BY <1>11, <2>1, <2>2, <2>3, SessPut DEF RoutePut, RelayPut
<1>12. ASSUME RelaySent \/ ChunkSent PROVE SessInv'
  BY <1>12, SessSame DEF RelaySent, ChunkSent, SameSlots, SameHand
<1>13. ASSUME RelayFailed PROVE SessInv'
  <2> USE DEF TypeInv, TypeOK
  <2>1. PICK q \in Requests : q = rkey /\ q = rslot.req /\ q <= seq /\ route[q] = "relay"
    BY <1>13, SlotReq DEF RelayFailed, HandOK
  <2>2. take_pending_action(q) /\ fheld' = fheld /\ q \in Keys /\ rpc' = "idle"
    BY <1>13, <2>1 DEF RelayFailed, Keys
  <2>3. SameSlots
    BY <2>2, SlotSame DEF SameSlots
  <2>4. \A k \in Live' : pending_actions'[k].req # q
    BY <2>1, <2>2 DEF take_pending_action, Live, LostInv, KeysOK, Keys
  <2>5. "accept" \notin told[q] /\ NoneAccepted(q)
    BY <1>13, <2>1 DEF RelayFailed, SessInv, RouterTold
  <2>6. \A r \in Requests : /\ "accept" \in told'[r] => "accept" \in told[r]
                            /\ "kernel" \in told'[r] => "kernel" \in told[r] \/ r = q
    BY <1>13, <2>1 DEF RelayFailed, SendFinal
  <2>7. ToldOK
    BY <2>1, <2>2, <2>4, <2>5, <2>6 DEF ToldOK, NoneAccepted
  <2> QED
    BY <1>13, <2>2, <2>3, <2>7, SessFrame DEF RelayFailed, SameHand
<1>14. ASSUME TellFinal PROVE SessInv'
  <2>1. \A q \in Requests : \A n \in {"accept", "kernel"} : n \in told'[q] => n \in told[q]
    BY <1>14 DEF TellFinal, SendFinal, TypeInv, TypeOK
  <2> QED
    BY <1>14, <2>1, SessSame DEF TellFinal, SameSlots, SameHand
<1>15. ASSUME TellAccept PROVE SessInv'
  <2> USE DEF TypeInv, TypeOK, SessInv
  <2>1. PICK q \in Requests : q = rslot.req
    BY <1>15, SlotReq DEF TellAccept, HandOK
  <2>2. "kernel" \notin told[q] /\ AllAccepted(q)
    BY <1>15, <2>1 DEF TellAccept, RouterTold
  <2>3. /\ told'[q] = told[q] \cup {"accept"}
        /\ \A r \in Requests : r # q => told'[r] = told[r]
    BY <1>15, <2>1 DEF TellAccept, Notice
  <2>4. UNCHANGED <<pending_actions, fheld, seq>> /\ rpc' = "idle"
    BY <1>15 DEF TellAccept
  <2>5. SlotsTold'
    <3>1. ASSUME NEW i \in Live
          PROVE  /\ "kernel" \notin told'[pending_actions[i].req]
                 /\ ~pending_actions[i].session_accepted =>
                      "accept" \notin told'[pending_actions[i].req]
      BY <2>2, <2>3, PlacedHandled DEF SlotsTold, AllAccepted
    <3>2. ASSUME NEW t \in Failers, NEW s \in fheld[t]
          PROVE  IF s.session_accepted THEN "kernel" \notin told'[s.req]
                 ELSE "accept" \notin told'[s.req]
      BY <2>2, <2>3, PlacedHandled DEF SlotsTold, AllAccepted
    <3> QED
      BY <2>4, <3>1, <3>2 DEF SlotsTold, Live
  <2>6. RouterTold'
    BY <2>4 DEF RouterTold
  <2>7. q <= seq
    BY <1>15, <2>1 DEF TellAccept, RouterTold
  <2>8. NotTold'
    BY <2>3, <2>4, <2>7 DEF NotTold, Requests
  <2>9. SessionNotAnswered'
    BY <2>2, <2>3 DEF SessionNotAnswered
  <2> QED
    BY <2>5, <2>6, <2>8, <2>9
<1>16. ASSUME ChunkFailed PROVE SessInv'
  <2>1. PICK i \in Keys : i = rkey
    BY <1>16 DEF ChunkFailed, TypeInv, HandOK
  <2> QED
    BY <1>16, <2>1, AbortSess DEF ChunkFailed
<1>17. ASSUME CloseSend PROVE SessInv'
  <2>1. \A q \in Requests : \A n \in {"accept", "kernel"} : n \in told'[q] => n \in told[q]
    BY <1>17 DEF CloseSend, Notice, TypeInv, TypeOK
  <2> QED
    BY <1>17, <2>1, SessSame DEF CloseSend, SameSlots, SameHand
<1>18. ASSUME CloseTake PROVE SessInv'
  <2>1. SameSlots
    BY <1>18, SlotSame DEF CloseTake, SameSlots, TypeInv, HandOK
  <2> QED
    BY <1>18, <2>1, SessSame DEF CloseTake, SameHand
<1>19. ASSUME PruneTick PROVE SessInv'
  <2> USE DEF TypeInv, TypeOK
  <2>1. SameSlots
    BY <1>19 DEF PruneTick, SameSlots
  <2>2. \A q \in Requests :
          /\ "accept" \in told'[q] => "accept" \in told[q]
          /\ "kernel" \in told'[q] => "kernel" \in told[q] \/ q \in RequestsOf(Overdue)
    BY <1>19 DEF PruneTick
  <2>3. ASSUME NEW q \in Requests, q \in RequestsOf(Overdue)
        PROVE  /\ q <= seq
               /\ "accept" \notin told[q]
               /\ \A k \in Live' : pending_actions'[k].req # q
               /\ \A t \in Failers : \A s \in fheld'[t] : s.req # q
    <3>1. PICK i \in Overdue : q = pending_actions[i].req
      BY <2>3 DEF RequestsOf
    <3>2. i \in Live /\ ~pending_actions[i].session_accepted
      BY DEF Overdue
    <3>3. \A k \in Live' : k \in Live /\ k # i /\ pending_actions'[k] = pending_actions[k]
      BY <1>19 DEF PruneTick, Live
    <3>4. q <= seq /\ "accept" \notin told[q]
      BY <3>1, <3>2, PlacedHandled DEF SessInv, SlotsTold
    <3>5. \A k \in Live' : pending_actions'[k].req # q
      BY <3>1, <3>2, <3>3 DEF AnswerInv, OnePlace
    <3>6. \A t \in Failers : \A s \in fheld'[t] : s.req # q
      BY <1>19, <3>1, <3>2 DEF PruneTick, AnswerInv, OnePlace
    <3> QED
      BY <3>4, <3>5, <3>6
  <2>4. ToldOK
    BY <1>19, <2>2, <2>3 DEF PruneTick, ToldOK
  <2> QED
    BY <1>19, <2>1, <2>4, SessFrame DEF PruneTick, SameHand
<1>20. ASSUME NEW i \in Keys, Expire(i) \/ GoIdle(i) PROVE SessInv'
  <2>1. SameSlots
    BY <1>20, SlotSame DEF Expire, GoIdle, Live, SameSlots
  <2> QED
    BY <1>20, <2>1, SessSame DEF Expire, GoIdle, SameHand, SessInv, RouterTold
<1>21. ASSUME NEW p \in Providers \cup Hosts, Register(p) PROVE SessInv'
  BY <1>21, SessSame DEF Register, SameSlots, SameHand, SessInv, RouterTold
<1>22. ASSUME NEW t \in Failers, NEW p \in Providers \cup Hosts, Unregister(t, p)
       PROVE SessInv'
  BY <1>22, SessSame DEF Unregister, SameSlots, SameHand, SessInv, RouterTold
<1>23. ASSUME NEW t \in Failers, FailCollect(t) \/ FailDone(t) PROVE SessInv'
  BY <1>23, SessSame DEF FailCollect, FailDone, SameSlots, SameHand, SessInv, RouterTold
<1>24. ASSUME NEW t \in Failers, NEW i \in Keys, FailTake(t, i) PROVE SessInv'
  <2> USE DEF TypeInv, TypeOK, SessInv
  <2>1. UNCHANGED <<told, seq, rpc, rslot>> /\ take_pending_action(i)
    BY <1>24 DEF FailTake
  <2>2. \A k \in Live' : k \in Live /\ pending_actions'[k] = pending_actions[k]
    BY <2>1 DEF take_pending_action, Live
  <2>3. \A u \in Failers : \A s \in fheld'[u] :
          s \in fheld[u] \/ (i \in Live /\ s = pending_actions[i])
    BY <1>24 DEF FailTake
  <2>4. SlotsTold'
    BY <2>1, <2>2, <2>3 DEF SlotsTold
  <2>5. ASSUME NEW q, AllAccepted(q) PROVE AllAccepted(q)'
    BY <2>2, <2>3, <2>5 DEF AllAccepted
  <2>6. ASSUME NEW q, NoneAccepted(q) PROVE NoneAccepted(q)'
    BY <2>2, <2>3, <2>6 DEF NoneAccepted
  <2>7. RouterTold'
    BY <2>1, <2>5, <2>6 DEF RouterTold
  <2> QED
    BY <2>1, <2>4, <2>7 DEF NotTold, SessionNotAnswered
<1>25. ASSUME NEW t \in Failers, NEW s \in fheld[t], FailSend(t, s) PROVE SessInv'
  <2> USE DEF TypeInv, TypeOK
  <2>1. PICK q \in Requests : q = s.req /\ q <= seq
    BY <1>25, PlacedHandled
  <2>2. UNCHANGED <<pending_actions, seq, rpc, rslot>>
        /\ fheld' = [fheld EXCEPT ![t] = @ \ {s}]
    BY <1>25 DEF FailSend
  <2>3. SameSlots
    BY <2>2 DEF SameSlots
  <2>4. \A r \in Requests :
          /\ "accept" \in told'[r] => "accept" \in told[r]
          /\ "kernel" \in told'[r] => "kernel" \in told[r]
                                        \/ (r = q /\ ~s.session_accepted)
    BY <1>25, <2>1 DEF FailSend, SendFinal, Notice
  <2>5. /\ \A k \in Live' : pending_actions'[k].req # q
        /\ \A u \in Failers : \A h \in fheld'[u] : h.req # q
    BY <2>1, <2>2 DEF AnswerInv, OnePlace, Live
  <2>6. ~s.session_accepted => "accept" \notin told[q]
    BY <2>1 DEF SessInv, SlotsTold
  <2>7. ~s.session_accepted => (rpc' = "tell_accept" => rslot'.req # q)
    BY <2>1, <2>2 DEF SessInv, RouterTold, AllAccepted
  <2>8. ToldOK
    BY <2>1, <2>4, <2>5, <2>6, <2>7 DEF ToldOK
  <2> QED
    BY <2>2, <2>3, <2>8, SessFrame DEF SameHand, SessInv, RouterTold
<1>26. ASSUME UNCHANGED vars PROVE SessInv'
  BY <1>26, SessSame DEF SameSlots, SameHand, SessInv, RouterTold
<1> QED
  BY <1>1, <1>2, <1>3, <1>4, <1>5, <1>6, <1>7, <1>8, <1>9, <1>10, <1>11, <1>12, <1>13,
     <1>14, <1>15, <1>16, <1>17, <1>18, <1>19, <1>20, <1>21, <1>22, <1>23, <1>24, <1>25,
     <1>26
     DEF Next, Frames, Finish, Time, FailStep

\* The kernel never answers a session whose acceptance it has passed on, and
\* passes on no acceptance of a request it has answered: the deadline, a
\* failing stream, a failed relay and the removal of the provider included.
THEOREM SessionsNotAnswered == Spec => []SessionNotAnswered
<1>1. SessInv => SessionNotAnswered
  BY DEF SessInv
<1>2. TypeInv /\ AnswerInv /\ LostInv /\ SessInv /\ [Next]_vars
        => (TypeInv /\ AnswerInv /\ LostInv /\ SessInv)'
  BY TypeStep, AnswerStep, LostStep, SessStep
<1> QED
  BY <1>1, <1>2, TypeInit, AnswerInit, LostInit, SessInit, PTL DEF Spec
=============================================================================
