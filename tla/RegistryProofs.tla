--------------------------- MODULE RegistryProofs ---------------------------
(***************************************************************************)
(* What holds of the registry for every set of plugins, connections and    *)
(* tasks: type correctness, the agreement of by_plugin_id and by_conn_id,  *)
(* that an open connection keeps its id; for operations that do not        *)
(* overlap, that the action index and the devices are exact; and, without  *)
(* a bridge, that an id is refused only while its holder is alive.         *)
(***************************************************************************)
EXTENDS Registry, TLAPS

Serving == RegisterPcs \cup UnregisterPcs \cup {"remove", "reserve"}

\* The locals a task has at each point of its operation.
LocalsOK ==
    /\ \A t \in DiscLoops \cup Stoppers :
         pc[t] \in UnregisterPcs \cup {"idle", "remove"}
    /\ \A t \in Threads : pc[t] \in {"pong_put", "pong_device"} => t = Router
    /\ \A t \in Threads : pc[t] \in {"up", "hangup"} => t \in Bridges
    /\ \A t \in Threads :
         pc[t] \in Serving \cup {"pong_put", "pong_device", "up"} => pid[t] \in Plugins
    /\ \A t \in Threads \ Stoppers :
         pc[t] \in Serving \cup {"up", "hangup"} => cid[t] \in Conns
    /\ \A t \in Threads : pc[t] \in UnregisterPcs => gone[t] \in Conns
    /\ \A t \in Threads :
         pc[t] \in {"promote", "promote_put", "unindex_get", "unindex_del",
                    "index_entry", "index_evacuate"} => cur[t] \in Actions
    /\ \A t \in Threads :
         pc[t] \in {"promote", "promote_put", "index_evacuate"} => only[t] \in Plugins

TypeInv == TypeOK /\ LocalsOK

\* Every half-made or half-removed registration belongs to one task.
OwnerInv ==
    /\ \A p \in Plugins :
         by_plugin_id[p] # None => by_conn_id[by_plugin_id[p]] = p
    /\ \A t \in Threads : pc[t] = "unconn" =>
         by_conn_id[gone[t]] = pid[t] /\ by_plugin_id[pid[t]] # gone[t]
    /\ \A t \in Threads : pc[t] \in RegisterPcs =>
         by_conn_id[cid[t]] = pid[t] /\ by_plugin_id[pid[t]] = None
    /\ \A t, u \in Threads :
         t # u /\ pc[t] = "unconn" /\ pc[u] = "unconn" => gone[t] # gone[u]
    /\ \A t, u \in Threads :
         t # u /\ pc[t] \in RegisterPcs /\ pc[u] \in RegisterPcs => pid[t] # pid[u]
    /\ \A t, u \in Threads :
         pc[t] = "unconn" /\ pc[u] \in RegisterPcs => gone[t] # cid[u]
    /\ \A c \in Conns : by_conn_id[c] # None =>
         \/ by_plugin_id[by_conn_id[c]] = c
         \/ \E t \in Threads : \/ Unmapping(t, by_conn_id[c], c)
                               \/ Registering(t, by_conn_id[c], c)

\* A connection that has ended for good; the bridge's may be used again.
Ended(c) == c \notin BridgeConns /\ is_closed(c)

\* A disconnect loop works only for connections that have ended.
DiscInv ==
    \A d \in DiscLoops :
      /\ \A i \in 1..Len(disc[d]) : Ended(disc[d][i])
      /\ pc[d] = "remove" => Ended(cid[d])

-----------------------------------------------------------------------------
(* Type correctness.                                                       *)

\* The initial state is well typed and every task is at rest.
LEMMA TypeInit == Init => TypeInv
  BY ConstantsAssumption DEF Init, TypeInv, TypeOK, LocalsOK, Pcs, Serving,
     Threads, RegisterPcs, UnregisterPcs

\* Every step keeps the types and leaves each task the locals it needs next.
LEMMA TypeStep == TypeInv /\ [Next]_vars => TypeInv'
<1> SUFFICES ASSUME TypeInv, [Next]_vars PROVE TypeInv'
  OBVIOUS
<1> USE ConstantsAssumption DEF TypeInv, TypeOK, LocalsOK, Pcs, Serving, Threads,
      RegisterPcs, UnregisterPcs, vars, clients, maps, owners, indexes, scratch, locals
<1>1. ASSUME NEW c \in Conns, Accept(c) PROVE TypeInv'
  BY <1>1 DEF Accept
<1>2. ASSUME NEW c \in Conns, Close(c) PROVE TypeInv'
  BY <1>2 DEF Close
<1>3. ASSUME NEW c \in Conns, SendPong(c) PROVE TypeInv'
  BY <1>3 DEF SendPong, Send, Frame
<1>4. ASSUME NEW c \in Conns, NEW p \in Plugins, SendRegister(c, p)
      PROVE TypeInv'
  BY <1>4 DEF SendRegister, Send, Frame
<1>5. ASSUME NEW t \in Stoppers, NEW p \in Plugins, Stop(t, p) PROVE TypeInv'
  BY <1>5 DEF Stop, Goto
<1>6. ASSUME NEW t \in Bridges, NEW c \in BridgeConns, NEW p \in Plugins, BridgeUp(t, c, p)
      PROVE TypeInv'
  BY <1>6 DEF BridgeUp, Goto
<1>7. ASSUME NEW t \in Bridges, BridgeDown(t) PROVE TypeInv'
  BY <1>7 DEF BridgeDown, Goto
<1>8. ASSUME NEW c \in Conns, SignalDisconnect(c) PROVE TypeInv'
  BY <1>8 DEF SignalDisconnect
<1>9. ASSUME RouterRefuse PROVE TypeInv'
  BY <1>9 DEF RouterRefuse, NextFrame, Frame
<1>10. ASSUME RouterRegister PROVE TypeInv'
  BY <1>10 DEF RouterRegister, NextFrame, Frame, Goto
<1>11. ASSUME RouterDrop PROVE TypeInv'
  BY <1>11 DEF RouterDrop, NextFrame, Frame
<1>12. ASSUME RouterPong PROVE TypeInv'
  BY <1>12 DEF RouterPong, NextFrame, Frame, Goto, get_by_conn_id
<1>13. ASSUME RecordPong PROVE TypeInv'
  BY <1>13 DEF RecordPong, Goto
<1>14. ASSUME RecordPongDevice PROVE TypeInv'
  BY <1>14 DEF RecordPongDevice, Return, Goto
<1>15. ASSUME NEW d \in DiscLoops, DiscMiss(d) PROVE TypeInv'
  BY <1>15 DEF DiscMiss, NextDisc
<1>16. ASSUME NEW d \in DiscLoops, DiscHit(d) PROVE TypeInv'
  BY <1>16 DEF DiscHit, NextDisc, Goto, get_by_conn_id
<1>17. ASSUME NEW t \in Bridges, BridgeHangup(t) PROVE TypeInv'
  BY <1>17 DEF BridgeHangup, Return, Goto
<1>18. ASSUME NEW t \in Threads, RemoveMiss(t) PROVE TypeInv'
  BY <1>18 DEF RemoveMiss, Return, Goto, AfterUnregister
<1>19. ASSUME NEW t \in Threads, RemoveHit(t) PROVE TypeInv'
  BY <1>19 DEF RemoveHit, Goto
<1>20. ASSUME NEW t \in Threads, RemoveConn(t) PROVE TypeInv'
  BY <1>20 DEF RemoveConn, Goto
<1>21. ASSUME NEW t \in Threads, RemovePong(t) PROVE TypeInv'
  BY <1>21 DEF RemovePong, Goto
<1>22. ASSUME NEW t \in Threads, UnindexRetain(t) PROVE TypeInv'
  <2>1. PICK a \in todo[t] :
          LET row  == ambiguous_actions[a]
              rest == IF row = None THEN {} ELSE row \ {pid[t]}
          IN  /\ cur' = [cur EXCEPT ![t] = a]
              /\ todo' = [todo EXCEPT ![t] = @ \ {a}]
              /\ ambiguous_actions' = IF row = None THEN ambiguous_actions
                                      ELSE [ambiguous_actions EXCEPT ![a] = rest]
              /\ \/ \E q \in Plugins :
                      only' = [only EXCEPT ![t] = q] /\ Goto(t, "promote")
                 \/ Goto(t, "unindex_get") /\ UNCHANGED only
    BY <1>22 DEF UnindexRetain
  <2>2. a \in Actions
    OBVIOUS
  <2>3. ambiguous_actions' \in [Actions -> (SUBSET Plugins) \cup {None}]
    BY <2>1, <2>2
  <2>4. /\ cur' = [cur EXCEPT ![t] = a]
        /\ todo' \in [Threads -> SUBSET Actions]
        /\ only' \in [Threads -> Plugins \cup {None}]
        /\ pc' \in [Threads -> Pcs]
        /\ pc[t] = "unindex"
        /\ pc'[t] \in {"promote", "unindex_get"}
        /\ pc'[t] = "promote" => only'[t] \in Plugins
        /\ \A u \in Threads \ {t} : pc'[u] = pc[u] /\ only'[u] = only[u]
    <3>1. pc[t] = "unindex"
      BY <1>22 DEF UnindexRetain
    <3>2. \/ \E q \in Plugins :
               only' = [only EXCEPT ![t] = q] /\ Goto(t, "promote")
          \/ Goto(t, "unindex_get") /\ UNCHANGED only
      BY <2>1
    <3>3. cur' = [cur EXCEPT ![t] = a] /\ todo' = [todo EXCEPT ![t] = @ \ {a}]
      BY <2>1
    <3>4. todo' \in [Threads -> SUBSET Actions]
      BY <3>3
    <3>5. CASE \E q \in Plugins :
                  only' = [only EXCEPT ![t] = q] /\ Goto(t, "promote")
      <4>1. PICK q \in Plugins :
              only' = [only EXCEPT ![t] = q] /\ pc' = [pc EXCEPT ![t] = "promote"]
        BY <3>5 DEF Goto
      <4>2. QED
        BY <3>1, <3>3, <3>4, <4>1
    <3>6. CASE pc' = [pc EXCEPT ![t] = "unindex_get"] /\ only' = only
      BY <3>1, <3>3, <3>4, <3>6
    <3>7. QED
      BY <3>2, <3>5, <3>6 DEF Goto
  <2>5. UNCHANGED <<clients, owners, pong_times, devices, action_index, pid,
                    cid, saw, gone, unseen, ack>>
    BY <1>22 DEF UnindexRetain
  <2>6. TypeOK'
    BY <2>2, <2>3, <2>4, <2>5
  <2>7. \A u \in Threads : u # t => cur'[u] = cur[u]
    BY <2>4
  <2>8. cur'[t] \in Actions
    BY <2>2, <2>4
  <2>9. LocalsOK'
    <3>1. pc'[t] \notin {"idle", "remove", "pong_put", "pong_device", "up", "hangup",
                        "promote_put", "index_evacuate"}
      BY <2>4
    <3>2. pid' = pid /\ cid' = cid /\ gone' = gone
      BY <2>5
    <3>3. pid[t] \in Plugins /\ gone[t] \in Conns
          /\ (t \notin Stoppers => cid[t] \in Conns)
      BY <2>4
    <3>4. QED
      BY <2>4, <2>7, <2>8, <3>1, <3>2, <3>3
  <2>10. QED
    BY <2>6, <2>9
<1>23. ASSUME NEW t \in Threads, PromoteDropRow(t) PROVE TypeInv'
  BY <1>23 DEF PromoteDropRow, Goto
<1>24. ASSUME NEW t \in Threads, PromotePut(t) PROVE TypeInv'
  BY <1>24 DEF PromotePut, Goto
<1>25. ASSUME NEW t \in Threads, UnindexGet(t) PROVE TypeInv'
  BY <1>25 DEF UnindexGet, Goto
<1>26. ASSUME NEW t \in Threads, UnindexDel(t) PROVE TypeInv'
  BY <1>26 DEF UnindexDel, Goto
<1>27. ASSUME NEW t \in Threads, ScanStart(t) PROVE TypeInv'
  BY <1>27 DEF ScanStart, Goto
<1>28. ASSUME NEW t \in Threads, ScanNext(t) PROVE TypeInv'
  BY <1>28 DEF ScanNext
<1>29. ASSUME NEW t \in Threads, ScanFound(t) PROVE TypeInv'
  BY <1>29 DEF ScanFound, Return, Goto, AfterUnregister
<1>30. ASSUME NEW t \in Threads, MarkOffline(t) PROVE TypeInv'
  BY <1>30 DEF MarkOffline, Return, Goto, AfterUnregister
<1>31. ASSUME NEW t \in Threads, ReserveReject(t) PROVE TypeInv'
  BY <1>31 DEF ReserveReject, Return, Goto
<1>32. ASSUME NEW t \in Threads, Reserve(t) PROVE TypeInv'
  BY <1>32 DEF Reserve, Goto
<1>33. ASSUME NEW t \in Threads, IndexPush(t) PROVE TypeInv'
  BY <1>33 DEF IndexPush, Goto
<1>34. ASSUME NEW t \in Threads, IndexEntry(t) PROVE TypeInv'
  BY <1>34 DEF IndexEntry, Goto
<1>35. ASSUME NEW t \in Threads, IndexEvacuate(t) PROVE TypeInv'
  <2>1. cur[t] \in Actions /\ {only[t], pid[t]} \in SUBSET Plugins
    BY <1>35 DEF IndexEvacuate
  <2>2. ambiguous_actions' \in [Actions -> (SUBSET Plugins) \cup {None}]
    BY <1>35, <2>1 DEF IndexEvacuate
  <2>3. QED
    BY <1>35, <2>2 DEF IndexEvacuate, Goto
<1>36. ASSUME NEW t \in Threads, InsertPong(t) PROVE TypeInv'
  <2>1. pong_times' \subseteq Plugins
    BY <1>36 DEF InsertPong
  <2>2. QED
    BY <1>36, <2>1 DEF InsertPong, Goto
<1>37. ASSUME NEW t \in Threads, UpsertDevice(t) PROVE TypeInv'
  BY <1>37 DEF UpsertDevice, Goto
<1>38. ASSUME NEW t \in Threads, Commit(t) PROVE TypeInv'
  BY ZenonT(30), <1>38 DEF Commit, Return, Goto
<1>98. CASE UNCHANGED vars
  BY <1>98
<1>99. QED
  BY <1>1, <1>2, <1>3, <1>4, <1>5, <1>6, <1>7, <1>8, <1>9, <1>10, <1>11,
     <1>12, <1>13, <1>14, <1>15, <1>16, <1>17, <1>18, <1>19, <1>20, <1>21,
     <1>22, <1>23, <1>24, <1>25, <1>26, <1>27, <1>28, <1>29, <1>30, <1>31,
     <1>32, <1>33, <1>34, <1>35, <1>36, <1>37, <1>38, <1>98
     DEF Next, Environment, RouterStep, DiscStep, UnregisterStep, RegisterStep, Quiet

\* Every reachable state is well typed.
THEOREM TypeCorrect == Spec => []TypeOK
<1>1. Spec => []TypeInv
  BY TypeInit, TypeStep, PTL DEF Spec
<1>2. TypeInv => TypeOK
  BY DEF TypeInv
<1>3. QED
  BY <1>1, <1>2, PTL

-----------------------------------------------------------------------------
(* Agreement of the two ownership maps.                                    *)

\* Nothing is registered initially.
LEMMA OwnerInit == Init => OwnerInv
  BY ConstantsAssumption DEF Init, OwnerInv, RegisterPcs, Threads

\* A step that leaves the ownership maps alone and no task's part in a
\* registration or in a removal changes.
SameRoles ==
    /\ UNCHANGED <<by_plugin_id, by_conn_id>>
    /\ \A t \in Threads :
         /\ pc'[t] = "unconn" <=> pc[t] = "unconn"
         /\ pc'[t] \in RegisterPcs <=> pc[t] \in RegisterPcs
         /\ pc[t] \in RegisterPcs \cup {"unconn"} => pid'[t] = pid[t]
         /\ pc[t] \in RegisterPcs => cid'[t] = cid[t]
         /\ pc[t] = "unconn" => gone'[t] = gone[t]

\* Such a step keeps OwnerInv.
LEMMA OwnerFrame ==
    ASSUME OwnerInv, SameRoles
    PROVE  OwnerInv'
  BY DEF OwnerInv, SameRoles, Unmapping, Registering

\* Only four steps touch the ownership maps.
LEMMA SameRolesStep ==
    ASSUME TypeInv, Next
    PROVE  \/ SameRoles
           \/ \E t \in Threads : RemoveHit(t) \/ RemoveConn(t) \/ Reserve(t) \/ Commit(t)
<1> USE ConstantsAssumption DEF TypeInv, TypeOK, LocalsOK, SameRoles, Serving, Threads,
      RegisterPcs, UnregisterPcs, clients, maps, owners, indexes, scratch, locals
<1>1. ASSUME NEW c \in Conns, Accept(c) PROVE SameRoles
  BY <1>1 DEF Accept
<1>2. ASSUME NEW c \in Conns, Close(c) PROVE SameRoles
  BY <1>2 DEF Close
<1>3. ASSUME NEW c \in Conns, SendPong(c) PROVE SameRoles
  BY <1>3 DEF SendPong, Send
<1>4. ASSUME NEW c \in Conns, NEW p \in Plugins, SendRegister(c, p)
      PROVE SameRoles
  BY <1>4 DEF SendRegister, Send
<1>5. ASSUME NEW t \in Stoppers, NEW p \in Plugins, Stop(t, p) PROVE SameRoles
  BY <1>5 DEF Stop, Goto
<1>6. ASSUME NEW t \in Bridges, NEW c \in BridgeConns, NEW p \in Plugins, BridgeUp(t, c, p)
      PROVE SameRoles
  BY <1>6 DEF BridgeUp, Goto
<1>7. ASSUME NEW t \in Bridges, BridgeDown(t) PROVE SameRoles
  BY <1>7 DEF BridgeDown, Goto
<1>8. ASSUME NEW c \in Conns, SignalDisconnect(c) PROVE SameRoles
  BY <1>8 DEF SignalDisconnect
<1>9. ASSUME RouterRefuse PROVE SameRoles
  BY <1>9 DEF RouterRefuse, NextFrame
<1>10. ASSUME RouterRegister PROVE SameRoles
  BY <1>10 DEF RouterRegister, NextFrame, Goto
<1>11. ASSUME RouterDrop PROVE SameRoles
  BY <1>11 DEF RouterDrop, NextFrame
<1>12. ASSUME RouterPong PROVE SameRoles
  BY <1>12 DEF RouterPong, NextFrame, Goto, get_by_conn_id
<1>13. ASSUME RecordPong PROVE SameRoles
  BY <1>13 DEF RecordPong, Goto
<1>14. ASSUME RecordPongDevice PROVE SameRoles
  BY <1>14 DEF RecordPongDevice, Return, Goto
<1>15. ASSUME NEW d \in DiscLoops, DiscMiss(d) PROVE SameRoles
  BY <1>15 DEF DiscMiss, NextDisc
<1>16. ASSUME NEW d \in DiscLoops, DiscHit(d) PROVE SameRoles
  BY <1>16 DEF DiscHit, NextDisc, Goto, get_by_conn_id
<1>17. ASSUME NEW t \in Bridges, BridgeHangup(t) PROVE SameRoles
  BY <1>17 DEF BridgeHangup, Return, Goto
<1>18. ASSUME NEW t \in Threads, RemoveMiss(t) PROVE SameRoles
  BY <1>18 DEF RemoveMiss, Return, Goto, AfterUnregister
<1>19. ASSUME NEW t \in Threads, RemovePong(t) PROVE SameRoles
  BY <1>19 DEF RemovePong, Goto
<1>20. ASSUME NEW t \in Threads, UnindexRetain(t) PROVE SameRoles
  BY <1>20 DEF UnindexRetain, Goto
<1>21. ASSUME NEW t \in Threads, PromoteDropRow(t) PROVE SameRoles
  BY <1>21 DEF PromoteDropRow, Goto
<1>22. ASSUME NEW t \in Threads, PromotePut(t) PROVE SameRoles
  BY <1>22 DEF PromotePut, Goto
<1>23. ASSUME NEW t \in Threads, UnindexGet(t) PROVE SameRoles
  BY <1>23 DEF UnindexGet, Goto
<1>24. ASSUME NEW t \in Threads, UnindexDel(t) PROVE SameRoles
  BY <1>24 DEF UnindexDel, Goto
<1>25. ASSUME NEW t \in Threads, ScanStart(t) PROVE SameRoles
  BY <1>25 DEF ScanStart, Goto
<1>26. ASSUME NEW t \in Threads, ScanNext(t) PROVE SameRoles
  BY <1>26 DEF ScanNext
<1>27. ASSUME NEW t \in Threads, ScanFound(t) PROVE SameRoles
  BY <1>27 DEF ScanFound, Return, Goto, AfterUnregister
<1>28. ASSUME NEW t \in Threads, MarkOffline(t) PROVE SameRoles
  BY <1>28 DEF MarkOffline, Return, Goto, AfterUnregister
<1>29. ASSUME NEW t \in Threads, ReserveReject(t) PROVE SameRoles
  BY <1>29 DEF ReserveReject, Return, Goto
<1>30. ASSUME NEW t \in Threads, IndexPush(t) PROVE SameRoles
  BY <1>30 DEF IndexPush, Goto
<1>31. ASSUME NEW t \in Threads, IndexEntry(t) PROVE SameRoles
  BY <1>31 DEF IndexEntry, Goto
<1>32. ASSUME NEW t \in Threads, IndexEvacuate(t) PROVE SameRoles
  BY <1>32 DEF IndexEvacuate, Goto
<1>33. ASSUME NEW t \in Threads, InsertPong(t) PROVE SameRoles
  BY <1>33 DEF InsertPong, Goto
<1>34. ASSUME NEW t \in Threads, UpsertDevice(t) PROVE SameRoles
  BY <1>34 DEF UpsertDevice, Goto
<1>98. ASSUME Quiet PROVE SameRoles
  BY <1>98 DEF Quiet, vars
<1>99. QED
  BY <1>1, <1>2, <1>3, <1>4, <1>5, <1>6, <1>7, <1>8, <1>9, <1>10, <1>11,
     <1>12, <1>13, <1>14, <1>15, <1>16, <1>17, <1>18, <1>19, <1>20, <1>21,
     <1>22, <1>23, <1>24, <1>25, <1>26, <1>27, <1>28, <1>29, <1>30, <1>31,
     <1>32, <1>33, <1>34, <1>98
     DEF Next, Environment, RouterStep, DiscStep, UnregisterStep, RegisterStep

\* Those four keep OwnerInv too: the vacant entry that register holds
\* excludes a second registration of the id, and remove_if frees the id
\* before the connection.
LEMMA OwnerStep ==
    ASSUME TypeInv, OwnerInv, [Next]_vars
    PROVE  OwnerInv'
<1> USE ConstantsAssumption
<1>0. \A t \in Threads :
        /\ pc[t] \in Serving => pid[t] \in Plugins
        /\ pc[t] \in RegisterPcs \cup {"reserve"} => cid[t] \in Conns
        /\ pc[t] = "unconn" => gone[t] \in Conns
  BY DEF TypeInv, LocalsOK, Serving, RegisterPcs, UnregisterPcs, Threads
<1>1. ASSUME NEW t \in Threads, RemoveHit(t) PROVE OwnerInv'
  <2>0. /\ pid[t] \in Plugins
        /\ by_plugin_id[pid[t]] \in Conns
        /\ by_conn_id[by_plugin_id[pid[t]]] = pid[t]
    BY <1>0, <1>1 DEF RemoveHit, TypeInv, TypeOK, OwnerInv, Serving
  <2>1. PICK p \in Plugins, c \in Conns :
          /\ pid[t] = p /\ by_plugin_id[p] = c /\ by_conn_id[c] = p
          /\ pc[t] = "remove"
          /\ by_plugin_id' = [by_plugin_id EXCEPT ![p] = None]
          /\ gone' = [gone EXCEPT ![t] = c]
          /\ pc' = [pc EXCEPT ![t] = "unconn"]
          /\ UNCHANGED <<by_conn_id, pid, cid>>
    BY <1>1, <2>0 DEF RemoveHit, Goto
  <2>2. /\ pc'[t] = "unconn" /\ gone'[t] = c
        /\ \A u \in Threads \ {t} : pc'[u] = pc[u] /\ gone'[u] = gone[u]
        /\ by_plugin_id'[p] = None
        /\ \A q \in Plugins \ {p} : by_plugin_id'[q] = by_plugin_id[q]
    BY <2>1 DEF TypeInv, TypeOK
  <2>3. c # None
    OBVIOUS
  <2>4. \A u \in Threads : pc[u] = "unconn" => gone[u] # c
    BY <1>0, <2>1 DEF OwnerInv
  <2>5. \A u \in Threads : pc[u] \in RegisterPcs => cid[u] # c /\ u # t
    BY <1>0, <2>1, <2>3 DEF OwnerInv, RegisterPcs
  <2>6. QED
    BY <1>0, <2>1, <2>2, <2>3, <2>4, <2>5
       DEF OwnerInv, Unmapping, Registering, RegisterPcs, Serving, UnregisterPcs
<1>2. ASSUME NEW t \in Threads, RemoveConn(t) PROVE OwnerInv'
  <2>1. PICK p \in Plugins, c \in Conns :
          /\ pid[t] = p /\ gone[t] = c /\ by_conn_id[c] = p /\ by_plugin_id[p] # c
          /\ pc[t] = "unconn"
          /\ by_conn_id' = [by_conn_id EXCEPT ![c] = None]
          /\ pc' = [pc EXCEPT ![t] = "unpong"]
          /\ UNCHANGED <<by_plugin_id, pid, cid, gone>>
    BY ZenonT(30), <1>0, <1>2 DEF RemoveConn, Goto, OwnerInv, Serving, UnregisterPcs, locals, scratch
  <2>2. /\ pc'[t] = "unpong"
        /\ \A u \in Threads \ {t} : pc'[u] = pc[u]
        /\ by_conn_id'[c] = None
        /\ \A d \in Conns \ {c} : by_conn_id'[d] = by_conn_id[d]
    BY <2>1 DEF TypeInv, TypeOK
  <2>3. \A q \in Plugins : by_plugin_id[q] # c
    BY <2>1 DEF OwnerInv
  <2>4. ASSUME NEW d \in Conns, by_conn_id'[d] # None
        PROVE  \/ by_plugin_id[by_conn_id'[d]] = d
               \/ \E u \in Threads : \/ Unmapping(u, by_conn_id[d], d)'
                                     \/ Registering(u, by_conn_id[d], d)'
    <3>1. d # c /\ by_conn_id'[d] = by_conn_id[d]
      BY <2>2, <2>4
    <3>2. CASE by_plugin_id[by_conn_id[d]] = d
      BY <3>1, <3>2
    <3>3. ASSUME NEW u \in Threads, \/ Unmapping(u, by_conn_id[d], d)
                                    \/ Registering(u, by_conn_id[d], d)
          PROVE  \/ Unmapping(u, by_conn_id[d], d)'
                 \/ Registering(u, by_conn_id[d], d)'
      <4>1. u # t
        BY <2>1, <3>1, <3>3 DEF Unmapping, Registering, RegisterPcs
      <4>2. QED
        BY <2>1, <2>2, <3>1, <3>3, <4>1 DEF Unmapping, Registering
    <3>4. QED
      BY <2>4, <3>1, <3>2, <3>3 DEF OwnerInv
  <2>5. \A u \in Threads : pc'[u] = "unconn" => pc[u] = "unconn" /\ gone[u] # c
    BY <2>1, <2>2 DEF OwnerInv
  <2>6. \A u \in Threads : pc'[u] \in RegisterPcs => pc[u] \in RegisterPcs /\ cid[u] # c
    BY <2>1, <2>2 DEF OwnerInv, RegisterPcs
  <2>7. QED
    BY <1>0, <2>1, <2>2, <2>3, <2>4, <2>5, <2>6 DEF OwnerInv, TypeInv, TypeOK
<1>3. ASSUME NEW t \in Threads, Reserve(t) PROVE OwnerInv'
  <2>1. PICK p \in Plugins, c \in Conns :
          /\ pid[t] = p /\ cid[t] = c /\ by_conn_id[c] = None /\ by_plugin_id[p] = None
          /\ pc[t] = "reserve" /\ ~SlotHeld(p)
          /\ by_conn_id' = [by_conn_id EXCEPT ![c] = p]
          /\ pc' = [pc EXCEPT ![t] = "index"]
          /\ UNCHANGED <<by_plugin_id, pid, cid, gone>>
    BY <1>0, <1>3 DEF Reserve, Reservable, Goto, Serving
  <2>2. /\ pc'[t] = "index"
        /\ \A u \in Threads \ {t} : pc'[u] = pc[u]
        /\ by_conn_id'[c] = p
        /\ \A d \in Conns \ {c} : by_conn_id'[d] = by_conn_id[d]
    BY <2>1 DEF TypeInv, TypeOK
  <2>3. \A u \in Threads :
          /\ pc[u] \in RegisterPcs => pid[u] # p /\ cid[u] # c
          /\ pc[u] = "unconn" => gone[u] # c
    BY <1>0, <2>1 DEF SlotHeld, OwnerInv, Serving, UnregisterPcs, RegisterPcs
  <2>4. \A q \in Plugins : by_plugin_id[q] # c
    BY <2>1 DEF OwnerInv
  <2>5. ASSUME NEW d \in Conns, by_conn_id'[d] # None
        PROVE  \/ by_plugin_id[by_conn_id'[d]] = d
               \/ \E u \in Threads : \/ Unmapping(u, by_conn_id[d], d)'
                                     \/ Registering(u, by_conn_id[d], d)'
    <3>1. CASE d = c
      BY <2>1, <2>2, <3>1 DEF Registering, RegisterPcs
    <3>2. CASE d # c /\ by_plugin_id[by_conn_id[d]] = d
      BY <2>2, <3>2
    <3>3. ASSUME d # c, NEW u \in Threads, \/ Unmapping(u, by_conn_id[d], d)
                                           \/ Registering(u, by_conn_id[d], d)
          PROVE  \/ Unmapping(u, by_conn_id[d], d)'
                 \/ Registering(u, by_conn_id[d], d)'
      <4>1. u # t
        BY <2>1, <3>3 DEF Unmapping, Registering, RegisterPcs
      <4>2. QED
        BY <2>1, <2>2, <3>3, <4>1 DEF Unmapping, Registering
    <3>4. QED
      BY <2>2, <2>5, <3>1, <3>2, <3>3 DEF OwnerInv
  <2>6. \A u \in Threads : pc'[u] = "unconn" => pc[u] = "unconn"
    BY <2>2
  <2>7. \A u \in Threads : pc'[u] \in RegisterPcs /\ u # t =>
          pc[u] \in RegisterPcs
    BY <2>2
  <2>8. QED
    BY <1>0, <2>1, <2>2, <2>3, <2>4, <2>5, <2>6, <2>7
       DEF OwnerInv, TypeInv, TypeOK, Serving, UnregisterPcs
<1>4. ASSUME NEW t \in Threads, Commit(t) PROVE OwnerInv'
  <2>0. /\ pid[t] \in Plugins /\ cid[t] \in Conns
        /\ by_conn_id[cid[t]] = pid[t] /\ by_plugin_id[pid[t]] = None
        /\ pc[t] = "commit"
    BY <1>0, <1>4 DEF Commit, OwnerInv, Serving, RegisterPcs
  <2>1. PICK p \in Plugins, c \in Conns, l \in {"up", "idle"} :
          /\ pid[t] = p /\ cid[t] = c /\ by_conn_id[c] = p /\ by_plugin_id[p] = None
          /\ pc[t] = "commit"
          /\ by_plugin_id' = [by_plugin_id EXCEPT ![p] = c]
          /\ pc' = [pc EXCEPT ![t] = l]
          /\ UNCHANGED by_conn_id
          /\ \A u \in Threads \ {t} :
               pid'[u] = pid[u] /\ cid'[u] = cid[u] /\ gone'[u] = gone[u]
    <3>1. PICK l \in {"up", "idle"} : Return(t, l)
      BY <1>4 DEF Commit
    <3>2. \A u \in Threads \ {t} :
            pid'[u] = pid[u] /\ cid'[u] = cid[u] /\ gone'[u] = gone[u]
      BY <3>1 DEF Return, TypeInv, TypeOK
    <3>3. QED
      BY <1>4, <2>0, <3>1, <3>2 DEF Commit, Return, Goto
  <2>2. /\ pc'[t] = l
        /\ \A u \in Threads \ {t} : pc'[u] = pc[u]
        /\ by_plugin_id'[p] = c
        /\ \A q \in Plugins \ {p} : by_plugin_id'[q] = by_plugin_id[q]
    BY <2>1 DEF TypeInv, TypeOK
  <2>3. \A u \in Threads :
          /\ u # t /\ pc[u] \in RegisterPcs => pid[u] # p
          /\ pc[u] = "unconn" => gone[u] # c
    BY <2>1 DEF OwnerInv, RegisterPcs
  <2>4. \A u \in Threads : pc[u] \in RegisterPcs \cup {"unconn"} /\ pid[u] # p =>
          by_plugin_id'[pid[u]] = by_plugin_id[pid[u]]
    <3>1. \A u \in Threads : pc[u] \in RegisterPcs \cup {"unconn"} => pid[u] \in Plugins
      BY <1>0 DEF Serving, UnregisterPcs
    <3>2. QED
      BY <2>2, <3>1
  <2>5. ASSUME NEW d \in Conns, by_conn_id'[d] # None
        PROVE  \/ by_plugin_id'[by_conn_id'[d]] = d
               \/ \E u \in Threads : \/ Unmapping(u, by_conn_id[d], d)'
                                     \/ Registering(u, by_conn_id[d], d)'
    <3>1. CASE d = c
      BY <2>1, <2>2, <3>1
    <3>2. CASE d # c /\ by_plugin_id[by_conn_id[d]] = d
      BY <2>1, <2>2, <3>2 DEF TypeInv, TypeOK
    <3>3. ASSUME d # c, NEW u \in Threads, \/ Unmapping(u, by_conn_id[d], d)
                                           \/ Registering(u, by_conn_id[d], d)
          PROVE  \/ Unmapping(u, by_conn_id[d], d)'
                 \/ Registering(u, by_conn_id[d], d)'
      <4>1. u # t
        BY <2>1, <3>3 DEF Unmapping, Registering
      <4>2. QED
        BY <2>1, <2>2, <3>3, <4>1 DEF Unmapping, Registering
    <3>4. QED
      BY <2>1, <2>5, <3>1, <3>2, <3>3 DEF OwnerInv
  <2>6. \A u \in Threads : pc'[u] \in RegisterPcs \cup {"unconn"} =>
          /\ u # t /\ pc[u] = pc'[u]
          /\ pid'[u] = pid[u] /\ cid'[u] = cid[u] /\ gone'[u] = gone[u]
    BY <2>1, <2>2 DEF RegisterPcs
  <2>7. /\ \A q \in Plugins :
             by_plugin_id'[q] # None => by_conn_id'[by_plugin_id'[q]] = q
        /\ \A u \in Threads : pc'[u] = "unconn" =>
             by_conn_id'[gone'[u]] = pid'[u] /\ by_plugin_id'[pid'[u]] # gone'[u]
        /\ \A u \in Threads : pc'[u] \in RegisterPcs =>
             by_conn_id'[cid'[u]] = pid'[u] /\ by_plugin_id'[pid'[u]] = None
    BY <1>0, <2>1, <2>2, <2>3, <2>4, <2>6 DEF OwnerInv
  <2>8. QED
    BY <2>5, <2>6, <2>7 DEF OwnerInv
<1>5. CASE UNCHANGED vars
  <2>1. SameRoles
    BY <1>5 DEF SameRoles, vars, maps, owners, locals, scratch
  <2>2. QED
    BY <2>1, OwnerFrame
<1>6. QED
  BY <1>1, <1>2, <1>3, <1>4, <1>5, SameRolesStep, OwnerFrame

\* OwnerInv is the inductive form of OwnershipConsistent.
LEMMA OwnerInvImplies ==
    ASSUME TypeInv, OwnerInv
    PROVE  OwnershipConsistent
<1> USE ConstantsAssumption
<1>1. ASSUME NEW c \in Conns, by_conn_id[c] # None, by_plugin_id[by_conn_id[c]] # c
      PROVE  \E t \in Threads :
               {u \in Threads : \/ Unmapping(u, by_conn_id[c], c)
                                \/ Registering(u, by_conn_id[c], c)} = {t}
  <2>1. PICK t \in Threads : \/ Unmapping(t, by_conn_id[c], c)
                             \/ Registering(t, by_conn_id[c], c)
    BY <1>1 DEF OwnerInv
  <2>2. ASSUME NEW u \in Threads, \/ Unmapping(u, by_conn_id[c], c)
                                  \/ Registering(u, by_conn_id[c], c)
        PROVE  u = t
    BY <2>1, <2>2 DEF OwnerInv, Unmapping, Registering
  <2>3. QED
    BY <2>1, <2>2
<1>2. ASSUME NEW c \in Conns, by_conn_id[c] # None, by_plugin_id[by_conn_id[c]] = c
      PROVE  {u \in Threads : \/ Unmapping(u, by_conn_id[c], c)
                              \/ Registering(u, by_conn_id[c], c)} = {}
  BY <1>2 DEF OwnerInv, Unmapping, Registering
<1>3. QED
  BY <1>1, <1>2 DEF OwnershipConsistent, OwnerInv

\* by_plugin_id and by_conn_id agree in every reachable state, for any number
\* of routers' clients, disconnect loops, stops and bridges.
THEOREM Ownership == Spec => []OwnershipConsistent
<1>1. Init => TypeInv /\ OwnerInv
  BY TypeInit, OwnerInit
<1>2. TypeInv /\ OwnerInv /\ [Next]_vars => (TypeInv /\ OwnerInv)'
  BY TypeStep, OwnerStep
<1>3. TypeInv /\ OwnerInv => OwnershipConsistent
  BY OwnerInvImplies
<1>4. QED
  BY <1>1, <1>2, <1>3, PTL DEF Spec

-----------------------------------------------------------------------------
(* An open connection keeps its id.                                        *)

\* A step that leaves the disconnect inboxes alone, starts no removal for
\* them and reopens no connection.
SameDisc ==
    /\ UNCHANGED disc
    /\ \A c \in Conns : Ended(c) => Ended(c)'
    /\ \A d \in DiscLoops : pc'[d] = "remove" => pc[d] = "remove" /\ cid'[d] = cid[d]

\* The elements of Tail(s) are those of s, one place down.
LEMMA TailElements ==
    ASSUME NEW S, NEW s \in Seq(S), s # <<>>
    PROVE  /\ \A i \in 1..Len(Tail(s)) : Tail(s)[i] = s[i + 1] /\ i + 1 \in 1..Len(s)
           /\ Head(s) = s[1] /\ 1 \in 1..Len(s)
<1>1. Len(s) \in Nat \ {0} /\ Len(Tail(s)) = Len(s) - 1
  OBVIOUS
<1>2. \A i \in 1..(Len(s) - 1) : Tail(s)[i] = s[i + 1]
  OBVIOUS
<1>3. QED
  BY <1>1, <1>2

\* Such a step keeps DiscInv.
LEMMA DiscFrame ==
    ASSUME TypeInv, DiscInv, SameDisc
    PROVE  DiscInv'
<1>1. \A d \in DiscLoops : pc[d] = "remove" => cid[d] \in Conns
  BY ConstantsAssumption DEF TypeInv, LocalsOK, Threads, Serving
<1>2. \A d \in DiscLoops : \A i \in 1..Len(disc[d]) : disc[d][i] \in Conns
  BY DEF TypeInv, TypeOK
<1>3. QED
  BY <1>1, <1>2 DEF DiscInv, SameDisc, Ended, is_closed

\* Only a teardown and a disconnect loop touch the disconnect inboxes.
LEMMA SameDiscStep ==
    ASSUME TypeInv, Next
    PROVE  \/ SameDisc
           \/ \E c \in Conns : SignalDisconnect(c)
           \/ \E d \in DiscLoops : DiscMiss(d) \/ DiscHit(d)
<1> USE ConstantsAssumption DEF TypeInv, TypeOK, LocalsOK, SameDisc, Serving, Threads,
      RegisterPcs, UnregisterPcs, clients, locals, scratch, Ended, is_closed
<1>1. ASSUME NEW c \in Conns, Accept(c) PROVE SameDisc
  BY <1>1 DEF Accept
<1>2. ASSUME NEW c \in Conns, Close(c) PROVE SameDisc
  BY <1>2 DEF Close
<1>3. ASSUME NEW c \in Conns, SendPong(c) PROVE SameDisc
  BY <1>3 DEF SendPong, Send
<1>4. ASSUME NEW c \in Conns, NEW p \in Plugins, SendRegister(c, p)
      PROVE SameDisc
  BY <1>4 DEF SendRegister, Send
<1>5. ASSUME NEW t \in Stoppers, NEW p \in Plugins, Stop(t, p) PROVE SameDisc
  BY <1>5 DEF Stop, Goto
<1>6. ASSUME NEW t \in Bridges, NEW c \in BridgeConns, NEW p \in Plugins, BridgeUp(t, c, p)
      PROVE SameDisc
  BY <1>6 DEF BridgeUp, Goto
<1>7. ASSUME NEW t \in Bridges, BridgeDown(t) PROVE SameDisc
  BY <1>7 DEF BridgeDown, Goto
<1>8. ASSUME RouterRefuse PROVE SameDisc
  BY <1>8 DEF RouterRefuse, NextFrame
<1>9. ASSUME RouterRegister PROVE SameDisc
  BY <1>9 DEF RouterRegister, NextFrame, Goto
<1>10. ASSUME RouterDrop PROVE SameDisc
  BY <1>10 DEF RouterDrop, NextFrame
<1>11. ASSUME RouterPong PROVE SameDisc
  BY <1>11 DEF RouterPong, NextFrame, Goto, get_by_conn_id
<1>12. ASSUME RecordPong PROVE SameDisc
  BY <1>12 DEF RecordPong, Goto
<1>13. ASSUME RecordPongDevice PROVE SameDisc
  BY <1>13 DEF RecordPongDevice, Return, Goto
<1>14. ASSUME NEW t \in Bridges, BridgeHangup(t) PROVE SameDisc
  BY <1>14 DEF BridgeHangup, Return, Goto
<1>15. ASSUME NEW t \in Threads, RemoveMiss(t) PROVE SameDisc
  BY <1>15 DEF RemoveMiss, Return, Goto, AfterUnregister
<1>16. ASSUME NEW t \in Threads, RemoveHit(t) PROVE SameDisc
  BY <1>16 DEF RemoveHit, Goto
<1>17. ASSUME NEW t \in Threads, RemoveConn(t) PROVE SameDisc
  BY <1>17 DEF RemoveConn, Goto
<1>18. ASSUME NEW t \in Threads, RemovePong(t) PROVE SameDisc
  BY <1>18 DEF RemovePong, Goto
<1>19. ASSUME NEW t \in Threads, UnindexRetain(t) PROVE SameDisc
  BY <1>19 DEF UnindexRetain, Goto
<1>20. ASSUME NEW t \in Threads, PromoteDropRow(t) PROVE SameDisc
  BY <1>20 DEF PromoteDropRow, Goto
<1>21. ASSUME NEW t \in Threads, PromotePut(t) PROVE SameDisc
  BY <1>21 DEF PromotePut, Goto
<1>22. ASSUME NEW t \in Threads, UnindexGet(t) PROVE SameDisc
  BY <1>22 DEF UnindexGet, Goto
<1>23. ASSUME NEW t \in Threads, UnindexDel(t) PROVE SameDisc
  BY <1>23 DEF UnindexDel, Goto
<1>24. ASSUME NEW t \in Threads, ScanStart(t) PROVE SameDisc
  BY <1>24 DEF ScanStart, Goto
<1>25. ASSUME NEW t \in Threads, ScanNext(t) PROVE SameDisc
  BY <1>25 DEF ScanNext
<1>26. ASSUME NEW t \in Threads, ScanFound(t) PROVE SameDisc
  BY <1>26 DEF ScanFound, Return, Goto, AfterUnregister
<1>27. ASSUME NEW t \in Threads, MarkOffline(t) PROVE SameDisc
  BY <1>27 DEF MarkOffline, Return, Goto, AfterUnregister
<1>28. ASSUME NEW t \in Threads, ReserveReject(t) PROVE SameDisc
  BY <1>28 DEF ReserveReject, Return, Goto
<1>29. ASSUME NEW t \in Threads, Reserve(t) PROVE SameDisc
  BY <1>29 DEF Reserve, Goto
<1>30. ASSUME NEW t \in Threads, IndexPush(t) PROVE SameDisc
  BY <1>30 DEF IndexPush, Goto
<1>31. ASSUME NEW t \in Threads, IndexEntry(t) PROVE SameDisc
  BY <1>31 DEF IndexEntry, Goto
<1>32. ASSUME NEW t \in Threads, IndexEvacuate(t) PROVE SameDisc
  BY <1>32 DEF IndexEvacuate, Goto
<1>33. ASSUME NEW t \in Threads, InsertPong(t) PROVE SameDisc
  BY <1>33 DEF InsertPong, Goto
<1>34. ASSUME NEW t \in Threads, UpsertDevice(t) PROVE SameDisc
  BY <1>34 DEF UpsertDevice, Goto
<1>35. ASSUME NEW t \in Threads, Commit(t) PROVE SameDisc
  BY <1>35 DEF Commit, Return, Goto
<1>98. ASSUME Quiet PROVE SameDisc
  BY <1>98 DEF Quiet, vars
<1>99. QED
  BY <1>1, <1>2, <1>3, <1>4, <1>5, <1>6, <1>7, <1>8, <1>9, <1>10, <1>11,
     <1>12, <1>13, <1>14, <1>15, <1>16, <1>17, <1>18, <1>19, <1>20, <1>21,
     <1>22, <1>23, <1>24, <1>25, <1>26, <1>27, <1>28, <1>29, <1>30, <1>31,
     <1>32, <1>33, <1>34, <1>35, <1>98
     DEF Next, Environment, RouterStep, DiscStep, UnregisterStep, RegisterStep

\* A teardown signals after it has closed the write channel.
LEMMA DiscInvStep ==
    ASSUME TypeInv, DiscInv, [Next]_vars
    PROVE  DiscInv'
<1> USE ConstantsAssumption
<1>1. ASSUME NEW c \in Conns, SignalDisconnect(c) PROVE DiscInv'
  <2>1. /\ conn' = [conn EXCEPT ![c] = "signalled"]
        /\ disc' = [disc EXCEPT ![LoopOf[c]] = Append(disc[LoopOf[c]], c)]
        /\ pc' = pc /\ cid' = cid
        /\ c \notin BridgeConns
    BY <1>1 DEF SignalDisconnect, locals
  <2>2. \A b \in Conns : Ended(b) \/ b = c => Ended(b)'
    BY <2>1 DEF Ended, is_closed, TypeInv, TypeOK
  <2>3. ASSUME NEW d \in DiscLoops PROVE \A i \in 1..Len(disc'[d]) : Ended(disc[d][i])'
    <3>1. disc[d] \in Seq(Conns)
      BY DEF TypeInv, TypeOK
    <3>2. disc'[d] = disc[d] \/ disc'[d] = Append(disc[d], c)
      BY <2>1 DEF TypeInv, TypeOK
    <3>3. \A i \in 1..Len(disc'[d]) : disc'[d][i] \in Conns /\
            (disc'[d][i] = c \/ (i \in 1..Len(disc[d]) /\ disc'[d][i] = disc[d][i]))
      BY <3>1, <3>2
    <3>4. \A i \in 1..Len(disc'[d]) :
            /\ disc'[d][i] \notin BridgeConns
            /\ conn'[disc'[d][i]] \in {"closed", "signalled"}
      BY <2>2, <3>3 DEF DiscInv, Ended, is_closed
    <3>5. QED
      BY <3>4 DEF Ended, is_closed
  <2>4. \A d \in DiscLoops : pc[d] = "remove" => cid[d] \in Conns
    BY DEF TypeInv, LocalsOK, Threads, Serving
  <2>5. \A d \in DiscLoops : pc'[d] = "remove" => Ended(cid[d])'
    BY <2>1, <2>2, <2>4 DEF DiscInv, Ended, is_closed
  <2>6. QED
    BY <2>3, <2>5 DEF DiscInv
<1>2. ASSUME NEW d \in DiscLoops, DiscMiss(d) \/ DiscHit(d) PROVE DiscInv'
  <2>1. /\ conn' = conn
        /\ disc[d] # <<>> /\ disc' = [disc EXCEPT ![d] = Tail(disc[d])]
    BY <1>2 DEF DiscMiss, DiscHit, NextDisc
  <2>2. \A e \in DiscLoops \ {d} :
          pc'[e] = pc[e] /\ cid'[e] = cid[e] /\ disc'[e] = disc[e]
    BY <1>2, <2>1 DEF DiscMiss, DiscHit, Goto, locals, TypeInv, TypeOK, Threads
  <2>3. disc[d] \in Seq(Conns) /\ disc'[d] = Tail(disc[d])
    BY <2>1 DEF TypeInv, TypeOK
  <2>4. /\ \A i \in 1..Len(disc'[d]) : disc'[d][i] = disc[d][i + 1]
                                      /\ i + 1 \in 1..Len(disc[d])
        /\ Head(disc[d]) = disc[d][1] /\ 1 \in 1..Len(disc[d])
    BY ZenonT(30), <2>1, <2>3, TailElements
  <2>5. pc'[d] = "remove" => cid'[d] = Head(disc[d])
    BY <1>2 DEF DiscMiss, DiscHit, NextDisc, Goto, TypeInv, TypeOK, Threads
  <2>6. QED
    BY <2>1, <2>2, <2>3, <2>4, <2>5 DEF DiscInv, Ended, is_closed
<1>3. CASE UNCHANGED vars
  <2>1. SameDisc
    BY <1>3 DEF SameDisc, Ended, is_closed, vars, clients, locals
  <2>2. QED
    BY <2>1, DiscFrame
<1>4. QED
  BY <1>1, <1>2, <1>3, SameDiscStep, DiscFrame

\* The disconnect inboxes are empty initially.
LEMMA DiscInit == Init => DiscInv
  BY ConstantsAssumption DEF Init, DiscInv, Threads

\* What a step may do to the entry of an open connection.
KeepsOpen ==
    \A p \in Plugins :
      LET c == by_plugin_id[p]
      IN  (c # None /\ ~is_closed(c) /\ by_plugin_id'[p] # c) =>
            \E t \in Stoppers \cup Bridges : pc[t] = "remove" /\ pid[t] = p

\* A removal by the router or a disconnect loop finds the entry closed.
LEMMA KeepsOpenStep ==
    ASSUME TypeInv, OwnerInv, DiscInv, [Next]_vars
    PROVE  KeepsOpen
<1> USE ConstantsAssumption
<1>1. ASSUME NEW t \in Threads, RemoveHit(t) PROVE KeepsOpen
  <2>1. /\ pc[t] = "remove" /\ pid[t] \in Plugins
        /\ Removable(t, by_plugin_id[pid[t]])
        /\ by_plugin_id' = [by_plugin_id EXCEPT ![pid[t]] = None]
    BY <1>1 DEF RemoveHit, TypeInv, LocalsOK, Serving
  <2>2. \A p \in Plugins \ {pid[t]} : by_plugin_id'[p] = by_plugin_id[p]
    BY <2>1 DEF TypeInv, TypeOK
  <2>3. t \in {Router} \cup DiscLoops => is_closed(by_plugin_id[pid[t]])
    BY <2>1 DEF Removable, unregister_conn_pred, unregister_if_dead_pred, DiscInv, Ended
  <2>4. QED
    BY <2>1, <2>2, <2>3 DEF KeepsOpen, Threads
<1>2. ASSUME NEW t \in Threads, Commit(t) PROVE KeepsOpen
  <2>1. /\ pid[t] \in Plugins /\ by_plugin_id[pid[t]] = None
        /\ by_plugin_id' = [by_plugin_id EXCEPT ![pid[t]] = cid[t]]
    BY <1>2 DEF Commit, TypeInv, LocalsOK, OwnerInv, Serving, RegisterPcs
  <2>2. QED
    BY <2>1 DEF KeepsOpen, TypeInv, TypeOK
<1>3. ASSUME NEW t \in Threads, RemoveConn(t) \/ Reserve(t) PROVE KeepsOpen
  BY <1>3 DEF RemoveConn, Reserve, KeepsOpen
<1>4. ASSUME SameRoles PROVE KeepsOpen
  BY <1>4 DEF SameRoles, KeepsOpen
<1>5. CASE UNCHANGED vars
  BY <1>5 DEF KeepsOpen, vars, maps, owners
<1>6. QED
  BY <1>1, <1>2, <1>3, <1>4, <1>5, SameRolesStep

\* No step of the router or of a disconnect loop takes an id from a
\* connection that is open.
THEOREM OpenKeepsId == Spec => NoTakeover
<1>1. Init => TypeInv /\ OwnerInv /\ DiscInv
  BY TypeInit, OwnerInit, DiscInit
<1>2. TypeInv /\ OwnerInv /\ DiscInv /\ [Next]_vars
        => (TypeInv /\ OwnerInv /\ DiscInv)'
  BY TypeStep, OwnerStep, DiscInvStep
<1>3. TypeInv /\ OwnerInv /\ DiscInv /\ [Next]_vars => [KeepsOpen]_vars
  BY KeepsOpenStep
<1>4. QED
  BY <1>1, <1>2, <1>3, PTL DEF Spec, NoTakeover, KeepsOpen

-----------------------------------------------------------------------------
(* The routing index and the devices, when operations do not overlap.      *)

\* Where a task stands between two writes that belong together for its
\* current action.
FluxPcs == {"index_entry", "index_evacuate", "promote", "promote_put", "unindex_get",
            "unindex_del"}

\* one and many are what the index holds for an action with the providers S.
Exact(S, one, many) ==
    /\ \A p \in Plugins : S = {p} <=> one = p
    /\ many = IF \E p, q \in S : p # q THEN S ELSE None

\* The actions under which the index has, or still has, the id that task t is
\* registering or removing.
Extra(t, a) ==
    \/ pc[t] \in RegisterPcs /\ a \in Manifest[cid[t]] \ todo[t]
    \/ pc[t] \in UnregisterPcs /\ a \in todo[t]

\* The providers the index has for a: those registered, and that id.
Supply(t, a) == Declarers(a) \cup (IF Extra(t, a) THEN {pid[t]} ELSE {})

\* Every row but the one that t is working on is exact.
RowsOK(t) ==
    \A a \in Actions :
      \/ pc[t] \in FluxPcs /\ cur[t] = a
      \/ Exact(Supply(t, a), action_index[a], ambiguous_actions[a])

\* How far t has got with the row it is working on.
FluxOK(t) ==
    LET S    == Supply(t, cur[t])
        one  == action_index[cur[t]]
        many == ambiguous_actions[cur[t]]
    IN  /\ pc[t] = "index_entry" =>
             pid[t] \in S /\ many = None /\ Exact(S \ {pid[t]}, one, None)
        /\ pc[t] = "index_evacuate" =>
             only[t] # pid[t] /\ S = {only[t], pid[t]} /\ one = None
        /\ pc[t] \in {"promote", "promote_put"} => S = {only[t]}
        /\ pc[t] = "promote_put" => many = None
        /\ pc[t] = "unindex_get" => \/ pid[t] \notin S /\ Exact(S, one, many)
                                    \/ S = {} /\ one = pid[t] /\ many = None
        /\ pc[t] = "unindex_del" => S = {} /\ many = None

\* The id that t is registering or removing has no entry.
EntryOK(t) ==
    /\ pc[t] \in RegisterPcs \cup UnregisterPcs => by_plugin_id[pid[t]] = None
    /\ pc[t] \in RegisterPcs => todo[t] \subseteq Manifest[cid[t]]
    /\ pc[t] \in {"device", "commit", "scan"} => todo[t] = {}

HasPlugin(d) ==
    \E p \in Plugins : by_plugin_id[p] # None /\ DeviceOf[by_plugin_id[p]] = d

\* The device of the id that t is registering or removing is online; every
\* other one is online exactly while it has a plugin.
DeviceOK(t) ==
    /\ \A d \in Devices :
         \/ pc[t] = "commit" /\ d = DeviceOf[cid[t]]
         \/ pc[t] \in UnregisterPcs /\ d = DeviceOf[gone[t]]
         \/ devices[d] = "online" <=> HasPlugin(d)
    /\ pc[t] = "commit" => devices[DeviceOf[cid[t]]] = "online"
    /\ pc[t] \in UnregisterPcs => devices[DeviceOf[gone[t]]] = "online"
    /\ pc[t] = "scan" => \A p \in Plugins \ unseen[t] : ~SameDevice(t, by_plugin_id[p])

IndexState(t) == EntryOK(t) /\ RowsOK(t) /\ FluxOK(t)

\* Every other task waits for its next input.
Alone(t) == \A u \in Threads \ {t} : AtRest(u)

SerialInv == \E t \in Threads : Alone(t) /\ IndexState(t) /\ DeviceOK(t)

\* What the rows of an action say of its providers.
LEMMA ExactNone ==
  ASSUME NEW S \in SUBSET Plugins, NEW one \in Plugins \cup {None}, Exact(S, one, None)
  PROVE  (S = {} /\ one = None) \/ (one \in Plugins /\ S = {one})
<1>1. \A p, q \in S : p = q
  <2>1. (\E p, q \in S : p # q) => S = None
    BY DEF Exact
  <2> QED
    BY <2>1, NoneAssumption
<1>2. CASE S = {}
  <2>1. one \notin Plugins
    BY <1>2 DEF Exact
  <2> QED
    BY <1>2, <2>1
<1>3. ASSUME NEW p \in S PROVE one \in Plugins /\ S = {one}
  <2>1. S = {p}
    BY <1>1
  <2> QED
    BY <2>1 DEF Exact
<1> QED
  BY <1>2, <1>3

\* A collision row holds the providers, at least two.
LEMMA ExactMany ==
  ASSUME NEW S \in SUBSET Plugins, NEW one \in Plugins \cup {None}, NEW many,
         Exact(S, one, many), many # None
  PROVE  many = S /\ one = None /\ \E p, q \in S : p # q
<1>1. many = S /\ \E p, q \in S : p # q
  BY DEF Exact
<1>2. \A p \in Plugins : S # {p}
  BY <1>1
<1>3. one = None
  BY <1>2 DEF Exact
<1> QED
  BY <1>1, <1>3

\* The rows of no, one and several providers.
LEMMA ExactRows ==
  /\ Exact({}, None, None)
  /\ \A p \in Plugins : Exact({p}, p, None)
  /\ \A S \in SUBSET Plugins : (\E p, q \in S : p # q) => Exact(S, None, S)
<1> USE ConstantsAssumption
<1>1. Exact({}, None, None)
  BY DEF Exact
<1>2. ASSUME NEW p \in Plugins PROVE Exact({p}, p, None)
  BY DEF Exact
<1>3. ASSUME NEW S \in SUBSET Plugins, NEW p \in S, NEW q \in S, p # q
      PROVE  Exact(S, None, S)
  <2>1. \A r \in Plugins : S # {r}
    BY <1>3
  <2> QED
    BY <1>3, <2>1 DEF Exact
<1> QED
  BY <1>1, <1>2, <1>3

\* The providers are plugins.
LEMMA SupplyType ==
  ASSUME TypeInv, NEW t \in Threads, NEW a
  PROVE  Supply(t, a) \in SUBSET Plugins /\ Declarers(a) \in SUBSET Plugins
<1>1. Extra(t, a) => pid[t] \in Plugins
  BY DEF Extra, TypeInv, LocalsOK, Serving
<1> QED
  BY <1>1 DEF Supply, Declarers

\* The declarers after the entry of one id is written or removed.
LEMMA DeclarersWrite ==
  ASSUME TypeInv, NEW p \in Plugins, NEW c, NEW a,
         by_plugin_id' = [by_plugin_id EXCEPT ![p] = c]
  PROVE  Declarers(a)' = (Declarers(a) \ {p})
                           \cup (IF c # None /\ a \in Manifest[c] THEN {p} ELSE {})
<1>1. \A q \in Plugins : by_plugin_id'[q] = IF q = p THEN c ELSE by_plugin_id[q]
  BY DEF TypeInv, TypeOK
<1> QED
  BY <1>1 DEF Declarers

\* Tasks at rest leave the index and the devices to the entries.
LEMMA AtRestState ==
  ASSUME NEW t \in Threads, NEW u \in Threads, AtRest(t), AtRest(u), IndexState(t),
         DeviceOK(t)
  PROVE  IndexState(u) /\ DeviceOK(u)
<1>1. /\ pc[t] \notin RegisterPcs \cup UnregisterPcs \cup FluxPcs
      /\ pc[u] \notin RegisterPcs \cup UnregisterPcs \cup FluxPcs
      /\ pc[t] \notin {"device", "commit", "scan"}
      /\ pc[u] \notin {"device", "commit", "scan"}
  BY DEF AtRest, RegisterPcs, UnregisterPcs, FluxPcs
<1>2. \A a : Supply(t, a) = Supply(u, a)
  BY <1>1 DEF Supply, Extra
<1>3. EntryOK(u) /\ FluxOK(u)
  BY <1>1 DEF EntryOK, FluxOK, FluxPcs
<1>4. RowsOK(u)
  BY <1>1, <1>2 DEF IndexState, RowsOK
<1>5. DeviceOK(u)
  BY <1>1 DEF DeviceOK
<1> QED
  BY <1>3, <1>4, <1>5 DEF IndexState

\* The task that takes a step is the only one inside an operation.
LEMMA Actor ==
  ASSUME SerialInv, NEW t \in Threads, ~AtRest(t) \/ \A u \in Threads : AtRest(u)
  PROVE  Alone(t) /\ IndexState(t) /\ DeviceOK(t)
<1>1. PICK v \in Threads : Alone(v) /\ IndexState(v) /\ DeviceOK(v)
  BY DEF SerialInv
<1>2. CASE v = t
  BY <1>1, <1>2
<1>3. CASE v # t
  <2>1. AtRest(t)
    BY <1>1, <1>3 DEF Alone
  <2>2. \A u \in Threads : AtRest(u)
    BY <2>1
  <2> QED
    BY <1>1, <2>2, AtRestState DEF Alone
<1> QED
  BY <1>2, <1>3

PlainPcs == {"idle", "remove", "reserve", "pong_put", "pong_device", "up", "hangup"}

\* The index and the devices are as the entries say.
IndexSettled ==
    \A a \in Actions : Exact(Declarers(a), action_index[a], ambiguous_actions[a])

DevicesSettled == \A d \in Devices : devices[d] = "online" <=> HasPlugin(d)

\* Outside register and unregister_if they are; the control points are disjoint.
LEMMA PlainState ==
  ASSUME NEW t \in Threads, pc[t] \in PlainPcs
  PROVE  /\ pc[t] \notin RegisterPcs \cup UnregisterPcs \cup FluxPcs
         /\ IndexState(t) => IndexSettled
         /\ DeviceOK(t) => DevicesSettled
<1>1. pc[t] \notin RegisterPcs \cup UnregisterPcs \cup FluxPcs /\ pc[t] # "commit"
  BY DEF PlainPcs, RegisterPcs, UnregisterPcs, FluxPcs
<1>2. \A a : Supply(t, a) = Declarers(a)
  BY <1>1 DEF Supply, Extra
<1> QED
  BY <1>1, <1>2 DEF IndexState, RowsOK, IndexSettled, DeviceOK, DevicesSettled

\* A task that comes to such a point has to have settled them.
LEMMA PlainNext ==
  ASSUME NEW t \in Threads, pc'[t] \in PlainPcs
  PROVE  /\ IndexSettled' => IndexState(t)'
         /\ DevicesSettled' => DeviceOK(t)'
<1>1. /\ pc'[t] \notin RegisterPcs \cup UnregisterPcs \cup FluxPcs
      /\ pc'[t] \notin {"device", "commit", "scan"}
  BY DEF PlainPcs, RegisterPcs, UnregisterPcs, FluxPcs
<1>2. \A a : Supply(t, a)' = Declarers(a)'
  BY <1>1 DEF Supply, Extra
<1>3. EntryOK(t)' /\ FluxOK(t)'
  BY <1>1 DEF EntryOK, FluxOK, FluxPcs
<1>4. IndexSettled' => RowsOK(t)'
  BY <1>2 DEF IndexSettled, RowsOK
<1>5. DevicesSettled' => DeviceOK(t)'
  BY <1>1 DEF DevicesSettled, DeviceOK
<1> QED
  BY <1>3, <1>4, <1>5 DEF IndexState

\* They stay so when nothing is written.
LEMMA SettledSame ==
  ASSUME UNCHANGED <<by_plugin_id, indexes>>, IndexSettled
  PROVE  IndexSettled'
<1>1. \A a : Declarers(a)' = Declarers(a)
  BY DEF Declarers
<1> QED
  BY <1>1 DEF IndexSettled, indexes

\* A step that changes one row.
LEMMA RowsFrame ==
  ASSUME NEW t \in Threads, RowsOK(t), NEW b \in Actions,
         pc[t] \in FluxPcs => cur[t] = b,
         \A a \in Actions \ {b} : /\ Supply(t, a)' = Supply(t, a)
                                  /\ action_index'[a] = action_index[a]
                                  /\ ambiguous_actions'[a] = ambiguous_actions[a],
         \/ pc'[t] \in FluxPcs /\ cur'[t] = b
         \/ Exact(Supply(t, b)', action_index'[b], ambiguous_actions'[b])
  PROVE  RowsOK(t)'
  BY DEF RowsOK

\* unregister_if leaves the index exact, one row at a time.
LEMMA UnregisterIndex ==
  ASSUME TypeInv, TypeInv', NEW t \in Threads, IndexState(t), UnregisterStep(t)
  PROVE  IndexState(t)'
<1> USE ConstantsAssumption DEF TypeInv, TypeOK
<1>0. pc[t] \in Serving => pid[t] \in Plugins
  BY DEF LocalsOK
<1>1. CASE RemoveMiss(t)
  <2>1. pc[t] \in PlainPcs /\ pc'[t] \in PlainPcs
    BY <1>1 DEF RemoveMiss, Return, Goto, AfterUnregister, PlainPcs
  <2>2. IndexSettled
    BY <2>1, PlainState
  <2>3. IndexSettled'
    BY <1>1, <2>2, SettledSame DEF RemoveMiss, maps, owners
  <2> QED
    BY <2>1, <2>3, PlainNext
<1>2. CASE RemoveHit(t)
  <2>1. /\ pc[t] = "remove" /\ pc'[t] = "unconn" /\ pid[t] \in Plugins
        /\ pid' = pid /\ UNCHANGED indexes
        /\ by_plugin_id[pid[t]] # None
        /\ by_plugin_id' = [by_plugin_id EXCEPT ![pid[t]] = None]
        /\ todo'[t] = Manifest[by_plugin_id[pid[t]]]
    BY <1>0, <1>2 DEF RemoveHit, Goto, Serving
  <2>2. IndexSettled
    BY <2>1, PlainState DEF PlainPcs
  <2>3. \A a \in Actions : Supply(t, a)' = Declarers(a)
    <3> SUFFICES ASSUME NEW a \in Actions PROVE Supply(t, a)' = Declarers(a)
      OBVIOUS
    <3>1. Extra(t, a)' <=> a \in Manifest[by_plugin_id[pid[t]]]
      BY <2>1 DEF Extra, RegisterPcs, UnregisterPcs
    <3>2. Declarers(a)' = (Declarers(a) \ {pid[t]})
                            \cup (IF None # None /\ a \in Manifest[None] THEN {pid[t]} ELSE {})
      BY <2>1, DeclarersWrite, Zenon
    <3>3. pid[t] \in Declarers(a) <=> a \in Manifest[by_plugin_id[pid[t]]]
      BY <2>1 DEF Declarers
    <3> QED
      BY <2>1, <3>1, <3>2, <3>3 DEF Supply
  <2>4. RowsOK(t)'
    BY <2>1, <2>2, <2>3 DEF IndexSettled, RowsOK, indexes
  <2>5. EntryOK(t)' /\ FluxOK(t)'
    BY <2>1 DEF EntryOK, FluxOK, RegisterPcs
  <2> QED
    BY <2>4, <2>5 DEF IndexState
<1>3. CASE RemoveConn(t) \/ RemovePong(t) \/ ScanStart(t) \/ ScanNext(t)
  <2>1. /\ UNCHANGED <<by_plugin_id, indexes, pid, cid, todo>>
        /\ pc[t] \in UnregisterPcs /\ pc'[t] \in UnregisterPcs \ FluxPcs
        /\ pc[t] \notin FluxPcs
        /\ pc'[t] = "scan" => todo[t] = {}
    BY <1>3 DEF RemoveConn, RemovePong, ScanStart, ScanNext, Goto, UnregisterPcs, FluxPcs,
       maps, owners, indexes, locals, scratch, IndexState, EntryOK
  <2>2. pc[t] \notin RegisterPcs /\ pc'[t] \notin RegisterPcs \cup {"device", "commit"}
    BY <2>1 DEF RegisterPcs, UnregisterPcs
  <2>3. \A a : Supply(t, a)' = Supply(t, a)
    BY <2>1, <2>2 DEF Supply, Extra, Declarers
  <2>4. RowsOK(t)'
    BY <2>1, <2>3 DEF IndexState, RowsOK, indexes
  <2>5. EntryOK(t)' /\ FluxOK(t)'
    BY <2>1, <2>2 DEF IndexState, EntryOK, FluxOK, FluxPcs
  <2> QED
    BY <2>4, <2>5 DEF IndexState
<1>4. CASE UnindexRetain(t)
  <2>1. pc[t] = "unindex" /\ UNCHANGED <<by_plugin_id, action_index, pid>> /\ pid[t] \in Plugins
    BY <1>0, <1>4 DEF UnindexRetain, owners, Serving, UnregisterPcs
  <2>2. PICK a \in todo[t] :
          LET row  == ambiguous_actions[a]
              rest == IF row = None THEN {} ELSE row \ {pid[t]}
          IN  /\ cur' = [cur EXCEPT ![t] = a]
              /\ todo' = [todo EXCEPT ![t] = @ \ {a}]
              /\ ambiguous_actions' = IF row = None THEN ambiguous_actions
                                      ELSE [ambiguous_actions EXCEPT ![a] = rest]
              /\ \/ \E q \in Plugins :
                      /\ rest = {q}
                      /\ only' = [only EXCEPT ![t] = q]
                      /\ Goto(t, "promote")
                 \/ /\ \A q \in Plugins : rest # {q}
                    /\ Goto(t, "unindex_get")
                    /\ UNCHANGED only
    BY <1>4 DEF UnindexRetain
  <2> DEFINE D   == Declarers(a)
             row == ambiguous_actions[a]
  <2>3. /\ a \in Actions /\ cur'[t] = a /\ todo'[t] = todo[t] \ {a}
        /\ pc'[t] \in {"promote", "unindex_get"}
        /\ \A b \in Actions \ {a} : ambiguous_actions'[b] = ambiguous_actions[b]
    BY <2>2 DEF Goto
  <2>4. \A b : Declarers(b)' = Declarers(b)
    BY <2>1 DEF Declarers
  <2>5. \A b \in Actions \ {a} : Supply(t, b)' = Supply(t, b)
    BY <2>1, <2>3, <2>4 DEF Supply, Extra, RegisterPcs, UnregisterPcs
  <2>6. Supply(t, a) = D \cup {pid[t]}
    BY <2>1 DEF Supply, Extra, UnregisterPcs
  <2>7. Supply(t, a)' = D
    BY <2>1, <2>3, <2>4 DEF Supply, Extra, RegisterPcs, UnregisterPcs
  <2>8. pid[t] \notin D /\ D \in SUBSET Plugins
    BY <2>1 DEF IndexState, EntryOK, UnregisterPcs, Declarers
  <2>9. Exact(D \cup {pid[t]}, action_index[a], row)
    <3>1. Exact(Supply(t, a), action_index[a], row)
      BY <2>1, <2>3 DEF IndexState, RowsOK, FluxPcs
    <3> QED
      BY <2>6, <3>1
  <2>10. RowsOK(t)'
    BY <2>1, <2>3, <2>5, RowsFrame DEF IndexState, FluxPcs
  <2>11. EntryOK(t)'
    BY <2>1, <2>3 DEF IndexState, EntryOK, RegisterPcs, UnregisterPcs
  <2>12. FluxOK(t)'
    <3>1. CASE row = None
      <4>1. D = {} /\ action_index[a] = pid[t]
        <5>1. /\ D \cup {pid[t]} \in SUBSET Plugins
              /\ action_index[a] \in Plugins \cup {None}
          BY <2>1, <2>3, <2>8
        <5>2. \/ D \cup {pid[t]} = {} /\ action_index[a] = None
              \/ action_index[a] \in Plugins /\ D \cup {pid[t]} = {action_index[a]}
          BY <2>9, <3>1, <5>1, ExactNone
        <5> QED
          BY <2>8, <5>2
      <4>2. pc'[t] = "unindex_get" /\ ambiguous_actions'[a] = None
        BY <2>2, <3>1 DEF Goto
      <4> QED
        BY <2>1, <2>3, <2>7, <4>1, <4>2 DEF FluxOK
    <3>2. CASE row # None
      <4>1. /\ row = D \cup {pid[t]} /\ action_index[a] = None
            /\ \E x, y \in D \cup {pid[t]} : x # y
        <5>1. /\ D \cup {pid[t]} \in SUBSET Plugins
              /\ action_index[a] \in Plugins \cup {None}
          BY <2>1, <2>3, <2>8
        <5> HIDE DEF D, row
        <5> QED
          BY <2>9, <3>2, <5>1, ExactMany, Zenon
      <4>2. row \ {pid[t]} = D /\ ambiguous_actions'[a] = D
        BY <2>2, <2>3, <2>8, <3>2, <4>1
      <4>3. CASE pc'[t] = "promote"
        <5>1. D = {only'[t]}
          BY <2>2, <3>2, <4>2, <4>3 DEF Goto
        <5> QED
          BY <2>3, <2>7, <4>3, <5>1 DEF FluxOK
      <4>4. CASE pc'[t] = "unindex_get"
        <5>1. \A q \in Plugins : D # {q}
          <6>1. ~Goto(t, "promote")
            BY <4>4 DEF Goto
          <6>2. \A q \in Plugins : row \ {pid[t]} # {q}
            BY <2>2, <3>2, <6>1
          <6> QED
            BY <4>2, <6>2
        <5>2. \E x, y \in D : x # y
          <6>1. PICK x \in D : TRUE
            BY <4>1
          <6>2. D # {x} /\ x \in Plugins
            BY <2>8, <5>1
          <6> QED
            BY <6>2
        <5>3. Exact(D, None, D)
          BY <2>8, <5>2, ExactRows
        <5> QED
          BY <2>1, <2>3, <2>7, <2>8, <4>1, <4>2, <4>4, <5>3 DEF FluxOK
      <4> QED
        BY <2>3, <4>3, <4>4
    <3> QED
      BY <3>1, <3>2
  <2> QED
    BY <2>10, <2>11, <2>12 DEF IndexState
<1>5. CASE PromoteDropRow(t) \/ PromotePut(t) \/ UnindexGet(t) \/ UnindexDel(t)
  <2>1. /\ UNCHANGED <<by_plugin_id, pid, todo, cur, only>>
        /\ pc[t] \in {"promote", "promote_put", "unindex_get", "unindex_del"}
        /\ pc'[t] \in {"promote_put", "unindex_del", "unindex"}
        /\ cur[t] \in Actions /\ pid[t] \in Plugins
        /\ \A a \in Actions \ {cur[t]} : /\ action_index'[a] = action_index[a]
                                         /\ ambiguous_actions'[a] = ambiguous_actions[a]
    BY <1>0, <1>5 DEF PromoteDropRow, PromotePut, UnindexGet, UnindexDel, Goto, maps,
       owners, indexes, locals, scratch, LocalsOK, Serving, UnregisterPcs
  <2>2. pc[t] \in UnregisterPcs \ RegisterPcs /\ pc'[t] \in UnregisterPcs \ RegisterPcs
    BY <2>1 DEF UnregisterPcs, RegisterPcs
  <2>3. \A a : Supply(t, a)' = Supply(t, a)
    BY <2>1, <2>2 DEF Supply, Extra, Declarers
  <2>4. EntryOK(t)'
    BY <2>1, <2>2 DEF IndexState, EntryOK
  <2>5. CASE PromoteDropRow(t)
    <3>1. pc[t] = "promote" /\ pc'[t] = "promote_put" /\ ambiguous_actions'[cur[t]] = None
      BY <2>1, <2>5 DEF PromoteDropRow, Goto
    <3>2. FluxOK(t)'
      BY <2>1, <2>3, <3>1 DEF IndexState, FluxOK
    <3>3. RowsOK(t)'
      BY <2>1, <2>3, <3>1, RowsFrame DEF IndexState, FluxPcs
    <3> QED
      BY <2>4, <3>2, <3>3 DEF IndexState
  <2>6. CASE PromotePut(t)
    <3>1. /\ pc[t] = "promote_put" /\ pc'[t] = "unindex" /\ only[t] \in Plugins
          /\ action_index'[cur[t]] = only[t]
          /\ ambiguous_actions'[cur[t]] = ambiguous_actions[cur[t]]
      BY <2>1, <2>6 DEF PromotePut, Goto, LocalsOK
    <3>2. Supply(t, cur[t]) = {only[t]} /\ ambiguous_actions[cur[t]] = None
      BY <3>1 DEF IndexState, FluxOK
    <3>3. PICK a \in Actions : a = cur[t]
      BY <2>1
    <3>4. Exact(Supply(t, a)', action_index'[a], ambiguous_actions'[a])
      <4>1. Exact({only[t]}, only[t], None)
        BY <3>1, ExactRows
      <4>2. Supply(t, a)' = {only[t]}
        BY <2>3, <3>2, <3>3
      <4> QED
        BY <3>1, <3>2, <3>3, <4>1, <4>2
    <3>5. RowsOK(t)'
      BY <2>1, <2>3, <3>1, <3>3, <3>4, RowsFrame DEF IndexState
    <3>6. FluxOK(t)'
      BY <3>1 DEF FluxOK
    <3> QED
      BY <2>4, <3>5, <3>6 DEF IndexState
  <2>7. CASE UnindexGet(t)
    <3>1. /\ pc[t] = "unindex_get" /\ UNCHANGED indexes
          /\ pc'[t] = IF action_index[cur[t]] = pid[t] THEN "unindex_del" ELSE "unindex"
      BY <2>7 DEF UnindexGet, Goto, maps
    <3>2. Supply(t, cur[t]) = {pid[t]} => pid[t] \in Supply(t, cur[t])
      OBVIOUS
    <3>3. IF action_index[cur[t]] = pid[t]
          THEN Supply(t, cur[t]) = {} /\ ambiguous_actions[cur[t]] = None
          ELSE Exact(Supply(t, cur[t]), action_index[cur[t]], ambiguous_actions[cur[t]])
      BY <2>1, <3>1, <3>2 DEF IndexState, FluxOK, Exact
    <3>4. RowsOK(t)'
      BY <2>1, <2>3, <3>1, <3>3, RowsFrame DEF IndexState, FluxPcs, indexes
    <3>5. FluxOK(t)'
      BY <2>1, <2>3, <3>1, <3>3 DEF FluxOK, indexes
    <3> QED
      BY <2>4, <3>4, <3>5 DEF IndexState
  <2>8. CASE UnindexDel(t)
    <3>1. /\ pc[t] = "unindex_del" /\ pc'[t] = "unindex"
          /\ action_index'[cur[t]] = None
          /\ ambiguous_actions'[cur[t]] = ambiguous_actions[cur[t]]
      BY <2>1, <2>8 DEF UnindexDel, Goto
    <3>2. Supply(t, cur[t]) = {} /\ ambiguous_actions[cur[t]] = None
      BY <3>1 DEF IndexState, FluxOK
    <3>3. PICK a \in Actions : a = cur[t]
      BY <2>1
    <3>4. Exact(Supply(t, a)', action_index'[a], ambiguous_actions'[a])
      <4>1. Supply(t, a)' = {}
        BY <2>3, <3>2, <3>3
      <4> QED
        BY <3>1, <3>2, <3>3, <4>1, ExactRows
    <3>5. RowsOK(t)'
      BY <2>1, <2>3, <3>1, <3>3, <3>4, RowsFrame DEF IndexState
    <3>6. FluxOK(t)'
      BY <3>1 DEF FluxOK
    <3> QED
      BY <2>4, <3>5, <3>6 DEF IndexState
  <2> QED
    BY <1>5, <2>5, <2>6, <2>7, <2>8
<1>6. CASE ScanFound(t) \/ MarkOffline(t)
  <2>1. /\ pc[t] = "scan" /\ todo[t] = {} /\ UNCHANGED <<by_plugin_id, indexes>>
        /\ pc'[t] \in PlainPcs
    BY <1>6 DEF ScanFound, MarkOffline, Return, Goto, AfterUnregister, PlainPcs, maps, owners,
       IndexState, EntryOK
  <2>2. \A a : Supply(t, a) = Declarers(a) /\ Declarers(a)' = Declarers(a)
    BY <2>1 DEF Supply, Extra, RegisterPcs, Declarers
  <2>3. IndexSettled'
    BY <2>1, <2>2 DEF IndexState, RowsOK, FluxPcs, IndexSettled, indexes
  <2> QED
    BY <2>1, <2>3, PlainNext
<1> QED
  BY <1>1, <1>2, <1>3, <1>4, <1>5, <1>6 DEF UnregisterStep

\* So does register.
LEMMA RegisterIndex ==
  ASSUME TypeInv, TypeInv', NEW t \in Threads, IndexState(t), RegisterStep(t)
  PROVE  IndexState(t)'
<1> USE ConstantsAssumption DEF TypeInv, TypeOK
<1>0. /\ pc[t] \in Serving => pid[t] \in Plugins
      /\ pc[t] \in RegisterPcs \cup {"reserve"} => cid[t] \in Conns
  BY DEF LocalsOK, Threads, Serving, RegisterPcs, UnregisterPcs
<1>1. CASE ReserveReject(t)
  <2>1. pc[t] \in PlainPcs /\ pc'[t] \in PlainPcs
    BY <1>1 DEF ReserveReject, Return, Goto, PlainPcs
  <2>2. IndexSettled
    BY <2>1, PlainState
  <2>3. IndexSettled'
    BY <1>1, <2>2, SettledSame DEF ReserveReject, maps, owners
  <2> QED
    BY <2>1, <2>3, PlainNext
<1>2. CASE Reserve(t)
  <2>1. /\ pc[t] = "reserve" /\ pc'[t] = "index"
        /\ UNCHANGED <<by_plugin_id, indexes, pid, cid>>
        /\ by_plugin_id[pid[t]] = None
        /\ todo'[t] = Manifest[cid[t]]
    BY <1>2 DEF Reserve, Goto, Reservable
  <2>2. IndexSettled
    BY <2>1, PlainState DEF PlainPcs
  <2>3. \A a : Supply(t, a)' = Declarers(a)
    BY <2>1 DEF Supply, Extra, Declarers, UnregisterPcs
  <2>4. RowsOK(t)'
    BY <2>1, <2>2, <2>3 DEF IndexSettled, RowsOK, indexes
  <2>5. EntryOK(t)' /\ FluxOK(t)'
    BY <2>1 DEF EntryOK, FluxOK
  <2> QED
    BY <2>4, <2>5 DEF IndexState
<1>3. CASE IndexPush(t)
  <2>1. /\ pc[t] = "index" /\ UNCHANGED <<by_plugin_id, action_index, pid, cid>>
        /\ pid[t] \in Plugins /\ todo[t] \subseteq Manifest[cid[t]]
    BY <1>0, <1>3 DEF IndexPush, owners, Serving, RegisterPcs, IndexState, EntryOK
  <2>2. PICK a \in todo[t] :
          LET row == ambiguous_actions[a]
          IN  /\ cur' = [cur EXCEPT ![t] = a]
              /\ todo' = [todo EXCEPT ![t] = @ \ {a}]
              /\ ambiguous_actions' =
                   IF row = None THEN ambiguous_actions
                   ELSE [ambiguous_actions EXCEPT ![a] = row \cup {pid[t]}]
              /\ Goto(t, IF row = None THEN "index_entry" ELSE "index")
    BY <1>3 DEF IndexPush
  <2> DEFINE D   == Declarers(a)
             row == ambiguous_actions[a]
  <2>3. /\ a \in Actions /\ cur'[t] = a /\ todo'[t] = todo[t] \ {a}
        /\ pc'[t] = IF row = None THEN "index_entry" ELSE "index"
        /\ ambiguous_actions'[a] = IF row = None THEN None ELSE row \cup {pid[t]}
        /\ \A b \in Actions \ {a} : ambiguous_actions'[b] = ambiguous_actions[b]
    <3>1. a \in Actions /\ cur'[t] = a /\ todo'[t] = todo[t] \ {a}
      BY <2>2
    <3>2. pc'[t] = IF row = None THEN "index_entry" ELSE "index"
      BY <2>2 DEF Goto
    <3>3. ambiguous_actions'[a] = IF row = None THEN None ELSE row \cup {pid[t]}
      BY <2>2, <3>1
    <3>4. \A b \in Actions \ {a} : ambiguous_actions'[b] = ambiguous_actions[b]
      BY <2>2
    <3> QED
      BY <3>1, <3>2, <3>3, <3>4
  <2>4. \A b : Declarers(b)' = Declarers(b)
    BY <2>1 DEF Declarers
  <2>5. pc'[t] \in RegisterPcs \ UnregisterPcs /\ pc[t] \in RegisterPcs \ UnregisterPcs
    BY <2>1, <2>3 DEF RegisterPcs, UnregisterPcs
  <2>6. \A b \in Actions \ {a} : Supply(t, b)' = Supply(t, b)
    BY <2>1, <2>3, <2>4, <2>5 DEF Supply, Extra
  <2>7. Supply(t, a) = D
    BY <2>5 DEF Supply, Extra
  <2>8. Supply(t, a)' = D \cup {pid[t]}
    BY <2>1, <2>3, <2>4, <2>5 DEF Supply, Extra
  <2>9. pid[t] \notin D /\ D \in SUBSET Plugins
    BY <2>5 DEF IndexState, EntryOK, Declarers
  <2>10. Exact(D, action_index[a], row)
    <3>1. Exact(Supply(t, a), action_index[a], row)
      BY <2>1, <2>3 DEF IndexState, RowsOK, FluxPcs
    <3> QED
      BY <2>7, <3>1
  <2>11. EntryOK(t)'
    BY <2>1, <2>3, <2>5 DEF IndexState, EntryOK
  <2>12. CASE row = None
    <3>1. pc'[t] = "index_entry" /\ ambiguous_actions'[a] = None
      BY <2>3, <2>12
    <3>2. RowsOK(t)'
      BY <2>1, <2>3, <2>6, <3>1, RowsFrame DEF IndexState, FluxPcs
    <3>3. (D \cup {pid[t]}) \ {pid[t]} = D
      BY <2>9
    <3>4. Supply(t, cur[t])' = D \cup {pid[t]}
      BY <2>3, <2>8
    <3>5. Exact(Supply(t, cur[t])' \ {pid'[t]}, action_index'[cur'[t]], None)
      BY <2>1, <2>3, <2>10, <2>12, <3>3, <3>4
    <3>6. FluxOK(t)'
      BY <2>1, <2>3, <3>1, <3>4, <3>5 DEF FluxOK
    <3> QED
      BY <2>11, <3>2, <3>6 DEF IndexState
  <2>13. CASE row # None
    <3>1. row = D /\ action_index[a] = None /\ \E x, y \in D : x # y
      <4>1. action_index[a] \in Plugins \cup {None}
        BY <2>3
      <4> HIDE DEF D, row
      <4> QED
        BY <2>9, <2>10, <2>13, <4>1, ExactMany, Zenon
    <3>2. Exact(D \cup {pid[t]}, None, D \cup {pid[t]})
      <4>1. D \cup {pid[t]} \in SUBSET Plugins /\ \E x, y \in D \cup {pid[t]} : x # y
        BY <2>1, <2>9, <3>1
      <4> HIDE DEF D
      <4> QED
        BY <4>1, ExactRows, Zenon
    <3>3. Exact(Supply(t, a)', action_index'[a], ambiguous_actions'[a])
      BY <2>1, <2>3, <2>8, <2>13, <3>1, <3>2
    <3>4. RowsOK(t)'
      BY <2>1, <2>3, <2>6, <3>3, RowsFrame DEF IndexState, FluxPcs
    <3>5. FluxOK(t)'
      BY <2>3, <2>13 DEF FluxOK
    <3> QED
      BY <2>11, <3>4, <3>5 DEF IndexState
  <2> QED
    BY <2>12, <2>13
<1>4. CASE IndexEntry(t) \/ IndexEvacuate(t)
  <2>1. /\ UNCHANGED <<by_plugin_id, pid, cid, todo, cur>>
        /\ pc[t] \in {"index_entry", "index_evacuate"}
        /\ pc'[t] \in {"index", "index_evacuate"}
        /\ pid[t] \in Plugins
        /\ \A a \in Actions \ {cur[t]} : /\ action_index'[a] = action_index[a]
                                         /\ ambiguous_actions'[a] = ambiguous_actions[a]
    BY <1>0, <1>4 DEF IndexEntry, IndexEvacuate, Goto, owners, locals, scratch, Serving,
       RegisterPcs
  <2>2. PICK a \in Actions : a = cur[t]
    BY <2>1 DEF LocalsOK
  <2>3. pc[t] \in RegisterPcs \ UnregisterPcs /\ pc'[t] \in RegisterPcs \ UnregisterPcs
    BY <2>1 DEF UnregisterPcs, RegisterPcs
  <2>4. \A b : Supply(t, b)' = Supply(t, b)
    BY <2>1, <2>3 DEF Supply, Extra, Declarers
  <2>5. EntryOK(t)'
    BY <2>1, <2>3 DEF IndexState, EntryOK
  <2>6. CASE IndexEntry(t)
    <3> DEFINE one == action_index[a]
               S   == Supply(t, a)
    <3>1. /\ pc[t] = "index_entry"
          /\ ambiguous_actions' = ambiguous_actions
          /\ IF one \notin {None, pid[t]}
             THEN action_index'[a] = None /\ only'[t] = one /\ pc'[t] = "index_evacuate"
             ELSE action_index'[a] = pid[t] /\ pc'[t] = "index"
      BY <2>1, <2>2, <2>6 DEF IndexEntry, Goto
    <3>2. pid[t] \in S /\ ambiguous_actions[a] = None /\ Exact(S \ {pid[t]}, one, None)
      BY <2>2, <3>1 DEF IndexState, FluxOK
    <3>3. S \ {pid[t]} \in SUBSET Plugins /\ one \in Plugins \cup {None}
      BY SupplyType
    <3>4. \/ S \ {pid[t]} = {} /\ one = None
          \/ one \in Plugins /\ S \ {pid[t]} = {one}
      <4> HIDE DEF S, one
      <4> QED
        BY <3>2, <3>3, ExactNone
    <3>5. CASE one \notin {None, pid[t]}
      <4>1. S = {one, pid[t]}
        BY <3>2, <3>4, <3>5
      <4>2. FluxOK(t)'
        BY <2>1, <2>2, <2>4, <3>1, <3>5, <4>1 DEF FluxOK
      <4>3. RowsOK(t)'
        BY <2>1, <2>2, <2>4, <3>1, <3>5, RowsFrame DEF IndexState, FluxPcs
      <4> QED
        BY <2>5, <4>2, <4>3 DEF IndexState
    <3>6. CASE one \in {None, pid[t]}
      <4>1. S = {pid[t]}
        BY <3>2, <3>4, <3>6
      <4>2. Exact({pid[t]}, pid[t], None)
        BY <2>1, ExactRows
      <4>3. Exact(Supply(t, a)', action_index'[a], ambiguous_actions'[a])
        BY <2>4, <3>1, <3>2, <3>6, <4>1, <4>2
      <4>4. RowsOK(t)'
        BY <2>1, <2>2, <2>4, <4>3, RowsFrame DEF IndexState
      <4>5. FluxOK(t)'
        BY <3>1, <3>6 DEF FluxOK
      <4> QED
        BY <2>5, <4>4, <4>5 DEF IndexState
    <3> QED
      BY <3>5, <3>6
  <2>7. CASE IndexEvacuate(t)
    <3>1. /\ pc[t] = "index_evacuate" /\ pc'[t] = "index"
          /\ action_index'[a] = action_index[a]
          /\ ambiguous_actions'[a] = {only[t], pid[t]}
      BY <2>1, <2>2, <2>7 DEF IndexEvacuate, Goto
    <3>2. /\ only[t] # pid[t] /\ Supply(t, a) = {only[t], pid[t]}
          /\ action_index[a] = None
      BY <2>2, <3>1 DEF IndexState, FluxOK
    <3>3. Exact(Supply(t, a), None, Supply(t, a))
      BY <3>2, SupplyType, ExactRows
    <3>4. Exact(Supply(t, a)', action_index'[a], ambiguous_actions'[a])
      BY <2>4, <3>1, <3>2, <3>3
    <3>5. RowsOK(t)'
      BY <2>1, <2>2, <2>4, <3>4, RowsFrame DEF IndexState
    <3>6. FluxOK(t)'
      BY <3>1 DEF FluxOK
    <3> QED
      BY <2>5, <3>5, <3>6 DEF IndexState
  <2> QED
    BY <1>4, <2>6, <2>7
<1>5. CASE InsertPong(t) \/ UpsertDevice(t)
  <2>1. /\ UNCHANGED <<by_plugin_id, indexes, pid, cid, todo>>
        /\ pc[t] \in {"index", "device"} /\ pc'[t] \in {"device", "commit"}
        /\ todo[t] = {}
    BY <1>5 DEF InsertPong, UpsertDevice, Goto, owners, locals, scratch, IndexState, EntryOK
  <2>2. pc[t] \in RegisterPcs \ UnregisterPcs /\ pc'[t] \in RegisterPcs \ UnregisterPcs
    BY <2>1 DEF UnregisterPcs, RegisterPcs
  <2>3. \A a : Supply(t, a)' = Supply(t, a)
    BY <2>1, <2>2 DEF Supply, Extra, Declarers
  <2>4. RowsOK(t)'
    <3>1. \A a \in Actions : Exact(Supply(t, a), action_index[a], ambiguous_actions[a])
      BY <2>1 DEF IndexState, RowsOK, FluxPcs
    <3> QED
      BY <2>1, <2>3, <3>1 DEF RowsOK, indexes
  <2>5. EntryOK(t)' /\ FluxOK(t)'
    BY <2>1, <2>2 DEF IndexState, EntryOK, FluxOK
  <2> QED
    BY <2>4, <2>5 DEF IndexState
<1>6. CASE Commit(t)
  <2>1. /\ pc[t] = "commit" /\ todo[t] = {} /\ pc'[t] \in PlainPcs /\ UNCHANGED indexes
        /\ by_plugin_id[pid[t]] = None
        /\ by_plugin_id' = [by_plugin_id EXCEPT ![pid[t]] = cid[t]]
        /\ pid[t] \in Plugins /\ cid[t] \in Conns
    BY <1>0, <1>6 DEF Commit, Return, Goto, PlainPcs, IndexState, EntryOK, RegisterPcs, Serving
  <2>2. \A a \in Actions : Declarers(a)' = Supply(t, a)
    <3> SUFFICES ASSUME NEW a \in Actions PROVE Declarers(a)' = Supply(t, a)
      OBVIOUS
    <3>1. pid[t] \notin Declarers(a)
      BY <2>1 DEF Declarers
    <3>2. Declarers(a)' = (Declarers(a) \ {pid[t]})
                            \cup (IF cid[t] # None /\ a \in Manifest[cid[t]] THEN {pid[t]} ELSE {})
      BY <2>1, DeclarersWrite
    <3>3. Extra(t, a) <=> a \in Manifest[cid[t]]
      BY <2>1 DEF Extra, RegisterPcs, UnregisterPcs
    <3> QED
      BY <2>1, <3>1, <3>2, <3>3 DEF Supply
  <2>3. IndexSettled'
    BY <2>1, <2>2 DEF IndexState, RowsOK, FluxPcs, IndexSettled, indexes
  <2> QED
    BY <2>1, <2>3, PlainNext
<1> QED
  BY <1>1, <1>2, <1>3, <1>4, <1>5, <1>6 DEF RegisterStep

\* Devices stay settled when neither they nor an entry is written.
LEMMA DevicesSame ==
  ASSUME UNCHANGED <<by_plugin_id, devices>>, DevicesSettled
  PROVE  DevicesSettled'
  BY DEF DevicesSettled, HasPlugin

\* A step inside an operation that writes no entry and no device.
LEMMA DeviceFrame ==
  ASSUME NEW t \in Threads, DeviceOK(t), UNCHANGED <<by_plugin_id, devices>>,
         \/ /\ pc[t] \in UnregisterPcs /\ pc'[t] \in UnregisterPcs
            /\ gone'[t] = gone[t]
            /\ pc'[t] = "scan" =>
                 \A p \in Plugins \ unseen'[t] : ~SameDevice(t, by_plugin_id[p])
         \/ /\ pc[t] \in (RegisterPcs \ {"commit"}) \cup PlainPcs
            /\ pc'[t] \in RegisterPcs \ {"commit"}
  PROVE  DeviceOK(t)'
<1>1. \A d : HasPlugin(d)' <=> HasPlugin(d)
  BY DEF HasPlugin
<1>2. CASE /\ pc[t] \in UnregisterPcs /\ pc'[t] \in UnregisterPcs
           /\ gone'[t] = gone[t]
           /\ pc'[t] = "scan" =>
                \A p \in Plugins \ unseen'[t] : ~SameDevice(t, by_plugin_id[p])
  <2>1. pc[t] # "commit" /\ pc'[t] # "commit"
    BY <1>2 DEF UnregisterPcs
  <2>2. \A p : SameDevice(t, by_plugin_id[p])' <=> SameDevice(t, by_plugin_id[p])
    BY <1>2 DEF SameDevice
  <2> QED
    BY <1>1, <1>2, <2>1, <2>2 DEF DeviceOK
<1>3. CASE /\ pc[t] \in (RegisterPcs \ {"commit"}) \cup PlainPcs
           /\ pc'[t] \in RegisterPcs \ {"commit"}
  <2>1. /\ pc[t] \notin UnregisterPcs \cup {"commit", "scan"}
        /\ pc'[t] \notin UnregisterPcs \cup {"commit", "scan"}
    BY <1>3 DEF RegisterPcs, UnregisterPcs, PlainPcs
  <2> QED
    BY <1>1, <2>1 DEF DeviceOK
<1> QED
  BY <1>2, <1>3

\* unregister_if turns its device off exactly when it has no plugin left.
LEMMA UnregisterDevice ==
  ASSUME TypeInv, TypeInv', NEW t \in Threads, DeviceOK(t), UnregisterStep(t)
  PROVE  DeviceOK(t)'
<1> USE ConstantsAssumption DEF TypeInv, TypeOK
<1>0. /\ pc[t] \in Serving => pid[t] \in Plugins
      /\ pc[t] \in UnregisterPcs => gone[t] \in Conns
  BY DEF LocalsOK
<1>1. CASE RemoveMiss(t)
  <2>1. pc[t] \in PlainPcs /\ pc'[t] \in PlainPcs
    BY <1>1 DEF RemoveMiss, Return, Goto, AfterUnregister, PlainPcs
  <2>2. DevicesSettled'
    BY <1>1, <2>1, PlainState, DevicesSame DEF RemoveMiss, maps, owners
  <2> QED
    BY <2>1, <2>2, PlainNext
<1>2. CASE RemoveHit(t)
  <2>1. /\ pc[t] = "remove" /\ pc'[t] = "unconn" /\ pid[t] \in Plugins
        /\ devices' = devices
        /\ by_plugin_id[pid[t]] \in Conns
        /\ by_plugin_id' = [by_plugin_id EXCEPT ![pid[t]] = None]
        /\ gone'[t] = by_plugin_id[pid[t]]
    BY <1>0, <1>2 DEF RemoveHit, Goto, Serving
  <2>2. DevicesSettled
    BY <2>1, PlainState DEF PlainPcs
  <2>3. \A p \in Plugins : by_plugin_id'[p] = IF p = pid[t] THEN None ELSE by_plugin_id[p]
    BY <2>1
  <2>4. \A d : d # DeviceOf[gone'[t]] => (HasPlugin(d)' <=> HasPlugin(d))
    <3>1. ASSUME NEW d, HasPlugin(d)' PROVE HasPlugin(d)
      BY <2>3, <3>1 DEF HasPlugin
    <3>2. ASSUME NEW d, d # DeviceOf[gone'[t]], HasPlugin(d) PROVE HasPlugin(d)'
      <4>1. PICK p \in Plugins : by_plugin_id[p] # None /\ DeviceOf[by_plugin_id[p]] = d
        BY <3>2 DEF HasPlugin
      <4>2. p # pid[t]
        BY <2>1, <3>2, <4>1
      <4>3. by_plugin_id'[p] = by_plugin_id[p]
        BY <2>3, <4>2
      <4> QED
        BY <4>1, <4>3 DEF HasPlugin
    <3> QED
      BY <3>1, <3>2
  <2>5. HasPlugin(DeviceOf[gone'[t]]) /\ DeviceOf[gone'[t]] \in Devices
    BY <2>1 DEF HasPlugin
  <2> QED
    BY <2>1, <2>2, <2>4, <2>5 DEF DevicesSettled, DeviceOK, UnregisterPcs
<1>3. CASE \/ RemoveConn(t) \/ RemovePong(t) \/ UnindexRetain(t) \/ PromoteDropRow(t)
           \/ PromotePut(t) \/ UnindexGet(t) \/ UnindexDel(t)
  <2>1. /\ UNCHANGED <<by_plugin_id, devices>> /\ gone'[t] = gone[t]
        /\ pc[t] \in UnregisterPcs /\ pc'[t] \in UnregisterPcs \ {"scan"}
    BY <1>3 DEF RemoveConn, RemovePong, UnindexRetain, PromoteDropRow, PromotePut,
       UnindexGet, UnindexDel, Goto, UnregisterPcs, maps, owners, locals, scratch
  <2> QED
    BY <2>1, DeviceFrame
<1>4. CASE ScanStart(t)
  <2>1. /\ UNCHANGED <<by_plugin_id, devices>> /\ gone'[t] = gone[t] /\ unseen'[t] = Plugins
        /\ pc[t] \in UnregisterPcs /\ pc'[t] \in UnregisterPcs
    BY <1>4 DEF ScanStart, Goto, UnregisterPcs, maps, owners
  <2> QED
    BY <2>1, DeviceFrame
<1>5. CASE ScanNext(t)
  <2>1. /\ UNCHANGED <<by_plugin_id, devices, pc>> /\ gone'[t] = gone[t] /\ pc[t] = "scan"
        /\ \E p \in unseen[t] : ~SameDevice(t, by_plugin_id[p]) /\ unseen'[t] = unseen[t] \ {p}
    BY <1>5 DEF ScanNext, maps, owners
  <2>2. \A p \in Plugins \ unseen'[t] : ~SameDevice(t, by_plugin_id[p])
    BY <2>1 DEF DeviceOK
  <2> QED
    BY <2>1, <2>2, DeviceFrame DEF UnregisterPcs
<1>6. CASE ScanFound(t)
  <2>1. /\ UNCHANGED <<by_plugin_id, devices>> /\ pc[t] = "scan" /\ pc'[t] \in PlainPcs
        /\ \E p \in unseen[t] : SameDevice(t, by_plugin_id[p])
    BY <1>6 DEF ScanFound, Return, Goto, AfterUnregister, PlainPcs, maps, owners
  <2>2. HasPlugin(DeviceOf[gone[t]]) /\ devices[DeviceOf[gone[t]]] = "online"
    BY <2>1 DEF SameDevice, HasPlugin, DeviceOK, UnregisterPcs
  <2>3. DevicesSettled
    BY <2>1, <2>2 DEF DeviceOK, DevicesSettled
  <2> QED
    BY <2>1, <2>3, DevicesSame, PlainNext
<1>7. CASE MarkOffline(t)
  <2>1. /\ by_plugin_id' = by_plugin_id /\ pc[t] = "scan" /\ pc'[t] \in PlainPcs
        /\ unseen[t] = {}
        /\ devices' = [devices EXCEPT ![DeviceOf[gone[t]]] = IF @ = None THEN None ELSE "offline"]
    BY <1>7 DEF MarkOffline, Return, Goto, AfterUnregister, PlainPcs, owners
  <2>2. DeviceOf[gone[t]] \in Devices
    BY <1>0, <2>1 DEF UnregisterPcs
  <2>3. ~HasPlugin(DeviceOf[gone[t]])
    BY <2>1 DEF DeviceOK, SameDevice, HasPlugin
  <2>4. \A d : HasPlugin(d)' <=> HasPlugin(d)
    BY <2>1 DEF HasPlugin
  <2>5. devices'[DeviceOf[gone[t]]] # "online"
    BY <2>1, <2>2, NoneAssumption
  <2>6. \A d \in Devices : d # DeviceOf[gone[t]] => devices'[d] = devices[d]
    BY <2>1
  <2>7. DevicesSettled'
    BY <2>1, <2>3, <2>4, <2>5, <2>6 DEF DeviceOK, DevicesSettled
  <2> QED
    BY <2>1, <2>7, PlainNext
<1> QED
  BY <1>1, <1>2, <1>3, <1>4, <1>5, <1>6, <1>7 DEF UnregisterStep

\* register puts its device on before its entry.
LEMMA RegisterDevice ==
  ASSUME TypeInv, TypeInv', NEW t \in Threads, EntryOK(t), DeviceOK(t), RegisterStep(t)
  PROVE  DeviceOK(t)'
<1> USE ConstantsAssumption DEF TypeInv, TypeOK
<1>0. /\ pc[t] \in Serving => pid[t] \in Plugins
      /\ pc[t] \in RegisterPcs \cup {"reserve"} => cid[t] \in Conns
  BY DEF LocalsOK, Threads, Serving, RegisterPcs, UnregisterPcs
<1>1. CASE ReserveReject(t)
  <2>1. pc[t] \in PlainPcs /\ pc'[t] \in PlainPcs
    BY <1>1 DEF ReserveReject, Return, Goto, PlainPcs
  <2>2. DevicesSettled'
    BY <1>1, <2>1, PlainState, DevicesSame DEF ReserveReject, maps, owners
  <2> QED
    BY <2>1, <2>2, PlainNext
<1>2. CASE Reserve(t) \/ IndexPush(t) \/ IndexEntry(t) \/ IndexEvacuate(t) \/ InsertPong(t)
  <2>1. /\ UNCHANGED <<by_plugin_id, devices>>
        /\ pc[t] \in (RegisterPcs \ {"commit"}) \cup PlainPcs
        /\ pc'[t] \in RegisterPcs \ {"commit"}
    BY <1>2 DEF Reserve, IndexPush, IndexEntry, IndexEvacuate, InsertPong, Goto, RegisterPcs,
       PlainPcs, owners
  <2> QED
    BY <2>1, DeviceFrame
<1>3. CASE UpsertDevice(t)
  <2>1. /\ by_plugin_id' = by_plugin_id /\ cid' = cid /\ cid[t] \in Conns
        /\ pc[t] = "device" /\ pc'[t] = "commit"
        /\ devices' = [devices EXCEPT ![DeviceOf[cid[t]]] = "online"]
    BY <1>0, <1>3 DEF UpsertDevice, Goto, owners, locals, RegisterPcs
  <2>2. \A d : HasPlugin(d)' <=> HasPlugin(d)
    BY <2>1 DEF HasPlugin
  <2> QED
    BY <2>1, <2>2 DEF DeviceOK, UnregisterPcs
<1>4. CASE Commit(t)
  <2>1. /\ pc[t] = "commit" /\ pc'[t] \in PlainPcs /\ devices' = devices
        /\ by_plugin_id[pid[t]] = None
        /\ by_plugin_id' = [by_plugin_id EXCEPT ![pid[t]] = cid[t]]
        /\ pid[t] \in Plugins /\ cid[t] \in Conns
    BY <1>0, <1>4 DEF Commit, Return, Goto, PlainPcs, EntryOK, RegisterPcs, Serving
  <2>2. \A p \in Plugins : by_plugin_id'[p] = IF p = pid[t] THEN cid[t] ELSE by_plugin_id[p]
    BY <2>1
  <2>3. \A d : HasPlugin(d)' <=> HasPlugin(d) \/ d = DeviceOf[cid[t]]
    <3>1. ASSUME NEW d, HasPlugin(d)' PROVE HasPlugin(d) \/ d = DeviceOf[cid[t]]
      BY <2>2, <3>1 DEF HasPlugin
    <3>2. ASSUME NEW d, HasPlugin(d) PROVE HasPlugin(d)'
      BY <2>1, <2>2, <3>2 DEF HasPlugin
    <3>3. ASSUME NEW d, d = DeviceOf[cid[t]] PROVE HasPlugin(d)'
      <4>1. by_plugin_id'[pid[t]] = cid[t] /\ cid[t] # None
        BY <2>1, <2>2
      <4> QED
        BY <2>1, <3>3, <4>1 DEF HasPlugin
    <3> QED
      BY <3>1, <3>2, <3>3
  <2>4. DevicesSettled'
    BY <2>1, <2>3 DEF DeviceOK, DevicesSettled, UnregisterPcs
  <2> QED
    BY <2>1, <2>4, PlainNext
<1> QED
  BY <1>1, <1>2, <1>3, <1>4 DEF RegisterStep

\* At the start the index is empty and every device is unknown.
LEMMA SerialInit == Init => SerialInv
<1> SUFFICES ASSUME Init PROVE SerialInv
  OBVIOUS
<1>1. \A a : Declarers(a) = {}
  BY DEF Init, Declarers
<1>2. IndexSettled
  BY <1>1, ExactRows DEF Init, IndexSettled
<1>3. DevicesSettled
  BY NoneAssumption DEF Init, DevicesSettled, HasPlugin
<1>4. Router \in Threads /\ pc[Router] = "idle" /\ Alone(Router)
  BY DEF Init, Threads, Alone, AtRest
<1>5. /\ pc[Router] \notin RegisterPcs \cup UnregisterPcs \cup FluxPcs
      /\ pc[Router] \notin {"device", "commit", "scan"}
  BY <1>4 DEF RegisterPcs, UnregisterPcs, FluxPcs
<1>6. \A a : Supply(Router, a) = Declarers(a)
  BY <1>5 DEF Supply, Extra
<1>7. IndexState(Router)
  BY <1>2, <1>5, <1>6 DEF IndexState, EntryOK, RowsOK, FluxOK, FluxPcs, IndexSettled
<1>8. DeviceOK(Router)
  BY <1>3, <1>5 DEF DeviceOK, DevicesSettled
<1> QED
  BY <1>4, <1>7, <1>8 DEF SerialInv

\* A step that starts or ends an operation and writes neither an entry nor
\* the index.
LEMMA PlainStep ==
  ASSUME SerialInv, NEW t \in Threads, ~AtRest(t) \/ \A u \in Threads : AtRest(u),
         pc[t] \in PlainPcs, pc'[t] \in PlainPcs,
         \A u \in Threads \ {t} : pc'[u] = pc[u], UNCHANGED <<by_plugin_id, indexes>>,
         UNCHANGED devices \/ (DevicesSettled => DevicesSettled')
  PROVE  SerialInv'
<1>1. Alone(t) /\ IndexSettled /\ DevicesSettled
  BY Actor, PlainState
<1>2. Alone(t)'
  BY <1>1 DEF Alone, AtRest
<1>3. IndexSettled' /\ DevicesSettled'
  BY <1>1, SettledSame, DevicesSame
<1> QED
  BY <1>2, <1>3, PlainNext DEF SerialInv

\* With operations one at a time, every step leaves the index and the devices
\* as far as the one operation under way has got.
LEMMA SerialStep ==
  Serial /\ TypeInv /\ TypeInv' /\ SerialInv /\ [Next]_vars => SerialInv'
<1> SUFFICES ASSUME Serial, TypeInv, TypeInv', SerialInv, [Next]_vars PROVE SerialInv'
  OBVIOUS
<1> USE ConstantsAssumption
<1>1. ASSUME UNCHANGED <<pc, maps, locals>> PROVE SerialInv'
  <2>1. PICK t \in Threads : Alone(t) /\ IndexState(t) /\ DeviceOK(t)
    BY DEF SerialInv
  <2>2. Alone(t)'
    BY <1>1, <2>1 DEF Alone, AtRest
  <2>3. \A a : Supply(t, a)' = Supply(t, a)
    BY <1>1 DEF Supply, Extra, Declarers, maps, owners, locals, scratch
  <2>4. IndexState(t)'
    <3>1. UNCHANGED <<pc, pid, cid, todo, cur, only, by_plugin_id, action_index,
                      ambiguous_actions>>
      BY <1>1 DEF maps, owners, indexes, locals, scratch
    <3>2. EntryOK(t)'
      BY <2>1, <3>1 DEF IndexState, EntryOK
    <3>3. RowsOK(t)'
      BY <2>1, <2>3, <3>1 DEF IndexState, RowsOK
    <3>4. FluxOK(t)'
      BY <2>1, <2>3, <3>1 DEF IndexState, FluxOK
    <3> QED
      BY <3>2, <3>3, <3>4 DEF IndexState
  <2>5. DeviceOK(t)'
    BY <1>1, <2>1 DEF DeviceOK, HasPlugin, SameDevice, maps, owners, locals, scratch
  <2> QED
    BY <2>2, <2>4, <2>5 DEF SerialInv
<1>2. ASSUME NEW t \in Threads, UnregisterStep(t) \/ RegisterStep(t) PROVE SerialInv'
  <2>1. /\ ~AtRest(t)
        /\ \A u \in Threads \ {t} : pc'[u] = pc[u]
    <3>1. ~AtRest(t)
      BY <1>2 DEF UnregisterStep, RegisterStep, RemoveMiss, RemoveHit, RemoveConn, RemovePong,
         UnindexRetain, PromoteDropRow, PromotePut, UnindexGet, UnindexDel, ScanStart, ScanNext,
         ScanFound, MarkOffline, ReserveReject, Reserve, IndexPush, IndexEntry, IndexEvacuate,
         InsertPong, UpsertDevice, Commit, AtRest
    <3>2. pc' = pc \/ \E l : Goto(t, l)
      <4>1. CASE UnregisterStep(t)
        BY <4>1 DEF UnregisterStep, RemoveMiss, RemoveHit, RemoveConn, RemovePong,
           UnindexRetain, PromoteDropRow, PromotePut, UnindexGet, UnindexDel, ScanStart,
           ScanNext, ScanFound, MarkOffline, Return
      <4>2. CASE RegisterStep(t)
        BY <4>2 DEF RegisterStep, ReserveReject, Reserve, IndexPush, IndexEntry,
           IndexEvacuate, InsertPong, UpsertDevice, Commit, Return
      <4> QED
        BY <1>2, <4>1, <4>2
    <3> QED
      BY <3>1, <3>2 DEF Goto, TypeInv, TypeOK
  <2>2. Alone(t) /\ IndexState(t) /\ DeviceOK(t)
    BY <2>1, Actor
  <2>3. Alone(t)'
    BY <2>1, <2>2 DEF Alone, AtRest
  <2>4. IndexState(t)'
    BY <1>2, <2>2, UnregisterIndex, RegisterIndex
  <2>5. DeviceOK(t)'
    BY <1>2, <2>2, UnregisterDevice, RegisterDevice DEF IndexState
  <2> QED
    BY <2>3, <2>4, <2>5 DEF SerialInv
<1>3. ASSUME NEW c \in Conns,
             \/ Accept(c) \/ Close(c) \/ SendPong(c) \/ SignalDisconnect(c)
             \/ \E p \in Plugins : SendRegister(c, p)
      PROVE  SerialInv'
  BY <1>1, <1>3 DEF Accept, Close, SendPong, SendRegister, Send, SignalDisconnect
<1>4. CASE RouterRefuse \/ RouterDrop \/ Quiet \/ \E d \in DiscLoops : DiscMiss(d)
  BY <1>1, <1>4 DEF RouterRefuse, RouterDrop, Quiet, DiscMiss, vars
<1>5. CASE RouterRegister \/ RouterPong
  <2>1. /\ Router \in Threads /\ \A u \in Threads : AtRest(u)
        /\ pc[Router] = "idle" /\ pc'[Router] \in PlainPcs
        /\ \A u \in Threads \ {Router} : pc'[u] = pc[u]
        /\ UNCHANGED <<by_plugin_id, indexes, devices>>
    BY <1>5 DEF RouterRegister, RouterPong, NextFrame, CanStart, Goto, PlainPcs, maps, owners,
       Threads, TypeInv, TypeOK
  <2> QED
    BY <2>1, PlainStep DEF PlainPcs
<1>6. CASE RecordPong
  <2>1. /\ Router \in Threads /\ pc[Router] = "pong_put" /\ pc'[Router] = "pong_device"
        /\ \A u \in Threads \ {Router} : pc'[u] = pc[u]
        /\ UNCHANGED <<by_plugin_id, indexes, devices>>
    BY <1>6 DEF RecordPong, Goto, owners, Threads, TypeInv, TypeOK
  <2> QED
    BY <2>1, PlainStep DEF PlainPcs, AtRest
<1>7. CASE RecordPongDevice
  <2> DEFINE c == by_plugin_id[pid[Router]]
  <2>1. /\ Router \in Threads /\ pc[Router] = "pong_device" /\ pc'[Router] = "idle"
        /\ \A u \in Threads \ {Router} : pc'[u] = pc[u]
        /\ UNCHANGED <<by_plugin_id, indexes>>
        /\ devices' = IF c = None THEN devices ELSE [devices EXCEPT ![DeviceOf[c]] = "online"]
    BY <1>7 DEF RecordPongDevice, Return, Goto, owners, Threads, TypeInv, TypeOK
  <2>2. c # None => HasPlugin(DeviceOf[c])
    BY <2>1 DEF HasPlugin, TypeInv, LocalsOK
  <2>3. \A d : HasPlugin(d)' <=> HasPlugin(d)
    BY <2>1 DEF HasPlugin
  <2>4. DevicesSettled => DevicesSettled'
    BY <2>1, <2>2, <2>3 DEF DevicesSettled, TypeInv, TypeOK
  <2> QED
    BY <2>1, <2>4, PlainStep DEF PlainPcs, AtRest
<1>8. ASSUME NEW d \in DiscLoops, DiscHit(d) PROVE SerialInv'
  <2>1. /\ d \in Threads /\ \A u \in Threads : AtRest(u)
        /\ pc[d] = "idle" /\ pc'[d] = "remove"
        /\ \A u \in Threads \ {d} : pc'[u] = pc[u]
        /\ UNCHANGED <<by_plugin_id, indexes, devices>>
    BY <1>8 DEF DiscHit, NextDisc, CanStart, Goto, maps, owners, Threads, TypeInv, TypeOK
  <2> QED
    BY <2>1, PlainStep DEF PlainPcs
<1>9. ASSUME NEW t \in Stoppers, NEW p \in Plugins, Stop(t, p) PROVE SerialInv'
  <2>1. /\ t \in Threads /\ \A u \in Threads : AtRest(u)
        /\ pc[t] = "idle" /\ pc'[t] = "remove"
        /\ \A u \in Threads \ {t} : pc'[u] = pc[u]
        /\ UNCHANGED <<by_plugin_id, indexes, devices>>
    BY <1>9 DEF Stop, CanStart, Goto, maps, owners, Threads, TypeInv, TypeOK
  <2> QED
    BY <2>1, PlainStep DEF PlainPcs
<1>10. ASSUME NEW t \in Bridges,
              \/ \E c \in BridgeConns, p \in Plugins : BridgeUp(t, c, p)
              \/ BridgeDown(t)
       PROVE  SerialInv'
  <2>1. /\ t \in Threads /\ \A u \in Threads : AtRest(u)
        /\ pc[t] \in {"idle", "up"} /\ pc'[t] \in {"reserve", "remove"}
        /\ \A u \in Threads \ {t} : pc'[u] = pc[u]
        /\ UNCHANGED <<by_plugin_id, indexes, devices>>
    BY <1>10 DEF BridgeUp, BridgeDown, CanStart, Goto, maps, owners, Threads, TypeInv, TypeOK
  <2> QED
    BY <2>1, PlainStep DEF PlainPcs
<1>11. ASSUME NEW t \in Bridges, BridgeHangup(t) PROVE SerialInv'
  <2>1. /\ t \in Threads /\ pc[t] = "hangup" /\ pc'[t] = "idle"
        /\ \A u \in Threads \ {t} : pc'[u] = pc[u]
        /\ UNCHANGED <<by_plugin_id, indexes, devices>>
    BY <1>11 DEF BridgeHangup, Return, Goto, maps, owners, Threads, TypeInv, TypeOK
  <2> QED
    BY <2>1, PlainStep DEF PlainPcs, AtRest
<1>12. CASE UNCHANGED vars
  BY <1>1, <1>12 DEF vars
<1> QED
  BY <1>2, <1>3, <1>4, <1>5, <1>6, <1>7, <1>8, <1>9, <1>10, <1>11, <1>12
     DEF Next, Environment, RouterStep, DiscStep

\* When operations do not overlap, the routing index is a function of the
\* registered manifests, for any number of plugins, connections and actions.
THEOREM SerialIndexExact == ASSUME Serial PROVE Spec => []IndexExact
<1>1. TypeInv /\ SerialInv => IndexExact
  <2> SUFFICES ASSUME TypeInv, SerialInv, Quiescent, NEW a \in Actions
               PROVE  /\ action_index[a] # None <=> \E p \in Plugins : Declarers(a) = {p}
                      /\ action_index[a] # None => Declarers(a) = {action_index[a]}
                      /\ ambiguous_actions[a] =
                           IF \E p, q \in Declarers(a) : p # q THEN Declarers(a) ELSE None
    BY DEF IndexExact
  <2>1. IndexSettled
    <3>1. PICK t \in Threads : IndexState(t)
      BY DEF SerialInv
    <3>2. pc[t] \in PlainPcs
      BY DEF Quiescent, AtRest, PlainPcs
    <3> QED
      BY <3>1, <3>2, PlainState
  <2>2. action_index[a] \in Plugins \cup {None}
    BY DEF TypeInv, TypeOK
  <2> QED
    BY <2>1, <2>2, ConstantsAssumption DEF IndexSettled, Exact
<1>2. TypeInv /\ SerialInv /\ [Next]_vars => (TypeInv /\ SerialInv)'
  BY TypeStep, SerialStep
<1>3. Init => TypeInv /\ SerialInv
  BY TypeInit, SerialInit
<1> QED
  BY <1>1, <1>2, <1>3, PTL DEF Spec

\* Then a device is online exactly while one of its plugins is registered.
THEOREM SerialDeviceExact == ASSUME Serial PROVE Spec => []DeviceExact
<1>1. SerialInv => DeviceExact
  <2> SUFFICES ASSUME SerialInv, Quiescent PROVE DevicesSettled
    BY DEF DeviceExact, DevicesSettled, HasPlugin
  <2>1. PICK t \in Threads : DeviceOK(t)
    BY DEF SerialInv
  <2>2. pc[t] \in PlainPcs
    BY DEF Quiescent, AtRest, PlainPcs
  <2> QED
    BY <2>1, <2>2, PlainState
<1>2. TypeInv /\ SerialInv /\ [Next]_vars => (TypeInv /\ SerialInv)'
  BY TypeStep, SerialStep
<1>3. Init => TypeInv /\ SerialInv
  BY TypeInit, SerialInit
<1> QED
  BY <1>1, <1>2, <1>3, PTL DEF Spec

-----------------------------------------------------------------------------
(* Whom the router refuses.                                                *)

\* What the router knows of the id it is about to register: without a bridge
\* nobody else registers, so its holder is the one it saw alive or, once that
\* was found dead, nobody.
SeenInv ==
    /\ pc[Router] = "remove" =>
         (by_plugin_id[pid[Router]] # None => is_closed(by_plugin_id[pid[Router]]))
    /\ pc[Router] \in UnregisterPcs => by_plugin_id[pid[Router]] = None
    /\ pc[Router] = "reserve" => by_plugin_id[pid[Router]] \in {None, saw[Router]}

\* A step of another task removes entries and closes connections, at most.
LEMMA SeenFrame ==
  ASSUME TypeInv, SeenInv, pc'[Router] = pc[Router], pid'[Router] = pid[Router],
         saw'[Router] = saw[Router],
         \A p \in Plugins : by_plugin_id'[p] \in {None, by_plugin_id[p]},
         \A c \in Conns : is_closed(c) => is_closed(c)'
  PROVE  SeenInv'
<1>1. pc[Router] \in UnregisterPcs \cup {"remove", "reserve"} => pid[Router] \in Plugins
  BY DEF TypeInv, LocalsOK, Serving, Threads
<1>2. pc[Router] \in UnregisterPcs \cup {"remove", "reserve"} =>
        /\ by_plugin_id[pid[Router]] \in Conns \cup {None}
        /\ by_plugin_id'[pid[Router]] \in {None, by_plugin_id[pid[Router]]}
  BY <1>1 DEF TypeInv, TypeOK
<1> QED
  BY <1>2 DEF SeenInv

\* Without a bridge every step keeps it.
LEMMA SeenStep ==
  ASSUME Bridges = {}, TypeInv, TypeInv', SeenInv, [Next]_vars
  PROVE  SeenInv'
<1> USE ConstantsAssumption
<1>0. Router \in Threads /\ Router \notin DiscLoops \cup Stoppers \cup Bridges
  BY DEF Threads
<1>1. ASSUME NEW c \in Conns,
             \/ Accept(c) \/ Close(c) \/ SendPong(c) \/ SignalDisconnect(c)
             \/ \E p \in Plugins : SendRegister(c, p)
      PROVE  SeenInv'
  <2>1. UNCHANGED <<pc, pid, saw, by_plugin_id>>
    BY <1>1 DEF Accept, Close, SendPong, SendRegister, Send, SignalDisconnect, maps, owners,
       locals
  <2>2. \A b \in Conns : is_closed(b) => is_closed(b)'
    <3>1. \/ UNCHANGED conn
          \/ conn[c] = "new" /\ conn' = [conn EXCEPT ![c] = "open"]
          \/ conn' = [conn EXCEPT ![c] = "closed"]
          \/ conn' = [conn EXCEPT ![c] = "signalled"]
      BY <1>1 DEF Accept, Close, SendPong, SendRegister, Send, SignalDisconnect
    <3> QED
      BY <3>1 DEF is_closed, TypeInv, TypeOK
  <2> QED
    BY <2>1, <2>2, SeenFrame
<1>2. CASE RouterRefuse \/ RouterDrop \/ Quiet \/ \E d \in DiscLoops : DiscMiss(d)
  <2>1. UNCHANGED <<pc, pid, saw, by_plugin_id, conn>>
    BY <1>2 DEF RouterRefuse, RouterDrop, NextFrame, Quiet, DiscMiss, NextDisc, vars, maps,
       owners, locals, clients
  <2> QED
    BY <2>1, SeenFrame DEF is_closed
<1>3. ASSUME NEW d \in DiscLoops, DiscHit(d) PROVE SeenInv'
  <2>1. /\ UNCHANGED <<saw, by_plugin_id, conn>>
        /\ pc'[Router] = pc[Router] /\ pid'[Router] = pid[Router]
    BY <1>0, <1>3 DEF DiscHit, NextDisc, Goto, maps, owners, TypeInv, TypeOK
  <2> QED
    BY <2>1, SeenFrame DEF is_closed
<1>4. ASSUME NEW t \in Stoppers, NEW p \in Plugins, Stop(t, p) PROVE SeenInv'
  <2>1. /\ UNCHANGED <<saw, by_plugin_id, conn>>
        /\ pc'[Router] = pc[Router] /\ pid'[Router] = pid[Router]
    BY <1>0, <1>4 DEF Stop, Goto, maps, owners, TypeInv, TypeOK
  <2> QED
    BY <2>1, SeenFrame DEF is_closed
<1>5. CASE RouterRegister
  <2>1. PICK f \in Frame : f = Head(frames) /\ f.kind = "register"
    BY <1>5 DEF RouterRegister, NextFrame, TypeInv, TypeOK
  <2> DEFINE holder == by_plugin_id[f.plugin]
             dead   == holder # None /\ is_closed(holder)
  <2>2. /\ pid'[Router] = f.plugin
        /\ saw'[Router] = IF dead THEN None ELSE holder
        /\ pc'[Router] = IF dead THEN "remove" ELSE "reserve"
        /\ UNCHANGED <<by_plugin_id, conn>>
    BY <1>0, <1>5, <2>1 DEF RouterRegister, NextFrame, Goto, maps, owners, TypeInv, TypeOK
  <2> QED
    BY <2>2 DEF SeenInv, is_closed, UnregisterPcs
<1>6. CASE RouterPong \/ RecordPong \/ RecordPongDevice
  <2>1. pc'[Router] \in {"pong_put", "pong_device", "idle"}
    BY <1>0, <1>6 DEF RouterPong, RecordPong, RecordPongDevice, Return, Goto, TypeInv, TypeOK
  <2> QED
    BY <2>1 DEF SeenInv, UnregisterPcs
<1>7. ASSUME NEW t \in Threads, UnregisterStep(t) \/ RegisterStep(t), t # Router
      PROVE  SeenInv'
  <2>1. /\ pc'[Router] = pc[Router] /\ pid'[Router] = pid[Router]
        /\ saw'[Router] = saw[Router] /\ UNCHANGED conn
    BY <1>0, <1>7 DEF UnregisterStep, RegisterStep, RemoveMiss, RemoveHit, RemoveConn,
       RemovePong, UnindexRetain, PromoteDropRow, PromotePut, UnindexGet, UnindexDel, ScanStart,
       ScanNext, ScanFound, MarkOffline, ReserveReject, Reserve, IndexPush, IndexEntry,
       IndexEvacuate, InsertPong, UpsertDevice, Commit, Return, Goto, TypeInv, TypeOK,
       clients, locals
  <2>2. pc[t] # "commit"
    BY <1>7 DEF TypeInv, LocalsOK, Threads, UnregisterPcs
  <2>3. \A p \in Plugins : by_plugin_id'[p] \in {None, by_plugin_id[p]}
    BY <1>7, <2>2 DEF UnregisterStep, RegisterStep, RemoveMiss, RemoveHit, RemoveConn,
       RemovePong, UnindexRetain, PromoteDropRow, PromotePut, UnindexGet, UnindexDel, ScanStart,
       ScanNext, ScanFound, MarkOffline, ReserveReject, Reserve, IndexPush, IndexEntry,
       IndexEvacuate, InsertPong, UpsertDevice, Commit, TypeInv, TypeOK, maps, owners
  <2> QED
    BY <2>1, <2>3, SeenFrame DEF is_closed
<1>8. CASE RegisterStep(Router)
  <2>1. pc'[Router] \in RegisterPcs \cup {"idle"}
    BY <1>0, <1>8 DEF RegisterStep, ReserveReject, Reserve, IndexPush, IndexEntry,
       IndexEvacuate, InsertPong, UpsertDevice, Commit, Return, Goto, RegisterPcs, TypeInv,
       TypeOK
  <2> QED
    BY <2>1 DEF SeenInv, RegisterPcs, UnregisterPcs
<1>9. CASE RemoveMiss(Router)
  <2>1. /\ pc[Router] = "remove" /\ pc'[Router] = "reserve"
        /\ pid'[Router] = pid[Router] /\ UNCHANGED by_plugin_id
        /\ by_plugin_id[pid[Router]] # None => ~is_closed(by_plugin_id[pid[Router]])
    BY <1>0, <1>9 DEF RemoveMiss, Return, Goto, AfterUnregister, Removable,
       unregister_if_dead_pred, maps, owners, TypeInv, TypeOK
  <2>2. by_plugin_id[pid[Router]] = None
    BY <2>1 DEF SeenInv
  <2> QED
    BY <2>1, <2>2 DEF SeenInv, UnregisterPcs
<1>10. CASE RemoveHit(Router)
  <2>1. pc'[Router] = "unconn" /\ by_plugin_id'[pid'[Router]] = None
    BY <1>0, <1>10 DEF RemoveHit, Goto, TypeInv, TypeOK, LocalsOK, Serving
  <2> QED
    BY <2>1 DEF SeenInv
<1>11. CASE UnregisterStep(Router) /\ ~RemoveMiss(Router) /\ ~RemoveHit(Router)
  <2>1. /\ pc[Router] \in UnregisterPcs
        /\ pc'[Router] \in UnregisterPcs \cup {"reserve"}
        /\ pid'[Router] = pid[Router] /\ UNCHANGED by_plugin_id
    BY <1>0, <1>11 DEF UnregisterStep, RemoveConn, RemovePong, UnindexRetain, PromoteDropRow,
       PromotePut, UnindexGet, UnindexDel, ScanStart, ScanNext, ScanFound, MarkOffline, Return,
       Goto, AfterUnregister, UnregisterPcs, maps, owners, locals, TypeInv, TypeOK
  <2> QED
    BY <2>1 DEF SeenInv, UnregisterPcs
<1>12. CASE UNCHANGED vars
  BY <1>12, SeenFrame DEF vars, clients, maps, owners, locals, is_closed
<1> QED
  BY <1>1, <1>2, <1>3, <1>4, <1>5, <1>6, <1>7, <1>8, <1>9, <1>10, <1>11, <1>12
     DEF Next, Environment, RouterStep, DiscStep

\* What a step may refuse.
RefusesOnlyForLive ==
    \A c \in Conns :
      (pc[Router] = "reserve" /\ cid[Router] = c /\ by_conn_id[c] = None
         /\ pc'[Router] = "idle") =>
        /\ saw[Router] # None
        /\ by_plugin_id[pid[Router]] = saw[Router]

\* Only a rejected reservation takes the router from there to its next frame.
LEMMA RefuseStep ==
  ASSUME TypeInv, SeenInv, [Next]_vars
  PROVE  RefusesOnlyForLive
<1> SUFFICES ASSUME pc[Router] = "reserve", by_conn_id[cid[Router]] = None,
                    pc'[Router] = "idle"
             PROVE  saw[Router] # None /\ by_plugin_id[pid[Router]] = saw[Router]
  BY DEF RefusesOnlyForLive
<1> USE ConstantsAssumption
<1>0. Router \in Threads /\ Router \notin DiscLoops \cup Stoppers \cup Bridges
  BY DEF Threads
<1>1. CASE ReserveReject(Router)
  BY <1>1 DEF ReserveReject, Reservable, SeenInv
<1>2. CASE ~ReserveReject(Router)
  <2>1. ASSUME NEW t \in Threads, UnregisterStep(t) \/ RegisterStep(t) PROVE FALSE
    <3>1. CASE t = Router
      BY <1>0, <1>2, <2>1, <3>1 DEF UnregisterStep, RegisterStep, RemoveMiss, RemoveHit,
         RemoveConn, RemovePong, UnindexRetain, PromoteDropRow, PromotePut, UnindexGet,
         UnindexDel, ScanStart, ScanNext, ScanFound, MarkOffline, Reserve, IndexPush,
         IndexEntry, IndexEvacuate, InsertPong, UpsertDevice, Commit, Goto, TypeInv, TypeOK
    <3>2. CASE t # Router
      BY <1>0, <2>1, <3>2 DEF UnregisterStep, RegisterStep, RemoveMiss, RemoveHit, RemoveConn,
         RemovePong, UnindexRetain, PromoteDropRow, PromotePut, UnindexGet, UnindexDel,
         ScanStart, ScanNext, ScanFound, MarkOffline, ReserveReject, Reserve, IndexPush,
         IndexEntry, IndexEvacuate, InsertPong, UpsertDevice, Commit, Return, Goto, TypeInv,
         TypeOK, locals
    <3> QED
      BY <3>1, <3>2
  <2>2. ASSUME \/ Environment \/ \E c \in Conns : SignalDisconnect(c)
               \/ \E d \in DiscLoops : DiscStep(d)
               \/ \E t \in Bridges : BridgeHangup(t)
        PROVE  FALSE
    <3>1. \/ pc' = pc
          \/ \E t \in DiscLoops \cup Stoppers \cup Bridges, l \in Pcs : Goto(t, l)
      BY <2>2 DEF Environment, Accept, Close, SendPong, SendRegister, Send, Stop, BridgeUp,
         BridgeDown, BridgeHangup, SignalDisconnect, DiscStep, DiscMiss, DiscHit, Return, Pcs
    <3> QED
      BY <1>0, <3>1 DEF Goto, TypeInv, TypeOK
  <2>3. ASSUME RouterStep \/ Quiet \/ UNCHANGED vars PROVE FALSE
    BY <1>0, <2>3 DEF RouterStep, RouterRefuse, RouterRegister, RouterDrop, RouterPong, NextFrame,
       RecordPong, RecordPongDevice, Quiet, vars
  <2> QED
    BY <2>1, <2>2, <2>3 DEF Next
<1> QED
  BY <1>1, <1>2

\* Without a bridge, the router refuses an id only in favour of the entry that
\* was alive when it looked, whatever the disconnect loops and the stops do
\* meanwhile: no client is refused because of its own dead registration.
THEOREM RefusedOnlyForLive == ASSUME Bridges = {} PROVE Spec => RejectOnlyIfLive
<1>1. Init => TypeInv /\ SeenInv
  <2>1. Init => SeenInv
    BY DEF Init, SeenInv, UnregisterPcs, Threads
  <2> QED
    BY <2>1, TypeInit
<1>2. TypeInv /\ SeenInv /\ [Next]_vars => (TypeInv /\ SeenInv)'
  BY TypeStep, SeenStep
<1>3. TypeInv /\ SeenInv /\ [Next]_vars => [RefusesOnlyForLive]_vars
  BY RefuseStep
<1> QED
  BY <1>1, <1>2, <1>3, PTL DEF Spec, RejectOnlyIfLive, RefusesOnlyForLive
=============================================================================
