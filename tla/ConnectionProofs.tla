--------------------------- MODULE ConnectionProofs ---------------------------
(***************************************************************************)
(* What the read loop of a connection guarantees for every number of       *)
(* streams, messages, fragments and sizes: a message it puts together is   *)
(* all of one message, its buffers stay within their limits, and the bytes *)
(* it counts are the bytes it holds.                                       *)
(***************************************************************************)
EXTENDS Connection, TLAPS, FiniteSetTheorems

\* What the read loop's state looks like.
BaseInv ==
    /\ ids \in [Messages -> Streams]
    /\ sent \in [Messages -> SUBSET Seqs]
    /\ reassembly = [s \in Streams |-> reassembly[s]]

\* What a stream has buffered was sent on it.
Owned(s) ==
    LET f == reassembly[s].fragments IN
    \A k \in DOMAIN f : k \in Seqs /\ f[k].msg \in Messages /\ ids[f[k].msg] = s

\* A stream that is not mixed holds what was sent of the one message that is
\* under way on it, and nothing else. (When the loop ends the last fragment was
\* sent and not buffered.)
Follows(s) ==
    LET f == reassembly[s].fragments IN
    /\ \A m \in Messages : ids[m] = s /\ sent[m] \notin {{}, Seqs} =>
         DOMAIN f = sent[m] /\ \A k \in DOMAIN f : f[k].msg = m
    /\ (\A m \in Messages : ids[m] = s => sent[m] \in {{}, Seqs}) => DOMAIN f = {}

StreamInv ==
    /\ \A s \in Streams : Owned(s)
    /\ read \in {"read", "dispatch"} => \A s \in Streams : s \in mixed \/ Follows(s)

WholeInv == BaseInv /\ StreamInv /\ WholeMessages

\* Nothing is buffered at first, or after a stream is finished or discarded.
LEMMA NoBufEmpty == NoBuf.fragments = <<>> /\ DOMAIN NoBuf.fragments = {} /\ NoBuf.buffered_bytes = 0
  BY DEF NoBuf

\* total fragments are all of them.
LEMMA CompleteIsAll == \A D \in SUBSET Seqs : Cardinality(D) = total <=> D = Seqs
<1>1. total \in Nat \ {0} /\ total - 1 \in Int
  BY ConnectionAssumption
<1>2. IsFiniteSet(Seqs) /\ Cardinality(Seqs) = total
  BY <1>1, FS_Interval DEF Seqs
<1>3. ASSUME NEW D \in SUBSET Seqs, Cardinality(D) = total PROVE D = Seqs
  BY <1>2, <1>3, FS_Subset
<1> QED
  BY <1>2, <1>3

\* A fragment of m that is sent in order on a stream that is not mixed.
LEMMA FragmentFollows ==
  ASSUME BaseInv, NEW m \in Messages, Follows(ids[m]), InOrder(m)
  PROVE  /\ DOMAIN reassembly[ids[m]].fragments = sent[m]
         /\ \A k \in sent[m] : reassembly[ids[m]].fragments[k].msg = m
<1>1. CASE sent[m] = {}
  <2>1. \A n \in Messages : ids[n] = ids[m] => sent[n] \in {{}, Seqs}
    BY <1>1 DEF InOrder
  <2> QED
    BY <1>1, <2>1 DEF Follows
<1>2. CASE sent[m] # {}
  BY <1>2 DEF Follows, InOrder
<1> QED
  BY <1>1, <1>2

\* A fragment keeps the buffers true to what was sent.
LEMMA FragmentStep ==
  ASSUME WholeInv, NEW m \in Messages, NEW q \in Seqs, NEW size \in Sizes, Fragment(m, q, size)
  PROVE  WholeInv'
<1>0. /\ BaseInv /\ ids' = ids /\ read = "read"
      /\ sent' = [sent EXCEPT ![m] = @ \cup {q}]
      /\ mixed' = mixed \cup late \cup IF InOrder(m) THEN {} ELSE {ids[m]}
  BY DEF WholeInv, Fragment, SendsFragment, PeerSends
<1>1. PICK s \in Streams : s = ids[m]
  BY <1>0 DEF BaseInv
<1>2. PICK r : r = prune_stale_reassembly
  OBVIOUS
<1>3. PICK buf : buf = Insert(r[s], q, m, size)
  OBVIOUS
<1>4. sent' \in [Messages -> SUBSET Seqs] /\ sent'[m] = sent[m] \cup {q}
      /\ \A n \in Messages : n # m => sent'[n] = sent[n]
  BY <1>0 DEF BaseInv
<1>w. \A w \in whole :
        /\ DOMAIN w = Seqs
        /\ \E t \in Streams :
             /\ \A k \in Seqs : w[k] \in Messages /\ ids'[w[k]] = t
             /\ t \in mixed' \/ \E n \in Messages : \A k \in Seqs : w[k] = n
  BY <1>0 DEF WholeInv, WholeMessages
<1>5. CASE read' = "stop" /\ UNCHANGED <<reassembly, late, whole>>
  <2>1. BaseInv'
    BY <1>0, <1>4, <1>5 DEF BaseInv
  <2>2. WholeMessages'
    BY <1>5, <1>w DEF WholeMessages
  <2>3. \A t \in Streams : Owned(t)'
    BY <1>0, <1>5 DEF WholeInv, StreamInv, Owned
  <2> QED
    BY <1>5, <2>1, <2>2, <2>3 DEF WholeInv, StreamInv
<1>6. CASE ~(read' = "stop" /\ UNCHANGED <<reassembly, late, whole>>)
  <2>1. /\ reassembly' = [r EXCEPT ![s] = IF is_complete(buf) THEN NoBuf ELSE buf]
        /\ whole' = IF is_complete(buf)
                    THEN whole \cup {[k \in DOMAIN buf.fragments |-> buf.fragments[k].msg]}
                    ELSE whole
    BY <1>1, <1>2, <1>3, <1>6 DEF Fragment
  <2>2. r = [t \in Streams |-> r[t]] /\ \A t \in Streams : r[t] = IF t \in late THEN NoBuf ELSE reassembly[t]
    BY <1>2 DEF prune_stale_reassembly
  <2>3. BaseInv'
    BY <1>0, <1>4, <2>1, <2>2 DEF BaseInv
  <2>4. PICK f : f = buf.fragments
    OBVIOUS
  <2>5. /\ DOMAIN f = DOMAIN r[s].fragments \cup {q} /\ f[q].msg = m
        /\ \A k \in DOMAIN r[s].fragments : k # q => f[k] = r[s].fragments[k]
    <3>1. f = With(r[s].fragments, q, [msg |-> m, size |-> size])
      BY <1>3, <2>4 DEF Insert
    <3> QED
      BY <3>1 DEF With
  <2>6. \A t \in Streams : \A k \in DOMAIN r[t].fragments :
          k \in Seqs /\ r[t].fragments[k].msg \in Messages /\ ids[r[t].fragments[k].msg] = t
    BY <2>2, NoBufEmpty DEF WholeInv, StreamInv, Owned
  <2>7. \A k \in DOMAIN f : k \in Seqs /\ f[k].msg \in Messages /\ ids[f[k].msg] = s
    BY <1>1, <2>5, <2>6
  <2>8. /\ \A t \in Streams : t # s => reassembly'[t] = r[t]
        /\ reassembly'[s] = IF is_complete(buf) THEN NoBuf ELSE buf
    BY <2>1, <2>2
  <2>9. ASSUME NEW t \in Streams PROVE Owned(t)'
    <3>1. CASE t # s
      BY <1>0, <2>6, <2>8, <3>1 DEF Owned
    <3>2. CASE t = s /\ is_complete(buf)
      BY <2>8, <3>2, NoBufEmpty DEF Owned
    <3>3. CASE t = s /\ ~is_complete(buf)
      BY <1>0, <2>4, <2>7, <2>8, <3>3 DEF Owned
    <3> QED
      BY <3>1, <3>2, <3>3
  <2>10. ASSUME s \notin mixed'
         PROVE  /\ DOMAIN f = sent'[m] /\ \A k \in DOMAIN f : f[k].msg = m
                /\ \A n \in Messages : ids[n] = s /\ n # m => sent'[n] \in {{}, Seqs}
    <3>1. s \notin mixed /\ s \notin late /\ InOrder(m)
      BY <1>0, <1>1, <2>10
    <3>2. Follows(s) /\ r[s] = reassembly[s]
      BY <1>0, <2>2, <3>1 DEF WholeInv, StreamInv
    <3>3. DOMAIN r[s].fragments = sent[m] /\ \A k \in sent[m] : r[s].fragments[k].msg = m
      BY <1>0, <1>1, <3>1, <3>2, FragmentFollows
    <3>4. DOMAIN f = sent'[m]
      BY <1>4, <2>5, <3>3
    <3>5. ASSUME NEW k \in DOMAIN f PROVE f[k].msg = m
      BY <2>5, <3>3, <3>5
    <3>6. \A n \in Messages : ids[n] = s /\ n # m => sent'[n] \in {{}, Seqs}
      BY <1>1, <1>4, <3>1 DEF InOrder
    <3> QED
      BY <3>4, <3>5, <3>6
  <2>11. DOMAIN f \in SUBSET Seqs /\ (is_complete(buf) <=> DOMAIN f = Seqs)
    BY <2>4, <2>7, CompleteIsAll DEF is_complete
  <2>12. WholeMessages'
    <3>1. CASE is_complete(buf)
      <4>1. PICK w : w = [k \in DOMAIN f |-> f[k].msg]
        OBVIOUS
      <4>2. DOMAIN w = Seqs /\ \A k \in Seqs : w[k] \in Messages /\ ids'[w[k]] = s
        BY <1>0, <2>7, <2>11, <3>1, <4>1
      <4>3. s \in mixed' \/ \E n \in Messages : \A k \in Seqs : w[k] = n
        BY <2>10, <2>11, <3>1, <4>1
      <4>4. whole' = whole \cup {w}
        BY <2>1, <2>4, <3>1, <4>1
      <4> QED
        BY <1>w, <4>2, <4>3, <4>4 DEF WholeMessages
    <3>2. CASE ~is_complete(buf)
      BY <1>w, <2>1, <3>2 DEF WholeMessages
    <3> QED
      BY <3>1, <3>2
  <2>13. ASSUME NEW t \in Streams, t \notin mixed' PROVE Follows(t)'
    <3>1. CASE t # s
      <4>1. t \notin mixed /\ t \notin late
        BY <1>0, <2>13
      <4>2. reassembly'[t] = reassembly[t] /\ Follows(t)
        BY <1>0, <2>2, <2>8, <3>1, <4>1 DEF WholeInv, StreamInv
      <4>3. \A n \in Messages : ids[n] = t => sent'[n] = sent[n]
        BY <1>1, <1>4, <3>1
      <4>4. ASSUME NEW n \in Messages, ids[n] = t, sent'[n] \notin {{}, Seqs}
            PROVE  /\ DOMAIN reassembly'[t].fragments = sent'[n]
                   /\ \A k \in DOMAIN reassembly'[t].fragments : reassembly'[t].fragments[k].msg = n
        BY <4>2, <4>3, <4>4 DEF Follows
      <4>5. ASSUME \A n \in Messages : ids[n] = t => sent'[n] \in {{}, Seqs}
            PROVE  DOMAIN reassembly'[t].fragments = {}
        BY <4>2, <4>3, <4>5 DEF Follows
      <4> QED
        BY <1>0, <4>4, <4>5 DEF Follows
    <3>2. CASE t = s
      <4>0. /\ DOMAIN f = sent'[m] /\ \A k \in DOMAIN f : f[k].msg = m
            /\ \A n \in Messages : ids[n] = s /\ n # m => sent'[n] \in {{}, Seqs}
        BY <2>10, <2>13, <3>2
      <4>1. sent'[m] # {}
        BY <1>4
      <4>2. CASE sent'[m] = Seqs
        <5>1. reassembly'[s] = NoBuf
          BY <2>8, <2>11, <4>0, <4>2
        <5> QED
          BY <1>0, <3>2, <4>0, <4>2, <5>1, NoBufEmpty DEF Follows
      <4>3. CASE sent'[m] # Seqs
        <5>1. reassembly'[s] = buf
          BY <2>8, <2>11, <4>0, <4>3
        <5> QED
          BY <1>0, <1>1, <2>4, <3>2, <4>0, <4>1, <4>3, <5>1 DEF Follows
      <4> QED
        BY <4>2, <4>3
    <3> QED
      BY <3>1, <3>2
  <2> QED
    BY <2>3, <2>9, <2>12, <2>13 DEF WholeInv, StreamInv
<1> QED
  BY <1>5, <1>6

\* Every step keeps the buffers true to what was sent.
LEMMA WholeStep == WholeInv /\ [Next]_vars => WholeInv'
<1> SUFFICES ASSUME WholeInv, [Next]_vars PROVE WholeInv'
  OBVIOUS
<1>1. ASSUME NEW m \in Messages, NEW q \in Seqs, NEW size \in Sizes, Fragment(m, q, size)
      PROVE  WholeInv'
  BY <1>1, FragmentStep
<1>2. CASE PlainFrame
  <2>1. UNCHANGED <<ids, sent, whole>> /\ mixed' = mixed \cup late /\ read = "read"
        /\ reassembly' = prune_stale_reassembly
    BY <1>2 DEF PlainFrame, PeerSends
  <2>2. /\ \A s \in Streams : reassembly'[s] = IF s \in late THEN NoBuf ELSE reassembly[s]
        /\ reassembly' = [s \in Streams |-> reassembly'[s]]
    BY <2>1 DEF prune_stale_reassembly
  <2>3. BaseInv'
    BY <2>1, <2>2 DEF WholeInv, BaseInv
  <2>4. WholeMessages'
    BY <2>1 DEF WholeInv, WholeMessages
  <2>5. \A s \in Streams : Owned(s)'
    BY <2>1, <2>2, NoBufEmpty DEF WholeInv, StreamInv, Owned
  <2>6. ASSUME NEW s \in Streams, s \notin mixed' PROVE Follows(s)'
    <3>1. Follows(s) /\ reassembly'[s] = reassembly[s]
      BY <2>1, <2>2, <2>6 DEF WholeInv, StreamInv
    <3> QED
      BY <2>1, <3>1 DEF Follows
  <2> QED
    BY <2>3, <2>4, <2>5, <2>6 DEF WholeInv, StreamInv
<1>3. ASSUME NEW m \in Messages, NEW q \in Seqs, NEW size \in Sizes, Underflow(m, q, size)
      PROVE  WholeInv'
  <2>1. /\ UNCHANGED <<ids, reassembly, whole>> /\ read' = "panicked"
        /\ sent' = [sent EXCEPT ![m] = @ \cup {q}] /\ mixed \subseteq mixed'
    BY <1>3 DEF Underflow, SendsFragment
  <2>2. BaseInv'
    BY <2>1 DEF WholeInv, BaseInv
  <2>3. WholeMessages'
    BY <2>1 DEF WholeInv, WholeMessages
  <2>4. \A s \in Streams : Owned(s)'
    BY <2>1 DEF WholeInv, StreamInv, Owned
  <2> QED
    BY <2>1, <2>2, <2>3, <2>4 DEF WholeInv, StreamInv
<1>4. ASSUME UNCHANGED <<ids, sent, reassembly, mixed, whole>>,
             read' \in {"read", "dispatch"} => read \in {"read", "dispatch"}
      PROVE  WholeInv'
  <2>1. BaseInv' /\ WholeMessages'
    BY <1>4 DEF WholeInv, BaseInv, WholeMessages
  <2>2. \A s \in Streams : (Follows(s) => Follows(s)') /\ (Owned(s) => Owned(s)')
    BY <1>4 DEF Follows, Owned
  <2> QED
    BY <1>4, <2>1, <2>2 DEF WholeInv, StreamInv
<1>5. CASE BadFrame \/ Reader
  BY <1>4, <1>5 DEF BadFrame, End, PeerSends, Reader, Dispatch, Eof, Notice, StopWriter, JoinWriter,
     FreeSlot
<1>6. CASE \E s \in Streams : FragmentTimeout(s)
  BY <1>4, <1>6 DEF FragmentTimeout
<1>7. CASE Writer \/ Router \/ OtherSends \/ PeerChanges \/ UNCHANGED vars
  BY <1>4, <1>7 DEF Writer, WriteOne, WriteStop, WriteDone, Router, RouterTakes, RouterEnablesMac,
     OtherSends, PeerChanges, vars, reader
<1> QED
  BY <1>1, <1>2, <1>3, <1>5, <1>6, <1>7 DEF Next

\* Whatever order the fragments come in, what the read loop puts together has
\* every sequence number once and comes from one stream; it is one message, but
\* for a stream where a timeout discarded half of one, or where the peer repeated
\* a fragment after its message was complete or began a message before the last
\* was (connection.rs, the fragment arm of ConnectionHandler::run).
THEOREM MessagesAreWhole == Spec => []WholeMessages
<1>1. Init => WholeInv
  <2> SUFFICES ASSUME Init PROVE WholeInv
    OBVIOUS
  <2>1. BaseInv
    BY ConnectionAssumption DEF Init, BaseInv
  <2>2. \A s \in Streams : Follows(s) /\ Owned(s)
    BY NoBufEmpty DEF Init, Follows, Owned
  <2> QED
    BY <2>1, <2>2 DEF Init, WholeInv, StreamInv, WholeMessages
<1>2. WholeInv => WholeMessages
  BY DEF WholeInv
<1> QED
  BY <1>1, <1>2, WholeStep, PTL DEF Spec

-----------------------------------------------------------------------------
(* Limits, and the bytes that are counted.                                 *)

\* A buffer counts the bytes it has.
Counted(b) ==
    /\ DOMAIN b.fragments \subseteq Seqs
    /\ \A k \in DOMAIN b.fragments : b.fragments[k].size \in Nat
    /\ IsFiniteSet(ByteSet(b.fragments))
    /\ b.buffered_bytes = Cardinality(ByteSet(b.fragments))

\* The limits and the count hold each other up: usize wraps back because the
\* bytes are within the limit, and the limit is checked on what was counted.
BoundInv ==
    /\ ReassemblyBounded
    /\ IsFiniteSet(Open(reassembly))
    /\ reassembly = [s \in Streams |-> reassembly[s]]
    /\ ids \in [Messages -> Streams]
    /\ \A s \in Streams : Counted(reassembly[s])

\* What usize makes of a value in its range, just below it and just above it.
LEMMA WrapCases ==
  ASSUME NEW U \in Nat \ {0}, NEW n \in Int
  PROVE  /\ 0 <= n /\ n < U => n % U = n
         /\ n < 0 /\ -U <= n => n % U = n + U
         /\ U <= n /\ n < 2 * U => n % U = n - U
<1>1. ASSUME 0 <= n, n < U PROVE n % U = n
  BY <1>1
<1>2. ASSUME n < 0, -U <= n PROVE n % U = n + U
  BY <1>2
<1>3. ASSUME U <= n, n < 2 * U PROVE n % U = n - U
  BY <1>3
<1> QED
  BY <1>1, <1>2, <1>3

\* The subtraction may wrap; the addition that follows wraps back.
LEMMA WrapsBack ==
  ASSUME NEW have \in Nat, have <= MaxPayload, NEW old \in Nat, old <= have,
         NEW size \in 0..MaxPayload
  PROVE  /\ (have + ((size - old) % UsizeSpan)) % UsizeSpan = have + size - old
         /\ (have + size - old) % UsizeSpan = have + size - old
<1>0. UsizeSpan \in Nat \ {0} /\ MaxPayload \in Nat /\ 2 * MaxPayload < UsizeSpan
  BY ConnectionAssumption
<1>1. have + size - old \in Int /\ 0 <= have + size - old /\ have + size - old < UsizeSpan
  BY <1>0
<1>2. (have + size - old) % UsizeSpan = have + size - old
  BY <1>0, <1>1, WrapCases
<1>3. CASE size >= old
  <2>1. size - old \in Int /\ 0 <= size - old /\ size - old < UsizeSpan
    BY <1>0, <1>3
  <2>2. (size - old) % UsizeSpan = size - old
    BY <1>0, <2>1, WrapCases
  <2>3. have + (size - old) = have + size - old
    OBVIOUS
  <2> QED
    BY <1>2, <2>2, <2>3
<1>4. CASE size < old
  <2>1. size - old \in Int /\ size - old < 0 /\ -UsizeSpan <= size - old
    BY <1>0, <1>4
  <2>2. (size - old) % UsizeSpan = size - old + UsizeSpan
    BY <1>0, <2>1, WrapCases
  <2>3. PICK n \in Int : n = have + (size - old + UsizeSpan)
    BY <1>0
  <2>4. UsizeSpan <= n /\ n < 2 * UsizeSpan
    BY <1>0, <1>1, <2>3
  <2>5. n % UsizeSpan = n - UsizeSpan
    BY <1>0, <2>4, WrapCases
  <2>6. n - UsizeSpan = have + size - old
    BY <1>0, <2>3
  <2> QED
    BY <1>2, <2>2, <2>3, <2>5, <2>6
<1> QED
  BY <1>3, <1>4

\* The bytes of one fragment.
LEMMA BytesOfOne ==
  ASSUME NEW q, NEW n \in Nat
  PROVE  IsFiniteSet({q} \X (1..n)) /\ Cardinality({q} \X (1..n)) = n
<1>1. IsFiniteSet({q}) /\ Cardinality({q}) = 1
  BY FS_Singleton
<1>2. IsFiniteSet(1..n) /\ Cardinality(1..n) = IF 1 > n THEN 0 ELSE n - 1 + 1
  BY FS_Interval
<1>3. IsFiniteSet({q} \X (1..n)) /\ Cardinality({q} \X (1..n)) = 1 * Cardinality(1..n)
  BY <1>1, <1>2, FS_Product
<1>4. Cardinality(1..n) = n
  BY <1>2
<1> QED
  BY <1>3, <1>4

\* Nothing buffered is nothing counted.
LEMMA NoBufCounted == Counted(NoBuf)
<1>1. ByteSet(NoBuf.fragments) = {}
  BY NoBufEmpty DEF ByteSet
<1> QED
  BY <1>1, NoBufEmpty, FS_EmptySet DEF Counted

\* A fragment's own bytes take the place of those it had before.
LEMMA InsertCounts ==
  ASSUME NEW b, Counted(b), b.buffered_bytes <= MaxPayload,
         NEW q \in Seqs, NEW m, NEW size \in 0..MaxPayload
  PROVE  /\ Counted(Insert(b, q, m, size))
         /\ Insert(b, q, m, size).buffered_bytes
              = (b.buffered_bytes + size - Replaced(b, q)) % UsizeSpan
<1>1. PICK f : f = b.fragments
  OBVIOUS
<1>2. PICK g : g = With(f, q, [msg |-> m, size |-> size])
  OBVIOUS
<1>3. /\ DOMAIN f \subseteq Seqs /\ \A k \in DOMAIN f : f[k].size \in Nat
      /\ IsFiniteSet(ByteSet(f)) /\ b.buffered_bytes = Cardinality(ByteSet(f))
  BY <1>1 DEF Counted
<1>4. /\ DOMAIN g = DOMAIN f \cup {q} /\ g[q].size = size
      /\ \A k \in DOMAIN f : k # q => g[k] = f[k]
  BY <1>2 DEF With
<1>5. PICK old : old = IF q \in DOMAIN f THEN f[q].size ELSE 0
  OBVIOUS
<1>6. old \in Nat
  BY <1>3, <1>5
<1>7. \A x : x \in ByteSet(f) <=> \E k \in DOMAIN f : x \in {k} \X (1..f[k].size)
  BY DEF ByteSet
<1>8. \A x : x \in ByteSet(g) <=> \E k \in DOMAIN g : x \in {k} \X (1..g[k].size)
  BY DEF ByteSet
<1>9. PICK O : O = {q} \X (1..old)
  OBVIOUS
<1>10. PICK W : W = {q} \X (1..size)
  OBVIOUS
<1>11. O \subseteq ByteSet(f)
  <2>1. CASE q \in DOMAIN f
    BY <1>5, <1>7, <1>9, <2>1
  <2>2. CASE q \notin DOMAIN f
    <3>1. 1..0 = {}
      OBVIOUS
    <3> QED
      BY <1>5, <1>9, <2>2, <3>1
  <2> QED
    BY <2>1, <2>2
<1>12. ByteSet(g) = (ByteSet(f) \ O) \cup W
  <2>1. ASSUME NEW x \in ByteSet(g) PROVE x \in (ByteSet(f) \ O) \cup W
    <3>1. PICK k \in DOMAIN g : x \in {k} \X (1..g[k].size)
      BY <1>8, <2>1
    <3>2. CASE k = q
      BY <1>4, <1>10, <3>1, <3>2
    <3>3. CASE k # q
      <4>1. k \in DOMAIN f /\ x \in {k} \X (1..f[k].size)
        BY <1>4, <3>1, <3>3
      <4>2. x[1] = k
        BY <3>1
      <4>3. x \notin O
        BY <1>9, <3>3, <4>2
      <4> QED
        BY <1>7, <4>1, <4>3
    <3> QED
      BY <3>2, <3>3
  <2>2. ASSUME NEW x \in W PROVE x \in ByteSet(g)
    <3>1. q \in DOMAIN g /\ x \in {q} \X (1..g[q].size)
      BY <1>4, <1>10, <2>2
    <3> QED
      BY <1>8, <3>1
  <2>3. ASSUME NEW x \in ByteSet(f) \ O PROVE x \in ByteSet(g)
    <3>1. PICK k \in DOMAIN f : x \in {k} \X (1..f[k].size)
      BY <1>7, <2>3
    <3>2. k # q
      BY <1>5, <1>9, <2>3, <3>1
    <3>3. k \in DOMAIN g /\ x \in {k} \X (1..g[k].size)
      BY <1>4, <3>1, <3>2
    <3> QED
      BY <1>8, <3>3
  <2> QED
    BY <2>1, <2>2, <2>3
<1>13. (ByteSet(f) \ O) \cap W = {}
  <2>1. ASSUME NEW x \in ByteSet(f), x \in W PROVE x \in O
    <3>1. PICK k \in DOMAIN f : x \in {k} \X (1..f[k].size)
      BY <1>7
    <3>2. k = q
      BY <1>10, <2>1, <3>1
    <3> QED
      BY <1>5, <1>9, <3>1, <3>2
  <2> QED
    BY <2>1
<1>14. IsFiniteSet(O) /\ Cardinality(O) = old /\ IsFiniteSet(W) /\ Cardinality(W) = size
  <2>1. size \in Nat
    BY ConnectionAssumption
  <2> QED
    BY <1>6, <1>9, <1>10, <2>1, BytesOfOne
<1>15. /\ IsFiniteSet(ByteSet(f) \ O)
       /\ Cardinality(ByteSet(f) \ O) = Cardinality(ByteSet(f)) - old
  <2>1. ByteSet(f) \cap O = O
    BY <1>11
  <2>2. /\ IsFiniteSet(ByteSet(f) \ O)
        /\ Cardinality(ByteSet(f) \ O) = Cardinality(ByteSet(f)) - Cardinality(ByteSet(f) \cap O)
    BY <1>3, FS_Difference
  <2> QED
    BY <1>14, <2>1, <2>2
<1>16. /\ IsFiniteSet(ByteSet(g))
       /\ Cardinality(ByteSet(g)) = Cardinality(ByteSet(f) \ O) + size - Cardinality({})
  BY <1>12, <1>13, <1>14, <1>15, FS_Union
<1>17. Cardinality({}) = 0 /\ Cardinality(ByteSet(f)) \in Nat
  BY <1>3, FS_EmptySet, FS_CardinalityType
<1>18. Cardinality(ByteSet(g)) = b.buffered_bytes + size - old
  <2>1. b.buffered_bytes \in Nat /\ Cardinality(ByteSet(f) \ O) = b.buffered_bytes - old
    BY <1>3, <1>15, <1>17
  <2>2. Cardinality(ByteSet(g)) = (b.buffered_bytes - old) + size - 0
    BY <1>16, <1>17, <2>1
  <2> QED
    BY <1>6, <2>1, <2>2
<1>19. old <= b.buffered_bytes /\ b.buffered_bytes \in Nat
  BY <1>3, <1>6, <1>15, <1>17, FS_CardinalityType
<1>20. old = Replaced(b, q)
  BY <1>1, <1>5 DEF Replaced
<1>21. Insert(b, q, m, size).fragments = g
       /\ Insert(b, q, m, size).buffered_bytes
            = (b.buffered_bytes + ((size - Replaced(b, q)) % UsizeSpan)) % UsizeSpan
  BY <1>1, <1>2 DEF Insert
<1>22. /\ (b.buffered_bytes + ((size - old) % UsizeSpan)) % UsizeSpan = b.buffered_bytes + size - old
       /\ (b.buffered_bytes + size - old) % UsizeSpan = b.buffered_bytes + size - old
  BY <1>6, <1>19, WrapsBack
<1>23. Insert(b, q, m, size).buffered_bytes = b.buffered_bytes + size - old
       /\ (b.buffered_bytes + size - Replaced(b, q)) % UsizeSpan = b.buffered_bytes + size - old
  BY <1>20, <1>21, <1>22
<1>24. DOMAIN g \subseteq Seqs /\ \A k \in DOMAIN g : g[k].size \in Nat
  BY <1>3, <1>4
<1> QED
  BY <1>16, <1>18, <1>21, <1>23, <1>24 DEF Counted

\* Discarding late streams opens none.
LEMMA PruneShrinks ==
  ASSUME BoundInv, NEW r, r = prune_stale_reassembly
  PROVE  /\ r = [s \in Streams |-> r[s]] /\ \A s \in Streams : r[s] \in {NoBuf, reassembly[s]}
         /\ IsFiniteSet(Open(r)) /\ Cardinality(Open(r)) \in Nat /\ Cardinality(Open(r)) <= MaxStreams
         /\ \A s \in Streams : r[s].buffered_bytes <= MaxPayload /\ Counted(r[s])
<1>0. MaxStreams \in Nat /\ MaxPayload \in Nat
  BY ConnectionAssumption
<1>1. r = [s \in Streams |-> r[s]] /\ \A s \in Streams : r[s] \in {NoBuf, reassembly[s]}
  BY DEF prune_stale_reassembly
<1>2. Open(r) \in SUBSET Open(reassembly)
  BY <1>1 DEF Open
<1>3. /\ IsFiniteSet(Open(r)) /\ Cardinality(Open(r)) \in Nat /\ Cardinality(Open(reassembly)) \in Nat
      /\ Cardinality(Open(r)) <= Cardinality(Open(reassembly))
  BY <1>2, FS_Subset, FS_CardinalityType DEF BoundInv
<1>4. Cardinality(Open(r)) <= MaxStreams
  BY <1>0, <1>3 DEF BoundInv, ReassemblyBounded
<1>5. \A s \in Streams : r[s].buffered_bytes <= MaxPayload
  BY <1>0, <1>1, NoBufEmpty DEF BoundInv, ReassemblyBounded
<1>6. \A s \in Streams : Counted(r[s])
  BY <1>1, NoBufCounted DEF BoundInv
<1> QED
  BY <1>1, <1>3, <1>4, <1>5, <1>6

\* Every step keeps to the limits.
LEMMA BoundStep == BoundInv /\ [Next]_vars => BoundInv'
<1> SUFFICES ASSUME BoundInv, [Next]_vars PROVE BoundInv'
  OBVIOUS
<1>0. MaxStreams \in Nat /\ MaxPayload \in Nat /\ Sizes \subseteq 0..MaxPayload
  BY ConnectionAssumption
<1>u. ASSUME UNCHANGED <<ids, reassembly>> PROVE BoundInv'
  BY <1>u DEF BoundInv, ReassemblyBounded, Open
<1>1. ASSUME NEW m \in Messages, NEW q \in Seqs, NEW size \in Sizes, Fragment(m, q, size)
      PROVE  BoundInv'
  <2>0. ids' = ids
    BY <1>1 DEF Fragment
  <2>1. PICK s \in Streams : s = ids[m]
    BY DEF BoundInv
  <2>2. PICK r : r = prune_stale_reassembly
    OBVIOUS
  <2>3. PICK buf : buf = Insert(r[s], q, m, size)
    OBVIOUS
  <2>4. CASE UNCHANGED reassembly
    BY <1>u, <2>0, <2>4
  <2>5. CASE ~UNCHANGED reassembly
    <3>1. PICK b \in {NoBuf, buf} : reassembly' = [r EXCEPT ![s] = b] /\ Accept(r, s, q, size)
      BY <1>1, <2>1, <2>2, <2>3, <2>5 DEF Fragment
    <3>2. /\ r = [t \in Streams |-> r[t]]
          /\ IsFiniteSet(Open(r)) /\ Cardinality(Open(r)) \in Nat /\ Cardinality(Open(r)) <= MaxStreams
          /\ \A t \in Streams : r[t].buffered_bytes <= MaxPayload /\ Counted(r[t])
      BY <2>2, PruneShrinks
    <3>b. Counted(buf) /\ buf.buffered_bytes <= MaxPayload
      <4>1. /\ Counted(buf)
            /\ buf.buffered_bytes = (r[s].buffered_bytes + size - Replaced(r[s], q)) % UsizeSpan
        BY <1>0, <2>3, <3>2, InsertCounts
      <4> QED
        BY <3>1, <4>1 DEF Accept
    <3>3. /\ reassembly' = [t \in Streams |-> reassembly'[t]] /\ reassembly'[s] = b
          /\ \A t \in Streams : t # s => reassembly'[t] = r[t]
      BY <3>1, <3>2
    <3>4. \A t \in Streams : reassembly'[t].buffered_bytes <= MaxPayload /\ Counted(reassembly'[t])
      <4>1. b.buffered_bytes <= MaxPayload /\ Counted(b)
        BY <1>0, <3>1, <3>b, NoBufEmpty, NoBufCounted
      <4> QED
        BY <3>2, <3>3, <4>1
    <3>5. Open(reassembly') \in SUBSET (Open(r) \cup {s})
      BY <3>3 DEF Open
    <3>6. IsFiniteSet(Open(r) \cup {s}) /\ Cardinality(Open(r) \cup {s}) \in Nat
          /\ Cardinality(Open(r) \cup {s}) = IF s \in Open(r) THEN Cardinality(Open(r))
                                             ELSE Cardinality(Open(r)) + 1
      BY <3>2, FS_AddElement, FS_CardinalityType
    <3>7. Cardinality(Open(r) \cup {s}) <= MaxStreams
      <4>1. s \in Open(r) \/ Cardinality(Open(r)) < MaxStreams
        BY <3>1 DEF Accept, Open
      <4> QED
        BY <1>0, <3>2, <3>6, <4>1
    <3>8. /\ IsFiniteSet(Open(reassembly')) /\ Cardinality(Open(reassembly')) \in Nat
          /\ Cardinality(Open(reassembly')) <= Cardinality(Open(r) \cup {s})
      BY <3>5, <3>6, FS_Subset, FS_CardinalityType
    <3>9. Cardinality(Open(reassembly')) <= MaxStreams
      BY <1>0, <3>6, <3>7, <3>8
    <3> QED
      BY <2>0, <3>3, <3>4, <3>8, <3>9 DEF BoundInv, ReassemblyBounded
  <2> QED
    BY <2>4, <2>5
<1>2. CASE PlainFrame
  <2>1. UNCHANGED ids /\ reassembly' = prune_stale_reassembly
    BY <1>2 DEF PlainFrame
  <2>2. PICK r : r = prune_stale_reassembly
    OBVIOUS
  <2>3. /\ reassembly' = [s \in Streams |-> reassembly'[s]]
        /\ IsFiniteSet(Open(reassembly')) /\ Cardinality(Open(reassembly')) <= MaxStreams
        /\ \A s \in Streams : reassembly'[s].buffered_bytes <= MaxPayload /\ Counted(reassembly'[s])
    <3>1. /\ r = [s \in Streams |-> r[s]]
          /\ IsFiniteSet(Open(r)) /\ Cardinality(Open(r)) <= MaxStreams
          /\ \A s \in Streams : r[s].buffered_bytes <= MaxPayload /\ Counted(r[s])
      BY <2>2, PruneShrinks
    <3> QED
      BY <2>1, <2>2, <3>1
  <2>4. ids' \in [Messages -> Streams]
    BY <2>1 DEF BoundInv
  <2> QED
    BY <2>3, <2>4 DEF BoundInv, ReassemblyBounded
<1>3. CASE UNCHANGED <<ids, reassembly>>
  BY <1>3, <1>u
<1> QED
  BY <1>1, <1>2, <1>3
  DEF Next, BadFrame, End, Underflow, Reader, Dispatch, Eof, Notice, StopWriter, JoinWriter, FreeSlot,
      FragmentTimeout, Writer, WriteOne, WriteStop, WriteDone, Router, RouterTakes, RouterEnablesMac,
      OtherSends, PeerChanges, vars, reader

\* Nothing is buffered at first.
LEMMA BoundInit == Init => BoundInv
<1> SUFFICES ASSUME Init PROVE BoundInv
  OBVIOUS
<1>1. Open(reassembly) = {}
  BY DEF Init, Open
<1>2. IsFiniteSet({}) /\ Cardinality({}) = 0
  BY FS_EmptySet
<1>3. MaxStreams \in Nat /\ MaxPayload \in Nat /\ ids \in [Messages -> Streams]
  BY ConnectionAssumption DEF Init
<1>4. reassembly = [s \in Streams |-> reassembly[s]] /\ \A s \in Streams : reassembly[s] = NoBuf
  BY DEF Init
<1>5. ReassemblyBounded
  BY <1>1, <1>2, <1>3, <1>4, NoBufEmpty DEF ReassemblyBounded
<1> QED
  BY <1>1, <1>2, <1>3, <1>4, <1>5, NoBufCounted DEF BoundInv

\* A peer can make the kernel keep max_reassembly_streams buffers, none of more
\* than MAX_PAYLOAD_SIZE, whatever it sends (connection.rs, the caps of the
\* fragment arm), for every number of streams and messages.
THEOREM BuffersBounded == Spec => []ReassemblyBounded
<1>1. BoundInv => ReassemblyBounded
  BY DEF BoundInv
<1> QED
  BY <1>1, BoundInit, BoundStep, PTL DEF Spec

-----------------------------------------------------------------------------
(* Types.                                                                  *)

TypeInv == TypeOK /\ write_rx \in Seq({"frame", "enable_mac"})

\* The channel of the writer keeps its capacity.
LEMMA Queued ==
  ASSUME NEW q \in Seq({"frame", "enable_mac"}), NEW x \in {"frame", "enable_mac"}
  PROVE  /\ Append(q, x) \in Seq({"frame", "enable_mac"}) /\ Len(Append(q, x)) = Len(q) + 1
         /\ Len(q) \in Nat
         /\ q # <<>> => Tail(q) \in Seq({"frame", "enable_mac"}) /\ Len(Tail(q)) = Len(q) - 1
         /\ <<>> \in Seq({"frame", "enable_mac"}) /\ Len(<<>>) = 0
  OBVIOUS

\* A step keeps the types if it keeps the channel within its capacity and the
\* router's queue within its own; the buffers are counted.
LEMMA TypeParts ==
  ASSUME /\ read' \in {"read", "dispatch", "notice", "stop", "join", "signalled", "done", "panicked"}
         /\ write' \in {"run", "flush", "done"}
         /\ write_rx' \in Seq({"frame", "enable_mac"}) /\ Len(write_rx') <= ChanCap
         /\ incoming' \in 0..RouterCap
         /\ BoundInv'
  PROVE  TypeInv'
  BY DEF TypeInv, TypeOK, BoundInv, Counted, Bytes

\* Every step keeps the types and the count.
LEMMA TypeStep == TypeInv /\ BoundInv' /\ [Next]_vars => TypeInv'
<1> SUFFICES ASSUME TypeInv, BoundInv', [Next]_vars PROVE TypeInv'
  OBVIOUS
<1>0. /\ read \in {"read", "dispatch", "notice", "stop", "join", "signalled", "done", "panicked"}
      /\ write \in {"run", "flush", "done"}
      /\ write_rx \in Seq({"frame", "enable_mac"}) /\ Len(write_rx) <= ChanCap /\ Len(write_rx) \in Nat
      /\ incoming \in 0..RouterCap
  BY DEF TypeInv, TypeOK
<1>c. ChanCap \in Nat \ {0} /\ RouterCap \in Nat \ {0}
  BY ConnectionAssumption
<1>a. ASSUME NEW x \in {"frame", "enable_mac"}, Len(write_rx) < ChanCap
      PROVE  Append(write_rx, x) \in Seq({"frame", "enable_mac"}) /\ Len(Append(write_rx, x)) <= ChanCap
  <2>1. Append(write_rx, x) \in Seq({"frame", "enable_mac"}) /\ Len(Append(write_rx, x)) = Len(write_rx) + 1
    BY <1>0, Queued
  <2> QED
    BY <1>0, <1>a, <1>c, <2>1
<1>1. ASSUME UNCHANGED <<write, write_rx, incoming>>,
             read' \in {read, "read", "dispatch", "notice", "stop", "join", "signalled", "done", "panicked"}
      PROVE  TypeInv'
  BY <1>0, <1>1, TypeParts
<1>2. ASSUME NEW m \in Messages, NEW q \in Seqs, NEW size \in Sizes,
             Fragment(m, q, size) \/ Underflow(m, q, size)
      PROVE  TypeInv'
  BY <1>1, <1>2 DEF Fragment, Underflow, writer
<1>3. CASE PlainFrame
  BY <1>1, <1>3 DEF PlainFrame, writer
<1>4. CASE BadFrame \/ Eof \/ StopWriter \/ JoinWriter \/ FreeSlot
  BY <1>1, <1>4 DEF BadFrame, End, Eof, StopWriter, JoinWriter, FreeSlot, writer
<1>5. CASE PeerChanges \/ UNCHANGED vars \/ \E s \in Streams : FragmentTimeout(s)
  BY <1>1, <1>5 DEF PeerChanges, FragmentTimeout, vars, reader, writer
<1>6. CASE Dispatch
  <2>1. incoming' = incoming + 1 /\ incoming < RouterCap /\ read' = "read"
        /\ UNCHANGED <<write, write_rx>>
    BY <1>6 DEF Dispatch, writer
  <2>2. incoming' \in 0..RouterCap
    BY <1>0, <1>c, <2>1
  <2> QED
    BY <1>0, <2>1, <2>2, TypeParts
<1>7. CASE Notice
  <2>1. UNCHANGED <<write, incoming>> /\ read' = "stop"
    BY <1>7 DEF Notice, End
  <2>2. UNCHANGED write_rx \/ (Len(write_rx) < ChanCap /\ write_rx' = Append(write_rx, "frame"))
    BY <1>7 DEF Notice
  <2>3. write_rx' \in Seq({"frame", "enable_mac"}) /\ Len(write_rx') <= ChanCap
    BY <1>0, <1>a, <2>2
  <2> QED
    BY <1>0, <2>1, <2>3, TypeParts
<1>8. CASE Writer
  <2>1. UNCHANGED <<read, incoming>> /\ write' \in {write, "flush", "done"}
    BY <1>8 DEF Writer, WriteOne, WriteStop, WriteDone, reader
  <2>2. write_rx' = write_rx \/ write_rx' = <<>> \/ (write_rx # <<>> /\ write_rx' = Tail(write_rx))
    BY <1>8 DEF Writer, WriteOne, WriteStop, WriteDone
  <2>3. write_rx' \in Seq({"frame", "enable_mac"}) /\ Len(write_rx') <= ChanCap
    <3>1. CASE write_rx' = write_rx
      BY <1>0, <3>1
    <3>2. CASE write_rx' = <<>>
      <4>1. <<>> \in Seq({"frame", "enable_mac"}) /\ Len(<<>>) = 0
        BY Queued
      <4> QED
        BY <1>c, <3>2, <4>1
    <3>3. CASE write_rx # <<>> /\ write_rx' = Tail(write_rx)
      <4>1. Tail(write_rx) \in Seq({"frame", "enable_mac"}) /\ Len(Tail(write_rx)) = Len(write_rx) - 1
        BY <1>0, <3>3, Queued
      <4> QED
        BY <1>0, <1>c, <3>3, <4>1
    <3> QED
      BY <2>2, <3>1, <3>2, <3>3
  <2> QED
    BY <1>0, <2>1, <2>3, TypeParts
<1>9. ASSUME NEW registers \in BOOLEAN, RouterTakes(registers) PROVE TypeInv'
  <2>1. UNCHANGED <<read, write>> /\ incoming > 0 /\ incoming' = incoming - 1
    BY <1>9 DEF RouterTakes, reader
  <2>2. UNCHANGED write_rx \/ (Len(write_rx) < ChanCap /\ write_rx' = Append(write_rx, "frame"))
    BY <1>9 DEF RouterTakes, CanSend
  <2>3. write_rx' \in Seq({"frame", "enable_mac"}) /\ Len(write_rx') <= ChanCap
    BY <1>0, <1>a, <2>2
  <2>4. incoming' \in 0..RouterCap
    BY <1>0, <1>c, <2>1
  <2> QED
    BY <1>0, <2>1, <2>3, <2>4, TypeParts
<1>10. CASE RouterEnablesMac \/ OtherSends
  <2>1. UNCHANGED <<read, write, incoming>>
    BY <1>10 DEF RouterEnablesMac, OtherSends, reader
  <2>2. \/ UNCHANGED write_rx
        \/ Len(write_rx) < ChanCap /\ \E x \in {"frame", "enable_mac"} : write_rx' = Append(write_rx, x)
    BY <1>10 DEF RouterEnablesMac, OtherSends, CanSend
  <2>3. write_rx' \in Seq({"frame", "enable_mac"}) /\ Len(write_rx') <= ChanCap
    BY <1>0, <1>a, <2>2
  <2> QED
    BY <1>0, <2>1, <2>3, TypeParts
<1> QED
  BY <1>2, <1>3, <1>4, <1>5, <1>6, <1>7, <1>8, <1>9, <1>10 DEF Next, Reader, Router

\* Types; and a stream's buffered_bytes are the bytes it holds, however often
\* fragments are sent again, larger or smaller, and streams discarded, though
\* the usize subtraction wraps (connection.rs, the fragment
\* arm's accounting), with the router's queue and the write channel within
\* their capacities.
THEOREM TypeCorrect == Spec => []TypeOK
<1>1. Init => TypeInv
  <2> SUFFICES ASSUME Init PROVE TypeInv
    OBVIOUS
  <2>1. RouterCap \in Nat /\ ChanCap \in Nat
    BY ConnectionAssumption
  <2>2. \A s \in Streams : Counted(reassembly[s])
    BY NoBufCounted DEF Init
  <2>3. write_rx \in Seq({"frame", "enable_mac"}) /\ Len(write_rx) <= ChanCap
    BY <2>1 DEF Init
  <2>4. read = "read" /\ write = "run" /\ incoming \in 0..RouterCap
    BY <2>1 DEF Init
  <2> QED
    BY <2>2, <2>3, <2>4 DEF TypeInv, TypeOK, Counted, Bytes
<1>2. TypeInv => TypeOK
  BY DEF TypeInv
<1> QED
  BY <1>1, <1>2, BoundInit, BoundStep, TypeStep, PTL DEF Spec
=============================================================================
