----------------------------- MODULE Connection -----------------------------
(***************************************************************************)
(* One connection on the kernel's socket (ipc/connection.rs, ipc/server.rs)*)
(* with its read loop, which puts fragmented messages together, its write  *)
(* loop, which arms the frame MAC, and the router on the far side of both. *)
(* A frame is sent and read in one step: the socket keeps their order and  *)
(* nothing else looks at it.                                               *)
(***************************************************************************)
EXTENDS Integers, Sequences, FiniteSets

CONSTANTS
    Streams,   \* stream ids
    Messages,  \* fragmented messages the peer sends
    StreamIds, \* the ways messages may be given stream ids
    total,     \* fragments of a message
    MaxStreams,\* max_reassembly_streams
    MaxPayload,\* MAX_PAYLOAD_SIZE
    Sizes,     \* sizes of a fragment's data, an empty one included
    UsizeSpan, \* 2^w for the width w of usize
    ChanCap,   \* capacity of the write channel
    RouterCap, \* capacity of the router's queue
    MaxFrames, \* bound: frames the peer sends
    MaxSends   \* bound: frames other tasks send to the peer

ASSUME ConnectionAssumption ==
    /\ StreamIds \subseteq [Messages -> Streams]
    /\ {MaxStreams, MaxPayload, MaxFrames, MaxSends} \subseteq Nat
    /\ {ChanCap, RouterCap, total} \subseteq Nat \ {0}
    /\ Sizes \subseteq 0..MaxPayload
    /\ UsizeSpan \in Nat /\ 2 * MaxPayload < UsizeSpan

VARIABLES
    peer,         \* "on", "stalled" (it reads nothing) or "gone"
    ids,          \* message -> its stream id
    sent,         \* message -> its fragments that were sent
    read,         \* where ConnectionHandler::run is
    reassembly,   \* stream -> what is buffered, NoBuf for nothing
    late,         \* streams first seen more than fragment_timeout ago
    session_key,  \* inbound frames must carry a tag
    incoming,     \* length of the router's queue
    write_rx,     \* the write channel
    write,        \* the write loop: "run", "flush" or "done"
    write_stop,   \* the read side has ended
    router,       \* "idle", "mac" while it waits to send EnableMac, "done" after
    open_conns,   \* the connection holds one of the server's slots
    frames,       \* number of frames sent by the peer
    sends,        \* number of frames sent to it by other tasks
    mixed,        \* history: streams discarded unfinished, or used out of order
    whole         \* history: messages put together, each as its fragments' owners

reader == <<read, reassembly, late, mixed, whole>>
writer == <<write_rx, write, session_key>>
vars == <<peer, ids, sent, reader, writer, incoming, write_stop, router, open_conns, frames, sends>>

Seqs == 0..(total - 1)
NoBuf == [fragments |-> <<>>, buffered_bytes |-> 0]

Init ==
    /\ peer = "on"
    /\ ids \in StreamIds
    /\ sent = [m \in Messages |-> {}]
    /\ read = "read"
    /\ reassembly = [s \in Streams |-> NoBuf]
    /\ late = {} /\ session_key = FALSE
    /\ incoming = 0
    /\ write_rx = <<>> /\ write = "run" /\ write_stop = FALSE
    /\ router = "idle"
    /\ open_conns = 1
    /\ frames = 0 /\ sends = 0
    /\ mixed = {} /\ whole = {}

\* Streams with a buffer.
Open(r) == {s \in Streams : r[s] # NoBuf}

\* The bytes that are there, each by its fragment and its place in it.
ByteSet(fragments) == UNION {{q} \X (1..fragments[q].size) : q \in DOMAIN fragments}
Bytes(fragments) == Cardinality(ByteSet(fragments))

-----------------------------------------------------------------------------
(* The read loop.                                                          *)

PeerSends ==
    /\ read = "read" /\ peer # "gone" /\ frames < MaxFrames
    /\ frames' = frames + 1

\* The loop ends; the reassembly buffers go with it.
End == read' = "stop" /\ UNCHANGED <<reassembly, late, mixed, whole>>

\* A frame without a valid tag on a secured connection, with a bad checksum or
\* magic, oversized or unfinished, or a fragment whose header is bad or whose
\* total contradicts its stream's: only a bad tag is answered.
BadFrame ==
    /\ PeerSends
    /\ \/ session_key /\ read' = "notice" /\ UNCHANGED <<reassembly, late, mixed, whole>>
       \/ End
    /\ UNCHANGED <<peer, ids, sent, writer, incoming, write_stop, router, open_conns, sends>>

\* Every frame first discards the streams that are late.
prune_stale_reassembly ==
    [s \in Streams |-> IF s \in late THEN NoBuf ELSE reassembly[s]]

PlainFrame ==
    /\ PeerSends
    /\ reassembly' = prune_stale_reassembly
    /\ mixed' = mixed \cup late
    /\ late' = {} /\ read' = "dispatch"
    /\ UNCHANGED <<peer, ids, sent, writer, incoming, write_stop, router, open_conns, sends, whole>>

With(fragments, q, f) ==
    [k \in DOMAIN fragments \cup {q} |-> IF k = q THEN f ELSE fragments[k]]

\* replaced_len: a fragment that is sent again takes the place of the first.
Replaced(buf, q) == IF q \in DOMAIN buf.fragments THEN buf.fragments[q].size ELSE 0

Insert_adds(buf, q, m, size) ==
    [fragments |-> With(buf.fragments, q, [msg |-> m, size |-> size]),
     buffered_bytes |-> (buf.buffered_bytes + size) % UsizeSpan]

\* The subtraction comes first, in usize: a smaller fragment wraps it, and the
\* addition wraps back. (With overflow checks it panics: see Underflow.)
Insert(buf, q, m, size) ==
    [fragments |-> With(buf.fragments, q, [msg |-> m, size |-> size]),
     buffered_bytes |-> (buf.buffered_bytes + ((size - Replaced(buf, q)) % UsizeSpan)) % UsizeSpan]

Accept_one_more(r, s, q, size) ==
    /\ r[s] # NoBuf \/ Cardinality(Open(r)) <= MaxStreams
    /\ (r[s].buffered_bytes + size - Replaced(r[s], q)) % UsizeSpan <= MaxPayload

\* A stream beyond the cap, or more bytes than a frame may have, end it all.
Accept(r, s, q, size) ==
    /\ r[s] # NoBuf \/ Cardinality(Open(r)) < MaxStreams
    /\ (r[s].buffered_bytes + size - Replaced(r[s], q)) % UsizeSpan <= MaxPayload

is_complete_early(buf) == Cardinality(DOMAIN buf.fragments) + 1 >= total

is_complete(buf) == Cardinality(DOMAIN buf.fragments) = total

\* Nothing keeps a peer from sending a fragment of a message it has already sent
\* all of, or of one while another is under way on the same stream. The read
\* loop cannot tell: a fragment does not say which message it is of.
InOrder(m) ==
    /\ sent[m] # Seqs
    /\ \A n \in Messages \ {m} : ids[n] = ids[m] => sent[n] \in {{}, Seqs}

SendsFragment(m, q) ==
    /\ PeerSends
    /\ sent' = [sent EXCEPT ![m] = @ \cup {q}]
    /\ mixed' = mixed \cup late \cup IF InOrder(m) THEN {} ELSE {ids[m]}

Fragment(m, q, size) ==
    /\ SendsFragment(m, q)
    /\ LET s == ids[m]
           r == prune_stale_reassembly
           buf == Insert(r[s], q, m, size)
       IN
       IF ~Accept(r, s, q, size) THEN read' = "stop" /\ UNCHANGED <<reassembly, late, whole>>
       ELSE /\ reassembly' = [r EXCEPT ![s] = IF is_complete(buf) THEN NoBuf ELSE buf]
            /\ late' = {}
            /\ read' = IF is_complete(buf) THEN "dispatch" ELSE "read"
            /\ whole' = IF is_complete(buf)
                        THEN whole \cup {[k \in DOMAIN buf.fragments |-> buf.fragments[k].msg]}
                        ELSE whole
    /\ UNCHANGED <<peer, ids, writer, incoming, write_stop, router, open_conns, sends>>

\* A build with overflow checks panics at a fragment that is smaller than the one
\* it replaces. The task unwinds: write_stop is dropped, which stops the write
\* loop too, and nobody signals the disconnect or gives the slot back.
Underflow(m, q, size) ==
    /\ SendsFragment(m, q)
    /\ LET r == prune_stale_reassembly IN
       Accept(r, ids[m], q, size) /\ size < Replaced(r[ids[m]], q)
    /\ read' = "panicked"
    /\ write_stop' = TRUE
    /\ UNCHANGED <<peer, ids, reassembly, late, whole, writer, incoming, router, open_conns, sends>>

FragmentTimeout(s) ==
    /\ reassembly[s] # NoBuf /\ s \notin late
    /\ late' = late \cup {s}
    /\ UNCHANGED <<peer, ids, sent, read, reassembly, mixed, whole, writer, incoming, write_stop,
                   router, open_conns, frames, sends>>

\* incoming_tx.send waits for room.
Dispatch ==
    /\ read = "dispatch" /\ incoming < RouterCap
    /\ incoming' = incoming + 1
    /\ read' = "read"
    /\ UNCHANGED <<peer, ids, sent, reassembly, late, mixed, whole, writer, write_stop, router,
                   open_conns, frames, sends>>

Eof ==
    /\ read = "read" /\ peer = "gone"
    /\ End
    /\ UNCHANGED <<peer, ids, sent, writer, incoming, write_stop, router, open_conns, frames, sends>>

\* send_error waits for room too; a closed channel ends the wait.
Notice ==
    /\ read = "notice"
    /\ IF write = "done" THEN UNCHANGED write_rx
       ELSE Len(write_rx) < ChanCap /\ write_rx' = Append(write_rx, "frame")
    /\ End
    /\ UNCHANGED <<peer, ids, sent, write, session_key, incoming, write_stop, router, open_conns,
                   frames, sends>>

StopWriter_forgotten ==
    /\ read = "stop"
    /\ read' = "join"
    /\ UNCHANGED <<peer, ids, sent, reassembly, late, mixed, whole, writer, incoming, write_stop,
                   router, open_conns, frames, sends>>

\* The write loop is stopped and waited for, and then the disconnect signalled
\* and the slot given back.
StopWriter ==
    /\ read = "stop"
    /\ write_stop' = TRUE
    /\ read' = "join"
    /\ UNCHANGED <<peer, ids, sent, reassembly, late, mixed, whole, writer, incoming, router,
                   open_conns, frames, sends>>

JoinWriter ==
    /\ read = "join" /\ write = "done"
    /\ read' = "signalled"
    /\ UNCHANGED <<peer, ids, sent, reassembly, late, mixed, whole, writer, incoming, write_stop,
                   router, open_conns, frames, sends>>

FreeSlot ==
    /\ read = "signalled"
    /\ read' = "done"
    /\ open_conns' = 0
    /\ UNCHANGED <<peer, ids, sent, reassembly, late, mixed, whole, writer, incoming, write_stop,
                   router, frames, sends>>

-----------------------------------------------------------------------------
(* The write loop and those who send.                                      *)

\* write_one: a stalled peer blocks it, a peer that is gone ends it.
WriteOne ==
    /\ write \in {"run", "flush"} /\ write_rx # <<>>
    /\ IF Head(write_rx) = "enable_mac"
       THEN session_key' = TRUE /\ write_rx' = Tail(write_rx) /\ UNCHANGED write
       ELSE /\ peer # "stalled"
            /\ IF peer = "gone" THEN write' = "done" /\ write_rx' = <<>>
               ELSE write_rx' = Tail(write_rx) /\ UNCHANGED write
            /\ UNCHANGED session_key
    /\ UNCHANGED <<peer, ids, sent, reader, incoming, write_stop, router, open_conns, frames, sends>>

\* The select is biased: stop is only looked at when nothing is queued. The
\* channel is closed, and what came in meanwhile still goes out.
WriteStop ==
    /\ write = "run" /\ write_stop /\ write_rx = <<>>
    /\ write' = "flush"
    /\ UNCHANGED <<peer, ids, sent, reader, write_rx, session_key, incoming, write_stop, router,
                   open_conns, frames, sends>>

WriteDone ==
    /\ write = "flush" /\ write_rx = <<>>
    /\ write' = "done"
    /\ UNCHANGED <<peer, ids, sent, reader, write_rx, session_key, incoming, write_stop, router,
                   open_conns, frames, sends>>

CanSend == write = "run" /\ Len(write_rx) < ChanCap

\* The router handles a message; the first may be the registration, whose ack
\* is tried once and whose EnableMac is waited for.
RouterTakes(registers) ==
    /\ incoming > 0 /\ router # "mac"
    /\ incoming' = incoming - 1
    /\ registers => router = "idle"
    /\ write_rx' = IF registers /\ CanSend THEN Append(write_rx, "frame") ELSE write_rx
    /\ router' = IF registers THEN "mac" ELSE router
    /\ UNCHANGED <<peer, ids, sent, reader, write, session_key, write_stop, open_conns, frames, sends>>

RouterEnablesMac ==
    /\ router = "mac"
    /\ CanSend \/ write # "run"
    /\ write_rx' = IF CanSend THEN Append(write_rx, "enable_mac") ELSE write_rx
    /\ router' = "done"
    /\ UNCHANGED <<peer, ids, sent, reader, write, session_key, incoming, write_stop, open_conns,
                   frames, sends>>

\* Any task that has the registry's clone of the sender: one try_send.
OtherSends ==
    /\ CanSend /\ sends < MaxSends
    /\ sends' = sends + 1
    /\ write_rx' = Append(write_rx, "frame")
    /\ UNCHANGED <<peer, ids, sent, reader, write, session_key, incoming, write_stop, router,
                   open_conns, frames>>

PeerChanges ==
    /\ \/ peer = "on" /\ peer' \in {"stalled", "gone"}
       \/ peer = "stalled" /\ peer' \in {"on", "gone"}
    /\ UNCHANGED <<ids, sent, reader, writer, incoming, write_stop, router, open_conns, frames, sends>>

Reader == Dispatch \/ Eof \/ Notice \/ StopWriter \/ JoinWriter \/ FreeSlot
Writer == WriteOne \/ WriteStop \/ WriteDone
Router == RouterTakes(TRUE) \/ RouterTakes(FALSE) \/ RouterEnablesMac

Next ==
    \/ BadFrame \/ PlainFrame
    \/ \E m \in Messages, q \in Seqs, size \in Sizes :
         Fragment(m, q, size) \/ Underflow(m, q, size)
    \/ \E s \in Streams : FragmentTimeout(s)
    \/ Reader \/ Writer \/ Router \/ OtherSends \/ PeerChanges

\* Tasks run; the peer does what it likes.
Fairness == WF_vars(Reader) /\ WF_vars(Writer) /\ WF_vars(Router)

Spec == Init /\ [][Next]_vars /\ Fairness

-----------------------------------------------------------------------------
\* Types; buffered_bytes are the bytes that are really there, however often a
\* fragment is sent again, larger or smaller, and whatever the subtraction of
\* usize makes of it meanwhile.
TypeOK ==
    /\ read \in {"read", "dispatch", "notice", "stop", "join", "signalled", "done", "panicked"}
    /\ write \in {"run", "flush", "done"} /\ Len(write_rx) <= ChanCap
    /\ incoming \in 0..RouterCap
    /\ \A s \in Streams : /\ reassembly[s].buffered_bytes = Bytes(reassembly[s].fragments)
                          /\ DOMAIN reassembly[s].fragments \subseteq Seqs

\* What a peer can make the kernel keep, whatever it sends and leaves out:
\* max_reassembly_streams buffers, none of more than MAX_PAYLOAD_SIZE.
ReassemblyBounded ==
    /\ Cardinality(Open(reassembly)) <= MaxStreams
    /\ \A s \in Streams : reassembly[s].buffered_bytes <= MaxPayload

\* Whatever order the fragments come in, repeated and interleaved with those of
\* other streams, what is put together has every sequence number once and comes
\* from one stream. It is one message of that stream, unless a timeout has
\* discarded half of one there, or the peer has repeated a fragment there after
\* its message was complete or begun a message before the last one was: then
\* the code joins fragments of two messages, for it cannot tell them apart.
WholeMessages ==
    \A w \in whole :
      /\ DOMAIN w = Seqs
      /\ \E s \in Streams :
           /\ \A k \in Seqs : w[k] \in Messages /\ ids[w[k]] = s
           /\ s \in mixed \/ \E m \in Messages : \A k \in Seqs : w[k] = m

\* "By the time disconnect is signalled the write channel is closed": a peer
\* that is gone, in whatever state the loops, the channel and the router are,
\* has its channel closed and its slot given back. The slot is lost only where
\* the read loop has panicked.
GoneIsCleanedUp ==
    (peer = "gone") ~> (write = "done" /\ (open_conns = 0 \/ read = "panicked"))
=============================================================================
