--------------------------- MODULE RemoteOutbound ---------------------------
(***************************************************************************)
(* What the app server sends to the remote-control clients                 *)
(* (app-server-transport/src/transport/remote_control/websocket.rs): the   *)
(* writer task of a websocket, the sequence ids of the streams, the buffer *)
(* of envelopes that were not acknowledged yet, and its replay on the next *)
(* websocket.                                                              *)
(*                                                                         *)
(* A message is cut into `n' segments; n = 0 is a message over the size    *)
(* limit, for which split_server_envelope_for_transport returns nothing.   *)
(* The client accepts an envelope beyond the last one it has accepted and  *)
(* acknowledges the last one after each envelope it gets.                  *)
(***************************************************************************)
EXTENDS Naturals, Sequences, FiniteSets

CONSTANTS
    Streams,     \* (client, stream) keys
    Sizes,       \* how many segments a message may have
    Capacity,    \* CHANNEL_CAPACITY
    MaxMessages, \* bound on the messages of the app server
    MaxDrops     \* bound on lost websockets

ASSUME OutboundAssumption ==
    /\ IsFiniteSet(Streams)
    /\ Sizes \subseteq Nat /\ \E n \in Sizes : \A m \in Sizes : m <= n
    /\ Capacity \in Nat \ {0} /\ MaxMessages \in Nat /\ MaxDrops \in Nat

VARIABLES
    queue,    \* server_event_rx: messages of the clients' outbound tasks
    count,    \* messages queued so far
    nextSeq,  \* next_seq_id_by_stream
    buffer,   \* BoundedOutboundBuffer.buffer_by_stream
    used,     \* BoundedOutboundBuffer.used_tx
    writer,   \* run_server_writer_inner: pc, the payloads still to write, and the
              \* stream (none or one) whose payloads are written one by one
    conn,     \* is the websocket up
    wire,     \* envelopes on the websocket
    acks,     \* acknowledgements on the websocket
    given,    \* history: all envelopes put into the buffer
    void,     \* history: numbers used up by messages over the size limit
    got,      \* external: the envelopes a client has accepted
    owes,     \* external: the client has an acknowledgement to send
    drops     \* websockets lost so far

vars == <<queue, count, nextSeq, buffer, used, writer, conn, wire, acks, given,
          void, got, owes, drops>>

Envelopes == [stream : Streams, seq : 1..MaxMessages, seg : Nat, whole : BOOLEAN]
Nothing == [s \in Streams |-> <<>>]
Off == [pc |-> "off", cur |-> {}, out |-> Nothing]

Init ==
    /\ queue = <<>>
    /\ count = 0
    /\ nextSeq = [s \in Streams |-> 1]
    /\ buffer = Nothing
    /\ used = 0
    /\ writer = Off
    /\ conn = FALSE
    /\ wire = <<>>
    /\ acks = <<>>
    /\ given = Nothing
    /\ void = [s \in Streams |-> {}]
    /\ got = Nothing
    /\ owes = [s \in Streams |-> FALSE]
    /\ drops = 0

\* run_client_outbound: a message of the app server for a stream
QueueMessage(s, n) ==
    /\ count < MaxMessages
    /\ count' = count + 1
    /\ queue' = Append(queue, [stream |-> s, n |-> n])
    /\ UNCHANGED <<nextSeq, buffer, used, writer, conn, wire, acks, given, void, got,
                   owes, drops>>

-----------------------------------------------------------------------------
(* The websocket and the writer.                                           *)

\* Mutant: the buffer is not replayed.
ConnectNoReplay ==
    /\ ~conn /\ writer.pc = "off"
    /\ conn' = TRUE
    /\ writer' = [pc |-> "write", cur |-> {}, out |-> Nothing]
    /\ UNCHANGED <<queue, count, nextSeq, buffer, used, wire, acks, given, void, got,
                   owes, drops>>

\* A new websocket: the writer first replays a copy of all that is not
\* acknowledged, stream by stream in the order of a hash map.
Connect ==
    /\ ~conn /\ writer.pc = "off"
    /\ conn' = TRUE
    /\ writer' = [pc |-> "write", cur |-> {}, out |-> buffer]
    /\ UNCHANGED <<queue, count, nextSeq, buffer, used, wire, acks, given, void, got,
                   owes, drops>>

\* What is on the websocket in either direction is lost with it.
LoseWebsocket ==
    /\ conn /\ drops < MaxDrops
    /\ drops' = drops + 1
    /\ conn' = FALSE
    /\ wire' = <<>>
    /\ acks' = <<>>
    /\ owes' = [s \in Streams |-> FALSE]
    /\ UNCHANGED <<queue, count, nextSeq, buffer, used, writer, given, void, got>>

\* The writer sees the shutdown token or its send fails.
WriterStops ==
    /\ ~conn /\ writer.pc # "off"
    /\ writer' = Off
    /\ UNCHANGED <<queue, count, nextSeq, buffer, used, conn, wire, acks, given, void,
                   got, owes, drops>>

\* split_server_envelope_for_transport
Split(s, q, n) ==
    [i \in 1..n |-> [stream |-> s, seq |-> q, seg |-> i - 1, whole |-> n = 1]]

\* The message the writer has received is lost before it has a number: it cannot
\* be split, or the writer is aborted while it waits for the lock of the state.
LoseMessage ==
    /\ writer.pc = "write" /\ writer.out = Nothing
    /\ used < Capacity /\ queue # <<>>
    /\ queue' = Tail(queue)
    /\ UNCHANGED <<count, nextSeq, buffer, used, writer, conn, wire, acks, given, void,
                   got, owes, drops>>

\* While the buffer has room the writer takes the next message, numbers it,
\* buffers its envelopes and writes them.
TakeMessage ==
    /\ writer.pc = "write" /\ writer.out = Nothing
    /\ used < Capacity /\ queue # <<>>
    /\ LET s == Head(queue).stream
           q == Split(s, nextSeq[s], Head(queue).n)
       IN  /\ buffer' = [buffer EXCEPT ![s] = @ \o q]
           /\ used' = used + Len(q)
           /\ given' = [given EXCEPT ![s] = @ \o q]
           /\ void' = [void EXCEPT ![s] = IF q = <<>> THEN @ \cup {nextSeq[s]} ELSE @]
           /\ nextSeq' = [nextSeq EXCEPT ![s] = @ + 1]
           /\ writer' = [writer EXCEPT !.out[s] = q]
    /\ queue' = Tail(queue)
    /\ UNCHANGED <<count, conn, wire, acks, got, owes, drops>>

\* The payloads of one stream are all written before those of another.
WriteEnvelope(s) ==
    /\ conn /\ writer.out[s] # <<>> /\ writer.cur \subseteq {s}
    /\ wire' = Append(wire, Head(writer.out[s]))
    /\ writer' = [writer EXCEPT !.out[s] = Tail(@),
                                !.cur = IF Len(writer.out[s]) = 1 THEN {} ELSE {s}]
    /\ UNCHANGED <<queue, count, nextSeq, buffer, used, conn, acks, given, void, got,
                   owes, drops>>

-----------------------------------------------------------------------------
(* The client.                                                             *)

CursorLeq(a, b) == a.seq < b.seq \/ (a.seq = b.seq /\ a.seg <= b.seg)

\* the last envelope the client of s has accepted
Newest(s) == got[s][Len(got[s])]

ClientReceives ==
    /\ wire # <<>>
    /\ wire' = Tail(wire)
    /\ LET e == Head(wire)
           old == got[e.stream] # <<>> /\ CursorLeq(e, Newest(e.stream))
       IN  /\ got' = IF old THEN got ELSE [got EXCEPT ![e.stream] = Append(@, e)]
           /\ owes' = [owes EXCEPT ![e.stream] = TRUE]
    /\ UNCHANGED <<queue, count, nextSeq, buffer, used, writer, conn, acks,
                   given, void, drops>>

\* the Ack names the segment, but for a message that is not segmented
ClientAcks(s) ==
    /\ conn /\ owes[s]
    /\ acks' = Append(acks, Newest(s))
    /\ owes' = [owes EXCEPT ![s] = FALSE]
    /\ UNCHANGED <<queue, count, nextSeq, buffer, used, writer, conn, wire,
                   given, void, got, drops>>

-----------------------------------------------------------------------------
\* Mutant: an acknowledged segment stands for its whole message.
CoversMessage(a, e) == e.seq <= a.seq

\* BoundedOutboundBuffer.ack; an Ack without a segment is for all of the message
Covers(a, e) ==
    \/ e.seq < a.seq
    \/ e.seq = a.seq /\ (a.whole \/ e.seg <= a.seg)

\* Vec::retain: the elements of q at the places K, in order
Keep(q, K) ==
    [i \in 1..Cardinality(K) |-> q[CHOOSE j \in K : Cardinality({k \in K : k <= j}) = i]]

\* what an acknowledgement leaves of a stream's buffer
Kept(a) == Keep(buffer[a.stream],
                {i \in DOMAIN buffer[a.stream] : ~Covers(a, buffer[a.stream][i])})

\* Mutant: the usage counter is reduced by one per acknowledgement.
ReaderAckOnce ==
    /\ acks # <<>>
    /\ acks' = Tail(acks)
    /\ LET a == Head(acks)
           kept == Kept(a)
       IN  /\ buffer' = [buffer EXCEPT ![a.stream] = kept]
           /\ used' = used - IF kept = buffer[a.stream] THEN 0 ELSE 1
    /\ UNCHANGED <<queue, count, nextSeq, writer, conn, wire, given, void, got, owes,
                   drops>>

ReaderAck ==
    /\ acks # <<>>
    /\ acks' = Tail(acks)
    /\ LET a == Head(acks)
           kept == Kept(a)
       IN  /\ buffer' = [buffer EXCEPT ![a.stream] = kept]
           /\ used' = used - (Len(buffer[a.stream]) - Len(kept))
    /\ UNCHANGED <<queue, count, nextSeq, writer, conn, wire, given, void, got, owes,
                   drops>>

-----------------------------------------------------------------------------
Next ==
    \/ \E s \in Streams, n \in Sizes : QueueMessage(s, n)
    \/ Connect \/ LoseWebsocket \/ WriterStops
    \/ TakeMessage \/ LoseMessage
    \/ ClientReceives \/ ReaderAck
    \/ \E s \in Streams : WriteEnvelope(s) \/ ClientAcks(s)

Spec == Init /\ [][Next]_vars

\* The reconnect loop, the writer and the reader run on; the clients read and
\* acknowledge.  Messages and losses are bounded and every step leads on, so one
\* fairness condition serves all.
Proceeds ==
    \/ Connect \/ WriterStops \/ TakeMessage
    \/ ClientReceives \/ ReaderAck
    \/ \E s \in Streams : WriteEnvelope(s) \/ ClientAcks(s)

FairSpec == Spec /\ WF_vars(Proceeds)

-----------------------------------------------------------------------------
(* Properties.                                                             *)

MaxSize == CHOOSE n \in Sizes : \A m \in Sizes : m <= n

\* the places of the buffer that hold an envelope
Slots == UNION {{s} \X (1..Len(buffer[s])) : s \in Streams}
Buffered == Cardinality(Slots)

\* The type invariant of the state above.
TypeOK ==
    /\ queue \in Seq([stream : Streams, n : Sizes]) /\ count \in 0..MaxMessages
    /\ nextSeq \in [Streams -> 1..(MaxMessages + 1)]
    /\ used \in Nat /\ drops \in 0..MaxDrops /\ conn \in BOOLEAN
    /\ writer \in [pc : {"off", "write"}, cur : SUBSET Streams,
                   out : [Streams -> Seq(Envelopes)]]
    /\ wire \in Seq(Envelopes) /\ acks \in Seq(Envelopes)
    /\ buffer \in [Streams -> Seq(Envelopes)]
    /\ given \in [Streams -> Seq(Envelopes)] /\ void \in [Streams -> SUBSET Nat]
    /\ got \in [Streams -> Seq(Envelopes)] /\ owes \in [Streams -> BOOLEAN]
    /\ \A s \in Streams : owes[s] => got[s] # <<>>

\* The usage counter that decides whether the writer takes another message is
\* the number of buffered envelopes, so the writer is neither held back by
\* envelopes long acknowledged nor let past the limit; the limit is exceeded
\* by no more than the segments of one message.
UsedIsBuffered ==
    /\ used = Buffered
    /\ used < Capacity + MaxSize

\* u is the end of t
IsSuffix(u, t) ==
    /\ Len(u) <= Len(t)
    /\ \A i \in 1..Len(u) : u[i] = t[Len(t) - Len(u) + i]

\* An envelope the client does not have is in the buffer, in its place: no
\* acknowledgement, old, repeated or for a part of a message, discards it.
UnreceivedIsBuffered ==
    \A s \in Streams :
        IsSuffix(SubSeq(given[s], Len(got[s]) + 1, Len(given[s])), buffer[s])

\* A stream's messages are numbered 1, 2, 3..., also across reconnects: the
\* numbers only grow, and one that no envelope has was used up by a message over
\* the size limit.
SeqContiguous ==
    \A s \in Streams :
        LET seqs == {given[s][i].seq : i \in DOMAIN given[s]}
        IN  /\ 1..(nextSeq[s] - 1) = seqs \cup void[s] /\ seqs \cap void[s] = {}
            /\ \A i, j \in DOMAIN given[s] : i <= j => CursorLeq(given[s][i], given[s][j])

\* The client of each stream gets its envelopes once, in order and all of
\* them: the websocket with its losses and replays implements ReliableStreams.
Promise == INSTANCE ReliableStreams WITH given <- given, got <- got
ImplementsReliableStreams == Promise!Spec

\* The queue and the buffer are emptied in the end: the buffer's limit holds the
\* writer back only until the clients acknowledge, and no loss of an envelope or
\* of an acknowledgement leaves one in the buffer for ever.
QueueDrains == <>[](queue = <<>> /\ used = 0 /\ Buffered = 0)

\* Buffer, usage counter and sequence ids agree with what the client still lacks, under
\* every order of acknowledgements, losses and replays.
BufferInv ==
    /\ TypeOK
    /\ UsedIsBuffered
    /\ UnreceivedIsBuffered
    /\ SeqContiguous
=============================================================================
