--------------------------- MODULE RemoteInbound ---------------------------
(***************************************************************************)
(* What a remote-control client sends to the app server                    *)
(* (app-server-transport/src/transport/remote_control): the websocket      *)
(* reader, the reassembly of segmented messages, and the ClientTracker,    *)
(* which turns each (client, stream) into a connection of the app server.  *)
(*                                                                         *)
(* The backend keeps the envelopes of the clients in one log and, on a new *)
(* websocket, continues after the cursor the reader has recorded last.     *)
(* Here one client has the streams Streams; of what else is in the log     *)
(* (acknowledgements, pings, the envelopes of other clients) only that it  *)
(* moves the cursor, which all of them share, is of concern.  A send to    *)
(* the app server's event queue succeeds or, when the queue stays full,    *)
(* times out.                                                              *)
(***************************************************************************)
EXTENDS Integers, Sequences, FiniteSets

CONSTANTS
    Streams,      \* the streams of one client, numbered as they first start
    MaxLog,       \* bound on the envelopes in the log
    MaxInits,     \* bound on the initialize requests among them
    MaxFaults,    \* bound on lost websockets, sends to the app server that time
                  \* out, idle expiries and disconnects by the app server
    MaxManyFaults,\* the same, for a log with more than one initialize request
    NoStream

ASSUME InboundAssumption ==
    /\ IsFiniteSet(Streams) /\ Streams \subseteq Nat /\ NoStream \notin Streams
    /\ MaxLog \in Nat /\ MaxInits \in Nat
    /\ MaxFaults \in Nat /\ MaxManyFaults \in Nat

VARIABLES
    log,       \* the backend's log of client envelopes
    conn,      \* is the websocket up
    pos,       \* how far the log was sent on this websocket
    cursor,    \* WebsocketState.subscribe_cursor: the envelope recorded last
    reader,    \* run_websocket_reader_inner: pc, the envelope and stream in hand
    clients,   \* ClientTracker.clients: stream -> connection and last seq
    tasks,     \* the run_client_outbound tasks: [id, stream, st]
    nextId,    \* next_connection_id
    asm,       \* ClientSegmentReassembler: the client's pending assembly
    chunkDone, \* last_completed_client_chunk_seq_id_by_stream
    closers,   \* spawn_connection_closed tasks that have not sent yet
    opened,    \* connections announced to the app server: id -> stream
    closed,    \* how often each was reported closed
    delivered, \* the envelopes forwarded to the app server, with their connection
    why,       \* history: connections whose closing the client or server asked for
    faults     \* how many faults there were

vars == <<log, conn, pos, cursor, reader, clients, tasks, nextId, asm,
          chunkDone, closers, opened, closed, delivered, why, faults>>

trackerVars == <<clients, tasks, nextId, closers, opened, closed, delivered,
                 why>>
segmentVars == <<asm, chunkDone>>

NoClient == [id |-> 0, last |-> -1]
NoAsm == [stream |-> NoStream, seq |-> 0, next |-> 0]
Reading == [pc |-> "read", at |-> 0, stream |-> NoStream, wait |-> 0]
Off == [Reading EXCEPT !.pc = "off"]

Init ==
    /\ log = <<>>
    /\ conn = FALSE
    /\ pos = 0
    /\ cursor = 0
    /\ reader = Off
    /\ clients = [s \in Streams |-> NoClient]
    /\ tasks = {}
    /\ nextId = 1
    /\ asm = NoAsm
    /\ chunkDone = [s \in Streams |-> -1]
    /\ closers = {}
    /\ opened = <<>>
    /\ closed = <<>>
    /\ delivered = <<>>
    /\ why = {}
    /\ faults = 0

-----------------------------------------------------------------------------
(* The client and the backend.                                             *)

\* The envelopes of a stream that have a part in its messages.
Places(s) == {n \in 1..Len(log) : log[n].stream = s /\ log[n].kind # "ack"}
LastOf(s) == log[CHOOSE n \in Places(s) : \A m \in Places(s) : m <= n]
Inits == Cardinality({n \in 1..Len(log) : log[n].kind = "init"})

\* A stream starts with initialize, seq 0, and may start again with it; its
\* messages are numbered from there, and one that is sent in two segments is
\* finished before the next; nothing follows ClientClosed but an initialize.
Alive(s) == Places(s) # {} /\ LastOf(s).kind # "closed"
Midway(s) == LastOf(s).kind = "chunk" /\ LastOf(s).seg = 0
NextSeq(s) == LastOf(s).seq + 1

Envelope(k, s, q, g) == [kind |-> k, stream |-> s, seq |-> q, seg |-> g]

\* What may come next of stream s.  An "ack" stands for all that only moves the
\* cursor (Ack and Ping of the client, any envelope of another client), be it one
\* envelope or several in a row.
Sendable(s) ==
    (IF Inits < MaxInits THEN {Envelope("init", s, 0, 0)} ELSE {})
    \cup (IF log # <<>> /\ log[Len(log)].stream = s /\ log[Len(log)].kind # "ack"
          THEN {Envelope("ack", s, 0, 0)} ELSE {})
    \cup (IF ~Alive(s) THEN {} ELSE {Envelope("closed", s, NextSeq(s), 0)})
    \cup (IF ~Alive(s) \/ Midway(s) THEN {}
          ELSE {Envelope("msg", s, NextSeq(s), 0), Envelope("chunk", s, NextSeq(s), 0)})
    \cup (IF Alive(s) /\ Midway(s) THEN {Envelope("chunk", s, LastOf(s).seq, 1)} ELSE {})

\* The bounds on faults.
MayFail == faults < MaxFaults /\ (Inits <= 1 \/ faults < MaxManyFaults)

\* The log is filled before the first websocket: the backend passes each
\* envelope on when it likes, which stands for the client's own pace.
ClientSends(s) ==
    /\ ~conn /\ faults = 0 /\ Len(log) < MaxLog
    /\ \A r \in Streams : r < s => Places(r) # {}
    /\ \E e \in Sendable(s) : log' = Append(log, e)
    /\ UNCHANGED <<conn, pos, cursor, reader, trackerVars, segmentVars, faults>>

\* A websocket with the subscribe cursor: the backend goes on after it.
Connect ==
    /\ ~conn /\ reader.pc = "off"
    /\ conn' = TRUE
    /\ pos' = cursor
    /\ reader' = Reading
    /\ UNCHANGED <<log, cursor, trackerVars, segmentVars, faults>>

LoseWebsocket ==
    /\ conn /\ MayFail
    /\ conn' = FALSE
    /\ faults' = faults + 1
    /\ UNCHANGED <<log, pos, cursor, reader, trackerVars, segmentVars>>

\* The reader notices at its select; when it is elsewhere and does not come
\* back in time, join_connection_workers aborts it at the await it is in.
ReaderStops ==
    /\ ~conn /\ reader.pc # "off"
    /\ reader' = Off
    /\ UNCHANGED <<log, conn, pos, cursor, trackerVars, segmentVars, faults>>

-----------------------------------------------------------------------------
(* ClientTracker.                                                          *)

\* remove_client, cancel of its token, and the detached ConnectionClosed
CloseClient(s) ==
    LET c == clients[s].id
    IN  IF c = 0 THEN UNCHANGED <<clients, tasks, closers>>
        ELSE /\ clients' = [clients EXCEPT ![s] = NoClient]
             /\ tasks' = {IF t.id = c /\ t.st = "running"
                          THEN [t EXCEPT !.st = "cancelled"] ELSE t : t \in tasks}
             /\ closers' = closers \cup {c}

CloserSends(c) ==
    /\ c \in closers
    /\ closers' = closers \ {c}
    /\ closed' = [closed EXCEPT ![c] = @ + 1]
    /\ UNCHANGED <<log, conn, pos, cursor, reader, clients, tasks, nextId,
                   opened, delivered, why, segmentVars, faults>>

\* run_client_outbound ends once its token is cancelled; its key is joined
TaskEnds(t) ==
    /\ t.st = "cancelled"
    /\ tasks' = (tasks \ {t}) \cup {[t EXCEPT !.st = "ended"]}
    /\ UNCHANGED <<log, conn, pos, cursor, reader, clients, nextId, closers,
                   opened, closed, delivered, why, segmentVars, faults>>

\* The app server disconnects a connection (its disconnect_sender).
AppDisconnects(t) ==
    /\ t.st = "running" /\ MayFail
    /\ tasks' = (tasks \ {t}) \cup {[t EXCEPT !.st = "cancelled"]}
    /\ why' = why \cup {t.id}
    /\ faults' = faults + 1
    /\ UNCHANGED <<log, conn, pos, cursor, reader, clients, nextId, closers,
                   opened, closed, delivered, segmentVars>>

-----------------------------------------------------------------------------
(* Segments.                                                               *)

\* Mutant: replayed chunks are not recognized.
ReplayedNever(e) == FALSE

\* should_ignore_chunk and the cursor of completed chunks
Replayed(e) ==
    \/ chunkDone[e.stream] >= e.seq
    \/ /\ asm.stream = e.stream
       /\ \/ e.seq < asm.seq
          \/ e.seq = asm.seq /\ e.seg < asm.next

\* observe: the assembly after the chunk.  A message has two segments.
Assembled(e) ==
    LET a == IF asm.stream = e.stream THEN asm
             ELSE [stream |-> e.stream, seq |-> e.seq, next |-> 0]
    IN  IF a.seq # e.seq \/ a.next # e.seg THEN NoAsm
        ELSE IF e.seg = 0 THEN [a EXCEPT !.next = 1] ELSE NoAsm

Completes(e) == asm.stream = e.stream /\ asm.seq = e.seq /\ asm.next = 1
                  /\ e.seg = 1

Invalidate(s) ==
    /\ asm' = IF asm.stream = s THEN NoAsm ELSE asm
    /\ chunkDone' = [chunkDone EXCEPT ![s] = -1]

-----------------------------------------------------------------------------
(* The reader.                                                             *)

At == log[reader.at]
GoTo(p) == reader' = [reader EXCEPT !.pc = p]

\* Mutant: the cursor is recorded before the message is forwarded.
ReadRecordsCursor ==
    /\ reader.pc = "read" /\ conn /\ pos < Len(log)
    /\ pos' = pos + 1
    /\ cursor' = pos + 1
    /\ LET e == log[pos + 1]
           handle == [pc |-> "handle", at |-> pos + 1, stream |-> e.stream,
                      wait |-> 0]
       IN  IF e.kind # "chunk" THEN reader' = handle /\ UNCHANGED asm
           ELSE IF Replayed(e) THEN UNCHANGED <<reader, asm>>
           ELSE /\ asm' = Assembled(e)
                /\ reader' = IF Completes(e) THEN handle ELSE reader
    /\ UNCHANGED <<log, conn, trackerVars, chunkDone, faults>>

\* The next envelope: a chunk is pending, dropped or completes its message.
ReadEnvelope ==
    /\ reader.pc = "read" /\ conn /\ pos < Len(log)
    /\ pos' = pos + 1
    /\ LET e == log[pos + 1]
           handle == [pc |-> "handle", at |-> pos + 1, stream |-> e.stream,
                      wait |-> 0]
       IN  IF e.kind # "chunk" THEN reader' = handle /\ UNCHANGED asm
           ELSE IF Replayed(e) THEN UNCHANGED <<reader, asm>>
           ELSE /\ asm' = Assembled(e)
                /\ reader' = IF Completes(e) THEN handle ELSE reader
    /\ UNCHANGED <<log, conn, cursor, trackerVars, chunkDone, faults>>

\* handle_message of a message: a duplicate, or one for a stream without a
\* client, counts as handled; and of what is none for the app server
HandleMessage ==
    /\ reader.pc = "handle" /\ At.kind \in {"msg", "chunk", "ack"}
    /\ GoTo(IF \/ At.kind = "ack" \/ clients[At.stream].id = 0
               \/ clients[At.stream].last >= At.seq
            THEN "record" ELSE "forward")
    /\ UNCHANGED <<log, conn, pos, cursor, trackerVars, segmentVars, faults>>

\* handle_message of initialize: an existing client of the stream is closed
HandleInitialize ==
    /\ reader.pc = "handle" /\ At.kind = "init"
    /\ CloseClient(At.stream)
    /\ why' = why \cup ({clients[At.stream].id} \ {0})
    /\ reader' = [reader EXCEPT !.pc = "closing", !.wait = clients[At.stream].id]
    /\ UNCHANGED <<log, conn, pos, cursor, nextId, opened, closed, delivered,
                   segmentVars, faults>>

\* handle_message of ClientClosed
HandleClientClosed ==
    /\ reader.pc = "handle" /\ At.kind = "closed"
    /\ CloseClient(At.stream)
    /\ why' = why \cup ({clients[At.stream].id} \ {0})
    /\ reader' = [reader EXCEPT !.pc = "closing", !.wait = clients[At.stream].id]
    /\ UNCHANGED <<log, conn, pos, cursor, nextId, opened, closed, delivered,
                   segmentVars, faults>>

\* close_client waits for the detached ConnectionClosed; then initialize
\* opens, ClientClosed is recorded, and a sweep or a joined task invalidates
CloseReturns ==
    /\ reader.pc = "closing" /\ reader.wait \notin closers
    /\ IF reader.at = 0
       THEN Invalidate(reader.stream) /\ reader' = Reading
       ELSE /\ GoTo(IF At.kind = "init" THEN "open" ELSE "record")
            /\ UNCHANGED segmentVars
    /\ UNCHANGED <<log, conn, pos, cursor, trackerVars, faults>>

\* ConnectionOpened is sent, the outbound task spawned, the client inserted
OpenConnection ==
    /\ reader.pc = "open"
    /\ opened' = Append(opened, At.stream)
    /\ closed' = Append(closed, 0)
    /\ clients' = [clients EXCEPT ![At.stream] = [id |-> nextId, last |-> -1]]
    /\ tasks' = tasks \cup {[id |-> nextId, stream |-> At.stream,
                             st |-> "running"]}
    /\ nextId' = nextId + 1
    /\ GoTo("forward")
    /\ UNCHANGED <<log, conn, pos, cursor, closers, delivered, why,
                   segmentVars, faults>>

\* IncomingMessage is sent and its seq recorded
ForwardMessage ==
    /\ reader.pc = "forward"
    /\ delivered' = Append(delivered, [id |-> clients[At.stream].id,
                                       at |-> reader.at])
    /\ clients' = [clients EXCEPT ![At.stream].last = At.seq]
    /\ GoTo("record")
    /\ UNCHANGED <<log, conn, pos, cursor, tasks, nextId, closers, opened,
                   closed, why, segmentVars, faults>>

\* Mutant: the client is removed without being closed.
TimeoutKeepsClient ==
    /\ reader.pc \in {"open", "forward"}
    /\ MayFail
    /\ faults' = faults + 1
    /\ reader' = Off /\ conn' = FALSE
    /\ clients' = [clients EXCEPT ![At.stream] = NoClient]
    /\ UNCHANGED <<tasks, closers, why>>
    /\ UNCHANGED <<log, pos, cursor, nextId, opened, closed, delivered,
                   segmentVars>>

\* The send of ConnectionOpened or IncomingMessage times out: the reader ends.
\* After an initialize that was not forwarded the new client is removed again.
SendTimesOut ==
    /\ reader.pc \in {"open", "forward"}
    /\ MayFail
    /\ faults' = faults + 1
    /\ reader' = Off /\ conn' = FALSE
    /\ IF reader.pc = "forward" /\ At.kind = "init"
       THEN /\ CloseClient(At.stream)
            /\ why' = why \cup {clients[At.stream].id}
       ELSE UNCHANGED <<clients, tasks, closers, why>>
    /\ UNCHANGED <<log, pos, cursor, nextId, opened, closed, delivered,
                   segmentVars>>

\* record_client_message_delivery; after ClientClosed the stream's segment
\* state is invalidated
RecordDelivery ==
    /\ reader.pc = "record"
    /\ cursor' = reader.at
    /\ IF At.kind = "closed" THEN Invalidate(At.stream)
       ELSE /\ chunkDone' = IF At.kind = "chunk"
                            THEN [chunkDone EXCEPT ![At.stream] = At.seq]
                            ELSE chunkDone
            /\ UNCHANGED asm
    /\ reader' = Reading
    /\ UNCHANGED <<log, conn, pos, trackerVars, faults>>

\* Mutant: the client of an ended task is not closed.
BookkeepForgets(t) ==
    /\ reader.pc = "read" /\ t.st = "ended"
    /\ tasks' = tasks \ {t}
    /\ UNCHANGED <<log, conn, pos, cursor, reader, clients, nextId, closers,
                   opened, closed, delivered, why, segmentVars, faults>>

\* bookkeep_join_set: the client of the ended task's key is closed
BookkeepTask(t) ==
    /\ reader.pc = "read" /\ t.st = "ended"
    /\ LET c == clients[t.stream].id
       IN  /\ clients' = [clients EXCEPT ![t.stream] = NoClient]
           /\ tasks' = {IF u.id = c /\ u.st = "running"
                        THEN [u EXCEPT !.st = "cancelled"] ELSE u :
                          u \in tasks \ {t}}
           /\ closers' = IF c = 0 THEN closers ELSE closers \cup {c}
    /\ reader' = [pc |-> "closing", at |-> 0, stream |-> t.stream,
                  wait |-> clients[t.stream].id]
    /\ UNCHANGED <<log, conn, pos, cursor, nextId, opened, closed, delivered,
                   why, segmentVars, faults>>

\* close_expired_clients: no activity for ten minutes
SweepIdle(s) ==
    /\ reader.pc = "read" /\ clients[s].id # 0
    /\ MayFail
    /\ faults' = faults + 1
    /\ CloseClient(s)
    /\ why' = why \cup {clients[s].id}
    /\ reader' = [pc |-> "closing", at |-> 0, stream |-> s,
                  wait |-> clients[s].id]
    /\ UNCHANGED <<log, conn, pos, cursor, nextId, opened, closed, delivered,
                   segmentVars>>

-----------------------------------------------------------------------------
ReaderStep ==
    \/ ReadEnvelope \/ HandleMessage \/ HandleInitialize
    \/ HandleClientClosed \/ CloseReturns \/ OpenConnection \/ ForwardMessage
    \/ RecordDelivery

Next ==
    \/ \E s \in Streams : ClientSends(s) \/ SweepIdle(s)
    \/ Connect \/ LoseWebsocket \/ ReaderStops
    \/ ReaderStep \/ SendTimesOut
    \/ \E t \in tasks : TaskEnds(t) \/ AppDisconnects(t) \/ BookkeepTask(t)
    \/ \E c \in closers : CloserSends(c)

Spec == Init /\ [][Next]_vars

\* The reader, the detached tasks and the reconnect loop go on; a full event
\* queue is drained.  Envelopes and faults are bounded and every step leads on,
\* so one fairness condition serves all.
Proceeds ==
    \/ ReaderStep \/ Connect \/ ReaderStops
    \/ \E t \in tasks : TaskEnds(t) \/ BookkeepTask(t)
    \/ \E c \in closers : CloserSends(c)

FairSpec == Spec /\ WF_vars(Proceeds)

-----------------------------------------------------------------------------
(* Properties.                                                             *)

Envelopes == [kind : {"init", "msg", "chunk", "closed", "ack"}, stream : Streams,
              seq : 0..MaxLog, seg : 0..1]
Pcs == {"off", "read", "handle", "closing", "open", "forward", "record"}

\* The type invariant of the state above.
TypeOK ==
    /\ log \in Seq(Envelopes) /\ Len(log) <= MaxLog
    /\ conn \in BOOLEAN
    /\ cursor \in 0..Len(log) /\ pos \in 0..Len(log)
    /\ reader \in [pc : Pcs, at : 0..MaxLog, stream : Streams \cup {NoStream},
                   wait : Nat]
    /\ clients \in [Streams -> [id : Nat, last : -1..MaxLog]]
    /\ tasks \subseteq [id : Nat, stream : Streams,
                        st : {"running", "cancelled", "ended"}]
    /\ nextId = Len(opened) + 1
    /\ asm \in [stream : Streams \cup {NoStream}, seq : 0..MaxLog, next : 0..1]
    /\ chunkDone \in [Streams -> -1..MaxLog]
    /\ opened \in Seq(Streams) /\ Len(closed) = Len(opened)
    /\ closers \cup why \subseteq 1..Len(opened)
    /\ faults \in 0..MaxFaults

\* However often the websocket is lost and the backend sends an envelope
\* again, whatever the reader was doing when it was stopped: a message other
\* than initialize is forwarded to the app server at most once.  One exception
\* is left: a segmented message may be forwarded again to a later connection
\* of its stream, if the stream initializes again after it.
Restarted(n) ==
    \E m \in (n + 1)..Len(log) : log[m].kind = "init" /\ log[m].stream = log[n].stream

NoDuplicateDelivery ==
    \A i, j \in 1..Len(delivered) :
        i # j /\ delivered[i].at = delivered[j].at =>
            LET n == delivered[i].at
            IN  \/ log[n].kind = "init"
                \/ /\ log[n].kind = "chunk" /\ Restarted(n)
                   /\ delivered[i].id # delivered[j].id

\* The app server sees a connection's messages in the order of their seq, and
\* initialize first.
DeliveredInOrder ==
    \A i, j \in 1..Len(delivered) :
        /\ i < j /\ delivered[i].id = delivered[j].id
        => /\ log[delivered[i].at].seq < log[delivered[j].at].seq
           /\ log[delivered[j].at].kind # "init"

\* The segments of the message that ends at n stand apart: once an envelope
\* between them is recorded, a forward that fails leaves only the second of
\* them to be replayed, and a segment alone is dropped (segment.rs).
Apart(n) == log[n].seg = 1 /\ log[n - 1] # [log[n] EXCEPT !.seg = 0]

\* For a client with one stream that initializes once: a connection gets every
\* message of its stream up to the last one it gets, segmented or not, but for
\* the segmented ones with an envelope of somebody else between their segments.
NoGap ==
    Inits <= 1 => \A i \in 1..Len(delivered) :
        \A p \in 0..log[delivered[i].at].seq :
            \/ \E j \in 1..i : /\ delivered[j].id = delivered[i].id
                               /\ log[delivered[j].at].seq = p
            \/ \E n \in 1..Len(log) : log[n].seq = p /\ Apart(n)

\* Every connection the app server was told of is either still tracked, or a
\* detached task has yet to report its end, or its end was reported once:
\* aborting the reader in the middle of any close loses or repeats none.
NoLeakedConnection ==
    \A c \in 1..Len(opened) :
        closed[c] + (IF c \in closers THEN 1 ELSE 0)
                  + (IF \E s \in Streams : clients[s].id = c THEN 1 ELSE 0) = 1

\* A connection ends because its client closed or replaced it, it was idle,
\* the app server dropped it, or its initialize could not be forwarded.  The
\* only one that ends for none of those reasons replaced an earlier connection
\* of its stream.
OnlySuccessorsHit ==
    \A c \in 1..Len(opened) :
        (c \in closers \/ closed[c] > 0) /\ c \notin why =>
            \E d \in why : d < c /\ opened[d] = opened[c]

\* A message of a client's only stream, opened once, is forwarded in the end,
\* though the websocket is lost in the middle of it or between its segments,
\* unless the connection it belongs to was ended or an envelope that moves the
\* cursor stands between the segments.
MessageForwarded ==
    <>[](Inits <= 1 /\ why = {} =>
           \A n \in 1..Len(log) :
              log[n].kind = "msg" \/ (log[n].seg = 1 /\ ~Apart(n))
                => \E i \in 1..Len(delivered) : delivered[i].at = n)

\* Connections end: after ClientClosed none of the stream stays open, whatever was
\* lost on the way, and one that was to end is reported closed to the app server.
ConnectionsEnd ==
    <>[](/\ \A s \in Streams :
               Places(s) # {} /\ ~Alive(s)
                 => \A c \in 1..Len(opened) : opened[c] = s => closed[c] = 1
         /\ \A c \in why : closed[c] = 1)

\* Every connection opened to the app server is accounted for, and only the known kind
\* of connection ends without a reason.
ConnectionInv ==
    /\ TypeOK
    /\ NoLeakedConnection
    /\ OnlySuccessorsHit

\* Messages are forwarded once, in order and with no gap but the one that NoGap names,
\* across lost websockets and a reader stopped at any await.
DeliveryInv ==
    /\ NoDuplicateDelivery
    /\ DeliveredInOrder
    /\ NoGap
=============================================================================
