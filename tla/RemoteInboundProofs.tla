------------------------ MODULE RemoteInboundProofs ------------------------
(***************************************************************************)
(* Proofs about RemoteInbound, for every number of envelopes, initialize   *)
(* requests and faults: ConnectionInv and DeliveryInv.                     *)
(*                                                                         *)
(* Neither is inductive.  The strengthening says what the log looks like   *)
(* (LogInv), what the reader knows at each of its awaits (ReaderInv), that *)
(* a tracked connection is the newest of its stream and why a task stopped *)
(* running (ConnInv), what was forwarded but not yet recorded (DelInv) and *)
(* how far a client that initialized once is ahead of the cursor (GapInv). *)
(***************************************************************************)
EXTENDS RemoteInbound, FiniteSetTheorems, TLAPS

\* The type invariant with the histories the properties count on.
Types ==
    /\ TypeOK
    /\ closed \in Seq(Nat)
    /\ delivered \in Seq([id : Nat, at : Nat])

-----------------------------------------------------------------------------
(* The log.                                                                *)

IsInit(k) == log[k].kind = "init"

\* A place that a message ends at: anything but the first of two segments.
Whole(k) == log[k].kind = "chunk" => log[k].seg = 1

\* A place with a part in the messages of its stream.
Own(k) == log[k].kind # "ack"

\* seq numbers stay below the places, the log starts with an initialize, and a
\* stream that has places has a last one.
LogShape ==
    /\ \A k \in 1..Len(log) :
          /\ log[k].seq < k
          /\ log[k].kind # "chunk" => log[k].seg = 0
          /\ IsInit(k) => log[k].seq = 0
          /\ k = 1 => IsInit(k)
    /\ \A s \in Streams : Places(s) # {} =>
          \E n \in Places(s) : \A m \in Places(s) : m <= n

\* The client initializes at most once ...
Single == \A i, j \in 1..Len(log) : IsInit(i) /\ IsInit(j) => i = j

Only == log[1].stream

\* Numbers grow but from the first to the second segment of a message.
Grows(j, k) ==
    \/ log[j].seq < log[k].seq
    \/ /\ log[j].seq = log[k].seq
       /\ log[j].kind = "chunk" /\ log[j].seg = 0 /\ log[k].seg = 1

\* Number p is that of a message that ends before place k.
EndsBefore(p, k) == \E j \in 1..(k - 1) : Own(j) /\ Whole(j) /\ log[j].seq = p

\* ... and then has one stream, numbered without a gap.
Linear ==
    Single =>
        /\ \A k \in 1..Len(log) : log[k].stream = Only
        /\ \A k \in 1..Len(log) : Own(k) =>
              /\ \A j \in 1..(k - 1) : Own(j) => Grows(j, k)
              /\ log[k].kind # "closed" =>
                    \A p \in 0..(log[k].seq - 1) : EndsBefore(p, k)

\* The log.
LogInv == LogShape /\ Linear

\* Before the first websocket nothing but the log has changed.
Untouched ==
    /\ pos = 0 /\ cursor = 0 /\ reader = Off /\ asm = NoAsm
    /\ clients = [s \in Streams |-> NoClient]
    /\ chunkDone = [s \in Streams |-> -1]
    /\ tasks = {} /\ opened = <<>> /\ closed = <<>> /\ delivered = <<>>
    /\ closers = {} /\ why = {}

FreshInv == ~conn /\ faults = 0 => Untouched

-----------------------------------------------------------------------------
(* The reader.                                                             *)

Tracked(s) == clients[s].id # 0

\* What the reader knows of the client of its envelope at each await.
AtAwait ==
    /\ reader.pc \in {"handle", "open", "forward", "record"} => reader.at # 0
    /\ reader.pc \in {"read", "off"} => reader.at = 0
    /\ reader.pc = "closing" =>
          /\ reader.stream \in Streams /\ ~Tracked(reader.stream)
          /\ reader.at # 0 => At.kind \in {"init", "closed"}
    /\ reader.pc = "open" => At.kind = "init" /\ ~Tracked(At.stream)
    /\ reader.pc = "forward" =>
          /\ Tracked(At.stream) /\ clients[At.stream].last < At.seq
          /\ At.kind \notin {"closed", "ack"}
          /\ At.kind = "init" => clients[At.stream].last = -1
    /\ reader.pc = "record" /\ Tracked(At.stream) =>
          /\ At.kind # "closed"
          /\ At.kind # "ack" => At.seq <= clients[At.stream].last

\* The envelope in hand is the last one read, and since the cursor only
\* segments were read before it.
Scanned ==
    /\ reader.at # 0 =>
          /\ reader.at = pos /\ cursor < reader.at
          /\ reader.stream = At.stream /\ Whole(reader.at)
    /\ reader.pc # "off" => cursor <= pos
    /\ reader.pc # "off" =>
          \A k \in 1..Len(log) :
              cursor < k /\ k <= pos /\ k # reader.at => log[k].kind = "chunk"
    /\ cursor # 0 => Whole(cursor)

\* The reader.
ReaderInv == AtAwait /\ Scanned

-----------------------------------------------------------------------------
(* Connections.                                                            *)

\* A tracked connection is the newest one of its stream.
TrackedIsNewest ==
    \A s \in Streams : Tracked(s) =>
        /\ clients[s].id \in 1..Len(opened)
        /\ opened[clients[s].id] = s
        /\ \A d \in 1..Len(opened) : opened[d] = s => d <= clients[s].id

\* A reason to end connection c, or one of its stream before it.
Excused(c) == c \in why \/ \E d \in why : d < c /\ opened[d] = opened[c]

\* A task belongs to a connection and stops running for a reason.
TasksExcused ==
    \A t \in tasks :
        /\ t.id \in 1..Len(opened) /\ opened[t.id] = t.stream
        /\ t.st # "running" => Excused(t.id)

\* A connection that ended was ended for a reason.
EndsExcused ==
    \A c \in 1..Len(opened) : c \in closers \/ closed[c] > 0 => Excused(c)

\* Connections.
ConnInv == TrackedIsNewest /\ TasksExcused /\ EndsExcused /\ NoLeakedConnection

-----------------------------------------------------------------------------
(* Deliveries.                                                             *)

DeliveredTyped ==
    \A i \in 1..Len(delivered) :
        /\ delivered[i].id \in 1..Len(opened)
        /\ delivered[i].at \in 1..Len(log)
        /\ opened[delivered[i].id] = log[delivered[i].at].stream

\* A message that was forwarded but not recorded is known to its client, or
\* there is no client, or it is the exception of NoDuplicateDelivery.
Unrecorded ==
    \A i \in 1..Len(delivered) :
        LET n == delivered[i].at
        IN  cursor < n =>
              /\ \/ IsInit(n)
                 \/ ~Tracked(log[n].stream)
                 \/ log[n].seq <= clients[log[n].stream].last
                 \/ log[n].kind = "chunk" /\ Restarted(n)
              /\ \A k \in 1..Len(log) : cursor < k /\ k < n => log[k].kind = "chunk"

\* A client has recorded the seq of everything forwarded on its connection.
LastCovers ==
    \A i \in 1..Len(delivered) : \A s \in Streams :
        delivered[i].id = clients[s].id =>
            log[delivered[i].at].seq <= clients[s].last

\* Deliveries.
DelInv ==
    DeliveredTyped /\ Unrecorded /\ LastCovers /\ DeliveredInOrder
      /\ NoDuplicateDelivery

-----------------------------------------------------------------------------
(* A client that initializes once.                                         *)

Got(id, p, i) ==
    \E j \in 1..i : delivered[j].id = id /\ log[delivered[j].at].seq = p

\* Number p is that of a message whose segments stand apart.
Parted(p) == \E n \in 1..Len(log) : log[n].seq = p /\ Apart(n)

\* Each connection, and the tracked one up to its last seq, has no other gap.
Complete ==
    /\ \A i \in 1..Len(delivered) : \A p \in 0..log[delivered[i].at].seq :
          Got(delivered[i].id, p, i) \/ Parted(p)
    /\ Tracked(Only) => \A p \in 0..clients[Only].last :
          Got(clients[Only].id, p, Len(delivered)) \/ Parted(p)

\* Until its initialize is recorded nothing else is read.
Beginning ==
    cursor = 0 =>
        /\ asm = NoAsm /\ chunkDone[Only] = -1
        /\ reader.at # 0 => reader.at = 1
        /\ reader.at = 0 /\ reader.pc # "off" => pos = 0

\* Place n is recorded, or read on this websocket; and the reader is done with it.
Seen(n) == n <= cursor \/ (reader.pc # "off" /\ n <= pos)
Passed(n) == Seen(n) /\ (reader.pc # "off" => n # reader.at)

\* The end of a message that is not lost between its segments.
Due(n) == Own(n) /\ Whole(n) /\ ~Apart(n)

\* While the client is tracked, what is passed is known to it ...
PassedKnown ==
    /\ \A n \in 1..Len(log) : Due(n) /\ Passed(n) => log[n].seq <= clients[Only].last
    /\ chunkDone[Only] <= clients[Only].last

\* ... the assembly is of the first message that is not ...
AsmNext ==
    asm.stream # NoStream =>
        /\ asm.stream = Only /\ asm.next = 1 /\ chunkDone[Only] < asm.seq
        /\ \E m \in 1..Len(log) :
              log[m].kind = "chunk" /\ log[m].seg = 0 /\ log[m].seq = asm.seq
        /\ \A n \in 1..Len(log) : Due(n) /\ log[n].seq < asm.seq =>
              log[n].seq <= clients[Only].last
        /\ \A n \in 1..Len(log) :
              Own(n) /\ Whole(n) /\ log[n].seq = asm.seq => ~Seen(n)
        /\ reader.at # 0 => At.kind # "chunk"

\* ... and once the first of two adjacent segments is read, it is held.
Holding ==
    reader.pc # "off" /\ reader.at = 0 /\ cursor < pos =>
        \A n \in 2..Len(log) : n = pos + 1 /\ log[n].seg = 1 /\ ~Apart(n) =>
            \/ log[n].seq <= clients[Only].last
            \/ asm.stream = Only /\ asm.seq = log[n].seq /\ asm.next = 1

InStep == Tracked(Only) => PassedKnown /\ AsmNext /\ Holding

\* What holds with one stream and one initialize.
GapInv == Single /\ log # <<>> => Complete /\ Beginning /\ InStep

\* The inductive invariant.
Inv ==
    /\ Types /\ LogInv /\ FreshInv /\ ReaderInv /\ ConnInv /\ DelInv /\ GapInv

-----------------------------------------------------------------------------
(* The log keeps its shape.                                                *)

\* What the assumptions on the constants say of types.
LEMMA AssumptionFacts ==
    /\ IsFiniteSet(Streams) /\ Streams \subseteq Nat /\ NoStream \notin Streams
    /\ MaxLog \in Nat /\ MaxInits \in Nat /\ MaxFaults \in Nat
  BY InboundAssumption

\* The types of the log and of the places in it.
LEMMA LogTyped ==
    ASSUME Types
    PROVE  /\ Len(log) \in Nat /\ (log = <<>> <=> Len(log) = 0)
           /\ \A k \in 1..Len(log) : log[k] \in Envelopes
           /\ cursor \in 0..Len(log) /\ pos \in 0..Len(log)
<1>1. log \in Seq(Envelopes) /\ cursor \in 0..Len(log) /\ pos \in 0..Len(log)
  BY DEF Types, TypeOK
<1>2. Len(log) \in Nat /\ (log = <<>> <=> Len(log) = 0)
  BY <1>1
<1>3. \A k \in 1..Len(log) : log[k] \in Envelopes
  BY <1>1
<1> QED
  BY <1>1, <1>2, <1>3

\* Two things are two.
LEMMA PairHasTwo ==
    ASSUME NEW a, NEW b, a # b
    PROVE  IsFiniteSet({a, b}) /\ Cardinality({a, b}) = 2
<1>1. IsFiniteSet({a}) /\ Cardinality({a}) = 1
  BY FS_Singleton
<1>2. b \notin {a} /\ {a} \cup {b} = {a, b}
  OBVIOUS
<1>3. IsFiniteSet({a, b}) /\ Cardinality({a, b}) = Cardinality({a}) + 1
  BY <1>1, <1>2, FS_AddElement
<1> QED
  BY <1>1, <1>3

\* More than one initialize in the log is what Inits counts.
LEMMA InitsIsSingle ==
    ASSUME Types, Inits <= 1
    PROVE  Single
<1> DEFINE S == {n \in 1..Len(log) : log[n].kind = "init"}
<1>1. Len(log) \in Nat
  BY DEF Types, TypeOK
<1>2. IsFiniteSet(S) /\ Cardinality(S) \in Nat
  <2>1. IsFiniteSet(1..Len(log))
    BY <1>1, FS_Interval
  <2>2. S \subseteq 1..Len(log)
    OBVIOUS
  <2> QED
    BY <2>1, <2>2, FS_Subset, FS_CardinalityType
<1>3. SUFFICES ASSUME NEW i \in S, NEW j \in S, i # j
              PROVE  FALSE
  BY DEF Single, IsInit
<1>4. IsFiniteSet({i, j}) /\ Cardinality({i, j}) = 2
  BY <1>3, PairHasTwo
<1>5. Cardinality({i, j}) <= Cardinality(S)
  BY <1>2, <1>4, FS_Subset
<1> QED
  BY <1>2, <1>4, <1>5 DEF Inits

\* The last envelope of a stream that has one.
LEMMA LastOfIsLast ==
    ASSUME Types, LogShape, NEW s \in Streams, Places(s) # {}
    PROVE  \E n \in 1..Len(log) :
              /\ LastOf(s) = log[n] /\ log[n].stream = s /\ Own(n)
              /\ \A m \in 1..Len(log) : log[m].stream = s /\ Own(m) => m <= n
<1>1. \E n \in Places(s) : \A m \in Places(s) : m <= n
  BY DEF LogShape
<1> DEFINE n == CHOOSE k \in Places(s) : \A m \in Places(s) : m <= k
<1>2. n \in Places(s) /\ \A m \in Places(s) : m <= n
  BY <1>1
<1>3. LastOf(s) = log[n]
  BY DEF LastOf
<1> HIDE DEF n
<1> QED
  BY <1>2, <1>3 DEF Places, Own

\* What the client may put into the log after what it has sent.
Follows(s, e) ==
    \/ e.kind = "init" /\ e.seq = 0 /\ e.seg = 0
    \/ /\ e.kind = "ack" /\ e.seq = 0 /\ e.seg = 0
       /\ log # <<>> /\ log[Len(log)].stream = s
    \/ /\ Alive(s) /\ e.kind = "closed" /\ e.seq = NextSeq(s) /\ e.seg = 0
    \/ /\ Alive(s) /\ ~Midway(s) /\ e.kind \in {"msg", "chunk"}
       /\ e.seq = NextSeq(s) /\ e.seg = 0
    \/ /\ Alive(s) /\ Midway(s) /\ e.kind = "chunk"
       /\ e.seq = LastOf(s).seq /\ e.seg = 1

AddsOne(s, e) ==
    /\ e \in Envelopes /\ e.stream = s /\ Follows(s, e)
    /\ log' \in Seq(Envelopes) /\ Len(log') = Len(log) + 1
    /\ Len(log') <= MaxLog
    /\ \A k \in 1..Len(log) : log'[k] = log[k]
    /\ log'[Len(log) + 1] = e

\* The numbers of a stream are within the log.
LEMMA NextSeqBound ==
    ASSUME Types, LogShape, NEW s \in Streams, Alive(s)
    PROVE  NextSeq(s) \in 1..Len(log) /\ LastOf(s).seq \in 0..Len(log)
<1>1. PICK n \in 1..Len(log) : LastOf(s) = log[n]
  BY LastOfIsLast DEF Alive
<1>2. log[n].seq \in Nat
  <2>1. log[n] \in Envelopes
    BY DEF Types, TypeOK
  <2> QED
    BY <2>1, AssumptionFacts DEF Envelopes
<1>3. Len(log) \in Nat
  BY DEF Types, TypeOK
<1>4. log[n].seq < n
  BY DEF LogShape
<1> QED
  BY <1>1, <1>2, <1>3, <1>4 DEF NextSeq

\* The fields of an envelope.
LEMMA EnvelopeFacts ==
    ASSUME NEW k \in {"init", "msg", "chunk", "closed", "ack"}, NEW s \in Streams,
           NEW q \in 0..MaxLog, NEW g \in 0..1, NEW e, e = Envelope(k, s, q, g)
    PROVE  /\ e \in Envelopes /\ e.stream = s /\ e.seq = q
           /\ e.kind = k /\ e.seg = g
  BY DEF Envelope, Envelopes

\* A client adds one envelope to the log.
LEMMA SendsAdds ==
    ASSUME Types, LogShape, NEW s \in Streams, ClientSends(s)
    PROVE  \E e : AddsOne(s, e)
<1> USE AssumptionFacts
<1>0. log \in Seq(Envelopes) /\ Len(log) \in Nat /\ Len(log) < MaxLog
  BY DEF Types, TypeOK, ClientSends
<1>1. PICK e \in Sendable(s) : log' = Append(log, e)
  BY DEF ClientSends
<1>2. e \in Envelopes /\ e.stream = s /\ Follows(s, e)
  <2>1. CASE e = Envelope("init", s, 0, 0)
    <3>1. e \in Envelopes /\ e.stream = s /\ e.seq = 0 /\ e.kind = "init" /\ e.seg = 0
      BY <2>1, EnvelopeFacts
    <3> QED
      BY <3>1 DEF Follows
  <2>2. CASE /\ log # <<>> /\ log[Len(log)].stream = s
             /\ e = Envelope("ack", s, 0, 0)
    <3>1. e \in Envelopes /\ e.stream = s /\ e.seq = 0 /\ e.kind = "ack" /\ e.seg = 0
      BY <2>2, EnvelopeFacts
    <3> QED
      BY <2>2, <3>1 DEF Follows
  <2>3. ASSUME Alive(s), NEW k \in {"closed", "msg", "chunk"},
               k # "closed" => ~Midway(s), e = Envelope(k, s, NextSeq(s), 0)
        PROVE  e \in Envelopes /\ e.stream = s /\ Follows(s, e)
    <3>1. PICK q \in 0..MaxLog : q = NextSeq(s)
      BY <2>3, <1>0, NextSeqBound
    <3>2. e = Envelope(k, s, q, 0)
      BY <2>3, <3>1
    <3>3. e \in Envelopes /\ e.stream = s /\ e.seq = q /\ e.kind = k /\ e.seg = 0
      BY <3>2, EnvelopeFacts
    <3> QED
      BY <2>3, <3>1, <3>3 DEF Follows
  <2>4. CASE Alive(s) /\ Midway(s) /\ e = Envelope("chunk", s, LastOf(s).seq, 1)
    <3>1. PICK q \in 0..MaxLog : q = LastOf(s).seq
      BY <2>4, <1>0, NextSeqBound
    <3>2. e = Envelope("chunk", s, q, 1)
      BY <2>4, <3>1
    <3>3. e \in Envelopes /\ e.stream = s /\ e.seq = q /\ e.kind = "chunk" /\ e.seg = 1
      BY <3>2, EnvelopeFacts
    <3> QED
      BY <2>4, <3>1, <3>3 DEF Follows
  <2>5. \/ e = Envelope("init", s, 0, 0)
        \/ log # <<>> /\ log[Len(log)].stream = s /\ e = Envelope("ack", s, 0, 0)
        \/ Alive(s) /\ e = Envelope("closed", s, NextSeq(s), 0)
        \/ Alive(s) /\ ~Midway(s) /\ e = Envelope("msg", s, NextSeq(s), 0)
        \/ Alive(s) /\ ~Midway(s) /\ e = Envelope("chunk", s, NextSeq(s), 0)
        \/ Alive(s) /\ Midway(s) /\ e = Envelope("chunk", s, LastOf(s).seq, 1)
    BY <1>1, Zenon DEF Sendable
  <2>6. ASSUME Alive(s), e = Envelope("closed", s, NextSeq(s), 0)
        PROVE  e \in Envelopes /\ e.stream = s /\ Follows(s, e)
    BY <2>3, <2>6
  <2>7. ASSUME Alive(s), ~Midway(s), e = Envelope("msg", s, NextSeq(s), 0)
        PROVE  e \in Envelopes /\ e.stream = s /\ Follows(s, e)
    BY <2>3, <2>7
  <2>8. ASSUME Alive(s), ~Midway(s), e = Envelope("chunk", s, NextSeq(s), 0)
        PROVE  e \in Envelopes /\ e.stream = s /\ Follows(s, e)
    BY <2>3, <2>8
  <2> QED
    BY <2>1, <2>2, <2>4, <2>5, <2>6, <2>7, <2>8
<1>3. /\ log' \in Seq(Envelopes) /\ Len(log') = Len(log) + 1
      /\ Len(log') <= MaxLog
      /\ \A k \in 1..Len(log) : log'[k] = log[k]
      /\ log'[Len(log) + 1] = e
  BY <1>0, <1>1, <1>2
<1>4. AddsOne(s, e)
  BY <1>2, <1>3 DEF AddsOne
<1> QED
  BY <1>4

\* One envelope more, after the last one n of its stream.
LEMMA AddsOneKeepsLog ==
    ASSUME Types, LogInv, NEW s \in Streams, NEW e, AddsOne(s, e)
    PROVE  LogInv'
<1> USE AssumptionFacts
<1>0. /\ Len(log) \in Nat /\ Len(log') = Len(log) + 1
      /\ \A k \in 1..Len(log) : log'[k] = log[k] /\ log[k] \in Envelopes
      /\ log'[Len(log) + 1] = e /\ (log = <<>> <=> Len(log) = 0)
  BY LogTyped DEF AddsOne
<1>1. PICK N \in Nat : N = Len(log)
  BY <1>0
<1>2. ASSUME Alive(s)
      PROVE  \E n \in 1..N :
                /\ LastOf(s) = log[n] /\ log[n].stream = s /\ log[n].kind # "ack"
                /\ log[n].kind # "closed" /\ log[n].seq \in Nat /\ log[n].seq < n
                /\ \A m \in 1..N : log[m].stream = s /\ log[m].kind # "ack" => m <= n
  <2>1. PICK n \in 1..Len(log) :
              /\ LastOf(s) = log[n] /\ log[n].stream = s /\ Own(n)
              /\ \A m \in 1..Len(log) : log[m].stream = s /\ Own(m) => m <= n
    BY <1>2, LastOfIsLast DEF Alive, LogInv
  <2>2. log[n].kind # "closed"
    BY <1>2, <2>1 DEF Alive
  <2>3. log[n].seq \in Nat /\ log[n].seq < n
    BY <1>0 DEF LogInv, LogShape, Envelopes
  <2> QED
    BY <1>1, <2>1, <2>2, <2>3 DEF Own
<1>3. /\ e.seq \in Nat /\ e.seq <= N /\ e.stream = s
      /\ e.kind # "chunk" => e.seg = 0
      /\ e.kind = "init" => e.seq = 0
      /\ e.kind # "init" => N > 0
  <2>1. CASE Alive(s)
    <3>1. PICK n \in 1..N : LastOf(s) = log[n] /\ log[n].seq \in Nat /\ log[n].seq < n
      BY <2>1, <1>2
    <3> QED
      BY <3>1 DEF AddsOne, Follows, NextSeq
  <2>2. CASE ~Alive(s)
    BY <2>2, <1>0, <1>1 DEF AddsOne, Follows
  <2> QED
    BY <2>1, <2>2
<1>4. LogShape'
  <2>1. ASSUME NEW k \in 1..(N + 1)
        PROVE  /\ log'[k].seq < k
               /\ log'[k].kind # "chunk" => log'[k].seg = 0
               /\ log'[k].kind = "init" => log'[k].seq = 0
               /\ k = 1 => log'[k].kind = "init"
    <3>1. CASE k \in 1..N
      <4>1. log'[k] = log[k] /\ k \in 1..Len(log)
        BY <3>1, <1>0, <1>1
      <4> QED
        BY <4>1 DEF LogInv, LogShape, IsInit
    <3>2. CASE k = N + 1
      BY <3>2, <1>0, <1>1, <1>3
    <3> QED
      BY <3>1, <3>2
  <2>2. ASSUME NEW r \in Streams, NEW x \in 1..(N + 1), log'[x].stream = r,
               log'[x].kind # "ack"
        PROVE  \E n \in 1..(N + 1) : log'[n].stream = r /\ log'[n].kind # "ack"
                  /\ \A m \in 1..(N + 1) :
                        log'[m].stream = r /\ log'[m].kind # "ack" => m <= n
    <3>0. log'[N + 1] = e
      BY <1>0, <1>1
    <3>1. CASE e.stream = r /\ e.kind # "ack"
      BY <3>0, <3>1
    <3>2. CASE ~(e.stream = r /\ e.kind # "ack")
      <4>1. x \in 1..N /\ log[x].stream = r /\ log[x].kind # "ack"
        BY <3>0, <3>2, <2>2, <1>0, <1>1
      <4>2. PICK n \in 1..N : log[n].stream = r /\ log[n].kind # "ack"
                  /\ \A m \in 1..N : log[m].stream = r /\ log[m].kind # "ack" => m <= n
        <5>1. Places(r) # {}
          BY <4>1, <1>1 DEF Places
        <5> QED
          BY <5>1, <1>1, LastOfIsLast DEF LogInv, Own
      <4>3. /\ log'[n].stream = r /\ log'[n].kind # "ack"
            /\ \A m \in 1..(N + 1) : log'[m].stream = r /\ log'[m].kind # "ack" => m <= n
        BY <4>2, <3>0, <3>2, <1>0, <1>1
      <4> QED
        BY <4>3
    <3> QED
      BY <3>1, <3>2
  <2>3. Len(log') = N + 1
    BY <1>0, <1>1
  <2> QED
    BY <2>1, <2>2, <2>3 DEF LogShape, Places, IsInit
<1>5. Linear'
  <2>1. SUFFICES ASSUME Single'
        PROVE  /\ \A k \in 1..(N + 1) : log'[k].stream = log'[1].stream
               /\ \A k \in 1..(N + 1) : Own(k)' =>
                     /\ \A j \in 1..(k - 1) : Own(j)' => Grows(j, k)'
                     /\ log'[k].kind # "closed" =>
                           \A p \in 0..(log'[k].seq - 1) : EndsBefore(p, k)'
    BY <1>0, <1>1 DEF Linear, Only
  <2>2. Single
    <3>1. SUFFICES ASSUME NEW i \in 1..N, NEW j \in 1..N,
                          log[i].kind = "init", log[j].kind = "init"
                   PROVE  i = j
      BY <1>1 DEF Single, IsInit
    <3>2. log'[i].kind = "init" /\ log'[j].kind = "init"
      BY <3>1, <1>0, <1>1
    <3> QED
      BY <3>2, <2>1, <1>0, <1>1 DEF Single, IsInit
  <2>3. /\ \A k \in 1..N : log[k].stream = log[1].stream
        /\ \A k \in 1..N : log[k].kind # "ack" =>
              /\ \A j \in 1..(k - 1) : log[j].kind # "ack" => Grows(j, k)
              /\ log[k].kind # "closed" =>
                    \A p \in 0..(log[k].seq - 1) : EndsBefore(p, k)
    BY <2>2, <1>1 DEF LogInv, Linear, Only, Own
  <2>4. log'[N + 1] = e /\ \A k \in 1..N : log'[k] = log[k] /\ log[k].seq \in Nat
    BY <1>0, <1>1 DEF Envelopes
  <2>5. N > 0 => e.kind # "init" /\ log'[1] = log[1]
    <3>1. SUFFICES ASSUME N > 0 PROVE e.kind # "init" /\ log'[1] = log[1]
      OBVIOUS
    <3>2. log'[1] = log[1] /\ log[1].kind = "init"
      BY <3>1, <1>0, <1>1 DEF LogInv, LogShape, IsInit
    <3>3. e.kind = "init" => 1 = N + 1
      BY <3>1, <3>2, <2>1, <2>4, <1>0, <1>1 DEF Single, IsInit
    <3> QED
      BY <3>1, <3>2, <3>3
  <2>6. e.stream = log'[1].stream
    <3>1. CASE N = 0
      BY <3>1, <2>4
    <3>2. CASE N > 0 /\ Alive(s)
      BY <3>2, <2>3, <2>5, <1>2, <1>3
    <3>3. CASE N > 0 /\ ~Alive(s)
      BY <3>3, <2>3, <2>5, <1>1, <1>3 DEF AddsOne, Follows
    <3> QED
      BY <3>1, <3>2, <3>3
  <2>7. \A k \in 1..(N + 1) : log'[k].stream = log'[1].stream
    <3>1. SUFFICES ASSUME NEW k \in 1..(N + 1) PROVE log'[k].stream = log'[1].stream
      OBVIOUS
    <3>2. CASE k = N + 1
      BY <3>2, <2>4, <2>6
    <3>3. CASE k \in 1..N
      BY <3>3, <2>3, <2>4, <2>5
    <3> QED
      BY <3>2, <3>3
  <2>8. ASSUME NEW k \in 1..N, log'[k].kind # "ack"
        PROVE  /\ \A j \in 1..(k - 1) : Own(j)' => Grows(j, k)'
               /\ log'[k].kind # "closed" =>
                     \A p \in 0..(log'[k].seq - 1) : EndsBefore(p, k)'
    <3>1. log'[k] = log[k] /\ \A j \in 1..(k - 1) : log'[j] = log[j] /\ j \in 1..N
      BY <2>4
    <3>2. \A j \in 1..(k - 1) : Own(j)' => Grows(j, k)'
      BY <3>1, <2>3, <2>8 DEF Grows, Own
    <3>3. \A p : EndsBefore(p, k) => EndsBefore(p, k)'
      BY <3>1 DEF EndsBefore, Own, Whole
    <3> QED
      BY <3>1, <3>2, <3>3, <2>3, <2>8
  <2>9. ASSUME e.kind # "ack", N > 0
        PROVE  /\ \A j \in 1..N : Own(j)' => Grows(j, N + 1)'
               /\ e.kind # "closed" =>
                     \A p \in 0..(e.seq - 1) : EndsBefore(p, N + 1)'
    <3>1. Alive(s)
      BY <2>5, <2>9 DEF AddsOne, Follows
    <3>2. PICK n \in 1..N :
                /\ LastOf(s) = log[n] /\ log[n].stream = s /\ log[n].kind # "ack"
                /\ log[n].kind # "closed" /\ log[n].seq \in Nat
                /\ \A m \in 1..N : log[m].stream = s /\ log[m].kind # "ack" => m <= n
      BY <3>1, <1>2
    <3>3. \A m \in 1..N : log[m].kind # "ack" => m <= n
      BY <3>2, <2>3
    <3>4. \/ e.kind = "closed" /\ e.seq = log[n].seq + 1
          \/ Whole(n) /\ e.seq = log[n].seq + 1
          \/ log[n].kind = "chunk" /\ log[n].seg = 0 /\ e.seq = log[n].seq /\ e.seg = 1
      <4>1. log[n].seg \in 0..1
        BY <3>2, <1>0, <1>1 DEF Envelopes
      <4> QED
        BY <4>1, <3>2, <2>5, <2>9 DEF AddsOne, Follows, NextSeq, Midway, Whole
    <3>5. ASSUME NEW j \in 1..N, log[j].kind # "ack"
          PROVE  Grows(j, N + 1)'
      <4>1. log'[j] = log[j] /\ log'[n] = log[n] /\ log'[N + 1] = e
            /\ log[j].seq \in Nat /\ j <= n
        BY <3>3, <3>5, <2>4
      <4>2. CASE j = n
        BY <4>1, <4>2, <3>2, <3>4 DEF Grows
      <4>3. CASE j # n
        <5>1. Grows(j, n)
          BY <4>1, <4>3, <3>2, <3>5, <2>3
        <5>2. log[j].seq < log[n].seq \/ (log[j].seq = log[n].seq /\ log[n].seg = 1)
          BY <5>1 DEF Grows
        <5>3. log[j].seq < e.seq
          BY <4>1, <5>2, <3>2, <3>4, <1>3
        <5> QED
          BY <5>3, <4>1 DEF Grows
      <4> QED
        BY <4>2, <4>3
    <3>6. ASSUME e.kind # "closed", NEW p \in 0..(e.seq - 1)
          PROVE  EndsBefore(p, N + 1)'
      <4>1. p < log[n].seq \/ (p = log[n].seq /\ Whole(n))
        BY <3>2, <3>4, <3>6, <1>3
      <4>2. \E j \in 1..N : log[j].kind # "ack" /\ Whole(j) /\ log[j].seq = p
        <5>1. CASE p < log[n].seq
          <6>1. p \in 0..(log[n].seq - 1)
            BY <5>1, <3>2, <3>6
          <6>2. EndsBefore(p, n)
            BY <6>1, <3>2, <2>3
          <6> QED
            BY <6>2 DEF EndsBefore, Own
        <5>2. CASE p = log[n].seq /\ Whole(n)
          BY <5>2, <3>2
        <5> QED
          BY <4>1, <5>1, <5>2
      <4>3. PICK j \in 1..N : log[j].kind # "ack" /\ Whole(j) /\ log[j].seq = p
        BY <4>2
      <4>4. log'[j] = log[j] /\ j \in 1..((N + 1) - 1)
        BY <2>4
      <4> QED
        BY <4>3, <4>4 DEF EndsBefore, Own, Whole
    <3> QED
      BY <3>5, <3>6, <2>4 DEF Own
  <2>10. ASSUME NEW k \in 1..(N + 1), Own(k)'
         PROVE  /\ \A j \in 1..(k - 1) : Own(j)' => Grows(j, k)'
                /\ log'[k].kind # "closed" =>
                      \A p \in 0..(log'[k].seq - 1) : EndsBefore(p, k)'
    <3>1. CASE k \in 1..N
      BY <3>1, <2>8, <2>10 DEF Own
    <3>2. CASE k = N + 1 /\ N > 0
      <4>1. log'[k] = e /\ e.kind # "ack" /\ k - 1 = N
        BY <3>2, <2>4, <2>10 DEF Own
      <4> QED
        BY <4>1, <3>2, <2>9
    <3>3. CASE k = N + 1 /\ N = 0
      <4>1. log'[k] = e /\ e.seq = 0 /\ k = 1
        BY <3>3, <2>4, <1>3
      <4> QED
        BY <4>1
    <3> QED
      BY <3>1, <3>2, <3>3
  <2> QED
    BY <2>7, <2>10
<1> QED
  BY <1>4, <1>5 DEF LogInv

\* Sending changes nothing but the log, and before the first websocket only.
LEMMA SendStep ==
    ASSUME Types, LogInv, FreshInv, NEW s \in Streams, ClientSends(s)
    PROVE  /\ Types' /\ LogInv' /\ FreshInv'
           /\ Untouched'
<1> USE AssumptionFacts
<1>1. /\ conn' = conn /\ ~conn /\ pos' = pos /\ cursor' = cursor /\ reader' = reader
      /\ trackerVars' = trackerVars /\ segmentVars' = segmentVars
      /\ faults = 0 /\ faults' = faults
  BY DEF ClientSends
<1>2. /\ clients' = clients /\ tasks' = tasks /\ nextId' = nextId
      /\ closers' = closers /\ opened' = opened /\ closed' = closed
      /\ delivered' = delivered /\ why' = why /\ asm' = asm
      /\ chunkDone' = chunkDone
  BY <1>1 DEF trackerVars, segmentVars
<1>3. /\ pos' = 0 /\ cursor' = 0 /\ reader' = Off /\ asm' = NoAsm
      /\ clients' = [r \in Streams |-> NoClient]
      /\ chunkDone' = [r \in Streams |-> -1]
      /\ tasks' = {} /\ opened' = <<>> /\ closed' = <<>> /\ delivered' = <<>>
      /\ closers' = {} /\ why' = {}
  BY <1>1, <1>2 DEF FreshInv, Untouched
<1>4. LogInv' /\ log' \in Seq(Envelopes) /\ Len(log') <= MaxLog
  BY SendsAdds, AddsOneKeepsLog DEF AddsOne, LogInv
<1>5. Types'
  BY <1>1, <1>2, <1>3, <1>4 DEF Types, TypeOK, NoAsm, NoClient, Off, Reading, Pcs
<1>6. FreshInv'
  BY <1>3 DEF FreshInv, Untouched
<1> QED
  BY <1>3, <1>4, <1>5, <1>6 DEF Untouched

-----------------------------------------------------------------------------
(* Types.                                                                  *)

Tasks == [id : Nat, stream : Streams, st : {"running", "cancelled", "ended"}]
Clients == [id : Nat, last : -1..MaxLog]

\* What every way to close the client of a stream comes to.
Closes(s) ==
    /\ clients' \in [Streams -> Clients]
    /\ clients'[s].id = 0
    /\ \A r \in Streams : r # s => clients'[r] = clients[r]
    /\ tasks' \subseteq Tasks
    /\ \A u \in tasks' : \E t \in tasks :
          u.id = t.id /\ u.stream = t.stream /\ (u.st = t.st \/ u.id = clients[s].id)
    /\ closers' = closers \cup ({clients[s].id} \ {0})

\* The tasks T stay, and the one of connection c is cancelled.
Cancels(T, c) ==
    tasks' = {IF u.id = c /\ u.st = "running"
              THEN [u EXCEPT !.st = "cancelled"] ELSE u : u \in T}

\* Cancelling changes the state of the cancelled tasks only.
LEMMA CancelFacts ==
    ASSUME Types, NEW T \in SUBSET tasks, NEW c, Cancels(T, c)
    PROVE  /\ tasks' \subseteq Tasks
           /\ \A u \in tasks' : \E t \in tasks :
                 u.id = t.id /\ u.stream = t.stream /\ (u.st = t.st \/ u.id = c)
<1>1. SUFFICES ASSUME NEW u \in tasks'
      PROVE  /\ u \in Tasks
             /\ \E t \in tasks :
                 u.id = t.id /\ u.stream = t.stream /\ (u.st = t.st \/ u.id = c)
  OBVIOUS
<1>2. PICK t \in T : u = IF t.id = c /\ t.st = "running"
                         THEN [t EXCEPT !.st = "cancelled"] ELSE t
  BY <1>1 DEF Cancels
<1>3. t \in Tasks /\ t \in tasks
  BY DEF Types, TypeOK, Tasks
<1>4. CASE t.id = c /\ t.st = "running"
  <2>1. u = [t EXCEPT !.st = "cancelled"]
    BY <1>2, <1>4
  <2>2. u \in Tasks /\ u.id = t.id /\ u.stream = t.stream
    BY <2>1, <1>3 DEF Tasks
  <2> QED
    BY <2>2, <1>3, <1>4
<1>5. CASE ~(t.id = c /\ t.st = "running")
  BY <1>2, <1>3, <1>5
<1> QED
  BY <1>4, <1>5

\* A client that is removed, and no other.
LEMMA NoneFacts ==
    ASSUME Types, NEW s \in Streams, clients' = [clients EXCEPT ![s] = NoClient]
    PROVE  /\ clients' \in [Streams -> Clients]
           /\ clients'[s].id = 0
           /\ \A r \in Streams : r # s => clients'[r] = clients[r]
<1>1. clients \in [Streams -> Clients] /\ NoClient \in Clients /\ NoClient.id = 0
  BY AssumptionFacts DEF Types, TypeOK, Clients, NoClient
<1> QED
  BY <1>1

\* close_client untracks the client and cancels its task.
LEMMA CloseClientCloses ==
    ASSUME Types, NEW s \in Streams, CloseClient(s)
    PROVE  Closes(s)
<1>1. CASE clients[s].id = 0
  <2>1. clients' = clients /\ tasks' = tasks /\ closers' = closers
    BY <1>1 DEF CloseClient
  <2>2. clients \in [Streams -> Clients] /\ tasks \subseteq Tasks
    BY DEF Types, TypeOK, Clients, Tasks
  <2>3. closers' = closers \cup ({clients[s].id} \ {0})
    BY <2>1, <1>1
  <2> QED
    BY <2>1, <2>2, <2>3, <1>1 DEF Closes
<1>2. CASE clients[s].id # 0
  <2>1. PICK c : c = clients[s].id
    OBVIOUS
  <2>2. /\ clients' = [clients EXCEPT ![s] = NoClient]
        /\ Cancels(tasks, c)
        /\ closers' = closers \cup {c}
    BY <1>2, <2>1 DEF CloseClient, Cancels
  <2>3. /\ tasks' \subseteq Tasks
        /\ \A u \in tasks' : \E t \in tasks :
              u.id = t.id /\ u.stream = t.stream /\ (u.st = t.st \/ u.id = c)
    <3>1. tasks \in SUBSET tasks
      OBVIOUS
    <3> QED
      BY <2>2, <3>1, CancelFacts
  <2>4. /\ clients' \in [Streams -> Clients]
        /\ clients'[s].id = 0
        /\ \A r \in Streams : r # s => clients'[r] = clients[r]
    BY <2>2, NoneFacts
  <2>5. closers' = closers \cup ({clients[s].id} \ {0})
    BY <2>1, <2>2, <1>2
  <2> QED
    BY <2>1, <2>3, <2>4, <2>5 DEF Closes
<1> QED
  BY <1>1, <1>2

\* The clean-up of an ended task untracks the client of its stream.
LEMMA BookkeepCloses ==
    ASSUME Types, NEW t \in tasks, BookkeepTask(t)
    PROVE  Closes(t.stream) /\ t.stream \in Streams
<1>0. t \in Tasks
  BY DEF Types, TypeOK, Tasks
<1>1. PICK s \in Streams : s = t.stream
  BY <1>0 DEF Tasks
<1>2. PICK c : c = clients[s].id
  OBVIOUS
<1>3. /\ clients' = [clients EXCEPT ![s] = NoClient]
      /\ Cancels(tasks \ {t}, c)
      /\ closers' = IF c = 0 THEN closers ELSE closers \cup {c}
  BY <1>1, <1>2 DEF BookkeepTask, Cancels
<1>4. /\ tasks' \subseteq Tasks
      /\ \A u \in tasks' : \E v \in tasks :
            u.id = v.id /\ u.stream = v.stream /\ (u.st = v.st \/ u.id = c)
  <2>1. PICK T \in SUBSET tasks : T = tasks \ {t}
    OBVIOUS
  <2>2. Cancels(T, c)
    BY <2>1, <1>3
  <2> QED
    BY <2>2, CancelFacts
<1>5. /\ clients' \in [Streams -> Clients]
      /\ clients'[s].id = 0
      /\ \A r \in Streams : r # s => clients'[r] = clients[r]
  BY <1>3, NoneFacts
<1>6. closers' = closers \cup ({c} \ {0})
  BY <1>3
<1> QED
  BY <1>1, <1>2, <1>4, <1>5, <1>6 DEF Closes

\* The envelope in hand is one of the log.
LEMMA AtFacts ==
    ASSUME Types, ReaderInv, reader.at # 0
    PROVE  /\ reader.at \in 1..Len(log) /\ At \in Envelopes
           /\ At.stream \in Streams /\ At.seq \in 0..MaxLog
<1>1. reader.at = pos /\ pos \in 0..Len(log) /\ Len(log) \in Nat /\ log \in Seq(Envelopes)
  BY DEF ReaderInv, Scanned, Types, TypeOK
<1>2. reader.at \in 1..Len(log)
  BY <1>1
<1>3. At \in Envelopes
  BY <1>1, <1>2 DEF At
<1> QED
  BY <1>2, <1>3 DEF Envelopes

\* Closing the client of a stream, whatever the reader does then.
LEMMA ClosesTypes ==
    ASSUME Types, ConnInv, NEW s \in Streams, Closes(s)
    PROVE  /\ clients' \in [Streams -> [id : Nat, last : -1..MaxLog]]
           /\ tasks' \subseteq [id : Nat, stream : Streams,
                                st : {"running", "cancelled", "ended"}]
           /\ closers' \subseteq 1..Len(opened)
           /\ {clients[s].id} \ {0} \subseteq 1..Len(opened)
           /\ clients[s].id \in Nat
<1>1. {clients[s].id} \ {0} \subseteq 1..Len(opened)
  BY DEF ConnInv, TrackedIsNewest, Tracked
<1>2. closers \subseteq 1..Len(opened) /\ clients[s].id \in Nat
  BY DEF Types, TypeOK
<1> QED
  BY <1>1, <1>2 DEF Closes, Tasks, Clients

\* The reader's records at rest.
LEMMA ReadingFacts ==
    /\ Reading \in [pc : Pcs, at : 0..MaxLog, stream : Streams \cup {NoStream},
                    wait : Nat]
    /\ Reading.pc = "read" /\ Reading.at = 0
    /\ Off \in [pc : Pcs, at : 0..MaxLog, stream : Streams \cup {NoStream},
                wait : Nat]
    /\ Off.pc = "off" /\ Off.at = 0
  BY AssumptionFacts DEF Reading, Off, Pcs

\* The type invariant is preserved.
LEMMA TypesStep ==
    ASSUME Types, ReaderInv, ConnInv, LogInv, [Next]_vars,
           \A s \in Streams : ~ClientSends(s)
    PROVE  Types'
<1> USE AssumptionFacts
<1>1. CASE UNCHANGED vars
  BY <1>1 DEF vars, Types, TypeOK
<1>2. CASE Connect
  BY <1>2 DEF Connect, Types, TypeOK, trackerVars, segmentVars, Reading, Pcs
<1>3. CASE LoseWebsocket
  <2>1. /\ faults < MaxFaults /\ faults' = faults + 1 /\ conn' = FALSE
        /\ UNCHANGED <<log, pos, cursor, reader, trackerVars, segmentVars>>
    BY <1>3 DEF LoseWebsocket, MayFail
  <2>2. faults \in 0..MaxFaults
    BY DEF Types, TypeOK
  <2>3. faults' \in 0..MaxFaults
    BY <2>1, <2>2
  <2> QED
    BY <2>1, <2>3 DEF Types, TypeOK, trackerVars, segmentVars
<1>4. CASE ReaderStops
  BY <1>4, ReadingFacts DEF ReaderStops, Types, TypeOK, trackerVars, segmentVars
<1>5. CASE ReadEnvelope
  <2>0. /\ pos' = pos + 1 /\ pos < Len(log) /\ log' = log /\ conn' = conn
        /\ cursor' = cursor /\ trackerVars' = trackerVars
        /\ chunkDone' = chunkDone /\ faults' = faults
    BY <1>5 DEF ReadEnvelope
  <2>1. PICK e : e = log[pos + 1]
    OBVIOUS
  <2>2. e \in Envelopes /\ pos + 1 \in 1..Len(log) /\ pos + 1 <= MaxLog /\ pos \in Nat
    BY <2>0, <2>1 DEF Types, TypeOK
  <2>3. PICK h : h = [pc |-> "handle", at |-> pos + 1, stream |-> e.stream,
                      wait |-> 0]
    OBVIOUS
  <2>4. h \in [pc : Pcs, at : 0..MaxLog, stream : Streams \cup {NoStream},
               wait : Nat]
    BY <2>2, <2>3 DEF Pcs, Envelopes
  <2>5. (reader' = reader \/ reader' = h) /\ (asm' = asm \/ asm' = Assembled(e))
    BY <1>5, <2>1, <2>3 DEF ReadEnvelope
  <2>6. Assembled(e) \in [stream : Streams \cup {NoStream}, seq : 0..MaxLog,
                          next : 0..1]
    <3>1. asm \in [stream : Streams \cup {NoStream}, seq : 0..MaxLog, next : 0..1]
      BY DEF Types, TypeOK
    <3> QED
      BY <3>1, <2>2 DEF Assembled, Envelopes, NoAsm
  <2>7. /\ reader' \in [pc : Pcs, at : 0..MaxLog, stream : Streams \cup {NoStream},
                        wait : Nat]
        /\ asm' \in [stream : Streams \cup {NoStream}, seq : 0..MaxLog, next : 0..1]
    BY <2>4, <2>5, <2>6 DEF Types, TypeOK
  <2>8. pos' \in 0..Len(log)
    BY <2>0, <2>2
  <2> QED
    BY <2>0, <2>7, <2>8 DEF Types, TypeOK, trackerVars
<1>6. CASE HandleMessage
  <2>1. PICK p \in {"record", "forward"} : reader' = [reader EXCEPT !.pc = p]
    BY <1>6 DEF HandleMessage, GoTo
  <2> QED
    BY <2>1, <1>6 DEF HandleMessage, Types, TypeOK, trackerVars, segmentVars, Pcs
<1>7. ASSUME HandleInitialize \/ HandleClientClosed
      PROVE  Types'
  <2>1. PICK s : s = At.stream
    OBVIOUS
  <2>2. /\ CloseClient(s) /\ why' = why \cup ({clients[s].id} \ {0})
        /\ reader' = [reader EXCEPT !.pc = "closing", !.wait = clients[s].id]
        /\ reader.pc = "handle"
        /\ UNCHANGED <<log, conn, pos, cursor, nextId, opened, closed, delivered,
                   segmentVars, faults>>
    BY <1>7, <2>1 DEF HandleInitialize, HandleClientClosed
  <2>3. s \in Streams
    BY <2>1, <2>2, AtFacts DEF ReaderInv, AtAwait
  <2>4. Closes(s)
    BY <2>2, <2>3, CloseClientCloses
  <2>5. PICK c : c = clients[s].id
    OBVIOUS
  <2>6. /\ clients' \in [Streams -> [id : Nat, last : -1..MaxLog]]
        /\ tasks' \subseteq [id : Nat, stream : Streams,
                             st : {"running", "cancelled", "ended"}]
        /\ closers' \subseteq 1..Len(opened)
        /\ {c} \ {0} \subseteq 1..Len(opened)
        /\ c \in Nat
    BY <2>3, <2>4, <2>5, ClosesTypes
  <2>7. /\ why' = why \cup ({c} \ {0})
        /\ reader' = [reader EXCEPT !.pc = "closing", !.wait = c]
    BY <2>2, <2>5
  <2>8. reader' \in [pc : Pcs, at : 0..MaxLog, stream : Streams \cup {NoStream},
                     wait : Nat]
    BY <2>6, <2>7 DEF Types, TypeOK, Pcs
  <2>9. closers' \cup why' \subseteq 1..Len(opened)
    BY <2>6, <2>7 DEF Types, TypeOK
  <2> QED
    BY <2>2, <2>6, <2>8, <2>9 DEF Types, TypeOK, segmentVars
<1>8. CASE CloseReturns
  <2>1. /\ UNCHANGED <<log, conn, pos, cursor, trackerVars, faults>>
        /\ reader.pc = "closing"
    BY <1>8 DEF CloseReturns
  <2>2. /\ reader' \in [pc : Pcs, at : 0..MaxLog, stream : Streams \cup {NoStream},
                        wait : Nat]
        /\ asm' \in [stream : Streams \cup {NoStream}, seq : 0..MaxLog, next : 0..1]
        /\ chunkDone' \in [Streams -> -1..MaxLog]
    <3>1. CASE reader.at = 0
      <4>1. PICK s : s = reader.stream
        OBVIOUS
      <4>2. reader' = Reading /\ Invalidate(s)
        BY <3>1, <4>1, <1>8 DEF CloseReturns
      <4>3. asm' = (IF asm.stream = s THEN NoAsm ELSE asm)
            /\ chunkDone' = [chunkDone EXCEPT ![s] = -1]
        BY <4>2 DEF Invalidate
      <4>4. -1 \in -1..MaxLog /\ chunkDone \in [Streams -> -1..MaxLog]
        BY DEF Types, TypeOK
      <4>5. chunkDone' \in [Streams -> -1..MaxLog]
        BY <4>3, <4>4
      <4> QED
        BY <4>2, <4>3, <4>5 DEF Types, TypeOK, Reading, Pcs, NoAsm
    <3>2. CASE reader.at # 0
      <4>1. PICK p \in {"open", "record"} : reader' = [reader EXCEPT !.pc = p]
        BY <3>2, <1>8 DEF CloseReturns, GoTo
      <4>2. asm' = asm /\ chunkDone' = chunkDone
        BY <3>2, <1>8 DEF CloseReturns, segmentVars
      <4> QED
        BY <4>1, <4>2 DEF Types, TypeOK, Pcs
    <3> QED
      BY <3>1, <3>2
  <2> QED
    BY <2>1, <2>2 DEF Types, TypeOK, trackerVars
<1>9. CASE OpenConnection
  <2>1. PICK s : s = At.stream
    OBVIOUS
  <2>2. /\ opened' = Append(opened, s) /\ closed' = Append(closed, 0)
        /\ clients' = [clients EXCEPT ![s] = [id |-> nextId, last |-> -1]]
        /\ tasks' = tasks \cup {[id |-> nextId, stream |-> s, st |-> "running"]}
        /\ nextId' = nextId + 1
        /\ reader' = [reader EXCEPT !.pc = "forward"]
        /\ reader.pc = "open"
        /\ UNCHANGED <<log, conn, pos, cursor, closers, delivered, why, asm,
                       chunkDone, faults>>
    BY <1>9, <2>1 DEF OpenConnection, GoTo, segmentVars
  <2>3. s \in Streams
    BY <2>1, <2>2, AtFacts DEF ReaderInv, AtAwait
  <2>4. /\ opened \in Seq(Streams) /\ closed \in Seq(Nat) /\ Len(closed) = Len(opened)
        /\ nextId = Len(opened) + 1 /\ Len(opened) \in Nat
    BY DEF Types, TypeOK
  <2>5. /\ opened' \in Seq(Streams) /\ closed' \in Seq(Nat)
        /\ Len(closed') = Len(opened') /\ Len(opened') = Len(opened) + 1
    BY <2>2, <2>3, <2>4
  <2>6. PICK n \in Nat : n = nextId
    BY <2>4
  <2>7. clients' \in [Streams -> [id : Nat, last : -1..MaxLog]]
    <3>1. clients' = [clients EXCEPT ![s] = [id |-> n, last |-> -1]]
      BY <2>2, <2>6
    <3>2. clients \in [Streams -> [id : Nat, last : -1..MaxLog]]
      BY DEF Types, TypeOK
    <3>3. [id |-> n, last |-> -1] \in [id : Nat, last : -1..MaxLog]
      OBVIOUS
    <3> QED
      BY <3>1, <3>2, <3>3
  <2>8. tasks' \subseteq [id : Nat, stream : Streams,
                          st : {"running", "cancelled", "ended"}]
    <3>1. tasks' = tasks \cup {[id |-> n, stream |-> s, st |-> "running"]}
      BY <2>2, <2>6
    <3>2. [id |-> n, stream |-> s, st |-> "running"]
            \in [id : Nat, stream : Streams, st : {"running", "cancelled", "ended"}]
      BY <2>3
    <3>3. tasks \subseteq [id : Nat, stream : Streams,
                           st : {"running", "cancelled", "ended"}]
      BY DEF Types, TypeOK
    <3> QED
      BY <3>1, <3>2, <3>3
  <2>9. reader' \in [pc : Pcs, at : 0..MaxLog, stream : Streams \cup {NoStream},
                     wait : Nat]
    BY <2>2 DEF Types, TypeOK, Pcs
  <2>10. closers' \cup why' \subseteq 1..Len(opened')
    <3>1. closers' = closers /\ why' = why
      BY <2>2
    <3>2. 1..Len(opened) \subseteq 1..Len(opened')
      BY <2>4, <2>5
    <3> QED
      BY <3>1, <3>2 DEF Types, TypeOK
  <2>11. nextId' = Len(opened') + 1
    BY <2>2, <2>4, <2>5
  <2>12. /\ log' = log /\ conn' = conn /\ pos' = pos /\ cursor' = cursor
         /\ delivered' = delivered /\ asm' = asm /\ chunkDone' = chunkDone
         /\ faults' = faults
    BY <2>2
  <2> QED
    BY <2>5, <2>7, <2>8, <2>9, <2>10, <2>11, <2>12 DEF Types, TypeOK
<1>10. CASE ForwardMessage
  <2>1. PICK s, n, q : s = At.stream /\ n = reader.at /\ q = At.seq
    OBVIOUS
  <2>2. /\ delivered' = Append(delivered, [id |-> clients[s].id, at |-> n])
        /\ clients' = [clients EXCEPT ![s].last = q]
        /\ reader' = [reader EXCEPT !.pc = "record"] /\ reader.pc = "forward"
        /\ UNCHANGED <<log, conn, pos, cursor, tasks, nextId, closers, opened,
                       closed, why, asm, chunkDone, faults>>
    BY <1>10, <2>1 DEF ForwardMessage, GoTo, segmentVars
  <2>3. s \in Streams /\ n \in Nat /\ q \in 0..MaxLog
    BY <2>1, <2>2, AtFacts, SMTT(30) DEF ReaderInv, AtAwait, Types, TypeOK
  <2>4. /\ clients \in [Streams -> [id : Nat, last : -1..MaxLog]]
        /\ delivered \in Seq([id : Nat, at : Nat])
    BY DEF Types, TypeOK
  <2>5. clients' \in [Streams -> [id : Nat, last : -1..MaxLog]]
    BY <2>2, <2>3, <2>4
  <2>6. delivered' \in Seq([id : Nat, at : Nat])
    <3>1. [id |-> clients[s].id, at |-> n] \in [id : Nat, at : Nat]
      BY <2>3, <2>4
    <3> QED
      BY <3>1, <2>2, <2>4
  <2>7. reader' \in [pc : Pcs, at : 0..MaxLog, stream : Streams \cup {NoStream},
                     wait : Nat]
    BY <2>2 DEF Types, TypeOK, Pcs
  <2>8. /\ log' = log /\ conn' = conn /\ pos' = pos /\ cursor' = cursor
        /\ tasks' = tasks /\ nextId' = nextId /\ closers' = closers
        /\ opened' = opened /\ closed' = closed /\ why' = why /\ asm' = asm
        /\ chunkDone' = chunkDone /\ faults' = faults
    BY <2>2
  <2> QED
    BY <2>5, <2>6, <2>7, <2>8 DEF Types, TypeOK
<1>11. CASE SendTimesOut
  <2>1. PICK s : s = At.stream
    OBVIOUS
  <2>2. /\ reader.pc \in {"open", "forward"} /\ reader' = Off /\ conn' = FALSE
        /\ faults < MaxFaults /\ faults' = faults + 1
        /\ log' = log /\ pos' = pos /\ cursor' = cursor /\ nextId' = nextId
        /\ opened' = opened /\ closed' = closed /\ delivered' = delivered
        /\ asm' = asm /\ chunkDone' = chunkDone
    BY <1>11 DEF SendTimesOut, MayFail, segmentVars
  <2>3. s \in Streams
    BY <2>1, <2>2, AtFacts DEF ReaderInv, AtAwait
  <2>6. faults' \in 0..MaxFaults
    BY <2>2 DEF Types, TypeOK
  <2>4. CASE reader.pc = "forward" /\ At.kind = "init"
    <3>1. CloseClient(s) /\ why' = why \cup {clients[s].id}
      BY <2>4, <1>11, <2>1 DEF SendTimesOut
    <3>2. clients[s].id # 0
      BY <2>1, <2>4 DEF ReaderInv, AtAwait, Tracked
    <3>3. /\ clients' \in [Streams -> [id : Nat, last : -1..MaxLog]]
          /\ tasks' \subseteq [id : Nat, stream : Streams,
                               st : {"running", "cancelled", "ended"}]
          /\ closers' \subseteq 1..Len(opened)
          /\ {clients[s].id} \ {0} \subseteq 1..Len(opened)
      BY <2>3, <3>1, CloseClientCloses, ClosesTypes
    <3>4. closers' \cup why' \subseteq 1..Len(opened)
      BY <3>1, <3>2, <3>3 DEF Types, TypeOK
    <3> QED
      BY <2>2, <2>6, <3>3, <3>4, ReadingFacts DEF Types, TypeOK
  <2>5. CASE ~(reader.pc = "forward" /\ At.kind = "init")
    <3>1. UNCHANGED <<clients, tasks, closers, why>>
      BY <2>5, <1>11 DEF SendTimesOut
    <3> QED
      BY <2>2, <2>6, <3>1, ReadingFacts DEF Types, TypeOK
  <2> QED
    BY <2>4, <2>5
<1>12. CASE RecordDelivery
  <2>1. PICK s, n, q : s = At.stream /\ n = reader.at /\ q = At.seq
    OBVIOUS
  <2>2. /\ cursor' = n /\ reader' = Reading /\ reader.pc = "record"
        /\ UNCHANGED <<log, conn, pos, trackerVars, faults>>
        /\ \/ Invalidate(s)
           \/ asm' = asm /\ chunkDone' \in {chunkDone, [chunkDone EXCEPT ![s] = q]}
    BY <1>12, <2>1 DEF RecordDelivery
  <2>3. s \in Streams /\ n \in 1..Len(log) /\ q \in 0..MaxLog
    BY <2>1, <2>2, AtFacts DEF ReaderInv, AtAwait
  <2>4. /\ asm' \in [stream : Streams \cup {NoStream}, seq : 0..MaxLog, next : 0..1]
        /\ chunkDone' \in [Streams -> -1..MaxLog]
    <3>1. /\ chunkDone \in [Streams -> -1..MaxLog] /\ -1 \in -1..MaxLog
          /\ q \in -1..MaxLog
      BY <2>3 DEF Types, TypeOK
    <3>2. /\ [chunkDone EXCEPT ![s] = q] \in [Streams -> -1..MaxLog]
          /\ [chunkDone EXCEPT ![s] = -1] \in [Streams -> -1..MaxLog]
      BY <3>1
    <3>3. asm' = asm \/ asm' = NoAsm
      BY <2>2 DEF Invalidate
    <3>4. chunkDone' \in [Streams -> -1..MaxLog]
      BY <2>2, <3>1, <3>2 DEF Invalidate
    <3> QED
      BY <3>3, <3>4 DEF Types, TypeOK, NoAsm
  <2>5. cursor' \in 0..Len(log)
    BY <2>2, <2>3
  <2> QED
    BY <2>2, <2>4, <2>5 DEF Types, TypeOK, Reading, Pcs, trackerVars
<1>13. ASSUME NEW s \in Streams, SweepIdle(s)
       PROVE  Types'
  <2>1. PICK c : c = clients[s].id
    OBVIOUS
  <2>2. /\ CloseClient(s) /\ why' = why \cup {c} /\ c # 0
        /\ faults < MaxFaults /\ faults' = faults + 1
        /\ reader' = [pc |-> "closing", at |-> 0, stream |-> s, wait |-> c]
        /\ log' = log /\ pos' = pos /\ cursor' = cursor /\ nextId' = nextId
        /\ opened' = opened /\ closed' = closed /\ delivered' = delivered
        /\ asm' = asm /\ chunkDone' = chunkDone /\ conn' = conn
    BY <1>13, <2>1 DEF SweepIdle, MayFail, segmentVars
  <2>3. /\ clients' \in [Streams -> [id : Nat, last : -1..MaxLog]]
        /\ tasks' \subseteq [id : Nat, stream : Streams,
                             st : {"running", "cancelled", "ended"}]
        /\ closers' \subseteq 1..Len(opened)
        /\ {c} \ {0} \subseteq 1..Len(opened) /\ c \in Nat
    BY <2>1, <2>2, CloseClientCloses, ClosesTypes
  <2>4. closers' \cup why' \subseteq 1..Len(opened)
    BY <2>2, <2>3 DEF Types, TypeOK
  <2>5. reader' \in [pc : Pcs, at : 0..MaxLog, stream : Streams \cup {NoStream},
                     wait : Nat]
    BY <2>2, <2>3 DEF Pcs
  <2>6. faults' \in 0..MaxFaults
    BY <2>2 DEF Types, TypeOK
  <2> QED
    BY <2>2, <2>3, <2>4, <2>5, <2>6 DEF Types, TypeOK
<1>14. ASSUME NEW t \in tasks, TaskEnds(t) \/ AppDisconnects(t)
       PROVE  Types'
  <2>1. PICK z \in {"cancelled", "ended"} :
           tasks' = (tasks \ {t}) \cup {[t EXCEPT !.st = z]}
    BY <1>14 DEF TaskEnds, AppDisconnects
  <2>2. /\ log' = log /\ pos' = pos /\ cursor' = cursor /\ nextId' = nextId
        /\ opened' = opened /\ closed' = closed /\ delivered' = delivered
        /\ asm' = asm /\ chunkDone' = chunkDone /\ conn' = conn /\ reader' = reader
        /\ clients' = clients /\ closers' = closers
        /\ (why' = why \/ why' = why \cup {t.id})
        /\ (faults' = faults \/ (faults < MaxFaults /\ faults' = faults + 1))
    BY <1>14 DEF TaskEnds, AppDisconnects, MayFail, segmentVars
  <2>3. t.id \in 1..Len(opened)
    BY DEF ConnInv, TasksExcused
  <2>4. tasks' \subseteq [id : Nat, stream : Streams,
                          st : {"running", "cancelled", "ended"}]
    <3>1. t \in [id : Nat, stream : Streams, st : {"running", "cancelled", "ended"}]
      BY DEF Types, TypeOK
    <3>2. [t EXCEPT !.st = z] \in [id : Nat, stream : Streams,
                                   st : {"running", "cancelled", "ended"}]
      BY <3>1
    <3> QED
      BY <3>2, <2>1 DEF Types, TypeOK
  <2>5. closers' \cup why' \subseteq 1..Len(opened) /\ faults' \in 0..MaxFaults
    BY <2>2, <2>3, SMTT(30) DEF Types, TypeOK
  <2> QED
    BY <2>2, <2>4, <2>5 DEF Types, TypeOK
<1>15. ASSUME NEW t \in tasks, BookkeepTask(t)
       PROVE  Types'
  <2>1. PICK s : s = t.stream
    OBVIOUS
  <2>2. /\ reader' = [pc |-> "closing", at |-> 0, stream |-> s,
                      wait |-> clients[s].id]
        /\ log' = log /\ pos' = pos /\ cursor' = cursor /\ nextId' = nextId
        /\ opened' = opened /\ closed' = closed /\ delivered' = delivered
        /\ asm' = asm /\ chunkDone' = chunkDone /\ conn' = conn /\ why' = why
        /\ faults' = faults
    BY <1>15, <2>1 DEF BookkeepTask, segmentVars
  <2>3. s \in Streams /\ Closes(s)
    BY <1>15, <2>1, BookkeepCloses
  <2>4. /\ clients' \in [Streams -> [id : Nat, last : -1..MaxLog]]
        /\ tasks' \subseteq [id : Nat, stream : Streams,
                             st : {"running", "cancelled", "ended"}]
        /\ closers' \subseteq 1..Len(opened)
        /\ clients[s].id \in Nat
    BY <2>3, ClosesTypes
  <2>5. reader' \in [pc : Pcs, at : 0..MaxLog, stream : Streams \cup {NoStream},
                     wait : Nat]
    BY <2>2, <2>3, <2>4 DEF Pcs
  <2>6. closers' \cup why' \subseteq 1..Len(opened)
    BY <2>2, <2>4 DEF Types, TypeOK
  <2> QED
    BY <2>2, <2>4, <2>5, <2>6 DEF Types, TypeOK
<1>16. ASSUME NEW c \in closers, CloserSends(c)
       PROVE  Types'
  <2>1. /\ closers' = closers \ {c} /\ closed' = [closed EXCEPT ![c] = @ + 1]
        /\ log' = log /\ pos' = pos /\ cursor' = cursor /\ nextId' = nextId
        /\ opened' = opened /\ delivered' = delivered /\ clients' = clients
        /\ asm' = asm /\ chunkDone' = chunkDone /\ conn' = conn /\ why' = why
        /\ faults' = faults /\ reader' = reader /\ tasks' = tasks
    BY <1>16 DEF CloserSends, segmentVars
  <2>2. closed \in Seq(Nat) /\ c \in 1..Len(closed) /\ Len(closed) = Len(opened)
    BY DEF Types, TypeOK
  <2>3. closed' \in Seq(Nat) /\ Len(closed') = Len(closed)
    BY <2>1, <2>2
  <2> QED
    BY <2>1, <2>2, <2>3 DEF Types, TypeOK
<1> QED
  BY <1>1, <1>2, <1>3, <1>4, <1>5, <1>6, <1>7, <1>8, <1>9, <1>10, <1>11, <1>12,
     <1>13, <1>14, <1>15, <1>16 DEF Next, ReaderStep

-----------------------------------------------------------------------------
(* What the steps of the reader do, field by field.                        *)

\* The reader is at await p of the same envelope.
Moves(p) ==
    /\ reader'.pc = p /\ reader'.at = reader.at /\ reader'.stream = reader.stream

\* GoTo moves the reader only.
LEMMA GoToMoves ==
    ASSUME Types, NEW p \in Pcs, GoTo(p)
    PROVE  Moves(p)
  BY DEF Types, TypeOK, GoTo, Moves

\* Nothing of the connections changes.
SameConns ==
    /\ clients' = clients /\ tasks' = tasks /\ closers' = closers
    /\ opened' = opened /\ closed' = closed /\ delivered' = delivered
    /\ why' = why /\ nextId' = nextId

SamePlace == log' = log /\ pos' = pos /\ cursor' = cursor

\* handle_message, up to its first await.
LEMMA HandleEffect ==
    ASSUME Types, ReaderInv, HandleInitialize \/ HandleClientClosed
    PROVE  \E s \in Streams :
              /\ s = At.stream /\ Closes(s) /\ Moves("closing")
              /\ reader.pc = "handle" /\ reader.at # 0
              /\ At.kind \in {"init", "closed"}
              /\ why' = why \cup ({clients[s].id} \ {0})
              /\ SamePlace /\ opened' = opened /\ closed' = closed
              /\ delivered' = delivered /\ asm' = asm /\ chunkDone' = chunkDone
<1>1. PICK s : s = At.stream
  OBVIOUS
<1>2. /\ CloseClient(s) /\ why' = why \cup ({clients[s].id} \ {0})
      /\ reader' = [reader EXCEPT !.pc = "closing", !.wait = clients[s].id]
      /\ reader.pc = "handle" /\ At.kind \in {"init", "closed"}
      /\ SamePlace /\ opened' = opened /\ closed' = closed
      /\ delivered' = delivered /\ asm' = asm /\ chunkDone' = chunkDone
  BY <1>1 DEF HandleInitialize, HandleClientClosed, SamePlace, segmentVars
<1>3. reader.at # 0 /\ s \in Streams
  BY <1>1, <1>2, AtFacts DEF ReaderInv, AtAwait
<1>4. Moves("closing")
  BY <1>2 DEF Types, TypeOK, Moves
<1>5. Closes(s)
  BY <1>2, <1>3, CloseClientCloses
<1> QED
  BY <1>1, <1>2, <1>3, <1>4, <1>5

\* An envelope is read.
LEMMA ReadEffect ==
    ASSUME Types, ReaderInv, ReadEnvelope
    PROVE  /\ reader.pc = "read" /\ reader.at = 0 /\ pos \in 0..(Len(log) - 1)
           /\ log' = log /\ cursor' = cursor /\ pos' = pos + 1
           /\ SameConns /\ chunkDone' = chunkDone
           /\ \/ /\ reader'.pc = "handle" /\ reader'.at = pos + 1
                 /\ reader'.stream = log[pos + 1].stream
                 /\ \/ log[pos + 1].kind # "chunk" /\ asm' = asm
                    \/ /\ log[pos + 1].kind = "chunk" /\ log[pos + 1].seg = 1
                       /\ asm.stream = log[pos + 1].stream
                       /\ asm' = Assembled(log[pos + 1])
              \/ /\ reader' = reader /\ log[pos + 1].kind = "chunk"
                 /\ \/ Replayed(log[pos + 1]) /\ asm' = asm
                    \/ /\ ~Replayed(log[pos + 1]) /\ ~Completes(log[pos + 1])
                       /\ asm' = Assembled(log[pos + 1])
<1>1. /\ reader.pc = "read" /\ reader.at = 0 /\ pos' = pos + 1
      /\ log' = log /\ cursor' = cursor /\ SameConns /\ chunkDone' = chunkDone
  BY DEF ReadEnvelope, ReaderInv, AtAwait, SameConns, trackerVars
<1>2. pos \in 0..(Len(log) - 1)
  BY DEF ReadEnvelope, Types, TypeOK
<1>3. PICK e : e = log[pos + 1]
  OBVIOUS
<1>4. PICK h : h = [pc |-> "handle", at |-> pos + 1, stream |-> e.stream,
                    wait |-> 0]
  OBVIOUS
<1>5. h.pc = "handle" /\ h.at = pos + 1 /\ h.stream = e.stream
  BY <1>4
<1>6. IF e.kind # "chunk" THEN reader' = h /\ asm' = asm
      ELSE IF Replayed(e) THEN reader' = reader /\ asm' = asm
      ELSE asm' = Assembled(e) /\ reader' = IF Completes(e) THEN h ELSE reader
  BY <1>3, <1>4 DEF ReadEnvelope
<1>7. Completes(e) => asm.stream = e.stream /\ e.seg = 1
  BY DEF Completes
<1> QED
  BY <1>1, <1>2, <1>3, <1>5, <1>6, <1>7

\* A close that the reader waited for returns.
LEMMA ReturnEffect ==
    ASSUME Types, ReaderInv, CloseReturns
    PROVE  /\ reader.pc = "closing" /\ SamePlace /\ SameConns
           /\ \/ reader.at = 0 /\ reader' = Reading /\ Invalidate(reader.stream)
              \/ /\ reader.at # 0 /\ asm' = asm /\ chunkDone' = chunkDone
                 /\ \/ At.kind = "init" /\ Moves("open")
                    \/ At.kind = "closed" /\ Moves("record")
<1>1. reader.pc = "closing" /\ SamePlace /\ SameConns
  BY DEF CloseReturns, SamePlace, SameConns, trackerVars
<1>2. CASE reader.at = 0
  BY <1>1, <1>2 DEF CloseReturns
<1>3. CASE reader.at # 0
  <2>1. At.kind \in {"init", "closed"}
    BY <1>1, <1>3 DEF ReaderInv, AtAwait
  <2>2. GoTo(IF At.kind = "init" THEN "open" ELSE "record")
        /\ asm' = asm /\ chunkDone' = chunkDone
    BY <1>3 DEF CloseReturns, segmentVars
  <2>3. "open" \in Pcs /\ "record" \in Pcs
    BY DEF Pcs
  <2> QED
    BY <1>1, <1>3, <2>1, <2>2, <2>3, GoToMoves
<1> QED
  BY <1>2, <1>3

\* A message for a known client.
LEMMA MessageEffect ==
    ASSUME Types, ReaderInv, HandleMessage
    PROVE  /\ reader.pc = "handle" /\ reader.at # 0 /\ SamePlace /\ SameConns
           /\ At.kind \in {"msg", "chunk", "ack"}
      /\ asm' = asm /\ chunkDone' = chunkDone
           /\ IF \/ At.kind = "ack" \/ ~Tracked(At.stream)
                 \/ clients[At.stream].last >= At.seq
              THEN Moves("record") ELSE Moves("forward")
<1>1. /\ reader.pc = "handle" /\ SamePlace /\ SameConns
      /\ At.kind \in {"msg", "chunk", "ack"}
      /\ asm' = asm /\ chunkDone' = chunkDone
      /\ GoTo(IF \/ At.kind = "ack" \/ clients[At.stream].id = 0
                 \/ clients[At.stream].last >= At.seq
              THEN "record" ELSE "forward")
  BY DEF HandleMessage, SamePlace, SameConns, trackerVars, segmentVars
<1>2. reader.at # 0
  BY <1>1 DEF ReaderInv, AtAwait
<1>3. "forward" \in Pcs /\ "record" \in Pcs
  BY DEF Pcs
<1> QED
  BY <1>1, <1>2, <1>3, GoToMoves DEF Tracked

\* The connection of an initialize is opened.
LEMMA OpenEffect ==
    ASSUME Types, ReaderInv, OpenConnection
    PROVE  \E s \in Streams :
              /\ s = At.stream /\ ~Tracked(s) /\ Moves("forward")
              /\ reader.pc = "open" /\ reader.at # 0 /\ At.kind = "init"
              /\ clients'[s].id = Len(opened) + 1 /\ clients'[s].last = -1
              /\ \A r \in Streams : r # s => clients'[r] = clients[r]
              /\ \A t \in tasks' : t \in tasks \/
                    (t.id = Len(opened) + 1 /\ t.stream = s /\ t.st = "running")
              /\ Len(opened') = Len(opened) + 1 /\ opened'[Len(opened) + 1] = s
              /\ \A c \in 1..Len(opened) : opened'[c] = opened[c] /\ closed'[c] = closed[c]
              /\ closed'[Len(opened) + 1] = 0
              /\ closers' = closers /\ why' = why
              /\ SamePlace /\ delivered' = delivered
              /\ asm' = asm /\ chunkDone' = chunkDone
<1>1. PICK s : s = At.stream
  OBVIOUS
<1>2. /\ opened' = Append(opened, s) /\ closed' = Append(closed, 0)
      /\ clients' = [clients EXCEPT ![s] = [id |-> nextId, last |-> -1]]
      /\ tasks' = tasks \cup {[id |-> nextId, stream |-> s, st |-> "running"]}
      /\ GoTo("forward")
      /\ reader.pc = "open" /\ SamePlace /\ delivered' = delivered
      /\ closers' = closers /\ why' = why /\ asm' = asm /\ chunkDone' = chunkDone
  BY <1>1 DEF OpenConnection, segmentVars, SamePlace
<1>3. s \in Streams /\ reader.at # 0 /\ At.kind = "init" /\ ~Tracked(s)
  BY <1>1, <1>2, AtFacts DEF ReaderInv, AtAwait
<1>4. /\ opened \in Seq(Streams) /\ closed \in Seq(Nat) /\ Len(closed) = Len(opened)
      /\ nextId = Len(opened) + 1 /\ clients \in [Streams -> Clients]
  BY DEF Types, TypeOK, Clients
<1>5. /\ Len(opened') = Len(opened) + 1 /\ opened'[Len(opened) + 1] = s
      /\ \A c \in 1..Len(opened) : opened'[c] = opened[c] /\ closed'[c] = closed[c]
      /\ closed'[Len(opened) + 1] = 0
  BY <1>2, <1>3, <1>4
<1>6. /\ clients'[s].id = Len(opened) + 1 /\ clients'[s].last = -1
      /\ \A r \in Streams : r # s => clients'[r] = clients[r]
  BY <1>2, <1>3, <1>4
<1>7. \A t \in tasks' : t \in tasks \/
          (t.id = Len(opened) + 1 /\ t.stream = s /\ t.st = "running")
  BY <1>2, <1>4
<1>8. Moves("forward")
  BY <1>2, GoToMoves DEF Pcs
<1> QED
  BY <1>1, <1>2, <1>3, <1>5, <1>6, <1>7, <1>8

\* A message is forwarded to the app server.
LEMMA ForwardEffect ==
    ASSUME Types, ReaderInv, ForwardMessage
    PROVE  \E s \in Streams :
              /\ s = At.stream /\ Moves("record") /\ reader.pc = "forward"
              /\ reader.at # 0 /\ Tracked(s)
              /\ clients[s].last < At.seq /\ At.kind # "closed"
              /\ At.kind = "init" => clients[s].last = -1
              /\ clients'[s].id = clients[s].id /\ clients'[s].last = At.seq
              /\ \A r \in Streams : r # s => clients'[r] = clients[r]
              /\ Len(delivered') = Len(delivered) + 1
              /\ \A i \in 1..Len(delivered) : delivered'[i] = delivered[i]
              /\ delivered'[Len(delivered) + 1].id = clients[s].id
              /\ delivered'[Len(delivered) + 1].at = reader.at
              /\ tasks' = tasks /\ closers' = closers /\ opened' = opened
              /\ closed' = closed /\ why' = why
              /\ SamePlace /\ asm' = asm /\ chunkDone' = chunkDone
<1>1. PICK s, n, q : s = At.stream /\ n = reader.at /\ q = At.seq
  OBVIOUS
<1>2. /\ delivered' = Append(delivered, [id |-> clients[s].id, at |-> n])
      /\ clients' = [clients EXCEPT ![s].last = q]
      /\ GoTo("record") /\ reader.pc = "forward"
      /\ tasks' = tasks /\ closers' = closers /\ opened' = opened
      /\ closed' = closed /\ why' = why
      /\ SamePlace /\ asm' = asm /\ chunkDone' = chunkDone
  BY <1>1 DEF ForwardMessage, segmentVars, SamePlace
<1>3. /\ s \in Streams /\ reader.at # 0 /\ Tracked(s)
      /\ clients[s].last < q /\ At.kind # "closed"
      /\ At.kind = "init" => clients[s].last = -1
  BY <1>1, <1>2, AtFacts DEF ReaderInv, AtAwait
<1>4. /\ clients \in [Streams -> Clients] /\ delivered \in Seq([id : Nat, at : Nat])
  BY DEF Types, TypeOK, Clients
<1>5. /\ clients'[s].id = clients[s].id /\ clients'[s].last = q
      /\ \A r \in Streams : r # s => clients'[r] = clients[r]
  BY <1>2, <1>3, <1>4 DEF Clients
<1>6. PICK d : d = [id |-> clients[s].id, at |-> n]
  OBVIOUS
<1>7. d.id = clients[s].id /\ d.at = n /\ delivered' = Append(delivered, d)
  BY <1>2, <1>6
<1>8. /\ Len(delivered') = Len(delivered) + 1
      /\ \A i \in 1..Len(delivered) : delivered'[i] = delivered[i]
      /\ delivered'[Len(delivered) + 1] = d
  BY <1>7, <1>4
<1>9. Moves("record")
  BY <1>2, GoToMoves DEF Pcs
<1> QED
  BY <1>1, <1>2, <1>3, <1>5, <1>7, <1>8, <1>9

\* The event queue stays full for too long.
LEMMA TimeoutEffect ==
    ASSUME Types, ReaderInv, SendTimesOut
    PROVE  \E s \in Streams :
              /\ s = At.stream /\ reader.at # 0 /\ reader' = Off
              /\ reader.pc \in {"open", "forward"}
              /\ SamePlace /\ opened' = opened /\ closed' = closed
              /\ delivered' = delivered /\ asm' = asm /\ chunkDone' = chunkDone
              /\ \/ SameConns
                 \/ /\ Tracked(s) /\ Closes(s) /\ why' = why \cup {clients[s].id}
<1>1. PICK s : s = At.stream
  OBVIOUS
<1>2. /\ reader' = Off /\ reader.pc \in {"open", "forward"}
      /\ SamePlace /\ opened' = opened /\ closed' = closed
      /\ delivered' = delivered /\ asm' = asm /\ chunkDone' = chunkDone
      /\ nextId' = nextId
  BY DEF SendTimesOut, segmentVars, SamePlace
<1>3. s \in Streams /\ reader.at # 0
  BY <1>1, <1>2, AtFacts DEF ReaderInv, AtAwait
<1>4. CASE reader.pc = "forward" /\ At.kind = "init"
  <2>1. CloseClient(s) /\ why' = why \cup {clients[s].id}
    BY <1>1, <1>4 DEF SendTimesOut
  <2>2. Tracked(s)
    BY <1>1, <1>4 DEF ReaderInv, AtAwait
  <2>3. Closes(s)
    BY <1>3, <2>1, CloseClientCloses
  <2> QED
    BY <1>1, <1>2, <1>3, <2>1, <2>2, <2>3
<1>5. CASE ~(reader.pc = "forward" /\ At.kind = "init")
  <2>1. SameConns
    BY <1>2, <1>5 DEF SendTimesOut, SameConns
  <2> QED
    BY <1>1, <1>2, <1>3, <2>1
<1> QED
  BY <1>4, <1>5

\* The delivery is recorded: cursors and the client's last number.
LEMMA RecordEffect ==
    ASSUME Types, ReaderInv, RecordDelivery
    PROVE  \E s \in Streams :
              /\ s = At.stream /\ reader.at # 0 /\ reader.pc = "record"
              /\ reader' = Reading /\ log' = log /\ pos' = pos
              /\ cursor' = reader.at /\ SameConns
              /\ \/ At.kind = "closed" /\ Invalidate(s)
                 \/ /\ At.kind = "chunk" /\ asm' = asm
                    /\ chunkDone' = [chunkDone EXCEPT ![s] = At.seq]
                 \/ /\ At.kind \notin {"closed", "chunk"}
                    /\ asm' = asm /\ chunkDone' = chunkDone
<1>1. PICK s : s = At.stream
  OBVIOUS
<1>2. /\ reader' = Reading /\ reader.pc = "record" /\ cursor' = reader.at
      /\ log' = log /\ pos' = pos /\ SameConns
  BY DEF RecordDelivery, SameConns, trackerVars
<1>3. s \in Streams /\ reader.at # 0
  BY <1>1, <1>2, AtFacts DEF ReaderInv, AtAwait
<1>4. \/ At.kind = "closed" /\ Invalidate(s)
      \/ /\ At.kind = "chunk" /\ asm' = asm
         /\ chunkDone' = [chunkDone EXCEPT ![s] = At.seq]
      \/ /\ At.kind \notin {"closed", "chunk"}
         /\ asm' = asm /\ chunkDone' = chunkDone
  BY <1>1 DEF RecordDelivery
<1> QED
  BY <1>1, <1>2, <1>3, <1>4

\* A sweep, or the end of a task, closes a client while the reader reads.
LEMMA SweepEffect ==
    ASSUME Types, ReaderInv, NEW s \in Streams, SweepIdle(s)
    PROVE  /\ Closes(s) /\ Tracked(s) /\ why' = why \cup {clients[s].id}
           /\ reader.pc = "read" /\ reader.at = 0
           /\ reader'.pc = "closing" /\ reader'.at = 0 /\ reader'.stream = s
           /\ SamePlace /\ opened' = opened /\ closed' = closed
           /\ delivered' = delivered /\ asm' = asm /\ chunkDone' = chunkDone
<1>1. Closes(s)
  BY CloseClientCloses DEF SweepIdle
<1>2. reader.at = 0
  BY DEF SweepIdle, ReaderInv, AtAwait
<1> QED
  BY <1>1, <1>2 DEF SweepIdle, SamePlace, segmentVars, Tracked

\* An ended task is cleaned up.
LEMMA BookkeepEffect ==
    ASSUME Types, ReaderInv, NEW t \in tasks, BookkeepTask(t)
    PROVE  /\ t.stream \in Streams /\ Closes(t.stream) /\ why' = why
           /\ t.st = "ended" /\ reader.pc = "read" /\ reader.at = 0
           /\ reader'.pc = "closing" /\ reader'.at = 0 /\ reader'.stream = t.stream
           /\ SamePlace /\ opened' = opened /\ closed' = closed
           /\ delivered' = delivered /\ asm' = asm /\ chunkDone' = chunkDone
<1>1. t.stream \in Streams /\ Closes(t.stream)
  BY BookkeepCloses
<1>2. reader.at = 0
  BY DEF BookkeepTask, ReaderInv, AtAwait
<1> QED
  BY <1>1, <1>2 DEF BookkeepTask, SamePlace, segmentVars

-----------------------------------------------------------------------------
(* The reader.                                                             *)

\* Steps of others that the reader does not notice.
Unnoticed ==
    /\ SamePlace /\ reader' = reader /\ clients' = clients
    /\ delivered' = delivered /\ opened' = opened
    /\ asm' = asm /\ chunkDone' = chunkDone

\* Steps the reader does not notice.
LEMMA OthersUnnoticed ==
    ASSUME \/ UNCHANGED vars
           \/ LoseWebsocket
           \/ \E t \in tasks : TaskEnds(t) \/ AppDisconnects(t)
           \/ \E c \in closers : CloserSends(c)
    PROVE  Unnoticed
  BY DEF vars, LoseWebsocket, TaskEnds, AppDisconnects, CloserSends, Unnoticed,
         SamePlace, trackerVars, segmentVars

\* The reader is between two envelopes, or off.
LEMMA IdleReader ==
    ASSUME Types, ReaderInv, log' = log, reader'.at = 0,
           \/ reader'.pc = "off" /\ cursor' = cursor
           \/ /\ reader'.pc \in {"read", "closing"} /\ cursor' <= pos'
              /\ \A k \in 1..Len(log) : cursor' < k /\ k <= pos' => log[k].kind = "chunk"
              /\ cursor' # 0 => Whole(cursor')
              /\ reader'.pc = "closing" =>
                    reader'.stream \in Streams /\ clients'[reader'.stream].id = 0
    PROVE  ReaderInv'
<1>1. AtAwait'
  BY DEF AtAwait, Tracked
<1>2. Scanned'
  BY DEF ReaderInv, Scanned, Whole
<1> QED
  BY <1>1, <1>2 DEF ReaderInv

\* The reader goes on with its envelope.
LEMMA MovingReader ==
    ASSUME Types, ReaderInv, SamePlace, reader.at # 0, reader.pc # "off",
           NEW p \in {"closing", "open", "forward", "record"}, Moves(p),
           NEW s \in Streams, s = At.stream,
           p = "closing" => At.kind \in {"init", "closed"} /\ clients'[s].id = 0,
           p = "open" => At.kind = "init" /\ clients'[s].id = 0,
           p = "forward" =>
              /\ clients'[s].id # 0 /\ clients'[s].last < At.seq
              /\ At.kind \notin {"closed", "ack"}
              /\ At.kind = "init" => clients'[s].last = -1,
           p = "record" /\ clients'[s].id # 0 =>
              /\ At.kind # "closed"
              /\ At.kind # "ack" => At.seq <= clients'[s].last
    PROVE  ReaderInv'
<1>1. At' = At /\ reader'.at = reader.at /\ reader'.pc = p /\ reader'.stream = reader.stream
  BY DEF At, SamePlace, Moves
<1>2. reader.stream = s
  BY DEF ReaderInv, Scanned
<1>3. AtAwait'
  BY <1>1, <1>2 DEF AtAwait, Tracked
<1>4. Scanned'
  BY <1>1 DEF ReaderInv, Scanned, SamePlace, Whole
<1> QED
  BY <1>3, <1>4 DEF ReaderInv

\* The reader's part is preserved.
LEMMA ReaderInvStep ==
    ASSUME Types, LogInv, ReaderInv, ConnInv, [Next]_vars,
           \A s \in Streams : ~ClientSends(s)
    PROVE  ReaderInv'
<1> USE AssumptionFacts
<1>1. ASSUME Unnoticed
      PROVE  ReaderInv'
  <2>1. log' = log /\ pos' = pos /\ cursor' = cursor /\ reader' = reader
        /\ clients' = clients
    BY <1>1 DEF Unnoticed, SamePlace
  <2> QED
    BY <2>1 DEF ReaderInv, AtAwait, Scanned, At, Tracked, Whole
<1>2. CASE Connect
  <2>1. log' = log /\ pos' = cursor /\ cursor' = cursor /\ reader' = Reading
    BY <1>2 DEF Connect
  <2>2. reader'.at = 0 /\ reader'.pc = "read" /\ cursor' <= pos'
    BY <2>1, ReadingFacts DEF Types, TypeOK
  <2>3. \A k \in 1..Len(log) : cursor' < k /\ k <= pos' => log[k].kind = "chunk"
    BY <2>1 DEF Types, TypeOK
  <2>4. cursor' # 0 => Whole(cursor')
    BY <2>1 DEF ReaderInv, Scanned
  <2> QED
    BY <2>1, <2>2, <2>3, <2>4, IdleReader
<1>3. CASE ReaderStops
  <2>1. log' = log /\ cursor' = cursor /\ reader' = Off
    BY <1>3 DEF ReaderStops
  <2> QED
    BY <2>1, ReadingFacts, IdleReader
<1>4. CASE ReadEnvelope
  <2>1. PICK n : n = pos + 1
    OBVIOUS
  <2>2. /\ reader.pc = "read" /\ reader.at = 0 /\ n \in 1..Len(log)
        /\ log' = log /\ cursor' = cursor /\ pos' = n /\ clients' = clients
        /\ \/ /\ reader'.pc = "handle" /\ reader'.at = n
              /\ reader'.stream = log[n].stream
              /\ log[n].kind # "chunk" \/ log[n].seg = 1
           \/ reader' = reader /\ log[n].kind = "chunk"
    <3>1. pos \in 0..(Len(log) - 1) /\ Len(log) \in Nat
      BY <1>4, ReadEffect DEF Types, TypeOK
    <3>2. n \in 1..Len(log)
      BY <3>1, <2>1
    <3> QED
      BY <1>4, <2>1, <3>2, ReadEffect DEF SameConns
  <2>3. cursor <= pos /\ pos \in Nat /\ cursor \in Nat
        /\ (cursor # 0 => Whole(cursor))
    BY <2>2 DEF ReaderInv, Scanned, Types, TypeOK
  <2>4. \A k \in 1..Len(log) : cursor < k /\ k <= pos => log[k].kind = "chunk"
    BY <2>2 DEF ReaderInv, Scanned
  <2>5. CASE reader' = reader /\ log[n].kind = "chunk"
    <3>1. \A k \in 1..Len(log) : cursor' < k /\ k <= pos' => log[k].kind = "chunk"
      BY <2>1, <2>2, <2>3, <2>4, <2>5
    <3> QED
      BY <3>1, <2>1, <2>2, <2>3, <2>5, IdleReader
  <2>6. CASE /\ reader'.pc = "handle" /\ reader'.at = n
             /\ reader'.stream = log[n].stream
             /\ log[n].kind # "chunk" \/ log[n].seg = 1
    <3>1. AtAwait'
      BY <2>2, <2>6 DEF AtAwait
    <3>2. /\ reader'.at = pos' /\ cursor' < reader'.at /\ reader'.stream = At'.stream
          /\ Whole(reader.at)' /\ cursor' <= pos'
      BY <2>1, <2>2, <2>3, <2>6 DEF At, Whole
    <3>3. \A k \in 1..Len(log') :
              cursor' < k /\ k <= pos' /\ k # reader'.at => log'[k].kind = "chunk"
      BY <2>1, <2>2, <2>3, <2>4, <2>6
    <3>4. cursor' # 0 => Whole(cursor)'
      BY <2>2, <2>3 DEF Whole
    <3> QED
      BY <3>1, <3>2, <3>3, <3>4 DEF ReaderInv, Scanned
  <2> QED
    BY <2>2, <2>5, <2>6
<1>5. CASE HandleMessage
  <2>1. /\ reader.pc = "handle" /\ reader.at # 0 /\ SamePlace /\ clients' = clients
        /\ At.kind \in {"msg", "chunk", "ack"}
        /\ IF \/ At.kind = "ack" \/ ~Tracked(At.stream)
              \/ clients[At.stream].last >= At.seq
              THEN Moves("record") ELSE Moves("forward")
    BY <1>5, MessageEffect DEF SameConns
  <2>2. PICK s \in Streams : s = At.stream
    BY <2>1, AtFacts
  <2>3. At.seq \in Nat /\ clients[s].last \in Int
    <3>1. clients[s].last \in -1..MaxLog
      BY DEF Types, TypeOK
    <3> QED
      BY <2>1, <3>1, AtFacts
  <2>4. CASE At.kind = "ack" \/ ~Tracked(s) \/ clients[s].last >= At.seq
    <3>1. Moves("record")
      BY <2>1, <2>2, <2>4
    <3> QED
      BY <3>1, <2>1, <2>2, <2>3, <2>4, MovingReader DEF Tracked
  <2>5. CASE ~(At.kind = "ack" \/ ~Tracked(s) \/ clients[s].last >= At.seq)
    <3>1. Moves("forward")
      BY <2>1, <2>2, <2>5
    <3>2. clients'[s].id # 0 /\ clients'[s].last < At.seq
      BY <2>1, <2>2, <2>3, <2>5 DEF Tracked
    <3> QED
      BY <3>1, <3>2, <2>1, <2>2, <2>5, MovingReader
  <2> QED
    BY <2>4, <2>5
<1>6. CASE HandleInitialize \/ HandleClientClosed
  <2>1. PICK s \in Streams :
            /\ s = At.stream /\ clients'[s].id = 0 /\ Moves("closing")
            /\ reader.pc = "handle" /\ reader.at # 0
            /\ At.kind \in {"init", "closed"} /\ SamePlace
    BY <1>6, HandleEffect DEF Closes
  <2> QED
    BY <2>1, MovingReader
<1>7. CASE CloseReturns
  <2>1. /\ reader.pc = "closing" /\ SamePlace /\ clients' = clients
        /\ \/ reader.at = 0 /\ reader' = Reading
           \/ /\ reader.at # 0
              /\ \/ At.kind = "init" /\ Moves("open")
                 \/ At.kind = "closed" /\ Moves("record")
    BY <1>7, ReturnEffect DEF SameConns
  <2>2. CASE reader.at = 0 /\ reader' = Reading
    <3>1. /\ cursor <= pos /\ (cursor # 0 => Whole(cursor))
          /\ \A k \in 1..Len(log) : cursor < k /\ k <= pos => log[k].kind = "chunk"
      BY <2>1, <2>2 DEF ReaderInv, Scanned
    <3> QED
      BY <2>1, <2>2, <3>1, ReadingFacts, IdleReader DEF SamePlace
  <2>3. CASE reader.at # 0
    <3>1. PICK s \in Streams : s = At.stream
      BY <2>3, AtFacts
    <3>2. clients'[s].id = 0
      BY <2>1, <2>3, <3>1 DEF ReaderInv, AtAwait, Scanned, Tracked
    <3> QED
      BY <2>1, <2>3, <3>1, <3>2, MovingReader
  <2> QED
    BY <2>1, <2>2, <2>3
<1>8. CASE OpenConnection
  <2>1. PICK s \in Streams :
            /\ s = At.stream /\ Moves("forward") /\ reader.pc = "open"
            /\ reader.at # 0 /\ At.kind = "init" /\ SamePlace
            /\ clients'[s].id = Len(opened) + 1 /\ clients'[s].last = -1
    BY <1>8, OpenEffect
  <2>2. At.seq \in Nat /\ Len(opened) \in Nat
    BY <2>1, AtFacts, SMTT(30) DEF Types, TypeOK
  <2>3. clients'[s].id # 0 /\ clients'[s].last < At.seq
    BY <2>1, <2>2
  <2> QED
    BY <2>1, <2>3, MovingReader
<1>9. CASE ForwardMessage
  <2>1. PICK s \in Streams :
            /\ s = At.stream /\ Moves("record") /\ reader.pc = "forward"
            /\ reader.at # 0 /\ At.kind # "closed" /\ SamePlace
            /\ clients'[s].last = At.seq
    BY <1>9, ForwardEffect
  <2>2. At.seq \in Nat
    BY <2>1, AtFacts
  <2>3. At.seq <= clients'[s].last
    BY <2>1, <2>2
  <2> QED
    BY <2>1, <2>3, MovingReader
<1>10. CASE SendTimesOut
  <2>1. log' = log /\ cursor' = cursor /\ reader' = Off
    BY <1>10, TimeoutEffect DEF SamePlace
  <2> QED
    BY <2>1, ReadingFacts, IdleReader
<1>11. CASE RecordDelivery
  <2>1. /\ reader.at # 0 /\ reader' = Reading /\ log' = log /\ pos' = pos
        /\ cursor' = reader.at
    BY <1>11, RecordEffect
  <2>2. reader.at = pos /\ Whole(reader.at) /\ pos \in Nat
    BY <2>1 DEF ReaderInv, Scanned, Types, TypeOK
  <2>3. \A k \in 1..Len(log) : cursor' < k /\ k <= pos' => log[k].kind = "chunk"
    BY <2>1, <2>2
  <2>4. cursor' <= pos' /\ Whole(cursor')
    BY <2>1, <2>2
  <2> QED
    BY <2>1, <2>3, <2>4, ReadingFacts, IdleReader
<1>12. ASSUME NEW s \in Streams, reader.pc = "read", reader.at = 0,
              reader'.pc = "closing", reader'.at = 0, reader'.stream = s,
              clients'[s].id = 0, SamePlace
       PROVE  ReaderInv'
  <2>1. /\ cursor <= pos /\ (cursor # 0 => Whole(cursor))
        /\ \A k \in 1..Len(log) : cursor < k /\ k <= pos => log[k].kind = "chunk"
    BY <1>12 DEF ReaderInv, Scanned
  <2> QED
    BY <2>1, <1>12, IdleReader DEF SamePlace
<1>13. ASSUME NEW s \in Streams, SweepIdle(s)
       PROVE  ReaderInv'
  BY <1>12, <1>13, SweepEffect DEF Closes
<1>14. ASSUME NEW t \in tasks, BookkeepTask(t)
       PROVE  ReaderInv'
  <2>1. PICK s \in Streams : s = t.stream
    BY <1>14, BookkeepEffect
  <2> QED
    BY <2>1, <1>12, <1>14, BookkeepEffect DEF Closes
<1> QED
  BY <1>1, <1>2, <1>3, <1>4, <1>5, <1>6, <1>7, <1>8, <1>9, <1>10, <1>11,
     <1>13, <1>14, OthersUnnoticed DEF Next, ReaderStep

\* The first websocket ends the time before it.
LEMMA FreshStep ==
    ASSUME Types, FreshInv, ReaderInv, [Next]_vars,
           \A s \in Streams : ~ClientSends(s)
    PROVE  FreshInv'
<1>1. SUFFICES ASSUME ~conn', faults' = 0
      PROVE  UNCHANGED vars
  BY DEF FreshInv, Untouched, vars
<1>2. faults \in Nat
  BY AssumptionFacts DEF Types, TypeOK
<1>3. ~LoseWebsocket /\ ~SendTimesOut /\ ~Connect
      /\ (\A t \in tasks : ~AppDisconnects(t)) /\ (\A s \in Streams : ~SweepIdle(s))
  BY <1>1, <1>2 DEF LoseWebsocket, SendTimesOut, Connect, AppDisconnects, SweepIdle
<1>4. SUFFICES ASSUME Next
      PROVE  FALSE
  OBVIOUS
<1>5. conn' = conn /\ faults' = faults
  BY <1>3, <1>4 DEF Next, ReaderStep, ReaderStops, ReadEnvelope, HandleMessage,
       HandleInitialize, HandleClientClosed, CloseReturns, OpenConnection,
       ForwardMessage, RecordDelivery, TaskEnds, BookkeepTask, CloserSends
<1>6. reader.pc = "off" /\ tasks = {} /\ closers = {}
  BY <1>1, <1>5, ReadingFacts DEF FreshInv, Untouched
<1> QED
  BY <1>3, <1>4, <1>6 DEF Next, ReaderStep, ReaderStops, ReadEnvelope, HandleMessage,
       HandleInitialize, HandleClientClosed, CloseReturns, OpenConnection,
       ForwardMessage, RecordDelivery

-----------------------------------------------------------------------------
(* Connections.                                                            *)

\* A client is closed for a reason.
LEMMA ClosesConn ==
    ASSUME Types, ConnInv, NEW s \in Streams, Closes(s),
           opened' = opened, closed' = closed, why \subseteq why',
           NEW c, c = clients[s].id, c # 0 => Excused(c)'
    PROVE  ConnInv'
<1> USE AssumptionFacts
<1>0. c = clients[s].id
  OBVIOUS
<1>1. /\ clients'[s].id = 0
      /\ \A r \in Streams : r # s => clients'[r] = clients[r]
      /\ closers' = closers \cup ({c} \ {0})
      /\ \A u \in tasks' : \E t \in tasks :
           u.id = t.id /\ u.stream = t.stream /\ (u.st = t.st \/ u.id = c)
  BY <1>0 DEF Closes
<1>2. \A x : Excused(x) => Excused(x)'
  BY DEF Excused
<1>3. c # 0 => c \in 1..Len(opened) /\ Excused(c)'
  BY <1>0 DEF ConnInv, TrackedIsNewest, Tracked
<1>4. TrackedIsNewest'
  BY <1>1 DEF ConnInv, TrackedIsNewest, Tracked
<1>5. TasksExcused'
  <2>1. SUFFICES ASSUME NEW u \in tasks'
        PROVE  /\ u.id \in 1..Len(opened) /\ opened[u.id] = u.stream
               /\ u.st # "running" => Excused(u.id)'
    BY DEF TasksExcused, Excused
  <2>2. PICK t \in tasks :
           u.id = t.id /\ u.stream = t.stream /\ (u.st = t.st \/ u.id = c)
    BY <1>1
  <2>3. /\ t.id \in 1..Len(opened) /\ opened[t.id] = t.stream
        /\ t.st # "running" => Excused(t.id)
    BY DEF ConnInv, TasksExcused
  <2>4. 0 \notin 1..Len(opened)
    OBVIOUS
  <2> QED
    BY <2>2, <2>3, <2>4, <1>2, <1>3
<1>6. EndsExcused'
  BY <1>1, <1>2, <1>3 DEF ConnInv, EndsExcused
<1>7. NoLeakedConnection'
  <2>1. SUFFICES ASSUME NEW d \in 1..Len(opened)
        PROVE  closed[d] + (IF d \in closers' THEN 1 ELSE 0)
                 + (IF \E r \in Streams : clients'[r].id = d THEN 1 ELSE 0) = 1
    BY DEF NoLeakedConnection
  <2>2. closed[d] + (IF d \in closers THEN 1 ELSE 0)
                 + (IF \E r \in Streams : clients[r].id = d THEN 1 ELSE 0) = 1
    BY DEF ConnInv, NoLeakedConnection
  <2>3. closed[d] \in Nat /\ d # 0
    <3>1. closed \in Seq(Nat) /\ d \in 1..Len(closed)
      BY DEF Types, TypeOK
    <3> QED
      BY <3>1
  <2>4. CASE d = c
    <3>1. \A r \in Streams : clients'[r].id # d
      <4>1. SUFFICES ASSUME NEW r \in Streams, clients'[r].id = d PROVE FALSE
        OBVIOUS
      <4>2. r # s /\ clients[r].id = d
        BY <4>1, <1>1, <2>3
      <4>3. opened[d] = r /\ opened[d] = s
        BY <4>2, <2>3, <2>4, <1>0 DEF ConnInv, TrackedIsNewest, Tracked
      <4> QED
        BY <4>2, <4>3
    <3>2. clients[s].id = d
      BY <1>0, <2>4
    <3>3. d \in closers'
      BY <1>1, <2>3, <2>4
    <3> QED
      BY <2>2, <2>3, <3>1, <3>2, <3>3
  <2>5. CASE d # c
    <3>1. (d \in closers') <=> (d \in closers)
      BY <1>1, <2>5
    <3>2. (\E r \in Streams : clients'[r].id = d) <=> (\E r \in Streams : clients[r].id = d)
      BY <1>0, <1>1, <2>3, <2>5
    <3> QED
      BY <2>2, <3>1, <3>2
  <2> QED
    BY <2>4, <2>5
<1> QED
  BY <1>4, <1>5, <1>6, <1>7 DEF ConnInv

\* A new connection is the tracked one, and its predecessor has an excuse.
LEMMA OpensConn ==
    ASSUME Types, ReaderInv, ConnInv, OpenConnection
    PROVE  ConnInv'
<1> USE AssumptionFacts
<1>0. PICK N \in Nat : N = Len(opened)
  BY DEF Types, TypeOK
<1>1. PICK s \in Streams :
         /\ clients[s].id = 0
         /\ clients'[s].id = N + 1
         /\ \A r \in Streams : r # s => clients'[r] = clients[r]
         /\ \A t \in tasks' : t \in tasks \/
               (t.id = N + 1 /\ t.stream = s /\ t.st = "running")
         /\ Len(opened') = N + 1 /\ opened'[N + 1] = s
         /\ \A c \in 1..N : opened'[c] = opened[c] /\ closed'[c] = closed[c]
         /\ closed'[N + 1] = 0
         /\ closers' = closers /\ why' = why
  BY <1>0, OpenEffect DEF Tracked
<1>2. \A c \in 1..N : Excused(c) => Excused(c)'
  <2>1. why \subseteq 1..N
    BY <1>0 DEF Types, TypeOK
  <2> QED
    BY <1>1, <2>1 DEF Excused
<1>3. TrackedIsNewest'
  <2>1. SUFFICES ASSUME NEW r \in Streams, clients'[r].id # 0
        PROVE  /\ clients'[r].id \in 1..(N + 1)
               /\ opened'[clients'[r].id] = r
               /\ \A d \in 1..(N + 1) : opened'[d] = r => d <= clients'[r].id
    BY <1>1 DEF TrackedIsNewest, Tracked
  <2>2. CASE r = s
    BY <1>1, <2>2
  <2>3. CASE r # s
    <3>1. clients'[r] = clients[r]
      BY <1>1, <2>3
    <3>2. /\ clients[r].id \in 1..N /\ opened[clients[r].id] = r
          /\ \A d \in 1..N : opened[d] = r => d <= clients[r].id
      BY <3>1, <2>1, <1>0 DEF ConnInv, TrackedIsNewest, Tracked
    <3>3. \A d \in 1..(N + 1) : opened'[d] = r => d \in 1..N /\ opened[d] = r
      BY <1>1, <2>3
    <3> QED
      BY <3>1, <3>2, <3>3, <1>1
  <2> QED
    BY <2>2, <2>3
<1>4. TasksExcused'
  <2>1. SUFFICES ASSUME NEW t \in tasks'
        PROVE  /\ t.id \in 1..(N + 1) /\ opened'[t.id] = t.stream
               /\ t.st # "running" => Excused(t.id)'
    BY <1>1 DEF TasksExcused, Excused
  <2>2. CASE t \in tasks
    <3>1. /\ t.id \in 1..N /\ opened[t.id] = t.stream
          /\ t.st # "running" => Excused(t.id)
      BY <2>2, <1>0 DEF ConnInv, TasksExcused
    <3> QED
      BY <3>1, <1>1, <1>2
  <2>3. CASE t.id = N + 1 /\ t.stream = s /\ t.st = "running"
    BY <2>3, <1>1
  <2> QED
    BY <1>1, <2>2, <2>3
<1>5. EndsExcused'
  <2>1. SUFFICES ASSUME NEW c \in 1..(N + 1), c \in closers \/ closed'[c] > 0
        PROVE  Excused(c)'
    BY <1>1 DEF EndsExcused
  <2>2. closers \subseteq 1..N
    BY <1>0 DEF Types, TypeOK
  <2>3. c \in 1..N
    BY <2>1, <2>2, <1>1
  <2>4. Excused(c)
    BY <2>1, <2>3, <1>0, <1>1 DEF ConnInv, EndsExcused
  <2> QED
    BY <2>3, <2>4, <1>2
<1>6. NoLeakedConnection'
  <2>1. SUFFICES ASSUME NEW d \in 1..(N + 1)
        PROVE  closed'[d] + (IF d \in closers' THEN 1 ELSE 0)
                 + (IF \E r \in Streams : clients'[r].id = d THEN 1 ELSE 0) = 1
    BY <1>1 DEF NoLeakedConnection
  <2>2. CASE d = N + 1
    <3>1. d \notin closers'
      BY <1>0, <1>1, <2>2 DEF Types, TypeOK
    <3>2. closed'[d] = 0 /\ clients'[s].id = d
      BY <1>1, <2>2
    <3> QED
      BY <3>1, <3>2
  <2>3. CASE d \in 1..N
    <3>1. closed[d] + (IF d \in closers THEN 1 ELSE 0)
                 + (IF \E r \in Streams : clients[r].id = d THEN 1 ELSE 0) = 1
      BY <2>3, <1>0 DEF ConnInv, NoLeakedConnection
    <3>2. d # 0 /\ d # N + 1
      BY <2>3
    <3>3. (\E r \in Streams : clients'[r].id = d) <=> (\E r \in Streams : clients[r].id = d)
      BY <3>2, <1>1
    <3>4. closed'[d] = closed[d] /\ closers' = closers
      BY <2>3, <1>1
    <3> QED
      BY <3>1, <3>3, <3>4
  <2> QED
    BY <2>2, <2>3
<1> QED
  BY <1>3, <1>4, <1>5, <1>6 DEF ConnInv

\* The connections' part is preserved.
LEMMA ConnInvStep ==
    ASSUME Types, LogInv, ReaderInv, ConnInv, [Next]_vars,
           \A s \in Streams : ~ClientSends(s)
    PROVE  ConnInv'
<1> USE AssumptionFacts
<1>1. ASSUME SameConns
      PROVE  ConnInv'
  BY <1>1 DEF SameConns, ConnInv, TrackedIsNewest, TasksExcused, EndsExcused,
              NoLeakedConnection, Tracked, Excused
<1>2. ASSUME UNCHANGED vars \/ Connect \/ LoseWebsocket \/ ReaderStops \/ RecordDelivery
             \/ ReadEnvelope \/ HandleMessage \/ CloseReturns
      PROVE  ConnInv'
  <2>1. SameConns
    BY <1>2 DEF vars, Connect, LoseWebsocket, ReaderStops, RecordDelivery,
         ReadEnvelope, HandleMessage, CloseReturns, trackerVars, SameConns
  <2> QED
    BY <2>1, <1>1
<1>3. CASE HandleInitialize \/ HandleClientClosed
  <2>1. PICK s \in Streams :
            /\ Closes(s) /\ why' = why \cup ({clients[s].id} \ {0})
            /\ opened' = opened /\ closed' = closed
    BY <1>3, HandleEffect
  <2>2. PICK c : c = clients[s].id
    OBVIOUS
  <2>3. (c # 0 => Excused(c)') /\ why \subseteq why'
    BY <2>1, <2>2 DEF Excused
  <2> QED
    BY <2>1, <2>2, <2>3, ClosesConn
<1>4. CASE OpenConnection
  BY <1>4, OpensConn
<1>5. CASE ForwardMessage
  <2>1. PICK s \in Streams :
            /\ clients'[s].id = clients[s].id
            /\ \A r \in Streams : r # s => clients'[r] = clients[r]
            /\ tasks' = tasks /\ closers' = closers /\ opened' = opened
            /\ closed' = closed /\ why' = why
    BY <1>5, ForwardEffect
  <2>2. \A r \in Streams : clients'[r].id = clients[r].id
    BY <2>1
  <2>3. TrackedIsNewest'
    BY <2>1, <2>2 DEF ConnInv, TrackedIsNewest, Tracked
  <2>4. TasksExcused' /\ EndsExcused'
    BY <2>1 DEF ConnInv, TasksExcused, EndsExcused, Excused
  <2>5. NoLeakedConnection'
    BY <2>1, <2>2 DEF ConnInv, NoLeakedConnection
  <2> QED
    BY <2>3, <2>4, <2>5 DEF ConnInv
<1>6. CASE SendTimesOut
  <2>1. PICK s \in Streams :
            /\ opened' = opened /\ closed' = closed
            /\ \/ SameConns
               \/ Tracked(s) /\ Closes(s) /\ why' = why \cup {clients[s].id}
    BY <1>6, TimeoutEffect
  <2>2. CASE Tracked(s) /\ Closes(s) /\ why' = why \cup {clients[s].id}
    <3>1. PICK c : c = clients[s].id
      OBVIOUS
    <3>2. Excused(c)' /\ why \subseteq why'
      BY <2>2, <3>1 DEF Excused
    <3> QED
      BY <2>1, <2>2, <3>1, <3>2, ClosesConn
  <2> QED
    BY <2>1, <2>2, <1>1
<1>7. ASSUME NEW s \in Streams, SweepIdle(s)
      PROVE  ConnInv'
  <2>1. /\ Closes(s) /\ why' = why \cup {clients[s].id}
        /\ opened' = opened /\ closed' = closed
    BY <1>7, SweepEffect
  <2>2. PICK c : c = clients[s].id
    OBVIOUS
  <2>3. Excused(c)' /\ why \subseteq why'
    BY <2>1, <2>2 DEF Excused
  <2> QED
    BY <2>1, <2>2, <2>3, ClosesConn
<1>8. ASSUME NEW t \in tasks, BookkeepTask(t)
      PROVE  ConnInv'
  <2>1. PICK s \in Streams : s = t.stream
    BY <1>8, BookkeepEffect
  <2>2. /\ Closes(s) /\ why' = why /\ t.st = "ended"
        /\ opened' = opened /\ closed' = closed
    BY <1>8, <2>1, BookkeepEffect
  <2>3. PICK c : c = clients[s].id
    OBVIOUS
  <2>4. c # 0 => Excused(c)'
    <3>1. SUFFICES ASSUME c # 0 PROVE Excused(c)'
      OBVIOUS
    <3>2. /\ t.id \in 1..Len(opened) /\ opened[t.id] = s /\ Excused(t.id)
      BY <2>1, <2>2 DEF ConnInv, TasksExcused
    <3>3. /\ c \in 1..Len(opened) /\ opened[c] = s /\ t.id <= c
      BY <3>1, <3>2, <2>3 DEF ConnInv, TrackedIsNewest, Tracked
    <3>4. why \subseteq 1..Len(opened)
      BY DEF Types, TypeOK
    <3> QED
      BY <3>2, <3>3, <3>4, <2>2 DEF Excused
  <2> QED
    BY <2>2, <2>3, <2>4, ClosesConn
<1>9. ASSUME NEW t \in tasks, TaskEnds(t) \/ AppDisconnects(t)
      PROVE  ConnInv'
  <2>1. /\ opened' = opened /\ closed' = closed /\ clients' = clients
        /\ closers' = closers /\ why \subseteq why'
        /\ \E z : tasks' = (tasks \ {t}) \cup {[t EXCEPT !.st = z]}
        /\ (t.st # "running" \/ t.id \in why')
    BY <1>9 DEF TaskEnds, AppDisconnects
  <2>2. \A x : Excused(x) => Excused(x)'
    BY <2>1 DEF Excused
  <2>3. TrackedIsNewest' /\ NoLeakedConnection'
    BY <2>1 DEF ConnInv, TrackedIsNewest, Tracked, NoLeakedConnection
  <2>4. EndsExcused'
    BY <2>1, <2>2 DEF ConnInv, EndsExcused
  <2>5. TasksExcused'
    <3>1. SUFFICES ASSUME NEW u \in tasks'
          PROVE  /\ u.id \in 1..Len(opened) /\ opened[u.id] = u.stream
                 /\ u.st # "running" => Excused(u.id)'
      BY <2>1 DEF TasksExcused, Excused
    <3>2. /\ t.id \in 1..Len(opened) /\ opened[t.id] = t.stream
          /\ t.st # "running" => Excused(t.id)
      BY DEF ConnInv, TasksExcused
    <3>3. t \in Tasks
      BY DEF Types, TypeOK, Tasks
    <3>4. CASE u \in tasks
      BY <3>4, <2>2 DEF ConnInv, TasksExcused
    <3>5. CASE u \notin tasks
      <4>1. PICK z : u = [t EXCEPT !.st = z]
        BY <2>1, <3>1, <3>5
      <4>2. u.id = t.id /\ u.stream = t.stream
        BY <4>1, <3>3 DEF Tasks
      <4>3. Excused(t.id)'
        BY <2>1, <2>2, <3>2 DEF Excused
      <4> QED
        BY <4>2, <4>3, <3>2
    <3> QED
      BY <3>4, <3>5
  <2> QED
    BY <2>3, <2>4, <2>5 DEF ConnInv
<1>10. ASSUME NEW c \in closers, CloserSends(c)
       PROVE  ConnInv'
  <2>1. /\ closers' = closers \ {c} /\ closed' = [closed EXCEPT ![c] = @ + 1]
        /\ opened' = opened /\ clients' = clients /\ why' = why /\ tasks' = tasks
    BY <1>10 DEF CloserSends
  <2>2. closed \in Seq(Nat) /\ c \in 1..Len(closed) /\ Len(closed) = Len(opened)
    BY DEF Types, TypeOK
  <2>3. /\ closed'[c] = closed[c] + 1 /\ closed[c] \in Nat
        /\ \A d \in 1..Len(opened) : d # c => closed'[d] = closed[d]
    BY <2>1, <2>2
  <2>4. TrackedIsNewest' /\ TasksExcused'
    BY <2>1 DEF ConnInv, TrackedIsNewest, Tracked, TasksExcused, Excused
  <2>5. EndsExcused'
    BY <2>1, <2>2, <2>3 DEF ConnInv, EndsExcused, Excused
  <2>6. NoLeakedConnection'
    <3>1. SUFFICES ASSUME NEW d \in 1..Len(opened)
          PROVE  closed'[d] + (IF d \in closers' THEN 1 ELSE 0)
                 + (IF \E r \in Streams : clients[r].id = d THEN 1 ELSE 0) = 1
      BY <2>1 DEF NoLeakedConnection
    <3>2. closed[d] + (IF d \in closers THEN 1 ELSE 0)
                 + (IF \E r \in Streams : clients[r].id = d THEN 1 ELSE 0) = 1
      BY DEF ConnInv, NoLeakedConnection
    <3>3. CASE d = c
      <4>1. d \in closers /\ d \notin closers' /\ closed'[d] = closed[d] + 1
            /\ closed[d] \in Nat
        BY <3>3, <2>1, <2>3
      <4> QED
        BY <4>1, <3>2
    <3>4. CASE d # c
      <4>1. (d \in closers' <=> d \in closers) /\ closed'[d] = closed[d]
        BY <3>4, <2>1, <2>3
      <4> QED
        BY <4>1, <3>2
    <3> QED
      BY <3>3, <3>4
  <2> QED
    BY <2>4, <2>5, <2>6 DEF ConnInv
<1> QED
  BY <1>2, <1>3, <1>4, <1>5, <1>6, <1>7, <1>8, <1>9, <1>10 DEF Next, ReaderStep

-----------------------------------------------------------------------------
(* Deliveries.                                                             *)

\* The types of a place of the log.
LEMMA LogFacts ==
    ASSUME Types, LogInv, NEW n \in 1..Len(log)
    PROVE  /\ log[n].seq \in Nat /\ log[n].stream \in Streams /\ n \in Nat
           /\ Len(log) \in Nat
<1>1. log[n] \in Envelopes /\ Len(log) \in Nat
  BY LogTyped
<1> QED
  BY <1>1, AssumptionFacts DEF Envelopes

\* Nothing is forwarded or opened.
LEMMA QuietDel ==
    ASSUME Types, DelInv, log' = log, opened' = opened, delivered' = delivered,
           cursor' \in Nat, cursor <= cursor',
           \A r \in Streams : clients'[r] = clients[r] \/ clients'[r].id = 0
    PROVE  DelInv'
<1>1. DeliveredTyped' /\ DeliveredInOrder' /\ NoDuplicateDelivery'
  BY DEF DelInv, DeliveredTyped, DeliveredInOrder, NoDuplicateDelivery, Restarted
<1>2. LastCovers'
  BY SMTT(30) DEF DelInv, DeliveredTyped, LastCovers
<1>3. Unrecorded'
  <2>1. SUFFICES ASSUME NEW i \in 1..Len(delivered), NEW n, n = delivered[i].at,
                        cursor' < n
        PROVE  /\ \/ IsInit(n)
                  \/ clients'[log[n].stream].id = 0
                  \/ log[n].seq <= clients'[log[n].stream].last
                  \/ log[n].kind = "chunk" /\ Restarted(n)
               /\ \A k \in 1..Len(log) : cursor' < k /\ k < n => log[k].kind = "chunk"
    BY DEF Unrecorded, IsInit, Tracked, Restarted
  <2>2. n \in 1..Len(log) /\ log[n].stream \in Streams /\ n \in Nat /\ cursor \in Nat
    <3>1. n \in 1..Len(log)
      BY <2>1 DEF DelInv, DeliveredTyped
    <3>2. log[n] \in Envelopes /\ cursor \in Nat
      BY <3>1 DEF Types, TypeOK
    <3> QED
      BY <3>1, <3>2 DEF Envelopes
  <2>3. cursor < n
    BY <2>1, <2>2
  <2>4. /\ \/ IsInit(n)
           \/ clients[log[n].stream].id = 0
           \/ log[n].seq <= clients[log[n].stream].last
           \/ log[n].kind = "chunk" /\ Restarted(n)
        /\ \A k \in 1..Len(log) : cursor < k /\ k < n => log[k].kind = "chunk"
    BY <2>1, <2>3 DEF DelInv, Unrecorded, Tracked
  <2>5. \A k \in 1..Len(log) : cursor' < k => cursor < k
    BY <2>2
  <2> QED
    BY <2>2, <2>4, <2>5
<1> QED
  BY <1>1, <1>2, <1>3 DEF DelInv

\* A new connection has got nothing.
LEMMA OpensDel ==
    ASSUME Types, LogInv, ReaderInv, DelInv, OpenConnection
    PROVE  DelInv'
<1> USE AssumptionFacts
<1>0. PICK N \in Nat : N = Len(opened)
  BY DEF Types, TypeOK
<1>1. PICK s \in Streams :
         /\ s = log[reader.at].stream /\ reader.pc = "open" /\ reader.at # 0
         /\ log[reader.at].kind = "init"
         /\ clients'[s].id = N + 1
         /\ \A r \in Streams : r # s => clients'[r] = clients[r]
         /\ Len(opened') = N + 1
         /\ \A c \in 1..N : opened'[c] = opened[c]
         /\ log' = log /\ cursor' = cursor /\ delivered' = delivered
  BY <1>0, OpenEffect DEF At, SamePlace
<1>2. PICK m \in 1..Len(log) : m = reader.at
  BY <1>1, AtFacts
<1>3. /\ cursor < m /\ m = pos /\ cursor \in Nat /\ m \in Nat
      /\ \A k \in 1..Len(log) : cursor < k /\ k < m => log[k].kind = "chunk"
  <2>1. /\ m = pos /\ cursor < m /\ cursor \in Nat /\ m \in Nat
        /\ \A k \in 1..Len(log) : cursor < k /\ k <= pos /\ k # m => log[k].kind = "chunk"
    BY <1>1, <1>2, LogTyped DEF ReaderInv, Scanned
  <2> QED
    BY <2>1
<1>4. DeliveredTyped'
  BY <1>0, <1>1 DEF DelInv, DeliveredTyped
<1>5. DeliveredInOrder' /\ NoDuplicateDelivery'
  <2>1. log' = log /\ delivered' = delivered
    BY <1>1
  <2>2. DeliveredInOrder'
    BY <2>1 DEF DelInv, DeliveredInOrder
  <2>3. NoDuplicateDelivery'
    BY <2>1 DEF DelInv, NoDuplicateDelivery, Restarted
  <2> QED
    BY <2>2, <2>3
<1>6. LastCovers'
  <2>1. SUFFICES ASSUME NEW i \in 1..Len(delivered), NEW r \in Streams,
                        delivered[i].id = clients'[r].id
        PROVE  log[delivered[i].at].seq <= clients'[r].last
    BY <1>1 DEF LastCovers
  <2>2. delivered[i].id \in 1..N
    BY <1>0 DEF DelInv, DeliveredTyped
  <2>3. r # s
    BY <2>1, <2>2, <1>1
  <2> QED
    BY <2>1, <2>3, <1>1 DEF DelInv, LastCovers
<1>7. Unrecorded'
  <2>1. SUFFICES ASSUME NEW i \in 1..Len(delivered), NEW n, n = delivered[i].at,
                        cursor < n
        PROVE  /\ \/ IsInit(n)
                  \/ clients'[log[n].stream].id = 0
                  \/ log[n].seq <= clients'[log[n].stream].last
                  \/ log[n].kind = "chunk" /\ Restarted(n)
               /\ \A k \in 1..Len(log) : cursor < k /\ k < n => log[k].kind = "chunk"
    BY <1>1, SMTT(30) DEF Unrecorded, IsInit, Tracked, Restarted
  <2>2. n \in 1..Len(log)
    BY <2>1 DEF DelInv, DeliveredTyped
  <2>3. log[n].stream \in Streams /\ n \in Nat /\ Len(log) \in Nat
    BY <2>2, LogFacts
  <2>4. /\ \/ IsInit(n)
           \/ clients[log[n].stream].id = 0
           \/ log[n].seq <= clients[log[n].stream].last
           \/ log[n].kind = "chunk" /\ Restarted(n)
        /\ \A k \in 1..Len(log) : cursor < k /\ k < n => log[k].kind = "chunk"
    BY <2>1 DEF DelInv, Unrecorded, Tracked
  <2>5. CASE log[n].stream # s
    BY <2>3, <2>4, <2>5, <1>1
  <2>6. CASE log[n].stream = s
    <3>1. ~(m < n)
      BY <2>4, <1>1, <1>2, <1>3
    <3>2. CASE m = n
      BY <3>2, <2>4, <1>1, <1>2 DEF IsInit
    <3>3. CASE n < m
      <4>1. log[n].kind = "chunk"
        BY <3>3, <2>1, <2>2, <1>3
      <4>2. m \in (n + 1)..Len(log)
        BY <3>3, <2>3, <1>2
      <4>3. Restarted(n)
        BY <4>2, <2>6, <1>1, <1>2 DEF Restarted
      <4> QED
        BY <4>1, <4>3, <2>4
    <3> QED
      BY <3>1, <3>2, <3>3, <2>3, <1>3
  <2> QED
    BY <2>5, <2>6
<1> QED
  BY <1>4, <1>5, <1>6, <1>7 DEF DelInv

\* What is forwarded is beyond all its connection has got.
LEMMA ForwardsDel ==
    ASSUME Types, LogInv, ReaderInv, ConnInv, DelInv, ForwardMessage
    PROVE  DelInv'
<1> USE AssumptionFacts
<1>0. PICK D \in Nat : D = Len(delivered)
  BY DEF Types, TypeOK
<1>1. PICK s \in Streams :
         /\ s = log[reader.at].stream /\ reader.pc = "forward" /\ reader.at # 0
         /\ clients[s].id # 0
         /\ clients[s].last < log[reader.at].seq
         /\ log[reader.at].kind = "init" => clients[s].last = -1
         /\ clients'[s].id = clients[s].id /\ clients'[s].last = log[reader.at].seq
         /\ \A r \in Streams : r # s => clients'[r] = clients[r]
         /\ Len(delivered') = D + 1
         /\ \A i \in 1..D : delivered'[i] = delivered[i]
         /\ delivered'[D + 1].id = clients[s].id
         /\ delivered'[D + 1].at = reader.at
         /\ opened' = opened /\ log' = log /\ cursor' = cursor
  BY <1>0, ForwardEffect DEF At, SamePlace, Tracked
<1>2. PICK m \in 1..Len(log) : m = reader.at
  BY <1>1, AtFacts
<1>3. PICK c : c = clients[s].id
  OBVIOUS
<1>4. /\ cursor < m /\ m = pos /\ cursor \in Nat /\ m \in Nat
      /\ \A k \in 1..Len(log) : cursor < k /\ k < m => log[k].kind = "chunk"
  <2>1. /\ m = pos /\ cursor < m /\ cursor \in Nat /\ m \in Nat
        /\ \A k \in 1..Len(log) : cursor < k /\ k <= pos /\ k # m => log[k].kind = "chunk"
    BY <1>1, <1>2, LogTyped DEF ReaderInv, Scanned
  <2> QED
    BY <2>1
<1>5. c \in 1..Len(opened) /\ opened[c] = s
  BY <1>1, <1>3 DEF ConnInv, TrackedIsNewest, Tracked
<1>6. clients[s].last \in Int /\ log[m].seq \in Nat
  <2>1. clients[s].last \in -1..MaxLog
    BY DEF Types, TypeOK
  <2> QED
    BY <2>1, LogFacts
<1>7. \A i \in 1..D : delivered[i].id = c =>
          /\ log[delivered[i].at].seq <= clients[s].last
          /\ log[delivered[i].at].seq \in Nat
  <2>1. SUFFICES ASSUME NEW i \in 1..D, delivered[i].id = c
        PROVE  /\ log[delivered[i].at].seq <= clients[s].last
               /\ log[delivered[i].at].seq \in Nat
    OBVIOUS
  <2>2. delivered[i].at \in 1..Len(log)
    BY <1>0 DEF DelInv, DeliveredTyped
  <2> QED
    BY <2>1, <2>2, <1>0, <1>3, LogFacts DEF DelInv, LastCovers
<1>8. DeliveredTyped'
  <2>1. SUFFICES ASSUME NEW i \in 1..(D + 1)
        PROVE  /\ delivered'[i].id \in 1..Len(opened)
               /\ delivered'[i].at \in 1..Len(log)
               /\ opened[delivered'[i].id] = log[delivered'[i].at].stream
    BY <1>1 DEF DeliveredTyped
  <2>2. CASE i \in 1..D
    BY <2>2, <1>0, <1>1 DEF DelInv, DeliveredTyped
  <2>3. CASE i = D + 1
    BY <2>3, <1>1, <1>2, <1>3, <1>5
  <2> QED
    BY <2>2, <2>3
<1>9. LastCovers'
  <2>1. SUFFICES ASSUME NEW i \in 1..(D + 1), NEW r \in Streams,
                        delivered'[i].id = clients'[r].id
        PROVE  log[delivered'[i].at].seq <= clients'[r].last
    BY <1>1 DEF LastCovers
  <2>2. CASE i \in 1..D /\ r = s
    <3>1. delivered[i].id = c /\ delivered'[i] = delivered[i]
      BY <2>1, <2>2, <1>1, <1>3
    <3>2. log[delivered[i].at].seq <= clients[s].last /\ log[delivered[i].at].seq \in Nat
      BY <3>1, <2>2, <1>7
    <3> QED
      BY <3>1, <3>2, <2>2, <1>1, <1>2, <1>6
  <2>3. CASE i \in 1..D /\ r # s
    <3>1. delivered'[i] = delivered[i] /\ clients'[r] = clients[r]
      BY <2>3, <1>1
    <3> QED
      BY <3>1, <2>1, <2>3, <1>0 DEF DelInv, LastCovers
  <2>4. CASE i = D + 1
    <3>1. r = s
      <4>1. SUFFICES ASSUME r # s PROVE FALSE
        OBVIOUS
      <4>2. clients[r].id = c
        BY <4>1, <2>1, <2>4, <1>1, <1>3
      <4>3. opened[c] = r
        BY <4>2, <1>1, <1>3 DEF ConnInv, TrackedIsNewest, Tracked
      <4> QED
        BY <4>1, <4>3, <1>5
    <3> QED
      BY <3>1, <2>4, <1>1, <1>2, <1>6
  <2> QED
    BY <2>2, <2>3, <2>4
<1>10. DeliveredInOrder'
  <2>1. SUFFICES ASSUME NEW i \in 1..(D + 1), NEW j \in 1..(D + 1), i < j,
                        delivered'[i].id = delivered'[j].id
        PROVE  /\ log[delivered'[i].at].seq < log[delivered'[j].at].seq
               /\ log[delivered'[j].at].kind # "init"
    BY <1>1 DEF DeliveredInOrder
  <2>2. i \in 1..D /\ delivered'[i] = delivered[i]
    BY <2>1, <1>1
  <2>3. CASE j \in 1..D
    <3>1. delivered'[j] = delivered[j]
      BY <2>3, <1>1
    <3> QED
      BY <3>1, <2>1, <2>2, <2>3, <1>0 DEF DelInv, DeliveredInOrder
  <2>4. CASE j = D + 1
    <3>1. delivered[i].id = c
      BY <2>1, <2>2, <2>4, <1>1, <1>3
    <3>2. log[delivered[i].at].seq <= clients[s].last /\ log[delivered[i].at].seq \in Nat
      BY <3>1, <2>2, <1>7
    <3>3. clients[s].last # -1
      BY <3>2
    <3>4. delivered'[j].at = m
      BY <2>4, <1>1, <1>2
    <3>5. clients[s].last < log[m].seq /\ (log[m].kind = "init" => clients[s].last = -1)
      BY <1>1, <1>2
    <3>6. log[delivered[i].at].seq < log[m].seq
      BY <3>2, <3>5, <1>6
    <3> QED
      BY <3>3, <3>4, <3>5, <3>6, <2>2
  <2> QED
    BY <2>3, <2>4
<1>11. ASSUME NEW i \in 1..D, delivered[i].at = m
       PROVE  \/ log[m].kind = "init"
              \/ /\ log[m].kind = "chunk" /\ Restarted(m)
                 /\ delivered[i].id # c
  <2>1. \/ log[m].kind = "init"
        \/ log[m].seq <= clients[s].last
        \/ log[m].kind = "chunk" /\ Restarted(m)
    BY <1>11, <1>0, <1>1, <1>2, <1>4 DEF DelInv, Unrecorded, IsInit, Tracked
  <2>2. ~(log[m].seq <= clients[s].last)
    BY <1>1, <1>2, <1>6
  <2>3. delivered[i].id # c
    BY <2>2, <1>7, <1>11
  <2> QED
    BY <2>1, <2>2, <2>3
<1>12. NoDuplicateDelivery'
  <2>0. \A n : Restarted(n)' = Restarted(n)
    BY <1>1 DEF Restarted
  <2>1. SUFFICES ASSUME NEW i \in 1..(D + 1), NEW j \in 1..(D + 1), i # j,
                        delivered'[i].at = delivered'[j].at,
                        NEW n, n = delivered'[i].at
        PROVE  \/ log[n].kind = "init"
               \/ /\ log[n].kind = "chunk" /\ Restarted(n)
                  /\ delivered'[i].id # delivered'[j].id
    <3>1. SUFFICES ASSUME NEW i \in 1..(D + 1), NEW j \in 1..(D + 1), i # j,
                        delivered'[i].at = delivered'[j].at
          PROVE  \/ log[delivered'[i].at].kind = "init"
                 \/ /\ log[delivered'[i].at].kind = "chunk"
                    /\ Restarted(delivered[i].at)'
                    /\ delivered'[i].id # delivered'[j].id
      BY <1>1 DEF NoDuplicateDelivery
    <3>2. PICK n : n = delivered'[i].at
      OBVIOUS
    <3>3. Restarted(delivered[i].at)' = Restarted(n)
      BY <3>2, <1>1 DEF Restarted
    <3> QED
      BY <2>1, <3>1, <3>2, <3>3
  <2>2. CASE i \in 1..D /\ j \in 1..D
    <3>1. delivered'[i] = delivered[i] /\ delivered'[j] = delivered[j]
      BY <2>2, <1>1
    <3> QED
      BY <3>1, <2>1, <2>2, <1>0 DEF DelInv, NoDuplicateDelivery
  <2>3. CASE i \in 1..D /\ j = D + 1
    <3>1. delivered'[i] = delivered[i] /\ n = m
      BY <2>1, <2>3, <1>1, <1>2
    <3> QED
      BY <3>1, <2>1, <2>3, <1>1, <1>3, <1>11
  <2>4. CASE j \in 1..D /\ i = D + 1
    <3>1. delivered'[j] = delivered[j] /\ n = m /\ delivered[j].at = m
      BY <2>1, <2>4, <1>1, <1>2
    <3> QED
      BY <3>1, <2>1, <2>4, <1>1, <1>3, <1>11
  <2> QED
    BY <2>1, <2>2, <2>3, <2>4
<1>13. Unrecorded'
  <2>1. SUFFICES ASSUME NEW i \in 1..(D + 1), NEW n, n = delivered'[i].at,
                        cursor < n
        PROVE  /\ \/ IsInit(n)
                  \/ clients'[log[n].stream].id = 0
                  \/ log[n].seq <= clients'[log[n].stream].last
                  \/ log[n].kind = "chunk" /\ Restarted(n)
               /\ \A k \in 1..Len(log) : cursor < k /\ k < n => log[k].kind = "chunk"
    BY <1>1, SMTT(30) DEF Unrecorded, IsInit, Tracked, Restarted
  <2>2. CASE i = D + 1
    BY <2>1, <2>2, <1>1, <1>2, <1>4, <1>6
  <2>3. CASE i \in 1..D
    <3>1. n = delivered[i].at
      BY <2>1, <2>3, <1>1
    <3>2. n \in 1..Len(log)
      BY <3>1, <2>3, <1>0 DEF DelInv, DeliveredTyped
    <3>3. log[n].seq \in Nat /\ log[n].stream \in Streams
      BY <3>2, LogFacts
    <3>4. /\ \/ IsInit(n)
             \/ clients[log[n].stream].id = 0
             \/ log[n].seq <= clients[log[n].stream].last
             \/ log[n].kind = "chunk" /\ Restarted(n)
          /\ \A k \in 1..Len(log) : cursor < k /\ k < n => log[k].kind = "chunk"
      BY <2>1, <2>3, <3>1, <1>0 DEF DelInv, Unrecorded, Tracked
    <3>5. CASE log[n].stream # s
      BY <3>3, <3>4, <3>5, <1>1
    <3>6. CASE log[n].stream = s
      BY <3>3, <3>4, <3>6, <1>1, <1>2, <1>6
    <3> QED
      BY <3>5, <3>6
  <2> QED
    BY <2>2, <2>3
<1> QED
  BY <1>8, <1>9, <1>10, <1>12, <1>13 DEF DelInv

\* The deliveries' part is preserved.
LEMMA DelInvStep ==
    ASSUME Types, LogInv, ReaderInv, ConnInv, DelInv, [Next]_vars, Types',
           \A s \in Streams : ~ClientSends(s)
    PROVE  DelInv'
<1>1. cursor \in Nat /\ cursor' \in Nat
  BY DEF Types, TypeOK
<1>2. ASSUME log' = log, opened' = opened, delivered' = delivered,
             cursor' = cursor \/ cursor' > cursor,
             \A r \in Streams : clients'[r] = clients[r] \/ clients'[r].id = 0
      PROVE  DelInv'
  BY <1>1, <1>2, QuietDel
<1>3. ASSUME Unnoticed \/ Connect \/ ReaderStops \/ ReadEnvelope \/ HandleMessage
             \/ CloseReturns
      PROVE  DelInv'
  <2>1. /\ log' = log /\ opened' = opened /\ delivered' = delivered
        /\ cursor' = cursor /\ clients' = clients
    BY <1>3 DEF Unnoticed, SamePlace, Connect, ReaderStops, ReadEnvelope,
                HandleMessage, CloseReturns, trackerVars
  <2> QED
    BY <2>1, <1>2
<1>4. CASE HandleInitialize \/ HandleClientClosed
  BY <1>2, <1>4, HandleEffect DEF Closes, SamePlace
<1>5. CASE SendTimesOut
  BY <1>2, <1>5, TimeoutEffect DEF Closes, SamePlace, SameConns
<1>6. CASE RecordDelivery
  <2>1. /\ log' = log /\ reader.at # 0 /\ cursor' = reader.at /\ SameConns
    BY <1>6, RecordEffect
  <2>2. cursor' > cursor
    BY <2>1, <1>1 DEF ReaderInv, Scanned
  <2> QED
    BY <1>2, <2>1, <2>2 DEF SameConns
<1>7. ASSUME NEW s \in Streams, SweepIdle(s)
      PROVE  DelInv'
  BY <1>2, <1>7, SweepEffect DEF Closes, SamePlace
<1>8. ASSUME NEW t \in tasks, BookkeepTask(t)
      PROVE  DelInv'
  BY <1>2, <1>8, BookkeepEffect DEF Closes, SamePlace
<1> QED
  BY <1>3, <1>4, <1>5, <1>6, <1>7, <1>8, OpensDel, ForwardsDel, OthersUnnoticed
     DEF Next, ReaderStep

-----------------------------------------------------------------------------
(* A client that initializes once.                                         *)

\* A log of one stream that is initialized once.
LEMMA SingleFacts ==
    ASSUME Types, LogInv, Single, log # <<>>
    PROVE  /\ Len(log) \in Nat /\ Len(log) >= 1 /\ Only \in Streams
           /\ \A n \in 1..Len(log) :
                 /\ log[n].stream = Only /\ (IsInit(n) <=> n = 1)
                 /\ log[n].seq \in Nat /\ log[n].seg \in 0..1
                 /\ log[n].kind # "chunk" => log[n].seg = 0
           /\ \A k \in 1..Len(log) : Own(k) =>
                 /\ \A j \in 1..(k - 1) : Own(j) => Grows(j, k)
                 /\ log[k].kind # "closed" =>
                       \A p \in 0..(log[k].seq - 1) : EndsBefore(p, k)
<1>1. Len(log) \in Nat /\ Len(log) >= 1
  BY LogTyped
<1>2. 1 \in 1..Len(log) /\ IsInit(1)
  BY <1>1 DEF LogInv, LogShape
<1>3. \A n \in 1..Len(log) : log[n].seq \in Nat /\ log[n].stream \in Streams
  BY LogFacts
<1>4. \A n \in 1..Len(log) : IsInit(n) <=> n = 1
  BY <1>2 DEF Single
<1>5. \A n \in 1..Len(log) : log[n].seg \in 0..1
  BY LogTyped DEF Envelopes
<1>6. \A n \in 1..Len(log) : log[n].kind # "chunk" => log[n].seg = 0
  BY DEF LogInv, LogShape
<1>7. /\ \A n \in 1..Len(log) : log[n].stream = Only
      /\ \A k \in 1..Len(log) : Own(k) =>
            /\ \A j \in 1..(k - 1) : Own(j) => Grows(j, k)
            /\ log[k].kind # "closed" =>
                  \A p \in 0..(log[k].seq - 1) : EndsBefore(p, k)
  BY DEF LogInv, Linear
<1> QED
  BY <1>1, <1>2, <1>3, <1>4, <1>5, <1>6, <1>7

\* Between the last message a connection got and the one about to be forwarded
\* there are only messages whose segments stand apart.
LEMMA ForwardSkips ==
    ASSUME Types, LogInv, ReaderInv, InStep, Single, log # <<>>,
           reader.pc = "forward"
    PROVE  /\ At.stream = Only /\ Tracked(Only) /\ clients[Only].last < At.seq
           /\ \A p \in Nat : clients[Only].last < p /\ p < At.seq => Parted(p)
<1>1. reader.at # 0 /\ At.kind \notin {"closed", "ack"}
  BY DEF ReaderInv, AtAwait
<1>2. PICK m \in 1..Len(log) : m = reader.at
  BY <1>1, AtFacts
<1>3. /\ At = log[m] /\ log[m].stream = Only /\ Only \in Streams /\ log[m].seq \in Nat
      /\ Len(log) \in Nat
  BY <1>2, SingleFacts DEF At
<1>4. Tracked(Only) /\ clients[Only].last < At.seq
  BY <1>3 DEF ReaderInv, AtAwait
<1>5. clients[Only].last \in Int
  <2>1. clients[Only].last \in -1..MaxLog
    BY <1>3 DEF Types, TypeOK
  <2> QED
    BY <2>1, AssumptionFacts
<1>6. ASSUME NEW p \in Nat, clients[Only].last < p, p < log[m].seq
      PROVE  Parted(p)
  <2>1. Own(m) /\ p \in 0..(log[m].seq - 1)
    BY <1>1, <1>3, <1>6 DEF Own
  <2>2. EndsBefore(p, m)
    BY <1>1, <1>3, <2>1, SingleFacts
  <2>3. PICK j \in 1..(m - 1) : Own(j) /\ Whole(j) /\ log[j].seq = p
    BY <2>2 DEF EndsBefore
  <2>4. j \in 1..Len(log) /\ j < m /\ pos = m
    BY <1>1, <1>2, <1>3 DEF ReaderInv, Scanned
  <2>5. Passed(j)
    BY <1>2, <2>4 DEF Passed, Seen
  <2>6. ~Due(j)
    <3>1. SUFFICES ASSUME Due(j) PROVE FALSE
      OBVIOUS
    <3>2. log[j].seq <= clients[Only].last
      BY <1>4, <2>4, <2>5, <3>1 DEF InStep, PassedKnown
    <3> QED
      BY <3>2, <2>3, <1>5, <1>6
  <2> QED
    BY <2>3, <2>4, <2>6 DEF Due, Parted
<1> QED
  BY <1>3, <1>4, <1>6

\* Nothing else is left out as deliveries go on.
LEMMA CompleteStep ==
    ASSUME Types, LogInv, ReaderInv, ConnInv, DelInv, Single, log # <<>>,
           Complete, InStep, [Next]_vars,
           \A s \in Streams : ~ClientSends(s)
    PROVE  Complete'
<1> USE AssumptionFacts
<1>0. PICK o \in Streams : o = Only
  BY SingleFacts
<1>9. ASSUME log' = log
      PROVE  \A p : Parted(p)' <=> Parted(p)
  BY <1>9 DEF Parted, Apart
<1>1. ASSUME log' = log, delivered' = delivered,
             \/ clients'[o] = clients[o]
             \/ clients'[o].id = 0
             \/ clients'[o].last = -1
      PROVE  Complete'
  <2>1. Only' = o
    BY <1>0, <1>1 DEF Only
  <2>0. \A id, p, i : Got(id, p, i)' <=> Got(id, p, i)
    BY <1>1 DEF Got
  <2>2. \A i \in 1..Len(delivered) : \A p \in 0..log[delivered[i].at].seq :
            Got(delivered[i].id, p, i)' \/ Parted(p)'
    BY <2>0, <1>1, <1>9 DEF Complete
  <2>3. clients'[o].id # 0 =>
            \A p \in 0..clients'[o].last :
                Got(clients[o].id, p, Len(delivered))' \/ Parted(p)'
    <3>1. CASE clients'[o] = clients[o]
      BY <3>1, <2>0, <1>0, <1>1, <1>9 DEF Complete, Tracked
    <3>2. CASE clients'[o].last = -1
      BY <3>2
    <3> QED
      BY <3>1, <3>2, <1>1
  <2> QED
    BY <1>1, <2>1, <2>2, <2>3 DEF Complete, Tracked
<1>2. ASSUME Unnoticed \/ Connect \/ ReaderStops \/ ReadEnvelope \/ HandleMessage
             \/ CloseReturns \/ RecordDelivery
      PROVE  Complete'
  <2>1. log' = log /\ delivered' = delivered /\ clients' = clients
    BY <1>2 DEF Unnoticed, SamePlace, Connect, ReaderStops, ReadEnvelope,
                HandleMessage, CloseReturns, RecordDelivery, trackerVars
  <2> QED
    BY <2>1, <1>1
<1>3. CASE HandleInitialize \/ HandleClientClosed
  BY <1>1, <1>3, HandleEffect DEF Closes, SamePlace
<1>4. CASE SendTimesOut
  BY <1>1, <1>4, TimeoutEffect DEF Closes, SamePlace, SameConns
<1>5. ASSUME NEW s \in Streams, SweepIdle(s)
      PROVE  Complete'
  BY <1>1, <1>5, SweepEffect DEF Closes, SamePlace
<1>6. ASSUME NEW t \in tasks, BookkeepTask(t)
      PROVE  Complete'
  BY <1>1, <1>6, BookkeepEffect DEF Closes, SamePlace
<1>7. CASE OpenConnection
  BY <1>1, <1>7, OpenEffect DEF SamePlace
<1>8. CASE ForwardMessage
  <2>0. PICK D \in Nat : D = Len(delivered)
    BY DEF Types, TypeOK
  <2>1. PICK s \in Streams :
         /\ s = log[reader.at].stream /\ reader.pc = "forward" /\ reader.at # 0
         /\ clients'[s].id = clients[s].id /\ clients'[s].last = log[reader.at].seq
         /\ Len(delivered') = D + 1
         /\ \A i \in 1..D : delivered'[i] = delivered[i]
         /\ delivered'[D + 1].id = clients[s].id
         /\ delivered'[D + 1].at = reader.at
         /\ log' = log
    BY <1>8, <2>0, ForwardEffect DEF At, SamePlace
  <2>2. PICK m, c, q : m = reader.at /\ c = clients[o].id /\ q = log[m].seq
    OBVIOUS
  <2>3. /\ s = o /\ clients[o].id # 0 /\ q \in Nat
        /\ \A p \in Nat : clients[o].last < p /\ p < q => Parted(p)
    BY <2>1, <2>2, <1>0, ForwardSkips, AtFacts DEF At, Tracked
  <2>4. clients[o].last \in Int /\ clients[o].last >= -1
    <3>1. clients[o].last \in -1..MaxLog
      BY DEF Types, TypeOK
    <3> QED
      BY <3>1
  <2>5. \A p \in 0..clients[o].last : Got(c, p, D) \/ Parted(p)
    BY <2>0, <2>2, <2>3, <1>0 DEF Complete, Tracked
  <2>6. ASSUME NEW p \in 0..q
        PROVE  Got(c, p, D + 1)' \/ Parted(p)
    <3>1. CASE p = q
      <4>1. delivered'[D + 1].id = c /\ log'[delivered'[D + 1].at].seq = p
        BY <3>1, <2>1, <2>2, <2>3
      <4> QED
        BY <4>1 DEF Got
    <3>2. CASE p # q /\ clients[o].last < p
      BY <3>2, <2>3, <2>6
    <3>3. CASE ~(clients[o].last < p)
      <4>1. p \in 0..clients[o].last
        BY <3>3, <2>3, <2>4, <2>6
      <4>2. SUFFICES ASSUME Got(c, p, D) PROVE Got(c, p, D + 1)'
        BY <4>1, <2>5
      <4>3. PICK j \in 1..D : delivered[j].id = c /\ log[delivered[j].at].seq = p
        BY <4>2 DEF Got
      <4>4. delivered'[j] = delivered[j] /\ j \in 1..(D + 1) /\ log' = log
        BY <2>1
      <4> QED
        BY <4>3, <4>4 DEF Got
    <3> QED
      BY <3>1, <3>2, <3>3
  <2>7. ASSUME NEW i \in 1..(D + 1), NEW p \in 0..log[delivered'[i].at].seq
        PROVE  Got(delivered[i].id, p, i)' \/ Parted(p)
    <3>1. CASE i \in 1..D
      <4>1. delivered'[i] = delivered[i]
        BY <3>1, <2>1
      <4>2. SUFFICES ASSUME Got(delivered[i].id, p, i) PROVE Got(delivered[i].id, p, i)'
        BY <4>1, <3>1, <2>0, <2>7 DEF Complete
      <4>3. PICK j \in 1..i :
               delivered[j].id = delivered[i].id /\ log[delivered[j].at].seq = p
        BY <4>2 DEF Got
      <4>4. delivered'[j] = delivered[j] /\ log' = log
        BY <3>1, <2>1
      <4> QED
        BY <4>1, <4>3, <4>4 DEF Got
    <3>2. CASE i = D + 1
      <4>1. delivered'[i].id = c /\ log[delivered'[i].at].seq = q
        BY <3>2, <2>1, <2>2, <2>3
      <4>2. p \in 0..q
        BY <4>1, <2>7
      <4> QED
        BY <4>1, <4>2, <3>2, <2>6 DEF Got
    <3> QED
      BY <3>1, <3>2
  <2>8. Only' = o /\ clients'[o].id = c /\ clients'[o].last = q /\ log' = log
        /\ Len(delivered') = D + 1
    BY <1>0, <2>1, <2>2, <2>3 DEF Only
  <2>9. \A p : Parted(p)' <=> Parted(p)
    BY <2>8, <1>9
  <2>10. \A i \in 1..Len(delivered') : \A p \in 0..log'[delivered'[i].at].seq :
            Got(delivered[i].id, p, i)' \/ Parted(p)'
    BY <2>7, <2>8, <2>9
  <2>11. Tracked(Only)' => \A p \in 0..clients'[o].last :
            Got(clients[o].id, p, Len(delivered))' \/ Parted(p)'
    BY <2>6, <2>8, <2>9 DEF Got
  <2> QED
    BY <2>8, <2>10, <2>11 DEF Complete
<1> QED
  BY <1>2, <1>3, <1>4, <1>5, <1>6, <1>7, <1>8, OthersUnnoticed DEF Next, ReaderStep

\* Reading the next envelope keeps in step with the cursor.
LEMMA ReadInStep ==
    ASSUME Types, LogInv, ReaderInv, Single, log # <<>>, Beginning, InStep,
           ReadEnvelope
    PROVE  Beginning' /\ InStep'
<1> USE AssumptionFacts
<1>0. PICK o \in Streams : o = Only
  BY SingleFacts
<1>1. PICK n : n = pos + 1
  OBVIOUS
<1>2. /\ reader.pc = "read" /\ reader.at = 0 /\ pos \in 0..(Len(log) - 1)
      /\ log' = log /\ cursor' = cursor /\ pos' = n /\ clients' = clients
      /\ chunkDone' = chunkDone
      /\ \/ /\ reader'.pc = "handle" /\ reader'.at = n
            /\ \/ log[n].kind # "chunk" /\ asm' = asm
               \/ /\ log[n].kind = "chunk" /\ log[n].seg = 1
                  /\ asm.stream = log[n].stream
                  /\ asm' = Assembled(log[n])
         \/ /\ reader' = reader /\ log[n].kind = "chunk"
            /\ \/ Replayed(log[n]) /\ asm' = asm
               \/ /\ ~Replayed(log[n]) /\ ~Completes(log[n])
                  /\ asm' = Assembled(log[n])
  BY <1>1, ReadEffect DEF SameConns
<1>3. /\ n \in 1..Len(log) /\ Len(log) \in Nat /\ cursor \in 0..Len(log) /\ n = pos + 1
      /\ pos \in Nat /\ cursor <= pos
  BY <1>1, <1>2, LogTyped DEF ReaderInv, Scanned
<1>4. /\ \A k \in 1..Len(log) :
            /\ log[k].stream = o /\ log[k].seq \in Nat /\ log[k].seg \in 0..1
            /\ log[k].kind # "chunk" => log[k].seg = 0
      /\ log[1].kind = "init"
  BY <1>0, <1>3, SingleFacts DEF IsInit
<1>5. ASSUME NEW j \in 1..Len(log), NEW k \in 1..Len(log), j < k, Own(j), Own(k)
      PROVE  Grows(j, k)
  BY <1>3, <1>5, SingleFacts
<1>6. Only' = o
  BY <1>0, <1>2 DEF Only
<1>7. Beginning'
  <2>1. CASE cursor = 0
    <3>1. pos = 0 /\ asm = NoAsm /\ chunkDone[o] = -1
      BY <1>0, <1>2, <2>1 DEF Beginning
    <3>2. n = 1
      BY <3>1, <1>1
    <3>3. reader'.at = 1 /\ asm' = asm
      BY <3>2, <1>2, <1>4
    <3> QED
      BY <3>1, <3>3, <1>2, <1>6 DEF Beginning
  <2>2. CASE cursor # 0
    BY <1>2, <2>2 DEF Beginning
  <2> QED
    BY <2>1, <2>2
<1>8. SUFFICES ASSUME Tracked(o)
      PROVE  InStep'
  BY <1>2, <1>6, <1>7 DEF InStep, Tracked
<1>9. PassedKnown /\ AsmNext /\ Holding
  BY <1>0, <1>8 DEF InStep
<1>10. /\ chunkDone[o] \in Int /\ clients[o].last \in Int /\ NoStream # o
       /\ asm.seq \in Int /\ chunkDone[o] <= clients[o].last
  <2>1. /\ chunkDone[o] \in -1..MaxLog /\ clients[o].last \in -1..MaxLog
        /\ asm.seq \in 0..MaxLog
    BY DEF Types, TypeOK
  <2> QED
    BY <2>1, <1>0, <1>9 DEF PassedKnown
<1>11. \A k \in 1..Len(log) : k <= pos /\ Due(k) => log[k].seq <= clients[o].last
  BY <1>0, <1>2, <1>9 DEF PassedKnown, Passed, Seen
<1>12. asm.stream # NoStream =>
          /\ asm.stream = o /\ asm.next = 1 /\ chunkDone[o] < asm.seq
          /\ \E m \in 1..Len(log) :
                log[m].kind = "chunk" /\ log[m].seg = 0 /\ log[m].seq = asm.seq
          /\ \A k \in 1..Len(log) : Due(k) /\ log[k].seq < asm.seq =>
                log[k].seq <= clients[o].last
          /\ \A k \in 1..Len(log) :
                Own(k) /\ Whole(k) /\ log[k].seq = asm.seq => pos < k
  <2>1. \A k \in 1..Len(log) : ~Seen(k) => pos < k
    BY <1>2, <1>3 DEF Seen
  <2> QED
    BY <2>1, <1>0, <1>9 DEF AsmNext
<1>13. \A k \in 1..Len(log) :
          /\ Due(k)' <=> Due(k)
          /\ Own(k)' <=> Own(k)
          /\ Whole(k)' <=> Whole(k)
          /\ Apart(k)' <=> Apart(k)
          /\ Seen(k)' => k <= n
  <2>1. \A k \in 1..Len(log) : Seen(k)' => k <= n
    BY <1>2, <1>3 DEF Seen
  <2> QED
    BY <2>1, <1>2 DEF Due, Own, Whole, Apart
<1>14. ASSUME log[n].seg = 1, ~Apart(n)
       PROVE  /\ n \in 2..Len(log) /\ cursor < pos
              /\ log[pos].kind = "chunk" /\ log[pos].seg = 0
  <2>1. n # 1 /\ n - 1 = pos /\ log[n].kind = "chunk"
    BY <1>3, <1>4, <1>14
  <2>2. log[pos] = [log[n] EXCEPT !.seg = 0]
    BY <2>1, <1>14 DEF Apart
  <2>3. log[n] \in Envelopes
    BY <1>3, LogTyped
  <2>4. log[pos].kind = "chunk" /\ log[pos].seg = 0
    BY <2>1, <2>2, <2>3 DEF Envelopes
  <2>5. cursor # pos
    BY <2>1, <2>4, <1>3 DEF ReaderInv, Scanned, Whole
  <2> QED
    BY <2>1, <2>4, <2>5, <1>3
<1>15. PassedKnown'
  <2>1. SUFFICES ASSUME NEW k \in 1..Len(log), Due(k), k <= n, k # reader'.at
        PROVE  log[k].seq <= clients[o].last
    <3>1. \A k \in 1..Len(log) : Passed(k)' => k <= n /\ k # reader'.at
      BY <1>2, <1>3, <1>13 DEF Passed
    <3> QED
      BY <2>1, <3>1, <1>2, <1>6, <1>10, <1>13 DEF PassedKnown
  <2>2. CASE k <= pos
    BY <2>1, <2>2, <1>11
  <2>3. CASE k = n
    <3>1. log[n].kind = "chunk" /\ reader' = reader
      BY <2>1, <2>3, <1>2
    <3>2. log[n].seg = 1 /\ ~Apart(n)
      BY <2>1, <2>3, <3>1 DEF Due, Whole
    <3>3. n \in 2..Len(log) /\ cursor < pos
      BY <3>2, <1>14
    <3>4. \/ log[n].seq <= clients[o].last
          \/ asm.stream = o /\ asm.seq = log[n].seq /\ asm.next = 1
      BY <3>2, <3>3, <1>0, <1>2, <1>3, <1>9 DEF Holding
    <3>5. ASSUME asm.stream = o, asm.seq = log[n].seq, asm.next = 1
          PROVE  log[n].seq <= clients[o].last
      <4>1. Completes(log[n])
        BY <3>2, <3>5, <1>3, <1>4 DEF Completes
      <4>2. Replayed(log[n])
        BY <4>1, <2>1, <2>3, <1>2
      <4>3. chunkDone[o] >= log[n].seq
        BY <4>2, <3>2, <3>5, <1>3, <1>4 DEF Replayed
      <4> QED
        BY <4>3, <1>3, <1>4, <1>10
    <3> QED
      BY <2>3, <3>4, <3>5
  <2> QED
    BY <2>1, <2>2, <2>3, <1>3
<1>16. AsmNext'
  <2>1. ASSUME asm' = asm, asm.stream # NoStream,
               log[n].kind = "chunk" => Replayed(log[n]) /\ reader' = reader
        PROVE  AsmNext'
    <3>1. PICK m \in 1..Len(log) :
             log[m].kind = "chunk" /\ log[m].seg = 0 /\ log[m].seq = asm.seq
      BY <2>1, <1>12
    <3>2. ~(Own(n) /\ Whole(n) /\ log[n].seq = asm.seq)
      <4>1. SUFFICES ASSUME Own(n), Whole(n), log[n].seq = asm.seq PROVE FALSE
        OBVIOUS
      <4>2. m # n /\ Own(m)
        BY <3>1, <4>1 DEF Whole, Own
      <4>3. ~(n < m)
        BY <3>1, <4>1, <4>2, <1>3, <1>4, <1>5 DEF Grows, Whole
      <4>4. m < n
        BY <4>2, <4>3, <1>3
      <4>5. log[n].seg = 1 /\ log[n].kind = "chunk"
        BY <3>1, <4>1, <4>2, <4>4, <1>3, <1>4, <1>5 DEF Grows
      <4>6. Replayed(log[n])
        BY <4>5, <2>1
      <4> QED
        BY <4>1, <4>5, <4>6, <2>1, <1>3, <1>4, <1>10, <1>12 DEF Replayed
    <3>3. \A k \in 1..Len(log) :
             Own(k) /\ Whole(k) /\ log[k].seq = asm.seq => ~Seen(k)'
      BY <3>2, <2>1, <1>3, <1>12, <1>13
    <3>4. reader'.at # 0 => At'.kind # "chunk"
      BY <2>1, <1>2 DEF At
    <3> QED
      BY <3>3, <3>4, <2>1, <1>2, <1>6, <1>12, <1>13 DEF AsmNext
  <2>2. ASSUME asm' = Assembled(log[n]), asm'.stream # NoStream,
               log[n].kind = "chunk",
               \/ log[n].seg = 1
               \/ ~Replayed(log[n]) /\ reader' = reader
        PROVE  AsmNext'
    <3>1. /\ log[n].seg = 0 /\ asm.stream # o
          /\ asm'.stream = o /\ asm'.seq = log[n].seq /\ asm'.next = 1
      <4>1. log[n].stream = o /\ (asm.stream = o => asm.next = 1)
        BY <1>3, <1>4, <1>10, <1>12
      <4> QED
        BY <4>1, <2>2, <1>3, <1>4 DEF Assembled, NoAsm
    <3>2. ~Replayed(log[n]) /\ reader' = reader
      BY <3>1, <2>2
    <3>3. chunkDone[o] < log[n].seq
      BY <3>2, <1>3, <1>4, <1>10 DEF Replayed
    <3>4. Own(n) /\ ~Whole(n)
      BY <3>1, <2>2 DEF Own, Whole
    <3>5. ASSUME NEW k \in 1..Len(log), Due(k), log[k].seq < log[n].seq
          PROVE  log[k].seq <= clients[o].last
      <4>1. Own(k) /\ k # n
        BY <3>4, <3>5 DEF Due
      <4>2. ~(n < k)
        BY <3>4, <3>5, <4>1, <1>3, <1>4, <1>5 DEF Grows
      <4>3. k <= pos
        BY <4>1, <4>2, <1>3
      <4> QED
        BY <4>3, <3>5, <1>11
    <3>6. ASSUME NEW k \in 1..Len(log), Own(k), Whole(k), log[k].seq = log[n].seq
          PROVE  ~(k <= n)
      <4>1. k # n
        BY <3>4, <3>6
      <4>2. ~(k < n)
        BY <3>1, <3>4, <3>6, <1>3, <1>4, <1>5 DEF Grows
      <4> QED
        BY <4>1, <4>2, <1>3
    <3>7. \A k \in 1..Len(log) :
             Own(k) /\ Whole(k) /\ log[k].seq = log[n].seq => ~Seen(k)'
      BY <3>6, <1>13
    <3> QED
      BY <3>1, <3>2, <3>3, <3>5, <3>7, <2>2, <1>2, <1>3, <1>6, <1>13 DEF AsmNext
  <2>3. CASE asm'.stream = NoStream
    BY <2>3 DEF AsmNext
  <2> QED
    BY <2>1, <2>2, <2>3, <1>2
<1>17. Holding'
  <2>1. SUFFICES ASSUME reader'.at = 0, NEW k \in 2..Len(log), k = n + 1,
                        log[k].seg = 1, ~Apart(k)
        PROVE  \/ log[k].seq <= clients[o].last
               \/ asm'.stream = o /\ asm'.seq = log[k].seq /\ asm'.next = 1
    BY <1>2, <1>6, <1>13 DEF Holding
  <2>2. k \in 1..Len(log) /\ log[k].kind = "chunk" /\ k - 1 = n
    BY <2>1, <1>3, <1>4
  <2>3. log[n].kind = "chunk" /\ log[n].seg = 0 /\ log[n].seq = log[k].seq
    <3>1. log[n] = [log[k] EXCEPT !.seg = 0]
      BY <2>1, <2>2 DEF Apart
    <3>2. log[k] \in Envelopes
      BY <2>2, LogTyped
    <3> QED
      BY <3>1, <3>2, <2>2 DEF Envelopes
  <2>4. Due(k) /\ Own(n) /\ log[n].stream = o
    BY <2>1, <2>2, <2>3, <1>3, <1>4 DEF Due, Own, Whole
  <2>5. CASE Replayed(log[n]) /\ asm' = asm
    <3>1. CASE chunkDone[o] >= log[n].seq
      BY <3>1, <2>3, <1>3, <1>4, <1>10
    <3>2. CASE asm.stream = o /\ log[n].seq < asm.seq
      BY <3>2, <2>2, <2>3, <2>4, <1>10, <1>12
    <3>3. CASE asm.stream = o /\ log[n].seq = asm.seq
      BY <3>3, <2>3, <2>5, <1>10, <1>12
    <3> QED
      BY <3>1, <3>2, <3>3, <2>4, <2>5 DEF Replayed
  <2>6. CASE ~Replayed(log[n]) /\ asm' = Assembled(log[n])
    <3>1. asm.stream # o
      <4>1. SUFFICES ASSUME asm.stream = o PROVE FALSE
        OBVIOUS
      <4>2. asm.next = 1 /\ asm.seq < log[n].seq
        BY <4>1, <2>3, <2>4, <2>6, <1>3, <1>4, <1>10, <1>12 DEF Replayed
      <4>3. asm.seq \in 0..(log[n].seq - 1)
        <5>1. asm.seq \in Nat
          BY DEF Types, TypeOK
        <5> QED
          BY <5>1, <4>2, <1>3, <1>4
      <4>4. EndsBefore(asm.seq, n)
        BY <4>3, <2>3, <2>4, <1>3, SingleFacts
      <4>5. PICK j \in 1..(n - 1) : Own(j) /\ Whole(j) /\ log[j].seq = asm.seq
        BY <4>4 DEF EndsBefore
      <4>6. j \in 1..Len(log) /\ ~(pos < j)
        BY <1>3
      <4> QED
        BY <4>1, <4>5, <4>6, <1>10, <1>12
    <3> QED
      BY <3>1, <2>3, <2>4, <2>6 DEF Assembled
  <2> QED
    BY <2>1, <2>3, <2>5, <2>6, <1>2, <1>3
<1> QED
  BY <1>15, <1>16, <1>17 DEF InStep

\* Cursors and deliveries stay in step.
LEMMA InStepStep ==
    ASSUME Types, LogInv, ReaderInv, ConnInv, DelInv, Single, log # <<>>,
           Beginning, InStep, [Next]_vars, Types',
           \A s \in Streams : ~ClientSends(s)
    PROVE  Beginning' /\ InStep'
<1> USE AssumptionFacts
<1>0. PICK o \in Streams : o = Only
  BY SingleFacts
<1>1. log' = log => Only' = o
  BY <1>0 DEF Only
<1>2. /\ \A k \in 1..Len(log) : log[k].stream = o /\ log[k].seq \in Nat
                                  /\ (log[k].kind = "init" <=> k = 1)
      /\ Len(log) >= 1 /\ Len(log) \in Nat /\ cursor \in Nat /\ pos \in Nat
  BY <1>0, SingleFacts, LogTyped DEF IsInit
<1>19. /\ clients[o].last \in Int /\ clients'[o].last \in Int
       /\ chunkDone[o] \in Int
  <2>1. /\ clients[o].last \in -1..MaxLog /\ clients'[o].last \in -1..MaxLog
        /\ chunkDone[o] \in -1..MaxLog
    BY DEF Types, TypeOK
  <2> QED
    BY <2>1
<1>20. log' = log =>
         \A k \in 1..Len(log) : /\ Due(k)' <=> Due(k)
                                /\ Own(k)' <=> Own(k)
                                /\ Whole(k)' <=> Whole(k)
                                /\ Apart(k)' <=> Apart(k)
  BY DEF Due, Own, Whole, Apart
<1>21. reader.at # 0 => cursor < reader.at /\ reader.at = pos
  BY DEF ReaderInv, Scanned

\* nothing but the place of the reader and the client of the stream changes
<1>3. ASSUME SamePlace, asm' = asm, chunkDone' = chunkDone,
             \/ reader'.at = 0 /\ reader'.pc = "off"
             \/ reader'.at = reader.at /\ reader'.pc # "off" /\ reader.pc # "off",
             \/ clients'[o].id = 0
             \/ /\ clients'[o].id = clients[o].id
                /\ clients[o].last <= clients'[o].last
      PROVE  Beginning' /\ InStep'
  <2>1. Only' = o /\ log' = log /\ pos' = pos /\ cursor' = cursor
    BY <1>1, <1>3 DEF SamePlace
  <2>2. Beginning'
    BY <1>0, <1>3, <2>1 DEF Beginning
  <2>3. InStep'
    <3>1. SUFFICES ASSUME clients'[o].id # 0
          PROVE  InStep'
      BY <2>1 DEF InStep, Tracked
    <3>2. PassedKnown /\ AsmNext /\ Holding /\ clients[o].last <= clients'[o].last
      BY <1>0, <1>3, <3>1 DEF InStep, Tracked
    <3>3. \A k \in 1..Len(log) : (Seen(k)' => Seen(k)) /\ (Passed(k)' => Passed(k))
      <4>1. SUFFICES ASSUME NEW k \in 1..Len(log)
            PROVE  (Seen(k)' => Seen(k)) /\ (Passed(k)' => Passed(k))
        OBVIOUS
      <4>2. CASE reader'.at = 0 /\ reader'.pc = "off"
        <5>1. Seen(k)' => k <= cursor
          BY <4>2, <2>1 DEF Seen
        <5>2. k <= cursor => k # reader.at
          BY <1>2, <1>21
        <5> QED
          BY <5>1, <5>2 DEF Seen, Passed
      <4>3. CASE reader'.at = reader.at /\ reader'.pc # "off" /\ reader.pc # "off"
        BY <4>3, <2>1 DEF Seen, Passed
      <4> QED
        BY <4>2, <4>3, <1>3
    <3>4. PassedKnown'
      <4>1. ASSUME NEW k \in 1..Len(log), Due(k), Passed(k)'
            PROVE  log[k].seq <= clients'[o].last
        <5>1. log[k].seq <= clients[o].last
          BY <4>1, <3>2, <3>3, <1>0 DEF PassedKnown
        <5> QED
          BY <5>1, <3>2, <1>2, <1>19
      <4>2. chunkDone'[o] <= clients'[o].last
        BY <3>2, <1>0, <1>3, <1>19 DEF PassedKnown
      <4> QED
        BY <4>1, <4>2, <2>1, <1>20 DEF PassedKnown
    <3>5. AsmNext'
      <4>1. SUFFICES ASSUME asm.stream # NoStream PROVE AsmNext'
        BY <1>3 DEF AsmNext
      <4>2. /\ asm.stream = o /\ asm.next = 1 /\ chunkDone[o] < asm.seq
            /\ \E m \in 1..Len(log) :
                  log[m].kind = "chunk" /\ log[m].seg = 0 /\ log[m].seq = asm.seq
            /\ \A n \in 1..Len(log) : Due(n) /\ log[n].seq < asm.seq =>
                  log[n].seq <= clients[o].last
            /\ \A n \in 1..Len(log) :
                  Own(n) /\ Whole(n) /\ log[n].seq = asm.seq => ~Seen(n)
            /\ reader.at # 0 => At.kind # "chunk"
        BY <4>1, <3>2, <1>0 DEF AsmNext
      <4>3. \A n \in 1..Len(log) : Due(n) /\ log[n].seq < asm.seq =>
                  log[n].seq <= clients'[o].last
        BY <4>2, <3>2, <1>2, <1>19
      <4>4. \A n \in 1..Len(log) :
                  Own(n) /\ Whole(n) /\ log[n].seq = asm.seq => ~Seen(n)'
        BY <4>2, <3>3
      <4>5. reader'.at # 0 => At'.kind # "chunk"
        BY <4>2, <2>1, <1>3 DEF At
      <4> QED
        BY <4>2, <4>3, <4>4, <4>5, <2>1, <1>3, <1>20 DEF AsmNext
    <3>6. Holding'
      <4>1. SUFFICES ASSUME reader'.pc # "off", reader'.at = 0, cursor < pos,
                            NEW n \in 2..Len(log), n = pos + 1, log[n].seg = 1,
                            ~Apart(n)
            PROVE  \/ log[n].seq <= clients'[o].last
                   \/ asm.stream = o /\ asm.seq = log[n].seq /\ asm.next = 1
        <5>1. \A n \in 2..Len(log) : Apart(n)' <=> Apart(n)
          BY <2>1 DEF Apart
        <5> QED
          BY <4>1, <5>1, <2>1, <1>3 DEF Holding
      <4>2. \/ log[n].seq <= clients[o].last
            \/ asm.stream = o /\ asm.seq = log[n].seq /\ asm.next = 1
        BY <4>1, <3>2, <1>0, <1>3 DEF Holding
      <4>3. log[n].seq \in Nat
        BY <1>2
      <4> QED
        BY <4>2, <4>3, <3>2, <1>19
    <3> QED
      BY <3>4, <3>5, <3>6 DEF InStep
  <2> QED
    BY <2>2, <2>3
<1>4. clients' = clients => clients[o].last <= clients'[o].last
  BY <1>19
<1>22. reader.pc = "off" => reader.at = 0
  BY DEF ReaderInv, AtAwait
<1>5. CASE Unnoticed
  <2>1. /\ SamePlace /\ asm' = asm /\ chunkDone' = chunkDone /\ reader' = reader
        /\ clients' = clients
    BY <1>5 DEF Unnoticed
  <2> QED
    BY <2>1, <1>3, <1>4, <1>22
<1>6. CASE Connect
  <2>1. /\ log' = log /\ cursor' = cursor /\ pos' = cursor /\ reader' = Reading
        /\ clients' = clients /\ asm' = asm /\ chunkDone' = chunkDone
        /\ reader.pc = "off"
    BY <1>6 DEF Connect, trackerVars, segmentVars
  <2>2. Only' = o /\ reader'.at = 0 /\ reader'.pc = "read"
    BY <2>1, <1>1, ReadingFacts
  <2>3. Beginning'
    BY <1>0, <2>1, <2>2 DEF Beginning
  <2>4. InStep'
    <3>1. SUFFICES ASSUME clients[o].id # 0
          PROVE  InStep'
      BY <2>1, <2>2 DEF InStep, Tracked
    <3>2. PassedKnown /\ AsmNext
      BY <1>0, <3>1 DEF InStep, Tracked
    <3>3. \A k \in 1..Len(log) : (Seen(k)' => Seen(k)) /\ (Passed(k)' => Passed(k))
      BY <2>1, <2>2 DEF Seen, Passed
    <3>4. PassedKnown'
      BY <3>2, <3>3, <2>1, <2>2, <1>0, <1>20 DEF PassedKnown
    <3>5. AsmNext'
      BY <3>2, <3>3, <2>1, <2>2, <1>0, <1>20 DEF AsmNext
    <3>6. Holding'
      BY <2>1, <1>2 DEF Holding
    <3> QED
      BY <3>4, <3>5, <3>6 DEF InStep
  <2> QED
    BY <2>3, <2>4
<1>7. CASE ReaderStops
  <2>1. /\ SamePlace /\ asm' = asm /\ chunkDone' = chunkDone /\ reader' = Off
        /\ clients' = clients
    BY <1>7 DEF ReaderStops, SamePlace, trackerVars, segmentVars
  <2> QED
    BY <2>1, <1>3, <1>4, ReadingFacts
<1>8. CASE ReadEnvelope
  BY <1>8, ReadInStep
<1>9. CASE HandleMessage
  <2>1. /\ SamePlace /\ asm' = asm /\ chunkDone' = chunkDone /\ reader.pc = "handle"
        /\ clients' = clients /\ reader'.at = reader.at
        /\ reader'.pc \in {"record", "forward"}
    BY <1>9, MessageEffect DEF SameConns, Moves
  <2> QED
    BY <2>1, <1>3, <1>4
<1>10. CASE HandleInitialize \/ HandleClientClosed
  <2>1. PICK s \in Streams :
            /\ s = At.stream /\ clients'[s].id = 0 /\ reader.at # 0
            /\ SamePlace /\ asm' = asm /\ chunkDone' = chunkDone
            /\ reader.pc = "handle" /\ reader'.at = reader.at /\ reader'.pc = "closing"
    BY <1>10, HandleEffect DEF Closes, Moves
  <2>2. s = o
    BY <2>1, <1>2, AtFacts DEF At
  <2> QED
    BY <2>1, <2>2, <1>3
<1>11. CASE CloseReturns
  <2>1. /\ reader.pc = "closing" /\ SamePlace /\ clients' = clients
        /\ \/ reader.at = 0 /\ reader' = Reading /\ Invalidate(reader.stream)
           \/ /\ reader.at # 0 /\ asm' = asm /\ chunkDone' = chunkDone
              /\ reader'.at = reader.at /\ reader'.pc \in {"open", "record"}
    BY <1>11, ReturnEffect DEF SameConns, Moves
  <2>2. CASE reader.at # 0
    BY <2>1, <2>2, <1>3, <1>4
  <2>3. CASE reader.at = 0
    <3>1. PICK r \in Streams : r = reader.stream /\ clients[r].id = 0
      BY <2>1 DEF ReaderInv, AtAwait, Tracked
    <3>2. /\ asm' = (IF asm.stream = r THEN NoAsm ELSE asm)
          /\ chunkDone' = [chunkDone EXCEPT ![r] = -1]
      BY <2>1, <2>3, <3>1 DEF Invalidate
    <3>3. chunkDone \in [Streams -> -1..MaxLog]
      BY DEF Types, TypeOK
    <3>4. /\ r = o => chunkDone'[o] = -1
          /\ r # o => chunkDone'[o] = chunkDone[o]
      BY <3>2, <3>3
    <3>5. /\ Only' = o /\ log' = log /\ pos' = pos /\ cursor' = cursor
          /\ reader'.at = 0 /\ reader'.pc = "read"
      BY <2>1, <2>3, <1>1, ReadingFacts DEF SamePlace
    <3>6. Beginning'
      BY <1>0, <2>1, <2>3, <3>2, <3>4, <3>5 DEF Beginning
    <3>7. InStep'
      <4>1. SUFFICES ASSUME clients[o].id # 0
            PROVE  InStep'
        BY <2>1, <3>5 DEF InStep, Tracked
      <4>2. r # o /\ NoStream # r /\ PassedKnown /\ AsmNext /\ Holding
        BY <1>0, <3>1, <4>1 DEF InStep, Tracked
      <4>3. asm.stream # r
        BY <1>0, <4>2 DEF AsmNext
      <4>4. asm' = asm /\ chunkDone'[o] = chunkDone[o]
        BY <4>2, <4>3, <3>2, <3>4
      <4>5. \A k \in 1..Len(log) : (Seen(k)' => Seen(k)) /\ (Passed(k)' => Passed(k))
        BY <2>1, <2>3, <3>5 DEF Seen, Passed
      <4>6. PassedKnown'
        BY <4>2, <4>4, <4>5, <3>5, <2>1, <1>0, <1>20 DEF PassedKnown
      <4>7. AsmNext'
        BY <4>2, <4>4, <4>5, <3>5, <2>1, <1>0, <1>20 DEF AsmNext
      <4>8. \A n \in 2..Len(log) : Apart(n)' <=> Apart(n)
        BY <3>5 DEF Apart
      <4>9. Holding'
        BY <4>2, <4>4, <4>8, <3>5, <2>1, <2>3, <1>0 DEF Holding
      <4> QED
        BY <4>6, <4>7, <4>9 DEF InStep
    <3> QED
      BY <3>6, <3>7
  <2> QED
    BY <2>2, <2>3
<1>12. CASE OpenConnection
  <2>1. /\ At.kind = "init" /\ reader.at # 0
        /\ SamePlace /\ asm' = asm /\ chunkDone' = chunkDone
        /\ reader.pc = "open" /\ reader'.at = reader.at /\ reader'.pc = "forward"
        /\ clients'[At.stream].last = -1
    BY <1>12, OpenEffect DEF Moves
  <2>2. reader.at = 1 /\ At.stream = o /\ pos = 1
    BY <2>1, <1>2, <1>21, AtFacts DEF At
  <2>3. cursor = 0 /\ asm = NoAsm /\ chunkDone[o] = -1
    BY <2>1, <2>2, <1>0, <1>2, <1>21 DEF Beginning
  <2>4. Only' = o /\ log' = log /\ pos' = 1 /\ cursor' = 0
    BY <2>1, <2>2, <2>3, <1>1 DEF SamePlace
  <2>5. Beginning'
    BY <2>1, <2>2, <2>3, <2>4 DEF Beginning
  <2>6. PassedKnown'
    <3>1. \A k \in 1..Len(log) : ~Passed(k)'
      BY <2>1, <2>2, <2>4 DEF Passed, Seen
    <3> QED
      BY <3>1, <2>1, <2>2, <2>3, <2>4 DEF PassedKnown
  <2>7. AsmNext' /\ Holding'
    BY <2>1, <2>2, <2>3 DEF AsmNext, Holding, NoAsm
  <2> QED
    BY <2>5, <2>6, <2>7 DEF InStep
<1>13. CASE ForwardMessage
  <2>1. PICK s \in Streams :
         /\ s = At.stream /\ reader.pc = "forward" /\ reader.at # 0
         /\ clients'[s].id = clients[s].id /\ clients'[s].last = At.seq
         /\ SamePlace /\ asm' = asm /\ chunkDone' = chunkDone
         /\ reader'.at = reader.at /\ reader'.pc = "record"
    BY <1>13, ForwardEffect DEF Moves
  <2>2. s = o /\ clients[o].last < At.seq
    BY <2>1, <1>0, ForwardSkips
  <2>3. clients[o].last <= clients'[o].last
    BY <2>1, <2>2, <1>19
  <2> QED
    BY <2>1, <2>2, <2>3, <1>3
<1>14. CASE SendTimesOut
  <2>1. PICK s \in Streams :
            /\ s = At.stream /\ reader.at # 0 /\ reader' = Off
            /\ SamePlace /\ asm' = asm /\ chunkDone' = chunkDone
            /\ clients' = clients \/ clients'[s].id = 0
    BY <1>14, TimeoutEffect DEF Closes, SameConns
  <2>2. s = o
    BY <2>1, <1>2, AtFacts DEF At
  <2> QED
    BY <2>1, <2>2, <1>3, <1>4, ReadingFacts
<1>15. CASE RecordDelivery
  <2>1. PICK s \in Streams :
           /\ s = At.stream /\ reader.at # 0 /\ reader.pc = "record"
           /\ reader' = Reading /\ log' = log /\ pos' = pos
           /\ cursor' = reader.at /\ clients' = clients
           /\ \/ At.kind = "closed"
              \/ /\ At.kind = "chunk" /\ asm' = asm
                 /\ chunkDone' = [chunkDone EXCEPT ![s] = At.seq]
              \/ /\ asm' = asm /\ chunkDone' = chunkDone
    BY <1>15, RecordEffect DEF SameConns
  <2>2. PICK m \in 1..Len(log) : m = reader.at
    BY <2>1, AtFacts
  <2>3. /\ s = o /\ At = log[m] /\ m = pos /\ m # 0 /\ log[m].seq \in Nat
        /\ cursor < m
    BY <2>1, <2>2, <1>2, <1>21 DEF At
  <2>4. Beginning'
    BY <2>1, <2>2, <2>3 DEF Beginning
  <2>5. /\ Only' = o /\ cursor' = m /\ pos' = m /\ reader'.at = 0
        /\ reader'.pc = "read" /\ log' = log /\ clients' = clients
    BY <2>1, <2>2, <2>3, <1>1, ReadingFacts
  <2>6. InStep'
    <3>1. SUFFICES ASSUME clients[o].id # 0
          PROVE  InStep'
      BY <2>5 DEF InStep, Tracked
    <3>2. /\ log[m].kind # "closed"
          /\ log[m].kind # "ack" => log[m].seq <= clients[o].last
      BY <2>1, <2>3, <3>1 DEF ReaderInv, AtAwait, Tracked
    <3>3. PassedKnown /\ AsmNext
      BY <1>0, <3>1 DEF InStep, Tracked
    <3>4. asm' = asm
      BY <2>1, <2>3, <3>2
    <3>5. chunkDone' = chunkDone \/
            (log[m].kind = "chunk" /\ chunkDone' = [chunkDone EXCEPT ![o] = log[m].seq])
      BY <2>1, <2>3, <3>2
    <3>6. \/ chunkDone'[o] = chunkDone[o]
          \/ log[m].kind = "chunk" /\ chunkDone'[o] = log[m].seq
      <4>1. chunkDone \in [Streams -> -1..MaxLog]
        BY DEF Types, TypeOK
      <4> QED
        BY <4>1, <3>5
    <3>7. \A k \in 1..Len(log) : /\ Seen(k)' => Seen(k)
                                 /\ Passed(k)' => Passed(k) \/ k = m
      BY <2>1, <2>2, <2>3, <2>5, <1>2 DEF Seen, Passed
    <3>8. PassedKnown'
      <4>1. ASSUME NEW k \in 1..Len(log), Due(k), Passed(k)'
            PROVE  log[k].seq <= clients[o].last
        <5>1. CASE Passed(k)
          BY <4>1, <5>1, <3>3, <1>0 DEF PassedKnown
        <5>2. CASE k = m
          BY <4>1, <5>2, <3>2 DEF Due, Own
        <5> QED
          BY <4>1, <5>1, <5>2, <3>7
      <4>2. chunkDone'[o] <= clients[o].last
        BY <3>2, <3>3, <3>6, <1>0 DEF PassedKnown
      <4> QED
        BY <4>1, <4>2, <2>5, <1>20 DEF PassedKnown
    <3>9. AsmNext'
      <4>1. SUFFICES ASSUME asm.stream # NoStream PROVE AsmNext'
        BY <3>4 DEF AsmNext
      <4>2. log[m].kind # "chunk"
        BY <4>1, <3>3, <2>1, <2>3 DEF AsmNext
      <4>3. chunkDone'[o] = chunkDone[o]
        BY <4>2, <3>6
      <4> QED
        BY <4>3, <3>3, <3>4, <3>7, <2>5, <1>0, <1>20 DEF AsmNext
    <3>10. Holding'
      BY <2>5, <2>3, <1>2 DEF Holding
    <3> QED
      BY <3>8, <3>9, <3>10 DEF InStep
  <2> QED
    BY <2>4, <2>6
<1>16. ASSUME NEW s \in Streams, Closes(s), SamePlace, asm' = asm,
              chunkDone' = chunkDone, reader.pc = "read", reader.at = 0,
              reader'.pc = "closing", reader'.at = 0
       PROVE  Beginning' /\ InStep'
  <2>1. clients'[o].id = 0 \/ clients'[o] = clients[o]
    BY <1>16 DEF Closes
  <2> QED
    BY <2>1, <1>3, <1>16, <1>19
<1>17. ASSUME NEW s \in Streams, SweepIdle(s)
       PROVE  Beginning' /\ InStep'
  BY <1>16, <1>17, SweepEffect
<1>18. ASSUME NEW t \in tasks, BookkeepTask(t)
       PROVE  Beginning' /\ InStep'
  BY <1>16, <1>18, BookkeepEffect
<1> QED
  BY <1>5, <1>6, <1>7, <1>8, <1>9, <1>10, <1>11, <1>12, <1>13, <1>14, <1>15,
     <1>17, <1>18, OthersUnnoticed DEF Next, ReaderStep

-----------------------------------------------------------------------------
(* The theorems.                                                           *)

\* Before the first websocket there is nothing to show.
LEMMA UntouchedInv ==
    Types /\ Untouched => ReaderInv /\ ConnInv /\ DelInv /\ GapInv
<1> SUFFICES ASSUME Types, Untouched
             PROVE  ReaderInv /\ ConnInv /\ DelInv /\ GapInv
  OBVIOUS
<1>1. /\ pos = 0 /\ cursor = 0 /\ reader.pc = "off" /\ reader.at = 0 /\ asm = NoAsm
      /\ \A s \in Streams : clients[s].id = 0 /\ chunkDone[s] = -1
      /\ tasks = {} /\ Len(opened) = 0 /\ Len(delivered) = 0
      /\ closers = {} /\ why = {}
  BY ReadingFacts DEF Untouched, NoClient
<1>2. ReaderInv
  BY <1>1 DEF ReaderInv, AtAwait, Scanned
<1>3. ConnInv
  BY <1>1 DEF ConnInv, TrackedIsNewest, Tracked, TasksExcused, EndsExcused,
              NoLeakedConnection
<1>4. DelInv
  BY <1>1 DEF DelInv, DeliveredTyped, Unrecorded, LastCovers, DeliveredInOrder,
              NoDuplicateDelivery
<1>5. GapInv
  <2>1. SUFFICES ASSUME log # <<>> PROVE Complete /\ Beginning /\ InStep
    BY DEF GapInv
  <2>2. Only \in Streams
    <3>1. log \in Seq(Envelopes) /\ 1 \in 1..Len(log)
      BY <2>1 DEF Types, TypeOK
    <3>2. log[1] \in Envelopes
      BY <3>1
    <3> QED
      BY <3>2 DEF Envelopes, Only
  <2> QED
    BY <1>1, <2>2 DEF Complete, Beginning, InStep, Tracked
<1> QED
  BY <1>2, <1>3, <1>4, <1>5

\* The initial states.
LEMMA InitInv == Init => Inv
<1> SUFFICES ASSUME Init PROVE Inv
  OBVIOUS
<1>1. Untouched
  BY DEF Init, Untouched
<1>2. Types
  <2>4. /\ log = <<>> /\ opened = <<>> /\ closed = <<>> /\ delivered = <<>>
        /\ conn = FALSE /\ faults = 0 /\ nextId = 1 /\ tasks = {} /\ closers = {}
        /\ why = {} /\ pos = 0 /\ cursor = 0
    BY DEF Init
  <2>5. <<>> \in Seq(Envelopes) /\ <<>> \in Seq(Streams) /\ <<>> \in Seq(Nat)
        /\ <<>> \in Seq([id : Nat, at : Nat]) /\ Len(<<>>) = 0
    OBVIOUS
  <2>1. /\ log \in Seq(Envelopes) /\ Len(log) = 0
        /\ opened \in Seq(Streams) /\ Len(opened) = 0 /\ Len(closed) = 0
        /\ closed \in Seq(Nat) /\ delivered \in Seq([id : Nat, at : Nat])
    BY <2>4, <2>5
  <2>2. /\ clients \in [Streams -> [id : Nat, last : -1..MaxLog]]
        /\ asm \in [stream : Streams \cup {NoStream}, seq : 0..MaxLog, next : 0..1]
        /\ chunkDone \in [Streams -> -1..MaxLog]
    BY AssumptionFacts DEF Init, NoClient, NoAsm
  <2>3. reader \in [pc : Pcs, at : 0..MaxLog, stream : Streams \cup {NoStream},
                    wait : Nat]
    BY ReadingFacts DEF Init
  <2>6. /\ Len(log) <= MaxLog /\ cursor \in 0..Len(log) /\ pos \in 0..Len(log)
        /\ nextId = Len(opened) + 1 /\ Len(closed) = Len(opened)
        /\ faults \in 0..MaxFaults
    BY <2>1, <2>4, AssumptionFacts
  <2>7. /\ conn \in BOOLEAN /\ closers \cup why \subseteq 1..Len(opened)
        /\ tasks \subseteq [id : Nat, stream : Streams,
                            st : {"running", "cancelled", "ended"}]
    BY <2>4
  <2> QED
    BY <2>1, <2>2, <2>3, <2>6, <2>7 DEF Types, TypeOK
<1>3. LogInv
  <2>1. Len(log) = 0
    BY DEF Init
  <2> QED
    BY <2>1 DEF LogInv, LogShape, Linear, Places
<1>4. FreshInv
  BY <1>1 DEF FreshInv
<1> QED
  BY <1>1, <1>2, <1>3, <1>4, UntouchedInv DEF Inv

\* Only clients add to the log.
LEMMA LogStays ==
    ASSUME [Next]_vars, \A s \in Streams : ~ClientSends(s)
    PROVE  log' = log
  BY DEF Next, vars, ReaderStep, Connect, LoseWebsocket, ReaderStops, ReadEnvelope,
       HandleMessage, HandleInitialize, HandleClientClosed, CloseReturns,
       OpenConnection, ForwardMessage, SendTimesOut, RecordDelivery, SweepIdle,
       TaskEnds, AppDisconnects, BookkeepTask, CloserSends

\* A step that leaves the log alone preserves the invariant.
LEMMA OtherStep ==
    ASSUME Inv, [Next]_vars, \A s \in Streams : ~ClientSends(s)
    PROVE  Inv'
<1>1. Types /\ LogInv /\ FreshInv /\ ReaderInv /\ ConnInv /\ DelInv /\ GapInv
  BY DEF Inv
<1>2. log' = log
  BY LogStays
<1>3. LogInv' /\ (Single' <=> Single)
  <2>1. Single' <=> Single
    BY <1>2 DEF Single, IsInit
  <2>2. LogShape'
    BY <1>1, <1>2 DEF LogInv, LogShape, IsInit, Places
  <2>3. Only' = Only
    BY <1>2 DEF Only
  <2>4. /\ \A k : Own(k)' <=> Own(k)
        /\ \A j, k : Grows(j, k)' <=> Grows(j, k)
        /\ \A p, k : EndsBefore(p, k)' <=> EndsBefore(p, k)
    BY <1>2 DEF Own, Grows, EndsBefore, Whole
  <2>5. Linear'
    BY <1>1, <1>2, <2>1, <2>3, <2>4 DEF LogInv, Linear
  <2> QED
    BY <2>1, <2>2, <2>5 DEF LogInv
<1>4. Types'
  BY <1>1, TypesStep
<1>5. FreshInv' /\ ReaderInv' /\ ConnInv'
  BY <1>1, FreshStep, ReaderInvStep, ConnInvStep
<1>6. DelInv'
  BY <1>1, <1>4, DelInvStep
<1>7. GapInv'
  <2>1. SUFFICES ASSUME Single, log # <<>>
        PROVE  Complete' /\ Beginning' /\ InStep'
    BY <1>2, <1>3 DEF GapInv
  <2>2. Complete /\ Beginning /\ InStep
    BY <1>1, <2>1 DEF GapInv
  <2> QED
    BY <1>1, <1>4, <2>1, <2>2, CompleteStep, InStepStep
<1> QED
  BY <1>3, <1>4, <1>5, <1>6, <1>7 DEF Inv

\* The inductive invariant holds.
LEMMA InvInductive == Spec => []Inv
<1>1. ASSUME Inv, NEW s \in Streams, ClientSends(s)
      PROVE  Types' /\ LogInv' /\ FreshInv' /\ Untouched'
  BY <1>1, SendStep DEF Inv
<1>2. Inv /\ [Next]_vars => Inv' \/ (Types' /\ LogInv' /\ FreshInv' /\ Untouched')
  BY <1>1, OtherStep
<1>3. Inv <=> Types /\ LogInv /\ FreshInv /\ ReaderInv /\ ConnInv /\ DelInv /\ GapInv
  BY DEF Inv
<1> QED
  BY <1>2, <1>3, InitInv, UntouchedInv, PTL DEF Spec

\* The first conjunction the run checks.
LEMMA InvGivesConnection == Inv => ConnectionInv
  BY DEF Inv, Types, ConnInv, EndsExcused, Excused, ConnectionInv, OnlySuccessorsHit

\* The second one.
LEMMA InvGivesDelivery == Inv => DeliveryInv
<1> SUFFICES ASSUME Inv PROVE DeliveryInv
  OBVIOUS
<1>1. NoDuplicateDelivery /\ DeliveredInOrder
  BY DEF Inv, DelInv
<1>2. NoGap
  <2>1. SUFFICES ASSUME Inits <= 1, NEW i \in 1..Len(delivered),
                        NEW p \in 0..log[delivered[i].at].seq
        PROVE  Got(delivered[i].id, p, i) \/ Parted(p)
    BY DEF NoGap, Got, Parted
  <2>2. Single
    BY <2>1, InitsIsSingle DEF Inv
  <2>3. log # <<>>
    <3>1. delivered[i].at \in 1..Len(log)
      BY DEF Inv, DelInv, DeliveredTyped
    <3> QED
      BY <3>1
  <2>4. Complete
    BY <2>2, <2>3 DEF Inv, GapInv
  <2> QED
    BY <2>1, <2>4 DEF Complete
<1> QED
  BY <1>1, <1>2 DEF DeliveryInv

\* Whatever the reader was doing when it was aborted, however often the
\* websocket is lost: every connection announced to the app server is tracked,
\* about to be reported closed or was reported closed once, and one that ends
\* without a reason of its own replaced an earlier connection of its stream.
THEOREM NoConnectionLeaks == Spec => []ConnectionInv
  BY InvInductive, InvGivesConnection, PTL

\* Messages are forwarded at most once (with the exception NoDuplicateDelivery
\* names), in the order of their seq after initialize and, for a client that
\* initializes once, without a gap but for segmented messages with an envelope of
\* somebody else between their segments, for any number of lost websockets,
\* replays, idle sweeps, disconnects and timeouts.
THEOREM DeliveryIsExact == Spec => []DeliveryInv
  BY InvInductive, InvGivesDelivery, PTL
=============================================================================
