------------------------ MODULE RemoteOutboundProofs ------------------------
(***************************************************************************)
(* Proofs about RemoteOutbound, for any number of streams, messages and    *)
(* lost websockets: BufferInv, and that the streams are reliable as far as *)
(* safety goes.                                                            *)
(*                                                                         *)
(* All sequences of a stream are read as parts of `given': the client has  *)
(* a prefix of it, the buffer and the payloads to write are ends of it,    *)
(* and the wire holds, in order, at least the envelopes between what the   *)
(* client has and what is still to be written.                             *)
(***************************************************************************)
EXTENDS RemoteOutbound, FiniteSetTheorems, TLAPS

\* the envelopes of s that a writer has behind it
Sent(s) == Len(given[s]) - Len(writer.out[s])

\* the envelopes of s that no longer are in the buffer
Gone(s) == Len(given[s]) - Len(buffer[s])

\* Numbers do not run ahead of the messages queued.
NumbersBounded == \A s \in Streams : nextSeq[s] + Len(queue) <= count + 1

\* The envelopes of a stream in the order of their cursors.
GivenInOrder == \A s \in Streams :
    /\ \A i \in 1..Len(given[s]) : /\ given[s][i].stream = s
                                   /\ given[s][i].seq < nextSeq[s]
    /\ \A i, j \in 1..Len(given[s]) : i < j =>
          /\ ~CursorLeq(given[s][j], given[s][i])
          /\ CursorLeq(given[s][i], given[s][j])
          /\ given[s][i].seq = given[s][j].seq => ~given[s][i].whole /\ ~given[s][j].whole

\* Every number is an envelope's or was used up.
Numbered == \A s \in Streams :
    LET seqs == {given[s][i].seq : i \in DOMAIN given[s]}
    IN  1..(nextSeq[s] - 1) = seqs \cup void[s] /\ seqs \cap void[s] = {}

\* The client has a prefix of what was given, the buffer holds the rest.
BufferHoldsRest == \A s \in Streams :
    /\ IsSuffix(buffer[s], given[s])
    /\ Len(got[s]) <= Len(given[s])
    /\ \A i \in 1..Len(got[s]) : got[s][i] = given[s][i]
    /\ Gone(s) <= Len(got[s])

\* What is still to be written is an end of what was given.
OutIsEnd ==
    /\ \A s \in Streams : IsSuffix(writer.out[s], given[s])
    /\ writer.pc = "off" => \A s \in Streams : writer.out[s] = <<>>

\* The wire holds envelopes the writer has behind it, those of a stream in order.
WireInOrder ==
    /\ ~conn => wire = <<>> /\ acks = <<>>
    /\ \A i \in 1..Len(wire) : \E j \in 1..Sent(wire[i].stream) :
          wire[i] = given[wire[i].stream][j]
    /\ \A i, k \in 1..Len(wire) :
          i < k /\ wire[i].stream = wire[k].stream => ~CursorLeq(wire[k], wire[i])

\* It holds all that the client still lacks of them.
WireComplete ==
    conn => \A s \in Streams : \A j \in (Len(got[s]) + 1)..Sent(s) :
                \E i \in 1..Len(wire) : wire[i] = given[s][j]

\* Only what a client has is acknowledged.
AcksAreHad == \A i \in 1..Len(acks) :
    \E m \in 1..Len(got[acks[i].stream]) : acks[i] = given[acks[i].stream][m]

\* The counter counts the buffered envelopes.
UsageInv == used = Buffered /\ used < Capacity + MaxSize /\ IsFiniteSet(Slots)

\* The inductive invariant.
Inv ==
    /\ TypeOK /\ NumbersBounded /\ GivenInOrder /\ Numbered
    /\ BufferHoldsRest /\ OutIsEnd
    /\ WireInOrder /\ WireComplete /\ AcksAreHad /\ UsageInv

-----------------------------------------------------------------------------
(* Sequences and records.                                                  *)

\* The places of a sequence hold elements of its set.
LEMMA Elements ==
    ASSUME NEW S, NEW q \in Seq(S)
    PROVE  Len(q) \in Nat /\ DOMAIN q = 1..Len(q) /\ \A i \in 1..Len(q) : q[i] \in S
  OBVIOUS

\* The fields of an envelope.
LEMMA Fields ==
    ASSUME NEW e \in Envelopes
    PROVE  /\ e.stream \in Streams /\ e.seq \in 1..MaxMessages
           /\ e.seq \in Nat /\ e.seg \in Nat /\ e.whole \in BOOLEAN
  BY OutboundAssumption DEF Envelopes

\* One more element at the end.
LEMMA Appended ==
    ASSUME NEW S, NEW q \in Seq(S), NEW e \in S
    PROVE  /\ Append(q, e) \in Seq(S)
           /\ Len(Append(q, e)) = Len(q) + 1
           /\ \A i \in 1..Len(q) : Append(q, e)[i] = q[i]
           /\ Append(q, e)[Len(q) + 1] = e
  OBVIOUS

\* The first element is taken off.
LEMMA TakenOff ==
    ASSUME NEW S, NEW q \in Seq(S), q # <<>>
    PROVE  /\ Tail(q) \in Seq(S) /\ Head(q) \in S /\ Head(q) = q[1]
           /\ Len(q) \in Nat \ {0} /\ Len(Tail(q)) = Len(q) - 1
           /\ \A i \in 1..Len(Tail(q)) : Tail(q)[i] = q[i + 1]
  OBVIOUS

\* Another sequence is put at the end.
LEMMA Joined ==
    ASSUME NEW S, NEW q \in Seq(S), NEW u \in Seq(S)
    PROVE  /\ q \o u \in Seq(S)
           /\ Len(q \o u) = Len(q) + Len(u)
           /\ \A i \in 1..Len(q) : (q \o u)[i] = q[i]
           /\ \A i \in 1..Len(u) : (q \o u)[Len(q) + i] = u[i]
  OBVIOUS

\* A message of n segments becomes n envelopes.
LEMMA SplitFacts ==
    ASSUME NEW s \in Streams, NEW q \in 1..MaxMessages, NEW n \in Nat
    PROVE  /\ Split(s, q, n) \in Seq(Envelopes)
           /\ Len(Split(s, q, n)) = n
           /\ \A i \in 1..n : Split(s, q, n)[i] =
                  [stream |-> s, seq |-> q, seg |-> i - 1, whole |-> n = 1]
<1> DEFINE F(i) == [stream |-> s, seq |-> q, seg |-> i - 1, whole |-> n = 1]
<1>1. ASSUME NEW i \in 1..n PROVE F(i) \in Envelopes
  <2>1. i - 1 \in Nat OBVIOUS
  <2>2. (n = 1) \in BOOLEAN OBVIOUS
  <2> QED BY <2>1, <2>2 DEF Envelopes
<1> HIDE DEF F
<1>2. [i \in 1..n |-> F(i)] \in [1..n -> Envelopes] BY <1>1
<1>3. [i \in 1..n |-> F(i)] \in Seq(Envelopes) /\ Len([i \in 1..n |-> F(i)]) = n
  BY <1>2
<1>4. Split(s, q, n) = [i \in 1..n |-> F(i)] BY DEF Split, F
<1>5. \A i \in 1..n : Split(s, q, n)[i] = F(i) BY <1>4
<1> QED BY <1>3, <1>4, <1>5 DEF F

\* The order of cursors is the order of places.
LEMMA CursorOrder ==
    ASSUME TypeOK, GivenInOrder, NEW s \in Streams,
           NEW i \in 1..Len(given[s]), NEW j \in 1..Len(given[s])
    PROVE  /\ CursorLeq(given[s][i], given[s][j]) <=> i <= j
           /\ Covers(given[s][j], given[s][i]) <=> i <= j
           /\ given[s][i] = given[s][j] => i = j
<1>1. given[s] \in Seq(Envelopes) BY DEF TypeOK
<1>2. given[s][i] \in Envelopes /\ given[s][j] \in Envelopes /\ Len(given[s]) \in Nat
  BY <1>1, Elements
<1> DEFINE a == given[s][i]
           b == given[s][j]
<1>3. a.seq \in Nat /\ a.seg \in Nat /\ a.whole \in BOOLEAN BY <1>2, Fields
<1>4. b.seq \in Nat /\ b.seg \in Nat /\ b.whole \in BOOLEAN BY <1>2, Fields
<1>5. i < j => ~CursorLeq(b, a) /\ CursorLeq(a, b) /\ (a.seq = b.seq => ~a.whole /\ ~b.whole)
  BY DEF GivenInOrder
<1>6. j < i => ~CursorLeq(a, b) /\ CursorLeq(b, a) /\ (a.seq = b.seq => ~a.whole /\ ~b.whole)
  BY DEF GivenInOrder
<1>7. i = j => a = b OBVIOUS
<1>8. i < j \/ i = j \/ j < i OBVIOUS
<1> HIDE DEF a, b
<1>9. CursorLeq(a, a) BY <1>3 DEF CursorLeq
<1>10. CursorLeq(a, b) <=> i <= j BY <1>5, <1>6, <1>7, <1>8, <1>9
<1>11. Covers(b, a) <=> i <= j
  <2>1. CASE i < j
    <3>1. CursorLeq(a, b) BY <1>5, <2>1
    <3> QED BY <2>1, <3>1, <1>3, <1>4 DEF CursorLeq, Covers
  <2>2. CASE i = j
    <3>1. Covers(b, a) BY <1>7, <2>2, <1>3 DEF Covers
    <3> QED BY <3>1, <2>2
  <2>3. CASE j < i
    <3>1. ~CursorLeq(a, b) /\ (a.seq = b.seq => ~b.whole) BY <1>6, <2>3
    <3>2. ~Covers(b, a) BY <3>1, <1>3, <1>4 DEF CursorLeq, Covers
    <3> QED BY <3>2, <2>3
  <2> QED BY <2>1, <2>2, <2>3, <1>8
<1>12. a = b => i = j
  <2>1. a = b => CursorLeq(a, b) /\ CursorLeq(b, a) BY <1>9
  <2> QED BY <2>1, <1>5, <1>6, <1>8
<1> QED BY <1>10, <1>11, <1>12 DEF a, b

-----------------------------------------------------------------------------
(* Counting.                                                               *)

\* the places that the streams S use of a buffer f
SlotsOf(f, S) == UNION {{r} \X (1..Len(f[r])) : r \in S}

\* The places of one stream.
LEMMA OneStream ==
    ASSUME NEW s, NEW n \in Nat
    PROVE  IsFiniteSet({s} \X (1..n)) /\ Cardinality({s} \X (1..n)) = n
<1>1. IsFiniteSet({s}) /\ Cardinality({s}) = 1 BY FS_Singleton
<1>2. IsFiniteSet(1..n) /\ Cardinality(1..n) = n BY FS_Interval
<1>3. IsFiniteSet({s} \X (1..n))
      /\ Cardinality({s} \X (1..n)) = Cardinality({s}) * Cardinality(1..n)
  BY <1>1, <1>2, FS_Product
<1> QED BY <1>1, <1>2, <1>3

\* Finitely many streams use finitely many places.
LEMMA SlotsFinite ==
    ASSUME NEW f, NEW S, IsFiniteSet(S), \A r \in S : Len(f[r]) \in Nat
    PROVE  IsFiniteSet(SlotsOf(f, S))
<1> DEFINE G(r) == {r} \X (1..Len(f[r]))
<1>1. \A r \in S : IsFiniteSet(G(r)) BY OneStream
<1>2. IsFiniteSet({G(r) : r \in S}) 
  <2>1. [r \in S |-> G(r)] \in Surjection(S, {G(r) : r \in S}) BY DEF Surjection
  <2> QED BY <2>1, FS_Surjection
<1>3. IsFiniteSet(UNION {G(r) : r \in S}) BY <1>1, <1>2, FS_UNION
<1> QED BY <1>3 DEF SlotsOf

\* The usage changes by as much as the stream's buffer.
LEMMA SlotsChange ==
    ASSUME NEW f, NEW g, NEW s \in Streams,
           \A r \in Streams : Len(f[r]) \in Nat /\ Len(g[r]) \in Nat,
           \A r \in Streams : r # s => g[r] = f[r]
    PROVE  /\ Cardinality(SlotsOf(f, Streams)) \in Nat
           /\ Len(f[s]) <= Cardinality(SlotsOf(f, Streams))
           /\ Cardinality(SlotsOf(g, Streams))
              = (Cardinality(SlotsOf(f, Streams)) - Len(f[s])) + Len(g[s])
<1> DEFINE R == SlotsOf(f, Streams \ {s})
           AF == {s} \X (1..Len(f[s]))
           AG == {s} \X (1..Len(g[s]))
<1>0. IsFiniteSet(Streams \ {s}) BY OutboundAssumption, FS_Subset
<1>1. IsFiniteSet(R) BY <1>0, SlotsFinite
<1>2. IsFiniteSet(AF) /\ Cardinality(AF) = Len(f[s]) BY OneStream
<1>3. IsFiniteSet(AG) /\ Cardinality(AG) = Len(g[s]) BY OneStream
<1>4. R \cap AF = {} /\ R \cap AG = {} BY DEF SlotsOf
<1>5. SlotsOf(f, Streams) = R \cup AF BY DEF SlotsOf
<1>6. SlotsOf(g, Streams) = R \cup AG
  <2>1. SlotsOf(g, Streams) = SlotsOf(g, Streams \ {s}) \cup AG BY DEF SlotsOf
  <2>2. SlotsOf(g, Streams \ {s}) = R
    <3>1. \A r \in Streams \ {s} : {r} \X (1..Len(g[r])) = {r} \X (1..Len(f[r])) OBVIOUS
    <3>2. {{r} \X (1..Len(g[r])) : r \in Streams \ {s}}
          = {{r} \X (1..Len(f[r])) : r \in Streams \ {s}} BY <3>1
    <3> QED BY <3>2 DEF SlotsOf
  <2> QED BY <2>1, <2>2
<1> HIDE DEF R, AF, AG
<1>7. Cardinality({}) = 0 BY FS_EmptySet
<1>8. Cardinality(R) \in Nat BY <1>1, FS_CardinalityType
<1>9. Cardinality(R \cup AF) = Cardinality(R) + (Cardinality(AF) - Cardinality(R \cap AF))
  BY <1>1, <1>2, FS_Union
<1>10. Cardinality(R \cup AG) = Cardinality(R) + (Cardinality(AG) - Cardinality(R \cap AG))
  BY <1>1, <1>3, FS_Union
<1>11. Cardinality(SlotsOf(f, Streams)) = Cardinality(R) + Len(f[s])
  <2>1. Cardinality(R \cap AF) = 0 BY <1>4, <1>7
  <2>2. Cardinality(R \cup AF) = Cardinality(R) + Len(f[s]) BY <1>2, <1>8, <1>9, <2>1
  <2> QED BY <1>5, <2>2
<1>12. Cardinality(SlotsOf(g, Streams)) = Cardinality(R) + Len(g[s])
  <2>1. Cardinality(R \cap AG) = 0 BY <1>4, <1>7
  <2>2. Cardinality(R \cup AG) = Cardinality(R) + Len(g[s]) BY <1>3, <1>8, <1>10, <2>1
  <2> QED BY <1>6, <2>2
<1> QED BY <1>8, <1>11, <1>12

\* The places after d, kept: the first d elements are dropped.
LEMMA KeepEnd ==
    ASSUME NEW S, NEW q \in Seq(S), NEW d \in 0..Len(q)
    PROVE  /\ Keep(q, (d + 1)..Len(q)) \in Seq(S)
           /\ Len(Keep(q, (d + 1)..Len(q))) = Len(q) - d
           /\ \A i \in 1..(Len(q) - d) : Keep(q, (d + 1)..Len(q))[i] = q[d + i]
<1> DEFINE K == (d + 1)..Len(q)
           P(i) == CHOOSE j \in K : Cardinality({k \in K : k <= j}) = i
<1>1. Len(q) \in Nat /\ d \in Nat /\ d <= Len(q) OBVIOUS
<1>2. Cardinality(K) = Len(q) - d
  <2>1. CASE d + 1 <= Len(q) BY <2>1, <1>1, FS_Interval
  <2>2. CASE d = Len(q) BY <2>2, <1>1, FS_Interval
  <2> QED BY <1>1, <2>1, <2>2
<1>3. ASSUME NEW j \in K PROVE Cardinality({k \in K : k <= j}) = j - d
  <2>1. {k \in K : k <= j} = (d + 1)..j BY <1>1
  <2>2. Cardinality((d + 1)..j) = j - d BY <1>1, FS_Interval
  <2> QED BY <2>1, <2>2
<1>4. ASSUME NEW i \in 1..(Len(q) - d) PROVE P(i) = d + i
  <2>1. d + i \in K BY <1>1
  <2>2. Cardinality({k \in K : k <= d + i}) = i BY <2>1, <1>3, <1>1
  <2>3. P(i) \in K /\ Cardinality({k \in K : k <= P(i)}) = i BY <2>1, <2>2
  <2> HIDE DEF P
  <2>4. P(i) - d = i BY <2>3, <1>3
  <2>5. P(i) \in Nat BY <2>3, <1>1
  <2> QED BY <2>4, <2>5, <1>1
<1>5. Keep(q, K) = [i \in 1..(Len(q) - d) |-> q[P(i)]] BY <1>2 DEF Keep
<1> HIDE DEF P, K
<1>6. \A i \in 1..(Len(q) - d) : q[P(i)] = q[d + i] /\ q[d + i] \in S
  BY <1>4, <1>1
<1>7. Keep(q, K) \in [1..(Len(q) - d) -> S] BY <1>5, <1>6
<1>8. Len(q) - d \in Nat BY <1>1
<1>9. Keep(q, K) \in Seq(S) /\ Len(Keep(q, K)) = Len(q) - d BY <1>7, <1>8
<1>10. \A i \in 1..(Len(q) - d) : Keep(q, K)[i] = q[d + i] BY <1>5, <1>6
<1> QED BY <1>9, <1>10 DEF K

-----------------------------------------------------------------------------
(* What the actions do, place by place.                                    *)

\* the i-th envelope of a message of n segments
Piece(s, k, n, i) == [stream |-> s, seq |-> k, seg |-> i - 1, whole |-> n = 1]

\* its fields
LEMMA PieceFields ==
    ASSUME NEW s, NEW k, NEW n, NEW i
    PROVE  /\ Piece(s, k, n, i).stream = s /\ Piece(s, k, n, i).seq = k
           /\ Piece(s, k, n, i).seg = i - 1 /\ Piece(s, k, n, i).whole = (n = 1)
BY Zenon DEF Piece

\* g is f with a message of n segments and number k at the end of stream s
Extended(f, g, s, k, n) ==
    /\ \A r \in Streams : r # s => g[r] = f[r]
    /\ Len(g[s]) = Len(f[s]) + n
    /\ \A i \in 1..Len(f[s]) : g[s][i] = f[s][i]
    /\ \A i \in 1..n : g[s][Len(f[s]) + i] = Piece(s, k, n, i)

\* A message at the end of a sequence.
LEMMA JoinedMessage ==
    ASSUME NEW q \in Seq(Envelopes), NEW s \in Streams,
           NEW k \in 1..MaxMessages, NEW n \in Nat
    PROVE  /\ q \o Split(s, k, n) \in Seq(Envelopes)
           /\ Len(q \o Split(s, k, n)) = Len(q) + n
           /\ \A i \in 1..Len(q) : (q \o Split(s, k, n))[i] = q[i]
           /\ \A i \in 1..n : (q \o Split(s, k, n))[Len(q) + i] = Piece(s, k, n, i)
<1>1. PICK u \in Seq(Envelopes) : u = Split(s, k, n) BY SplitFacts
<1>2. Len(u) = n /\ \A i \in 1..n : u[i] = Piece(s, k, n, i)
  BY <1>1, SplitFacts DEF Piece
<1>3. /\ q \o u \in Seq(Envelopes)
      /\ Len(q \o u) = Len(q) + Len(u)
      /\ \A i \in 1..Len(q) : (q \o u)[i] = q[i]
      /\ \A i \in 1..Len(u) : (q \o u)[Len(q) + i] = u[i]
  BY Joined
<1>4. \A i \in 1..n : (q \o u)[Len(q) + i] = Piece(s, k, n, i) BY <1>2, <1>3, Zenon
<1> QED BY <1>1, <1>2, <1>3, <1>4, Zenon

\* A message at the end of a stream.
LEMMA ExtendFacts ==
    ASSUME NEW f \in [Streams -> Seq(Envelopes)], NEW g, NEW s \in Streams,
           NEW k \in 1..MaxMessages, NEW n \in Nat,
           g = [f EXCEPT ![s] = f[s] \o Split(s, k, n)]
    PROVE  g \in [Streams -> Seq(Envelopes)] /\ Extended(f, g, s, k, n)
<1>1. f[s] \in Seq(Envelopes) OBVIOUS
<1>2. g[s] = f[s] \o Split(s, k, n) /\ \A r \in Streams : r # s => g[r] = f[r]
  OBVIOUS
<1>3. /\ g[s] \in Seq(Envelopes)
      /\ Len(g[s]) = Len(f[s]) + n
      /\ \A i \in 1..Len(f[s]) : g[s][i] = f[s][i]
      /\ \A i \in 1..n : g[s][Len(f[s]) + i] = Piece(s, k, n, i)
  <2>1. PICK q \in Seq(Envelopes) : q = f[s] BY <1>1
  <2>2. /\ q \o Split(s, k, n) \in Seq(Envelopes)
        /\ Len(q \o Split(s, k, n)) = Len(q) + n
        /\ \A i \in 1..Len(q) : (q \o Split(s, k, n))[i] = q[i]
        /\ \A i \in 1..n : (q \o Split(s, k, n))[Len(q) + i] = Piece(s, k, n, i)
    BY JoinedMessage
  <2>3. g[s] = q \o Split(s, k, n) BY <1>2, <2>1, Zenon
  <2> QED BY <2>1, <2>2, <2>3, Zenon
<1>4. g \in [Streams -> Seq(Envelopes)] BY <1>2, <1>3
<1> QED BY <1>2, <1>3, <1>4 DEF Extended

\* The types of the initial states.
LEMMA Initially ==
    ASSUME Init
    PROVE  TypeOK
<1>1. <<>> \in Seq(Envelopes) /\ <<>> \in Seq([stream : Streams, n : Sizes]) OBVIOUS
<1>2. Nothing \in [Streams -> Seq(Envelopes)] BY <1>1 DEF Nothing
<1>3. writer \in [pc : {"off", "write"}, cur : SUBSET Streams,
                  out : [Streams -> Seq(Envelopes)]]
  BY <1>2 DEF Init, Off
<1>4. \A s \in Streams : ~owes[s] BY DEF Init
<1>5. nextSeq \in [Streams -> 1..(MaxMessages + 1)] BY OutboundAssumption DEF Init
<1>6. /\ queue = <<>> /\ wire = <<>> /\ acks = <<>>
      /\ buffer = Nothing /\ given = Nothing /\ got = Nothing
  BY DEF Init
<1>7. owes \in [Streams -> BOOLEAN] /\ void \in [Streams -> SUBSET Nat] BY DEF Init
<1>8. count \in 0..MaxMessages /\ drops \in 0..MaxDrops /\ used \in Nat
  BY OutboundAssumption DEF Init
<1>9. conn \in BOOLEAN BY DEF Init
<1> QED BY <1>1, <1>2, <1>3, <1>4, <1>5, <1>6, <1>7, <1>8, <1>9 DEF TypeOK

\* run_client_outbound queues a message.
LEMMA QueueEffect ==
    ASSUME TypeOK, NEW s \in Streams, NEW n \in Sizes, QueueMessage(s, n)
    PROVE  /\ TypeOK'
           /\ count \in Nat /\ count' = count + 1
           /\ Len(queue) \in Nat /\ Len(queue') = Len(queue) + 1
           /\ UNCHANGED <<nextSeq, buffer, used, writer, conn, wire, acks, given, void,
                          got, owes, drops>>
<1>1. queue \in Seq([stream : Streams, n : Sizes]) BY DEF TypeOK
<1>2. [stream |-> s, n |-> n] \in [stream : Streams, n : Sizes] OBVIOUS
<1>3. queue' = Append(queue, [stream |-> s, n |-> n]) BY DEF QueueMessage
<1>4. queue' \in Seq([stream : Streams, n : Sizes]) /\ Len(queue') = Len(queue) + 1
      /\ Len(queue) \in Nat
  BY <1>1, <1>2, <1>3, Appended, Elements
<1>5. count \in Nat /\ count' = count + 1 /\ count' \in 0..MaxMessages
  BY OutboundAssumption DEF QueueMessage, TypeOK
<1>6. UNCHANGED <<nextSeq, buffer, used, writer, conn, wire, acks, given, void,
                  got, owes, drops>>
  BY DEF QueueMessage
<1> QED BY <1>4, <1>5, <1>6 DEF TypeOK

\* A new websocket, with the buffer to replay.
LEMMA ConnectEffect ==
    ASSUME TypeOK, Connect
    PROVE  /\ TypeOK'
           /\ ~conn /\ conn' /\ writer'.out = buffer /\ writer'.pc = "write"
           /\ UNCHANGED <<queue, count, nextSeq, buffer, used, wire, acks, given, void,
                          got, owes, drops>>
<1>1. writer' = [pc |-> "write", cur |-> {}, out |-> buffer] BY DEF Connect
<1>2. writer' \in [pc : {"off", "write"}, cur : SUBSET Streams,
                  out : [Streams -> Seq(Envelopes)]]
  BY <1>1 DEF TypeOK
<1>3. ~conn /\ conn' = TRUE BY DEF Connect
<1>4. UNCHANGED <<queue, count, nextSeq, buffer, used, wire, acks, given, void,
                  got, owes, drops>>
  BY DEF Connect
<1> QED BY <1>1, <1>2, <1>3, <1>4 DEF TypeOK

\* A lost websocket.
LEMMA LoseEffect ==
    ASSUME TypeOK, LoseWebsocket
    PROVE  /\ TypeOK'
           /\ ~conn' /\ wire' = <<>> /\ acks' = <<>>
           /\ UNCHANGED <<queue, count, nextSeq, buffer, used, writer, given, void, got>>
<1>1. <<>> \in Seq(Envelopes) OBVIOUS
<1>2. owes' \in [Streams -> BOOLEAN] /\ \A s \in Streams : ~owes'[s]
  BY DEF LoseWebsocket
<1>3. drops' \in 0..MaxDrops BY OutboundAssumption DEF LoseWebsocket, TypeOK
<1>4. conn' = FALSE /\ wire' = <<>> /\ acks' = <<>>
      /\ UNCHANGED <<queue, count, nextSeq, buffer, used, writer, given, void, got>>
  BY DEF LoseWebsocket
<1> QED BY <1>1, <1>2, <1>3, <1>4 DEF TypeOK

\* A writer that stops.
LEMMA StopEffect ==
    ASSUME TypeOK, WriterStops
    PROVE  /\ TypeOK'
           /\ ~conn /\ \A s \in Streams : writer'.out[s] = <<>>
           /\ UNCHANGED <<queue, count, nextSeq, buffer, used, conn, wire, acks, given,
                          void, got, owes, drops>>
<1>1. <<>> \in Seq(Envelopes) OBVIOUS
<1>2. Nothing \in [Streams -> Seq(Envelopes)] /\ \A s \in Streams : Nothing[s] = <<>>
  BY <1>1 DEF Nothing
<1>3. writer' = [pc |-> "off", cur |-> {}, out |-> Nothing] BY DEF WriterStops, Off
<1>4. writer' \in [pc : {"off", "write"}, cur : SUBSET Streams,
                  out : [Streams -> Seq(Envelopes)]]
  BY <1>2, <1>3
<1>5. ~conn /\ UNCHANGED <<queue, count, nextSeq, buffer, used, conn, wire, acks, given,
                           void, got, owes, drops>>
  BY DEF WriterStops
<1> QED BY <1>2, <1>3, <1>4, <1>5 DEF TypeOK

\* A message is taken, numbered and buffered.
LEMMA TakeEffect ==
    ASSUME TypeOK, NumbersBounded, TakeMessage
    PROVE  \E s \in Streams, n \in Sizes, k \in 1..MaxMessages :
             /\ n \in Nat /\ k = nextSeq[s]
             /\ used < Capacity /\ used' = used + n
             /\ nextSeq'[s] = k + 1 /\ \A r \in Streams : r # s => nextSeq'[r] = nextSeq[r]
             /\ void'[s] = IF n = 0 THEN void[s] \cup {k} ELSE void[s]
             /\ \A r \in Streams : r # s => void'[r] = void[r]
             /\ buffer' \in [Streams -> Seq(Envelopes)] /\ Extended(buffer, buffer', s, k, n)
             /\ given' \in [Streams -> Seq(Envelopes)] /\ Extended(given, given', s, k, n)
             /\ writer'.out \in [Streams -> Seq(Envelopes)]
             /\ Extended(writer.out, writer'.out, s, k, n)
             /\ writer'.pc = "write" /\ \A r \in Streams : writer.out[r] = <<>>
             /\ Len(queue) \in Nat /\ Len(queue') = Len(queue) - 1
             /\ TypeOK'
             /\ UNCHANGED <<count, conn, wire, acks, got, owes, drops>>
<1> DEFINE h == Head(queue)
<1>1. queue \in Seq([stream : Streams, n : Sizes]) /\ queue # <<>>
  BY DEF TypeOK, TakeMessage
<1>2. /\ h \in [stream : Streams, n : Sizes] /\ Tail(queue) \in Seq([stream : Streams, n : Sizes])
      /\ Len(queue) \in Nat \ {0} /\ Len(Tail(queue)) = Len(queue) - 1
  BY <1>1, TakenOff
<1>3. PICK s \in Streams : s = h.stream BY <1>2
<1>4. PICK n \in Sizes : n = h.n BY <1>2
<1>5. n \in Nat BY OutboundAssumption
<1>6. nextSeq[s] \in 1..MaxMessages
  <2>1. nextSeq[s] \in 1..(MaxMessages + 1) /\ count \in 0..MaxMessages BY DEF TypeOK
  <2>2. nextSeq[s] + Len(queue) <= count + 1 BY DEF NumbersBounded
  <2>3. Len(queue) \in Nat /\ Len(queue) >= 1 BY <1>2
  <2> QED BY <2>1, <2>2, <2>3, OutboundAssumption
<1>7. PICK k \in 1..MaxMessages : k = nextSeq[s] BY <1>6
<1>8. /\ buffer' = [buffer EXCEPT ![s] = buffer[s] \o Split(s, k, n)]
      /\ given' = [given EXCEPT ![s] = given[s] \o Split(s, k, n)]
      /\ used' = used + Len(Split(s, k, n))
      /\ void' = [void EXCEPT ![s] = IF Split(s, k, n) = <<>> THEN void[s] \cup {k} ELSE void[s]]
      /\ nextSeq' = [nextSeq EXCEPT ![s] = k + 1]
      /\ writer' = [writer EXCEPT !.out[s] = Split(s, k, n)]
  BY <1>3, <1>4, <1>7 DEF TakeMessage
<1>9. /\ writer.pc = "write" /\ writer.out = Nothing /\ used < Capacity
      /\ queue' = Tail(queue) /\ UNCHANGED <<count, conn, wire, acks, got, owes, drops>>
  BY DEF TakeMessage
<1> HIDE DEF h
<1>10. buffer \in [Streams -> Seq(Envelopes)] /\ given \in [Streams -> Seq(Envelopes)]
  BY DEF TypeOK
<1>11. buffer' \in [Streams -> Seq(Envelopes)] /\ Extended(buffer, buffer', s, k, n)
  BY <1>5, <1>8, <1>10, ExtendFacts
<1>12. given' \in [Streams -> Seq(Envelopes)] /\ Extended(given, given', s, k, n)
  BY <1>5, <1>8, <1>10, ExtendFacts
<1>13. /\ Split(s, k, n) \in Seq(Envelopes) /\ Len(Split(s, k, n)) = n
       /\ \A i \in 1..n : Split(s, k, n)[i] = Piece(s, k, n, i)
  BY <1>5, SplitFacts DEF Piece
<1>14. writer'.out = [Nothing EXCEPT ![s] = Split(s, k, n)] /\ writer'.pc = "write"
       /\ writer'.cur = writer.cur
       /\ writer' = [pc |-> "write", cur |-> writer.cur, out |-> writer'.out]
  BY <1>8, <1>9 DEF TypeOK
<1>15. <<>> \in Seq(Envelopes) /\ Len(<<>>) = 0 OBVIOUS
<1>16. Nothing \in [Streams -> Seq(Envelopes)] /\ \A r \in Streams : Nothing[r] = <<>>
  BY <1>15 DEF Nothing
<1>17. /\ writer'.out \in [Streams -> Seq(Envelopes)]
       /\ writer'.out[s] = Split(s, k, n)
       /\ \A r \in Streams : r # s => writer'.out[r] = <<>>
  BY <1>13, <1>14, <1>16
<1>18. Extended(writer.out, writer'.out, s, k, n)
  <2>1. \A r \in Streams : r # s => writer'.out[r] = writer.out[r] BY <1>9, <1>16, <1>17
  <2>2. Len(writer.out[s]) = 0 BY <1>9, <1>15, <1>16
  <2>3. \A i \in 1..n : 0 + i = i BY <1>5
  <2>4. Len(writer'.out[s]) = 0 + n BY <1>13, <1>17, <1>5
  <2>5. \A i \in 1..n : writer'.out[s][0 + i] = Piece(s, k, n, i)
    BY <2>3, <1>13, <1>17
  <2>6. \A i \in 1..0 : writer'.out[s][i] = writer.out[s][i] OBVIOUS
  <2> QED BY <2>1, <2>2, <2>4, <2>5, <2>6 DEF Extended
<1>19. Split(s, k, n) = <<>> <=> n = 0 BY <1>5, <1>13
<1>20. /\ void' \in [Streams -> SUBSET Nat]
       /\ void'[s] = IF n = 0 THEN void[s] \cup {k} ELSE void[s]
       /\ \A r \in Streams : r # s => void'[r] = void[r]
  <2>1. void \in [Streams -> SUBSET Nat] BY DEF TypeOK
  <2>2. k \in Nat OBVIOUS
  <2>3. void' = [void EXCEPT ![s] = IF n = 0 THEN void[s] \cup {k} ELSE void[s]]
    BY <1>8, <1>19
  <2>4. void[s] \cup {k} \in SUBSET Nat BY <2>1, <2>2
  <2> QED BY <2>1, <2>3, <2>4
<1>21. /\ nextSeq' \in [Streams -> 1..(MaxMessages + 1)]
       /\ nextSeq'[s] = k + 1 /\ \A r \in Streams : r # s => nextSeq'[r] = nextSeq[r]
  <2>1. nextSeq \in [Streams -> 1..(MaxMessages + 1)] BY DEF TypeOK
  <2>2. k + 1 \in 1..(MaxMessages + 1) BY OutboundAssumption
  <2> QED BY <2>1, <2>2, <1>8
<1>22. used' = used + n /\ used' \in Nat BY <1>5, <1>8, <1>13, SMTT(30) DEF TypeOK
<1>23. writer' \in [pc : {"off", "write"}, cur : SUBSET Streams,
                  out : [Streams -> Seq(Envelopes)]]
  <2>1. writer.cur \in SUBSET Streams BY DEF TypeOK
  <2> QED BY <2>1, <1>14, <1>17
<1>24. TypeOK'
  BY <1>2, <1>9, <1>11, <1>12, <1>20, <1>21, <1>22, <1>23 DEF TypeOK
<1>25. \A r \in Streams : writer.out[r] = <<>> BY <1>9, <1>16
<1>26. Len(queue) \in Nat /\ Len(queue') = Len(queue) - 1 BY <1>2, <1>9
<1> QED
  BY <1>5, <1>7, <1>9, <1>11, <1>12, <1>14, <1>17, <1>18, <1>20, <1>21, <1>22, <1>24, <1>25, <1>26,
     Zenon

\* One envelope is written.
LEMMA WriteEffect ==
    ASSUME TypeOK, NEW s \in Streams, WriteEnvelope(s)
    PROVE  /\ TypeOK' /\ conn /\ writer.out[s] # <<>>
           /\ Len(writer.out[s]) \in Nat \ {0}
           /\ Len(wire) \in Nat /\ Len(wire') = Len(wire) + 1
           /\ \A i \in 1..Len(wire) : wire'[i] = wire[i]
           /\ wire'[Len(wire) + 1] = writer.out[s][1]
           /\ writer'.pc = writer.pc
           /\ Len(writer'.out[s]) = Len(writer.out[s]) - 1
           /\ \A i \in 1..Len(writer'.out[s]) : writer'.out[s][i] = writer.out[s][i + 1]
           /\ \A r \in Streams : r # s => writer'.out[r] = writer.out[r]
           /\ UNCHANGED <<queue, count, nextSeq, buffer, used, conn, acks, given, void,
                          got, owes, drops>>
<1>1. /\ writer.out \in [Streams -> Seq(Envelopes)] /\ wire \in Seq(Envelopes)
      /\ writer.pc \in {"off", "write"}
  BY DEF TypeOK
<1>2. /\ conn /\ writer.out[s] # <<>>
      /\ UNCHANGED <<queue, count, nextSeq, buffer, used, conn, acks, given, void,
                     got, owes, drops>>
  BY DEF WriteEnvelope
<1>3. /\ Tail(writer.out[s]) \in Seq(Envelopes) /\ Head(writer.out[s]) \in Envelopes
      /\ Head(writer.out[s]) = writer.out[s][1]
      /\ Len(writer.out[s]) \in Nat \ {0}
      /\ Len(Tail(writer.out[s])) = Len(writer.out[s]) - 1
      /\ \A i \in 1..Len(Tail(writer.out[s])) : Tail(writer.out[s])[i] = writer.out[s][i + 1]
  <2>1. PICK q \in Seq(Envelopes) : q = writer.out[s] BY <1>1
  <2>2. q # <<>> BY <1>2, <2>1
  <2>3. /\ Tail(q) \in Seq(Envelopes) /\ Head(q) \in Envelopes /\ Head(q) = q[1]
        /\ Len(q) \in Nat \ {0} /\ Len(Tail(q)) = Len(q) - 1
        /\ \A i \in 1..Len(Tail(q)) : Tail(q)[i] = q[i + 1]
    BY <2>2, TakenOff
  <2> QED BY <2>1, <2>3
<1>4. wire' = Append(wire, Head(writer.out[s])) BY DEF WriteEnvelope
<1>5. /\ wire' \in Seq(Envelopes)
      /\ Len(wire) \in Nat /\ Len(wire') = Len(wire) + 1
      /\ \A i \in 1..Len(wire) : wire'[i] = wire[i]
      /\ wire'[Len(wire) + 1] = Head(writer.out[s])
  BY <1>1, <1>3, <1>4, Appended, Elements
<1>6. PICK c \in SUBSET Streams :
        writer' = [pc |-> writer.pc, cur |-> c,
                   out |-> [writer.out EXCEPT ![s] = Tail(writer.out[s])]]
  <2>1. (IF Len(writer.out[s]) = 1 THEN {} ELSE {s}) \in SUBSET Streams OBVIOUS
  <2> QED BY <2>1 DEF WriteEnvelope, TypeOK
<1>7. /\ writer'.pc = writer.pc
      /\ writer'.out = [writer.out EXCEPT ![s] = Tail(writer.out[s])]
      /\ writer'.cur \in SUBSET Streams
      /\ writer' = [pc |-> writer'.pc, cur |-> writer'.cur, out |-> writer'.out]
  BY <1>6
<1>8. /\ writer'.out \in [Streams -> Seq(Envelopes)]
      /\ writer'.out[s] = Tail(writer.out[s])
      /\ \A r \in Streams : r # s => writer'.out[r] = writer.out[r]
  BY <1>1, <1>3, <1>7
<1>9. writer' \in [pc : {"off", "write"}, cur : SUBSET Streams,
                  out : [Streams -> Seq(Envelopes)]]
  BY <1>1, <1>7, <1>8
<1>10. TypeOK' BY <1>2, <1>5, <1>9 DEF TypeOK
<1> QED BY <1>2, <1>3, <1>5, <1>7, <1>8, <1>10

\* The client gets one envelope.
LEMMA ReceiveEffect ==
    ASSUME TypeOK, ClientReceives
    PROVE  \E s \in Streams :
             /\ TypeOK' /\ Len(wire) \in Nat \ {0} /\ wire[1].stream = s
             /\ Len(wire') = Len(wire) - 1
             /\ \A i \in 1..Len(wire') : wire'[i] = wire[i + 1]
             /\ \/ /\ got' = got /\ got[s] # <<>> /\ CursorLeq(wire[1], got[s][Len(got[s])])
                \/ /\ ~(got[s] # <<>> /\ CursorLeq(wire[1], got[s][Len(got[s])]))
                   /\ got' = [got EXCEPT ![s] = Append(got[s], wire[1])]
                   /\ Len(got'[s]) = Len(got[s]) + 1
                   /\ \A i \in 1..Len(got[s]) : got'[s][i] = got[s][i]
                   /\ got'[s][Len(got[s]) + 1] = wire[1]
                   /\ \A r \in Streams : r # s => got'[r] = got[r]
             /\ UNCHANGED <<queue, count, nextSeq, buffer, used, writer, conn, acks,
                            given, void, drops>>
<1>1. wire \in Seq(Envelopes) /\ wire # <<>> BY DEF TypeOK, ClientReceives
<1>2. /\ Tail(wire) \in Seq(Envelopes) /\ Head(wire) \in Envelopes /\ Head(wire) = wire[1]
      /\ Len(wire) \in Nat \ {0} /\ Len(Tail(wire)) = Len(wire) - 1
      /\ \A i \in 1..Len(Tail(wire)) : Tail(wire)[i] = wire[i + 1]
  BY <1>1, TakenOff
<1>3. PICK e \in Envelopes : e = Head(wire) BY <1>2
<1>4. PICK s \in Streams : s = e.stream BY Fields
<1> DEFINE old == got[s] # <<>> /\ CursorLeq(e, got[s][Len(got[s])])
<1>5. /\ wire' = Tail(wire)
      /\ got' = IF old THEN got ELSE [got EXCEPT ![s] = Append(got[s], e)]
      /\ owes' = [owes EXCEPT ![s] = TRUE]
      /\ UNCHANGED <<queue, count, nextSeq, buffer, used, writer, conn, acks,
                     given, void, drops>>
  BY <1>3, <1>4 DEF ClientReceives, Newest
<1>6. got \in [Streams -> Seq(Envelopes)] /\ got[s] \in Seq(Envelopes) BY DEF TypeOK
<1>7. /\ Append(got[s], e) \in Seq(Envelopes) /\ Len(Append(got[s], e)) = Len(got[s]) + 1
      /\ \A i \in 1..Len(got[s]) : Append(got[s], e)[i] = got[s][i]
      /\ Append(got[s], e)[Len(got[s]) + 1] = e
      /\ Append(got[s], e) # <<>>
  <2>1. PICK q \in Seq(Envelopes) : q = got[s] BY <1>6
  <2>2. /\ Append(q, e) \in Seq(Envelopes) /\ Len(Append(q, e)) = Len(q) + 1
        /\ \A i \in 1..Len(q) : Append(q, e)[i] = q[i]
        /\ Append(q, e)[Len(q) + 1] = e
        /\ Append(q, e) # <<>>
    BY Appended
  <2> QED BY <2>1, <2>2
<1>8. CASE old
  <2>1. got' = got /\ got[s] # <<>> BY <1>5, <1>8
  <2>2. owes' \in [Streams -> BOOLEAN] /\ \A r \in Streams : owes'[r] => got'[r] # <<>>
    BY <2>1, <1>5 DEF TypeOK
  <2>3. TypeOK' BY <2>1, <2>2, <1>2, <1>5 DEF TypeOK
  <2> QED BY <1>2, <1>3, <1>4, <1>5, <1>8, <2>1, <2>3
<1>9. CASE ~old
  <2>1. got' = [got EXCEPT ![s] = Append(got[s], e)] BY <1>5, <1>9
  <2>2. /\ got' \in [Streams -> Seq(Envelopes)] /\ got'[s] = Append(got[s], e)
        /\ \A r \in Streams : r # s => got'[r] = got[r]
    BY <2>1, <1>6, <1>7
  <2>3. owes' \in [Streams -> BOOLEAN] /\ \A r \in Streams : owes'[r] => got'[r] # <<>>
    BY <2>2, <1>5, <1>7 DEF TypeOK
  <2>4. TypeOK' BY <2>2, <2>3, <1>2, <1>5 DEF TypeOK
  <2>5. /\ got' = [got EXCEPT ![s] = Append(got[s], wire[1])]
        /\ Len(got'[s]) = Len(got[s]) + 1
        /\ \A i \in 1..Len(got[s]) : got'[s][i] = got[s][i]
        /\ got'[s][Len(got[s]) + 1] = wire[1]
        /\ \A r \in Streams : r # s => got'[r] = got[r]
    BY <2>1, <2>2, <1>2, <1>3, <1>7
  <2> HIDE DEF old
  <2>6. ~(got[s] # <<>> /\ CursorLeq(wire[1], got[s][Len(got[s])]))
    BY <1>9, <1>2, <1>3 DEF old
  <2> QED BY <1>2, <1>3, <1>4, <1>5, <2>4, <2>5, <2>6, ZenonT(60)
<1> QED BY <1>8, <1>9

\* The client acknowledges its newest envelope.
LEMMA AckEffect ==
    ASSUME TypeOK, NEW s \in Streams, ClientAcks(s)
    PROVE  /\ TypeOK' /\ conn /\ Len(got[s]) \in Nat \ {0}
           /\ Len(acks) \in Nat /\ Len(acks') = Len(acks) + 1
           /\ \A i \in 1..Len(acks) : acks'[i] = acks[i]
           /\ acks'[Len(acks) + 1] = got[s][Len(got[s])]
           /\ UNCHANGED <<queue, count, nextSeq, buffer, used, writer, conn, wire,
                          given, void, got, drops>>
<1>1. /\ acks' = Append(acks, got[s][Len(got[s])]) /\ conn /\ owes[s]
      /\ owes' = [owes EXCEPT ![s] = FALSE]
      /\ UNCHANGED <<queue, count, nextSeq, buffer, used, writer, conn, wire,
                     given, void, got, drops>>
  BY DEF ClientAcks, Newest
<1>2. got[s] \in Seq(Envelopes) /\ got[s] # <<>> /\ acks \in Seq(Envelopes)
  BY <1>1 DEF TypeOK
<1>3. Len(got[s]) \in Nat \ {0} /\ got[s][Len(got[s])] \in Envelopes BY <1>2
<1>4. /\ Len(acks) \in Nat /\ Len(acks') = Len(acks) + 1
      /\ \A i \in 1..Len(acks) : acks'[i] = acks[i]
      /\ acks'[Len(acks) + 1] = got[s][Len(got[s])] /\ acks' \in Seq(Envelopes)
  BY <1>1, <1>2, <1>3, Appended, Elements
<1>5. owes' \in [Streams -> BOOLEAN] /\ \A r \in Streams : owes'[r] => got[r] # <<>>
  BY <1>1 DEF TypeOK
<1>6. TypeOK' BY <1>1, <1>4, <1>5 DEF TypeOK
<1> QED BY <1>1, <1>3, <1>4, <1>6

\* An acknowledgement takes the first d envelopes of a stream out of the
\* buffer, all of which the client has.
LEMMA ReaderEffect ==
    ASSUME TypeOK, GivenInOrder, BufferHoldsRest, AcksAreHad, UsageInv, ReaderAck
    PROVE  \E s \in Streams : \E d \in 0..Len(buffer[s]) :
             /\ TypeOK' /\ d \in Nat /\ Len(buffer[s]) \in Nat
             /\ d <= Len(buffer[s])
             /\ Len(buffer'[s]) = Len(buffer[s]) - d
             /\ \A i \in 1..Len(buffer'[s]) : buffer'[s][i] = buffer[s][d + i]
             /\ \A r \in Streams : r # s => buffer'[r] = buffer[r]
             /\ Gone(s) + d <= Len(got[s])
             /\ used' = used - d
             /\ Len(acks) \in Nat \ {0} /\ Len(acks') = Len(acks) - 1
             /\ \A i \in 1..Len(acks') : acks'[i] = acks[i + 1]
             /\ UNCHANGED <<queue, count, nextSeq, writer, conn, wire, given, void, got,
                            owes, drops>>
<1>1. acks \in Seq(Envelopes) /\ acks # <<>> BY DEF TypeOK, ReaderAck
<1>2. /\ Tail(acks) \in Seq(Envelopes) /\ Head(acks) \in Envelopes /\ Head(acks) = acks[1]
      /\ Len(acks) \in Nat \ {0} /\ Len(Tail(acks)) = Len(acks) - 1
      /\ \A i \in 1..Len(Tail(acks)) : Tail(acks)[i] = acks[i + 1]
  BY <1>1, TakenOff
<1>3. PICK a \in Envelopes : a = Head(acks) BY <1>2
<1>4. PICK s \in Streams : s = a.stream BY Fields
<1> DEFINE L == Len(buffer[s])
           K == {i \in 1..L : ~Covers(a, buffer[s][i])}
           kept == Keep(buffer[s], K)
<1>5. buffer \in [Streams -> Seq(Envelopes)] /\ buffer[s] \in Seq(Envelopes)
      /\ given[s] \in Seq(Envelopes) /\ got[s] \in Seq(Envelopes)
  BY DEF TypeOK
<1>6. L \in Nat /\ DOMAIN buffer[s] = 1..L /\ Len(given[s]) \in Nat /\ Len(got[s]) \in Nat
  BY <1>5, Elements
<1>7. /\ acks' = Tail(acks)
      /\ buffer' = [buffer EXCEPT ![s] = kept]
      /\ used' = used - (L - Len(kept))
      /\ UNCHANGED <<queue, count, nextSeq, writer, conn, wire, given, void, got,
                     owes, drops>>
  BY <1>3, <1>4, <1>6 DEF ReaderAck, Kept
<1> HIDE DEF K, L, kept
<1>8. PICK m \in 1..Len(got[s]) : a = given[s][m]
  <2>1. 1 \in 1..Len(acks) BY <1>2
  <2> QED BY <2>1, <1>2, <1>3, <1>4 DEF AcksAreHad
<1>9. /\ L <= Len(given[s]) /\ Len(got[s]) <= Len(given[s])
      /\ Len(given[s]) - L <= Len(got[s])
      /\ \A i \in 1..L : buffer[s][i] = given[s][(Len(given[s]) - L) + i]
  BY DEF BufferHoldsRest, IsSuffix, Gone, L
<1>10. PICK d \in 0..L : d = IF m <= Len(given[s]) - L THEN 0 ELSE m - (Len(given[s]) - L)
  BY <1>6, <1>9
<1>11. ASSUME NEW i \in 1..L PROVE Covers(a, buffer[s][i]) <=> i <= d
  <2> DEFINE p == (Len(given[s]) - L) + i
  <2>1. p \in 1..Len(given[s]) /\ m \in 1..Len(given[s]) BY <1>6, <1>9
  <2>2. Covers(a, buffer[s][i]) <=> p <= m
    <3>1. Covers(given[s][m], given[s][p]) <=> p <= m BY <2>1, CursorOrder
    <3> QED BY <3>1, <1>8, <1>9
  <2>3. p <= m <=> i <= d BY <1>6, <1>9, <1>10
  <2> QED BY <2>2, <2>3
<1>12. K = (d + 1)..L
  <2>1. \A i \in 1..L : i \in K <=> ~(i <= d) BY <1>11 DEF K
  <2>2. K \subseteq 1..L BY DEF K
  <2>3. d \in Nat BY <1>6
  <2>4. ASSUME NEW i \in K PROVE i \in (d + 1)..L
    <3>1. i \in 1..L /\ ~(i <= d) BY <2>1, <2>2
    <3> QED BY <3>1, <2>3, <1>6
  <2>5. ASSUME NEW i \in (d + 1)..L PROVE i \in K
    <3>1. i \in 1..L /\ ~(i <= d) BY <2>3, <1>6
    <3> QED BY <2>1, <3>1
  <2> QED BY <2>4, <2>5
<1>13. /\ kept \in Seq(Envelopes) /\ Len(kept) = L - d
       /\ \A i \in 1..(L - d) : kept[i] = buffer[s][d + i]
  BY <1>5, <1>12, KeepEnd DEF kept, L
<1>14. d \in Nat /\ d <= L BY <1>6
<1>15. L - Len(kept) = d BY <1>13, <1>14, <1>6
<1>16. /\ buffer' \in [Streams -> Seq(Envelopes)] /\ buffer'[s] = kept
       /\ \A r \in Streams : r # s => buffer'[r] = buffer[r]
  BY <1>5, <1>7, <1>13
<1>17. (Len(given[s]) - L) + d <= Len(got[s])
  <2>1. CASE m <= Len(given[s]) - L
    <3>1. d = 0 BY <1>10, <2>1
    <3> QED BY <3>1, <1>6, <1>9
  <2>2. CASE ~(m <= Len(given[s]) - L)
    <3>1. d = m - (Len(given[s]) - L) BY <1>10, <2>2
    <3>2. m \in Nat /\ m <= Len(got[s]) BY <1>6
    <3>3. PICK G \in Nat : G = Len(given[s]) BY <1>6
    <3>4. PICK B \in Nat : B = L BY <1>6
    <3>5. d \in Nat /\ d = m - (G - B) BY <3>1, <3>3, <3>4, <1>14
    <3>6. (G - B) + d = m BY <3>2, <3>5
    <3> QED BY <3>2, <3>3, <3>4, <3>6
  <2> QED BY <2>1, <2>2
<1>18. used' = used - d BY <1>7, <1>15
<1>19. used' \in Nat
  <2>1. \A r \in Streams : Len(buffer[r]) \in Nat BY DEF TypeOK
  <2>2. L <= Cardinality(SlotsOf(buffer, Streams)) BY <2>1, SlotsChange DEF L
  <2>3. used = Cardinality(SlotsOf(buffer, Streams)) BY DEF UsageInv, Buffered, Slots, SlotsOf
  <2>4. used \in Nat BY DEF TypeOK
  <2> QED BY <2>2, <2>3, <2>4, <1>14, <1>18, <1>6
<1>20. TypeOK' BY <1>2, <1>7, <1>16, <1>19 DEF TypeOK
<1>21. /\ Len(buffer'[s]) = L - d
       /\ \A i \in 1..Len(buffer'[s]) : buffer'[s][i] = buffer[s][d + i]
  BY <1>13, <1>16
<1> QED BY <1>2, <1>6, <1>7, <1>14, <1>16, <1>17, <1>18, <1>20, <1>21, ZenonT(60) DEF Gone, L

-----------------------------------------------------------------------------
(* The parts of the invariant, one by one.                                 *)

\* The type invariant, and how far the numbers are.
LEMMA TypesStep ==
    ASSUME Inv, [Next]_vars
    PROVE  TypeOK' /\ NumbersBounded'
<1> USE DEF Inv
<1>0. \A s \in Streams : nextSeq[s] \in Nat BY DEF TypeOK
<1>1. ASSUME NEW s \in Streams, NEW n \in Sizes, QueueMessage(s, n)
      PROVE  TypeOK' /\ NumbersBounded'
  <2>1. TypeOK' /\ count \in Nat /\ count' = count + 1 /\ nextSeq' = nextSeq
        /\ Len(queue) \in Nat /\ Len(queue') = Len(queue) + 1
    BY <1>1, QueueEffect
  <2> QED BY <2>1, <1>0 DEF NumbersBounded
<1>2. CASE TakeMessage
  <2>1. PICK s \in Streams, k \in 1..MaxMessages :
          /\ k = nextSeq[s] /\ nextSeq'[s] = k + 1
          /\ \A r \in Streams : r # s => nextSeq'[r] = nextSeq[r]
          /\ Len(queue) \in Nat /\ Len(queue') = Len(queue) - 1
          /\ TypeOK' /\ count' = count
    BY <1>2, TakeEffect
  <2>2. count \in Nat BY OutboundAssumption DEF TypeOK
  <2>3. ASSUME NEW r \in Streams PROVE nextSeq'[r] + Len(queue') <= count' + 1
    <3>1. nextSeq[r] + Len(queue) <= count + 1 BY DEF NumbersBounded
    <3>2. CASE r = s BY <3>1, <3>2, <2>1, <2>2
    <3>3. CASE r # s BY <3>1, <3>3, <2>1, <2>2, <1>0
    <3> QED BY <3>2, <3>3
  <2> QED BY <2>1, <2>3 DEF NumbersBounded
<1>3. CASE UNCHANGED vars BY <1>3 DEF vars, TypeOK, NumbersBounded
<1>4. ASSUME TypeOK', UNCHANGED <<nextSeq, queue, count>>
      PROVE  TypeOK' /\ NumbersBounded'
  BY <1>4 DEF NumbersBounded
<1>5. CASE Connect BY <1>5, <1>4, ConnectEffect
<1>6. CASE LoseWebsocket BY <1>6, <1>4, LoseEffect
<1>7. CASE WriterStops BY <1>7, <1>4, StopEffect
<1>8. CASE ClientReceives BY <1>8, <1>4, ReceiveEffect
<1>9. CASE ReaderAck BY <1>9, <1>4, ReaderEffect
<1>10. ASSUME NEW s \in Streams, WriteEnvelope(s) \/ ClientAcks(s)
       PROVE  TypeOK' /\ NumbersBounded'
  BY <1>10, <1>4, WriteEffect, AckEffect
<1>11. CASE LoseMessage
  <2>1. /\ queue \in Seq([stream : Streams, n : Sizes]) /\ queue # <<>>
        /\ queue' = Tail(queue) /\ nextSeq' = nextSeq /\ count' = count /\ count \in Nat
    BY <1>11, OutboundAssumption DEF TypeOK, LoseMessage
  <2>2. /\ queue' \in Seq([stream : Streams, n : Sizes])
        /\ Len(queue) \in Nat /\ Len(queue') = Len(queue) - 1
    BY <2>1
  <2>3. TypeOK'
    BY <1>11, <2>2 DEF TypeOK, LoseMessage
  <2> QED BY <2>1, <2>2, <2>3, <1>0 DEF NumbersBounded
<1> QED BY <1>1, <1>2, <1>3, <1>5, <1>6, <1>7, <1>8, <1>9, <1>10, <1>11 DEF Next

\* Only a message that is taken changes what was given.
LEMMA OnlyTakeGives ==
    ASSUME TypeOK, Next
    PROVE  TakeMessage \/ UNCHANGED <<given, nextSeq, void>>
BY DEF Next, QueueMessage, LoseMessage, Connect, LoseWebsocket, WriterStops, WriteEnvelope,
       ClientReceives, ClientAcks, ReaderAck

\* The envelopes of a message come behind all earlier ones.
LEMMA OrderStep ==
    ASSUME Inv, [Next]_vars
    PROVE  GivenInOrder'
<1> USE DEF Inv
<1>1. CASE UNCHANGED <<given, nextSeq, void>> BY <1>1 DEF GivenInOrder
<1>2. CASE TakeMessage
  <2>1. PICK s \in Streams, n \in Sizes, k \in 1..MaxMessages :
          /\ n \in Nat /\ k = nextSeq[s] /\ nextSeq'[s] = k + 1
          /\ \A r \in Streams : r # s => nextSeq'[r] = nextSeq[r]
          /\ Extended(given, given', s, k, n)
    BY <1>2, TakeEffect, ZenonT(60)
  <2>2. given[s] \in Seq(Envelopes) BY DEF TypeOK
  <2>3. PICK L \in Nat : L = Len(given[s]) BY <2>2, Elements
  <2>4. /\ Len(given'[s]) = L + n
        /\ \A i \in 1..L : given'[s][i] = given[s][i]
        /\ \A x \in 1..n : given'[s][L + x] = Piece(s, k, n, x)
    BY <2>1, <2>3 DEF Extended
  <2>5. ASSUME NEW i \in 1..L
        PROVE  /\ given[s][i].stream = s /\ given[s][i].seq < k
               /\ given[s][i].seq \in Nat /\ given[s][i].seg \in Nat
    <3>1. given[s][i] \in Envelopes BY <2>2, <2>3, Elements
    <3> QED BY <3>1, <2>1, <2>3, Fields DEF GivenInOrder
  <2>6. ASSUME NEW x \in 1..n
        PROVE  /\ given'[s][L + x].stream = s /\ given'[s][L + x].seq = k
               /\ given'[s][L + x].seg = x - 1 /\ (given'[s][L + x].whole <=> n = 1)
    <3>1. given'[s][L + x] = Piece(s, k, n, x) BY <2>4, Zenon
    <3>2. PICK e : e = given'[s][L + x] OBVIOUS
    <3>3. e.stream = s /\ e.seq = k /\ e.seg = x - 1 /\ e.whole = (n = 1)
      BY <3>1, <3>2, PieceFields
    <3> QED BY <3>2, <3>3
  <2>7. ASSUME NEW i \in 1..(L + n) PROVE i \in 1..L \/ \E x \in 1..n : i = L + x
    <3>1. CASE i <= L BY <3>1
    <3>2. CASE ~(i <= L)
      <4>1. i - L \in 1..n /\ i = L + (i - L) BY <3>2, <2>1
      <4> QED BY <4>1
    <3> QED BY <3>1, <3>2
  <2>8. ASSUME NEW i \in 1..(L + n)
        PROVE  given'[s][i].stream = s /\ given'[s][i].seq < nextSeq'[s]
    <3>1. CASE i \in 1..L
      <4>1. given'[s][i] = given[s][i] BY <3>1, <2>4
      <4>2. given[s][i].stream = s /\ given[s][i].seq < k /\ given[s][i].seq \in Nat
        BY <3>1, <2>5
      <4> QED BY <4>1, <4>2, <2>1
    <3>2. CASE \E x \in 1..n : i = L + x
      <4>1. given'[s][i].stream = s /\ given'[s][i].seq = k BY <3>2, <2>6
      <4> QED BY <4>1, <2>1
    <3> QED BY <3>1, <3>2, <2>7
  <2> DEFINE Ok(a, b) == /\ ~CursorLeq(b, a) /\ CursorLeq(a, b)
                         /\ a.seq = b.seq => ~a.whole /\ ~b.whole
  <2>9. ASSUME NEW i \in 1..(L + n), NEW j \in 1..(L + n), i < j
        PROVE  Ok(given'[s][i], given'[s][j])
    <3>1. CASE j \in 1..L
      <4>1. i \in 1..L BY <3>1, <2>9
      <4>2. given'[s][i] = given[s][i] /\ given'[s][j] = given[s][j] BY <3>1, <4>1, <2>4
      <4>3. Ok(given[s][i], given[s][j]) BY <3>1, <4>1, <2>9, <2>3 DEF GivenInOrder
      <4> QED BY <4>2, <4>3
    <3>2. CASE i \in 1..L /\ \E y \in 1..n : j = L + y
      <4>1. given'[s][i].seq < k /\ given'[s][i].seq \in Nat BY <3>2, <2>4, <2>5
      <4>2. given'[s][j].seq = k BY <3>2, <2>6
      <4>3. k \in Nat OBVIOUS
      <4> QED BY <4>1, <4>2, <4>3 DEF CursorLeq
    <3>3. CASE (\E x \in 1..n : i = L + x) /\ \E y \in 1..n : j = L + y
      <4>1. PICK x \in 1..n, y \in 1..n : i = L + x /\ j = L + y BY <3>3
      <4>2. x < y /\ n # 1 /\ x \in Nat /\ y \in Nat BY <4>1, <2>9
      <4>3. given'[s][i].seq = k /\ given'[s][i].seg = x - 1 /\ ~given'[s][i].whole
        BY <4>1, <4>2, <2>6
      <4>4. given'[s][j].seq = k /\ given'[s][j].seg = y - 1 /\ ~given'[s][j].whole
        BY <4>1, <4>2, <2>6
      <4>5. k \in Nat /\ ~(y - 1 <= x - 1) /\ x - 1 <= y - 1 BY <4>2
      <4> QED BY <4>3, <4>4, <4>5 DEF CursorLeq
    <3>4. CASE (\E x \in 1..n : i = L + x) /\ j \in 1..L BY <3>4, <2>9
    <3> QED BY <3>1, <3>2, <3>3, <3>4, <2>7
  <2>10. \A r \in Streams : r # s => given'[r] = given[r] BY <2>1 DEF Extended
  <2>11. ASSUME NEW r \in Streams
         PROVE  /\ \A i \in 1..Len(given'[r]) : given'[r][i].stream = r
                                              /\ given'[r][i].seq < nextSeq'[r]
                /\ \A i, j \in 1..Len(given'[r]) : i < j => Ok(given'[r][i], given'[r][j])
    <3>1. CASE r = s BY <3>1, <2>4, <2>8, <2>9
    <3>2. CASE r # s BY <3>2, <2>1, <2>10 DEF GivenInOrder
    <3> QED BY <3>1, <3>2
  <2> QED BY <2>11 DEF GivenInOrder
<1>3. CASE UNCHANGED vars BY <1>1, <1>3 DEF vars
<1> QED BY <1>1, <1>2, <1>3, OnlyTakeGives

\* Every number is an envelope's or was used up by a message without any.
LEMMA NumberedStep ==
    ASSUME Inv, [Next]_vars
    PROVE  Numbered'
<1> USE DEF Inv
<1> DEFINE seqs(f, r) == {f[r][i].seq : i \in DOMAIN f[r]}
<1>1. CASE UNCHANGED <<given, nextSeq, void>> BY <1>1 DEF Numbered
<1>2. CASE TakeMessage
  <2>1. PICK s \in Streams, n \in Sizes, k \in 1..MaxMessages :
          /\ n \in Nat /\ k = nextSeq[s] /\ nextSeq'[s] = k + 1
          /\ \A r \in Streams : r # s => nextSeq'[r] = nextSeq[r]
          /\ void'[s] = IF n = 0 THEN void[s] \cup {k} ELSE void[s]
          /\ \A r \in Streams : r # s => void'[r] = void[r]
          /\ given' \in [Streams -> Seq(Envelopes)] /\ Extended(given, given', s, k, n)
    BY <1>2, TakeEffect, ZenonT(60)
  <2>2. given[s] \in Seq(Envelopes) /\ given'[s] \in Seq(Envelopes) BY <2>1 DEF TypeOK
  <2>3. PICK L \in Nat : L = Len(given[s]) BY <2>2, Elements
  <2>4. DOMAIN given[s] = 1..L BY <2>2, <2>3
  <2>5. /\ Len(given'[s]) = L + n
        /\ \A i \in 1..L : given'[s][i] = given[s][i]
        /\ \A x \in 1..n : given'[s][L + x] = Piece(s, k, n, x)
    BY <2>1, <2>3 DEF Extended
  <2>6. DOMAIN given'[s] = 1..(L + n) BY <2>2, <2>5, Elements
  <2>7. 1..(k - 1) = seqs(given, s) \cup void[s] /\ seqs(given, s) \cap void[s] = {}
    BY <2>1 DEF Numbered
  <2>8. k \notin seqs(given, s) /\ k \notin void[s] /\ 1..k = (1..(k - 1)) \cup {k}
    <3>1. k \notin 1..(k - 1) /\ 1..k = (1..(k - 1)) \cup {k} OBVIOUS
    <3> QED BY <3>1, <2>7
  <2>9. ASSUME n = 0
        PROVE  1..k = seqs(given', s) \cup void'[s] /\ seqs(given', s) \cap void'[s] = {}
    <3>1. 1..(L + n) = 1..L BY <2>9
    <3>2. seqs(given', s) = seqs(given, s)
      BY <2>4, <2>5, <2>6, <3>1
    <3>3. void'[s] = void[s] \cup {k} BY <2>1, <2>9
    <3> HIDE DEF seqs
    <3> QED BY <2>7, <2>8, <3>2, <3>3
  <2>10. ASSUME n # 0
        PROVE  1..k = seqs(given', s) \cup void'[s] /\ seqs(given', s) \cap void'[s] = {}
    <3>1. seqs(given', s) = seqs(given, s) \cup {k}
      <4>1. \A i \in 1..L : i \in 1..(L + n) BY <2>1
      <4>2. \A x \in 1..n : L + x \in 1..(L + n) /\ given'[s][L + x].seq = k
        <5>1. \A x \in 1..n : L + x \in 1..(L + n) BY <2>1
        <5>2. ASSUME NEW x \in 1..n PROVE given'[s][L + x].seq = k
          <6>1. given'[s][L + x] = Piece(s, k, n, x) BY <2>5
          <6> QED BY <6>1, PieceFields
        <5> QED BY <5>1, <5>2
      <4>3. 1 \in 1..n BY <2>1, <2>10
      <4>4. \A i \in 1..(L + n) : i \in 1..L \/ (i - L \in 1..n /\ i = L + (i - L))
        BY <2>1
      <4>5. ASSUME NEW i \in 1..(L + n) PROVE given'[s][i].seq \in seqs(given, s) \cup {k}
        <5>1. CASE i \in 1..L BY <5>1, <2>4, <2>5
        <5>2. CASE i - L \in 1..n /\ i = L + (i - L) 
          <6>1. PICK x \in 1..n : i = L + x BY <5>2
          <6>2. given'[s][i].seq = k BY <6>1, <4>2
          <6> QED BY <6>2
        <5> QED BY <5>1, <5>2, <4>4
      <4>6. ASSUME NEW i \in 1..L PROVE given[s][i].seq \in seqs(given', s)
        <5>1. given[s][i].seq = given'[s][i].seq /\ i \in DOMAIN given'[s]
          BY <2>5, <2>6, <4>1
        <5> QED BY <5>1
      <4>7. k \in seqs(given', s)
        <5>1. L + 1 \in DOMAIN given'[s] /\ given'[s][L + 1].seq = k BY <4>2, <4>3, <2>6
        <5> QED BY <5>1
      <4> QED BY <2>4, <2>6, <4>5, <4>6, <4>7
    <3>2. void'[s] = void[s] BY <2>1, <2>10
    <3> HIDE DEF seqs
    <3> QED BY <2>7, <2>8, <3>1, <3>2
  <2>11. 1..(nextSeq'[s] - 1) = seqs(given', s) \cup void'[s]
         /\ seqs(given', s) \cap void'[s] = {}
    <3>1. nextSeq'[s] - 1 = k BY <2>1
    <3>2. 1..k = seqs(given', s) \cup void'[s] /\ seqs(given', s) \cap void'[s] = {}
      BY <2>9, <2>10
    <3> HIDE DEF seqs
    <3> QED BY <3>1, <3>2
  <2>12. \A r \in Streams : r # s => given'[r] = given[r] BY <2>1 DEF Extended
  <2>13. ASSUME NEW r \in Streams
         PROVE  1..(nextSeq'[r] - 1) = seqs(given', r) \cup void'[r]
                /\ seqs(given', r) \cap void'[r] = {}
    <3>1. CASE r = s BY <3>1, <2>11
    <3>2. CASE r # s
      <4>1. given'[r] = given[r] /\ void'[r] = void[r] /\ nextSeq'[r] = nextSeq[r]
        BY <3>2, <2>1, <2>12
      <4>2. seqs(given', r) = seqs(given, r) BY <4>1
      <4>3. 1..(nextSeq[r] - 1) = seqs(given, r) \cup void[r]
            /\ seqs(given, r) \cap void[r] = {}
        BY DEF Numbered
      <4> HIDE DEF seqs
      <4> QED BY <4>1, <4>2, <4>3
    <3> QED BY <3>1, <3>2
  <2> QED BY <2>13 DEF Numbered
<1>3. CASE UNCHANGED vars BY <1>1, <1>3 DEF vars
<1> QED BY <1>1, <1>2, <1>3, OnlyTakeGives

\* The lengths of all sequences of a stream.
LEMMA Lengths ==
    ASSUME Inv, NEW s \in Streams
    PROVE  /\ Len(given[s]) \in Nat /\ Len(buffer[s]) \in Nat /\ Len(got[s]) \in Nat
           /\ Len(writer.out[s]) \in Nat /\ Len(wire) \in Nat /\ Len(acks) \in Nat
           /\ Len(got[s]) <= Len(given[s]) /\ Len(buffer[s]) <= Len(given[s])
           /\ Len(writer.out[s]) <= Len(given[s])
           /\ Len(given[s]) - Len(buffer[s]) <= Len(got[s])
           /\ Sent(s) = Len(given[s]) - Len(writer.out[s])
           /\ Sent(s) \in Nat /\ Sent(s) <= Len(given[s])
<1>1. /\ given[s] \in Seq(Envelopes) /\ buffer[s] \in Seq(Envelopes)
      /\ got[s] \in Seq(Envelopes) /\ writer.out[s] \in Seq(Envelopes)
      /\ wire \in Seq(Envelopes) /\ acks \in Seq(Envelopes)
  BY DEF Inv, TypeOK
<1>2. /\ Len(given[s]) \in Nat /\ Len(buffer[s]) \in Nat /\ Len(got[s]) \in Nat
      /\ Len(writer.out[s]) \in Nat /\ Len(wire) \in Nat /\ Len(acks) \in Nat
  BY <1>1, Elements
<1>3. /\ Len(got[s]) <= Len(given[s]) /\ Len(buffer[s]) <= Len(given[s])
      /\ Len(writer.out[s]) <= Len(given[s])
      /\ Len(given[s]) - Len(buffer[s]) <= Len(got[s])
  BY DEF Inv, BufferHoldsRest, OutIsEnd, IsSuffix, Gone
<1>4. Sent(s) = Len(given[s]) - Len(writer.out[s]) BY DEF Sent
<1>5. Sent(s) \in Nat /\ Sent(s) <= Len(given[s])
  <2>1. PICK L \in Nat, o \in Nat : L = Len(given[s]) /\ o = Len(writer.out[s]) BY <1>2
  <2>2. o <= L /\ Sent(s) = L - o BY <1>3, <1>4, <2>1
  <2>3. L - o \in Nat /\ L - o <= L BY <2>2
  <2> QED BY <2>1, <2>2, <2>3, Zenon
<1> QED BY <1>2, <1>3, <1>4, <1>5

\* The client accepts the envelope that is next in its stream and no other: one
\* between would be on the wire, and before it.
LEMMA AcceptsNext ==
    ASSUME Inv, Len(wire) \in Nat \ {0}, NEW s \in Streams, wire[1].stream = s,
           ~(got[s] # <<>> /\ CursorLeq(wire[1], got[s][Len(got[s])]))
    PROVE  Len(got[s]) < Len(given[s]) /\ wire[1] = given[s][Len(got[s]) + 1]
<1>1. conn
  <2>1. wire # <<>> OBVIOUS
  <2> QED BY <2>1 DEF Inv, WireInOrder
<1>2. 1 \in 1..Len(wire) OBVIOUS
<1>3. PICK j \in 1..Sent(s) : wire[1] = given[s][j] BY <1>2 DEF Inv, WireInOrder
<1>4. PICK G \in Nat : G = Len(got[s]) BY Lengths
<1>5. Sent(s) \in Nat /\ Sent(s) <= Len(given[s]) /\ Len(given[s]) \in Nat /\ G <= Len(given[s])
  BY Lengths, <1>4
<1>6. j > G
  <2>1. CASE G = 0 BY <2>1, <1>5
  <2>2. CASE G # 0
    <3>1. got[s] # <<>> BY <2>2, <1>4
    <3>2. G \in 1..Len(given[s]) /\ j \in 1..Len(given[s]) /\ G \in 1..Len(got[s])
      BY <1>4, <1>5, <2>2
    <3>3. got[s][G] = given[s][G] BY <3>2 DEF Inv, BufferHoldsRest
    <3>4. ~CursorLeq(given[s][j], given[s][G]) BY <3>1, <3>3, <1>3, <1>4
    <3>5. ~(j <= G) BY <3>2, <3>4, CursorOrder DEF Inv
    <3> QED BY <3>5, <1>5
  <2> QED BY <2>1, <2>2
<1>7. G + 1 \in (Len(got[s]) + 1)..Sent(s) /\ G + 1 \in 1..Len(given[s])
      /\ j \in 1..Len(given[s])
  BY <1>4, <1>5, <1>6
<1>8. PICK i \in 1..Len(wire) : wire[i] = given[s][G + 1]
  BY <1>1, <1>7 DEF Inv, WireComplete
<1>9. G + 1 = j
  <2>1. CASE i = 1
    <3>1. given[s][G + 1] = given[s][j] BY <2>1, <1>3, <1>8
    <3> QED BY <3>1, <1>7, CursorOrder DEF Inv
  <2>2. CASE i # 1
    <3>1. 1 < i BY <2>2
    <3>2. given[s][G + 1].stream = s BY <1>7 DEF Inv, GivenInOrder
    <3>3. ~CursorLeq(wire[i], wire[1]) BY <3>1, <3>2, <1>2, <1>8 DEF Inv, WireInOrder
    <3>4. ~(G + 1 <= j) BY <3>3, <1>3, <1>7, <1>8, CursorOrder DEF Inv
    <3> QED BY <3>4, <1>5, <1>6
  <2> QED BY <2>1, <2>2
<1> QED BY <1>3, <1>4, <1>5, <1>7, <1>9

\* Three actions change the buffer or what the client has.
LEMMA BufferStep ==
    ASSUME Inv, [Next]_vars
    PROVE  BufferHoldsRest'
<1> DEFINE B(f, b, g, r) ==
              /\ Len(b[r]) <= Len(f[r])
              /\ \A i \in 1..Len(b[r]) : b[r][i] = f[r][Len(f[r]) - Len(b[r]) + i]
              /\ Len(g[r]) <= Len(f[r])
              /\ \A i \in 1..Len(g[r]) : g[r][i] = f[r][i]
              /\ Len(f[r]) - Len(b[r]) <= Len(g[r])
<1>1. \A r \in Streams : B(given, buffer, got, r)
  BY DEF Inv, BufferHoldsRest, IsSuffix, Gone
<1>2. (\A r \in Streams : B(given', buffer', got', r)) => BufferHoldsRest'
  BY DEF BufferHoldsRest, IsSuffix, Gone
<1>0. ASSUME NEW r \in Streams,
             given'[r] = given[r], buffer'[r] = buffer[r], got'[r] = got[r]
      PROVE  B(given', buffer', got', r)
  <2>1. B(given, buffer, got, r) BY <1>1
  <2> QED BY <1>0, <2>1
<1>3. CASE UNCHANGED <<given, buffer, got>>
  BY <1>1, <1>2, <1>3
<1>4. CASE TakeMessage
  <2>1. PICK s \in Streams, n \in Sizes, k \in 1..MaxMessages :
          /\ n \in Nat /\ got' = got
          /\ Extended(buffer, buffer', s, k, n) /\ Extended(given, given', s, k, n)
    BY <1>4, TakeEffect DEF Inv
  <2>2. PICK L \in Nat : L = Len(given[s]) BY Lengths
  <2>3. PICK b \in Nat : b = Len(buffer[s]) BY Lengths
  <2>4. /\ Len(given'[s]) = L + n
        /\ \A i \in 1..L : given'[s][i] = given[s][i]
        /\ \A x \in 1..n : given'[s][L + x] = Piece(s, k, n, x)
    BY <2>1, <2>2 DEF Extended
  <2>5. /\ Len(buffer'[s]) = b + n
        /\ \A i \in 1..b : buffer'[s][i] = buffer[s][i]
        /\ \A x \in 1..n : buffer'[s][b + x] = Piece(s, k, n, x)
    BY <2>1, <2>3 DEF Extended
  <2>6. PICK g \in Nat : g = Len(got[s]) BY Lengths
  <2>7. b <= L /\ L - b <= g /\ g <= L BY <2>2, <2>3, <2>6, <1>1
  <2>8. (L + n) - (b + n) = L - b BY <2>1
  <2>9. ASSUME NEW i \in 1..(b + n) PROVE buffer'[s][i] = given'[s][L - b + i]
    <3>1. CASE i <= b
      <4>1. i \in 1..b /\ L - b + i \in 1..L BY <3>1, <2>7
      <4>2. buffer[s][i] = given[s][L - b + i] BY <4>1, <1>1, <2>2, <2>3
      <4> QED BY <4>1, <4>2, <2>4, <2>5
    <3>2. CASE ~(i <= b)
      <4>1. PICK x \in 1..n : i = b + x
        <5>1. i - b \in 1..n /\ i = b + (i - b) BY <3>2, <2>1
        <5> QED BY <5>1
      <4>2. L - b + (b + x) = L + x OBVIOUS
      <4> QED BY <4>1, <4>2, <2>4, <2>5
    <3> QED BY <3>1, <3>2
  <2>10. ASSUME NEW i \in 1..g PROVE got[s][i] = given'[s][i]
    <3>1. i \in 1..L BY <2>7
    <3> QED BY <3>1, <1>1, <2>4, <2>6
  <2>11. B(given', buffer', got', s)
    <3>1. b + n <= L + n /\ g <= L + n /\ (L + n) - (b + n) <= g BY <2>1, <2>7
    <3> QED BY <3>1, <2>1, <2>4, <2>5, <2>6, <2>8, <2>9, <2>10
  <2>12. \A r \in Streams : r # s => given'[r] = given[r] /\ buffer'[r] = buffer[r]
    BY <2>1 DEF Extended
  <2>13. ASSUME NEW r \in Streams, r # s PROVE B(given', buffer', got', r)
    BY <2>13, <2>12, <2>1, <1>0
  <2> QED BY <2>11, <2>13, <1>2
<1>5. CASE ReaderAck
  <2>1. PICK s \in Streams : \E d \in 0..Len(buffer[s]) :
          /\ d \in Nat /\ Len(buffer[s]) \in Nat
          /\ d <= Len(buffer[s])
          /\ Len(buffer'[s]) = Len(buffer[s]) - d
          /\ \A i \in 1..Len(buffer'[s]) : buffer'[s][i] = buffer[s][d + i]
          /\ \A r \in Streams : r # s => buffer'[r] = buffer[r]
          /\ Gone(s) + d <= Len(got[s])
          /\ given' = given /\ got' = got
    BY <1>5, ReaderEffect DEF Inv
  <2>2. PICK b \in Nat : b = Len(buffer[s]) BY Lengths
  <2>3. PICK d \in Nat :
          /\ d <= b /\ Len(buffer'[s]) = b - d
          /\ \A i \in 1..(b - d) : buffer'[s][i] = buffer[s][d + i]
          /\ \A r \in Streams : r # s => buffer'[r] = buffer[r]
          /\ (Len(given[s]) - b) + d <= Len(got[s])
          /\ given' = given /\ got' = got
    BY <2>1, <2>2 DEF Gone
  <2>4. PICK L \in Nat : L = Len(given[s]) BY Lengths
  <2>5. b <= L BY <2>2, <2>4, <1>1
  <2>6. ASSUME NEW i \in 1..(b - d) PROVE buffer'[s][i] = given[s][L - (b - d) + i]
    <3>1. d + i \in 1..b /\ L - b + (d + i) = L - (b - d) + i BY <2>3
    <3>2. buffer[s][d + i] = given[s][L - b + (d + i)] BY <3>1, <1>1, <2>2, <2>4
    <3> QED BY <3>1, <3>2, <2>3
  <2>7. B(given', buffer', got', s)
    <3>1. b - d <= L /\ L - (b - d) = (L - b) + d BY <2>3, <2>5
    <3> QED BY <3>1, <2>3, <2>4, <2>6, <1>1
  <2>8. ASSUME NEW r \in Streams, r # s PROVE B(given', buffer', got', r)
    BY <2>8, <2>3, <1>0
  <2> QED BY <2>7, <2>8, <1>2
<1>6. CASE ClientReceives
  <2>1. PICK s \in Streams :
          /\ Len(wire) \in Nat \ {0} /\ wire[1].stream = s
          /\ \/ got' = got
             \/ /\ ~(got[s] # <<>> /\ CursorLeq(wire[1], got[s][Len(got[s])]))
                /\ Len(got'[s]) = Len(got[s]) + 1
                /\ \A i \in 1..Len(got[s]) : got'[s][i] = got[s][i]
                /\ got'[s][Len(got[s]) + 1] = wire[1]
                /\ \A r \in Streams : r # s => got'[r] = got[r]
          /\ given' = given /\ buffer' = buffer
    BY <1>6, ReceiveEffect DEF Inv
  <2>2. CASE got' = got BY <2>1, <2>2, <1>3
  <2>3. CASE /\ ~(got[s] # <<>> /\ CursorLeq(wire[1], got[s][Len(got[s])]))
             /\ Len(got'[s]) = Len(got[s]) + 1
             /\ \A i \in 1..Len(got[s]) : got'[s][i] = got[s][i]
             /\ got'[s][Len(got[s]) + 1] = wire[1]
             /\ \A r \in Streams : r # s => got'[r] = got[r]
    <3>1. PICK g \in Nat : g = Len(got[s]) BY Lengths
    <3>2. g < Len(given[s]) /\ wire[1] = given[s][g + 1] BY <2>1, <2>3, <3>1, AcceptsNext
    <3>3. Len(given[s]) \in Nat /\ Len(buffer[s]) \in Nat BY Lengths
    <3>4. /\ Len(got'[s]) = g + 1 /\ got'[s][g + 1] = wire[1]
          /\ \A i \in 1..g : got'[s][i] = got[s][i]
      BY <2>3, <3>1
    <3>5. ASSUME NEW i \in 1..(g + 1) PROVE got'[s][i] = given[s][i]
      <4>1. CASE i = g + 1 BY <4>1, <3>2, <3>4
      <4>2. CASE i # g + 1
        <5>1. i \in 1..g BY <4>2
        <5> QED BY <5>1, <3>1, <3>4, <1>1
      <4> QED BY <4>1, <4>2
    <3>6. B(given', buffer', got', s)
      <4>1. g + 1 <= Len(given[s]) /\ Len(given[s]) - Len(buffer[s]) <= g + 1
        <5>1. Len(given[s]) - Len(buffer[s]) <= g BY <1>1, <3>1
        <5>2. PICK L \in Nat, b \in Nat : L = Len(given[s]) /\ b = Len(buffer[s]) BY <3>3
        <5>3. L - b <= g /\ g < L BY <5>1, <5>2, <3>2
        <5>4. L - b <= g + 1 /\ g + 1 <= L BY <5>3
        <5> QED BY <5>2, <5>4
      <4> QED BY <4>1, <2>1, <3>4, <3>5, <1>1
    <3>7. ASSUME NEW r \in Streams, r # s PROVE B(given', buffer', got', r)
      BY <3>7, <2>1, <2>3, <1>0
    <3> QED BY <3>6, <3>7, <1>2
  <2> QED BY <2>1, <2>2, <2>3
<1>7. CASE UNCHANGED vars BY <1>3, <1>7 DEF vars
<1>8. Next => TakeMessage \/ ReaderAck \/ ClientReceives \/ UNCHANGED <<given, buffer, got>>
  BY DEF Next, QueueMessage, LoseMessage, Connect, LoseWebsocket, WriterStops, WriteEnvelope, ClientAcks
<1> QED BY <1>3, <1>4, <1>5, <1>6, <1>7, <1>8

\* What was given stays, and what the client has.
LEMMA Grows ==
    ASSUME Inv, [Next]_vars, NEW r \in Streams
    PROVE  /\ Len(given'[r]) \in Nat /\ Len(given[r]) <= Len(given'[r])
           /\ \A j \in 1..Len(given[r]) : given'[r][j] = given[r][j]
           /\ Len(got'[r]) \in Nat /\ Len(got[r]) <= Len(got'[r])
<1>1. Len(given[r]) \in Nat /\ Len(got[r]) \in Nat BY Lengths
<1>2. /\ Len(given'[r]) \in Nat /\ Len(given[r]) <= Len(given'[r])
      /\ \A j \in 1..Len(given[r]) : given'[r][j] = given[r][j]
  <2>1. CASE given' = given BY <2>1, <1>1
  <2>2. CASE TakeMessage
    <3>1. PICK s \in Streams, n \in Sizes, k \in 1..MaxMessages :
            n \in Nat /\ Extended(given, given', s, k, n)
      BY <2>2, TakeEffect DEF Inv
    <3>2. CASE r = s
      <4>1. Len(given'[r]) = Len(given[r]) + n
            /\ \A j \in 1..Len(given[r]) : given'[r][j] = given[r][j]
        BY <3>1, <3>2 DEF Extended
      <4> QED BY <4>1, <1>1, <3>1
    <3>3. CASE r # s
      <4>1. given'[r] = given[r] BY <3>1, <3>3 DEF Extended
      <4> QED BY <4>1, <1>1
    <3> QED BY <3>2, <3>3
  <2>3. UNCHANGED vars => given' = given BY DEF vars
  <2> QED BY <2>1, <2>2, <2>3, OnlyTakeGives DEF Inv
<1>3. Len(got'[r]) \in Nat /\ Len(got[r]) <= Len(got'[r])
  <2>1. CASE got' = got BY <2>1, <1>1
  <2>2. CASE ClientReceives
    <3>1. PICK s \in Streams :
            \/ got' = got
            \/ /\ Len(got'[s]) = Len(got[s]) + 1
               /\ \A q \in Streams : q # s => got'[q] = got[q]
      BY <2>2, ReceiveEffect DEF Inv
    <3>2. CASE got' = got BY <3>2, <1>1
    <3>3. CASE got' # got
      <4>1. CASE r = s
        <5>1. Len(got'[r]) = Len(got[r]) + 1 BY <3>1, <3>3, <4>1
        <5> QED BY <5>1, <1>1
      <4>2. CASE r # s
        <5>1. got'[r] = got[r] BY <3>1, <3>3, <4>2
        <5> QED BY <5>1, <1>1
      <4> QED BY <4>1, <4>2
    <3> QED BY <3>2, <3>3
  <2>3. [Next]_vars => ClientReceives \/ got' = got
    BY DEF Next, QueueMessage, LoseMessage, Connect, LoseWebsocket, WriterStops, WriteEnvelope,
           TakeMessage, ClientAcks, ReaderAck, vars
  <2> QED BY <2>1, <2>2, <2>3
<1> QED BY <1>2, <1>3

\* The payloads to write stay an end of the stream.
LEMMA OutStep ==
    ASSUME Inv, [Next]_vars
    PROVE  OutIsEnd'
<1> DEFINE O(f, o, r) == /\ Len(o[r]) <= Len(f[r])
                         /\ \A i \in 1..Len(o[r]) : o[r][i] = f[r][Len(f[r]) - Len(o[r]) + i]
<1>1. \A r \in Streams : O(given, writer.out, r) /\ O(given, buffer, r)
  BY DEF Inv, OutIsEnd, BufferHoldsRest, IsSuffix
<1>2. (\A r \in Streams : O(given', writer'.out, r))
      /\ (writer'.pc = "off" => \A r \in Streams : writer'.out[r] = <<>>) => OutIsEnd'
  BY DEF OutIsEnd, IsSuffix
<1>0. ASSUME NEW r \in Streams, given'[r] = given[r], writer'.out[r] = writer.out[r]
      PROVE  O(given', writer'.out, r)
  <2>1. O(given, writer.out, r) BY <1>1
  <2> QED BY <1>0, <2>1
<1>3. CASE UNCHANGED <<given, writer>>
  BY <1>0, <1>2, <1>3 DEF Inv, OutIsEnd
<1>4. CASE Connect
  <2>1. given' = given /\ writer'.out = buffer /\ writer'.pc = "write"
    BY <1>4, ConnectEffect DEF Inv
  <2>2. \A r \in Streams : O(given', writer'.out, r) BY <2>1, <1>1
  <2> QED BY <2>1, <2>2, <1>2
<1>5. CASE WriterStops
  <2>1. given' = given /\ \A r \in Streams : writer'.out[r] = <<>>
    BY <1>5, StopEffect DEF Inv
  <2>2. ASSUME NEW r \in Streams PROVE O(given', writer'.out, r)
    <3>1. Len(given'[r]) \in Nat BY <2>1, Lengths
    <3>2. writer'.out[r] = <<>> BY <2>1
    <3>3. Len(writer'.out[r]) = 0 BY <3>2
    <3> QED BY <3>1, <3>3
  <2> QED BY <2>1, <2>2, <1>2
<1>6. CASE TakeMessage
  <2>1. PICK s \in Streams, n \in Sizes, k \in 1..MaxMessages :
          /\ n \in Nat /\ writer'.pc = "write"
          /\ Extended(writer.out, writer'.out, s, k, n) /\ Extended(given, given', s, k, n)
          /\ \A r \in Streams : writer.out[r] = <<>>
    BY <1>6, TakeEffect, ZenonT(60) DEF Inv
  <2>2. PICK L \in Nat : L = Len(given[s]) BY Lengths
  <2>3. Len(writer.out[s]) = 0 BY <2>1
  <2>4. /\ Len(given'[s]) = L + n
        /\ \A x \in 1..n : given'[s][L + x] = Piece(s, k, n, x)
    BY <2>1, <2>2 DEF Extended
  <2>5. /\ Len(writer'.out[s]) = 0 + n
        /\ \A x \in 1..n : writer'.out[s][0 + x] = Piece(s, k, n, x)
    BY <2>1, <2>3 DEF Extended
  <2>6. /\ Len(writer'.out[s]) = n /\ n <= L + n /\ (L + n) - n = L
        /\ \A x \in 1..n : 0 + x = x
    BY <2>1, <2>5
  <2>7. \A x \in 1..n : writer'.out[s][x] = given'[s][L + x] BY <2>4, <2>5, <2>6
  <2>8. O(given', writer'.out, s) BY <2>4, <2>6, <2>7
  <2>9. ASSUME NEW r \in Streams, r # s PROVE O(given', writer'.out, r)
    <3>1. given'[r] = given[r] /\ writer'.out[r] = writer.out[r]
      BY <2>1, <2>9 DEF Extended
    <3> QED BY <3>1, <1>0
  <2> QED BY <2>1, <2>8, <2>9, <1>2
<1>7. ASSUME NEW s \in Streams, WriteEnvelope(s) PROVE OutIsEnd'
  <2>1. /\ writer.out[s] # <<>> /\ writer'.pc = writer.pc /\ given' = given
        /\ Len(writer.out[s]) \in Nat \ {0}
        /\ Len(writer'.out[s]) = Len(writer.out[s]) - 1
        /\ \A i \in 1..Len(writer'.out[s]) : writer'.out[s][i] = writer.out[s][i + 1]
        /\ \A r \in Streams : r # s => writer'.out[r] = writer.out[r]
    BY <1>7, WriteEffect DEF Inv
  <2>2. PICK L \in Nat : L = Len(given[s]) BY Lengths
  <2>3. PICK o \in Nat \ {0} : o = Len(writer.out[s]) BY <2>1
  <2>4. o <= L /\ \A i \in 1..o : writer.out[s][i] = given[s][L - o + i]
    BY <1>1, <2>2, <2>3
  <2>5. /\ Len(writer'.out[s]) = o - 1
        /\ \A i \in 1..(o - 1) : writer'.out[s][i] = writer.out[s][i + 1]
    BY <2>1, <2>3
  <2>6. ASSUME NEW i \in 1..(o - 1) PROVE writer'.out[s][i] = given[s][L - (o - 1) + i]
    <3>1. i + 1 \in 1..o /\ L - o + (i + 1) = L - (o - 1) + i OBVIOUS
    <3> QED BY <3>1, <2>4, <2>5
  <2>7. o - 1 <= L BY <2>4
  <2>8. O(given', writer'.out, s) BY <2>1, <2>2, <2>5, <2>6, <2>7
  <2>9. ASSUME NEW r \in Streams, r # s PROVE O(given', writer'.out, r)
    BY <2>9, <2>1, <1>0
  <2>10. writer.pc # "off" BY <2>1 DEF Inv, OutIsEnd
  <2> QED BY <2>1, <2>8, <2>9, <2>10, <1>2
<1>8. CASE UNCHANGED vars BY <1>3, <1>8 DEF vars
<1>9. Next => \/ Connect \/ WriterStops \/ TakeMessage \/ UNCHANGED <<given, writer>>
              \/ \E s \in Streams : WriteEnvelope(s)
  BY DEF Next, QueueMessage, LoseMessage, LoseWebsocket, ClientReceives, ReaderAck, ClientAcks
<1> QED BY <1>3, <1>4, <1>5, <1>6, <1>7, <1>8, <1>9

\* A message that is taken is all still to be written.
LEMMA SentAfterTake ==
    ASSUME Inv, TakeMessage, NEW r \in Streams
    PROVE  Sent(r)' = Sent(r)
<1>1. PICK s \in Streams, n \in Sizes, k \in 1..MaxMessages :
        /\ n \in Nat
        /\ Extended(writer.out, writer'.out, s, k, n) /\ Extended(given, given', s, k, n)
  BY TakeEffect, ZenonT(60) DEF Inv
<1>2. PICK L \in Nat, o \in Nat : L = Len(given[r]) /\ o = Len(writer.out[r]) BY Lengths
<1>3. Sent(r)' = Len(given'[r]) - Len(writer'.out[r]) BY DEF Sent
<1>4. Sent(r) = L - o BY <1>2 DEF Sent
<1>5. CASE r = s
  <2>1. Len(given'[r]) = L + n /\ Len(writer'.out[r]) = o + n
    BY <1>1, <1>2, <1>5 DEF Extended
  <2>2. (L + n) - (o + n) = L - o BY <1>1
  <2> QED BY <1>3, <1>4, <2>1, <2>2
<1>6. CASE r # s
  <2>1. given'[r] = given[r] /\ writer'.out[r] = writer.out[r]
    BY <1>1, <1>6 DEF Extended
  <2> QED BY <1>2, <1>3, <1>4, <2>1
<1> QED BY <1>5, <1>6

\* The envelope written is the next one of its stream.
LEMMA WritesNext ==
    ASSUME Inv, NEW s \in Streams, WriteEnvelope(s)
    PROVE  /\ Sent(s) \in Nat /\ Sent(s) + 1 \in 1..Len(given[s])
           /\ Sent(s)' = Sent(s) + 1
           /\ \A r \in Streams : r # s => Sent(r)' = Sent(r)
           /\ wire'[Len(wire) + 1] = given[s][Sent(s) + 1]
<1>1. /\ Len(writer.out[s]) \in Nat \ {0}
      /\ wire'[Len(wire) + 1] = writer.out[s][1] /\ given' = given
      /\ Len(writer'.out[s]) = Len(writer.out[s]) - 1
      /\ \A r \in Streams : r # s => writer'.out[r] = writer.out[r]
  BY WriteEffect DEF Inv
<1>2. PICK L \in Nat : L = Len(given[s]) BY Lengths
<1>3. PICK o \in Nat \ {0} : o = Len(writer.out[s]) BY <1>1
<1>4. o <= L /\ \A i \in 1..o : writer.out[s][i] = given[s][L - o + i]
  BY <1>2, <1>3 DEF Inv, OutIsEnd, IsSuffix
<1>5. Sent(s) = L - o BY <1>2, <1>3 DEF Sent
<1>6. Sent(s)' = L - (o - 1) BY <1>1, <1>2, <1>3 DEF Sent
<1>7. L - o \in Nat /\ (L - o) + 1 \in 1..L /\ L - (o - 1) = (L - o) + 1 BY <1>4
<1>8. writer.out[s][1] = given[s][(L - o) + 1]
  <2>1. 1 \in 1..o OBVIOUS
  <2> QED BY <2>1, <1>4
<1>9. \A r \in Streams : r # s => Sent(r)' = Sent(r) BY <1>1 DEF Sent
<1>10. Sent(s) \in Nat /\ Sent(s) + 1 \in 1..L /\ Sent(s)' = Sent(s) + 1
  BY <1>5, <1>6, <1>7, Zenon
<1>11. wire'[Len(wire) + 1] = given[s][Sent(s) + 1] BY <1>1, <1>5, <1>8, Zenon
<1> QED BY <1>2, <1>9, <1>10, <1>11

\* Every envelope of the wire and every acknowledgement is of a stream.
LEMMA WireStreams ==
    ASSUME Inv
    PROVE  /\ Len(wire) \in Nat /\ Len(acks) \in Nat
           /\ \A i \in 1..Len(wire) : wire[i].stream \in Streams
           /\ \A i \in 1..Len(acks) : acks[i].stream \in Streams
<1>1. wire \in Seq(Envelopes) /\ acks \in Seq(Envelopes) BY DEF Inv, TypeOK
<1>2. /\ \A i \in 1..Len(wire) : wire[i] \in Envelopes
      /\ \A i \in 1..Len(acks) : acks[i] \in Envelopes
      /\ Len(wire) \in Nat /\ Len(acks) \in Nat
  BY <1>1, Elements
<1> QED BY <1>2, Fields

\* With the websocket goes all that was on it.
LEMMA QuietWithoutWebsocket ==
    ASSUME Inv, [Next]_vars
    PROVE  ~conn' => wire' = <<>> /\ acks' = <<>>
<1>1. ~conn => wire = <<>> /\ acks = <<>> BY DEF Inv, WireInOrder
<1>2. CASE UNCHANGED <<conn, wire, acks>> BY <1>1, <1>2
<1>3. CASE Connect BY <1>3, ConnectEffect DEF Inv
<1>4. CASE LoseWebsocket BY <1>4, LoseEffect DEF Inv
<1>5. ASSUME NEW s \in Streams, WriteEnvelope(s) \/ ClientAcks(s) PROVE conn'
  BY <1>5 DEF WriteEnvelope, ClientAcks
<1>6. ClientReceives \/ ReaderAck => conn' = conn /\ conn
  BY <1>1 DEF ClientReceives, ReaderAck, Inv, TypeOK
<1>7. [Next]_vars => \/ UNCHANGED <<conn, wire, acks>> \/ Connect \/ LoseWebsocket
                     \/ \E s \in Streams : WriteEnvelope(s) \/ ClientAcks(s)
                     \/ ClientReceives \/ ReaderAck
  BY DEF Next, QueueMessage, LoseMessage, WriterStops, TakeMessage, vars
<1> QED BY <1>2, <1>3, <1>4, <1>5, <1>6, <1>7

\* The envelopes of a stream stay in order on the wire.
LEMMA WireStep ==
    ASSUME Inv, [Next]_vars
    PROVE  WireInOrder'
<1> DEFINE Up(w) == \A i, m \in 1..Len(w) :
                       i < m /\ w[i].stream = w[m].stream => ~CursorLeq(w[m], w[i])
<1>1. /\ \A i \in 1..Len(wire) : \E j \in 1..Sent(wire[i].stream) :
            wire[i] = given[wire[i].stream][j]
      /\ Up(wire)
  BY DEF Inv, WireInOrder
<1>2. ASSUME \A i \in 1..Len(wire') : \E r \in Streams : \E j \in 1..(Sent(r)') :
                wire'[i].stream = r /\ wire'[i] = given'[r][j],
             Up(wire')
      PROVE  WireInOrder'
  <2>1. ASSUME NEW i \in 1..Len(wire')
        PROVE  \E j \in 1..(Len(given'[wire'[i].stream]) - Len(writer'.out[wire'[i].stream])) :
                  wire'[i] = given'[wire'[i].stream][j]
    <3>1. PICK r \in Streams : \E j \in 1..(Sent(r)') :
                wire'[i].stream = r /\ wire'[i] = given'[r][j]
      BY <1>2
    <3> QED BY <3>1 DEF Sent
  <2> QED BY <2>1, <1>2, QuietWithoutWebsocket DEF WireInOrder, Sent
<1>3. ASSUME wire' = wire, \A r \in Streams : Sent(r)' \in Int /\ Sent(r) <= Sent(r)'
      PROVE  WireInOrder'
  <2>1. ASSUME NEW i \in 1..Len(wire)
        PROVE  \E r \in Streams : \E j \in 1..(Sent(r)') :
                  wire[i].stream = r /\ wire[i] = given'[r][j]
    <3>1. PICK r \in Streams : r = wire[i].stream BY WireStreams
    <3>2. PICK j \in 1..Sent(r) : wire[i] = given[r][j] BY <3>1, <1>1
    <3>3. Sent(r) \in Nat /\ Sent(r) <= Len(given[r]) /\ Len(given[r]) \in Nat BY Lengths
    <3>4. j \in 1..Len(given[r]) /\ j \in 1..(Sent(r)') BY <3>3, <1>3
    <3>5. given'[r][j] = given[r][j] BY <3>4, Grows
    <3> QED BY <3>1, <3>2, <3>4, <3>5
  <2>2. Up(wire') BY <1>1, <1>3
  <2> QED BY <2>1, <2>2, <1>2, <1>3
<1>4. CASE UNCHANGED <<wire, writer, given>>
  <2>1. \A r \in Streams : Sent(r)' = Sent(r) BY <1>4 DEF Sent
  <2>2. \A r \in Streams : Sent(r) \in Nat BY Lengths
  <2> QED BY <2>1, <2>2, <1>3, <1>4
<1>5. ASSUME wire' = <<>> PROVE WireInOrder'
  <2>1. Len(wire') = 0 BY <1>5
  <2> QED BY <2>1, <1>2
<1>6. CASE Connect \/ LoseWebsocket \/ WriterStops
  <2>1. wire' = <<>> BY <1>6, QuietWithoutWebsocket, ConnectEffect, LoseEffect, StopEffect
                     DEF Inv, WireInOrder
  <2> QED BY <2>1, <1>5
<1>7. CASE TakeMessage
  <2>1. wire' = wire BY <1>7 DEF TakeMessage
  <2>2. \A r \in Streams : Sent(r)' = Sent(r) BY <1>7, SentAfterTake
  <2>3. \A r \in Streams : Sent(r) \in Nat BY Lengths
  <2> QED BY <2>1, <2>2, <2>3, <1>3
<1>8. ASSUME NEW s \in Streams, WriteEnvelope(s) PROVE WireInOrder'
  <2>1. PICK W \in Nat : W = Len(wire) BY WireStreams
  <2>2. /\ Len(wire') = W + 1 /\ given' = given
        /\ \A i \in 1..W : wire'[i] = wire[i]
    BY <1>8, <2>1, WriteEffect DEF Inv
  <2>3. PICK z \in Nat : z = Sent(s) BY <1>8, WritesNext
  <2>4. /\ z + 1 \in 1..Len(given[s]) /\ Sent(s)' = z + 1
        /\ \A r \in Streams : r # s => Sent(r)' = Sent(r)
        /\ wire'[W + 1] = given[s][z + 1]
    BY <1>8, <2>1, <2>3, WritesNext
  <2>5. wire'[W + 1].stream = s BY <2>4 DEF Inv, GivenInOrder
  <2>6. ASSUME NEW i \in 1..W
        PROVE  \E r \in Streams : \E j \in 1..(Sent(r)') :
                  wire'[i].stream = r /\ wire'[i] = given'[r][j]
    <3>1. PICK r \in Streams : r = wire[i].stream BY WireStreams, <2>1
    <3>2. PICK j \in 1..Sent(r) : wire[i] = given[r][j] BY <3>1, <1>1, <2>1
    <3>3. j \in 1..(Sent(r)')
      <4>1. CASE r = s
        <5>1. j \in 1..z BY <4>1, <2>3
        <5>2. j \in 1..(z + 1) BY <5>1
        <5> QED BY <5>2, <4>1, <2>4
      <4>2. CASE r # s BY <4>2, <2>4
      <4> QED BY <4>1, <4>2
    <3> QED BY <3>1, <3>2, <3>3, <2>2
  <2>7. ASSUME NEW i \in 1..(W + 1)
        PROVE  \E r \in Streams : \E j \in 1..(Sent(r)') :
                  wire'[i].stream = r /\ wire'[i] = given'[r][j]
    <3>1. CASE i \in 1..W BY <3>1, <2>6
    <3>2. CASE i = W + 1
      <4>1. z + 1 \in 1..(Sent(s)')
        <5>1. z + 1 \in 1..(z + 1) OBVIOUS
        <5> QED BY <5>1, <2>4
      <4> QED BY <3>2, <4>1, <2>2, <2>4, <2>5
    <3> QED BY <3>1, <3>2
  <2>8. ASSUME NEW i \in 1..(W + 1), NEW m \in 1..(W + 1), i < m,
               wire'[i].stream = wire'[m].stream
        PROVE  ~CursorLeq(wire'[m], wire'[i])
    <3>1. i \in 1..W BY <2>8
    <3>2. CASE m \in 1..W
      <4>1. wire'[i] = wire[i] /\ wire'[m] = wire[m] BY <3>1, <3>2, <2>2
      <4> QED BY <4>1, <3>1, <3>2, <2>1, <2>8, <1>1
    <3>3. CASE m = W + 1
      <4>1. wire'[i] = wire[i] /\ wire[i].stream = s BY <3>1, <3>3, <2>2, <2>5, <2>8
      <4>2. PICK j \in 1..z : wire[i] = given[s][j]
        BY <4>1, <3>1, <1>1, <2>1, <2>3
      <4>3. j \in 1..Len(given[s]) /\ ~(z + 1 <= j)
        <5>1. Len(given[s]) \in Nat BY Lengths
        <5> QED BY <5>1, <2>4
      <4>4. ~CursorLeq(given[s][z + 1], given[s][j]) BY <4>3, <2>4, CursorOrder DEF Inv
      <4> QED BY <4>1, <4>2, <4>4, <3>3, <2>4
    <3> QED BY <3>2, <3>3
  <2>9. Up(wire') BY <2>2, <2>8
  <2> QED BY <2>2, <2>7, <2>9, <1>2
<1>9. CASE ClientReceives
  <2>1. /\ Len(wire) \in Nat \ {0} /\ Len(wire') = Len(wire) - 1
        /\ \A i \in 1..Len(wire') : wire'[i] = wire[i + 1]
        /\ given' = given /\ writer' = writer
    BY <1>9, ReceiveEffect DEF Inv
  <2>2. \A r \in Streams : Sent(r)' = Sent(r) BY <2>1 DEF Sent
  <2>3. \A i \in 1..Len(wire') : i + 1 \in 1..Len(wire) BY <2>1
  <2>4. ASSUME NEW i \in 1..Len(wire')
        PROVE  \E r \in Streams : \E j \in 1..(Sent(r)') :
                  wire'[i].stream = r /\ wire'[i] = given'[r][j]
    <3>1. wire'[i] = wire[i + 1] /\ i + 1 \in 1..Len(wire) BY <2>1, <2>3
    <3>2. PICK r \in Streams : r = wire[i + 1].stream BY <3>1, WireStreams
    <3>3. PICK j \in 1..Sent(r) : wire[i + 1] = given[r][j] BY <3>1, <3>2, <1>1
    <3> QED BY <3>1, <3>2, <3>3, <2>1, <2>2
  <2>5. ASSUME NEW i \in 1..Len(wire'), NEW m \in 1..Len(wire'), i < m,
               wire'[i].stream = wire'[m].stream
        PROVE  ~CursorLeq(wire'[m], wire'[i])
    <3>1. i + 1 \in 1..Len(wire) /\ m + 1 \in 1..Len(wire) /\ i + 1 < m + 1
      BY <2>1, <2>3, <2>5
    <3>2. wire'[i] = wire[i + 1] /\ wire'[m] = wire[m + 1] BY <2>1
    <3> QED BY <3>1, <3>2, <2>5, <1>1
  <2>6. Up(wire') BY <2>5
  <2> QED BY <2>4, <2>6, <1>2
<1>10. [Next]_vars => \/ UNCHANGED <<wire, writer, given>>
                      \/ Connect \/ LoseWebsocket \/ WriterStops
                      \/ TakeMessage \/ ClientReceives
                      \/ \E s \in Streams : WriteEnvelope(s)
  BY DEF Next, QueueMessage, LoseMessage, ReaderAck, ClientAcks, vars
<1> QED BY <1>4, <1>6, <1>7, <1>8, <1>9, <1>10

\* Nothing between what the client has and what is still to be written is
\* missing on the wire.
LEMMA CompleteStep ==
    ASSUME Inv, [Next]_vars
    PROVE  WireComplete'
<1>1. ASSUME NEW r \in Streams, NEW j \in (Len(got[r]) + 1)..Sent(r), conn
      PROVE  \E i \in 1..Len(wire) : wire[i] = given[r][j]
  BY <1>1 DEF Inv, WireComplete
<1>2. ASSUME conn' => \A r \in Streams : \A j \in (Len(got'[r]) + 1)..(Sent(r)') :
                         \E i \in 1..Len(wire') : wire'[i] = given'[r][j]
      PROVE  WireComplete'
  BY <1>2 DEF WireComplete, Sent
<1>3. \A r \in Streams : /\ Sent(r) \in Nat /\ Len(got[r]) \in Nat
                         /\ Sent(r) <= Len(given[r]) /\ Len(given[r]) \in Nat
  BY Lengths
<1>4. CASE UNCHANGED <<conn, wire, writer, given, got>>
  <2>1. \A r \in Streams : Sent(r)' = Sent(r) BY <1>4 DEF Sent
  <2> QED BY <2>1, <1>1, <1>2, <1>4
<1>5. CASE LoseWebsocket \/ WriterStops
  <2>1. ~conn' BY <1>5, LoseEffect, StopEffect DEF Inv
  <2> QED BY <2>1, <1>2
<1>6. CASE Connect
  <2>1. writer'.out = buffer /\ given' = given /\ got' = got
    BY <1>6, ConnectEffect DEF Inv
  <2>2. ASSUME NEW r \in Streams, NEW j \in (Len(got'[r]) + 1)..(Sent(r)')
        PROVE  FALSE
    <3>1. Sent(r)' = Len(given[r]) - Len(buffer[r]) BY <2>1 DEF Sent
    <3>2. PICK L \in Nat, b \in Nat, g \in Nat :
            L = Len(given[r]) /\ b = Len(buffer[r]) /\ g = Len(got[r])
      BY Lengths
    <3>3. L - b <= g BY <3>2, Lengths
    <3>4. j \in (g + 1)..(L - b) BY <2>1, <3>1, <3>2
    <3> QED BY <3>3, <3>4
  <2> QED BY <2>2, <1>2
<1>7. CASE TakeMessage
  <2>1. wire' = wire /\ got' = got /\ conn' = conn BY <1>7 DEF TakeMessage
  <2>2. \A r \in Streams : Sent(r)' = Sent(r) BY <1>7, SentAfterTake
  <2>3. ASSUME conn, NEW r \in Streams, NEW j \in (Len(got[r]) + 1)..Sent(r)
        PROVE  \E i \in 1..Len(wire) : wire[i] = given'[r][j]
    <3>1. j \in 1..Len(given[r]) BY <1>3
    <3>2. given'[r][j] = given[r][j] BY <3>1, Grows
    <3> QED BY <3>2, <2>3, <1>1
  <2> QED BY <2>1, <2>2, <2>3, <1>2
<1>8. ASSUME NEW s \in Streams, WriteEnvelope(s) PROVE WireComplete'
  <2>1. PICK W \in Nat : W = Len(wire) BY WireStreams
  <2>2. /\ Len(wire') = W + 1 /\ given' = given /\ got' = got /\ conn
        /\ \A i \in 1..W : wire'[i] = wire[i]
    BY <1>8, <2>1, WriteEffect DEF Inv
  <2>3. PICK z \in Nat : z = Sent(s) BY <1>8, WritesNext
  <2>4. /\ Sent(s)' = z + 1 /\ wire'[W + 1] = given[s][z + 1]
        /\ \A r \in Streams : r # s => Sent(r)' = Sent(r)
    BY <1>8, <2>1, <2>3, WritesNext
  <2>5. ASSUME NEW r \in Streams, NEW j \in (Len(got[r]) + 1)..Sent(r)
        PROVE  \E i \in 1..(W + 1) : wire'[i] = given[r][j]
    <3>1. PICK i \in 1..W : wire[i] = given[r][j] BY <2>1, <2>2, <1>1
    <3>2. i \in 1..(W + 1) OBVIOUS
    <3> QED BY <3>1, <3>2, <2>2
  <2>6. ASSUME NEW r \in Streams, NEW j \in (Len(got[r]) + 1)..(Sent(r)')
        PROVE  \E i \in 1..(W + 1) : wire'[i] = given[r][j]
    <3>1. CASE r = s /\ j = z + 1
      <4>1. W + 1 \in 1..(W + 1) OBVIOUS
      <4> QED BY <3>1, <4>1, <2>4
    <3>2. CASE r = s /\ j # z + 1
      <4>1. j \in (Len(got[r]) + 1)..(z + 1) BY <3>2, <2>4
      <4>2. j \in (Len(got[r]) + 1)..z BY <3>2, <4>1, <1>3
      <4> QED BY <4>2, <3>2, <2>3, <2>5
    <3>3. CASE r # s BY <3>3, <2>4, <2>5
    <3> QED BY <3>1, <3>2, <3>3
  <2> QED BY <2>2, <2>6, <1>2
<1>9. CASE ClientReceives
  <2>1. PICK s \in Streams :
          /\ Len(wire) \in Nat \ {0} /\ wire[1].stream = s
          /\ Len(wire') = Len(wire) - 1
          /\ \A i \in 1..Len(wire') : wire'[i] = wire[i + 1]
          /\ \/ /\ got' = got /\ got[s] # <<>> /\ CursorLeq(wire[1], got[s][Len(got[s])])
             \/ /\ ~(got[s] # <<>> /\ CursorLeq(wire[1], got[s][Len(got[s])]))
                /\ Len(got'[s]) = Len(got[s]) + 1
                /\ \A r \in Streams : r # s => got'[r] = got[r]
          /\ given' = given /\ writer' = writer /\ conn' = conn
    BY <1>9, ReceiveEffect DEF Inv
  <2>2. \A r \in Streams : Sent(r)' = Sent(r) BY <2>1 DEF Sent
  <2>3. ASSUME NEW r \in Streams, NEW j \in (Len(got'[r]) + 1)..Sent(r)
        PROVE  j \in (Len(got[r]) + 1)..Sent(r) /\ wire[1] # given[r][j]
    <3>0. Len(got'[r]) \in Nat /\ Len(got[r]) <= Len(got'[r]) BY Grows
    <3>1. j \in (Len(got[r]) + 1)..Sent(r) /\ j \in 1..Len(given[r]) BY <3>0, <1>3
    <3>2. CASE r # s
      <4>1. given[r][j].stream = r BY <3>1 DEF Inv, GivenInOrder
      <4> QED BY <3>1, <3>2, <4>1, <2>1
    <3>3. CASE r = s /\ got' = got /\ got[s] # <<>> /\ CursorLeq(wire[1], got[s][Len(got[s])])
      <4>1. PICK g \in Nat : g = Len(got[s]) BY <1>3
      <4>2. got[s] \in Seq(Envelopes) BY DEF Inv, TypeOK
      <4>3. g # 0 BY <3>3, <4>1, <4>2
      <4>4. g \in 1..Len(got[s]) /\ g \in 1..Len(given[s])
        <5>1. g <= Len(given[s]) BY <4>1, Lengths
        <5> QED BY <5>1, <4>1, <4>3, <1>3
      <4>5. got[s][g] = given[s][g] BY <4>4 DEF Inv, BufferHoldsRest
      <4>6. wire[1] = given[s][j] => j <= g
        <5>1. wire[1] = given[s][j] => CursorLeq(given[s][j], given[s][g])
          BY <3>3, <4>1, <4>5
        <5>2. j \in 1..Len(given[s]) BY <3>1, <3>3
        <5> QED BY <5>1, <5>2, <4>4, CursorOrder DEF Inv
      <4>7. ~(j <= g)
        <5>1. j \in (g + 1)..Sent(s) BY <3>1, <3>3, <4>1
        <5> QED BY <5>1, <1>3
      <4> QED BY <3>1, <3>3, <4>6, <4>7
    <3>4. CASE /\ r = s /\ ~(got[s] # <<>> /\ CursorLeq(wire[1], got[s][Len(got[s])]))
               /\ Len(got'[s]) = Len(got[s]) + 1
      <4>1. PICK g \in Nat : g = Len(got[s]) BY <1>3
      <4>2. g < Len(given[s]) /\ wire[1] = given[s][g + 1]
        BY <2>1, <3>4, <4>1, AcceptsNext
      <4>3. g + 1 \in 1..Len(given[s]) BY <4>2, <1>3
      <4>4. wire[1] = given[s][j] => g + 1 = j
        <5>1. j \in 1..Len(given[s]) BY <3>1, <3>4
        <5> QED BY <5>1, <4>2, <4>3, CursorOrder DEF Inv
      <4>5. g + 1 # j
        <5>1. j \in ((g + 1) + 1)..Sent(s) BY <3>4, <4>1
        <5> QED BY <5>1, <1>3
      <4> QED BY <3>1, <3>4, <4>4, <4>5
    <3> QED BY <3>2, <3>3, <3>4, <2>1
  <2>4. ASSUME conn, NEW r \in Streams, NEW j \in (Len(got'[r]) + 1)..Sent(r)
        PROVE  \E i \in 1..Len(wire') : wire'[i] = given[r][j]
    <3>1. j \in (Len(got[r]) + 1)..Sent(r) /\ wire[1] # given[r][j] BY <2>3
    <3>2. PICK i \in 1..Len(wire) : wire[i] = given[r][j] BY <2>4, <3>1, <1>1
    <3>3. i # 1 BY <3>1, <3>2
    <3>4. i - 1 \in 1..Len(wire') /\ (i - 1) + 1 = i BY <3>3, <2>1
    <3>5. wire'[i - 1] = wire[i] BY <3>4, <2>1
    <3> QED BY <3>2, <3>4, <3>5
  <2> QED BY <2>1, <2>2, <2>4, <1>2
<1>10. [Next]_vars => \/ UNCHANGED <<conn, wire, writer, given, got>>
                      \/ Connect \/ LoseWebsocket \/ WriterStops
                      \/ TakeMessage \/ ClientReceives
                      \/ \E s \in Streams : WriteEnvelope(s)
  BY DEF Next, QueueMessage, LoseMessage, ReaderAck, ClientAcks, vars
<1> QED BY <1>4, <1>5, <1>6, <1>7, <1>8, <1>9, <1>10

\* Acknowledgements stay true.
LEMMA AcksStep ==
    ASSUME Inv, [Next]_vars
    PROVE  AcksAreHad'
<1>1. ASSUME \A i \in 1..Len(acks') : \E r \in Streams : \E m \in 1..Len(got[r]) :
                acks'[i].stream = r /\ acks'[i] = given[r][m]
      PROVE  AcksAreHad'
  <2>1. ASSUME NEW i \in 1..Len(acks')
        PROVE  \E m \in 1..Len(got'[acks'[i].stream]) : acks'[i] = given'[acks'[i].stream][m]
    <3>1. PICK r \in Streams : \E m \in 1..Len(got[r]) :
                acks'[i].stream = r /\ acks'[i] = given[r][m]
      BY <1>1
    <3>2. PICK m \in 1..Len(got[r]) : acks'[i].stream = r /\ acks'[i] = given[r][m]
      BY <3>1
    <3>3. /\ Len(got[r]) \in Nat /\ Len(got'[r]) \in Nat /\ Len(got[r]) <= Len(got'[r])
          /\ Len(got[r]) <= Len(given[r]) /\ Len(given[r]) \in Nat
      BY Lengths, Grows
    <3>4. m \in 1..Len(got'[r]) /\ m \in 1..Len(given[r]) BY <3>3
    <3>5. given'[r][m] = given[r][m] BY <3>4, Grows
    <3> QED BY <3>2, <3>4, <3>5
  <2> QED BY <2>1 DEF AcksAreHad
<1>2. ASSUME NEW i \in 1..Len(acks)
      PROVE  \E r \in Streams : \E m \in 1..Len(got[r]) :
                acks[i].stream = r /\ acks[i] = given[r][m]
  <2>1. PICK r \in Streams : r = acks[i].stream BY WireStreams
  <2> QED BY <2>1 DEF Inv, AcksAreHad
<1>3. CASE acks' = acks BY <1>1, <1>2, <1>3
<1>4. CASE LoseWebsocket
  <2>1. acks' = <<>> BY <1>4, LoseEffect DEF Inv
  <2>2. Len(acks') = 0 BY <2>1
  <2> QED BY <2>2, <1>1
<1>5. CASE ReaderAck
  <2>1. /\ Len(acks) \in Nat \ {0} /\ Len(acks') = Len(acks) - 1
        /\ \A i \in 1..Len(acks') : acks'[i] = acks[i + 1]
    BY <1>5, ReaderEffect DEF Inv
  <2>2. \A i \in 1..Len(acks') : i + 1 \in 1..Len(acks) BY <2>1
  <2>3. ASSUME NEW i \in 1..Len(acks')
        PROVE  \E r \in Streams : \E m \in 1..Len(got[r]) :
                  acks'[i].stream = r /\ acks'[i] = given[r][m]
    <3>1. acks'[i] = acks[i + 1] /\ i + 1 \in 1..Len(acks) BY <2>1, <2>2
    <3>2. PICK r \in Streams : \E m \in 1..Len(got[r]) :
                acks[i + 1].stream = r /\ acks[i + 1] = given[r][m]
      BY <3>1, <1>2
    <3> QED BY <3>1, <3>2
  <2> QED BY <2>3, <1>1
<1>6. ASSUME NEW s \in Streams, ClientAcks(s) PROVE AcksAreHad'
  <2>1. PICK A \in Nat : A = Len(acks) BY WireStreams
  <2>2. PICK g \in Nat \ {0} : g = Len(got[s]) BY <1>6, AckEffect DEF Inv
  <2>3. /\ Len(acks') = A + 1 /\ acks'[A + 1] = got[s][g]
        /\ \A i \in 1..A : acks'[i] = acks[i]
    BY <1>6, <2>1, <2>2, AckEffect DEF Inv
  <2>4. g \in 1..Len(got[s]) /\ g \in 1..Len(given[s])
    <3>1. g <= Len(given[s]) /\ Len(given[s]) \in Nat BY <2>2, Lengths
    <3> QED BY <3>1, <2>2
  <2>5. got[s][g] = given[s][g] /\ given[s][g].stream = s
    BY <2>4 DEF Inv, BufferHoldsRest, GivenInOrder
  <2>6. ASSUME NEW i \in 1..(A + 1)
        PROVE  \E r \in Streams : \E m \in 1..Len(got[r]) :
                  acks'[i].stream = r /\ acks'[i] = given[r][m]
    <3>1. CASE i \in 1..A BY <3>1, <1>2, <2>1, <2>3
    <3>2. CASE i = A + 1 BY <3>2, <2>3, <2>4, <2>5
    <3> QED BY <3>1, <3>2
  <2> QED BY <2>3, <2>6, <1>1
<1>7. [Next]_vars => \/ acks' = acks \/ LoseWebsocket \/ ReaderAck
                     \/ \E s \in Streams : ClientAcks(s)
  BY DEF Next, QueueMessage, LoseMessage, Connect, WriterStops, TakeMessage, WriteEnvelope,
         ClientReceives, vars
<1> QED BY <1>3, <1>4, <1>5, <1>6, <1>7

\* The usage counter follows the buffer.
LEMMA UsageStep ==
    ASSUME Inv, [Next]_vars
    PROVE  UsageInv'
<1>1. /\ used = Cardinality(SlotsOf(buffer, Streams)) /\ used < Capacity + MaxSize
      /\ used \in Nat
  BY DEF Inv, UsageInv, Buffered, Slots, SlotsOf, TypeOK
<1>2. TypeOK' BY TypesStep
<1>3. \A r \in Streams : Len(buffer[r]) \in Nat /\ Len(buffer'[r]) \in Nat
  <2>1. \A r \in Streams : buffer[r] \in Seq(Envelopes) /\ buffer'[r] \in Seq(Envelopes)
    BY <1>2 DEF Inv, TypeOK
  <2> QED BY <2>1, Elements
<1>4. IsFiniteSet(SlotsOf(buffer', Streams)) BY <1>3, SlotsFinite, OutboundAssumption
<1>5. ASSUME used' = Cardinality(SlotsOf(buffer', Streams)), used' < Capacity + MaxSize
      PROVE  UsageInv'
  BY <1>4, <1>5 DEF UsageInv, Buffered, Slots, SlotsOf
<1>6. MaxSize \in Sizes /\ \A m \in Sizes : m <= MaxSize
  BY OutboundAssumption DEF MaxSize
<1>7. MaxSize \in Nat BY <1>6, OutboundAssumption
<1>8. CASE UNCHANGED <<used, buffer>> BY <1>1, <1>5, <1>8
<1>9. CASE TakeMessage
  <2>1. PICK s \in Streams, n \in Sizes, k \in 1..MaxMessages :
          /\ n \in Nat /\ used < Capacity /\ used' = used + n
          /\ Extended(buffer, buffer', s, k, n)
    BY <1>9, TakeEffect DEF Inv
  <2>2. /\ \A r \in Streams : r # s => buffer'[r] = buffer[r]
        /\ Len(buffer'[s]) = Len(buffer[s]) + n
    BY <2>1 DEF Extended
  <2>3. Cardinality(SlotsOf(buffer', Streams)) = (used - Len(buffer[s])) + Len(buffer'[s])
    BY <1>1, <1>3, <2>2, SlotsChange
  <2>4. used' = Cardinality(SlotsOf(buffer', Streams))
    <3>1. PICK b \in Nat : b = Len(buffer[s]) BY <1>3
    <3>2. (used - b) + (b + n) = used + n BY <1>1, <2>1
    <3> QED BY <2>1, <2>2, <2>3, <3>1, <3>2
  <2>5. used' < Capacity + MaxSize
    <3>1. n <= MaxSize BY <1>6
    <3> QED BY <3>1, <1>1, <1>7, <2>1, OutboundAssumption
  <2> QED BY <2>4, <2>5, <1>5
<1>10. CASE ReaderAck
  <2>1. PICK s \in Streams : \E d \in 0..Len(buffer[s]) :
          /\ d \in Nat /\ Len(buffer'[s]) = Len(buffer[s]) - d
          /\ \A r \in Streams : r # s => buffer'[r] = buffer[r]
          /\ used' = used - d
    BY <1>10, ReaderEffect DEF Inv
  <2>2. PICK d \in Nat :
          /\ Len(buffer'[s]) = Len(buffer[s]) - d
          /\ \A r \in Streams : r # s => buffer'[r] = buffer[r]
          /\ used' = used - d
    BY <2>1
  <2>3. Cardinality(SlotsOf(buffer', Streams)) = (used - Len(buffer[s])) + Len(buffer'[s])
    BY <1>1, <1>3, <2>2, SlotsChange
  <2>4. used' = Cardinality(SlotsOf(buffer', Streams))
    <3>1. PICK b \in Nat : b = Len(buffer[s]) BY <1>3
    <3>2. (used - b) + (b - d) = used - d BY <1>1
    <3> QED BY <2>2, <2>3, <3>1, <3>2
  <2>5. used' < Capacity + MaxSize BY <1>1, <1>7, <2>2, OutboundAssumption
  <2> QED BY <2>4, <2>5, <1>5
<1>11. [Next]_vars => TakeMessage \/ ReaderAck \/ UNCHANGED <<used, buffer>>
  BY DEF Next, QueueMessage, LoseMessage, Connect, LoseWebsocket, WriterStops, WriteEnvelope,
         ClientReceives, ClientAcks, vars
<1> QED BY <1>8, <1>9, <1>10, <1>11

-----------------------------------------------------------------------------
(* The theorems.                                                           *)

\* The initial states.
LEMMA InvInit ==
    ASSUME Init
    PROVE  Inv
<1>1. TypeOK BY Initially
<1>2. /\ queue = <<>> /\ wire = <<>> /\ acks = <<>> /\ count = 0 /\ used = 0 /\ ~conn
      /\ writer.pc = "off" /\ writer.out = Nothing
      /\ buffer = Nothing /\ given = Nothing /\ got = Nothing
      /\ nextSeq = [s \in Streams |-> 1] /\ void = [s \in Streams |-> {}]
  BY DEF Init, Off
<1>3. \A s \in Streams : Nothing[s] = <<>> BY DEF Nothing
<1>4. Len(queue) = 0 /\ Len(wire) = 0 /\ Len(acks) = 0 BY <1>2
<1>5. \A s \in Streams :
        /\ Len(given[s]) = 0 /\ Len(got[s]) = 0 /\ Len(buffer[s]) = 0
        /\ Len(writer.out[s]) = 0 /\ given[s] = <<>>
  BY <1>2, <1>3
<1>6. NumbersBounded BY <1>2, <1>4 DEF NumbersBounded
<1>7. GivenInOrder BY <1>5 DEF GivenInOrder
<1>8. Numbered
  <2>1. ASSUME NEW s \in Streams
        PROVE  {given[s][i].seq : i \in DOMAIN given[s]} = {} /\ void[s] = {}
               /\ 1..(nextSeq[s] - 1) = {}
    <3>1. DOMAIN given[s] = {} BY <1>5
    <3>2. nextSeq[s] = 1 BY <1>2
    <3> QED BY <3>1, <3>2, <1>2
  <2> QED BY <2>1 DEF Numbered
<1>9. BufferHoldsRest
  <2>1. ASSUME NEW s \in Streams
        PROVE  /\ IsSuffix(buffer[s], given[s]) /\ Len(got[s]) <= Len(given[s])
               /\ \A i \in 1..Len(got[s]) : got[s][i] = given[s][i]
    <3>1. Len(given[s]) = 0 /\ Len(got[s]) = 0 /\ Len(buffer[s]) = 0 BY <1>5
    <3>2. IsSuffix(buffer[s], given[s]) BY <3>1 DEF IsSuffix
    <3>3. \A i \in 1..Len(got[s]) : got[s][i] = given[s][i] BY <3>1
    <3> QED BY <3>1, <3>2, <3>3
  <2>2. ASSUME NEW s \in Streams PROVE Gone(s) <= Len(got[s])
    <3>1. Gone(s) = 0 - 0 BY <1>5 DEF Gone
    <3> QED BY <3>1, <1>5
  <2> QED BY <2>1, <2>2 DEF BufferHoldsRest
<1>10. OutIsEnd BY <1>2, <1>3, <1>5 DEF OutIsEnd, IsSuffix
<1>11. WireInOrder BY <1>2, <1>4 DEF WireInOrder
<1>12. WireComplete BY <1>2 DEF WireComplete
<1>13. AcksAreHad BY <1>4 DEF AcksAreHad
<1>14. UsageInv
  <2>1. \A r \in Streams : {r} \X (1..Len(buffer[r])) = {} BY <1>5
  <2>2. Slots = {} BY <2>1 DEF Slots
  <2>3. IsFiniteSet(Slots) /\ Buffered = 0 BY <2>2, FS_EmptySet DEF Buffered
  <2>4. MaxSize \in Sizes BY OutboundAssumption DEF MaxSize
  <2>5. MaxSize \in Nat BY <2>4, OutboundAssumption
  <2>6. 0 < Capacity + MaxSize BY <2>5, OutboundAssumption
  <2> QED BY <2>3, <2>6, <1>2 DEF UsageInv
<1> QED BY <1>1, <1>6, <1>7, <1>8, <1>9, <1>10, <1>11, <1>12, <1>13, <1>14 DEF Inv

\* Every step preserves the invariant.
LEMMA InvNext ==
    ASSUME Inv, [Next]_vars
    PROVE  Inv'
BY TypesStep, OrderStep, NumberedStep, BufferStep, OutStep, WireStep, CompleteStep,
   AcksStep, UsageStep DEF Inv

\* What the run checks follows from the inductive invariant.
LEMMA InvImplies ==
    ASSUME Inv
    PROVE  BufferInv
<1>1. TypeOK /\ UsedIsBuffered BY DEF Inv, UsageInv, UsedIsBuffered
<1>2. SeqContiguous
  <2>1. ASSUME NEW s \in Streams, NEW i \in DOMAIN given[s], NEW j \in DOMAIN given[s], i <= j
        PROVE  CursorLeq(given[s][i], given[s][j])
    <3>1. given[s] \in Seq(Envelopes) BY DEF Inv, TypeOK
    <3>2. i \in 1..Len(given[s]) /\ j \in 1..Len(given[s]) BY <3>1
    <3> QED BY <3>2, <2>1, CursorOrder DEF Inv
  <2> QED BY <2>1 DEF Inv, Numbered, SeqContiguous
<1>3. UnreceivedIsBuffered
  <2>1. ASSUME NEW s \in Streams
        PROVE  IsSuffix(SubSeq(given[s], Len(got[s]) + 1, Len(given[s])), buffer[s])
    <3>1. PICK L \in Nat, b \in Nat, g \in Nat :
            L = Len(given[s]) /\ b = Len(buffer[s]) /\ g = Len(got[s])
      BY Lengths
    <3>2. g <= L /\ b <= L /\ L - b <= g BY <3>1, Lengths
    <3>3. PICK q \in Seq(Envelopes) : q = given[s] BY DEF Inv, TypeOK
    <3>4. /\ Len(SubSeq(q, g + 1, L)) = L - g
          /\ \A i \in 1..(L - g) : SubSeq(q, g + 1, L)[i] = q[g + i]
      <4>1. g + 1 \in 1..(Len(q) + 1) /\ L \in 0..Len(q) /\ g + 1 <= L + 1 BY <3>1, <3>2, <3>3
      <4>2. Len(SubSeq(q, g + 1, L)) = L - g BY <4>1
      <4>3. \A i \in 1..(L - g) : SubSeq(q, g + 1, L)[i] = q[(g + 1) + i - 1] BY <4>1
      <4>4. \A i \in 1..(L - g) : (g + 1) + i - 1 = g + i OBVIOUS
      <4> QED BY <4>2, <4>3, <4>4
    <3>5. \A i \in 1..b : buffer[s][i] = q[L - b + i]
      BY <3>1, <3>3 DEF Inv, BufferHoldsRest, IsSuffix
    <3>6. ASSUME NEW i \in 1..(L - g)
          PROVE  SubSeq(q, g + 1, L)[i] = buffer[s][b - (L - g) + i]
      <4>1. b - (L - g) + i \in 1..b /\ L - b + (b - (L - g) + i) = g + i BY <3>2
      <4> QED BY <4>1, <3>4, <3>5
    <3>7. L - g <= b BY <3>2
    <3> QED BY <3>1, <3>3, <3>4, <3>6, <3>7 DEF IsSuffix
  <2> QED BY <2>1 DEF UnreceivedIsBuffered
<1> QED BY <1>1, <1>2, <1>3 DEF BufferInv

\* Buffer, usage counter and sequence ids agree with what the client still
\* lacks (BoundedOutboundBuffer.insert and .ack, run_server_writer_inner),
\* for any streams, message sizes, capacity, messages and lost websockets.
THEOREM BufferAgrees == Spec => []BufferInv
<1>1. Init => Inv BY InvInit
<1>2. Inv /\ [Next]_vars => Inv' BY InvNext
<1>3. Inv => BufferInv BY InvImplies
<1> QED BY <1>1, <1>2, <1>3, PTL DEF Spec

\* A step of the websocket gives out envelopes, or a client accepts its next
\* one, or neither.
LEMMA StepIsPromised ==
    ASSUME Inv, [Next]_vars
    PROVE  [Promise!Next]_(Promise!vars)
<1>1. CASE UNCHANGED <<given, got>> BY <1>1 DEF Promise!vars
<1>2. CASE TakeMessage
  <2>1. PICK s \in Streams, n \in Sizes, k \in 1..MaxMessages :
          /\ n \in Nat /\ got' = got /\ given' \in [Streams -> Seq(Envelopes)]
          /\ Extended(given, given', s, k, n)
    BY <1>2, TakeEffect DEF Inv
  <2>2. given \in [Streams -> Seq(Envelopes)] BY DEF Inv, TypeOK
  <2>3. PICK q \in Seq(Envelopes), t \in Seq(Envelopes) : q = given[s] /\ t = given'[s]
    BY <2>1, <2>2
  <2>4. Len(q) \in Nat /\ Len(t) = Len(q) + n /\ \A i \in 1..Len(q) : t[i] = q[i]
    BY <2>1, <2>3 DEF Extended
  <2>5. /\ SubSeq(t, Len(q) + 1, Len(t)) \in Seq(Envelopes)
        /\ t = q \o SubSeq(t, Len(q) + 1, Len(t))
    <3>1. SubSeq(t, Len(q) + 1, Len(t)) \in Seq(Envelopes)
          /\ Len(SubSeq(t, Len(q) + 1, Len(t))) = n
          /\ \A i \in 1..n : SubSeq(t, Len(q) + 1, Len(t))[i] = t[Len(q) + i]
      BY <2>1, <2>4
    <3>2. PICK u \in Seq(Envelopes) : u = SubSeq(t, Len(q) + 1, Len(t)) BY <3>1
    <3>3. Len(u) = n /\ \A i \in 1..n : u[i] = t[Len(q) + i] BY <3>1, <3>2
    <3>4. /\ q \o u \in Seq(Envelopes)
          /\ Len(q \o u) = Len(q) + n
          /\ \A i \in 1..Len(q) : (q \o u)[i] = q[i]
          /\ \A i \in 1..n : (q \o u)[Len(q) + i] = u[i]
      <4>1. /\ q \o u \in Seq(Envelopes)
            /\ Len(q \o u) = Len(q) + Len(u)
            /\ \A i \in 1..Len(q) : (q \o u)[i] = q[i]
            /\ \A i \in 1..Len(u) : (q \o u)[Len(q) + i] = u[i]
        BY Joined
      <4> QED BY <4>1, <3>3
    <3>5. ASSUME NEW i \in 1..Len(t) PROVE (q \o u)[i] = t[i]
      <4>1. CASE i <= Len(q)
        <5>1. i \in 1..Len(q) BY <4>1, <2>4
        <5> QED BY <5>1, <3>4, <2>4
      <4>2. CASE ~(i <= Len(q))
        <5>1. PICK x \in 1..n : i = Len(q) + x
          <6>1. i - Len(q) \in 1..n /\ i = Len(q) + (i - Len(q)) BY <4>2, <2>1, <2>4
          <6> QED BY <6>1
        <5> QED BY <5>1, <3>3, <3>4
      <4> QED BY <4>1, <4>2
    <3>6. PICK w \in Seq(Envelopes) : w = q \o u BY <3>4
    <3>7. w = t
      <4>1. Len(w) = Len(t) /\ \A i \in 1..Len(t) : w[i] = t[i] BY <3>4, <3>5, <3>6, <2>4
      <4> QED BY <4>1
    <3> QED BY <3>1, <3>2, <3>6, <3>7
  <2>6. given' = [given EXCEPT ![s] = t]
    BY <2>1, <2>2, <2>3 DEF Extended
  <2>7. Promise!Give(s, SubSeq(given'[s], Len(given[s]) + 1, Len(given'[s])))
    BY <2>1, <2>3, <2>5, <2>6 DEF Promise!Give
  <2> QED BY <2>7 DEF Promise!Next
<1>3. CASE ClientReceives
  <2>1. PICK s \in Streams :
          /\ Len(wire) \in Nat \ {0} /\ wire[1].stream = s
          /\ \/ got' = got
             \/ /\ ~(got[s] # <<>> /\ CursorLeq(wire[1], got[s][Len(got[s])]))
                /\ got' = [got EXCEPT ![s] = Append(got[s], wire[1])]
          /\ given' = given
    BY <1>3, ReceiveEffect DEF Inv
  <2>2. CASE got' = got BY <2>1, <2>2, <1>1
  <2>3. CASE /\ ~(got[s] # <<>> /\ CursorLeq(wire[1], got[s][Len(got[s])]))
             /\ got' = [got EXCEPT ![s] = Append(got[s], wire[1])]
    <3>1. Len(got[s]) < Len(given[s]) /\ wire[1] = given[s][Len(got[s]) + 1]
      BY <2>1, <2>3, AcceptsNext
    <3>2. Promise!Accept(s) BY <2>1, <2>3, <3>1 DEF Promise!Accept
    <3> QED BY <3>2 DEF Promise!Next
  <2> QED BY <2>1, <2>2, <2>3
<1>4. [Next]_vars => TakeMessage \/ ClientReceives \/ UNCHANGED <<given, got>>
  BY DEF Next, QueueMessage, LoseMessage, Connect, LoseWebsocket, WriterStops, WriteEnvelope,
         ClientAcks, ReaderAck, vars
<1> QED BY <1>1, <1>2, <1>3, <1>4

\* The client of each stream gets its envelopes once and in the order they
\* were numbered, with nothing in between left out, whatever is lost and
\* replayed: the safety part of ImplementsReliableStreams.
THEOREM StreamsAreReliable == Spec => Promise!SafeSpec
<1>1. Init => Inv BY InvInit
<1>2. Inv /\ [Next]_vars => Inv' BY InvNext
<1>3. Init => Promise!Init BY DEF Init, Nothing, Promise!Init
<1>4. Inv /\ [Next]_vars => [Promise!Next]_(Promise!vars) BY StepIsPromised
<1> QED BY <1>1, <1>2, <1>3, <1>4, PTL DEF Spec, Promise!SafeSpec
=============================================================================
