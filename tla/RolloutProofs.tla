----------------------------- MODULE RolloutProofs -----------------------------
(***************************************************************************)
(* RecorderInv, FlushedIsOnDisk and MetadataInv for any number of callers, *)
(* items, faults and crashes, and any capacity of the channel; then        *)
(* RolloutInv and ReadersServed for any number of workers, appenders and   *)
(* readers, as long as no appender creates a file that is missing.  The    *)
(* marker is no part of that argument: two workers that both find it stale *)
(* run at the same time, and the history survives all the same.            *)
(***************************************************************************)
EXTENDS RolloutRecorder, RolloutCompression, FiniteSetTheorems, SequenceTheorems, TLAPS

Kinds == {"none", "add", "flush", "persist", "shutdown"}
Commands == [kind : Kinds, item : 0..MaxItems, from : Callers \cup {NoCommand.from},
             upto : 0..MaxItems]
Disks == [exists : BOOLEAN, lines : Seq((-(MaxItems + 1))..MaxItems), torn : BOOLEAN]
WriterPcs == {"recv", "open", "meta", "item", "ack", "ended"}
WriterRecs == [pc : WriterPcs, open : BOOLEAN, deferred : BOOLEAN, meta : BOOLEAN,
               pending : Seq(Items), written : Nat, attempt : {1, 2}, ok : BOOLEAN,
               cmd : Commands]
Ops == {"none", "append", "flush", "persist", "shutdown", "memory", "update", "reconcile"}
Facts == {0} \cup Items
CallRecs == [op : Ops, pc : CallPcs, item : 0..MaxItems, patch : SUBSET Facts, gen : Nat,
             row : SUBSET Facts]
SyncRecs == [pending : SUBSET Facts, gen : Nat \ {0}, held : BOOLEAN, created : BOOLEAN,
             touched : BOOLEAN]

----------------------------------------------------------------------------
(* The inductive invariant. *)

\* The types of the state, more finely than in TypeOK.
Types ==
    /\ disk \in Disks
    /\ w \in WriterRecs /\ w.written <= Len(w.pending)
    /\ chan \in Seq(Commands) /\ Len(chan) <= Capacity
    /\ live \in BOOLEAN
    /\ call \in [Callers -> CallRecs]
    /\ sync \in SyncRecs
    /\ db \subseteq Facts \cup {Mode}
    /\ UNION {acked, lost, direct, dropped, seen} \subseteq Facts
    /\ sent \in 0..MaxItems /\ faults \in 0..MaxFaults

\* Items with a line of their own, spoilt or not.
InFile == {Index(disk.lines[k]) : k \in 1..Len(disk.lines)}

\* What is still to be written, and the items in the channel, by their places.
Left == Len(w.pending) - w.written
Todo(k) == w.pending[w.written + k]
Adds == {j \in 1..Len(chan) : chan[j].kind = "add"}
Barriers == {j \in 1..Len(chan) : chan[j].kind # "add"}

\* The writer's command, while it works on one that somebody waits for.
Serving == w.pc \in {"open", "meta", "item", "ack"} /\ w.cmd.kind # "add"

\* Every accepted item is somewhere.
TodoSet == {Todo(k) : k \in 1..Left}
AddSet == {chan[j].item : j \in Adds}
Conserved == 1..sent = lost \cup (InFile \cap Items) \cup TodoSet \cup AddSet

\* The lines that the writer wrote.
Recorded == {k \in 1..Len(disk.lines) : Index(disk.lines[k]) \notin direct}

\* File, queue and channel hold the items in the order they were sent in.
Ordered ==
    /\ \A i, k \in Recorded : i < k => Index(disk.lines[i]) < Index(disk.lines[k])
    /\ \A i \in Recorded, k \in 1..Left : Index(disk.lines[i]) < Todo(k)
    /\ \A i \in Recorded, j \in Adds : Index(disk.lines[i]) < chan[j].item
    /\ \A i, k \in 1..Left : i < k => Todo(i) < Todo(k)
    /\ \A k \in 1..Left, j \in Adds : Todo(k) < chan[j].item
    /\ \A i, j \in Adds : i < j => chan[i].item < chan[j].item
    /\ direct \subseteq 1..sent
    /\ \A k \in 1..Left : Todo(k) \notin direct
    /\ \A j \in Adds : chan[j].item \notin direct

\* The session meta comes first.
MetaFirst ==
    /\ \A k \in 1..Len(disk.lines) : \E j \in 1..k : Index(disk.lines[j]) = MetaLine
    /\ w.pc # "ended" => (w.meta <=> Len(disk.lines) = 0)

\* A write that is to be confirmed has emptied the queue; only a deferred file
\* lets a command go by.
WriterInv ==
    /\ w.pc = "ended" => w.pending = <<>> /\ chan = <<>>
    /\ w.pc = "item" => ~w.meta
    /\ w.pc = "ack" /\ w.ok => w.cmd.kind = "add" \/ w.pending = <<>>
    /\ w.pc = "ack" /\ w.ok /\ w.cmd.kind = "persist" => ~w.meta
    /\ w.pc \in {"recv", "open", "meta", "ack"} => w.written = 0

\* Behind a barrier there are only items it does not cover.
BarriersCover ==
    /\ \A i \in Barriers, j \in Adds : i < j => chan[i].upto < chan[j].item
    /\ Serving => \A j \in Adds : w.cmd.upto < chan[j].item
    /\ \A i \in Barriers : chan[i].upto <= sent
    /\ Serving => w.cmd.upto <= sent

\* A command is a caller's that waits for it and for no other.
Waits(cmd) ==
    /\ cmd.from \in Callers /\ cmd.kind # "none"
    /\ call[cmd.from].pc = "wait" /\ cmd.kind = BarrierOf(call[cmd.from].op)
    /\ call[cmd.from].op = "append" => call[cmd.from].item <= cmd.upto

\* A caller waits for one barrier at a time.
OneBarrierEach ==
    /\ \A j \in Barriers : Waits(chan[j])
    /\ \A i, j \in Barriers : i # j => chan[i].from # chan[j].from
    /\ Serving => Waits(w.cmd)
    /\ Serving => \A j \in Barriers : chan[j].from # w.cmd.from

\* Where a caller may be, by what it does.
CallerInv ==
    /\ \A c \in Callers : call[c].pc = "idle" <=> call[c] = Idle
    /\ \A c \in Callers : call[c].op = "none" => call[c].pc = "idle"
    /\ \A c \in Callers : call[c].pc = "direct" => call[c].op = "update"
    /\ \A c \in Callers : call[c].op = "reconcile" => call[c].pc \in {"reload", "reconcile"}
    /\ \A c \in Callers : call[c].pc \in {"add", "observe"} => call[c].op = "append"
    /\ \A c \in Callers : call[c].op = "append" /\ call[c].pc \in {"barrier", "wait"} =>
          call[c].item >= 1 /\ call[c].item <= sent /\ (w.pc = "ended" \/ call[c].item \notin lost)

\* The number of spoilt lines, counting the one that is coming.
Damage(d) == Cardinality(SpoiltLines(d)) + (IF d.torn THEN 1 ELSE 0)

\* What was confirmed is in the file, and a line is spoilt by a fault of its own.
Durable ==
    /\ acked \subseteq InFile
    /\ Damage(disk) <= faults

\* Room is kept for the items of the calls that are under way.
Room == sent + Cardinality(Appending) <= MaxItems

\* A caller that is at work on the row, with a patch or with the whole file.
Updating == {"apply", "write", "mark", "reload", "reconcile"}

\* What SQLite gets to know is in the file by then.
FactsInFile ==
    /\ db # {} => MetaLine \in InFile
    /\ db \subseteq InFile \cup {Mode}
    /\ sync.pending \subseteq InFile \cup {MetaLine}
    /\ ~sync.held => MetaLine \in InFile
    /\ \A c \in Callers : call[c].pc = "observe" => call[c].item \in InFile
    /\ \A c \in Callers : call[c].pc = "take" /\ call[c].op \notin {"flush", "shutdown"} =>
          MetaLine \in InFile
    /\ \A c \in Callers : call[c].pc \in Updating => MetaLine \in InFile
    /\ \A c \in Callers : call[c].pc \in {"apply", "write"} => call[c].patch \subseteq InFile
    /\ \A c \in Callers : call[c].pc \in {"write", "reconcile"} => call[c].row \subseteq InFile

\* A patch that was taken last covers all that is pending.
PatchesCover ==
    /\ \A c \in Callers : call[c].pc \in {"apply", "write", "mark"} =>
          call[c].gen <= sync.gen /\ (call[c].gen = sync.gen => sync.pending \subseteq call[c].patch)
    /\ \A c \in Callers : call[c].pc = "mark" => call[c].patch \subseteq db \cup dropped
    /\ FactsNotLost

FileInv == Conserved /\ Ordered /\ MetaFirst /\ WriterInv /\ Durable
CallsInv == BarriersCover /\ OneBarrierEach /\ CallerInv /\ Room
FactsInv == FactsInFile /\ PatchesCover

\* The inductive invariant.
Inv == Types /\ FileInv /\ CallsInv /\ FactsInv

----------------------------------------------------------------------------
(* The operators: what they make of the file, the writer and a caller. *)

\* What the assumptions on the constants say.
LEMMA Constants ==
    /\ MaxItems \in Nat /\ MaxFaults \in Nat /\ IsFiniteSet(Callers)
    /\ 0 \in 0..MaxItems /\ Items = 1..MaxItems /\ Facts = 0..MaxItems
BY RolloutAssumption DEF Items, Facts

\* A line stands for an item or for the session meta.
LEMMA IndexType ==
    ASSUME NEW l \in (-(MaxItems + 1))..MaxItems
    PROVE  Index(l) \in Facts
BY Constants DEF Index

\* The types of the file's lines.
LEMMA LineTypes ==
    ASSUME disk \in Disks
    PROVE  /\ disk.lines \in Seq((-(MaxItems + 1))..MaxItems)
           /\ Len(disk.lines) \in Nat /\ DOMAIN disk.lines = 1..Len(disk.lines)
           /\ \A k \in 1..Len(disk.lines) : /\ disk.lines[k] \in (-(MaxItems + 1))..MaxItems
                                            /\ Index(disk.lines[k]) \in Facts
           /\ InFile \subseteq Facts
<1>1. disk.lines \in Seq((-(MaxItems + 1))..MaxItems)
  BY DEF Disks
<1>2. /\ Len(disk.lines) \in Nat /\ DOMAIN disk.lines = 1..Len(disk.lines)
      /\ \A k \in 1..Len(disk.lines) : disk.lines[k] \in (-(MaxItems + 1))..MaxItems
  BY <1>1, LenProperties, ElementOfSeq
<1>. QED BY <1>1, <1>2, IndexType DEF InFile

\* Loaded or spoilt, a line is in the file.
LEMMA FileContents ==
    ASSUME disk \in Disks
    PROVE  LoadedLines(disk) \cup SpoiltLines(disk) = InFile
<1>. USE LineTypes, Constants
<1>1. ASSUME NEW x \in LoadedLines(disk) PROVE x \in InFile
  BY <1>1 DEF LoadedLines, InFile, Index
<1>2. ASSUME NEW x \in SpoiltLines(disk) PROVE x \in InFile
  <2>1. x \in Facts /\ \E k \in 1..Len(disk.lines) : disk.lines[k] = Spoilt(x)
    BY <1>2 DEF SpoiltLines, Range, MetaLine, Facts
  <2>2. Index(Spoilt(x)) = x
    BY <2>1 DEF Index, Spoilt
  <2>. QED BY <2>1, <2>2 DEF InFile
<1>3. ASSUME NEW k \in 1..Len(disk.lines)
      PROVE  Index(disk.lines[k]) \in LoadedLines(disk) \cup SpoiltLines(disk)
  <2>1. CASE disk.lines[k] < 0
    <3>1. Spoilt(Index(disk.lines[k])) = disk.lines[k]
      BY <2>1 DEF Index, Spoilt
    <3>. QED BY <3>1 DEF SpoiltLines, Range, MetaLine, Facts
  <2>2. CASE ~(disk.lines[k] < 0)
    BY <2>2 DEF LoadedLines, Index
  <2>. QED BY <2>1, <2>2
<1>. QED BY <1>1, <1>2, <1>3 DEF InFile

\* What can be loaded is in the file.
LEMMA LoadedInFile ==
    ASSUME disk \in Disks
    PROVE  LoadedLines(disk) \subseteq InFile
BY FileContents

\* The items the writer has not written.
LEMMA UnwrittenIs ==
    ASSUME w \in WriterRecs
    PROVE  Unwritten = TodoSet
<1>1. Len(w.pending) \in Nat /\ w.written \in Nat
  BY LenProperties DEF WriterRecs
<1>2. ASSUME NEW k \in (w.written + 1)..Len(w.pending)
      PROVE  k - w.written \in 1..Left /\ Todo(k - w.written) = w.pending[k]
  BY <1>1 DEF Left, Todo
<1>3. ASSUME NEW k \in 1..Left
      PROVE  w.written + k \in (w.written + 1)..Len(w.pending)
  BY <1>1 DEF Left
<1>. QED BY <1>2, <1>3 DEF Unwritten, Todo, TodoSet

\* The items in the channel.
LEMMA QueuedIs ==
    ASSUME chan \in Seq(Commands)
    PROVE  QueuedItems = AddSet
BY LenProperties DEF QueuedItems, Adds, AddSet

\* The file keeps its lines, or one for x comes after them.
SameLines == disk'.lines = disk.lines
AddsLine(x) ==
    /\ Len(disk'.lines) = Len(disk.lines) + 1
    /\ \A k \in 1..Len(disk.lines) : disk'.lines[k] = disk.lines[k]
    /\ Index(disk'.lines[Len(disk.lines) + 1]) = x

\* Finitely many lines are spoilt.
LEMMA SpoiltFinite ==
    ASSUME NEW d
    PROVE  IsFiniteSet(SpoiltLines(d)) /\ Cardinality(SpoiltLines(d)) \in Nat
<1>1. IsFiniteSet(0..MaxItems)
  BY FS_Interval, Constants
<1>2. SpoiltLines(d) \in SUBSET (0..MaxItems)
  BY Constants DEF SpoiltLines, MetaLine
<1>. QED BY <1>1, <1>2, FS_Subset, FS_CardinalityType

\* One line is added for x.
LEMMA AppendLineIs ==
    ASSUME disk \in Disks, NEW x \in Facts, disk' = AppendLine(disk, x)
    PROVE  /\ disk' \in Disks /\ AddsLine(x) /\ Damage(disk') <= Damage(disk)
<1>. DEFINE l == IF disk.torn THEN Spoilt(x) ELSE x
            new == Append(disk.lines, l)
<1>1. l \in (-(MaxItems + 1))..MaxItems /\ Index(l) = x
  BY Constants DEF Spoilt, Index
<1>2. /\ disk.lines \in Seq((-(MaxItems + 1))..MaxItems) /\ disk.torn \in BOOLEAN
      /\ Len(disk.lines) \in Nat /\ DOMAIN disk.lines = 1..Len(disk.lines)
  BY LineTypes DEF Disks
<1>3. disk' = [disk EXCEPT !.lines = new, !.torn = FALSE]
  BY DEF AppendLine
<1>. HIDE DEF l
<1>4. /\ new \in Seq((-(MaxItems + 1))..MaxItems) /\ Len(new) = Len(disk.lines) + 1
      /\ \A k \in 1..Len(disk.lines) : new[k] = disk.lines[k]
      /\ new[Len(disk.lines) + 1] = l
  BY <1>1, <1>2, AppendProperties
<1>5. DOMAIN new = 1..Len(disk.lines) + 1
  BY <1>4, LenProperties
<1>. HIDE DEF new
<1>6. disk' \in Disks /\ disk'.lines = new /\ disk'.torn = FALSE
  BY <1>3, <1>4 DEF Disks
<1>7. AddsLine(x)
  BY <1>1, <1>4, <1>6 DEF AddsLine
<1>8. Damage(disk') <= Damage(disk)
  <2>0. /\ IsFiniteSet(SpoiltLines(disk)) /\ Cardinality(SpoiltLines(disk)) \in Nat
        /\ Cardinality(SpoiltLines(disk')) \in Nat
    BY SpoiltFinite
  <2>1. SpoiltLines(disk') \subseteq SpoiltLines(disk) \cup {x}
    <3>1. ASSUME NEW y \in Facts, NEW k \in 1..Len(disk.lines) + 1, new[k] = Spoilt(y),
                 y # x
          PROVE  y \in SpoiltLines(disk)
      <4>1. k # Len(disk.lines) + 1
        BY <1>1, <1>4, <3>1, Constants DEF l, Spoilt
      <4>2. k \in 1..Len(disk.lines)
        BY <1>2, <4>1
      <4>. QED BY <1>2, <1>4, <3>1, <4>2 DEF SpoiltLines, Range, MetaLine, Facts
    <3>. QED BY <1>5, <1>6, <3>1 DEF SpoiltLines, Range, MetaLine, Facts
  <2>2. ~disk.torn => SpoiltLines(disk') \subseteq SpoiltLines(disk)
    <3>1. ASSUME ~disk.torn, NEW y \in Facts, NEW k \in 1..Len(disk.lines) + 1, new[k] = Spoilt(y)
          PROVE  y \in SpoiltLines(disk)
      <4>1. k # Len(disk.lines) + 1
        BY <1>1, <1>4, <3>1, Constants DEF l, Spoilt
      <4>2. k \in 1..Len(disk.lines)
        BY <1>2, <4>1
      <4>. QED BY <1>2, <1>4, <3>1, <4>2 DEF SpoiltLines, Range, MetaLine, Facts
    <3>. QED BY <1>5, <1>6, <3>1 DEF SpoiltLines, Range, MetaLine, Facts
  <2>3. CASE disk.torn
    <3>1. /\ IsFiniteSet(SpoiltLines(disk) \cup {x})
          /\ Cardinality(SpoiltLines(disk) \cup {x}) <= Cardinality(SpoiltLines(disk)) + 1
          /\ Cardinality(SpoiltLines(disk) \cup {x}) \in Nat
      <4>1. /\ IsFiniteSet(SpoiltLines(disk) \cup {x})
            /\ Cardinality(SpoiltLines(disk) \cup {x}) =
                 IF x \in SpoiltLines(disk) THEN Cardinality(SpoiltLines(disk))
                 ELSE Cardinality(SpoiltLines(disk)) + 1
        BY <2>0, FS_AddElement
      <4>. QED BY <2>0, <4>1
    <3>2. Cardinality(SpoiltLines(disk')) <= Cardinality(SpoiltLines(disk) \cup {x})
      BY <2>1, <3>1, FS_Subset
    <3>. QED BY <1>6, <2>0, <2>3, <3>1, <3>2 DEF Damage
  <2>4. CASE ~disk.torn
    <3>1. Cardinality(SpoiltLines(disk')) <= Cardinality(SpoiltLines(disk))
      BY <2>0, <2>2, <2>4, FS_Subset
    <3>. QED BY <1>6, <2>0, <2>4, <3>1 DEF Damage
  <2>. QED BY <1>2, <2>3, <2>4
<1>. QED BY <1>6, <1>7, <1>8

\* A file whose last line was cut short is damaged by one more line at most.
LEMMA TornIs ==
    ASSUME disk \in Disks, NEW t \in BOOLEAN, disk' = [disk EXCEPT !.torn = t]
    PROVE  /\ disk' \in Disks /\ SameLines /\ Damage(disk') <= Damage(disk) + 1
           /\ t = disk.torn => Damage(disk') = Damage(disk)
<1>1. disk' \in Disks /\ disk'.lines = disk.lines /\ disk'.torn = t /\ disk.torn \in BOOLEAN
  BY DEF Disks
<1>2. SpoiltLines(disk') = SpoiltLines(disk)
  BY <1>1 DEF SpoiltLines
<1>3. Cardinality(SpoiltLines(disk)) \in Nat
  BY SpoiltFinite
<1>. QED BY <1>1, <1>2, <1>3 DEF Damage, SameLines

\* A write: the line is there, or the file is damaged and a fault is counted.
LEMMA OutcomeIs ==
    ASSUME Types, NEW x \in Facts, NEW o \in WriteOutcomes(disk, x),
           disk' = o.disk, CountFault(o.ok), Damage(disk) <= faults
    PROVE  /\ disk' \in Disks /\ faults' \in 0..MaxFaults /\ Damage(disk') <= faults'
           /\ o.ok \in BOOLEAN
           /\ o.ok => AddsLine(x)
           /\ ~o.ok => SameLines
<1>0. /\ disk \in Disks /\ disk.torn \in BOOLEAN /\ faults \in 0..MaxFaults
      /\ Damage(disk) \in Nat /\ Damage(disk') \in Nat /\ MaxFaults \in Nat
  BY SpoiltFinite, Constants DEF Types, Disks, Damage
<1>1. CASE o = [ok |-> TRUE, disk |-> AppendLine(disk, x)]
  <2>1. o.ok = TRUE /\ disk' = AppendLine(disk, x) /\ faults' = faults
    BY <1>1 DEF CountFault
  <2>2. disk' \in Disks /\ AddsLine(x) /\ Damage(disk') <= Damage(disk)
    BY <1>0, <2>1, AppendLineIs
  <2>3. faults' \in 0..MaxFaults /\ Damage(disk') <= faults'
    BY <1>0, <2>1, <2>2
  <2>. QED BY <2>1, <2>2, <2>3
<1>2. CASE \E t \in BOOLEAN : faults < MaxFaults /\ o = [ok |-> FALSE, disk |-> [disk EXCEPT !.torn = t]]
  <2>1. PICK t \in BOOLEAN : faults < MaxFaults /\ o = [ok |-> FALSE, disk |-> [disk EXCEPT !.torn = t]]
    BY <1>2
  <2>2. o.ok = FALSE /\ disk' = [disk EXCEPT !.torn = t] /\ faults' = faults + 1
    BY <2>1 DEF CountFault
  <2>. QED BY <1>0, <2>1, <2>2, TornIs
<1>. QED BY <1>0, <1>1, <1>2 DEF WriteOutcomes

\* A line makes the file hold one item more.
LEMMA AddsLineGrows ==
    ASSUME disk \in Disks, disk' \in Disks, NEW x, AddsLine(x)
    PROVE  InFile' = InFile \cup {x}
<1>1. Len(disk.lines) \in Nat /\ 1..Len(disk.lines)+1 = 1..Len(disk.lines) \cup {Len(disk.lines) + 1}
  BY LineTypes
<1>2. ASSUME NEW y \in InFile' PROVE y \in InFile \cup {x}
  BY <1>1, <1>2 DEF AddsLine, InFile
<1>3. ASSUME NEW y \in InFile PROVE y \in InFile'
  <2>1. PICK k \in 1..Len(disk.lines) : y = Index(disk.lines[k])
    BY <1>3 DEF InFile
  <2>2. k \in 1..Len(disk'.lines) /\ y = Index(disk'.lines[k])
    BY <1>1, <2>1 DEF AddsLine
  <2>. QED BY <2>2 DEF InFile
<1>4. x \in InFile'
  BY <1>1 DEF AddsLine, InFile
<1>. QED BY <1>2, <1>3, <1>4

\* A file that keeps its lines keeps its items.
LEMMA SameLinesKeeps ==
    ASSUME SameLines
    PROVE  InFile' = InFile
BY DEF SameLines, InFile

\* The queue of t is what is left of the queue of s.
Drained(s, t) ==
    /\ t \in WriterRecs /\ t.written = 0
    /\ Len(t.pending) = Len(s.pending) - s.written
    /\ \A k \in 1..(Len(s.pending) - s.written) : t.pending[k] = s.pending[s.written + k]
    /\ t.meta = s.meta /\ t.cmd = s.cmd

\* The types of the writer.
LEMMA WriterTypes ==
    ASSUME Types
    PROVE  /\ w \in WriterRecs /\ w.pending \in Seq(Items) /\ Len(w.pending) \in Nat
           /\ w.written \in Nat /\ w.written <= Len(w.pending) /\ Left \in Nat
           /\ w.cmd \in Commands /\ w.meta \in BOOLEAN /\ w.ok \in BOOLEAN /\ w.pc \in WriterPcs
           /\ \A k \in 1..Left : Todo(k) \in Items
<1>1. /\ w \in WriterRecs /\ w.pending \in Seq(Items)
      /\ w.written \in Nat /\ w.written <= Len(w.pending)
      /\ w.cmd \in Commands /\ w.meta \in BOOLEAN /\ w.ok \in BOOLEAN /\ w.pc \in WriterPcs
  BY DEF Types, WriterRecs
<1>2. Len(w.pending) \in Nat
  BY <1>1, LenProperties
<1>3. ASSUME NEW k \in 1..Left PROVE Todo(k) \in Items
  <2>1. w.written + k \in 1..Len(w.pending)
    BY <1>1, <1>2 DEF Left
  <2>. QED BY <1>1, <2>1, ElementOfSeq DEF Todo
<1>. QED BY <1>1, <1>2, <1>3 DEF Left

\* The end of a sequence.
LEMMA RestIs ==
    ASSUME NEW S, NEW q \in Seq(S), NEW m \in Nat, m <= Len(q)
    PROVE  LET r == SubSeq(q, m + 1, Len(q))
           IN  /\ r \in Seq(S) /\ Len(r) = Len(q) - m
               /\ \A k \in 1..(Len(q) - m) : r[k] = q[m + k]
OBVIOUS

\* What was written leaves the queue.
LEMMA DrainIs ==
    ASSUME NEW s \in WriterRecs, s.written <= Len(s.pending)
    PROVE  LET d == Drain(s)
           IN  /\ Drained(s, d)
               /\ d.pc = s.pc /\ d.ok = s.ok /\ d.open = s.open /\ d.deferred = s.deferred
<1>. DEFINE rest == SubSeq(s.pending, s.written + 1, Len(s.pending))
            d == [s EXCEPT !.pending = rest, !.written = 0]
<1>1. s.pending \in Seq(Items) /\ s.written \in Nat
  BY DEF WriterRecs
<1>2. /\ rest \in Seq(Items) /\ Len(rest) = Len(s.pending) - s.written
      /\ \A k \in 1..(Len(s.pending) - s.written) : rest[k] = s.pending[s.written + k]
  BY <1>1, RestIs
<1>. HIDE DEF rest
<1>3. d \in WriterRecs
  BY <1>2 DEF WriterRecs
<1>4. /\ d.pending = rest /\ d.written = 0
      /\ d.pc = s.pc /\ d.meta = s.meta /\ d.cmd = s.cmd /\ d.ok = s.ok
      /\ d.open = s.open /\ d.deferred = s.deferred
  BY DEF WriterRecs
<1>5. Drain(s) = d
  BY DEF Drain, rest
<1>. HIDE DEF d
<1>. QED BY <1>2, <1>3, <1>4, <1>5 DEF Drained

\* A failed attempt leaves the rest of the queue for the next one, or answers.
LEMMA FailAttemptIs ==
    ASSUME NEW s \in WriterRecs, s.written <= Len(s.pending)
    PROVE  LET f == FailAttempt(s)
           IN  /\ Drained(s, f) /\ f.pc \in {"open", "ack"}
               /\ f.pc = "ack" => f.ok = FALSE
<1>. DEFINE d == Drain(s)
            c == [d EXCEPT !.open = FALSE]
<1>1. Drained(s, d)
  BY DrainIs
<1>. HIDE DEF d
<1>2. c \in WriterRecs /\ c.pending = d.pending /\ c.written = d.written /\ c.meta = d.meta /\ c.cmd = d.cmd
  BY <1>1 DEF Drained, WriterRecs
<1>3. FailAttempt(s) = IF s.attempt = 1 THEN [c EXCEPT !.pc = "open", !.attempt = 2]
                       ELSE [c EXCEPT !.pc = "ack", !.attempt = 1, !.ok = FALSE]
  BY DEF FailAttempt, d
<1>. HIDE DEF c
<1>4. CASE s.attempt = 1
  <2>1. FailAttempt(s) = [c EXCEPT !.pc = "open", !.attempt = 2]
    BY <1>3, <1>4
  <2>. DEFINE f == [c EXCEPT !.pc = "open", !.attempt = 2]
  <2>2. /\ f \in WriterRecs /\ f.pending = c.pending /\ f.written = c.written /\ f.meta = c.meta
        /\ f.cmd = c.cmd /\ f.pc = "open"
    BY <1>2 DEF WriterRecs, WriterPcs
  <2>. HIDE DEF f
  <2>. QED BY <1>1, <1>2, <2>1, <2>2 DEF Drained, f
<1>5. CASE s.attempt # 1
  <2>1. FailAttempt(s) = [c EXCEPT !.pc = "ack", !.attempt = 1, !.ok = FALSE]
    BY <1>3, <1>5
  <2>. DEFINE f == [c EXCEPT !.pc = "ack", !.attempt = 1, !.ok = FALSE]
  <2>2. /\ f \in WriterRecs /\ f.pending = c.pending /\ f.written = c.written /\ f.meta = c.meta
        /\ f.cmd = c.cmd /\ f.pc = "ack" /\ f.ok = FALSE
    BY <1>2 DEF WriterRecs, WriterPcs
  <2>. HIDE DEF f
  <2>. QED BY <1>1, <1>2, <2>1, <2>2 DEF Drained, f
<1>. QED BY <1>4, <1>5

\* The queue keeps its order and loses nothing.
QueueKept ==
    /\ Left' = Left
    /\ \A k \in 1..Left : Todo(k)' = Todo(k)

\* Dropping what is written keeps the queue.
LEMMA DrainedKeeps ==
    ASSUME Types, Drained(w, w')
    PROVE  QueueKept /\ w' \in WriterRecs /\ w'.written <= Len(w'.pending)
<1>1. /\ Left \in Nat /\ Left = Len(w.pending) - w.written
      /\ \A k \in 1..Left : Todo(k) = w.pending[w.written + k]
  BY WriterTypes DEF Left, Todo
<1>2. Left' = Len(w'.pending) - w'.written
  BY DEF Left
<1>3. \A k : Todo(k)' = w'.pending[w'.written + k]
  BY DEF Todo
<1>4. ASSUME NEW k \in 1..Left PROVE w'.written + k = k
  BY <1>1 DEF Drained
<1>. QED BY <1>1, <1>2, <1>3, <1>4 DEF Drained, QueueKept

----------------------------------------------------------------------------
(* Items on their way: the channel, the queue and the file. *)

Pipe == Conserved /\ Ordered

\* The types of the channel.
LEMMA ChanTypes ==
    ASSUME Types
    PROVE  /\ chan \in Seq(Commands) /\ Len(chan) \in Nat
           /\ \A j \in 1..Len(chan) : /\ chan[j] \in Commands /\ chan[j].item \in 0..MaxItems
                                      /\ chan[j].upto \in 0..MaxItems /\ chan[j].kind \in Kinds
<1>1. chan \in Seq(Commands)
  BY DEF Types
<1>2. Len(chan) \in Nat /\ \A j \in 1..Len(chan) : chan[j] \in Commands
  BY <1>1, LenProperties, ElementOfSeq
<1>. QED BY <1>1, <1>2 DEF Commands

\* No number is larger than the last one that was given out.
LEMMA Bounds ==
    ASSUME Types, Pipe
    PROVE  /\ sent \in Nat /\ sent <= MaxItems
           /\ \A x \in InFile : x \in 0..sent
           /\ \A k \in 1..Len(disk.lines) : Index(disk.lines[k]) \in 0..sent
           /\ \A k \in 1..Left : Todo(k) \in 1..sent
           /\ \A j \in Adds : chan[j].item \in 1..sent
           /\ direct \subseteq 1..sent
<1>1. sent \in Nat /\ sent <= MaxItems
  BY Constants DEF Types
<1>2. \A x \in InFile : x \in 0..sent
  BY <1>1, LineTypes, Constants DEF Types, Pipe, Conserved
<1>3. \A k \in 1..Len(disk.lines) : Index(disk.lines[k]) \in 0..sent
  BY <1>2 DEF InFile
<1>4. \A k \in 1..Left : Todo(k) \in 1..sent
  BY DEF Pipe, Conserved, TodoSet
<1>5. \A j \in Adds : chan[j].item \in 1..sent
  BY DEF Pipe, Conserved, AddSet
<1>. QED BY <1>1, <1>2, <1>3, <1>4, <1>5 DEF Pipe, Ordered

\* Nothing moves.
LEMMA PipeKept ==
    ASSUME Types, Pipe, SameLines, QueueKept, UNCHANGED <<chan, sent, lost, direct>>
    PROVE  Pipe'
<1>1. Left \in Nat
  BY WriterTypes
<1>2. TodoSet' = TodoSet
  BY <1>1 DEF TodoSet, QueueKept
<1>3. AddSet' = AddSet /\ Adds' = Adds
  BY DEF AddSet, Adds
<1>4. Conserved'
  BY <1>2, <1>3, SameLinesKeeps DEF Pipe, Conserved
<1>5. Recorded' = Recorded
  BY DEF Recorded, SameLines
<1>6. Ordered'
  BY <1>3, <1>5 DEF Pipe, Ordered, QueueKept, SameLines
<1>. QED BY <1>4, <1>6 DEF Pipe

\* The channel without its head: every place moves up by one.
Taken ==
    /\ chan' \in Seq(Commands) /\ Len(chan) \in Nat /\ Len(chan) >= 1
    /\ Len(chan') = Len(chan) - 1
    /\ \A j \in 1..Len(chan') : chan'[j] = chan[j + 1]
    /\ \A j \in Adds' : j + 1 \in Adds /\ chan'[j] = chan[j + 1] /\ j \in Nat /\ j >= 1
    /\ \A j \in Barriers' : j + 1 \in Barriers /\ chan'[j] = chan[j + 1] /\ j \in Nat /\ j >= 1
    /\ \A j \in Adds : j # 1 => \E i \in Adds' : j = i + 1 /\ chan'[i] = chan[j]

\* A command is taken off the channel.
LEMMA TakenIs ==
    ASSUME Types, chan # <<>>, chan' = Tail(chan)
    PROVE  Taken /\ Head(chan) = chan[1]
<1>1. /\ chan' \in Seq(Commands) /\ Head(chan) = chan[1] /\ Len(chan) \in Nat
      /\ Len(chan') = Len(chan) - 1 /\ Len(chan) >= 1
      /\ \A j \in 1..Len(chan') : chan'[j] = chan[j + 1]
  BY ChanTypes, HeadTailProperties, EmptySeq
<1>2. ASSUME NEW j \in 1..Len(chan') PROVE j + 1 \in 1..Len(chan) /\ j \in Nat /\ j >= 1
  BY <1>1
<1>3. \A j \in Adds' : j + 1 \in Adds /\ chan'[j] = chan[j + 1] /\ j \in Nat /\ j >= 1
  BY <1>1, <1>2 DEF Adds
<1>4. \A j \in Barriers' : j + 1 \in Barriers /\ chan'[j] = chan[j + 1] /\ j \in Nat /\ j >= 1
  BY <1>1, <1>2 DEF Barriers
<1>5. ASSUME NEW j \in Adds, j # 1 PROVE \E i \in Adds' : j = i + 1 /\ chan'[i] = chan[j]
  <2>1. j - 1 \in 1..Len(chan') /\ chan'[j - 1] = chan[j] /\ j = (j - 1) + 1
    BY <1>1, <1>5 DEF Adds
  <2>. QED BY <1>5, <2>1 DEF Adds
<1>. QED BY <1>1, <1>3, <1>4, <1>5 DEF Taken

\* The writer takes a barrier.
LEMMA PipeTakes ==
    ASSUME Types, Pipe, Taken, chan[1].kind # "add",
           SameLines, QueueKept, UNCHANGED <<sent, lost, direct>>
    PROVE  Pipe'
<1>1. Left \in Nat /\ TodoSet' = TodoSet
  BY WriterTypes DEF TodoSet, QueueKept
<1>2. /\ \A j \in Adds' : j + 1 \in Adds /\ chan'[j] = chan[j + 1] /\ j \in Nat
      /\ \A j \in Adds : \E i \in Adds' : chan'[i] = chan[j]
  BY DEF Taken, Adds
<1>3. AddSet' = AddSet
  BY <1>2 DEF AddSet
<1>4. Conserved'
  BY <1>1, <1>3, SameLinesKeeps DEF Pipe, Conserved
<1>5. Recorded' = Recorded
  BY DEF Recorded, SameLines
<1>6. \A i, j \in Adds' : i < j => chan'[i].item < chan'[j].item
  <2>1. ASSUME NEW i \in Adds', NEW j \in Adds', i < j PROVE chan'[i].item < chan'[j].item
    <3>1. i + 1 < j + 1 /\ i + 1 \in Adds /\ j + 1 \in Adds
      BY <1>2, <2>1
    <3>2. chan[i + 1].item < chan[j + 1].item
      BY <3>1 DEF Pipe, Ordered
    <3>. QED BY <1>2, <3>2
  <2>. QED BY <2>1
<1>7. Ordered'
  BY <1>2, <1>5, <1>6 DEF Pipe, Ordered, QueueKept, SameLines
<1>. QED BY <1>4, <1>7 DEF Pipe

\* The writer takes an item and queues it.
LEMMA PipeEnqueues ==
    ASSUME Types, Pipe, Taken, chan[1].kind = "add",
           NEW n, n = Left + 1, Left' = n, \A k \in 1..Left : Todo(k)' = Todo(k),
           Todo(n)' = chan[1].item,
           SameLines, UNCHANGED <<sent, lost, direct>>
    PROVE  Pipe'
<1>0. Left \in Nat /\ 1..Left' = 1..Left \cup {n} /\ n \notin 1..Left
  BY WriterTypes
<1>. DEFINE x == chan[1].item
<1>1. 1 \in Adds /\ x \in Nat
  BY ChanTypes DEF Adds, Taken
<1>2. /\ \A j \in Adds' : j + 1 \in Adds /\ chan'[j] = chan[j + 1] /\ j \in Nat /\ j >= 1
      /\ \A j \in Adds : j # 1 => \E i \in Adds' : chan'[i] = chan[j]
  BY DEF Taken
<1>3. TodoSet' = TodoSet \cup {x}
  BY <1>0 DEF TodoSet
<1>4. AddSet = AddSet' \cup {x}
  <2>1. AddSet' \subseteq AddSet
    BY <1>2 DEF AddSet
  <2>2. x \in AddSet
    BY <1>1 DEF AddSet
  <2>3. ASSUME NEW j \in Adds, j # 1 PROVE chan[j].item \in AddSet'
    BY <1>2, <2>3 DEF AddSet
  <2>. QED BY <2>1, <2>2, <2>3 DEF AddSet
<1>5. Conserved'
  BY <1>3, <1>4, SameLinesKeeps DEF Pipe, Conserved
<1>6. Recorded' = Recorded
  BY DEF Recorded, SameLines
<1>7. /\ \A i \in Recorded : Index(disk.lines[i]) < x
      /\ \A k \in 1..Left : Todo(k) < x
      /\ \A j \in Adds : j > 1 => x < chan[j].item
      /\ x \notin direct
  BY <1>1 DEF Pipe, Ordered
<1>. HIDE DEF x
<1>8. \A j \in Adds' : \E i \in Adds : i = j + 1 /\ i > 1 /\ chan'[j] = chan[i]
  BY <1>2
<1>9. \A i, j \in Adds' : i < j => chan'[i].item < chan'[j].item
  <2>1. ASSUME NEW i \in Adds', NEW j \in Adds', i < j PROVE chan'[i].item < chan'[j].item
    <3>1. i + 1 < j + 1 /\ i + 1 \in Adds /\ j + 1 \in Adds
      BY <1>2, <2>1
    <3>2. chan[i + 1].item < chan[j + 1].item
      BY <3>1 DEF Pipe, Ordered
    <3>. QED BY <1>2, <3>2
  <2>. QED BY <2>1
<1>10. Ordered'
  <2>1. \A i \in Recorded', k \in 1..Left' : Index(disk'.lines[i]) < Todo(k)'
    BY <1>0, <1>6, <1>7 DEF SameLines, x, Pipe, Ordered
  <2>2. \A i, k \in 1..Left' : i < k => Todo(i)' < Todo(k)'
    BY <1>0, <1>7 DEF Pipe, Ordered, x
  <2>3. \A k \in 1..Left', j \in Adds' : Todo(k)' < chan'[j].item
    BY <1>0, <1>7, <1>8 DEF Pipe, Ordered, x
  <2>4. /\ \A i, k \in Recorded' : i < k => Index(disk'.lines[i]) < Index(disk'.lines[k])
        /\ \A i \in Recorded', j \in Adds' : Index(disk'.lines[i]) < chan'[j].item
        /\ direct' \subseteq 1..sent'
        /\ \A j \in Adds' : chan'[j].item \notin direct'
    BY <1>6, <1>8 DEF SameLines, Pipe, Ordered
  <2>5. \A k \in 1..Left' : Todo(k)' \notin direct'
    BY <1>0, <1>7 DEF Pipe, Ordered, x
  <2>. QED BY <1>9, <2>1, <2>2, <2>3, <2>4, <2>5 DEF Ordered
<1>. QED BY <1>5, <1>10 DEF Pipe

\* The places of the recorded lines after one more line.
LEMMA RecordedGrows ==
    ASSUME Types, NEW x, AddsLine(x), UNCHANGED direct
    PROVE  /\ \A i \in Recorded' : i \in Recorded \/ i = Len(disk.lines) + 1
           /\ \A i \in Recorded : Index(disk'.lines[i]) = Index(disk.lines[i]) /\ i < Len(disk.lines) + 1
           /\ Len(disk.lines) \in Nat /\ Recorded \subseteq Nat
<1>1. Len(disk.lines) \in Nat /\ 1..Len(disk.lines)+1 = 1..Len(disk.lines) \cup {Len(disk.lines) + 1}
  BY LineTypes DEF Types
<1>. QED BY <1>1 DEF AddsLine, Recorded

\* The first item of the queue is written.
LEMMA PipeWrites ==
    ASSUME Types, Pipe, disk' \in Disks, NEW x, x = Todo(1), AddsLine(x),
           Left >= 1, Left' = Left - 1, \A k \in 1..(Left - 1) : Todo(k)' = Todo(k + 1),
           UNCHANGED <<chan, sent, lost, direct>>
    PROVE  Pipe'
<1>0. Left \in Nat /\ x \in Items
  BY WriterTypes
<1>1. \A k \in 1..Left' : k + 1 \in 1..Left /\ Todo(k)' = Todo(k + 1) /\ k \in Nat /\ k >= 1
  BY <1>0
<1>2. TodoSet = TodoSet' \cup {x}
  <2>1. TodoSet' \subseteq TodoSet
    BY <1>1 DEF TodoSet
  <2>2. x \in TodoSet
    BY <1>0 DEF TodoSet
  <2>3. ASSUME NEW k \in 1..Left, k # 1 PROVE Todo(k) \in TodoSet'
    <3>1. k - 1 \in 1..Left' /\ (k - 1) + 1 = k
      BY <1>0, <2>3
    <3>2. Todo(k - 1)' = Todo(k)
      BY <1>1, <3>1
    <3>. QED BY <3>1, <3>2 DEF TodoSet
  <2>. QED BY <2>1, <2>2, <2>3 DEF TodoSet
<1>3. AddSet' = AddSet /\ Adds' = Adds
  BY DEF AddSet, Adds
<1>4. InFile' = InFile \cup {x}
  BY AddsLineGrows DEF Types
<1>5. Conserved'
  BY <1>0, <1>2, <1>3, <1>4 DEF Pipe, Conserved
<1>6. Ordered'
  <2>0. 1 \in 1..Left /\ x = Todo(1)
    BY <1>0
  <2>1. /\ \A i \in Recorded : Index(disk.lines[i]) < x
        /\ \A k \in 2..Left : x < Todo(k)
        /\ \A j \in Adds : x < chan[j].item
    BY <1>0, <2>0 DEF Pipe, Ordered
  <2>2. Index(disk'.lines[Len(disk.lines) + 1]) = x
    BY DEF AddsLine
  <2>3. \A i, k \in Recorded' : i < k => Index(disk'.lines[i]) < Index(disk'.lines[k])
    BY RecordedGrows, <2>1, <2>2 DEF Pipe, Ordered
  <2>4. \A i \in Recorded', k \in 1..Left' : Index(disk'.lines[i]) < Todo(k)'
    <3>1. ASSUME NEW k \in 1..Left' PROVE k + 1 \in 2..Left
      BY <1>0, <3>1
    <3>. QED BY RecordedGrows, <1>1, <2>1, <2>2, <3>1 DEF Pipe, Ordered
  <2>5. \A i \in Recorded', j \in Adds' : Index(disk'.lines[i]) < chan'[j].item
    BY RecordedGrows, <1>3, <2>1, <2>2 DEF Pipe, Ordered
  <2>6. \A i, k \in 1..Left' : i < k => Todo(i)' < Todo(k)'
    <3>1. ASSUME NEW i \in 1..Left', NEW k \in 1..Left', i < k PROVE Todo(i + 1) < Todo(k + 1)
      <4>1. i + 1 < k + 1 /\ i + 1 \in 1..Left /\ k + 1 \in 1..Left
        BY <1>1, <3>1
      <4>. QED BY <4>1 DEF Pipe, Ordered
    <3>. QED BY <1>1, <3>1
  <2>7. /\ \A k \in 1..Left', j \in Adds' : Todo(k)' < chan'[j].item
        /\ \A k \in 1..Left' : Todo(k)' \notin direct'
    BY <1>1, <1>3 DEF Pipe, Ordered
  <2>. QED BY <1>3, <2>3, <2>4, <2>5, <2>6, <2>7 DEF Pipe, Ordered
<1>. QED BY <1>5, <1>6 DEF Pipe

\* The session meta is written to an empty file.
LEMMA PipeMeta ==
    ASSUME Types, Pipe, disk' \in Disks, AddsLine(MetaLine), Len(disk.lines) = 0, QueueKept,
           UNCHANGED <<chan, sent, lost, direct>>
    PROVE  Pipe'
<1>1. Left \in Nat /\ TodoSet' = TodoSet
  BY WriterTypes DEF TodoSet, QueueKept
<1>2. AddSet' = AddSet /\ Adds' = Adds
  BY DEF AddSet, Adds
<1>3. InFile' \cap Items = InFile \cap Items
  BY AddsLineGrows, Constants DEF Types, MetaLine
<1>4. Conserved'
  BY <1>1, <1>2, <1>3 DEF Pipe, Conserved
<1>5. \A i \in Recorded' : i = 1 /\ Index(disk'.lines[i]) = 0
  BY DEF AddsLine, Recorded, MetaLine
<1>6. Ordered'
  BY <1>2, <1>5, Bounds DEF Pipe, Ordered, QueueKept
<1>. QED BY <1>4, <1>6 DEF Pipe

\* The channel with one more command.
Sends(cmd) ==
    /\ chan' \in Seq(Commands) /\ Len(chan) \in Nat /\ Len(chan') = Len(chan) + 1
    /\ \A j \in 1..Len(chan) : chan'[j] = chan[j]
    /\ chan'[Len(chan) + 1] = cmd

\* A command is put into the channel.
LEMMA SendsIs ==
    ASSUME Types, NEW cmd \in Commands, chan' = Append(chan, cmd)
    PROVE  Sends(cmd)
BY ChanTypes, AppendProperties DEF Sends

\* The places of appends and barriers after a send.
LEMMA SentPlaces ==
    ASSUME NEW cmd, Sends(cmd)
    PROVE  /\ Adds' = IF cmd.kind = "add" THEN Adds \cup {Len(chan) + 1} ELSE Adds
           /\ Barriers' = IF cmd.kind = "add" THEN Barriers ELSE Barriers \cup {Len(chan) + 1}
           /\ \A j \in Adds \cup Barriers : chan'[j] = chan[j] /\ j < Len(chan) + 1 /\ j \in Nat
           /\ Len(chan) + 1 \notin Adds \cup Barriers /\ Len(chan) \in Nat
<1>1. /\ 1..Len(chan') = 1..Len(chan) \cup {Len(chan) + 1}
      /\ \A j \in 1..Len(chan) : j < Len(chan) + 1 /\ j \in Nat
      /\ Len(chan) \in Nat
  BY DEF Sends
<1>2. Adds' = IF cmd.kind = "add" THEN Adds \cup {Len(chan) + 1} ELSE Adds
  BY <1>1 DEF Sends, Adds
<1>3. Barriers' = IF cmd.kind = "add" THEN Barriers ELSE Barriers \cup {Len(chan) + 1}
  BY <1>1 DEF Sends, Barriers
<1>4. \A j \in Adds \cup Barriers : chan'[j] = chan[j] /\ j < Len(chan) + 1 /\ j \in Nat
  BY <1>1 DEF Sends, Adds, Barriers
<1>. QED BY <1>1, <1>2, <1>3, <1>4 DEF Adds, Barriers

\* The channel accepts a new item.
LEMMA PipeAccepts ==
    ASSUME Types, Pipe, NEW cmd, Sends(cmd), cmd.kind = "add", cmd.item = sent + 1, sent' = sent + 1,
           SameLines, QueueKept, UNCHANGED <<lost, direct>>
    PROVE  Pipe'
<1>1. Left \in Nat /\ TodoSet' = TodoSet
  BY WriterTypes DEF TodoSet, QueueKept
<1>. DEFINE n == Len(chan) + 1
<1>2. /\ Adds' = Adds \cup {n} /\ chan'[n].item = sent + 1 /\ n \in Nat
      /\ \A j \in Adds : chan'[j] = chan[j] /\ j < n /\ j \in Nat
  BY SentPlaces DEF Sends
<1>. HIDE DEF n
<1>3. AddSet' = AddSet \cup {sent + 1}
  BY <1>2 DEF AddSet
<1>4. sent \in Nat /\ 1..(sent + 1) = 1..sent \cup {sent + 1}
  BY Bounds
<1>5. Conserved'
  BY <1>1, <1>3, <1>4, SameLinesKeeps DEF Pipe, Conserved
<1>6. Recorded' = Recorded
  BY DEF Recorded, SameLines
<1>7. /\ \A i \in Recorded : Index(disk.lines[i]) < sent + 1
      /\ \A k \in 1..Left : Todo(k) < sent + 1
      /\ \A j \in Adds : chan[j].item < sent + 1
      /\ sent + 1 \notin direct /\ direct \subseteq 1..(sent + 1)
  BY <1>4, Bounds DEF Recorded
<1>8. Ordered'
  <2>1. \A i \in Recorded', j \in Adds' : Index(disk'.lines[i]) < chan'[j].item
    BY <1>2, <1>6, <1>7 DEF SameLines, Pipe, Ordered
  <2>2. \A k \in 1..Left', j \in Adds' : Todo(k)' < chan'[j].item
    BY <1>2, <1>7 DEF QueueKept, Pipe, Ordered
  <2>3. \A i, j \in Adds' : i < j => chan'[i].item < chan'[j].item
    BY <1>2, <1>7 DEF Pipe, Ordered
  <2>4. \A j \in Adds' : chan'[j].item \notin direct'
    BY <1>2, <1>7 DEF Pipe, Ordered
  <2>. QED BY <1>6, <1>7, <2>1, <2>2, <2>3, <2>4 DEF Pipe, Ordered, QueueKept, SameLines
<1>. QED BY <1>5, <1>8 DEF Pipe

\* The channel accepts a barrier.
LEMMA PipeBarrier ==
    ASSUME Types, Pipe, NEW cmd, Sends(cmd), cmd.kind # "add",
           SameLines, QueueKept, UNCHANGED <<sent, lost, direct>>
    PROVE  Pipe'
<1>1. Left \in Nat /\ TodoSet' = TodoSet
  BY WriterTypes DEF TodoSet, QueueKept
<1>2. Adds' = Adds /\ \A j \in Adds : chan'[j] = chan[j]
  BY SentPlaces
<1>3. AddSet' = AddSet
  BY <1>2 DEF AddSet
<1>4. Conserved'
  BY <1>1, <1>3, SameLinesKeeps DEF Pipe, Conserved
<1>5. Recorded' = Recorded
  BY DEF Recorded, SameLines
<1>6. Ordered'
  BY <1>2, <1>5 DEF Pipe, Ordered, QueueKept, SameLines
<1>. QED BY <1>4, <1>6 DEF Pipe

\* A line goes straight to the file, or is lost on the way.
LEMMA PipeDirect ==
    ASSUME Types, Pipe, disk' \in Disks, sent' = sent + 1, sent + 1 <= MaxItems,
           direct' = direct \cup {sent + 1}, QueueKept, UNCHANGED chan,
           \/ AddsLine(sent + 1) /\ lost' = lost
           \/ SameLines /\ lost' = lost \cup {sent + 1}
    PROVE  Pipe'
<1>1. Left \in Nat /\ TodoSet' = TodoSet
  BY WriterTypes DEF TodoSet, QueueKept
<1>2. AddSet' = AddSet /\ Adds' = Adds
  BY DEF AddSet, Adds
<1>3. sent \in Nat /\ 1..(sent + 1) = 1..sent \cup {sent + 1} /\ sent + 1 \in Items
  BY Bounds, Constants
<1>4. lost' \cup (InFile' \cap Items) = lost \cup (InFile \cap Items) \cup {sent + 1}
  BY <1>3, AddsLineGrows, SameLinesKeeps DEF Types
<1>5. Conserved'
  BY <1>1, <1>2, <1>3, <1>4 DEF Pipe, Conserved
<1>6. /\ Recorded' = Recorded
      /\ \A i \in Recorded : disk'.lines[i] = disk.lines[i]
  <2>1. CASE AddsLine(sent + 1)
    <3>1. Len(disk.lines) \in Nat /\ 1..Len(disk'.lines) = 1..Len(disk.lines) \cup {Len(disk.lines) + 1}
      BY <2>1, LineTypes DEF Types, AddsLine
    <3>2. \A k \in 1..Len(disk.lines) : Index(disk.lines[k]) # sent + 1
      BY <1>3, Bounds
    <3>. QED BY <2>1, <3>1, <3>2 DEF AddsLine, Recorded
  <2>2. CASE SameLines
    <3>2. \A k \in 1..Len(disk.lines) : Index(disk.lines[k]) # sent + 1
      BY <1>3, Bounds
    <3>. QED BY <2>2, <3>2 DEF SameLines, Recorded
  <2>. QED BY <2>1, <2>2
<1>7. /\ \A k \in 1..Left : Todo(k) # sent + 1
      /\ \A j \in Adds : chan[j].item # sent + 1
      /\ direct' \subseteq 1..sent'
  BY <1>3, Bounds
<1>8. Ordered'
  BY <1>2, <1>6, <1>7 DEF Pipe, Ordered, QueueKept
<1>. QED BY <1>5, <1>8 DEF Pipe

\* Queue and channel are dropped, and what they held is lost.
LEMMA PipeDrops ==
    ASSUME Types, Pipe, SameLines, Left' = 0, Len(chan') = 0,
           lost' = lost \cup TodoSet \cup AddSet, UNCHANGED <<sent, direct>>
    PROVE  Pipe'
<1>1. TodoSet' = {} /\ 1..Left' = {}
  BY DEF TodoSet
<1>2. AddSet' = {} /\ Adds' = {}
  BY DEF AddSet, Adds
<1>3. Conserved'
  BY <1>1, <1>2, SameLinesKeeps DEF Pipe, Conserved
<1>4. Recorded' = Recorded
  BY DEF Recorded, SameLines
<1>5. Ordered'
  BY <1>1, <1>2, <1>4 DEF Pipe, Ordered, SameLines
<1>. QED BY <1>3, <1>5 DEF Pipe

----------------------------------------------------------------------------
(* The callers. *)

\* Only caller c moves, to r.
CallMoves(c, r) ==
    /\ call' \in [Callers -> CallRecs] /\ r \in CallRecs /\ call'[c] = r
    /\ \A d \in Callers \ {c} : call'[d] = call[d]

\* A call at rest.
LEMMA IdleIs ==
    /\ Idle \in CallRecs /\ Idle.pc = "idle" /\ Idle.op = "none" /\ Idle.item = 0
    /\ Idle.patch = {} /\ Idle.gen = 0 /\ Idle.row = {}
BY Constants DEF Idle, CallRecs, Ops, CallPcs

\* A call is replaced by another one.
LEMMA CallSet ==
    ASSUME Types, NEW c \in Callers, NEW r \in CallRecs, call' = [call EXCEPT ![c] = r]
    PROVE  CallMoves(c, r)
BY DEF Types, CallMoves

\* The types of a call.
LEMMA CallTypes ==
    ASSUME Types, NEW c \in Callers
    PROVE  /\ call[c] \in CallRecs /\ call[c].op \in Ops /\ call[c].pc \in CallPcs
           /\ call[c].item \in 0..MaxItems /\ call[c].patch \in SUBSET Facts /\ call[c].gen \in Nat
           /\ call[c].row \in SUBSET Facts
BY DEF Types, CallRecs

Counts(r) == r.pc = "add" \/ r.op \in {"memory", "update"}

\* The callers an append is due from.
LEMMA AppendingIs ==
    /\ Appending = {c \in Callers : Counts(call[c])}
    /\ IsFiniteSet(Appending) /\ Cardinality(Appending) \in Nat
<1>1. Appending = {c \in Callers : Counts(call[c])}
  BY DEF Appending, Counts
<1>2. Appending \in SUBSET Callers
  BY <1>1
<1>. QED BY <1>1, <1>2, Constants, FS_Subset, FS_CardinalityType

\* The same after the step.
LEMMA AppendingIsNext ==
    /\ Appending' = {c \in Callers : Counts(call'[c])}
    /\ IsFiniteSet(Appending') /\ Cardinality(Appending') \in Nat
<1>1. Appending' = {c \in Callers : Counts(call'[c])}
  BY DEF Appending, Counts
<1>2. Appending' \in SUBSET Callers
  BY <1>1
<1>. QED BY <1>1, <1>2, Constants, FS_Subset, FS_CardinalityType

\* No call claims more room than before.
LEMMA RoomKept ==
    ASSUME Types, Room, Appending' \subseteq Appending, UNCHANGED sent
    PROVE  Room'
<1>1. Cardinality(Appending') <= Cardinality(Appending)
  BY AppendingIs, FS_Subset
<1>. QED BY <1>1, AppendingIs, AppendingIsNext, Constants DEF Room, Types

\* A call gives its room to the item it has appended.
LEMMA RoomSpent ==
    ASSUME Types, Room, NEW c \in Callers, c \in Appending, Appending' \subseteq Appending \ {c},
           sent' \in {sent, sent + 1}
    PROVE  Room' /\ sent + 1 <= MaxItems
<1>0. sent \in Nat /\ MaxItems \in Nat
  BY Constants DEF Types
<1>1. /\ IsFiniteSet(Appending \ {c})
      /\ Cardinality(Appending \ {c}) = IF c \in Appending THEN Cardinality(Appending) - 1
                                        ELSE Cardinality(Appending)
  BY AppendingIs, FS_RemoveElement
<1>2. Cardinality(Appending') <= Cardinality(Appending \ {c})
  BY <1>1, FS_Subset
<1>. QED BY <1>0, <1>1, <1>2, AppendingIs, AppendingIsNext DEF Room

\* A new call claims room for one item.
LEMMA RoomClaimed ==
    ASSUME Types, Room, NEW c \in Callers, Appending' \subseteq Appending \cup {c},
           sent + Cardinality(Appending) < MaxItems, UNCHANGED sent
    PROVE  Room'
<1>0. sent \in Nat /\ MaxItems \in Nat
  BY Constants DEF Types
<1>1. /\ IsFiniteSet(Appending \cup {c})
      /\ Cardinality(Appending \cup {c}) = IF c \in Appending THEN Cardinality(Appending)
                                           ELSE Cardinality(Appending) + 1
  BY AppendingIs, FS_AddElement
<1>2. Cardinality(Appending') <= Cardinality(Appending \cup {c})
  BY <1>1, FS_Subset
<1>. QED BY <1>0, <1>1, <1>2, AppendingIs, AppendingIsNext DEF Room

\* How these change with one caller.
LEMMA AppendingMoves ==
    ASSUME NEW c \in Callers, NEW r, CallMoves(c, r)
    PROVE  /\ Appending' \subseteq Appending \cup {c}
           /\ ~Counts(r) => Appending' \subseteq Appending \ {c}
           /\ Counts(call[c]) => Appending' \subseteq Appending
BY AppendingIs, AppendingIsNext DEF CallMoves

\* What a caller may be set to, apart from waiting and from an append's barrier.
Allowed(r) ==
    /\ r.pc = "idle" <=> r = Idle
    /\ r.op = "none" => r.pc = "idle"
    /\ r.pc = "direct" => r.op = "update"
    /\ r.op = "reconcile" => r.pc \in {"reload", "reconcile"}
    /\ r.pc \in {"add", "observe"} => r.op = "append"
    /\ r.pc \in {"barrier", "wait"} => r.op # "append"

\* Steps of a caller that neither sends nor waits.
LEMMA CallsLocal ==
    ASSUME Types, CallsInv, NEW c \in Callers, NEW r, CallMoves(c, r), Allowed(r),
           call[c].pc # "wait", r.pc # "wait", UNCHANGED <<chan, w>>,
           \/ sent' = sent /\ lost' = lost
           \/ sent' = sent + 1 /\ lost' \subseteq lost \cup {sent + 1},
           Room'
    PROVE  CallsInv'
<1>0. sent \in Nat /\ sent' >= sent /\ lost' \subseteq lost \cup {sent + 1} /\ sent' \in Nat
  BY Constants DEF Types
<1>1. Adds' = Adds /\ Barriers' = Barriers /\ Serving' = Serving
  BY DEF Adds, Barriers, Serving
<1>2. BarriersCover'
  <2>1. \A i \in Barriers : chan[i].upto \in Nat
    BY ChanTypes, Constants DEF Barriers
  <2>2. w.cmd.upto \in Nat
    BY WriterTypes, Constants DEF Commands
  <2>. QED BY <1>0, <1>1, <2>1, <2>2 DEF CallsInv, BarriersCover
<1>3. \A cmd : Waits(cmd) => Waits(cmd)'
  BY DEF Waits, CallMoves
<1>4. OneBarrierEach'
  BY <1>1, <1>3 DEF CallsInv, OneBarrierEach
<1>5. CallerInv'
  <2>1. ASSUME NEW d \in Callers, d # c
        PROVE  /\ call'[d].pc = "idle" <=> call'[d] = Idle
               /\ call'[d].op = "none" => call'[d].pc = "idle"
               /\ call'[d].pc = "direct" => call'[d].op = "update"
               /\ call'[d].op = "reconcile" => call'[d].pc \in {"reload", "reconcile"}
               /\ call'[d].pc \in {"add", "observe"} => call'[d].op = "append"
               /\ call'[d].op = "append" /\ call'[d].pc \in {"barrier", "wait"} =>
                    /\ call'[d].item >= 1 /\ call'[d].item <= sent'
                    /\ w'.pc = "ended" \/ call'[d].item \notin lost'
    <3>1. call'[d] = call[d] /\ call[d].item \in Nat
      BY <2>1, CallTypes, Constants DEF CallMoves
    <3>. QED BY <1>0, <3>1 DEF CallsInv, CallerInv
  <2>2. call'[c] = r
    BY DEF CallMoves
  <2>. QED BY <2>1, <2>2 DEF CallerInv, Allowed
<1>. QED BY <1>2, <1>4, <1>5 DEF CallsInv

\* A caller's step that leaves the metadata alone, and steps that are no caller's.
Harmless(r) ==
    \/ r.pc \in {"idle", "add", "barrier", "wait", "remove", "direct"}
    \/ r.pc = "observe" /\ r.item \in InFile'
    \/ r.pc = "reload" /\ MetaLine \in InFile'
    \/ r.pc = "take" /\ (r.op \in {"flush", "shutdown"} \/ MetaLine \in InFile')

\* Steps that touch neither observer nor database keep the facts' part.
LEMMA FactsKept ==
    ASSUME FactsInv, InFile \subseteq InFile', live' => live,
           UNCHANGED <<sync, db, seen, dropped>>,
           \A c \in Callers : call'[c] = call[c] \/ Harmless(call'[c])
    PROVE  FactsInv'
<1>1. FactsInFile'
  BY DEF FactsInv, FactsInFile, Harmless, Updating
<1>2. PatchesCover'
  BY DEF FactsInv, PatchesCover, FactsNotLost, Harmless
<1>. QED BY <1>1, <1>2 DEF FactsInv

----------------------------------------------------------------------------
(* The steps of the callers. *)

\* A writer that does nothing keeps its queue.
LEMMA QueueStill ==
    ASSUME UNCHANGED w
    PROVE  QueueKept
BY DEF QueueKept, Left, Todo

\* Steps away from file, writer and channel keep the file's part.
LEMMA FileStill ==
    ASSUME Types, FileInv, UNCHANGED <<disk, w, chan, sent, lost, direct, acked>>,
           faults' \in Nat, faults' >= faults
    PROVE  FileInv'
<1>1. Pipe'
  BY PipeKept, QueueStill DEF FileInv, Pipe, SameLines
<1>2. MetaFirst' /\ WriterInv'
  BY DEF FileInv, MetaFirst, WriterInv
<1>3. InFile' = InFile /\ Damage(disk) \in Nat /\ faults \in Nat
  BY SameLinesKeeps, SpoiltFinite, Constants DEF SameLines, Damage, Types
<1>4. Durable'
  BY <1>3 DEF FileInv, Durable
<1>. QED BY <1>1, <1>2, <1>4 DEF FileInv, Pipe

\* A call begins.
LEMMA StartStep ==
    ASSUME Inv, NEW c \in Callers, Start(c)
    PROVE  Inv'
<1>0. Types /\ FileInv /\ CallsInv /\ FactsInv /\ call[c].pc = "idle" /\ call[c] = Idle
  BY DEF Inv, CallsInv, CallerInv, Start
<1>1. PICK op \in Calls[c] :
        /\ op \in {"append", "memory"} => sent + Cardinality(Appending) < MaxItems
        /\ call' = [call EXCEPT ![c] = [Idle EXCEPT !.op = op, !.pc = FirstStep(op)]]
  BY DEF Start
<1>2. op \in {"append", "flush", "persist", "shutdown", "memory"}
  BY RolloutAssumption
<1>. DEFINE r == [Idle EXCEPT !.op = op, !.pc = FirstStep(op)]
<1>3. FirstStep(op) \in {"add", "take", "barrier"}
      /\ (FirstStep(op) = "add" <=> op = "append") /\ (FirstStep(op) = "take" <=> op = "shutdown")
  BY <1>2 DEF FirstStep
<1>4. r \in CallRecs /\ r.op = op /\ r.pc = FirstStep(op)
  BY <1>2, <1>3, IdleIs DEF CallRecs, Ops, CallPcs
<1>. HIDE DEF r
<1>5. CallMoves(c, r)
  BY <1>0, <1>1, <1>4, CallSet DEF r
<1>6. UNCHANGED <<disk, w, chan, live, sync, db, sent, acked, lost, direct, dropped, seen, faults>>
  BY DEF Start
<1>7. Types'
  BY <1>0, <1>5, <1>6 DEF Types, CallMoves
<1>8. FileInv'
  BY <1>0, <1>6, FileStill, Constants DEF Types
<1>9. Room'
  <2>1. CASE op \in {"append", "memory"}
    BY <1>0, <1>1, <1>5, <1>6, <2>1, RoomClaimed, AppendingMoves DEF CallsInv
  <2>2. CASE op \notin {"append", "memory"}
    <3>1. ~Counts(r)
      BY <1>2, <1>3, <1>4, <2>2 DEF Counts
    <3>. QED BY <1>0, <1>5, <1>6, <3>1, RoomKept, AppendingMoves DEF CallsInv
  <2>. QED BY <2>1, <2>2
<1>10. Allowed(r) /\ r.pc # "wait"
  BY <1>2, <1>3, <1>4, IdleIs DEF Allowed
<1>11. CallsInv'
  BY <1>0, <1>5, <1>6, <1>9, <1>10, CallsLocal
<1>12. Harmless(r)
  BY <1>3, <1>4 DEF Harmless
<1>13. FactsInv'
  BY <1>0, <1>5, <1>6, <1>12, FactsKept, SameLinesKeeps DEF SameLines, CallMoves
<1>. QED BY <1>7, <1>8, <1>11, <1>13 DEF Inv

\* A caller gives up, or ends what it was doing, with nothing else changed.
LEMMA CallerIdles ==
    ASSUME Inv, NEW c \in Callers, call' = [call EXCEPT ![c] = Idle], call[c].pc # "wait",
           UNCHANGED <<disk, w, chan, sync, db, sent, acked, lost, direct, dropped, seen, faults>>,
           live' \in BOOLEAN, live' => live
    PROVE  Inv'
<1>0. Types /\ FileInv /\ CallsInv /\ FactsInv
  BY DEF Inv
<1>1. CallMoves(c, Idle)
  BY <1>0, CallSet, IdleIs
<1>2. Types'
  BY <1>0, <1>1 DEF Types, CallMoves
<1>3. FileInv'
  BY <1>0, FileStill, Constants DEF Types
<1>4. ~Counts(Idle) /\ Allowed(Idle) /\ Harmless(Idle)
  BY IdleIs DEF Counts, Allowed, Harmless
<1>5. Room'
  BY <1>0, <1>1, <1>4, RoomKept, AppendingMoves DEF CallsInv
<1>6. CallsInv'
  BY <1>0, <1>1, <1>4, <1>5, CallsLocal, IdleIs
<1>7. FactsInv'
  BY <1>0, <1>1, <1>4, FactsKept, SameLinesKeeps DEF SameLines, CallMoves
<1>. QED BY <1>2, <1>3, <1>6, <1>7 DEF Inv

\* The recorder is removed from the live threads.
LEMMA RemoveLiveStep ==
    ASSUME Inv, NEW c \in Callers, RemoveLive(c)
    PROVE  Inv'
BY CallerIdles DEF RemoveLive

\* An item is accepted by the channel.
LEMMA SendItemsStep ==
    ASSUME Inv, NEW c \in Callers, SendItems(c)
    PROVE  Inv'
<1>0. Types /\ FileInv /\ CallsInv /\ FactsInv /\ Pipe /\ call[c].pc = "add" /\ call[c].op = "append"
  BY DEF Inv, FileInv, Pipe, CallsInv, CallerInv, SendItems
<1>1. CASE w.pc = "ended"
  BY <1>0, <1>1, CallerIdles DEF SendItems, Types
<1>2. CASE w.pc # "ended"
  <2>. DEFINE cmd == [kind |-> "add", item |-> sent + 1, from |-> c, upto |-> 0]
              r == [[call[c] EXCEPT !.pc = "barrier"] EXCEPT !.item = sent + 1]
  <2>1. /\ Len(chan) < Capacity /\ sent' = sent + 1 /\ chan' = Append(chan, cmd)
        /\ call' = [call EXCEPT ![c].pc = "barrier", ![c].item = sent + 1]
        /\ UNCHANGED <<disk, w, live, sync, db, acked, lost, direct, dropped, seen, faults>>
    BY <1>2 DEF SendItems
  <2>0. sent' = sent + 1 /\ w' = w /\ lost' = lost
    BY <2>1
  <2>2. c \in Appending
    BY <1>0, AppendingIs DEF Counts
  <2>3. sent + 1 \in 0..MaxItems /\ sent \in Nat
    <3>1. IsFiniteSet(Appending) /\ Cardinality(Appending) \in Nat /\ Cardinality(Appending) # 0
      BY <2>2, AppendingIs, FS_EmptySet
    <3>. QED BY <1>0, <3>1, Constants DEF CallsInv, Room, Types
  <2>4. cmd \in Commands /\ cmd.kind = "add" /\ cmd.item = sent + 1
    BY <2>3, Constants DEF Commands, Kinds
  <2>5. r \in CallRecs /\ r.pc = "barrier" /\ r.item = sent + 1 /\ r.op = "append"
    BY <1>0, <2>3, CallTypes DEF CallRecs, CallPcs
  <2>6. call' = [call EXCEPT ![c] = r]
    BY <1>0, <2>1, CallTypes DEF Types, CallRecs
  <2>. HIDE DEF cmd, r
  <2>7. CallMoves(c, r) /\ Sends(cmd)
    BY <1>0, <2>1, <2>4, <2>5, <2>6, CallSet, SendsIs
  <2>8. SameLines /\ QueueKept /\ InFile' = InFile
    BY <2>1, QueueStill, SameLinesKeeps DEF SameLines
  <2>9. Types'
    <3>1. chan' \in Seq(Commands) /\ Len(chan') <= Capacity
      BY <2>1, <2>7, RolloutAssumption DEF Sends
    <3>. QED BY <1>0, <2>1, <2>3, <2>7, <3>1 DEF Types, CallMoves
  <2>10. FileInv'
    <3>1. Pipe'
      BY <1>0, <2>1, <2>4, <2>7, <2>8, PipeAccepts
    <3>2. MetaFirst' /\ WriterInv' /\ Durable'
      BY <1>0, <1>2, <2>1, <2>8 DEF FileInv, MetaFirst, WriterInv, Durable
    <3>. QED BY <3>1, <3>2 DEF FileInv, Pipe
  <2>11. CallsInv'
    <3>1. /\ Adds' = Adds \cup {Len(chan) + 1} /\ Barriers' = Barriers /\ Serving' = Serving
          /\ \A j \in Adds \cup Barriers : chan'[j] = chan[j] /\ j < Len(chan) + 1 /\ j \in Nat
          /\ chan'[Len(chan) + 1] = cmd /\ Len(chan) \in Nat
      BY <2>1, <2>4, <2>7, SentPlaces DEF Sends, Serving
    <3>2. \A i \in Barriers : chan[i].upto \in Nat
      BY <1>0, ChanTypes, Constants DEF Barriers
    <3>3. w.cmd.upto \in Nat
      BY <1>0, WriterTypes, Constants DEF Commands
    <3>4. BarriersCover'
      <4>1. \A i \in Barriers', j \in Adds' : i < j => chan'[i].upto < chan'[j].item
        BY <1>0, <2>3, <2>4, <3>1, <3>2 DEF CallsInv, BarriersCover
      <4>2. Serving' => \A j \in Adds' : w'.cmd.upto < chan'[j].item
        BY <1>0, <2>0, <2>3, <2>4, <3>1, <3>3 DEF CallsInv, BarriersCover
      <4>3. /\ \A i \in Barriers' : chan'[i].upto <= sent'
            /\ Serving' => w'.cmd.upto <= sent'
        BY <1>0, <2>0, <2>3, <3>1, <3>2, <3>3 DEF CallsInv, BarriersCover
      <4>. QED BY <4>1, <4>2, <4>3 DEF BarriersCover
    <3>5. \A x : Waits(x) => Waits(x)'
      BY <1>0, <2>7 DEF Waits, CallMoves
    <3>6. OneBarrierEach'
      BY <1>0, <2>0, <3>1, <3>5 DEF CallsInv, OneBarrierEach
    <3>7. CallerInv'
      <4>1. ASSUME NEW d \in Callers, d # c
            PROVE  /\ call'[d] = call[d]
                   /\ call[d].item <= sent => call[d].item <= sent'
        BY <2>1, <2>3, <2>7, <4>1, <1>0, CallTypes, Constants DEF CallMoves
      <4>2. call'[c] = r /\ sent + 1 >= 1 /\ sent + 1 \notin lost
        <5>1. lost \subseteq 1..sent
          BY <1>0 DEF Pipe, Conserved
        <5>. QED BY <2>3, <2>7, <5>1 DEF CallMoves
      <4>. QED BY <1>0, <2>0, <2>3, <2>5, <4>1, <4>2, IdleIs DEF CallsInv, CallerInv
    <3>8. Room'
      <4>1. ~Counts(r)
        BY <2>5 DEF Counts
      <4>. QED BY <1>0, <2>1, <2>2, <2>7, <4>1, RoomSpent, AppendingMoves DEF CallsInv
    <3>. QED BY <3>4, <3>6, <3>7, <3>8 DEF CallsInv
  <2>12. FactsInv'
    <3>1. Harmless(r)
      BY <2>5 DEF Harmless
    <3>. QED BY <1>0, <2>1, <2>7, <2>8, <3>1, FactsKept DEF CallMoves
  <2>. QED BY <2>9, <2>10, <2>11, <2>12 DEF Inv
<1>. QED BY <1>1, <1>2

\* A barrier is accepted by the channel, and its caller waits.
LEMMA SendBarrierStep ==
    ASSUME Inv, NEW c \in Callers, SendBarrier(c)
    PROVE  Inv'
<1>0. Types /\ FileInv /\ CallsInv /\ FactsInv /\ Pipe /\ call[c].pc = "barrier" /\ call[c] \in CallRecs
  BY CallTypes DEF Inv, FileInv, Pipe, SendBarrier
<1>1. CASE w.pc = "ended"
  BY <1>0, <1>1, CallerIdles DEF SendBarrier, Types
<1>2. CASE w.pc # "ended"
  <2>. DEFINE cmd == [kind |-> BarrierOf(call[c].op), item |-> 0, from |-> c, upto |-> sent]
              r == [call[c] EXCEPT !.pc = "wait"]
  <2>1. /\ Len(chan) < Capacity /\ chan' = Append(chan, cmd) /\ call' = [call EXCEPT ![c] = r]
        /\ UNCHANGED <<disk, w, live, sync, db, sent, acked, lost, direct, dropped, seen, faults>>
    BY <1>2 DEF SendBarrier
  <2>0. UNCHANGED <<w, sent, lost>> /\ sent \in 0..MaxItems /\ sent \in Nat
    BY <1>0, <2>1, Constants DEF Types
  <2>2. BarrierOf(call[c].op) \in {"flush", "persist", "shutdown"}
    <3>1. call[c].op \in Ops \ {"none", "reconcile"}
      BY <1>0 DEF CallsInv, CallerInv, CallRecs
    <3>. QED BY <3>1 DEF BarrierOf, Ops
  <2>3. /\ cmd \in Commands /\ cmd.kind # "add" /\ cmd.kind # "none" /\ cmd.from = c
        /\ cmd.upto = sent /\ cmd.kind = BarrierOf(call[c].op)
    BY <2>0, <2>2, Constants DEF Commands, Kinds
  <2>4. r \in CallRecs /\ r.pc = "wait" /\ r.item = call[c].item /\ r.op = call[c].op
    BY <1>0 DEF CallRecs, CallPcs
  <2>. HIDE DEF cmd, r
  <2>5. CallMoves(c, r) /\ Sends(cmd)
    BY <1>0, <2>1, <2>3, <2>4, CallSet, SendsIs
  <2>6. SameLines /\ QueueKept /\ InFile' = InFile
    BY <2>1, QueueStill, SameLinesKeeps DEF SameLines
  <2>7. Types'
    <3>1. chan' \in Seq(Commands) /\ Len(chan') <= Capacity
      BY <2>1, <2>5, RolloutAssumption DEF Sends
    <3>. QED BY <1>0, <2>1, <2>5, <3>1 DEF Types, CallMoves
  <2>8. FileInv'
    <3>1. Pipe'
      BY <1>0, <2>1, <2>3, <2>5, <2>6, PipeBarrier
    <3>2. MetaFirst' /\ WriterInv' /\ Durable'
      BY <1>0, <1>2, <2>1, <2>6 DEF FileInv, MetaFirst, WriterInv, Durable
    <3>. QED BY <3>1, <3>2 DEF FileInv, Pipe
  <2>9. CallsInv'
    <3>. DEFINE n == Len(chan) + 1
    <3>1. /\ Adds' = Adds /\ Barriers' = Barriers \cup {n} /\ Serving' = Serving /\ n \in Nat
          /\ \A j \in Adds \cup Barriers : chan'[j] = chan[j] /\ j < n /\ j \in Nat
          /\ chan'[n] = cmd /\ n \notin Barriers
      BY <2>0, <2>3, <2>5, SentPlaces DEF Sends, Serving
    <3>. HIDE DEF n
    <3>2. BarriersCover'
      BY <1>0, <2>0, <2>3, <3>1 DEF CallsInv, BarriersCover
    <3>3. \A x : Waits(x) => Waits(x)' /\ x.from # c
      BY <1>0, <2>5 DEF Waits, CallMoves
    <3>4. PICK x : x = cmd
      OBVIOUS
    <3>5. Waits(x)'
      <4>1. call'[c] = r /\ x.from = c /\ x.upto = sent /\ x.kind # "none" /\ x.kind = BarrierOf(r.op)
        BY <2>3, <2>4, <2>5, <3>4 DEF CallMoves
      <4>2. r.op = "append" => r.item <= sent
        BY <1>0, <1>2, <2>4 DEF CallsInv, CallerInv
      <4>. QED BY <2>4, <4>1, <4>2 DEF Waits
    <3>8. OneBarrierEach'
      <4>1. chan'[n] = x /\ x.from = c
        BY <2>3, <3>1, <3>4
      <4>. QED BY <1>0, <2>0, <3>1, <3>3, <3>5, <4>1 DEF CallsInv, OneBarrierEach
    <3>6. CallerInv'
      <4>1. call'[c] = r /\ \A d \in Callers \ {c} : call'[d] = call[d]
        BY <2>5 DEF CallMoves
      <4>. QED BY <1>0, <2>0, <2>4, <4>1, IdleIs DEF CallsInv, CallerInv
    <3>7. Room'
      <4>1. Counts(r) => Counts(call[c])
        BY <1>0, <2>4 DEF Counts
      <4>. QED BY <1>0, <2>0, <2>5, <4>1, RoomKept, AppendingMoves DEF CallsInv
    <3>. QED BY <3>2, <3>6, <3>7, <3>8 DEF CallsInv
  <2>10. FactsInv'
    <3>1. Harmless(r)
      BY <2>4 DEF Harmless
    <3>. QED BY <1>0, <2>1, <2>5, <2>6, <3>1, FactsKept DEF CallMoves
  <2>. QED BY <2>7, <2>8, <2>9, <2>10 DEF Inv
<1>. QED BY <1>1, <1>2

\* A caller's step that concerns only itself and the metadata.
LEMMA CallerLocal ==
    ASSUME Inv, NEW c \in Callers, NEW r \in CallRecs, call' = [call EXCEPT ![c] = r],
           call[c].pc # "wait", r.pc # "wait", Allowed(r), Counts(r) => Counts(call[c]),
           UNCHANGED <<disk, w, chan, live, sent, acked, lost, direct>>,
           faults' \in 0..MaxFaults, faults' >= faults,
           sync' \in SyncRecs, db' \subseteq Facts \cup {Mode}, dropped' \subseteq Facts, seen' \subseteq Facts,
           FactsInv'
    PROVE  Inv'
<1>0. Types /\ FileInv /\ CallsInv
  BY DEF Inv
<1>1. CallMoves(c, r)
  BY <1>0, CallSet
<1>2. Types'
  BY <1>0, <1>1 DEF Types, CallMoves
<1>3. FileInv'
  BY <1>0, FileStill, Constants
<1>4. Room'
  BY <1>0, <1>1, RoomKept, AppendingMoves DEF CallsInv
<1>5. CallsInv'
  BY <1>0, <1>1, <1>4, CallsLocal
<1>. QED BY <1>2, <1>3, <1>5 DEF Inv

\* A file with any line at all has the session meta.
LEMMA MetaInFile ==
    ASSUME MetaFirst, disk \in Disks
    PROVE  /\ \A x \in InFile : MetaLine \in InFile
           /\ Len(disk.lines) # 0 => MetaLine \in InFile
<1>1. Len(disk.lines) \in Nat
  BY LineTypes
<1>2. ASSUME NEW k \in 1..Len(disk.lines) PROVE MetaLine \in InFile
  <2>1. PICK j \in 1..k : Index(disk.lines[j]) = MetaLine
    BY <1>2 DEF MetaFirst
  <2>2. j \in 1..Len(disk.lines)
    BY <1>1, <2>1
  <2>. QED BY <2>1, <2>2 DEF InFile
<1>. QED BY <1>1, <1>2 DEF InFile

\* A patch that c takes, with its generation.
Patched(q, m, g) == [q EXCEPT !.pc = "apply", !.patch = m, !.gen = g]

\* r is the call q with patch m taken at generation g.
HasPatch(q, m, g, r) ==
    /\ r \in CallRecs /\ r.pc = "apply" /\ r.patch = m /\ r.gen = g
    /\ r.op = q.op /\ Allowed(r) /\ (Counts(r) => Counts(q))

\* A caller that has taken the patch.
LEMMA PatchTaken ==
    ASSUME Types, NEW c \in Callers, NEW m \in SUBSET Facts, NEW g \in Nat,
           call[c].pc \in {"observe", "take"}, CallerInv
    PROVE  HasPatch(call[c], m, g, Patched(call[c], m, g))
<1> DEFINE r == Patched(call[c], m, g)
<1>1. /\ r \in CallRecs /\ r.pc = "apply" /\ r.patch = m /\ r.gen = g /\ r.op = call[c].op
  BY CallTypes DEF CallRecs, CallPcs, Patched
<1>2. call[c].op \notin {"none", "reconcile"}
  BY DEF CallerInv
<1>3. Allowed(r) /\ (Counts(r) => Counts(call[c]))
  <2> HIDE DEF r
  <2> QED
    BY <1>1, <1>2, IdleIs DEF Allowed, Counts
<1>. QED BY <1>1, <1>3 DEF HasPatch

\* The observer sees an appended item.
LEMMA ObserveStep ==
    ASSUME Inv, NEW c \in Callers, Observe(c)
    PROVE  Inv'
<1>. DEFINE merged == sync.pending \cup {call[c].item}
            rr == [call[c] EXCEPT !.pc = "apply", !.patch = merged, !.gen = sync.gen + 1]
<1>0. /\ Types /\ FileInv /\ CallsInv /\ FactsInv /\ call[c].pc = "observe" /\ CallerInv
      /\ disk \in Disks /\ MetaFirst /\ sync \in SyncRecs /\ sync.gen \in Nat
      /\ sync.pending \subseteq Facts /\ call[c].item \in Facts
  BY CallTypes, Constants DEF Inv, FileInv, CallsInv, Observe, Types, SyncRecs
<1>1. PICK co \in BOOLEAN :
         /\ sync' = [sync EXCEPT !.pending = merged, !.gen = @ + 1, !.held = FALSE]
         /\ call' = [call EXCEPT ![c] = IF co THEN Idle ELSE rr]
  BY DEF Observe
<1>2. /\ seen' = seen \cup {call[c].item}
      /\ UNCHANGED <<disk, w, chan, live, db, sent, acked, lost, direct, dropped, faults>>
  BY DEF Observe
<1>3. merged \in SUBSET Facts /\ merged \subseteq InFile \cup {MetaLine} /\ MetaLine \in InFile
  BY <1>0, MetaInFile DEF FactsInv, FactsInFile
<1>4. /\ rr \in CallRecs /\ rr.pc = "apply" /\ rr.patch = merged /\ rr.gen = sync.gen + 1
      /\ Allowed(rr) /\ (Counts(rr) => Counts(call[c]))
  <2>1. sync.gen + 1 \in Nat /\ merged \in SUBSET Facts
    BY <1>0, <1>3
  <2>2. PICK g \in Nat : g = sync.gen + 1
    BY <2>1
  <2>0. Types /\ CallerInv /\ call[c].pc \in {"observe", "take"} /\ merged \in SUBSET Facts
    BY <1>0, <2>1
  <2>3. rr = Patched(call[c], merged, g)
    BY <2>2 DEF Patched
  <2>. HIDE DEF merged, rr
  <2>4. HasPatch(call[c], merged, g, rr)
    BY <2>0, <2>3, PatchTaken
  <2>. QED BY <2>2, <2>4 DEF HasPatch
<1>5. /\ sync' \in SyncRecs /\ sync'.pending = merged /\ sync'.gen = sync.gen + 1 /\ sync'.held = FALSE
  <2>1. sync.gen + 1 \in Nat \ {0} /\ merged \in SUBSET Facts
    BY <1>0, <1>3
  <2>. HIDE DEF merged
  <2>. QED BY <1>0, <1>1, <2>1 DEF SyncRecs
<1>. DEFINE r == IF co THEN Idle ELSE rr
<1>6. r \in CallRecs /\ Allowed(r) /\ (Counts(r) => Counts(call[c])) /\ r.pc \in {"idle", "apply"}
      /\ (r.pc = "apply" => r.patch = merged /\ r.gen = sync.gen + 1)
  BY <1>4, IdleIs DEF Allowed, Counts
<1>7. call' = [call EXCEPT ![c] = r] /\ call[c].item \in merged /\ sync.pending \subseteq merged
  BY <1>1
<1>. HIDE DEF merged, rr, r
<1>8. CallMoves(c, r)
  BY <1>0, <1>6, <1>7, CallSet
<1>9. InFile' = InFile
  BY <1>2, SameLinesKeeps DEF SameLines
<1>10. FactsInFile'
  BY <1>0, <1>2, <1>3, <1>5, <1>6, <1>8, <1>9 DEF FactsInv, FactsInFile, CallMoves, Updating
<1>11. PatchesCover'
  <2>1. ASSUME NEW d \in Callers, d # c, call[d].pc \in {"apply", "write", "mark"}
        PROVE  call[d].gen < sync.gen + 1
    BY <1>0, <2>1, CallTypes DEF FactsInv, PatchesCover
  <2>2. ASSUME NEW d \in Callers, call'[d].pc \in {"apply", "write", "mark"}
        PROVE  /\ call'[d].gen <= sync'.gen
               /\ call'[d].gen = sync'.gen => sync'.pending \subseteq call'[d].patch
    <3>1. CASE d = c
      BY <1>0, <1>5, <1>6, <1>8, <2>2, <3>1 DEF CallMoves
    <3>2. CASE d # c
      BY <1>0, <1>5, <1>8, <2>1, <2>2, <3>2, CallTypes DEF CallMoves
    <3>. QED BY <3>1, <3>2
  <2>3. FactsNotLost'
    BY <1>0, <1>2, <1>5, <1>7 DEF FactsInv, PatchesCover, FactsNotLost
  <2>4. \A d \in Callers : call'[d].pc = "mark" => call'[d].patch \subseteq db' \cup dropped'
    BY <1>0, <1>2, <1>6, <1>8 DEF FactsInv, PatchesCover, CallMoves
  <2>. QED BY <2>2, <2>3, <2>4 DEF PatchesCover
<1>12. /\ faults' \in 0..MaxFaults /\ faults' >= faults
       /\ db' \subseteq Facts \cup {Mode} /\ dropped' \subseteq Facts /\ seen' \subseteq Facts
  BY <1>0, <1>2, Constants DEF Types
<1>. QED BY <1>0, <1>2, <1>5, <1>6, <1>7, <1>10, <1>11, <1>12, CallerLocal DEF FactsInv

\* Where a call goes on once its metadata is dealt with.
LEMMA AfterMetadataIs ==
    ASSUME Types, NEW c \in Callers, CallerInv, call[c].pc \in {"take", "mark"}
    PROVE  LET r == AfterMetadata(call[c])
           IN  /\ r \in CallRecs /\ Allowed(r) /\ (Counts(r) => Counts(call[c]))
               /\ r.pc \in {"idle", "barrier", "apply"}
               /\ r.pc = "apply" => r.patch = {} /\ r.gen = 0 /\ call[c].op = "memory"
<1>1. CASE call[c].op = "shutdown"
  <2>. DEFINE r == [Idle EXCEPT !.op = "shutdown", !.pc = "barrier"]
  <2>1. r \in CallRecs /\ r.op = "shutdown" /\ r.pc = "barrier"
    BY IdleIs DEF CallRecs, CallPcs, Ops
  <2>2. AfterMetadata(call[c]) = r
    BY <1>1 DEF AfterMetadata
  <2>. HIDE DEF r
  <2>. QED BY <2>1, <2>2, IdleIs DEF Allowed, Counts
<1>2. CASE call[c].op = "memory"
  <2>. DEFINE r == [Idle EXCEPT !.op = "update", !.pc = "apply"]
  <2>1. r \in CallRecs /\ r.op = "update" /\ r.pc = "apply" /\ r.patch = {} /\ r.gen = 0
    BY IdleIs DEF CallRecs, CallPcs, Ops
  <2>2. AfterMetadata(call[c]) = r
    BY <1>2 DEF AfterMetadata
  <2>. HIDE DEF r
  <2>. QED BY <1>2, <2>1, <2>2, IdleIs DEF Allowed, Counts
<1>3. CASE call[c].op \notin {"shutdown", "memory"}
  <2>1. AfterMetadata(call[c]) = Idle
    BY <1>3 DEF AfterMetadata
  <2>. QED BY <2>1, IdleIs DEF Allowed, Counts
<1>. QED BY <1>1, <1>2, <1>3

\* A caller takes the pending patch.
LEMMA TakeStep ==
    ASSUME Inv, NEW c \in Callers, Take(c)
    PROVE  Inv'
<1>. DEFINE holds == call[c].op \in {"flush", "shutdown"} /\ sync.held
            rr == [call[c] EXCEPT !.pc = "apply", !.patch = sync.pending, !.gen = sync.gen]
            r == IF holds \/ sync.pending = {} THEN AfterMetadata(call[c]) ELSE rr
<1>0. /\ Types /\ FileInv /\ CallsInv /\ FactsInv /\ call[c].pc = "take" /\ CallerInv
      /\ sync \in SyncRecs /\ sync.gen \in Nat /\ sync.pending \in SUBSET Facts
  BY DEF Inv, CallsInv, Take, Types, SyncRecs
<1>1. call' = [call EXCEPT ![c] = r]
  BY DEF Take
<1>2. UNCHANGED <<disk, w, chan, live, sync, db, sent, acked, lost, direct, dropped, seen, faults>>
  BY DEF Take
<1>3. /\ rr \in CallRecs /\ rr.pc = "apply" /\ rr.patch = sync.pending /\ rr.gen = sync.gen
      /\ Allowed(rr) /\ (Counts(rr) => Counts(call[c]))
  <2>1. call[c].pc \in {"observe", "take"}
    BY <1>0
  <2>2. rr = Patched(call[c], sync.pending, sync.gen)
    BY DEF Patched
  <2>. HIDE DEF rr, r
  <2>3. HasPatch(call[c], sync.pending, sync.gen, rr)
    BY <1>0, <2>1, <2>2, PatchTaken
  <2>. QED BY <2>3 DEF HasPatch, r
<1>4. ~holds => MetaLine \in InFile
  BY <1>0 DEF FactsInv, FactsInFile, SyncRecs
<1>5. /\ r \in CallRecs /\ Allowed(r) /\ (Counts(r) => Counts(call[c]))
      /\ r.pc \in {"idle", "barrier", "apply"}
      /\ (r.pc = "apply" => r.gen \in {0, sync.gen} /\ MetaLine \in InFile)
      /\ (r.pc = "apply" => r.patch = IF r.gen = 0 THEN {} ELSE sync.pending)
  <2>1. call[c].op = "memory" => MetaLine \in InFile
    BY <1>0 DEF FactsInv, FactsInFile
  <2>2. sync.gen # 0
    BY <1>0 DEF SyncRecs
  <2>3. CASE holds \/ sync.pending = {}
    <3>1. r = AfterMetadata(call[c])
      BY <2>3
    <3>. HIDE DEF r, rr, holds
    <3>. QED BY <1>0, <2>1, <3>1, AfterMetadataIs
  <2>4. CASE ~(holds \/ sync.pending = {})
    <3>1. r = rr /\ ~holds
      BY <2>4
    <3>. HIDE DEF r, rr, holds
    <3>. QED BY <1>0, <1>3, <1>4, <2>2, <3>1
  <2>. QED BY <2>3, <2>4
<1>. HIDE DEF rr, r, holds
<1>6. CallMoves(c, r)
  BY <1>0, <1>1, <1>5, CallSet
<1>7. InFile' = InFile
  BY <1>2, SameLinesKeeps DEF SameLines
<1>8. FactsInFile'
  BY <1>0, <1>2, <1>5, <1>6, <1>7 DEF FactsInv, FactsInFile, CallMoves, Updating
<1>9. PatchesCover'
  <2>1. ASSUME NEW d \in Callers, call'[d].pc \in {"apply", "write", "mark"}
        PROVE  /\ call'[d].gen <= sync'.gen
               /\ call'[d].gen = sync'.gen => sync'.pending \subseteq call'[d].patch
    <3>1. CASE d = c
      <4>1. sync.gen \in Nat \ {0} /\ call'[d] = r /\ sync' = sync
        BY <1>0, <1>2, <1>6, <3>1 DEF CallMoves, SyncRecs
      <4>. QED BY <1>5, <2>1, <4>1
    <3>2. CASE d # c
      BY <1>0, <1>2, <1>6, <2>1, <3>2 DEF CallMoves, FactsInv, PatchesCover
    <3>. QED BY <3>1, <3>2
  <2>2. FactsNotLost'
    BY <1>0, <1>2 DEF FactsInv, PatchesCover, FactsNotLost
  <2>3. \A d \in Callers : call'[d].pc = "mark" => call'[d].patch \subseteq db' \cup dropped'
    BY <1>0, <1>2, <1>5, <1>6 DEF FactsInv, PatchesCover, CallMoves
  <2>. QED BY <2>1, <2>2, <2>3 DEF PatchesCover
<1>10. /\ faults' \in 0..MaxFaults /\ faults' >= faults /\ sync' \in SyncRecs
       /\ db' \subseteq Facts \cup {Mode} /\ dropped' \subseteq Facts /\ seen' \subseteq Facts
  BY <1>0, <1>2, Constants DEF Types
<1>. QED BY <1>0, <1>1, <1>2, <1>5, <1>8, <1>9, <1>10, CallerLocal DEF FactsInv

\* A caller reads the row.
LEMMA ReadRowStep ==
    ASSUME Inv, NEW c \in Callers, ReadRow(c)
    PROVE  Inv'
<1>. DEFINE r == [[call[c] EXCEPT !.pc = "write"] EXCEPT !.row = db \ {Mode}]
<1>0. /\ Types /\ FileInv /\ CallsInv /\ FactsInv /\ call[c].pc = "apply" /\ CallerInv
      /\ db \subseteq Facts \cup {Mode} /\ db \subseteq InFile \cup {Mode}
  BY DEF Inv, CallsInv, ReadRow, Types, FactsInv, FactsInFile
<1>1. call' = [call EXCEPT ![c] = r]
  BY CallTypes, <1>0 DEF ReadRow, Types
<1>2. UNCHANGED <<disk, w, chan, live, sync, db, sent, acked, lost, direct, dropped, seen, faults>>
  BY DEF ReadRow
<1>3. /\ r \in CallRecs /\ r.pc = "write" /\ r.op = call[c].op /\ r.patch = call[c].patch
      /\ r.gen = call[c].gen /\ r.row \subseteq InFile
  BY <1>0, CallTypes DEF CallRecs, CallPcs
<1>. HIDE DEF r
<1>4. call[c].op \notin {"none", "reconcile"} /\ Allowed(r) /\ (Counts(r) => Counts(call[c]))
  BY <1>0, <1>3, IdleIs DEF CallerInv, Allowed, Counts
<1>5. CallMoves(c, r)
  BY <1>0, <1>1, <1>3, CallSet
<1>6. InFile' = InFile
  BY <1>2, SameLinesKeeps DEF SameLines
<1>7. FactsInFile'
  BY <1>0, <1>2, <1>3, <1>5, <1>6 DEF FactsInv, FactsInFile, CallMoves, Updating
<1>8. PatchesCover'
  BY <1>0, <1>2, <1>3, <1>5 DEF FactsInv, PatchesCover, FactsNotLost, CallMoves
<1>9. /\ faults' \in 0..MaxFaults /\ faults' >= faults /\ sync' \in SyncRecs
      /\ db' \subseteq Facts \cup {Mode} /\ dropped' \subseteq Facts /\ seen' \subseteq Facts
  BY <1>0, <1>2, Constants DEF Types
<1>. QED BY <1>0, <1>1, <1>2, <1>3, <1>4, <1>7, <1>8, <1>9, CallerLocal DEF FactsInv

\* No item has the number that stands for the memory mode.
LEMMA ModeIs == Mode \notin Facts
BY Constants DEF Mode

\* A row is written over the one that was there: what it does not show any more is
\* written down as dropped, so that no fact is neither in the row nor dropped.
LEMMA RowWritten ==
    ASSUME Inv, NEW c \in Callers, NEW r \in CallRecs, call' = [call EXCEPT ![c] = r],
           Allowed(r), Counts(r) => Counts(call[c]), call[c].pc \in {"write", "reconcile"},
           r.pc \in {"idle", "barrier", "mark"},
           r.pc = "mark" => /\ r.patch = call[c].patch /\ r.gen = call[c].gen
                            /\ call[c].pc = "write" /\ r.patch \subseteq db' \cup dropped',
           UNCHANGED <<disk, w, chan, live, sync, sent, acked, lost, direct, seen>>,
           faults' \in 0..MaxFaults, faults' >= faults,
           db' \subseteq Facts \cup {Mode}, db' \subseteq InFile \cup {Mode},
           dropped \cup Overwritten \subseteq dropped', dropped' \subseteq Facts
    PROVE  Inv'
<1>0. Types /\ FactsInv /\ seen \subseteq Facts
  BY DEF Inv, Types
<1>1. CallMoves(c, r)
  BY <1>0, CallSet
<1>2. InFile' = InFile
  BY SameLinesKeeps DEF SameLines
<1>3. MetaLine \in InFile
  BY <1>0 DEF FactsInv, FactsInFile, Updating
<1>4. FactsInFile'
  BY <1>0, <1>1, <1>2, <1>3 DEF FactsInv, FactsInFile, CallMoves, Updating
<1>5. \A S : S \subseteq Facts => S \cap (db \cup dropped) \subseteq db' \cup dropped'
  BY ModeIs DEF Overwritten
<1>6. PatchesCover'
  <2>1. ASSUME NEW d \in Callers, call'[d].pc \in {"apply", "write", "mark"}
        PROVE  /\ call'[d].gen <= sync'.gen
               /\ call'[d].gen = sync'.gen => sync'.pending \subseteq call'[d].patch
    BY <1>0, <1>1, <2>1 DEF CallMoves, FactsInv, PatchesCover
  <2>2. FactsNotLost'
    BY <1>0, <1>5 DEF FactsInv, PatchesCover, FactsNotLost
  <2>3. ASSUME NEW d \in Callers, call'[d].pc = "mark"
        PROVE  call'[d].patch \subseteq db' \cup dropped'
    <3>1. CASE d = c
      BY <1>1, <2>3, <3>1 DEF CallMoves
    <3>2. CASE d # c
      <4>1. call'[d] = call[d] /\ call[d].patch \subseteq Facts
        BY <1>0, <1>1, <3>2, CallTypes DEF CallMoves
      <4>2. call[d].patch \subseteq db \cup dropped
        BY <1>0, <2>3, <4>1 DEF FactsInv, PatchesCover
      <4>. QED BY <1>5, <4>1, <4>2
    <3>. QED BY <3>1, <3>2
  <2>. QED BY <2>1, <2>2, <2>3 DEF PatchesCover
<1>7. sync' \in SyncRecs /\ seen' \subseteq Facts
  BY <1>0 DEF Types
<1>. QED BY <1>4, <1>6, <1>7, CallerLocal DEF FactsInv

\* A caller writes back the row it has read, with its patch.
LEMMA WriteRowStep ==
    ASSUME Inv, NEW c \in Callers, WriteRow(c)
    PROVE  Inv'
<1>. DEFINE rm == [[call[c] EXCEPT !.pc = "mark"] EXCEPT !.row = {}]
            ru == [Idle EXCEPT !.op = "update", !.pc = "barrier"]
<1>0. /\ Types /\ FactsInv /\ call[c].pc = "write" /\ CallerInv
      /\ db \subseteq Facts \cup {Mode} /\ dropped \subseteq Facts /\ faults \in 0..MaxFaults
      /\ call[c].patch \subseteq Facts /\ call[c].row \subseteq Facts
      /\ db \subseteq InFile \cup {Mode} /\ call[c].patch \subseteq InFile /\ call[c].row \subseteq InFile
  BY CallTypes DEF Inv, CallsInv, WriteRow, Types, FactsInv, FactsInFile
<1>1. PICK how \in {"written"} \cup (IF faults < MaxFaults THEN {"logged", "error"} ELSE {}) :
         /\ \/ \E gone \in SUBSET Outdated(c) : db' = Upserted(c, gone)
            \/ how # "written" /\ db' = db
         /\ dropped' = dropped \cup Overwritten \cup (IF how = "logged" THEN call[c].patch ELSE {})
         /\ call' = [call EXCEPT ![c] = IF how = "error" THEN Idle
                                     ELSE IF call[c].op = "update" THEN ru ELSE rm]
         /\ CountFault(how = "written")
  BY DEF WriteRow
<1>2. UNCHANGED <<disk, w, chan, live, sync, sent, acked, lost, direct, seen>>
  BY DEF WriteRow
<1>3. faults' \in 0..MaxFaults /\ faults' >= faults
  BY <1>0, <1>1, Constants DEF CountFault
<1>4. db' \subseteq Facts \cup {Mode} /\ db' \subseteq InFile \cup {Mode}
      /\ (how = "written" => call[c].patch \subseteq db')
  <2>1. CASE db' = db /\ how # "written"
    BY <1>0, <2>1
  <2>2. ASSUME NEW gone \in SUBSET Outdated(c), db' = Upserted(c, gone)
        PROVE  /\ db' \subseteq Facts \cup {Mode} /\ db' \subseteq InFile \cup {Mode}
               /\ call[c].patch \subseteq db'
    BY <1>0, <2>2 DEF Upserted
  <2>. QED BY <1>1, <2>1, <2>2
<1>5. dropped \cup Overwritten \subseteq dropped' /\ dropped' \subseteq Facts
      /\ (how # "error" => call[c].patch \subseteq db' \cup dropped')
  BY <1>0, <1>1, <1>4 DEF Overwritten
<1>6. /\ rm \in CallRecs /\ rm.pc = "mark" /\ rm.patch = call[c].patch /\ rm.gen = call[c].gen
      /\ rm.op = call[c].op /\ call[c].op \notin {"none", "reconcile"}
  BY <1>0, CallTypes DEF CallRecs, CallPcs, CallerInv
<1>7. ru \in CallRecs /\ ru.op = "update" /\ ru.pc = "barrier"
  BY IdleIs DEF CallRecs, CallPcs, Ops
<1>. DEFINE r == IF how = "error" THEN Idle ELSE IF call[c].op = "update" THEN ru ELSE rm
<1>. HIDE DEF rm, ru
<1>8. /\ r \in CallRecs /\ Allowed(r) /\ (Counts(r) => Counts(call[c]))
      /\ r.pc \in {"idle", "barrier", "mark"}
      /\ (r.pc = "mark" => r.patch = call[c].patch /\ r.gen = call[c].gen /\ how # "error")
  <2>1. CASE how = "error"
    <3>1. r = Idle
      BY <2>1
    <3>. HIDE DEF r
    <3>. QED BY <3>1, IdleIs DEF Allowed, Counts
  <2>2. CASE how # "error" /\ call[c].op = "update"
    <3>1. r = ru
      BY <2>2
    <3>. HIDE DEF r
    <3>. QED BY <1>7, <2>2, <3>1, IdleIs DEF Allowed, Counts
  <2>3. CASE how # "error" /\ call[c].op # "update"
    <3>1. r = rm
      BY <2>3
    <3>. HIDE DEF r
    <3>. QED BY <1>6, <2>3, <3>1, IdleIs DEF Allowed, Counts
  <2>. QED BY <2>1, <2>2, <2>3
<1>9. call' = [call EXCEPT ![c] = r]
  BY <1>1
<1>. HIDE DEF r
<1>. QED BY <1>0, <1>2, <1>3, <1>4, <1>5, <1>8, <1>9, RowWritten

\* A caller derives the row from the file.
LEMMA ReloadRowStep ==
    ASSUME Inv, NEW c \in Callers, ReloadRow(c)
    PROVE  Inv'
<1>. DEFINE r == [[call[c] EXCEPT !.pc = "reconcile"] EXCEPT !.row = LoadedLines(disk)]
<1>0. /\ Types /\ FileInv /\ CallsInv /\ FactsInv /\ call[c].pc = "reload" /\ CallerInv
      /\ disk \in Disks
  BY DEF Inv, CallsInv, ReloadRow, Types
<1>1. call' = [call EXCEPT ![c] = r]
  BY CallTypes, <1>0 DEF ReloadRow, Types
<1>2. UNCHANGED <<disk, w, chan, live, sync, db, sent, acked, lost, direct, dropped, seen, faults>>
  BY DEF ReloadRow
<1>3. LoadedLines(disk) \subseteq InFile /\ LoadedLines(disk) \subseteq Facts
  BY <1>0, LoadedInFile, LineTypes
<1>4. r \in CallRecs /\ r.pc = "reconcile" /\ r.op = call[c].op /\ r.row \subseteq InFile
  BY <1>0, <1>3, CallTypes DEF CallRecs, CallPcs
<1>. HIDE DEF r
<1>5. call[c].op # "none" /\ Allowed(r) /\ (Counts(r) => Counts(call[c]))
  BY <1>0, <1>4, IdleIs DEF CallerInv, Allowed, Counts
<1>6. CallMoves(c, r)
  BY <1>0, <1>1, <1>4, CallSet
<1>7. InFile' = InFile
  BY <1>2, SameLinesKeeps DEF SameLines
<1>8. FactsInFile'
  BY <1>0, <1>2, <1>4, <1>6, <1>7 DEF FactsInv, FactsInFile, CallMoves, Updating
<1>9. PatchesCover'
  BY <1>0, <1>2, <1>4, <1>6 DEF FactsInv, PatchesCover, FactsNotLost, CallMoves
<1>10. /\ faults' \in 0..MaxFaults /\ faults' >= faults /\ sync' \in SyncRecs
       /\ db' \subseteq Facts \cup {Mode} /\ dropped' \subseteq Facts /\ seen' \subseteq Facts
  BY <1>0, <1>2, Constants DEF Types
<1>. QED BY <1>0, <1>1, <1>2, <1>4, <1>5, <1>8, <1>9, <1>10, CallerLocal DEF FactsInv

\* A caller writes the row it has derived.
LEMMA ReconcileStep ==
    ASSUME Inv, NEW c \in Callers, Reconcile(c)
    PROVE  Inv'
<1>0. /\ Types /\ FactsInv /\ call[c].pc = "reconcile"
      /\ db \subseteq Facts \cup {Mode} /\ dropped \subseteq Facts /\ faults \in 0..MaxFaults
      /\ call[c].row \subseteq Facts /\ db \subseteq InFile \cup {Mode} /\ call[c].row \subseteq InFile
  BY CallTypes DEF Inv, Reconcile, Types, FactsInv, FactsInFile
<1>1. /\ call' = [call EXCEPT ![c] = Idle] /\ dropped' = dropped \cup Overwritten
      /\ UNCHANGED <<disk, w, chan, live, sync, sent, acked, lost, direct, seen>>
  BY DEF Reconcile
<1>2. db' \subseteq Facts \cup {Mode} /\ db' \subseteq InFile \cup {Mode}
  BY <1>0 DEF Reconcile
<1>3. faults' \in 0..MaxFaults /\ faults' >= faults
  BY <1>0, Constants DEF Reconcile
<1>4. dropped' \subseteq Facts
  BY <1>0, <1>1 DEF Overwritten
<1>5. Idle \in CallRecs /\ Allowed(Idle) /\ ~Counts(Idle) /\ Idle.pc = "idle"
  BY IdleIs DEF Allowed, Counts
<1>. QED BY <1>0, <1>1, <1>2, <1>3, <1>4, <1>5, RowWritten

\* A caller marks its patch as applied.
LEMMA MarkStep ==
    ASSUME Inv, NEW c \in Callers, Mark(c)
    PROVE  Inv'
<1>. DEFINE r == AfterMetadata(call[c])
            p == IF sync.gen = call[c].gen THEN {} ELSE sync.pending
            b == sync.touched \/ CarriesTouch(call[c])
<1>0. /\ Types /\ FileInv /\ CallsInv /\ FactsInv /\ call[c].pc = "mark" /\ CallerInv
      /\ sync \in SyncRecs /\ sync.pending \in SUBSET Facts
  BY DEF Inv, CallsInv, Mark, Types, SyncRecs
<1>1. sync' = [sync EXCEPT !.pending = p, !.touched = b] /\ call' = [call EXCEPT ![c] = r]
  BY DEF Mark
<1>2. UNCHANGED <<disk, w, chan, live, db, sent, acked, lost, direct, dropped, seen, faults>>
  BY DEF Mark
<1>3. /\ r \in CallRecs /\ Allowed(r) /\ (Counts(r) => Counts(call[c]))
      /\ r.pc \in {"idle", "barrier", "apply"} /\ (r.pc = "apply" => r.patch = {} /\ r.gen = 0)
  BY <1>0, AfterMetadataIs
<1>4. p \in SUBSET Facts /\ p \subseteq sync.pending /\ b \in BOOLEAN
      /\ (p = sync.pending \/ (p = {} /\ sync.gen = call[c].gen))
  BY <1>0
<1>. HIDE DEF r, p, b
<1>5. sync' \in SyncRecs /\ sync'.pending = p /\ sync'.gen = sync.gen /\ sync'.held = sync.held
  BY <1>0, <1>1, <1>4 DEF SyncRecs
<1>6. CallMoves(c, r)
  BY <1>0, <1>1, <1>3, CallSet
<1>7. InFile' = InFile
  BY <1>2, SameLinesKeeps DEF SameLines
<1>8. FactsInFile'
  BY <1>0, <1>2, <1>3, <1>4, <1>5, <1>6, <1>7 DEF FactsInv, FactsInFile, CallMoves, Updating
<1>9. PatchesCover'
  <2>1. ASSUME NEW d \in Callers, call'[d].pc \in {"apply", "write", "mark"}
        PROVE  /\ call'[d].gen <= sync'.gen
               /\ call'[d].gen = sync'.gen => sync'.pending \subseteq call'[d].patch
    <3>1. CASE d = c
      <4>1. sync'.gen \in Nat \ {0}
        BY <1>5 DEF SyncRecs
      <4>. QED BY <1>3, <1>6, <2>1, <3>1, <4>1 DEF CallMoves
    <3>2. CASE d # c
      BY <1>0, <1>4, <1>5, <1>6, <2>1, <3>2 DEF CallMoves, FactsInv, PatchesCover
    <3>. QED BY <3>1, <3>2
  <2>2. FactsNotLost'
    <3>1. sync.gen = call[c].gen => sync.pending \subseteq db \cup dropped
      BY <1>0 DEF FactsInv, PatchesCover
    <3>. QED BY <1>0, <1>2, <1>4, <1>5, <3>1 DEF FactsInv, PatchesCover, FactsNotLost
  <2>3. \A d \in Callers : call'[d].pc = "mark" => call'[d].patch \subseteq db' \cup dropped'
    BY <1>0, <1>2, <1>3, <1>6 DEF FactsInv, PatchesCover, CallMoves
  <2>. QED BY <2>1, <2>2, <2>3 DEF PatchesCover
<1>10. /\ faults' \in 0..MaxFaults /\ faults' >= faults
       /\ db' \subseteq Facts \cup {Mode} /\ dropped' \subseteq Facts /\ seen' \subseteq Facts
  BY <1>0, <1>2, Constants DEF Types
<1>11. call[c].pc # "wait" /\ r.pc # "wait"
  BY <1>0, <1>3
<1>. QED BY <1>0, <1>1, <1>2, <1>3, <1>5, <1>8, <1>9, <1>10, <1>11, CallerLocal DEF FactsInv

----------------------------------------------------------------------------
(* Lines that go past the recorder. *)

\* The line is in the file or lost; the session meta was there before it.
LEMMA AppendToPathKeeps ==
    ASSUME Types, FileInv, AppendToPath, Resumable(disk), sent + 1 <= MaxItems, UNCHANGED <<w, chan>>
    PROVE  /\ FileInv' /\ disk' \in Disks /\ faults' \in 0..MaxFaults
           /\ sent' = sent + 1 /\ sent' \in 0..MaxItems
           /\ acked' \subseteq Facts /\ lost' \subseteq Facts /\ direct' \subseteq Facts
           /\ lost' \subseteq lost \cup {sent + 1} /\ InFile \subseteq InFile'
<1>1. PICK o \in WriteOutcomes(disk, sent + 1) :
         /\ disk' = o.disk /\ CountFault(o.ok) /\ sent' = sent + 1
         /\ acked' = IF o.ok THEN acked \cup {sent + 1} ELSE acked
         /\ direct' = direct \cup {sent + 1}
         /\ lost' = IF o.ok THEN lost ELSE lost \cup {sent + 1}
  BY DEF AppendToPath
<1>2. /\ sent \in Nat /\ sent + 1 \in Items /\ sent + 1 \in Facts /\ sent + 1 \in 0..MaxItems
      /\ disk \in Disks /\ Pipe /\ MetaFirst /\ WriterInv /\ Durable /\ Damage(disk) <= faults
  BY Constants DEF Types, FileInv, Pipe, Durable
<1>3. /\ disk' \in Disks /\ faults' \in 0..MaxFaults /\ Damage(disk') <= faults'
      /\ o.ok \in BOOLEAN /\ (o.ok => AddsLine(sent + 1)) /\ (~o.ok => SameLines)
  BY <1>1, <1>2, OutcomeIs
<1>4. InFile' = IF o.ok THEN InFile \cup {sent + 1} ELSE InFile
  BY <1>2, <1>3, AddsLineGrows, SameLinesKeeps
<1>5. Pipe'
  BY <1>1, <1>2, <1>3, PipeDirect, QueueStill
<1>6. Len(disk.lines) \in Nat /\ Len(disk.lines) # 0
  <2>1. MetaLine \in InFile
    BY <1>2, LoadedInFile DEF Resumable
  <2>. QED BY <1>2, <2>1, LineTypes DEF InFile
<1>7. MetaFirst'
  <2>1. CASE o.ok
    <3>1. AddsLine(sent + 1)
      BY <1>3, <2>1
    <3>2. 1 \in 1..Len(disk.lines) /\ Index(disk.lines[1]) = MetaLine
      BY <1>2, <1>6 DEF MetaFirst
    <3>3. \A k \in 1..Len(disk'.lines) : 1 \in 1..k
      BY <1>6, <3>1 DEF AddsLine
    <3>4. Index(disk'.lines[1]) = MetaLine
      BY <3>1, <3>2 DEF AddsLine
    <3>5. Len(disk'.lines) # 0
      BY <1>6, <3>1 DEF AddsLine
    <3>. QED BY <1>2, <1>6, <3>3, <3>4, <3>5 DEF MetaFirst
  <2>2. CASE ~o.ok
    BY <1>2, <1>3, <2>2 DEF MetaFirst, SameLines
  <2>. QED BY <1>3, <2>1, <2>2
<1>8. WriterInv'
  BY <1>2 DEF WriterInv
<1>9. Durable'
  BY <1>1, <1>2, <1>3, <1>4 DEF Durable
<1>10. FileInv'
  BY <1>5, <1>7, <1>8, <1>9 DEF FileInv, Pipe
<1>11. /\ acked' \subseteq Facts /\ lost' \subseteq Facts /\ direct' \subseteq Facts
       /\ lost' \subseteq lost \cup {sent + 1}
  BY <1>1, <1>2 DEF Types
<1>. QED BY <1>1, <1>2, <1>3, <1>4, <1>10, <1>11

\* A line is written past the recorder.
LEMMA DirectAppendStep ==
    ASSUME Inv, NEW c \in Callers, DirectAppend(c)
    PROVE  Inv'
<1>0. /\ Types /\ FileInv /\ CallsInv /\ FactsInv /\ call[c].pc = "direct" /\ call[c].op = "update"
  BY DEF Inv, CallsInv, CallerInv, DirectAppend
<1>. DEFINE rr == [Idle EXCEPT !.op = "reconcile", !.pc = "reload"]
            r == IF sent' \in acked' \ acked THEN rr ELSE Idle
<1>1. call' = [call EXCEPT ![c] = r] /\ UNCHANGED <<w, chan, live, sync, db, dropped, seen>>
  BY DEF DirectAppend
<1>4. /\ r \in CallRecs /\ ~Counts(r) /\ Allowed(r) /\ r.pc \in {"idle", "reload"}
  <2>1. rr \in CallRecs /\ rr.op = "reconcile" /\ rr.pc = "reload"
    BY IdleIs DEF CallRecs, Ops, CallPcs
  <2>. HIDE DEF rr
  <2>. QED BY <2>1, IdleIs DEF Counts, Allowed
<1>2. CASE ~Resumable(disk)
  <2>1. UNCHANGED <<disk, faults, sent, acked, lost, direct>>
    BY <1>2 DEF DirectAppend
  <2>2. call' = [call EXCEPT ![c] = Idle]
    BY <1>1, <2>1
  <2>. QED BY <1>0, <1>1, <2>1, <2>2, CallerIdles DEF Types
<1>. HIDE DEF r, rr
<1>3. CASE Resumable(disk)
  <2>1. AppendToPath
    BY <1>3 DEF DirectAppend
  <2>2. CallMoves(c, r)
    BY <1>0, <1>1, <1>4, CallSet
  <2>3. c \in Appending /\ Appending' \subseteq Appending \ {c}
    BY <1>0, <1>4, <2>2, AppendingIs, AppendingMoves DEF Counts
  <2>4. Room /\ sent' = sent + 1
    BY <1>0, <2>1 DEF CallsInv, AppendToPath
  <2>5. Room' /\ sent + 1 <= MaxItems
    BY <1>0, <2>3, <2>4, RoomSpent
  <2>6. /\ FileInv' /\ disk' \in Disks /\ faults' \in 0..MaxFaults
        /\ sent' = sent + 1 /\ sent' \in 0..MaxItems
        /\ acked' \subseteq Facts /\ lost' \subseteq Facts /\ direct' \subseteq Facts
        /\ lost' \subseteq lost \cup {sent + 1} /\ InFile \subseteq InFile'
    BY <1>0, <1>1, <1>3, <2>1, <2>5, AppendToPathKeeps
  <2>7. Types'
    BY <1>0, <1>1, <2>2, <2>6 DEF Types, CallMoves
  <2>8. CallsInv'
    BY <1>0, <1>1, <1>4, <2>2, <2>5, <2>6, CallsLocal
  <2>9. FactsInv'
    <3>1. MetaLine \in InFile'
      BY <1>0, <1>3, <2>6, LoadedInFile DEF Resumable, Types
    <3>2. Harmless(r)
      BY <1>4, <3>1 DEF Harmless
    <3>. QED BY <1>0, <1>1, <2>2, <2>6, <3>2, FactsKept DEF CallMoves
  <2>. QED BY <2>6, <2>7, <2>8, <2>9 DEF Inv
<1>. QED BY <1>2, <1>3

\* When no caller is at work there is nothing to wait for.
LEMMA CallsQuiet ==
    ASSUME Types', \A c \in Callers : call'[c] = Idle, w'.pc \in {"recv", "ended"}, chan' = <<>>
    PROVE  CallsInv'
<1>1. Adds' = {} /\ Barriers' = {} /\ ~Serving'
  BY DEF Adds, Barriers, Serving
<1>2. BarriersCover' /\ OneBarrierEach'
  BY <1>1 DEF BarriersCover, OneBarrierEach
<1>3. CallerInv'
  BY IdleIs DEF CallerInv
<1>4. Appending' = {}
  BY AppendingIsNext, IdleIs DEF Counts
<1>5. Room'
  BY <1>4, FS_EmptySet, Constants DEF Room, Types
<1>. QED BY <1>2, <1>3, <1>5 DEF CallsInv

\* No call is under way.
LEMMA AllIdleIs ==
    ASSUME CallsInv, AllIdle
    PROVE  \A c \in Callers : call[c] = Idle
BY DEF CallsInv, CallerInv, AllIdle

\* A line is written while no recorder is open.
LEMMA UnloadedAppendStep ==
    ASSUME Inv, UnloadedAppend
    PROVE  Inv'
<1>0. /\ Types /\ FileInv /\ CallsInv /\ FactsInv /\ w.pc = "ended" /\ chan = <<>>
      /\ AllIdle /\ Resumable(disk) /\ sent + 1 <= MaxItems /\ AppendToPath
      /\ UNCHANGED <<w, chan, live, call, sync, seen>> /\ ~live /\ disk \in Disks
      /\ db' \in {db, db \cup {Mode}, LoadedLines(disk')} /\ dropped' = dropped \cup Overwritten
  BY Constants DEF Inv, FileInv, WriterInv, UnloadedAppend, Types
<1>1. /\ FileInv' /\ disk' \in Disks /\ faults' \in 0..MaxFaults
      /\ sent' = sent + 1 /\ sent' \in 0..MaxItems
      /\ acked' \subseteq Facts /\ lost' \subseteq Facts /\ direct' \subseteq Facts
      /\ lost' \subseteq lost \cup {sent + 1} /\ InFile \subseteq InFile'
  BY <1>0, AppendToPathKeeps
<1>5. MetaLine \in InFile'
  BY <1>0, <1>1, LoadedInFile DEF Resumable
<1>6. LoadedLines(disk') \subseteq InFile' /\ LoadedLines(disk') \subseteq Facts
  <2>1. disk'.lines \in Seq((-(MaxItems + 1))..MaxItems)
    BY <1>1 DEF Disks
  <2>2. LoadedLines(disk') \subseteq InFile'
    BY <2>1 DEF LoadedLines, InFile, Index
  <2>3. LoadedLines(disk') \subseteq 0..MaxItems
    BY <2>1, Constants DEF LoadedLines
  <2>. QED BY <2>2, <2>3, Constants
<1>2. Types'
  <2>1. db' \subseteq Facts \cup {Mode} /\ dropped' \subseteq Facts
    BY <1>0, <1>6 DEF Types, Overwritten
  <2>. QED BY <1>0, <1>1, <2>1 DEF Types
<1>3. CallsInv'
  BY <1>0, <1>2, AllIdleIs, CallsQuiet
<1>4. FactsInv'
  <2>1. \A c \in Callers : call'[c].pc = "idle"
    BY <1>0, AllIdleIs, IdleIs
  <2>2. FactsInFile'
    <3>1. db' \subseteq InFile' \cup {Mode} /\ sync'.pending \subseteq InFile' \cup {MetaLine}
      BY <1>0, <1>1, <1>6 DEF FactsInv, FactsInFile
    <3>. QED BY <1>5, <2>1, <3>1 DEF FactsInFile, Updating
  <2>3. PatchesCover'
    BY <1>0, <2>1 DEF PatchesCover, FactsNotLost
  <2>. QED BY <2>2, <2>3 DEF FactsInv
<1>. QED BY <1>1, <1>2, <1>3, <1>4 DEF Inv

----------------------------------------------------------------------------
(* Sessions that end, die and come back. *)

\* The record that stands for no command.
LEMMA NoCommandIs == NoCommand \in Commands /\ NoCommand.kind = "none"
<1>1. NoCommand.from \in Callers \cup {NoCommand.from}
  OBVIOUS
<1>2. NoCommand = [kind |-> "none", item |-> 0, from |-> NoCommand.from, upto |-> 0]
  BY DEF NoCommand
<1>. QED BY <1>1, <1>2, Constants DEF Commands, Kinds

\* The writer of a new recorder.
LEMMA NewWriterIs ==
    ASSUME NEW d \in BOOLEAN, NEW m \in BOOLEAN
    PROVE  LET n == NewWriter(d, m)
           IN  /\ n \in WriterRecs /\ n.pc = "recv" /\ n.meta = m /\ n.pending = <<>> /\ n.written = 0
BY NoCommandIs DEF NewWriter, WriterRecs, WriterPcs

\* A writer that has ended.
LEMMA EndedIs ==
    Ended \in WriterRecs /\ Ended.pc = "ended" /\ Ended.pending = <<>> /\ Ended.written = 0
<1>1. /\ NewWriter(FALSE, FALSE) \in WriterRecs
      /\ NewWriter(FALSE, FALSE).pending = <<>> /\ NewWriter(FALSE, FALSE).written = 0
  BY NewWriterIs
<1>. QED BY <1>1 DEF Ended, WriterRecs, WriterPcs

\* An empty queue.
LEMMA QueueEmpty ==
    ASSUME w'.pending = <<>>, w'.written = 0
    PROVE  Left' = 0
BY DEF Left

\* The recorder is discarded.
LEMMA DiscardStep ==
    ASSUME Inv, Discard
    PROVE  Inv'
<1>0. /\ Types /\ FileInv /\ CallsInv /\ FactsInv /\ AllIdle /\ chan = <<>> /\ w \in WriterRecs
      /\ live' = FALSE /\ w' = Ended /\ lost' = lost \cup Unwritten
      /\ UNCHANGED <<disk, chan, call, sync, db, sent, acked, direct, dropped, seen, faults>>
  BY DEF Inv, Discard, Types
<1>1. w' \in WriterRecs /\ w'.pc = "ended" /\ w'.pending = <<>> /\ w'.written = 0
  BY <1>0, EndedIs
<1>2. SameLines /\ InFile' = InFile
  BY <1>0, SameLinesKeeps DEF SameLines
<1>3. AddSet = {} /\ Unwritten = TodoSet /\ TodoSet \subseteq 1..sent
  BY <1>0, UnwrittenIs DEF AddSet, Adds, FileInv, Conserved
<1>4. lost' = lost \cup TodoSet \cup AddSet /\ lost' \subseteq Facts
  <2>1. 1..sent \subseteq Facts
    BY <1>0, Constants DEF Types
  <2>. QED BY <1>0, <1>3, <2>1 DEF Types
<1>5. Types'
  <2>1. w'.written <= Len(w'.pending)
    BY <1>1
  <2>2. UNION {acked', lost', direct', dropped', seen'} \subseteq Facts
    BY <1>0, <1>4 DEF Types
  <2>3. live' \in BOOLEAN
    BY <1>0
  <2>. QED BY <1>0, <1>1, <2>1, <2>2, <2>3 DEF Types
<1>6. FileInv'
  <2>1. Pipe'
    BY <1>0, <1>1, <1>2, <1>4, PipeDrops, QueueEmpty DEF FileInv, Pipe
  <2>2. MetaFirst' /\ WriterInv' /\ Durable'
    BY <1>0, <1>1, <1>2 DEF FileInv, MetaFirst, WriterInv, Durable
  <2>. QED BY <2>1, <2>2 DEF FileInv, Pipe
<1>7. CallsInv'
  BY <1>0, <1>1, <1>5, AllIdleIs, CallsQuiet
<1>8. FactsInv'
  BY <1>0, <1>2, FactsKept
<1>. QED BY <1>5, <1>6, <1>7, <1>8 DEF Inv

\* The observer of a new recorder.
LEMMA NewSyncIs ==
    ASSUME NEW d \in BOOLEAN, NEW S \in SUBSET Facts
    PROVE  LET n == NewSync(d, S)
           IN  n \in SyncRecs /\ n.pending = S /\ n.held = TRUE
BY DEF NewSync, SyncRecs

\* With every caller idle, the metadata to come is in the file or in no hurry.
LEMMA FactsQuiet ==
    ASSUME FactsInv, InFile' = InFile, db' = db, \A c \in Callers : call'[c] = Idle,
           sync'.pending \subseteq InFile, sync'.held = TRUE, live' => seen' \subseteq sync'.pending
    PROVE  FactsInv'
<1>1. FactsInFile'
  BY IdleIs DEF FactsInv, FactsInFile, Updating
<1>2. PatchesCover'
  BY IdleIs DEF PatchesCover, FactsNotLost
<1>. QED BY <1>1, <1>2 DEF FactsInv

\* A resume opens the file again.
LEMMA ResumeStep ==
    ASSUME Inv, Resume
    PROVE  Inv'
<1>0. /\ Types /\ FileInv /\ CallsInv /\ FactsInv /\ AllIdle /\ disk \in Disks
      /\ w.pc = "ended" /\ w.pending = <<>> /\ chan = <<>> /\ Resumable(disk)
      /\ live' = TRUE /\ w' = NewWriter(FALSE, FALSE)
      /\ sync' = NewSync(FALSE, LoadedLines(disk)) /\ seen' = LoadedLines(disk)
      /\ UNCHANGED <<disk, chan, call, db, sent, acked, lost, direct, dropped, faults>>
  BY DEF Inv, Resume, Types, FileInv, WriterInv
<1>1. w' \in WriterRecs /\ w'.pc = "recv" /\ w'.meta = FALSE /\ w'.pending = <<>> /\ w'.written = 0
  BY <1>0, NewWriterIs
<1>2. SameLines /\ InFile' = InFile
  BY <1>0, SameLinesKeeps DEF SameLines
<1>3. LoadedLines(disk) \subseteq InFile /\ InFile \subseteq Facts
  BY <1>0, LoadedInFile, LineTypes
<1>4. sync' \in SyncRecs /\ sync'.pending = LoadedLines(disk) /\ sync'.held = TRUE
  BY <1>0, <1>3, NewSyncIs
<1>5. Types'
  <2>1. w'.written <= Len(w'.pending)
    BY <1>1
  <2>2. seen' \subseteq Facts
    BY <1>0, <1>3
  <2>. QED BY <1>0, <1>1, <1>4, <2>1, <2>2 DEF Types
<1>6. QueueKept
  <2>1. Left = 0
    BY <1>0, WriterTypes DEF Left
  <2>2. Left' = 0
    BY <1>1, QueueEmpty
  <2>. QED BY <2>1, <2>2 DEF QueueKept
<1>7. FileInv'
  <2>1. Pipe'
    BY <1>0, <1>2, <1>6, PipeKept DEF FileInv, Pipe
  <2>2. Len(disk.lines) # 0
    <3>1. MetaLine \in InFile
      BY <1>0, <1>3 DEF Resumable
    <3>. QED BY <3>1 DEF InFile
  <2>3. MetaFirst'
    BY <1>0, <1>1, <2>2 DEF FileInv, MetaFirst
  <2>4. WriterInv' /\ Durable'
    BY <1>0, <1>1, <1>2 DEF FileInv, WriterInv, Durable
  <2>. QED BY <2>1, <2>3, <2>4 DEF FileInv, Pipe
<1>8. CallsInv'
  BY <1>0, <1>1, <1>5, AllIdleIs, CallsQuiet
<1>9. FactsInv'
  BY <1>0, <1>2, <1>3, <1>4, AllIdleIs, FactsQuiet
<1>. QED BY <1>5, <1>7, <1>8, <1>9 DEF Inv

\* A crash loses channel, writer and callers.
LEMMA CrashStep ==
    ASSUME Inv, Crash
    PROVE  Inv'
<1>0. /\ Types /\ FileInv /\ CallsInv /\ FactsInv /\ disk \in Disks /\ w \in WriterRecs
      /\ faults < MaxFaults /\ faults' = faults + 1 /\ faults \in 0..MaxFaults
      /\ w' = Ended /\ chan' = <<>> /\ live' = FALSE /\ call' = [c \in Callers |-> Idle]
      /\ sync' = NewSync(FALSE, {}) /\ seen' = {}
      /\ lost' = lost \cup Unwritten \cup QueuedItems
      /\ UNCHANGED <<db, sent, acked, direct, dropped>>
  BY DEF Inv, Crash, Types
<1>1. PICK t \in BOOLEAN : disk' = [disk EXCEPT !.torn = t]
  BY <1>0 DEF Crash, Disks
<1>2. disk' \in Disks /\ SameLines /\ Damage(disk') <= Damage(disk) + 1 /\ InFile' = InFile
  BY <1>0, <1>1, TornIs, SameLinesKeeps
<1>3. w' \in WriterRecs /\ w'.pc = "ended" /\ w'.pending = <<>> /\ w'.written = 0
  BY <1>0, EndedIs
<1>4. lost' = lost \cup TodoSet \cup AddSet /\ lost' \subseteq Facts
  <2>1. Unwritten = TodoSet /\ QueuedItems = AddSet
    BY <1>0, UnwrittenIs, QueuedIs DEF Types
  <2>2. 1..sent \subseteq Facts /\ TodoSet \subseteq 1..sent /\ AddSet \subseteq 1..sent
    BY <1>0, Constants DEF Types, FileInv, Conserved
  <2>. QED BY <1>0, <2>1, <2>2 DEF Types
<1>5. sync' \in SyncRecs /\ sync'.pending = {} /\ sync'.held = TRUE
  BY <1>0, NewSyncIs
<1>6. faults' \in 0..MaxFaults /\ Damage(disk') <= faults'
  <2>1. Damage(disk) \in Nat /\ Damage(disk') \in Nat
    BY SpoiltFinite DEF Damage
  <2>. QED BY <1>0, <1>2, <2>1, Constants DEF FileInv, Durable
<1>7. Types'
  <2>1. chan' \in Seq(Commands) /\ Len(chan') <= Capacity
    BY <1>0, RolloutAssumption
  <2>2. call' \in [Callers -> CallRecs]
    BY <1>0, IdleIs
  <2>3. w' \in WriterRecs /\ w'.written <= Len(w'.pending)
    BY <1>3
  <2>4. UNION {acked', lost', direct', dropped', seen'} \subseteq Facts /\ db' \subseteq Facts \cup {Mode}
    BY <1>0, <1>4 DEF Types
  <2>5. live' \in BOOLEAN /\ sent' \in 0..MaxItems
    BY <1>0 DEF Types
  <2>. QED BY <1>2, <1>5, <1>6, <2>1, <2>2, <2>3, <2>4, <2>5 DEF Types
<1>8. FileInv'
  <2>0. Len(chan') = 0
    BY <1>0
  <2>1. Pipe'
    BY <1>0, <1>2, <1>3, <1>4, <2>0, PipeDrops, QueueEmpty DEF FileInv, Pipe
  <2>2. MetaFirst' /\ WriterInv' /\ Durable'
    BY <1>0, <1>2, <1>3, <1>6 DEF FileInv, MetaFirst, WriterInv, Durable, SameLines
  <2>. QED BY <2>1, <2>2 DEF FileInv, Pipe
<1>9. CallsInv'
  BY <1>0, <1>3, <1>7, CallsQuiet
<1>10. FactsInv'
  BY <1>0, <1>2, <1>5, FactsQuiet
<1>. QED BY <1>7, <1>8, <1>9, <1>10 DEF Inv

\* The initial states.
LEMMA InvInit == Init => Inv
<1>. SUFFICES ASSUME Init PROVE Inv
  OBVIOUS
<1>1. w \in WriterRecs /\ w.pc = "recv" /\ w.meta = TRUE /\ w.pending = <<>> /\ w.written = 0
  BY NewWriterIs DEF Init
<1>2. sync \in SyncRecs /\ sync.pending = {0} /\ sync.held = TRUE
  <2>1. {0} \in SUBSET Facts
    BY Constants
  <2>. QED BY <2>1, NewSyncIs DEF Init
<1>3. /\ disk \in Disks /\ disk.lines = <<>> /\ disk.torn = FALSE /\ chan = <<>>
      /\ \A c \in Callers : call[c] = Idle
      /\ call \in [Callers -> CallRecs]
      /\ db = {} /\ sent = 0 /\ acked = {} /\ lost = {} /\ direct = {} /\ dropped = {}
      /\ faults = 0 /\ seen = {0} /\ live = TRUE
  BY IdleIs DEF Init, Disks
<1>4. Types
  <2>1. chan \in Seq(Commands) /\ Len(chan) <= Capacity /\ w.written <= Len(w.pending)
    BY <1>1, <1>3, RolloutAssumption
  <2>. QED BY <1>1, <1>2, <1>3, <2>1, Constants DEF Types
<1>5. Left = 0 /\ Adds = {} /\ Barriers = {} /\ Recorded = {} /\ InFile = {} /\ ~Serving
  BY <1>1, <1>3 DEF Left, Adds, Barriers, Recorded, InFile, Serving
<1>6. FileInv
  <2>1. Conserved
    BY <1>3, <1>5 DEF Conserved, TodoSet, AddSet
  <2>2. Ordered /\ MetaFirst /\ WriterInv
    BY <1>1, <1>3, <1>5 DEF Ordered, MetaFirst, WriterInv
  <2>3. Durable
    <3>1. SpoiltLines(disk) = {}
      BY <1>3 DEF SpoiltLines, Range
    <3>. QED BY <1>3, <3>1, FS_EmptySet DEF Durable, Damage
  <2>. QED BY <2>1, <2>2, <2>3 DEF FileInv
<1>7. CallsInv
  <2>1. Appending = {}
    BY <1>3, AppendingIs, IdleIs DEF Counts
  <2>2. Room
    BY <1>3, <2>1, FS_EmptySet, Constants DEF Room
  <2>3. BarriersCover /\ OneBarrierEach /\ CallerInv
    BY <1>3, <1>5, IdleIs DEF BarriersCover, OneBarrierEach, CallerInv
  <2>. QED BY <2>2, <2>3 DEF CallsInv
<1>8. FactsInv
  BY <1>2, <1>3, IdleIs DEF FactsInv, FactsInFile, PatchesCover, FactsNotLost, MetaLine, Updating
<1>. QED BY <1>4, <1>6, <1>7, <1>8 DEF Inv

----------------------------------------------------------------------------
(* The steps of the writer. *)

\* While the writer works on a command nobody else is concerned.
LEMMA WriterWorks ==
    ASSUME Types, CallsInv, FactsInv, w.pc \in {"open", "meta", "item"},
           w'.pc \in {"open", "meta", "item", "ack"}, w'.cmd = w.cmd, InFile \subseteq InFile',
           UNCHANGED <<chan, live, call, sync, db, sent, lost, dropped, seen>>
    PROVE  CallsInv' /\ FactsInv'
<1>1. Adds' = Adds /\ Barriers' = Barriers /\ Serving' = Serving /\ Appending' = Appending
  BY DEF Adds, Barriers, Serving, Appending
<1>2. \A x : Waits(x)' = Waits(x)
  BY DEF Waits
<1>3. BarriersCover' /\ OneBarrierEach'
  BY <1>1, <1>2 DEF CallsInv, BarriersCover, OneBarrierEach
<1>4. CallerInv' /\ Room'
  BY <1>1 DEF CallsInv, CallerInv, Room
<1>5. FactsInv'
  BY FactsKept
<1>. QED BY <1>3, <1>4, <1>5 DEF CallsInv

\* A write or an open that failed: the file keeps its lines, the queue its items.
LEMMA AttemptFails ==
    ASSUME Inv, w.pc \in {"open", "meta", "item"}, w' = FailAttempt(w), disk' \in Disks, SameLines,
           faults' \in 0..MaxFaults, Damage(disk') <= faults',
           UNCHANGED <<chan, live, call, sync, db, sent, acked, lost, direct, dropped, seen>>
    PROVE  Inv'
<1>0. Types /\ FileInv /\ CallsInv /\ FactsInv /\ w \in WriterRecs /\ w.written <= Len(w.pending)
  BY DEF Inv, Types
<1>1. Drained(w, w') /\ w'.pc \in {"open", "ack"} /\ (w'.pc = "ack" => w'.ok = FALSE)
  BY <1>0, FailAttemptIs
<1>2. QueueKept /\ w' \in WriterRecs /\ w'.written <= Len(w'.pending)
  BY <1>0, <1>1, DrainedKeeps
<1>3. w'.written = 0 /\ w'.meta = w.meta /\ w'.cmd = w.cmd
  BY <1>1 DEF Drained
<1>4. InFile' = InFile
  BY SameLinesKeeps
<1>5. Types'
  BY <1>0, <1>2 DEF Types
<1>6. FileInv'
  <2>1. Pipe'
    BY <1>0, <1>2, PipeKept DEF FileInv, Pipe
  <2>2. MetaFirst'
    BY <1>0, <1>1, <1>3 DEF FileInv, MetaFirst, SameLines
  <2>3. WriterInv'
    BY <1>1, <1>3 DEF WriterInv
  <2>4. Durable'
    BY <1>0, <1>4 DEF FileInv, Durable
  <2>. QED BY <2>1, <2>2, <2>3, <2>4 DEF FileInv, Pipe
<1>7. CallsInv' /\ FactsInv'
  BY <1>0, <1>1, <1>3, <1>4, WriterWorks
<1>. QED BY <1>5, <1>6, <1>7 DEF Inv

\* The writer goes on, the queue and the lines of the file as they were.
LEMMA WriterMoves ==
    ASSUME Inv, w.pc \in {"open", "meta"}, w' \in WriterRecs, w'.pc \in {"meta", "item"},
           w'.pending = w.pending, w'.written = w.written, w'.cmd = w.cmd, w'.meta = w.meta,
           w'.pc = "item" => ~w.meta,
           disk' \in Disks, SameLines, Damage(disk') = Damage(disk),
           UNCHANGED <<chan, live, call, sync, db, sent, acked, lost, direct, dropped, seen, faults>>
    PROVE  Inv'
<1>0. Types /\ FileInv /\ CallsInv /\ FactsInv
  BY DEF Inv
<1>1. QueueKept /\ InFile' = InFile
  BY SameLinesKeeps DEF QueueKept, Left, Todo
<1>2. Types'
  BY <1>0 DEF Types
<1>3. FileInv'
  <2>1. Pipe'
    BY <1>0, <1>1, PipeKept DEF FileInv, Pipe
  <2>2. MetaFirst' /\ WriterInv' /\ Durable'
    BY <1>0, <1>1 DEF FileInv, MetaFirst, WriterInv, Durable, SameLines
  <2>. QED BY <2>1, <2>2 DEF FileInv, Pipe
<1>4. CallsInv' /\ FactsInv'
  BY <1>0, <1>1, WriterWorks
<1>. QED BY <1>2, <1>3, <1>4 DEF Inv

\* The deferred file is opened, or that fails.
LEMMA OpenLogStep ==
    ASSUME Inv, OpenLog
    PROVE  Inv'
<1>0. /\ Types /\ FileInv /\ w.pc = "open" /\ w \in WriterRecs /\ disk \in Disks
      /\ faults \in 0..MaxFaults /\ Damage(disk) <= faults
      /\ UNCHANGED <<chan, live, call, sync, db, sent, acked, lost, direct, dropped, seen>>
  BY DEF Inv, OpenLog, Types, FileInv, Durable
<1>1. PICK ok \in {TRUE} \cup (IF ~w.open /\ faults < MaxFaults THEN {FALSE} ELSE {}) :
          /\ w' = IF ok THEN [w EXCEPT !.open = TRUE, !.deferred = FALSE, !.pc = "meta"]
                  ELSE FailAttempt(w)
          /\ disk' = IF ok THEN [disk EXCEPT !.exists = TRUE] ELSE disk
          /\ CountFault(ok)
  BY DEF OpenLog
<1>2. CASE ok = TRUE
  <2>1. /\ w' = [w EXCEPT !.open = TRUE, !.deferred = FALSE, !.pc = "meta"]
        /\ disk' = [disk EXCEPT !.exists = TRUE] /\ faults' = faults
    BY <1>1, <1>2 DEF CountFault
  <2>2. /\ w' \in WriterRecs /\ w'.pc = "meta" /\ w'.pending = w.pending /\ w'.written = w.written
        /\ w'.cmd = w.cmd /\ w'.meta = w.meta
    BY <1>0, <2>1 DEF WriterRecs, WriterPcs
  <2>3. disk' \in Disks /\ disk'.lines = disk.lines /\ disk'.torn = disk.torn
    BY <1>0, <2>1 DEF Disks
  <2>4. SameLines /\ Damage(disk') = Damage(disk)
    BY <2>3 DEF SameLines, Damage, SpoiltLines
  <2>. QED BY <1>0, <2>1, <2>2, <2>3, <2>4, WriterMoves
<1>3. CASE ok = FALSE
  <2>1. w' = FailAttempt(w) /\ disk' = disk /\ faults' = faults + 1 /\ faults < MaxFaults
    BY <1>1, <1>3 DEF CountFault
  <2>2. faults' \in 0..MaxFaults /\ Damage(disk') <= faults' /\ SameLines
    <3>1. Damage(disk) \in Nat
      BY SpoiltFinite DEF Damage
    <3>. QED BY <1>0, <2>1, <3>1, Constants DEF SameLines
  <2>. QED BY <1>0, <2>1, <2>2, AttemptFails
<1>. QED BY <1>1, <1>2, <1>3

\* The first line is written, or that fails.
LEMMA WriteMetaStep ==
    ASSUME Inv, WriteMeta
    PROVE  Inv'
<1>0. /\ Types /\ FileInv /\ CallsInv /\ FactsInv /\ w.pc = "meta" /\ w \in WriterRecs /\ disk \in Disks
      /\ Damage(disk) <= faults /\ w.meta \in BOOLEAN
      /\ UNCHANGED <<chan, live, call, sync, db, sent, acked, lost, direct, dropped, seen>>
  BY DEF Inv, WriteMeta, Types, FileInv, Durable, WriterRecs
<1>1. CASE ~w.meta
  <2>1. w' = [w EXCEPT !.pc = "item"] /\ UNCHANGED <<disk, faults>>
    BY <1>1 DEF WriteMeta
  <2>2. /\ w' \in WriterRecs /\ w'.pc = "item" /\ w'.pending = w.pending /\ w'.written = w.written
        /\ w'.cmd = w.cmd /\ w'.meta = w.meta
    BY <1>0, <2>1 DEF WriterRecs, WriterPcs
  <2>3. disk' \in Disks /\ SameLines /\ Damage(disk') = Damage(disk)
    BY <1>0, <2>1 DEF SameLines
  <2>. QED BY <1>0, <1>1, <2>1, <2>2, <2>3, WriterMoves
<1>2. CASE w.meta
  <2>1. PICK o \in WriteOutcomes(disk, MetaLine) :
          /\ w' = IF o.ok THEN [w EXCEPT !.meta = FALSE, !.pc = "item"] ELSE FailAttempt(w)
          /\ disk' = o.disk /\ CountFault(o.ok)
    BY <1>2 DEF WriteMeta
  <2>2. MetaLine \in Facts
    BY Constants DEF MetaLine
  <2>3. /\ disk' \in Disks /\ faults' \in 0..MaxFaults /\ Damage(disk') <= faults'
        /\ o.ok \in BOOLEAN /\ (o.ok => AddsLine(MetaLine)) /\ (~o.ok => SameLines)
    BY <1>0, <2>1, <2>2, OutcomeIs
  <2>4. CASE ~o.ok
    BY <1>0, <2>1, <2>3, <2>4, AttemptFails
  <2>5. CASE o.ok
    <3>1. AddsLine(MetaLine) /\ Len(disk.lines) = 0
      BY <1>0, <1>2, <2>3, <2>5 DEF FileInv, MetaFirst
    <3>2. w' = [w EXCEPT !.meta = FALSE, !.pc = "item"]
      BY <2>1, <2>5
    <3>3. /\ w' \in WriterRecs /\ w'.pc = "item" /\ w'.pending = w.pending /\ w'.written = w.written
          /\ w'.cmd = w.cmd /\ w'.meta = FALSE
      BY <1>0, <3>2 DEF WriterRecs, WriterPcs
    <3>4. QueueKept
      BY <3>3 DEF QueueKept, Left, Todo
    <3>5. InFile' = InFile \cup {MetaLine}
      BY <1>0, <2>3, <3>1, AddsLineGrows
    <3>6. Types'
      BY <1>0, <2>3, <3>3 DEF Types
    <3>7. Pipe'
      BY <1>0, <2>3, <3>1, <3>4, PipeMeta DEF FileInv, Pipe
    <3>8. MetaFirst'
      <4>1. Len(disk'.lines) = 1 /\ Index(disk'.lines[1]) = MetaLine
        BY <3>1 DEF AddsLine
      <4>2. \A k \in 1..Len(disk'.lines) : k = 1 /\ 1 \in 1..k
        BY <4>1
      <4>. QED BY <3>3, <4>1, <4>2 DEF MetaFirst
    <3>9. WriterInv'
      BY <3>3 DEF WriterInv
    <3>10. Durable'
      BY <1>0, <2>3, <3>5 DEF FileInv, Durable
    <3>11. CallsInv' /\ FactsInv'
      BY <1>0, <3>3, <3>5, WriterWorks
    <3>. QED BY <3>6, <3>7, <3>8, <3>9, <3>10, <3>11 DEF Inv, FileInv, Pipe
  <2>. QED BY <2>3, <2>4, <2>5
<1>. QED BY <1>0, <1>1, <1>2

\* An item is written, or that fails and may leave part of a line.
LEMMA WriteItemStep ==
    ASSUME Inv, WriteItem
    PROVE  Inv'
<1>0. /\ Types /\ FileInv /\ CallsInv /\ FactsInv /\ w.pc = "item" /\ w \in WriterRecs /\ disk \in Disks
      /\ Damage(disk) <= faults /\ ~w.meta /\ w.written <= Len(w.pending)
      /\ Len(w.pending) \in Nat /\ w.written \in Nat /\ w.pending \in Seq(Items)
      /\ UNCHANGED <<chan, live, call, sync, db, sent, acked, lost, direct, dropped, seen>>
  BY WriterTypes DEF Inv, WriteItem, FileInv, Durable, WriterInv, Types
<1>1. CASE w.written < Len(w.pending)
  <2>1. PICK o \in WriteOutcomes(disk, w.pending[w.written + 1]) :
          /\ w' = IF o.ok THEN [w EXCEPT !.written = @ + 1] ELSE FailAttempt(w)
          /\ disk' = o.disk /\ CountFault(o.ok)
    BY <1>1 DEF WriteItem
  <2>2. PICK x : x = w.pending[w.written + 1]
    OBVIOUS
  <2>3. Left \in Nat /\ Left >= 1 /\ x = Todo(1) /\ x \in Facts
    <3>1. Left \in Nat /\ Left >= 1
      BY <1>0, <1>1 DEF Left
    <3>2. x = Todo(1)
      BY <2>2 DEF Todo
    <3>3. 1 \in 1..Left
      BY <3>1
    <3>4. x \in Items
      BY <1>0, <3>2, <3>3, WriterTypes
    <3>. QED BY <3>1, <3>2, <3>4, Constants
  <2>4. /\ disk' \in Disks /\ faults' \in 0..MaxFaults /\ Damage(disk') <= faults'
        /\ o.ok \in BOOLEAN /\ (o.ok => AddsLine(x)) /\ (~o.ok => SameLines)
    BY <1>0, <2>1, <2>2, <2>3, OutcomeIs
  <2>5. CASE ~o.ok
    BY <1>0, <2>1, <2>4, <2>5, AttemptFails
  <2>6. CASE o.ok
    <3>1. AddsLine(x)
      BY <2>4, <2>6
    <3>2. w' = [w EXCEPT !.written = @ + 1]
      BY <2>1, <2>6
    <3>3. /\ w' \in WriterRecs /\ w'.pc = "item" /\ w'.pending = w.pending
          /\ w'.written = w.written + 1 /\ w'.cmd = w.cmd /\ ~w'.meta
      BY <1>0, <3>2 DEF WriterRecs
    <3>4. Left' = Left - 1 /\ \A k \in 1..(Left - 1) : Todo(k)' = Todo(k + 1)
      <4>1. Left' = Left - 1
        BY <1>0, <3>3 DEF Left
      <4>2. ASSUME NEW k \in 1..(Left - 1) PROVE Todo(k)' = Todo(k + 1)
        <5>0. k \in Nat /\ w.written \in Nat
          BY <1>0, <2>3
        <5>1. (w.written + 1) + k = w.written + (k + 1)
          BY <5>0
        <5>. QED BY <3>3, <5>1 DEF Todo
      <4>. QED BY <4>1, <4>2
    <3>5. InFile' = InFile \cup {x}
      BY <1>0, <2>4, <3>1, AddsLineGrows
    <3>6. Types'
      <4>1. w'.written <= Len(w'.pending)
        BY <1>0, <1>1, <3>3
      <4>. QED BY <1>0, <2>4, <3>3, <4>1 DEF Types
    <3>7. Pipe'
      BY <1>0, <2>3, <2>4, <3>1, <3>4, PipeWrites DEF FileInv, Pipe
    <3>8. MetaFirst'
      <4>1. Len(disk.lines) \in Nat /\ Len(disk.lines) # 0
        BY <1>0, LineTypes DEF FileInv, MetaFirst
      <4>2. 1 \in 1..Len(disk.lines) /\ Index(disk.lines[1]) = MetaLine
        BY <1>0, <4>1 DEF FileInv, MetaFirst
      <4>3. \A k \in 1..Len(disk'.lines) : 1 \in 1..k
        BY <3>1, <4>1 DEF AddsLine
      <4>4. Index(disk'.lines[1]) = MetaLine /\ Len(disk'.lines) # 0
        BY <3>1, <4>1, <4>2 DEF AddsLine
      <4>. QED BY <3>3, <4>3, <4>4 DEF MetaFirst
    <3>9. WriterInv'
      BY <3>3 DEF WriterInv
    <3>10. Durable'
      BY <1>0, <2>4, <3>5 DEF FileInv, Durable
    <3>11. CallsInv' /\ FactsInv'
      BY <1>0, <3>3, <3>5, WriterWorks
    <3>. QED BY <3>6, <3>7, <3>8, <3>9, <3>10, <3>11 DEF Inv, FileInv, Pipe
  <2>. QED BY <2>4, <2>5, <2>6
<1>2. CASE ~(w.written < Len(w.pending))
  <2>1. w' = [Drain(w) EXCEPT !.pc = "ack", !.attempt = 1, !.ok = TRUE] /\ UNCHANGED <<disk, faults>>
    BY <1>2 DEF WriteItem
  <2>2. Drained(w, Drain(w))
    BY <1>0, DrainIs
  <2>3. /\ w' \in WriterRecs /\ w'.pc = "ack" /\ w'.pending = Drain(w).pending /\ w'.written = 0
        /\ w'.cmd = w.cmd /\ w'.meta = w.meta
    BY <2>1, <2>2 DEF WriterRecs, WriterPcs, Drained
  <2>4. Drained(w, w')
    BY <2>2, <2>3 DEF Drained
  <2>5. QueueKept /\ w'.written <= Len(w'.pending)
    BY <1>0, <2>4, DrainedKeeps
  <2>6. w'.pending = <<>>
    <3>1. Len(w'.pending) = 0
      BY <1>0, <1>2, <2>4 DEF Drained
    <3>2. w'.pending \in Seq(Items)
      BY <2>3 DEF WriterRecs
    <3>. QED BY <3>1, <3>2, EmptySeq
  <2>7. SameLines /\ InFile' = InFile
    BY <2>1, SameLinesKeeps DEF SameLines
  <2>8. Types'
    BY <1>0, <2>1, <2>3, <2>5 DEF Types
  <2>9. FileInv'
    <3>1. Pipe'
      BY <1>0, <2>5, <2>7, PipeKept DEF FileInv, Pipe
    <3>2. MetaFirst' /\ WriterInv' /\ Durable'
      BY <1>0, <2>1, <2>3, <2>6, <2>7 DEF FileInv, MetaFirst, WriterInv, Durable
    <3>. QED BY <3>1, <3>2 DEF FileInv, Pipe
  <2>10. CallsInv' /\ FactsInv'
    BY <1>0, <2>3, <2>7, WriterWorks
  <2>. QED BY <2>8, <2>9, <2>10 DEF Inv
<1>. QED BY <1>1, <1>2

\* The command the writer takes is served for the caller that waits for it.
LEMMA CallsTaken ==
    ASSUME Types, CallsInv, Taken, w.pc = "recv", w'.pc \in {"ack", "open"}, w'.cmd = chan[1],
           UNCHANGED <<call, sent, lost>>
    PROVE  CallsInv'
<1>1. Serving' <=> chan[1].kind # "add"
  BY DEF Serving
<1>2. 1 \in 1..Len(chan)
  BY DEF Taken
<1>3. /\ \A j \in Adds' : j + 1 \in Adds /\ chan'[j] = chan[j + 1] /\ j \in Nat /\ j >= 1
      /\ \A j \in Barriers' : j + 1 \in Barriers /\ chan'[j] = chan[j + 1] /\ j \in Nat /\ j >= 1
  BY DEF Taken
<1>4. chan[1].kind # "add" => 1 \in Barriers
  BY <1>2 DEF Barriers
<1>5. \A x : Waits(x)' = Waits(x)
  BY DEF Waits
<1>6. BarriersCover'
  <2>1. ASSUME NEW i \in Barriers', NEW j \in Adds', i < j PROVE chan'[i].upto < chan'[j].item
    <3>1. i + 1 \in Barriers /\ j + 1 \in Adds /\ i + 1 < j + 1
      BY <1>3, <2>1
    <3>2. chan[i + 1].upto < chan[j + 1].item
      BY <3>1 DEF CallsInv, BarriersCover
    <3>. QED BY <1>3, <3>2
  <2>2. ASSUME Serving', NEW j \in Adds' PROVE w'.cmd.upto < chan'[j].item
    <3>1. 1 \in Barriers /\ j + 1 \in Adds /\ 1 < j + 1
      BY <1>1, <1>3, <1>4, <2>2
    <3>2. chan[1].upto < chan[j + 1].item
      BY <3>1 DEF CallsInv, BarriersCover
    <3>. QED BY <1>3, <3>2
  <2>3. \A i \in Barriers' : chan'[i].upto <= sent'
    BY <1>3 DEF CallsInv, BarriersCover
  <2>4. Serving' => w'.cmd.upto <= sent'
    BY <1>1, <1>4 DEF CallsInv, BarriersCover
  <2>. QED BY <2>1, <2>2, <2>3, <2>4 DEF BarriersCover
<1>7. OneBarrierEach'
  <2>1. \A j \in Barriers' : Waits(chan'[j])
    BY <1>3 DEF CallsInv, OneBarrierEach
  <2>2. ASSUME NEW i \in Barriers', NEW j \in Barriers', i # j PROVE chan'[i].from # chan'[j].from
    <3>1. i + 1 \in Barriers /\ j + 1 \in Barriers /\ i + 1 # j + 1
      BY <1>3, <2>2
    <3>2. chan[i + 1].from # chan[j + 1].from
      BY <3>1 DEF CallsInv, OneBarrierEach
    <3>. QED BY <1>3, <3>2
  <2>3. Serving' => Waits(chan[1])
    BY <1>1, <1>4 DEF CallsInv, OneBarrierEach
  <2>4. ASSUME Serving', NEW j \in Barriers' PROVE chan'[j].from # chan[1].from
    <3>1. 1 \in Barriers /\ j + 1 \in Barriers /\ 1 # j + 1
      BY <1>1, <1>3, <1>4, <2>4
    <3>2. chan[1].from # chan[j + 1].from
      BY <3>1 DEF CallsInv, OneBarrierEach
    <3>. QED BY <1>3, <3>2
  <2>5. \A x : Waits(x) => Waits(x)'
    BY <1>5
  <2>. QED BY <1>3, <2>1, <2>2, <2>3, <2>4, <2>5 DEF OneBarrierEach, Waits
<1>8. CallerInv' /\ Room'
  <2>1. Appending' = Appending /\ w.pc # "ended"
    BY DEF Appending
  <2>. QED BY <2>1 DEF CallsInv, CallerInv, Room
<1>. QED BY <1>6, <1>7, <1>8 DEF CallsInv

\* The writer takes a command.
LEMMA RecvStep ==
    ASSUME Inv, Recv
    PROVE  Inv'
<1>. DEFINE q == Append(w.pending, chan[1].item)
            s == IF chan[1].kind = "add" THEN [w EXCEPT !.pending = q] ELSE w
<1>0. /\ Types /\ FileInv /\ CallsInv /\ FactsInv /\ Pipe /\ w.pc = "recv" /\ w \in WriterRecs
      /\ w.written = 0 /\ w.pending \in Seq(Items) /\ Len(w.pending) \in Nat /\ Left \in Nat
      /\ chan # <<>> /\ chan' = Tail(chan)
      /\ UNCHANGED <<disk, live, call, sync, db, sent, acked, lost, direct, dropped, seen, faults>>
  BY WriterTypes DEF Inv, FileInv, Pipe, WriterInv, Recv
<1>1. Taken /\ Head(chan) = chan[1]
  BY <1>0, TakenIs
<1>2. /\ w' = IF SkipsWrite(s, chan[1].kind)
              THEN [s EXCEPT !.pc = "ack", !.ok = TRUE, !.cmd = chan[1]]
              ELSE [s EXCEPT !.pc = "open", !.attempt = 1, !.cmd = chan[1]]
  BY <1>1 DEF Recv
<1>3. 1 \in 1..Len(chan) /\ chan[1] \in Commands
  BY <1>0, <1>1, ChanTypes DEF Taken
<1>4. /\ chan[1].kind = "add" => chan[1].item \in Items /\ 1 \in Adds
      /\ SameLines /\ InFile' = InFile
  <2>1. chan[1].kind = "add" => 1 \in Adds
    BY <1>3 DEF Adds
  <2>2. 1 \in Adds => chan[1].item \in Items
    BY <1>0, Bounds, Constants
  <2>. QED BY <1>0, <2>1, <2>2, SameLinesKeeps DEF SameLines
<1>5. /\ chan[1].kind = "add" => /\ q \in Seq(Items) /\ Len(q) = Len(w.pending) + 1
                                 /\ \A k \in 1..Len(w.pending) : q[k] = w.pending[k]
                                 /\ q[Len(w.pending) + 1] = chan[1].item
  BY <1>0, <1>4, AppendProperties
<1>. HIDE DEF q
<1>6. /\ s \in WriterRecs /\ s.written = 0 /\ s.meta = w.meta
      /\ s.pending = IF chan[1].kind = "add" THEN q ELSE w.pending
  BY <1>0, <1>5 DEF WriterRecs
<1>. HIDE DEF s
<1>7. /\ w' \in WriterRecs /\ w'.written = 0 /\ w'.meta = w.meta /\ w'.pending = s.pending
      /\ w'.cmd = chan[1] /\ w'.pc \in {"ack", "open"}
      /\ w'.pc = "ack" => SkipsWrite(s, chan[1].kind)
  BY <1>2, <1>3, <1>6 DEF WriterRecs, WriterPcs
<1>8. w'.pc = "ack" => \/ chan[1].kind = "add"
                       \/ chan[1].kind \in {"flush", "shutdown"} /\ w'.pending = <<>>
  BY <1>7 DEF SkipsWrite
<1>9. Left' = Len(w'.pending) /\ \A k : Todo(k)' = w'.pending[w'.written + k]
  <2>1. w'.pending \in Seq(Items)
    BY <1>7 DEF WriterRecs
  <2>2. Len(w'.pending) \in Nat
    BY <2>1, LenProperties
  <2>. QED BY <1>7, <2>2 DEF Left, Todo
<1>10. Left = Len(w.pending) /\ \A k \in Nat : Todo(k) = w.pending[k] /\ w'.written + k = k
  BY <1>0, <1>7 DEF Left, Todo
<1>11. Pipe'
  <2>1. CASE chan[1].kind = "add"
    <3>1. PICK n \in Nat : n = Left + 1
      BY <1>0
    <3>2. w'.pending = q
      BY <1>6, <1>7, <2>1
    <3>3. Left' = n
      BY <1>5, <1>9, <1>10, <2>1, <3>1, <3>2
    <3>4. \A k \in 1..Left : Todo(k)' = Todo(k)
      BY <1>0, <1>5, <1>9, <1>10, <2>1, <3>2, SMTT(30)
    <3>5. Todo(n)' = chan[1].item
      BY <1>5, <1>9, <1>10, <2>1, <3>1, <3>2
    <3>. QED BY <1>0, <1>1, <1>4, <2>1, <3>1, <3>3, <3>4, <3>5, PipeEnqueues
  <2>2. CASE chan[1].kind # "add"
    <3>1. w'.pending = w.pending
      BY <1>6, <1>7, <2>2
    <3>2. QueueKept
      BY <1>0, <1>9, <1>10, <3>1 DEF QueueKept
    <3>. QED BY <1>0, <1>1, <1>4, <2>2, <3>2, PipeTakes
  <2>. QED BY <2>1, <2>2
<1>12. Types'
  <2>1. w'.written <= Len(w'.pending)
    <3>1. w'.pending \in Seq(Items)
      BY <1>7 DEF WriterRecs
    <3>. QED BY <1>7, <3>1, LenProperties
  <2>2. chan' \in Seq(Commands) /\ Len(chan') <= Capacity
    <3>1. Len(chan) <= Capacity /\ Capacity \in Nat
      BY <1>0, RolloutAssumption DEF Types
    <3>. QED BY <1>1, <3>1 DEF Taken
  <2>. QED BY <1>0, <1>7, <2>1, <2>2 DEF Types
<1>13. MetaFirst' /\ WriterInv' /\ Durable'
  BY <1>0, <1>4, <1>7, <1>8 DEF FileInv, MetaFirst, WriterInv, Durable
<1>14. CallsInv'
  BY <1>0, <1>1, <1>7, CallsTaken
<1>15. FactsInv'
  BY <1>0, <1>4, FactsKept
<1>. QED BY <1>11, <1>12, <1>13, <1>14, <1>15 DEF Inv, FileInv, Pipe

\* Where a caller goes on from the answer it waited for.
LEMMA AnswerIs ==
    ASSUME Types, CallerInv, NEW c \in Callers, call[c].pc = "wait", NEW ok \in BOOLEAN,
           NEW r, r = AfterAnswer(call[c], ok)
    PROVE  /\ r \in CallRecs /\ Allowed(r) /\ (Counts(r) => Counts(call[c]))
           /\ r.pc \in {"idle", "observe", "remove", "direct", "take"}
           /\ r.pc = "observe" => ok /\ call[c].op = "append" /\ r.item = call[c].item
           /\ r.pc = "take" => ok /\ r.op = call[c].op /\ r.op \in {"flush", "persist", "memory"}
<1>1. call[c].op # "none"
  BY DEF CallerInv
<1>2. CASE ok = FALSE
  <2>1. r = Idle
    BY <1>2 DEF AfterAnswer
  <2>. QED BY <2>1, IdleIs DEF Allowed, Counts
<1>3. CASE ok = TRUE
  <2>. DEFINE p == CASE call[c].op = "append"   -> "observe"
                     [] call[c].op = "shutdown" -> "remove"
                     [] call[c].op = "update"   -> "direct"
                     [] OTHER                   -> "take"
  <2>1. r = [call[c] EXCEPT !.pc = p]
    BY <1>3 DEF AfterAnswer
  <2>2. /\ p \in {"observe", "remove", "direct", "take"}
        /\ p = "observe" <=> call[c].op = "append"
        /\ p = "direct" => call[c].op = "update"
        /\ p = "take" => call[c].op \notin {"append", "shutdown", "update"}
    OBVIOUS
  <2>6. call[c].op # "reconcile"
    BY DEF CallerInv
  <2>. HIDE DEF p
  <2>3. r \in CallRecs /\ r.pc = p /\ r.op = call[c].op /\ r.item = call[c].item
    BY <2>1, <2>2, CallTypes DEF CallRecs, CallPcs
  <2>4. Allowed(r) /\ (Counts(r) => Counts(call[c]))
    BY <1>1, <2>2, <2>3, <2>6, IdleIs DEF Allowed, Counts
  <2>5. call[c].op \in Ops
    BY CallTypes
  <2>. QED BY <1>1, <1>3, <2>2, <2>3, <2>4, <2>5, <2>6 DEF Ops
<1>. QED BY <1>2, <1>3

\* What a successful barrier covers is in the file.
LEMMA BarrierCovers ==
    ASSUME Inv, w.pc = "ack", w.ok, w.cmd.kind # "add"
    PROVE  /\ (1..w.cmd.upto) \ lost \subseteq InFile
           /\ w.pending = <<>> /\ TodoSet = {}
<1>0. Types /\ Conserved /\ WriterInv /\ Serving /\ BarriersCover
  BY DEF Inv, FileInv, CallsInv, Serving
<1>1. w.pending = <<>>
  BY <1>0 DEF WriterInv
<1>2. TodoSet = {}
  <2>1. Left = 0
    BY <1>0, <1>1, WriterTypes DEF Left
  <2>. QED BY <2>1 DEF TodoSet
<1>3. ASSUME NEW x \in 1..w.cmd.upto, x \notin lost PROVE x \in InFile
  <2>1. w.cmd.upto \in Nat /\ sent \in Nat /\ w.cmd.upto <= sent
    BY <1>0, WriterTypes, Constants DEF Commands, Types, BarriersCover
  <2>2. x \in 1..sent
    BY <2>1
  <2>3. x \notin AddSet
    <3>1. ASSUME NEW j \in Adds PROVE chan[j].item # x
      <4>1. w.cmd.upto < chan[j].item
        BY <1>0 DEF BarriersCover
      <4>. QED BY <2>1, <4>1
    <3>. QED BY <3>1 DEF AddSet
  <2>. QED BY <1>0, <1>2, <1>3, <2>2, <2>3 DEF Conserved
<1>. QED BY <1>1, <1>2, <1>3

\* Callers whose state does not change, and those that stop waiting.
Released(c) == Allowed(call'[c]) /\ (Counts(call'[c]) => Counts(call[c]))
               /\ call'[c].pc \notin {"barrier", "wait"}

\* Callers that were answered are free.
LEMMA CallsAnswered ==
    ASSUME Types, CallsInv, w'.pc = "recv", w.pc = "ack", UNCHANGED <<chan, sent, lost>>,
           \A c \in Callers : call'[c] = call[c] \/ (Serving /\ c = w.cmd.from /\ Released(c))
    PROVE  CallsInv'
<1>1. Adds' = Adds /\ Barriers' = Barriers /\ ~Serving'
  BY DEF Adds, Barriers, Serving
<1>2. BarriersCover'
  BY <1>1 DEF CallsInv, BarriersCover
<1>3. \A j \in Barriers : Waits(chan[j]) => Waits(chan[j])'
  <2>1. ASSUME NEW j \in Barriers, Waits(chan[j]) PROVE call'[chan[j].from] = call[chan[j].from]
    BY <2>1 DEF CallsInv, OneBarrierEach, Waits
  <2>. QED BY <2>1 DEF Waits
<1>4. OneBarrierEach'
  BY <1>1, <1>3 DEF CallsInv, OneBarrierEach, Waits
<1>5. CallerInv'
  BY DEF CallsInv, CallerInv, Released, Allowed
<1>6. Appending' \subseteq Appending
  BY AppendingIs, AppendingIsNext DEF Released
<1>7. Room'
  BY <1>6, RoomKept DEF CallsInv
<1>. QED BY <1>2, <1>4, <1>5, <1>7 DEF CallsInv

\* The receiver is dropped: everyone that waited is released.
LEMMA CallsReleased ==
    ASSUME Types, CallsInv, w'.pc = "ended", chan' = <<>>, UNCHANGED sent,
           \A c \in Callers : call'[c] = call[c] \/ Released(c)
    PROVE  CallsInv'
<1>1. Adds' = {} /\ Barriers' = {} /\ ~Serving'
  BY DEF Adds, Barriers, Serving
<1>2. BarriersCover' /\ OneBarrierEach'
  BY <1>1 DEF BarriersCover, OneBarrierEach
<1>3. CallerInv'
  BY DEF CallsInv, CallerInv, Released, Allowed
<1>4. Appending' \subseteq Appending
  BY AppendingIs, AppendingIsNext DEF Released
<1>5. Room'
  BY <1>4, RoomKept DEF CallsInv
<1>. QED BY <1>2, <1>3, <1>5 DEF CallsInv

\* The answered caller, if there is one, and what is confirmed with it.
LEMMA AnsweredIs ==
    ASSUME Inv, Reply, w.cmd.kind # "add"
    PROVE  /\ w.cmd.from \in Callers /\ Serving
           /\ call'[w.cmd.from] \in CallRecs /\ Released(w.cmd.from) /\ Harmless(call'[w.cmd.from])
<1>. DEFINE f == w.cmd.from
            r == AfterAnswer(call[f], w.ok)
<1>0. /\ Types /\ FileInv /\ CallsInv /\ CallerInv /\ w.pc = "ack" /\ Serving /\ Waits(w.cmd)
      /\ w.ok \in BOOLEAN /\ SameLines /\ InFile' = InFile
  BY WriterTypes, SameLinesKeeps DEF Inv, CallsInv, OneBarrierEach, Reply, Serving, SameLines
<1>1. f \in Callers /\ call[f].pc = "wait" /\ w.cmd.kind = BarrierOf(call[f].op)
      /\ (call[f].op = "append" => call[f].item <= w.cmd.upto)
  BY <1>0 DEF Waits
<1>2. call'[f] = r
  BY <1>1 DEF Reply
<1>3. /\ r \in CallRecs /\ Allowed(r) /\ (Counts(r) => Counts(call[f]))
      /\ r.pc \in {"idle", "observe", "remove", "direct", "take"}
      /\ r.pc = "observe" => w.ok /\ call[f].op = "append" /\ r.item = call[f].item
      /\ r.pc = "take" => w.ok /\ r.op = call[f].op /\ r.op \in {"flush", "persist", "memory"}
  BY <1>0, <1>1, AnswerIs
<1>4. r.pc = "observe" => r.item \in InFile
  <2>1. SUFFICES ASSUME r.pc = "observe" PROVE call[f].item \in InFile
    BY <1>3
  <2>2. call[f].item \in (1..w.cmd.upto) \ lost
    <3>1. /\ call[f].item >= 1 /\ call[f].item \notin lost /\ call[f].item <= w.cmd.upto
      BY <1>0, <1>1, <1>3, <2>1 DEF CallerInv
    <3>2. call[f].item \in Nat /\ w.cmd.upto \in Nat
      BY <1>0, <1>1, CallTypes, WriterTypes, Constants DEF Commands
    <3>. QED BY <3>1, <3>2
  <2>. QED BY <1>0, <1>3, <2>1, <2>2, BarrierCovers
<1>5. r.pc = "take" => r.op = "flush" \/ MetaLine \in InFile
  <2>1. SUFFICES ASSUME r.pc = "take", r.op \in {"persist", "memory"} PROVE MetaLine \in InFile
    BY <1>3
  <2>2. w.cmd.kind = "persist" /\ w.ok
    BY <1>1, <1>3, <2>1 DEF BarrierOf
  <2>3. ~w.meta
    BY <1>0, <2>2 DEF FileInv, WriterInv
  <2>4. Len(disk.lines) # 0
    BY <1>0, <2>3 DEF FileInv, MetaFirst
  <2>. QED BY <1>0, <2>4, MetaInFile DEF FileInv, Types
<1>6. Released(f) /\ Harmless(r)
  BY <1>0, <1>2, <1>3, <1>4, <1>5 DEF Released, Harmless
<1>. QED BY <1>0, <1>1, <1>2, <1>3, <1>6

\* The writer answers a barrier.
LEMMA ReplyStep ==
    ASSUME Inv, Reply
    PROVE  Inv'
<1>. DEFINE stops == w.cmd.kind = "shutdown" /\ w.ok
<1>0. /\ Types /\ FileInv /\ CallsInv /\ FactsInv /\ Pipe /\ w.pc = "ack" /\ w \in WriterRecs
      /\ w.written = 0 /\ InFile' = InFile /\ SameLines
      /\ UNCHANGED <<disk, live, sync, db, sent, direct, dropped, seen, faults>>
  BY SameLinesKeeps DEF Inv, FileInv, Pipe, WriterInv, Reply, Types, SameLines
<1>1. /\ w' = IF stops THEN Ended ELSE [w EXCEPT !.pc = "recv", !.ok = TRUE, !.cmd = NoCommand]
      /\ chan' = IF stops THEN <<>> ELSE chan
      /\ call' = [c \in Callers |->
                    CASE w.cmd.kind # "add" /\ c = w.cmd.from    -> AfterAnswer(call[c], w.ok)
                      [] stops /\ c # w.cmd.from /\ call[c].pc = "wait" -> Idle
                      [] OTHER                                   -> call[c]]
      /\ acked' = IF w.cmd.kind # "add" /\ w.ok THEN acked \cup ((1..w.cmd.upto) \ lost) ELSE acked
      /\ lost' = IF stops THEN lost \cup QueuedItems ELSE lost
  BY DEF Reply
<1>2. acked' \subseteq InFile
  BY <1>0, <1>1, BarrierCovers DEF FileInv, Durable
<1>3. InFile \subseteq Facts
  BY <1>0, LineTypes DEF Types
<1>4. \A c \in Callers : w.cmd.kind # "add" /\ c = w.cmd.from =>
         call'[c] \in CallRecs /\ Released(c) /\ Harmless(call'[c]) /\ Serving
  BY AnsweredIs
<1>5. CASE ~stops
  <2>1. /\ w' = [w EXCEPT !.pc = "recv", !.ok = TRUE, !.cmd = NoCommand]
        /\ chan' = chan /\ lost' = lost
    BY <1>1, <1>5
  <2>2. \A c \in Callers : ~(w.cmd.kind # "add" /\ c = w.cmd.from) => call'[c] = call[c]
    BY <1>1, <1>5
  <2>3. call' \in [Callers -> CallRecs]
    <3>1. DOMAIN call' = Callers /\ call' = [c \in Callers |-> call'[c]]
      BY <1>1
    <3>2. \A c \in Callers : call'[c] \in CallRecs
      BY <1>0, <1>4, <2>2, CallTypes
    <3>. QED BY <3>1, <3>2
  <2>4. /\ w' \in WriterRecs /\ w'.pc = "recv" /\ w'.written = w.written /\ w'.pending = w.pending
        /\ w'.meta = w.meta
    BY <1>0, <2>1, NoCommandIs DEF WriterRecs, WriterPcs
  <2>5. Types'
    <3>1. acked' \subseteq Facts
      BY <1>2, <1>3
    <3>. QED BY <1>0, <2>1, <2>3, <2>4, <3>1 DEF Types
  <2>6. FileInv'
    <3>1. QueueKept
      BY <2>4 DEF QueueKept, Left, Todo
    <3>2. Pipe'
      BY <1>0, <2>1, <3>1, PipeKept
    <3>3. MetaFirst' /\ WriterInv'
      BY <1>0, <2>4 DEF FileInv, MetaFirst, WriterInv
    <3>4. Durable'
      BY <1>0, <1>2 DEF FileInv, Durable
    <3>. QED BY <3>2, <3>3, <3>4 DEF FileInv, Pipe
  <2>7. CallsInv'
    BY <1>0, <1>4, <2>1, <2>2, <2>4, CallsAnswered
  <2>8. FactsInv'
    BY <1>0, <1>4, <2>2, FactsKept
  <2>. QED BY <2>5, <2>6, <2>7, <2>8 DEF Inv
<1>6. CASE stops
  <2>1. w' = Ended /\ chan' = <<>> /\ lost' = lost \cup QueuedItems /\ w.cmd.kind # "add" /\ w.ok
    BY <1>1, <1>6
  <2>2. \A c \in Callers : c # w.cmd.from => call'[c] = call[c] \/ call'[c] = Idle
    BY <1>1
  <2>3. \A c \in Callers : call'[c] = call[c] \/ (Released(c) /\ Harmless(call'[c]))
    <3>1. \A c \in Callers : call'[c] = Idle => Released(c) /\ Harmless(call'[c])
      BY IdleIs DEF Released, Allowed, Counts, Harmless
    <3>. QED BY <1>4, <2>1, <2>2, <3>1
  <2>4. call' \in [Callers -> CallRecs]
    <3>1. DOMAIN call' = Callers /\ call' = [c \in Callers |-> call'[c]]
      BY <1>1
    <3>2. \A c \in Callers : call'[c] \in CallRecs
      BY <1>0, <1>4, <2>1, <2>2, CallTypes, IdleIs
    <3>. QED BY <3>1, <3>2
  <2>5. w' \in WriterRecs /\ w'.pc = "ended" /\ w'.pending = <<>> /\ w'.written = 0
    BY <2>1, EndedIs
  <2>6. TodoSet = {} /\ QueuedItems = AddSet /\ AddSet \subseteq 1..sent
    BY <1>0, <2>1, BarrierCovers, QueuedIs DEF Types, Pipe, Conserved
  <2>7. lost' = lost \cup TodoSet \cup AddSet /\ lost' \subseteq Facts
    <3>1. 1..sent \subseteq Facts
      BY <1>0, Constants DEF Types
    <3>. QED BY <1>0, <2>1, <2>6, <3>1 DEF Types
  <2>8. Types'
    <3>1. chan' \in Seq(Commands) /\ Len(chan') <= Capacity /\ Len(chan') = 0
      BY <2>1, RolloutAssumption
    <3>2. w'.written <= Len(w'.pending)
      BY <2>5
    <3>3. UNION {acked', lost', direct', dropped', seen'} \subseteq Facts /\ db' \subseteq Facts \cup {Mode}
      BY <1>0, <1>2, <1>3, <2>7 DEF Types
    <3>. QED BY <1>0, <2>4, <2>5, <3>1, <3>2, <3>3 DEF Types
  <2>9. FileInv'
    <3>1. Len(chan') = 0 /\ Left' = 0
      BY <2>1, <2>5, QueueEmpty
    <3>2. Pipe'
      BY <1>0, <2>7, <3>1, PipeDrops
    <3>3. MetaFirst' /\ WriterInv'
      BY <1>0, <2>1, <2>5 DEF FileInv, MetaFirst, WriterInv
    <3>4. Durable'
      BY <1>0, <1>2 DEF FileInv, Durable
    <3>. QED BY <3>2, <3>3, <3>4 DEF FileInv, Pipe
  <2>10. CallsInv'
    BY <1>0, <2>1, <2>3, <2>5, CallsReleased
  <2>11. FactsInv'
    BY <1>0, <2>3, FactsKept
  <2>. QED BY <2>8, <2>9, <2>10, <2>11 DEF Inv
<1>. QED BY <1>5, <1>6

----------------------------------------------------------------------------
(* The theorems. *)

\* Every step preserves the invariant.
LEMMA InvNext == Inv /\ [Next]_vars => Inv'
<1>1. ASSUME Inv, Next PROVE Inv'
  <2>1. CASE Writer
    BY <1>1, <2>1, RecvStep, OpenLogStep, WriteMetaStep, WriteItemStep, ReplyStep DEF Writer
  <2>2. CASE \E c \in Callers : Start(c) \/ Caller(c)
    BY <1>1, <2>2, StartStep, SendItemsStep, SendBarrierStep, RemoveLiveStep, ObserveStep,
       TakeStep, ReadRowStep, WriteRowStep, MarkStep, DirectAppendStep, ReloadRowStep,
       ReconcileStep DEF Caller
  <2>3. CASE UnloadedAppend \/ Discard \/ Resume \/ Crash
    BY <1>1, <2>3, UnloadedAppendStep, DiscardStep, ResumeStep, CrashStep
  <2>. QED BY <1>1, <2>1, <2>2, <2>3 DEF Next
<1>2. ASSUME Inv, UNCHANGED vars PROVE Inv'
  <2>0. Types /\ FileInv /\ CallsInv /\ FactsInv
    BY <1>2 DEF Inv
  <2>1. UNCHANGED <<disk, w, chan, live, call, sync, db, sent, acked, lost, direct, dropped, seen, faults>>
    BY <1>2 DEF vars
  <2>2. Types'
    BY <2>0, <2>1 DEF Types
  <2>3. FileInv'
    BY <2>0, <2>1, FileStill, Constants DEF Types
  <2>4. CallsInv'
    <3>1. Adds' = Adds /\ Barriers' = Barriers /\ Serving' = Serving /\ Appending' = Appending
      BY <2>1 DEF Adds, Barriers, Serving, Appending
    <3>2. BarriersCover' /\ CallerInv' /\ Room'
      BY <2>0, <2>1, <3>1 DEF CallsInv, BarriersCover, CallerInv, Room
    <3>3. OneBarrierEach'
      BY <2>0, <2>1, <3>1 DEF CallsInv, OneBarrierEach, Waits
    <3>. QED BY <3>2, <3>3 DEF CallsInv
  <2>5. FactsInv'
    BY <2>0, <2>1, FactsKept, SameLinesKeeps DEF SameLines
  <2>. QED BY <2>2, <2>3, <2>4, <2>5 DEF Inv
<1>. QED BY <1>1, <1>2

\* The inductive invariant holds.
LEMMA InvHolds == Spec => []Inv
BY InvInit, InvNext, PTL DEF Spec

\* The parts of the invariant give what the properties say.
LEMMA InvTypeOK ==
    ASSUME Inv
    PROVE  TypeOK
<1>0. Types
  BY DEF Inv
<1>1. /\ w.pc \in {"recv", "open", "meta", "item", "ack", "ended"}
      /\ w.pending \in Seq(Items) /\ w.written \in 0..Len(w.pending)
      /\ w.open \in BOOLEAN /\ w.deferred \in BOOLEAN /\ w.meta \in BOOLEAN /\ w.ok \in BOOLEAN
      /\ w.attempt \in 1..2
  <2>1. w \in WriterRecs
    BY <1>0 DEF Types
  <2>2. w.written \in 0..Len(w.pending)
    BY <1>0, WriterTypes
  <2>. QED BY <2>1, <2>2 DEF WriterRecs, WriterPcs
<1>2. \A c \in Callers : /\ call[c].pc \in CallPcs
                          /\ call[c].patch \cup call[c].row \subseteq {0} \cup Items
  BY <1>0, CallTypes DEF Facts
<1>3. sync.pending \subseteq {0} \cup Items
  BY <1>0 DEF Types, SyncRecs, Facts
<1>4. UNION {db \ {Mode}, acked, lost, direct, dropped, seen} \subseteq {0} \cup Items
  BY <1>0 DEF Types, Facts
<1>. QED BY <1>0, <1>1, <1>2, <1>3, <1>4 DEF Types, TypeOK, Disks

\* Items are conserved.
LEMMA InvConserved ==
    ASSUME Inv
    PROVE  ItemsConserved
<1>1. disk \in Disks /\ w \in WriterRecs /\ chan \in Seq(Commands) /\ Conserved
  BY DEF Inv, Types, FileInv
<1>2. LoadedLines(disk) \cup SpoiltLines(disk) = InFile /\ Unwritten = TodoSet /\ QueuedItems = AddSet
  BY <1>1, FileContents, UnwrittenIs, QueuedIs
<1>. QED BY <1>1, <1>2 DEF Conserved, ItemsConserved

\* Items are in order.
LEMMA InvInOrder ==
    ASSUME Inv
    PROVE  FileInOrder
<1>. DEFINE recorded == {k \in DOMAIN disk.lines : Index(disk.lines[k]) \notin direct}
<1>0. disk \in Disks /\ Ordered /\ MetaFirst /\ Len(disk.lines) \in Nat
  BY LineTypes DEF Inv, Types, FileInv
<1>1. recorded = Recorded
  BY <1>0, LineTypes DEF Recorded
<1>2. ASSUME NEW k \in Recorded
      PROVE  \/ Index(disk.lines[k]) = MetaLine
             \/ \E j \in Recorded : j < k /\ Index(disk.lines[j]) = MetaLine
  <2>1. k \in 1..Len(disk.lines)
    BY DEF Recorded
  <2>2. PICK j \in 1..k : Index(disk.lines[j]) = MetaLine
    BY <1>0, <2>1 DEF MetaFirst
  <2>3. j \in 1..Len(disk.lines) /\ (j = k \/ j < k)
    BY <1>0, <2>1
  <2>4. MetaLine \notin direct
    BY <1>0 DEF Ordered, MetaLine
  <2>. QED BY <2>2, <2>3, <2>4 DEF Recorded
<1>3. \A k \in Recorded, j \in Recorded : j < k => Index(disk.lines[j]) < Index(disk.lines[k])
  BY <1>0 DEF Ordered
<1>. QED BY <1>1, <1>2, <1>3 DEF FileInOrder

\* What was flushed is in the file.
LEMMA InvFlushed ==
    ASSUME Inv
    PROVE  FlushedIsOnDisk
<1>1. disk \in Disks /\ Durable /\ MetaFirst /\ faults \in Nat
  BY Constants DEF Inv, Types, FileInv
<1>2. LoadedLines(disk) \cup SpoiltLines(disk) = InFile
  BY <1>1, FileContents
<1>3. acked # {} => MetaLine \in InFile
  BY <1>1, MetaInFile DEF Durable
<1>4. Cardinality(SpoiltLines(disk)) <= faults
  <2>1. Cardinality(SpoiltLines(disk)) \in Nat
    BY SpoiltFinite
  <2>. QED BY <1>1, <2>1 DEF Durable, Damage
<1>. QED BY <1>1, <1>2, <1>3, <1>4 DEF FlushedIsOnDisk, Durable

\* SQLite follows the file.
LEMMA InvMetadata ==
    ASSUME Inv
    PROVE  MetadataInv
<1>1. disk \in Disks /\ FactsInFile /\ PatchesCover
  BY DEF Inv, Types, FactsInv
<1>2. LoadedLines(disk) \cup SpoiltLines(disk) = InFile
  BY <1>1, FileContents
<1>. QED BY <1>1, <1>2 DEF MetadataInv, SqliteNeverAhead, FactsInFile, PatchesCover

\* recorder.rs: whatever writes and opens fail, are tried again or crash, and however
\* the calls of the session's tasks overlap, no accepted item is lost or written
\* twice, and the file has them in the order in which they were accepted.
THEOREM NothingLostOrReordered == Spec => []RecorderInv
<1>1. Inv => RecorderInv
  BY InvTypeOK, InvConserved, InvInOrder DEF RecorderInv
<1>. QED BY <1>1, InvHolds, PTL

\* recorder.rs flush, persist and shutdown: what a successful barrier covered is in the
\* file from then on, with the session meta, and each fault spoils one line at most.
THEOREM FlushIsDurable == Spec => []FlushedIsOnDisk
<1>1. Inv => FlushedIsOnDisk
  BY InvFlushed
<1>. QED BY <1>1, InvHolds, PTL

\* live_writer.rs, thread_metadata_sync.rs and update_thread_metadata.rs: SQLite never
\* shows an item the file lacks, also where rows that were read earlier are written
\* back; and a fact stays pending until a patch with it was written, however updates
\* overlap, so that it is missing only after a logged failure or a row written over it.
THEOREM MetadataFollows == Spec => []MetadataInv
<1>1. Inv => MetadataInv
  BY InvMetadata
<1>. QED BY <1>1, InvHolds, PTL

----------------------------------------------------------------------------
(* The two forms of an archived rollout. *)

Lines == {Base} \cup Appenders
FileStates == [file : 0..MaxFiles, holds : SUBSET Lines]

\* Workers that have read the state of the plain file, those of them that have
\* linked a compressed one, and appenders that found no plain file.
Past == {"cold", "encode", "link", "recheck", "unlink"}
Late == {"recheck", "unlink"}
Restoring == {"look", "link", "clean"}
Resolving == {"look", "looked", "plain", "zst"}

WorkerRecs == [pc : {"idle", "create1", "age", "remove", "create2", "claimed"} \cup Past,
               before : FileStates]
AppenderRecs == [pc : {"idle", "open", "write"} \cup Restoring,
                 holds : SUBSET Lines, file : 0..MaxFiles]
ReaderRecs == [pc : {"idle", "reading", "failed"} \cup Resolving,
               tries : 0..MaxRetries, holds : SUBSET Lines]

----------------------------------------------------------------------------
(* The inductive invariant. *)

\* The types of the state.
FilesTypes ==
    /\ FilesTypeOK
    /\ worker \in [Workers -> WorkerRecs]
    /\ appender \in [Appenders -> AppenderRecs]
    /\ reader \in [Readers -> ReaderRecs]

Seen(k) == worker[k].before.file

\* Every copy of the rollout, in a file or in the hands of a process, holds the
\* archived history, and one of the two files is there.
FilesHold ==
    /\ plain # 0 => Base \in data[plain]
    /\ zst.there => Base \in zst.holds
    /\ plain = 0 => zst.there

\* What workers and appenders copy holds the history.
CopiesHold ==
    /\ \A k \in Workers : worker[k].pc \in Past => Base \in worker[k].before.holds
    /\ \A a \in Appenders : appender[a].pc = "link" => Base \in appender[a].holds

\* The workers that run at the same time have all read the state of the same file;
\* a plain file that took its place is fresh.
OneFile ==
    /\ \A k \in Workers : worker[k].pc \in Past =>
          Seen(k) \in 1..files /\ (plain \in {0, Seen(k)} \/ plain \in fresh)
    /\ \A j, k \in Workers : worker[j].pc \in Past /\ worker[k].pc \in Past => Seen(j) = Seen(k)

\* Of the workers that may remove the plain file only one has linked its compressed
\* file, and that one is there.
OneRemover ==
    /\ \A k \in Workers : worker[k].pc = "unlink" => plain = Seen(k)
    /\ \A k \in Workers : worker[k].pc = "recheck" => plain # 0
    /\ \A k \in Workers : worker[k].pc \in Late /\ plain = Seen(k) =>
          zst.there /\ \A j \in Workers : worker[j].pc \in Late => j = k

\* An appender that found no plain file never meets a worker that may remove one.
NoOverlap ==
    /\ \A a \in Appenders : appender[a].pc \in Restoring => plain = 0 \/ plain \in fresh
    /\ \A a \in Appenders : appender[a].pc = "clean" => plain # 0
    /\ \A k \in Workers, a \in Appenders :
          worker[k].pc \in Past /\ plain = Seen(k) => appender[a].pc \notin Restoring

\* No worker removes this plain file before the next week.
Settled ==
    /\ plain # 0 /\ plain \in fresh
    /\ \A k \in Workers : worker[k].pc \in Past => Seen(k) # plain

\* Within one resolution the plain file is removed once and linked once at most,
\* so that the third attempt finds it.
Patience(r) ==
    /\ reader[r].tries > 0 \/ reader[r].pc \in {"looked", "zst"} => plain = 0 \/ Settled
    /\ reader[r].tries > 0 /\ reader[r].pc = "plain" => Settled
    /\ reader[r].tries > 1 => Settled /\ reader[r].pc \in {"look", "plain"}
    /\ reader[r].tries <= 2

\* Readers have attempts left, and what they have open holds the history.
ReadersInv ==
    /\ \A r \in Readers : reader[r].pc \in Resolving => Patience(r)
    /\ \A r \in Readers : reader[r].pc \in {"idle", "reading"} => reader[r].tries = 0
    /\ ReadersServed

\* The inductive invariant.
FilesInv == FilesTypes /\ FilesHold /\ CopiesHold /\ OneFile /\ OneRemover /\ NoOverlap

----------------------------------------------------------------------------
(* What a step does to the process that takes it. *)

\* Worker k goes to p and remembers b; the other workers are not touched.
WorkerTurns(k, p, b) ==
    /\ worker' \in [Workers -> WorkerRecs]
    /\ worker'[k].pc = p /\ worker'[k].before = b
    /\ \A j \in Workers \ {k} : worker'[j] = worker[j]

\* Appender a goes to p with h in its hands and f open.
AppenderTurns(a, p, h, f) ==
    /\ appender' \in [Appenders -> AppenderRecs]
    /\ appender'[a].pc = p /\ appender'[a].holds = h /\ appender'[a].file = f
    /\ \A b \in Appenders \ {a} : appender'[b] = appender[b]

\* Reader r goes to p after n failed attempts, having read h.
ReaderTurns(r, p, n, h) ==
    /\ reader' \in [Readers -> ReaderRecs]
    /\ reader'[r].pc = p /\ reader'[r].tries = n /\ reader'[r].holds = h
    /\ \A q \in Readers \ {r} : reader'[q] = reader[q]

FilesKept == UNCHANGED <<data, plain, zst, fresh, files, done>>

\* The records that idle processes and missing files have are of their types.
LEMMA IdleTypes ==
    /\ NoState \in FileStates
    /\ WIdle \in WorkerRecs /\ WIdle.pc = "idle" /\ WIdle.before = NoState
    /\ AIdle \in AppenderRecs /\ AIdle.pc = "idle" /\ AIdle.holds = {} /\ AIdle.file = 0
    /\ RIdle \in ReaderRecs /\ RIdle.pc = "idle" /\ RIdle.tries = 0
<1>1. NoState \in FileStates
  BY CompressionAssumption DEF NoState, FileStates
<1>2. WIdle \in WorkerRecs /\ WIdle.pc = "idle" /\ WIdle.before = NoState
  BY <1>1 DEF WIdle, WorkerRecs
<1>3. AIdle \in AppenderRecs /\ AIdle.pc = "idle" /\ AIdle.holds = {} /\ AIdle.file = 0
  BY CompressionAssumption DEF AIdle, AppenderRecs
<1>4. RIdle \in ReaderRecs /\ RIdle.pc = "idle" /\ RIdle.tries = 0
  BY CompressionAssumption DEF RIdle, ReaderRecs
<1>. QED BY <1>1, <1>2, <1>3, <1>4

\* The worker's record is replaced.
LEMMA WorkerSet ==
    ASSUME FilesTypes, NEW k \in Workers, NEW ws \in WorkerRecs, worker' = [worker EXCEPT ![k] = ws]
    PROVE  WorkerTurns(k, ws.pc, ws.before)
BY DEF FilesTypes, WorkerTurns

\* The worker only goes on.
LEMMA WorkerGoes ==
    ASSUME FilesTypes, NEW k \in Workers, NEW p \in {"create1", "create2"} \cup Past,
           worker' = [worker EXCEPT ![k].pc = p]
    PROVE  WorkerTurns(k, p, worker[k].before)
<1>. DEFINE ws == [worker[k] EXCEPT !.pc = p]
<1>1. ws \in WorkerRecs /\ ws.pc = p /\ ws.before = worker[k].before
  BY DEF FilesTypes, WorkerRecs, Past
<1>2. worker' = [worker EXCEPT ![k] = ws]
  OBVIOUS
<1>. HIDE DEF ws
<1>. QED BY <1>1, <1>2, WorkerSet

\* The worker stops.
LEMMA WorkerStops ==
    ASSUME FilesTypes, NEW k \in Workers, worker' = [worker EXCEPT ![k] = WIdle]
    PROVE  WorkerTurns(k, "idle", NoState)
BY WorkerSet, IdleTypes

\* The appender's record is replaced.
LEMMA AppenderSet ==
    ASSUME FilesTypes, NEW a \in Appenders, NEW x \in AppenderRecs, appender' = [appender EXCEPT ![a] = x]
    PROVE  AppenderTurns(a, x.pc, x.holds, x.file)
BY DEF FilesTypes, AppenderTurns

\* The appender only goes on.
LEMMA AppenderGoes ==
    ASSUME FilesTypes, NEW a \in Appenders, NEW p \in {"open", "look"},
           appender' = [appender EXCEPT ![a].pc = p]
    PROVE  AppenderTurns(a, p, appender[a].holds, appender[a].file)
<1>. DEFINE x == [appender[a] EXCEPT !.pc = p]
<1>1. /\ x \in AppenderRecs /\ x.pc = p /\ x.holds = appender[a].holds
      /\ x.file = appender[a].file
  BY DEF FilesTypes, AppenderRecs, Restoring
<1>2. appender' = [appender EXCEPT ![a] = x]
  OBVIOUS
<1>. HIDE DEF x
<1>. QED BY <1>1, <1>2, AppenderSet

\* The reader's record is replaced.
LEMMA ReaderSet ==
    ASSUME FilesTypes, NEW r \in Readers, NEW x \in ReaderRecs, reader' = [reader EXCEPT ![r] = x]
    PROVE  ReaderTurns(r, x.pc, x.tries, x.holds)
BY DEF FilesTypes, ReaderTurns

\* The reader only goes on.
LEMMA ReaderGoes ==
    ASSUME FilesTypes, NEW r \in Readers, NEW p \in Resolving, reader' = [reader EXCEPT ![r].pc = p]
    PROVE  ReaderTurns(r, p, reader[r].tries, reader[r].holds)
<1>. DEFINE x == [reader[r] EXCEPT !.pc = p]
<1>1. x \in ReaderRecs /\ x.pc = p /\ x.tries = reader[r].tries /\ x.holds = reader[r].holds
  BY DEF FilesTypes, ReaderRecs, Resolving
<1>2. reader' = [reader EXCEPT ![r] = x]
  OBVIOUS
<1>. HIDE DEF x
<1>. QED BY <1>1, <1>2, ReaderSet

----------------------------------------------------------------------------
(* The steps of the workers. *)

\* What a step that is no reader's leaves to the readers.
Calm ==
    /\ Settled => Settled'
    /\ plain = 0 => plain' = 0 \/ Settled'

\* Steps around the marker, and the ones that only go on or give up.
LEMMA QuietWorker ==
    ASSUME FilesInv, NEW k \in Workers, NEW p, NEW b, WorkerTurns(k, p, b),
           FilesKept, marker' \in {"none", "fresh", "stale"}, UNCHANGED <<appender, reader>>,
           \/ p \notin Past
           \/ p \in {"encode", "link"} /\ worker[k].pc \in Past /\ b = worker[k].before
    PROVE  FilesInv' /\ Calm
<1>. USE DEF FilesInv, WorkerTurns, FilesKept, Seen
<1>1. FilesTypes'
  BY DEF FilesTypes, FilesTypeOK
<1>2. FilesHold'
  BY DEF FilesHold
<1>3. CopiesHold'
  BY DEF CopiesHold, Past
<1>4. OneFile'
  BY DEF OneFile, Past
<1>5. OneRemover'
  BY DEF OneRemover, Past, Late
<1>6. NoOverlap'
  BY DEF NoOverlap, Past
<1>7. Calm
  BY DEF Calm, Settled, Past
<1>. QED BY <1>1, <1>2, <1>3, <1>4, <1>5, <1>6, <1>7

\* The steps of a worker before it reads the file, and its end.
LEMMA MarkerSteps ==
    ASSUME FilesInv, NEW k \in Workers,
           \/ StartRun(k) \/ CreateMarker(k) \/ CheckAge(k) \/ RemoveMarker(k) \/ FailRun(k)
           \/ WorkerDies(k)
    PROVE  FilesInv' /\ Calm
<1>. USE DEF FilesKept
<1>0. FilesTypes /\ marker \in {"none", "fresh", "stale"} /\ worker[k] \in WorkerRecs
  BY DEF FilesInv, FilesTypes, FilesTypeOK
<1>1. CASE StartRun(k)
  <2>1. WorkerTurns(k, "create1", worker[k].before)
    BY <1>0, <1>1, WorkerGoes DEF StartRun
  <2>. QED BY <1>0, <1>1, <2>1, QuietWorker DEF StartRun, Past
<1>2. CASE CreateMarker(k)
  <2>. DEFINE ws == CASE marker = "none" -> [worker[k] EXCEPT !.pc = "claimed"]
                     [] worker[k].pc = "create1" /\ marker # "none" -> [worker[k] EXCEPT !.pc = "age"]
                     [] OTHER -> WIdle
  <2>1. ws \in WorkerRecs /\ ws.pc \notin Past
    BY <1>0, IdleTypes DEF WorkerRecs, Past
  <2>2. worker' = [worker EXCEPT ![k] = ws]
    BY <1>2 DEF CreateMarker
  <2>. HIDE DEF ws
  <2>3. WorkerTurns(k, ws.pc, ws.before)
    BY <1>0, <2>1, <2>2, WorkerSet
  <2>. QED BY <1>0, <1>2, <2>1, <2>3, QuietWorker DEF CreateMarker
<1>3. CASE CheckAge(k)
  <2>. DEFINE ws == IF marker = "stale" THEN [worker[k] EXCEPT !.pc = "remove"] ELSE WIdle
  <2>1. ws \in WorkerRecs /\ ws.pc \notin Past
    BY <1>0, IdleTypes DEF WorkerRecs, Past
  <2>2. worker' = [worker EXCEPT ![k] = ws]
    BY <1>3 DEF CheckAge
  <2>. HIDE DEF ws
  <2>3. WorkerTurns(k, ws.pc, ws.before)
    BY <1>0, <2>1, <2>2, WorkerSet
  <2>. QED BY <1>0, <1>3, <2>1, <2>3, QuietWorker DEF CheckAge
<1>4. CASE RemoveMarker(k)
  <2>1. WorkerTurns(k, "create2", worker[k].before)
    BY <1>0, <1>4, WorkerGoes DEF RemoveMarker
  <2>. QED BY <1>4, <2>1, QuietWorker DEF RemoveMarker, Past
<1>5. CASE FailRun(k)
  <2>1. WorkerTurns(k, "idle", NoState)
    BY <1>0, <1>5, WorkerStops DEF FailRun
  <2>. QED BY <1>5, <2>1, QuietWorker DEF FailRun, Past
<1>6. CASE WorkerDies(k)
  <2>1. WorkerTurns(k, "idle", NoState)
    BY <1>0, <1>6, WorkerStops DEF WorkerDies
  <2>. QED BY <1>0, <1>6, <2>1, QuietWorker DEF WorkerDies, Past
<1>. QED BY <1>1, <1>2, <1>3, <1>4, <1>5, <1>6

\* The state that is compared holds the history when the file is there.
LEMMA StateOfPlain ==
    ASSUME FilesTypes, FilesHold, plain # 0
    PROVE  /\ StateOf(plain) \in FileStates
           /\ StateOf(plain).file = plain /\ Base \in StateOf(plain).holds
BY CompressionAssumption DEF FilesTypes, FilesTypeOK, FilesHold, StateOf, FileStates, Lines

\* A worker reads the state of a cold file.
LEMMA ReadColdStep ==
    ASSUME FilesInv, NEW k \in Workers, ReadCold(k)
    PROVE  FilesInv' /\ Calm
<1>. USE DEF FilesKept
<1>0. FilesTypes /\ marker \in {"none", "fresh", "stale"}
  BY DEF FilesInv, FilesTypes, FilesTypeOK
<1>1. CASE plain # 0 /\ plain \notin fresh
  <2>. DEFINE ws == [pc |-> "cold", before |-> StateOf(plain)]
  <2>1. ws \in WorkerRecs /\ ws.pc = "cold" /\ ws.before = StateOf(plain)
    BY <1>1, StateOfPlain DEF FilesInv, WorkerRecs, Past
  <2>2. worker' = [worker EXCEPT ![k] = ws]
    BY <1>1 DEF ReadCold
  <2>. HIDE DEF ws
  <2>3. WorkerTurns(k, "cold", StateOf(plain))
    BY <1>0, <2>1, <2>2, WorkerSet
  <2>4. UNCHANGED <<data, plain, zst, fresh, marker, appender, reader, done, files>>
    BY DEF ReadCold
  <2>5. StateOf(plain).file = plain /\ Base \in StateOf(plain).holds /\ plain \in 1..files
    BY <1>1, StateOfPlain DEF FilesInv, FilesTypes, FilesTypeOK
  <2>. USE <1>1, <2>3, <2>4, <2>5 DEF FilesInv, WorkerTurns, Seen
  <2>6. FilesTypes'
    BY DEF FilesTypes, FilesTypeOK
  <2>7. FilesHold' /\ CopiesHold'
    BY DEF FilesHold, CopiesHold
  <2>8. OneFile'
    BY DEF OneFile, Past
  <2>9. OneRemover'
    BY DEF OneRemover, Past, Late
  <2>10. NoOverlap'
    BY DEF NoOverlap
  <2>11. Calm
    BY DEF Calm, Settled
  <2>. QED BY <2>6, <2>7, <2>8, <2>9, <2>10, <2>11
<1>2. CASE ~(plain # 0 /\ plain \notin fresh)
  <2>1. WorkerTurns(k, "idle", NoState)
    BY <1>0, <1>2, WorkerStops DEF ReadCold
  <2>. QED BY <1>0, <2>1, QuietWorker DEF ReadCold, Past
<1>. QED BY <1>1, <1>2

\* A worker goes on with a file that has no compressed form yet and has not changed.
LEMMA EncodeSteps ==
    ASSUME FilesInv, NEW k \in Workers, SkipCompressed(k) \/ Encode(k)
    PROVE  FilesInv' /\ Calm
<1>. USE DEF FilesKept
<1>0. FilesTypes /\ marker \in {"none", "fresh", "stale"} /\ worker[k].pc \in Past
  BY DEF FilesInv, FilesTypes, FilesTypeOK, SkipCompressed, Encode, Past
<1>1. UNCHANGED <<data, plain, zst, fresh, marker, appender, reader, done, files>>
  BY DEF SkipCompressed, Encode
<1>2. CASE worker' = [worker EXCEPT ![k] = WIdle]
  <2>1. WorkerTurns(k, "idle", NoState)
    BY <1>0, <1>2, WorkerStops
  <2>. QED BY <1>0, <1>1, <2>1, QuietWorker DEF Past
<1>3. CASE \E p \in {"encode", "link"} : worker' = [worker EXCEPT ![k].pc = p]
  <2>1. PICK p \in {"encode", "link"} : worker' = [worker EXCEPT ![k].pc = p]
    BY <1>3
  <2>2. WorkerTurns(k, p, worker[k].before)
    BY <1>0, <2>1, WorkerGoes DEF Past
  <2>. QED BY <1>0, <1>1, <2>2, QuietWorker
<1>. QED BY <1>2, <1>3 DEF SkipCompressed, Encode

\* A worker links its compressed file; none was there, hence the plain one is.
LEMMA LinkCompressedStep ==
    ASSUME FilesInv, NEW k \in Workers, LinkCompressed(k)
    PROVE  FilesInv' /\ Calm
<1>. USE DEF FilesKept
<1>0. /\ FilesTypes /\ marker \in {"none", "fresh", "stale"} /\ worker[k].pc \in Past
      /\ worker[k].before \in FileStates
  BY DEF FilesInv, FilesTypes, FilesTypeOK, LinkCompressed, Past, WorkerRecs
<1>1. UNCHANGED <<data, plain, fresh, marker, appender, reader, done, files>>
  BY DEF LinkCompressed
<1>2. CASE zst.there
  <2>1. WorkerTurns(k, "idle", NoState) /\ zst' = zst
    BY <1>0, <1>2, WorkerStops DEF LinkCompressed
  <2>. QED BY <1>0, <1>1, <2>1, QuietWorker DEF Past
<1>3. CASE ~zst.there
  <2>1. worker' = [worker EXCEPT ![k].pc = "recheck"]
    BY <1>3 DEF LinkCompressed
  <2>2. WorkerTurns(k, "recheck", worker[k].before)
    BY <1>0, <2>1, WorkerGoes DEF Past
  <2>3. zst'.there /\ zst'.holds = worker[k].before.holds
        /\ zst' \in [there : BOOLEAN, holds : SUBSET Lines]
    BY <1>0, <1>3 DEF LinkCompressed, FileStates
  <2>. USE <1>0, <1>1, <1>3, <2>2, <2>3 DEF FilesInv, WorkerTurns, Seen
  <2>6. FilesTypes'
    BY DEF FilesTypes, FilesTypeOK, Lines
  <2>7. FilesHold' /\ CopiesHold'
    BY DEF FilesHold, CopiesHold, Past
  <2>8. OneFile'
    BY DEF OneFile, Past
  <2>9. OneRemover'
    BY DEF OneRemover, OneFile, FilesHold, Past, Late
  <2>10. NoOverlap'
    BY DEF NoOverlap, Past
  <2>11. Calm
    BY DEF Calm, Settled, Past
  <2>. QED BY <2>6, <2>7, <2>8, <2>9, <2>10, <2>11
<1>. QED BY <1>2, <1>3

\* A worker finds the file as it was and goes on, or takes its compressed file back.
LEMMA RecheckStep ==
    ASSUME FilesInv, NEW k \in Workers, Recheck(k)
    PROVE  FilesInv' /\ Calm
<1>0. /\ FilesTypes /\ worker[k].pc = "recheck" /\ plain # 0 /\ StateOf(plain).file = plain
  BY StateOfPlain DEF FilesInv, OneRemover, Recheck
<1>1. UNCHANGED <<data, plain, fresh, marker, appender, reader, done, files>>
  BY DEF Recheck
<1>2. CASE StateOf(plain) = worker[k].before
  <2>1. worker' = [worker EXCEPT ![k].pc = "unlink"] /\ zst' = zst /\ plain = Seen(k)
    BY <1>0, <1>2 DEF Recheck, Seen
  <2>2. WorkerTurns(k, "unlink", worker[k].before)
    BY <1>0, <2>1, WorkerGoes DEF Past
  <2>. USE <1>0, <1>1, <2>1, <2>2 DEF FilesInv, WorkerTurns, Seen
  <2>6. FilesTypes'
    BY DEF FilesTypes, FilesTypeOK
  <2>7. FilesHold' /\ CopiesHold'
    BY DEF FilesHold, CopiesHold, Past
  <2>8. OneFile'
    BY DEF OneFile, Past
  <2>9. OneRemover'
    BY DEF OneRemover, Past, Late
  <2>10. NoOverlap'
    BY DEF NoOverlap, Past
  <2>11. Calm
    BY DEF Calm, Settled, Past
  <2>. QED BY <2>6, <2>7, <2>8, <2>9, <2>10, <2>11
<1>3. CASE StateOf(plain) # worker[k].before
  <2>1. worker' = [worker EXCEPT ![k] = WIdle] /\ zst' = NoZst
    BY <1>0, <1>3 DEF Recheck
  <2>2. WorkerTurns(k, "idle", NoState)
    BY <1>0, <2>1, WorkerStops DEF Past
  <2>3. ~zst'.there /\ zst' \in [there : BOOLEAN, holds : SUBSET Lines]
    BY <2>1 DEF NoZst
  <2>. USE <1>0, <1>1, <2>2, <2>3 DEF FilesInv, WorkerTurns, Seen
  <2>6. FilesTypes'
    BY DEF FilesTypes, FilesTypeOK, Lines
  <2>7. FilesHold' /\ CopiesHold'
    BY DEF FilesHold, CopiesHold, Past
  <2>8. OneFile'
    BY DEF OneFile, Past
  <2>9. OneRemover'
    BY DEF OneRemover, OneFile, Past, Late
  <2>10. NoOverlap'
    BY DEF NoOverlap, Past
  <2>11. Calm
    BY DEF Calm, Settled, Past
  <2>. QED BY <2>6, <2>7, <2>8, <2>9, <2>10, <2>11
<1>. QED BY <1>2, <1>3

\* A worker removes the plain file; its compressed one is there, and no other
\* worker is between its link and its removal.
LEMMA UnlinkPlainStep ==
    ASSUME FilesInv, NEW k \in Workers, UnlinkPlain(k)
    PROVE  FilesInv' /\ Calm
<1>1. UNCHANGED <<data, zst, fresh, marker, appender, reader, done, files>> /\ plain' = 0
  BY DEF UnlinkPlain
<1>2. WorkerTurns(k, "idle", NoState)
  BY WorkerStops DEF FilesInv, UnlinkPlain
<1>3. /\ plain = Seen(k) /\ zst.there /\ plain # 0 /\ worker[k].pc \in Past
      /\ \A j \in Workers \ {k} : worker[j].pc \notin Late
  BY DEF UnlinkPlain, FilesInv, OneFile, OneRemover, Past, Late
<1>. USE <1>1, <1>2, <1>3 DEF FilesInv, WorkerTurns, Seen
<1>4. FilesTypes'
  BY DEF FilesTypes, FilesTypeOK
<1>5. FilesHold' /\ CopiesHold'
  BY DEF FilesHold, CopiesHold, Past
<1>6. OneFile'
  BY DEF OneFile, Past
<1>7. OneRemover'
  BY DEF OneRemover, Past, Late
<1>8. NoOverlap'
  BY DEF NoOverlap, OneFile, Past, Restoring
<1>9. Calm
  BY DEF Calm, Settled, Past
<1>. QED BY <1>4, <1>5, <1>6, <1>7, <1>8, <1>9

----------------------------------------------------------------------------
(* The steps of the appenders. *)

\* Steps of an appender that leave the files alone.
LEMMA QuietAppender ==
    ASSUME FilesInv, NEW a \in Appenders, NEW p, NEW h, NEW f, AppenderTurns(a, p, h, f),
           FilesKept, UNCHANGED <<marker, worker, reader>>,
           f \in IF p = "write" THEN 1..files ELSE {0},
           p = "link" => Base \in h,
           p \in Restoring => plain = 0 \/ appender[a].pc \in Restoring,
           p = "clean" => plain # 0
    PROVE  FilesInv' /\ Calm
<1>. USE DEF FilesInv, AppenderTurns, FilesKept, Seen
<1>1. FilesTypes'
  BY DEF FilesTypes, FilesTypeOK
<1>2. FilesHold' /\ CopiesHold'
  BY DEF FilesHold, CopiesHold
<1>3. OneFile' /\ OneRemover'
  BY DEF OneFile, OneRemover
<1>4. NoOverlap'
  BY DEF NoOverlap, OneFile
<1>5. Calm
  BY DEF Calm, Settled
<1>. QED BY <1>1, <1>2, <1>3, <1>4, <1>5

\* What an appender holds and has open.
LEMMA AppenderTypes ==
    ASSUME FilesTypes, NEW a \in Appenders
    PROVE  /\ appender[a] \in AppenderRecs
           /\ appender[a].file \in IF appender[a].pc = "write" THEN 1..files ELSE {0}
           /\ appender[a].holds \subseteq Lines
BY DEF FilesTypes, FilesTypeOK, AppenderRecs

\* An appender starts, and reads the compressed file when there is no plain one.
LEMMA LookSteps ==
    ASSUME FilesInv, NEW a \in Appenders, StartAppend(a) \/ Decompress(a)
    PROVE  FilesInv' /\ Calm
<1>. USE DEF FilesKept
<1>0. FilesTypes /\ appender[a].file = 0 /\ appender[a] \in AppenderRecs
  BY AppenderTypes DEF FilesInv, StartAppend, Decompress
<1>1. CASE StartAppend(a)
  <2>1. CASE plain # 0
    <3>1. AppenderTurns(a, "open", appender[a].holds, 0)
      BY <1>0, <1>1, <2>1, AppenderGoes DEF StartAppend
    <3>. QED BY <1>1, <3>1, QuietAppender DEF StartAppend, Restoring
  <2>2. CASE plain = 0
    <3>1. AppenderTurns(a, "look", appender[a].holds, 0)
      BY <1>0, <1>1, <2>2, AppenderGoes DEF StartAppend
    <3>. QED BY <1>1, <2>2, <3>1, QuietAppender DEF StartAppend
  <2>. QED BY <2>1, <2>2
<1>2. CASE Decompress(a)
  <2>1. CASE zst.there
    <3>. DEFINE x == [appender[a] EXCEPT !.pc = "link", !.holds = zst.holds]
    <3>1. x \in AppenderRecs /\ x.pc = "link" /\ x.holds = zst.holds /\ x.file = 0
      BY <1>0 DEF FilesTypes, FilesTypeOK, AppenderRecs, Restoring, Lines
    <3>2. appender' = [appender EXCEPT ![a] = x]
      BY <1>2, <2>1 DEF Decompress
    <3>. HIDE DEF x
    <3>3. AppenderTurns(a, "link", zst.holds, 0)
      BY <1>0, <3>1, <3>2, AppenderSet
    <3>4. Base \in zst.holds /\ appender[a].pc \in Restoring
      BY <1>2, <2>1 DEF FilesInv, FilesHold, Decompress, Restoring
    <3>. QED BY <1>2, <3>3, <3>4, QuietAppender DEF Decompress
  <2>2. CASE ~zst.there
    <3>1. appender' = [appender EXCEPT ![a].pc = "open"]
      BY <1>2, <2>2 DEF Decompress
    <3>2. AppenderTurns(a, "open", appender[a].holds, 0)
      BY <1>0, <3>1, AppenderGoes
    <3>. QED BY <1>2, <3>2, QuietAppender DEF Decompress, Restoring
  <2>. QED BY <2>1, <2>2
<1>. QED BY <1>1, <1>2

\* A decompressed copy becomes the plain file unless one is there already.
LEMMA LinkPlainStep ==
    ASSUME FilesInv, NEW a \in Appenders, LinkPlain(a)
    PROVE  FilesInv' /\ Calm
<1>0. /\ FilesTypes /\ appender[a].file = 0 /\ appender[a] \in AppenderRecs
      /\ appender[a].pc = "link" /\ appender[a].pc \in Restoring
      /\ appender[a].holds \subseteq Lines /\ Base \in appender[a].holds
  BY AppenderTypes DEF FilesInv, LinkPlain, CopiesHold, Restoring
<1>. DEFINE x == [[appender[a] EXCEPT !.pc = "clean"] EXCEPT !.holds = {}]
<1>1. x \in AppenderRecs /\ x.pc = "clean" /\ x.holds = {} /\ x.file = 0
  BY <1>0 DEF AppenderRecs, Restoring
<1>2. appender' = [appender EXCEPT ![a] = x]
  BY <1>0 DEF LinkPlain, FilesTypes, AppenderRecs
<1>. HIDE DEF x
<1>3. AppenderTurns(a, "clean", {}, 0)
  BY <1>0, <1>1, <1>2, AppenderSet
<1>4. UNCHANGED <<zst, marker, worker, reader, done>>
  BY DEF LinkPlain
<1>5. CASE plain # 0
  BY <1>0, <1>3, <1>4, <1>5, QuietAppender DEF LinkPlain, FilesKept
<1>6. CASE plain = 0
  <2>1. /\ files < MaxFiles /\ plain' = files + 1 /\ files' = files + 1
        /\ data' = [data EXCEPT ![files + 1] = appender[a].holds]
        /\ fresh' = fresh \cup {files + 1}
    BY <1>6 DEF LinkPlain
  <2>2. /\ files \in 1..MaxFiles /\ files + 1 \in 1..MaxFiles
        /\ data \in [1..MaxFiles -> SUBSET Lines]
    BY <1>0, <2>1, CompressionAssumption DEF FilesTypes, FilesTypeOK, Lines
  <2>3. data' \in [1..MaxFiles -> SUBSET Lines] /\ data'[files + 1] = appender[a].holds
    BY <1>0, <2>1, <2>2
  <2>. USE <1>0, <1>3, <1>4, <1>6, <2>1, <2>2, <2>3 DEF FilesInv, AppenderTurns, Seen
  <2>4. FilesTypes'
    <3>1. plain' \in 0..files' /\ fresh' \subseteq 1..files' /\ files' \in 1..MaxFiles
      BY DEF FilesTypes, FilesTypeOK
    <3>2. \A b \in Appenders : appender'[b].file \in IF appender'[b].pc = "write" THEN 1..files'
                                                     ELSE {0}
      BY DEF FilesTypes, FilesTypeOK
    <3>. QED BY <3>1, <3>2 DEF FilesTypes, FilesTypeOK, Lines
  <2>5. FilesHold' /\ CopiesHold'
    BY DEF FilesHold, CopiesHold
  <2>6. OneFile'
    BY DEF OneFile
  <2>7. OneRemover'
    BY DEF OneRemover, OneFile, Past, Late
  <2>8. NoOverlap'
    BY DEF NoOverlap, OneFile
  <2>9. Calm
    BY DEF Calm, Settled, OneFile
  <2>. QED BY <2>4, <2>5, <2>6, <2>7, <2>8, <2>9
<1>. QED BY <1>5, <1>6

\* An appender removes the compressed file; the plain one is there, and no worker
\* has read its state.
LEMMA RemoveCompressedStep ==
    ASSUME FilesInv, NEW a \in Appenders, RemoveCompressed(a)
    PROVE  FilesInv' /\ Calm
<1>0. /\ FilesTypes /\ appender[a].file = 0 /\ appender[a].pc \in Restoring /\ plain # 0
      /\ \A k \in Workers : worker[k].pc \in Past => plain # Seen(k)
  BY AppenderTypes DEF FilesInv, RemoveCompressed, NoOverlap, Restoring
<1>1. AppenderTurns(a, "open", appender[a].holds, 0)
  BY <1>0, AppenderGoes DEF RemoveCompressed
<1>2. UNCHANGED <<data, plain, fresh, marker, worker, reader, done, files>>
  BY DEF RemoveCompressed
<1>3. ~zst'.there /\ zst' \in [there : BOOLEAN, holds : SUBSET Lines]
  BY DEF NoZst, RemoveCompressed
<1>. USE <1>0, <1>1, <1>2, <1>3 DEF FilesInv, AppenderTurns, Seen
<1>4. FilesTypes'
  BY DEF FilesTypes, FilesTypeOK, Lines
<1>5. FilesHold' /\ CopiesHold'
  BY DEF FilesHold, CopiesHold
<1>6. OneFile'
  BY DEF OneFile
<1>7. OneRemover'
  BY DEF OneRemover, Past, Late
<1>8. NoOverlap'
  BY DEF NoOverlap, Restoring
<1>9. Calm
  BY DEF Calm, Settled
<1>. QED BY <1>4, <1>5, <1>6, <1>7, <1>8, <1>9

\* An appender opens the plain file, or gives up without one.
LEMMA OpenPlainStep ==
    ASSUME FilesInv, Creators = {}, NEW a \in Appenders, OpenPlain(a)
    PROVE  FilesInv' /\ Calm
<1>. USE DEF FilesKept
<1>0. FilesTypes /\ appender[a].file = 0 /\ appender[a] \in AppenderRecs /\ plain \in 0..files
      /\ files \in 1..MaxFiles
  BY AppenderTypes DEF FilesInv, OpenPlain, FilesTypes, FilesTypeOK
<1>1. UNCHANGED <<zst, marker, worker, reader, done>>
  BY DEF OpenPlain
<1>2. CASE plain # 0
  <2>. DEFINE x == [[appender[a] EXCEPT !.pc = "write"] EXCEPT !.file = plain]
  <2>0. plain \in 0..MaxFiles
    BY <1>0, CompressionAssumption
  <2>1. x \in AppenderRecs /\ x.pc = "write" /\ x.file = plain
    BY <1>0, <2>0 DEF AppenderRecs
  <2>2. appender' = [appender EXCEPT ![a] = x] /\ UNCHANGED <<data, plain, files, fresh>>
    BY <1>0, <1>2 DEF OpenPlain, FilesTypes, AppenderRecs
  <2>. HIDE DEF x
  <2>3. AppenderTurns(a, "write", x.holds, plain)
    BY <1>0, <2>1, <2>2, AppenderSet
  <2>4. plain \in 1..files
    BY <1>0, <1>2
  <2>. QED BY <1>1, <2>2, <2>3, <2>4, QuietAppender DEF Restoring
<1>3. CASE plain = 0
  <2>1. appender' = [appender EXCEPT ![a] = AIdle] /\ UNCHANGED <<data, plain, files, fresh>>
    BY <1>3 DEF OpenPlain
  <2>2. AppenderTurns(a, "idle", {}, 0)
    BY <1>0, <2>1, AppenderSet, IdleTypes
  <2>. QED BY <1>1, <2>1, <2>2, QuietAppender DEF Restoring
<1>. QED BY <1>2, <1>3

\* An appender writes its line to the file it has open, and the file is fresh.
LEMMA WriteLineStep ==
    ASSUME FilesInv, NEW a \in Appenders, WriteLine(a)
    PROVE  FilesInv' /\ Calm
<1>. DEFINE f == appender[a].file
<1>0. FilesTypes /\ f \in 1..files /\ files \in 1..MaxFiles
  BY AppenderTypes DEF FilesInv, WriteLine, FilesTypes, FilesTypeOK
<1>1. AppenderTurns(a, "idle", {}, 0)
  BY <1>0, AppenderSet, IdleTypes DEF WriteLine
<1>2. /\ UNCHANGED <<plain, zst, marker, worker, reader, files>>
      /\ fresh' = fresh \cup {f} /\ done' = done \cup {a}
      /\ data' = [data EXCEPT ![f] = data[f] \cup {a}]
  BY DEF WriteLine
<1>3. data \in [1..MaxFiles -> SUBSET Lines] /\ a \in Lines /\ f \in 1..MaxFiles
  BY <1>0, CompressionAssumption DEF FilesTypes, FilesTypeOK, Lines
<1>4. data' \in [1..MaxFiles -> SUBSET Lines] /\ \A g \in 1..MaxFiles : data[g] \subseteq data'[g]
  BY <1>2, <1>3
<1>. HIDE DEF f
<1>. USE <1>0, <1>1, <1>2, <1>4 DEF FilesInv, AppenderTurns, Seen
<1>5. FilesTypes'
  BY DEF FilesTypes, FilesTypeOK, Lines
<1>6. FilesHold' /\ CopiesHold'
  <2>1. plain # 0 => plain \in 1..MaxFiles
    BY CompressionAssumption DEF FilesTypes, FilesTypeOK
  <2>. QED BY <2>1 DEF FilesHold, CopiesHold
<1>7. OneFile' /\ OneRemover'
  BY DEF OneFile, OneRemover
<1>8. NoOverlap'
  BY DEF NoOverlap, Restoring
<1>9. Calm
  BY DEF Calm, Settled
<1>. QED BY <1>5, <1>6, <1>7, <1>8, <1>9

----------------------------------------------------------------------------
(* The passing of time, and the steps of the readers. *)

\* A marker goes stale, or every file goes cold while no one is at work.
LEMMA TimeSteps ==
    ASSUME FilesInv, Age \/ WeekPasses
    PROVE  FilesInv'
<1>1. CASE Age
  BY <1>1 DEF Age, FilesInv, FilesTypes, FilesTypeOK, FilesHold, CopiesHold, OneFile, OneRemover, NoOverlap, Seen
<1>2. CASE WeekPasses
  <2>1. /\ UNCHANGED <<data, plain, zst, marker, worker, appender, reader, done, files>>
        /\ fresh' = {}
        /\ \A k \in Workers : worker[k].pc \notin Past \cup Late
        /\ \A a \in Appenders : appender[a].pc \notin Restoring
    BY <1>2 DEF WeekPasses, Past, Late, Restoring
  <2>. USE <2>1 DEF FilesInv
  <2>2. FilesTypes'
    BY DEF FilesTypes, FilesTypeOK
  <2>3. FilesHold' /\ CopiesHold'
    BY DEF FilesHold, CopiesHold
  <2>4. OneFile' /\ OneRemover'
    BY DEF OneFile, OneRemover, Seen, Past, Late
  <2>5. NoOverlap'
    BY DEF NoOverlap, Restoring
  <2>. QED BY <2>2, <2>3, <2>4, <2>5
<1>. QED BY <1>1, <1>2

\* A reader changes nothing but itself.
LEMMA ReaderIsQuiet ==
    ASSUME FilesInv, NEW r \in Readers, NEW p, NEW n, NEW h, ReaderTurns(r, p, n, h),
           FilesKept, UNCHANGED <<marker, worker, appender>>
    PROVE  FilesInv' /\ Settled' = Settled
<1>. USE DEF FilesInv, FilesKept, ReaderTurns
<1>1. FilesTypes'
  BY DEF FilesTypes, FilesTypeOK, ReaderRecs
<1>2. FilesHold' /\ CopiesHold'
  BY DEF FilesHold, CopiesHold
<1>3. OneFile' /\ OneRemover' /\ NoOverlap'
  BY DEF OneFile, OneRemover, NoOverlap, Seen
<1>4. Settled' = Settled
  BY DEF Settled, Seen
<1>. QED BY <1>1, <1>2, <1>3, <1>4

\* A reader that missed looks again while it may.
LEMMA NotFoundType ==
    ASSUME NEW x \in ReaderRecs
    PROVE  LET y == NotFound(x)
           IN /\ y \in ReaderRecs /\ y.holds = x.holds
              /\ IF x.tries < MaxRetries THEN y.pc = "look" /\ y.tries = x.tries + 1
                 ELSE y.pc = "failed" /\ y.tries = x.tries
<1>1. x.tries \in 0..MaxRetries /\ MaxRetries \in Nat
  BY CompressionAssumption DEF ReaderRecs
<1>2. CASE x.tries < MaxRetries
  <2>1. x.tries + 1 \in 0..MaxRetries
    BY <1>1, <1>2
  <2>2. NotFound(x) = [x EXCEPT !.pc = "look", !.tries = x.tries + 1]
    BY <1>2 DEF NotFound
  <2>. QED BY <1>2, <2>1, <2>2 DEF ReaderRecs, Resolving
<1>3. CASE ~(x.tries < MaxRetries)
  BY <1>3 DEF NotFound, ReaderRecs
<1>. QED BY <1>2, <1>3

\* Where a step of a reader takes it.
Opened(r) ==
    \E h \in SUBSET Lines : ReaderTurns(r, "reading", 0, h) /\ (Base \in h)
Missed(r) ==
    /\ IF reader[r].tries < MaxRetries
       THEN ReaderTurns(r, "look", reader[r].tries + 1, reader[r].holds)
       ELSE ReaderTurns(r, "failed", reader[r].tries, reader[r].holds)
    /\ reader[r].pc = "plain" => plain = 0
    /\ reader[r].pc = "zst" => plain # 0
Looks(r) ==
    \/ /\ reader[r].pc = "look" /\ plain # 0
       /\ ReaderTurns(r, "plain", reader[r].tries, reader[r].holds)
    \/ /\ reader[r].pc = "look" /\ plain = 0
       /\ ReaderTurns(r, "looked", reader[r].tries, reader[r].holds)
    \/ /\ reader[r].pc = "looked" /\ plain # 0
       /\ ReaderTurns(r, "plain", reader[r].tries, reader[r].holds)
    \/ /\ reader[r].pc = "looked"
       /\ ReaderTurns(r, "zst", reader[r].tries, reader[r].holds)
Rests(r) ==
    \/ reader[r].pc = "idle" /\ ReaderTurns(r, "look", reader[r].tries, reader[r].holds)
    \/ ReaderTurns(r, "idle", 0, {})

\* Every step of a reader is of one of these kinds.
LEMMA ReaderKinds ==
    ASSUME FilesInv, NEW r \in Readers, ReaderStep(r)
    PROVE  /\ FilesKept /\ UNCHANGED <<marker, worker, appender>>
           /\ \/ Rests(r)
              \/ Looks(r)
              \/ reader[r].pc \in {"plain", "zst"} /\ (Opened(r) \/ Missed(r))
<1>0. FilesTypes /\ reader[r] \in ReaderRecs
  BY DEF FilesInv, FilesTypes
<1>1. FilesKept /\ UNCHANGED <<marker, worker, appender>>
  BY DEF ReaderStep, StartRead, LookPlain, LookCompressed, OpenForRead, EndRead, FilesKept
<1>2. CASE StartRead(r)
  BY <1>0, <1>1, <1>2, ReaderGoes DEF StartRead, Rests, Resolving
<1>3. CASE LookPlain(r)
  <2>1. CASE plain # 0
    <3>1. reader' = [reader EXCEPT ![r].pc = "plain"] /\ reader[r].pc = "look"
      BY <1>3, <2>1 DEF LookPlain
    <3>. QED BY <1>0, <1>1, <2>1, <3>1, ReaderGoes DEF Looks, Resolving
  <2>2. CASE plain = 0
    <3>1. reader' = [reader EXCEPT ![r].pc = "looked"] /\ reader[r].pc = "look"
      BY <1>3, <2>2 DEF LookPlain
    <3>. QED BY <1>0, <1>1, <2>2, <3>1, ReaderGoes DEF Looks, Resolving
  <2>. QED BY <2>1, <2>2
<1>4. CASE LookCompressed(r)
  <2>1. CASE zst.there
    <3>1. reader' = [reader EXCEPT ![r].pc = "zst"] /\ reader[r].pc = "looked"
      BY <1>4, <2>1 DEF LookCompressed
    <3>. QED BY <1>0, <1>1, <3>1, ReaderGoes DEF Looks, Resolving
  <2>2. CASE ~zst.there
    <3>1. reader' = [reader EXCEPT ![r].pc = "plain"] /\ reader[r].pc = "looked" /\ plain # 0
      BY <1>4, <2>2 DEF LookCompressed, FilesInv, FilesHold
    <3>. QED BY <1>0, <1>1, <3>1, ReaderGoes DEF Looks, Resolving
  <2>. QED BY <2>1, <2>2
<1>5. CASE OpenForRead(r)
  <2>. DEFINE there == IF reader[r].pc = "plain" THEN plain # 0 ELSE zst.there
              holds == IF reader[r].pc = "plain" THEN StateOf(plain).holds ELSE zst.holds
              x == [pc |-> "reading", tries |-> 0, holds |-> holds]
              y == NotFound(reader[r])
  <2>1. reader[r].pc \in {"plain", "zst"}
    BY <1>5 DEF OpenForRead
  <2>2. CASE there
    <3>1. holds \in SUBSET Lines /\ Base \in holds
      <4>1. CASE reader[r].pc = "plain"
        BY <2>2, <4>1, StateOfPlain DEF FilesInv, FileStates
      <4>2. CASE reader[r].pc # "plain"
        BY <2>2, <4>2 DEF FilesInv, FilesHold, FilesTypes, FilesTypeOK, Lines
      <4>. QED BY <4>1, <4>2
    <3>2. reader' = [reader EXCEPT ![r] = x]
      BY <1>5, <2>2 DEF OpenForRead
    <3>. HIDE DEF holds, there
    <3>3. x \in ReaderRecs /\ x.pc = "reading" /\ x.tries = 0 /\ x.holds = holds
      BY <3>1, CompressionAssumption DEF ReaderRecs
    <3>. HIDE DEF x
    <3>4. ReaderTurns(r, "reading", 0, holds)
      BY <1>0, <3>2, <3>3, ReaderSet
    <3>. QED BY <1>1, <2>1, <3>1, <3>4 DEF Opened
  <2>3. CASE ~there
    <3>1. reader' = [reader EXCEPT ![r] = y]
      BY <1>5, <2>3 DEF OpenForRead
    <3>2. /\ reader[r].pc = "plain" => plain = 0
          /\ reader[r].pc = "zst" => plain # 0
      BY <2>3 DEF FilesInv, FilesHold
    <3>3. /\ y \in ReaderRecs /\ y.holds = reader[r].holds
          /\ IF reader[r].tries < MaxRetries THEN y.pc = "look" /\ y.tries = reader[r].tries + 1
             ELSE y.pc = "failed" /\ y.tries = reader[r].tries
      BY <1>0, NotFoundType
    <3>. HIDE DEF y
    <3>4. ReaderTurns(r, y.pc, y.tries, y.holds)
      BY <1>0, <3>1, <3>3, ReaderSet
    <3>. QED BY <1>1, <2>1, <3>2, <3>3, <3>4 DEF Missed
  <2>. HIDE DEF there
  <2>. QED BY <2>2, <2>3
<1>6. CASE EndRead(r)
  <2>1. RIdle.holds = {}
    BY DEF RIdle
  <2>. QED BY <1>0, <1>1, <1>6, <2>1, ReaderSet, IdleTypes DEF EndRead, Rests
<1>. QED BY <1>2, <1>3, <1>4, <1>5, <1>6 DEF ReaderStep

\* Every step of every process keeps the files' part of the invariant.
LEMMA FilesInvNext ==
    ASSUME FilesInv, Creators = {}, [FilesNext]_filesVars
    PROVE  FilesInv'
<1>1. CASE \E k \in Workers : WorkerStep(k)
  BY <1>1, MarkerSteps, ReadColdStep, EncodeSteps, LinkCompressedStep, RecheckStep,
     UnlinkPlainStep DEF WorkerStep
<1>2. CASE \E a \in Appenders : AppenderStep(a)
  BY <1>2, LookSteps, LinkPlainStep, RemoveCompressedStep, OpenPlainStep, WriteLineStep
     DEF AppenderStep
<1>3. CASE \E r \in Readers : ReaderStep(r)
  BY <1>3, ReaderKinds, ReaderIsQuiet DEF Rests, Looks, Opened, Missed
<1>4. CASE Age \/ WeekPasses
  BY <1>4, TimeSteps
<1>5. CASE UNCHANGED filesVars
  BY <1>5 DEF filesVars, FilesInv, FilesTypes, FilesTypeOK, FilesHold, CopiesHold, OneFile, OneRemover, NoOverlap, Seen
<1>. QED BY <1>1, <1>2, <1>3, <1>4, <1>5 DEF FilesNext

\* The processes other than the readers let every reader get on.
LEMMA CalmServes ==
    ASSUME ReadersInv, Calm, UNCHANGED reader
    PROVE  ReadersInv'
<1>1. \A r \in Readers : Patience(r) => Patience(r)'
  BY DEF Calm, Patience
<1>. QED BY <1>1 DEF ReadersInv, ReadersServed, ReaderFindsRollout, ReaderSeesHistory

\* A step of a reader takes it nearer to a file: it has missed the plain file once
\* and the compressed one once, and then the plain file is settled.
LEMMA ReaderServed ==
    ASSUME FilesInv, ReadersInv, MaxRetries >= 2, NEW r \in Readers, ReaderStep(r)
    PROVE  ReadersInv'
<1>0. FilesKept /\ reader[r].tries \in Nat /\ MaxRetries \in Nat
  BY ReaderKinds, CompressionAssumption DEF FilesInv, FilesTypes, ReaderRecs
<1>1. plain' = plain /\ Settled' = Settled /\ (Settled => plain # 0)
  BY ReaderKinds, ReaderIsQuiet DEF Rests, Looks, Opened, Missed, FilesKept, Settled
<1>2. SUFFICES ASSUME NEW p, NEW n, NEW h, ReaderTurns(r, p, n, h),
                      p \in Resolving => Patience(r)',
                      p \in {"idle", "reading"} => n = 0,
                      p # "failed", p = "reading" => Base \in h
               PROVE  ReadersInv'
  <2>. USE <1>0, <1>1
  <2>1. CASE Rests(r)
    BY <2>1, <1>2 DEF Rests, ReaderTurns, Patience, ReadersInv, Resolving
  <2>2. CASE Looks(r)
    <3>1. Patience(r)
      BY <2>2 DEF Looks, ReadersInv, Resolving
    <3>2. CASE reader[r].pc = "look" /\ plain # 0
      <4>1. ReaderTurns(r, "plain", reader[r].tries, reader[r].holds)
        BY <2>2, <3>2 DEF Looks
      <4>2. Patience(r)'
        BY <3>1, <3>2, <4>1 DEF Patience, ReaderTurns
      <4>. QED BY <4>1, <4>2, <1>2 DEF Resolving
    <3>3. CASE reader[r].pc = "look" /\ plain = 0
      <4>1. ReaderTurns(r, "looked", reader[r].tries, reader[r].holds)
        BY <2>2, <3>3 DEF Looks
      <4>2. Patience(r)'
        BY <3>1, <3>3, <4>1 DEF Patience, ReaderTurns
      <4>. QED BY <4>1, <4>2, <1>2 DEF Resolving
    <3>4. CASE reader[r].pc = "looked" /\ plain # 0 /\ ReaderTurns(r, "plain", reader[r].tries, reader[r].holds)
      <4>2. Patience(r)'
        BY <3>1, <3>4 DEF Patience, ReaderTurns
      <4>. QED BY <3>4, <4>2, <1>2 DEF Resolving
    <3>5. CASE reader[r].pc = "looked" /\ ReaderTurns(r, "zst", reader[r].tries, reader[r].holds)
      <4>2. Patience(r)'
        BY <3>1, <3>5 DEF Patience, ReaderTurns
      <4>. QED BY <3>5, <4>2, <1>2 DEF Resolving
    <3>. QED BY <2>2, <3>2, <3>3, <3>4, <3>5 DEF Looks
  <2>3. CASE reader[r].pc \in {"plain", "zst"} /\ Opened(r)
    BY <2>3, <1>2 DEF Opened, Resolving
  <2>4. CASE reader[r].pc \in {"plain", "zst"} /\ Missed(r)
    <3>1. Patience(r)
      BY <2>4 DEF ReadersInv, Resolving
    <3>2. reader[r].tries < MaxRetries /\ reader[r].tries < 2
      BY <2>4, <3>1 DEF Patience, Missed
    <3>3. ReaderTurns(r, "look", reader[r].tries + 1, reader[r].holds)
      BY <2>4, <3>2 DEF Missed
    <3>4. Patience(r)'
      BY <2>4, <3>1, <3>2, <3>3 DEF Patience, Missed, ReaderTurns
    <3>. QED BY <3>3, <3>4, <1>2 DEF Resolving
  <2>. QED BY <2>1, <2>2, <2>3, <2>4, ReaderKinds
<1>3. \A q \in Readers \ {r} : Patience(q) => Patience(q)'
  BY <1>1, <1>2 DEF Patience, ReaderTurns
<1>. QED BY <1>2, <1>3 DEF ReadersInv, ReadersServed, ReaderFindsRollout, ReaderSeesHistory,
            ReaderTurns

\* Every step of every process keeps the readers' part of the invariant.
LEMMA ServedNext ==
    ASSUME FilesInv, ReadersInv, Creators = {}, MaxRetries >= 2, [FilesNext]_filesVars
    PROVE  ReadersInv'
<1>1. CASE \E k \in Workers : WorkerStep(k)
  <2>1. Calm
    BY <1>1, MarkerSteps, ReadColdStep, EncodeSteps, LinkCompressedStep, RecheckStep,
       UnlinkPlainStep DEF WorkerStep
  <2>2. UNCHANGED reader
    BY <1>1 DEF WorkerStep, StartRun, CreateMarker, CheckAge, RemoveMarker, FailRun, ReadCold,
                SkipCompressed, Encode, LinkCompressed, Recheck, UnlinkPlain, WorkerDies
  <2>. QED BY <2>1, <2>2, CalmServes
<1>2. CASE \E a \in Appenders : AppenderStep(a)
  <2>1. Calm
    BY <1>2, LookSteps, LinkPlainStep, RemoveCompressedStep, OpenPlainStep, WriteLineStep
       DEF AppenderStep
  <2>2. UNCHANGED reader
    BY <1>2 DEF AppenderStep, StartAppend, Decompress, LinkPlain, RemoveCompressed, OpenPlain,
                WriteLine
  <2>. QED BY <2>1, <2>2, CalmServes
<1>3. CASE \E r \in Readers : ReaderStep(r)
  BY <1>3, ReaderServed
<1>4. CASE Age
  <2>1. Calm /\ UNCHANGED reader
    BY <1>4 DEF Age, Calm, Settled, Seen
  <2>. QED BY <2>1, CalmServes
<1>5. CASE WeekPasses
  BY <1>5 DEF WeekPasses, ReadersInv, ReadersServed, ReaderFindsRollout, ReaderSeesHistory,
              Resolving
<1>6. CASE UNCHANGED filesVars
  <2>1. Calm /\ UNCHANGED reader
    BY <1>6 DEF filesVars, Calm, Settled, Seen
  <2>. QED BY <2>1, CalmServes
<1>. QED BY <1>1, <1>2, <1>3, <1>4, <1>5, <1>6 DEF FilesNext

\* An archived rollout that no one has touched.
LEMMA FilesInvInit ==
    ASSUME FilesInit
    PROVE  FilesInv /\ ReadersInv
<1>. USE DEF FilesInit
<1>1. /\ \A k \in Workers : worker[k].pc = "idle"
      /\ \A a \in Appenders : appender[a].pc = "idle" /\ appender[a].file = 0
      /\ \A r \in Readers : reader[r].pc = "idle" /\ reader[r].tries = 0
  BY IdleTypes
<1>2. FilesTypes
  BY <1>1, IdleTypes, CompressionAssumption DEF FilesTypes, FilesTypeOK, NoZst, Lines
<1>3. FilesHold /\ CopiesHold
  BY <1>1, CompressionAssumption DEF FilesHold, CopiesHold, NoZst, Past
<1>4. OneFile /\ OneRemover /\ NoOverlap
  BY <1>1 DEF OneFile, OneRemover, NoOverlap, Past, Late, Restoring
<1>5. ReadersInv
  BY <1>1 DEF ReadersInv, ReadersServed, ReaderFindsRollout, ReaderSeesHistory, Resolving
<1>. QED BY <1>2, <1>3, <1>4, <1>5 DEF FilesInv

----------------------------------------------------------------------------
(* The theorems. *)

\* Whatever workers, appenders and readers do at the same time, however many runs
\* overlap and wherever a worker dies, the plain or the compressed file holds the
\* archived history, as long as no append creates the plain file anew.
THEOREM HistoryIsKept == Creators = {} => (FilesSpec => []RolloutInv)
<1>. SUFFICES ASSUME Creators = {} PROVE FilesSpec => []RolloutInv
  OBVIOUS
<1>1. FilesInit => FilesInv
  BY FilesInvInit
<1>2. FilesInv /\ [FilesNext]_filesVars => FilesInv'
  BY FilesInvNext
<1>3. FilesInv => RolloutInv
  <2>1. FilesInv => FilesTypeOK /\ HistorySurvives
    BY DEF FilesInv, FilesTypes, FilesHold, HistorySurvives
  <2>. QED BY <2>1 DEF RolloutInv
<1>. QED BY <1>1, <1>2, <1>3, PTL DEF FilesSpec

\* open_rollout_line_reader: two retries are enough for every reader to open a
\* representation, and the one it opens holds the archived history.
THEOREM ReadersAreServed ==
    Creators = {} /\ MaxRetries >= 2 => (FilesSpec => []ReadersServed)
<1>. SUFFICES ASSUME Creators = {}, MaxRetries >= 2 PROVE FilesSpec => []ReadersServed
  OBVIOUS
<1>1. FilesInit => FilesInv /\ ReadersInv
  BY FilesInvInit
<1>2. FilesInv /\ ReadersInv /\ [FilesNext]_filesVars => FilesInv' /\ ReadersInv'
  BY FilesInvNext, ServedNext
<1>3. ReadersInv => ReadersServed
  BY DEF ReadersInv
<1>. QED BY <1>1, <1>2, <1>3, PTL DEF FilesSpec
================================================================================
