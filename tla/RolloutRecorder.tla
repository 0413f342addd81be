---------------------------- MODULE RolloutRecorder ----------------------------
(***************************************************************************)
(* How one thread's history becomes durable: the background writer of      *)
(* rollout/src/recorder.rs, the local thread store that feeds it           *)
(* (thread-store/src/local/live_writer.rs) and the metadata observer above *)
(* it (thread-store/src/live_thread.rs, thread_metadata_sync.rs).          *)
(*                                                                         *)
(* Callers are the tasks of the session.  An append sends its items, then  *)
(* a flush, waits, and only then lets SQLite see what it appended.  The    *)
(* writer takes commands from a bounded channel; a write that fails closes *)
(* the file, and the write is tried once more on a file opened again.      *)
(* Items are numbered in the order in which the channel accepted them.     *)
(***************************************************************************)
EXTENDS Integers, Sequences, FiniteSets, Functions

CONSTANTS
    Callers,        \* tasks of the session
    Calls,          \* the operations each of them calls
    MaxItems,       \* bound: items ever appended
    Capacity,       \* bound: commands in the channel (256 in the code)
    MaxFaults,      \* bound: failing opens, writes and SQLite updates, and crashes
    TouchItems      \* items that only move updated_at, no other metadata

ASSUME RolloutAssumption ==
    /\ IsFiniteSet(Callers)
    /\ MaxItems \in Nat /\ Capacity \in Nat \ {0}
    /\ MaxFaults \in Nat
    /\ Calls \in [Callers -> SUBSET {"append", "flush", "persist", "shutdown", "memory"}]
    /\ TouchItems \subseteq 1..MaxItems

VARIABLES
    disk,       \* the rollout file: its whole lines, and a part of a line after them
    w,          \* RolloutWriterState and the place of the writer task
    chan,       \* the commands the writer has not taken
    live,       \* whether live_recorders holds the thread
    call,       \* what each caller is doing
    sync,       \* ThreadMetadataSync
    db,         \* the thread's row in SQLite: the items (0: the thread itself) whose
                \* metadata it shows, and Mode
    sent,       \* number of items accepted so far
    acked,      \* history: items a successful barrier covered
    lost,       \* history: items that died in memory
    direct,     \* history: items written to the file past the recorder
    dropped,    \* history: facts SQLite lacks because a failure was only logged, or
                \* because a row was written back over them
    seen,       \* history: facts this session's observer has been given
    faults

vars == <<disk, w, chan, live, call, sync, db, sent, acked, lost, direct, dropped, seen,
          faults>>

Items == 1..MaxItems
MetaLine == 0
Mode == -1  \* the row has a memory mode that was not read from the file
NoCommand == [kind |-> "none", item |-> 0, from |-> CHOOSE c \in Callers : TRUE, upto |-> 0]
Idle == [op |-> "none", pc |-> "idle", item |-> 0, patch |-> {}, gen |-> 0, row |-> {}]

(***************************************************************************)
(* The file.  A line appended after a part of a line is one line that does *)
(* not parse; load_rollout_items counts it as an error and goes on.  Such  *)
(* a line is kept as the negative of what it would have been.              *)
(***************************************************************************)
Spoilt(x) == -(x + 1)
Index(l) == IF l < 0 THEN -l - 1 ELSE l

AppendLine(d, x) ==
    [d EXCEPT !.lines = Append(@, IF d.torn THEN Spoilt(x) ELSE x), !.torn = FALSE]

LoadedLines(d) == {d.lines[k] : k \in DOMAIN d.lines} \cap Nat
SpoiltLines(d) == {x \in {MetaLine} \cup Items : Spoilt(x) \in Range(d.lines)}

\* get_rollout_history: without a session meta line there is no thread to resume.
Resumable(d) == MetaLine \in LoadedLines(d)

WriteOutcomes(d, x) ==
    {[ok |-> TRUE, disk |-> AppendLine(d, x)]}
    \cup {[ok |-> FALSE, disk |-> [d EXCEPT !.torn = t]] :
              t \in IF faults < MaxFaults THEN {d.torn, TRUE} ELSE {}}

CountFault(ok) == faults' = IF ok THEN faults ELSE faults + 1

(***************************************************************************)
(* The writer task.                                                        *)
(***************************************************************************)
NewWriter(deferred, meta) ==
    [pc |-> "recv", open |-> ~deferred, deferred |-> deferred, meta |-> meta,
     pending |-> <<>>, written |-> 0, attempt |-> 1, ok |-> TRUE, cmd |-> NoCommand]

Ended == [NewWriter(FALSE, FALSE) EXCEPT !.pc = "ended", !.open = FALSE]

\* A flush or a shutdown of a thread nobody wrote to leaves no file behind.
SkipsWrite(s, kind) ==
    /\ ~s.open /\ s.deferred
    /\ kind = "add" \/ (kind \in {"flush", "shutdown"} /\ s.pending = <<>>)

\* One command: new items join the queue, and unless the file is still to be
\* created the queue is written out.
Recv ==
    /\ w.pc = "recv" /\ chan # <<>>
    /\ LET cmd == Head(chan)
           s   == IF cmd.kind = "add" THEN [w EXCEPT !.pending = Append(@, cmd.item)] ELSE w
       IN w' = IF SkipsWrite(s, cmd.kind)
               THEN [s EXCEPT !.pc = "ack", !.ok = TRUE, !.cmd = cmd]
               ELSE [s EXCEPT !.pc = "open", !.attempt = 1, !.cmd = cmd]
    /\ chan' = Tail(chan)
    /\ UNCHANGED <<disk, live, call, sync, db, sent, acked, lost, direct, dropped, seen, faults>>

\* Mutant: the written prefix stays queued.
DrainMutant(s) == [s EXCEPT !.written = 0]

\* write_pending_items_once removes what it wrote, whether or not it got to the end.
Drain(s) ==
    [s EXCEPT !.pending = SubSeq(@, s.written + 1, Len(@)), !.written = 0]

\* Mutant: the second failure is only logged.
FailAttemptMutant(s) ==
    LET closed == [Drain(s) EXCEPT !.open = FALSE]
    IN IF s.attempt = 1 THEN [closed EXCEPT !.pc = "open", !.attempt = 2]
       ELSE [closed EXCEPT !.pc = "ack", !.attempt = 1, !.ok = TRUE]

\* The file is closed; the first failure is tried again, the second is the answer.
FailAttempt(s) ==
    LET closed == [Drain(s) EXCEPT !.open = FALSE]
    IN IF s.attempt = 1 THEN [closed EXCEPT !.pc = "open", !.attempt = 2]
       ELSE [closed EXCEPT !.pc = "ack", !.attempt = 1, !.ok = FALSE]

OpenLog ==
    /\ w.pc = "open"
    /\ \E ok \in {TRUE} \cup (IF ~w.open /\ faults < MaxFaults THEN {FALSE} ELSE {}) :
          /\ w' = IF ok THEN [w EXCEPT !.open = TRUE, !.deferred = FALSE, !.pc = "meta"]
                  ELSE FailAttempt(w)
          /\ disk' = IF ok THEN [disk EXCEPT !.exists = TRUE] ELSE disk
          /\ CountFault(ok)
    /\ UNCHANGED <<chan, live, call, sync, db, sent, acked, lost, direct, dropped, seen>>

WriteMeta ==
    /\ w.pc = "meta"
    /\ IF w.meta
       THEN \E o \in WriteOutcomes(disk, MetaLine) :
              /\ w' = IF o.ok THEN [w EXCEPT !.meta = FALSE, !.pc = "item"] ELSE FailAttempt(w)
              /\ disk' = o.disk /\ CountFault(o.ok)
       ELSE /\ w' = [w EXCEPT !.pc = "item"]
            /\ UNCHANGED <<disk, faults>>
    /\ UNCHANGED <<chan, live, call, sync, db, sent, acked, lost, direct, dropped, seen>>

WriteItem ==
    /\ w.pc = "item"
    /\ IF w.written < Len(w.pending)
       THEN \E o \in WriteOutcomes(disk, w.pending[w.written + 1]) :
              /\ w' = IF o.ok THEN [w EXCEPT !.written = @ + 1] ELSE FailAttempt(w)
              /\ disk' = o.disk /\ CountFault(o.ok)
       ELSE /\ w' = [Drain(w) EXCEPT !.pc = "ack", !.attempt = 1, !.ok = TRUE]
            /\ UNCHANGED <<disk, faults>>
    /\ UNCHANGED <<chan, live, call, sync, db, sent, acked, lost, direct, dropped, seen>>

(***************************************************************************)
(* Answers.  After a shutdown the receiver is dropped with everything that *)
(* is still in the channel: those callers get an error, those items die.   *)
(***************************************************************************)
AfterAnswer(r, ok) ==
    IF ~ok THEN Idle
    ELSE [r EXCEPT !.pc = CASE r.op = "append"   -> "observe"
                            [] r.op = "shutdown" -> "remove"
                            [] r.op = "update"   -> "direct"
                            [] OTHER             -> "take"]

QueuedItems == {chan[k].item : k \in {j \in DOMAIN chan : chan[j].kind = "add"}}
Unwritten == {w.pending[k] : k \in (w.written + 1)..Len(w.pending)}

\* Mutant: the dropped commands keep their callers waiting.
ReplyMutant ==
    /\ w.pc = "ack"
    /\ LET cmd   == w.cmd
           stops == cmd.kind = "shutdown" /\ w.ok
       IN /\ w' = IF stops THEN Ended ELSE [w EXCEPT !.pc = "recv", !.ok = TRUE, !.cmd = NoCommand]
          /\ chan' = IF stops THEN <<>> ELSE chan
          /\ call' = IF cmd.kind = "add" THEN call
                     ELSE [call EXCEPT ![cmd.from] = AfterAnswer(@, w.ok)]
          /\ acked' = IF cmd.kind # "add" /\ w.ok THEN acked \cup ((1..cmd.upto) \ lost) ELSE acked
          /\ lost' = IF stops THEN lost \cup QueuedItems ELSE lost
    /\ UNCHANGED <<disk, live, sync, db, sent, direct, dropped, seen, faults>>

Reply ==
    /\ w.pc = "ack"
    /\ LET cmd   == w.cmd
           stops == cmd.kind = "shutdown" /\ w.ok
       IN /\ w' = IF stops THEN Ended ELSE [w EXCEPT !.pc = "recv", !.ok = TRUE, !.cmd = NoCommand]
          /\ chan' = IF stops THEN <<>> ELSE chan
          /\ call' = [c \in Callers |->
                        CASE cmd.kind # "add" /\ c = cmd.from    -> AfterAnswer(call[c], w.ok)
                          [] stops /\ c # cmd.from /\ call[c].pc = "wait" -> Idle
                          [] OTHER                               -> call[c]]
          /\ acked' = IF cmd.kind # "add" /\ w.ok THEN acked \cup ((1..cmd.upto) \ lost) ELSE acked
          /\ lost' = IF stops THEN lost \cup QueuedItems ELSE lost
    /\ UNCHANGED <<disk, live, sync, db, sent, direct, dropped, seen, faults>>

(***************************************************************************)
(* The callers.  Each holds a clone of the recorder while it works, so a   *)
(* shutdown by another caller is seen as a failing send or a lost answer.  *)
(***************************************************************************)
Appending == {c \in Callers : call[c].pc = "add"
                              \/ call[c].op \in {"memory", "update"}}

FirstStep(op) == CASE op = "append"   -> "add"
                   [] op = "shutdown" -> "take"
                   [] OTHER           -> "barrier"

Start(c) ==
    /\ live /\ call[c].pc = "idle"
    /\ \E op \in Calls[c] :
          /\ op \in {"append", "memory"} => sent + Cardinality(Appending) < MaxItems
          /\ call' = [call EXCEPT ![c] = [Idle EXCEPT !.op = op, !.pc = FirstStep(op)]]
    /\ UNCHANGED <<disk, w, chan, live, sync, db, sent, acked, lost, direct, dropped, seen, faults>>

\* record_canonical_items: the send waits for room and fails once the writer is gone.
SendItems(c) ==
    /\ call[c].pc = "add"
    /\ IF w.pc = "ended"
       THEN call' = [call EXCEPT ![c] = Idle] /\ UNCHANGED <<chan, sent>>
       ELSE /\ Len(chan) < Capacity
            /\ sent' = sent + 1
            /\ chan' = Append(chan, [kind |-> "add", item |-> sent + 1, from |-> c, upto |-> 0])
            /\ call' = [call EXCEPT ![c].pc = "barrier", ![c].item = sent + 1]
    /\ UNCHANGED <<disk, w, live, sync, db, acked, lost, direct, dropped, seen, faults>>

BarrierOf(op) == CASE op = "append" -> "flush" [] op \in {"memory", "update"} -> "persist" [] OTHER -> op

SendBarrier(c) ==
    /\ call[c].pc = "barrier"
    /\ IF w.pc = "ended"
       THEN call' = [call EXCEPT ![c] = Idle] /\ UNCHANGED chan
       ELSE /\ Len(chan) < Capacity
            /\ chan' = Append(chan, [kind |-> BarrierOf(call[c].op), item |-> 0, from |-> c,
                                     upto |-> sent])
            /\ call' = [call EXCEPT ![c].pc = "wait"]
    /\ UNCHANGED <<disk, w, live, sync, db, sent, acked, lost, direct, dropped, seen, faults>>

\* shutdown_thread: the drained recorder leaves live_recorders.
RemoveLive(c) ==
    /\ call[c].pc = "remove"
    /\ live' = FALSE
    /\ call' = [call EXCEPT ![c] = Idle]
    /\ UNCHANGED <<disk, w, chan, sync, db, sent, acked, lost, direct, dropped, seen, faults>>

(***************************************************************************)
(* Metadata.  Facts are merged into one pending patch with a generation;   *)
(* a patch that was applied clears it only if nothing was merged since.    *)
(* What a new or resumed session starts with is held until an append.      *)
(***************************************************************************)
NewSync(created, facts) ==
    [pending |-> facts, gen |-> 1, held |-> TRUE, created |-> created, touched |-> FALSE]

\* observe_appended_items; a touch soon after another one waits for a barrier.
Observe(c) ==
    /\ call[c].pc = "observe"
    /\ LET merged == sync.pending \cup {call[c].item}
       IN \E coalesced \in BOOLEAN :
            /\ coalesced => sync.touched /\ merged \subseteq TouchItems
            /\ sync' = [sync EXCEPT !.pending = merged, !.gen = @ + 1, !.held = FALSE]
            /\ call' = [call EXCEPT ![c] =
                          IF coalesced THEN Idle
                          ELSE [@ EXCEPT !.pc = "apply", !.patch = merged, !.gen = sync.gen + 1]]
    /\ seen' = seen \cup {call[c].item}
    /\ UNCHANGED <<disk, w, chan, live, db, sent, acked, lost, direct, dropped, faults>>

\* What a call does once its metadata is dealt with: a shutdown goes on to the
\* writer, a change of the memory mode (persist, then the update) to the update
\* of SQLite, with a patch that has no fact of an item, and its second barrier.
AfterMetadata(r) ==
    CASE r.op = "shutdown" -> [Idle EXCEPT !.op = "shutdown", !.pc = "barrier"]
      [] r.op = "memory"   -> [Idle EXCEPT !.op = "update", !.pc = "apply"]
      [] OTHER             -> Idle

\* flush and shutdown leave alone what no append has confirmed; persist does not.
Take(c) ==
    /\ call[c].pc = "take"
    /\ LET holds == call[c].op \in {"flush", "shutdown"} /\ sync.held
       IN call' = [call EXCEPT ![c] =
                     IF holds \/ sync.pending = {} THEN AfterMetadata(@)
                     ELSE [@ EXCEPT !.pc = "apply", !.patch = sync.pending, !.gen = sync.gen]]
    /\ UNCHANGED <<disk, w, chan, live, sync, db, sent, acked, lost, direct, dropped, seen, faults>>

\* apply_metadata_update reads the row of the thread ...
ReadRow(c) ==
    /\ call[c].pc = "apply"
    /\ call' = [call EXCEPT ![c].pc = "write", ![c].row = db \ {Mode}]
    /\ UNCHANGED <<disk, w, chan, live, sync, db, sent, acked, lost, direct, dropped, seen, faults>>

\* ... and writes all of it back with the patch, over whatever was written since.
\* A patch that is not the newest one any more may also put the older values it
\* carries over newer ones of the row.
Outdated(c) ==
    IF call[c].patch = {} \/ call[c].gen = sync.gen THEN {} ELSE call[c].row \ call[c].patch

\* An upsert leaves the memory mode alone; an update of it sets it afterwards.
Upserted(c, gone) ==
    (call[c].row \ gone) \cup call[c].patch \cup (db \cap {Mode})
        \cup (IF call[c].op = "update" THEN {Mode} ELSE {})

\* What the row showed and does not show any more.
Overwritten == db \ (db' \cup {Mode})

\* SQLite has the row, or one of the two statements fails and that is only logged,
\* or the call returns an error (also of the read that follows) and the patch
\* stays pending.
WriteRow(c) ==
    /\ call[c].pc = "write"
    /\ \E how \in {"written"} \cup (IF faults < MaxFaults THEN {"logged", "error"} ELSE {}) :
          /\ \/ \E gone \in SUBSET Outdated(c) : db' = Upserted(c, gone)
             \/ how # "written" /\ db' = db
          /\ dropped' = dropped \cup Overwritten \cup (IF how = "logged" THEN call[c].patch ELSE {})
          /\ call' = [call EXCEPT ![c] =
                        IF how = "error" THEN Idle
                        ELSE IF call[c].op = "update"
                        THEN [Idle EXCEPT !.op = "update", !.pc = "barrier"]
                        ELSE [@ EXCEPT !.pc = "mark", !.row = {}]]
          /\ CountFault(how = "written")
    /\ UNCHANGED <<disk, w, chan, live, sync, sent, acked, lost, direct, seen>>

\* Only the patch derived from a resumed history has no updated_at.
CarriesTouch(r) == sync.created \/ r.gen > 1

\* Mutant: the pending patch is cleared whatever was merged since.
MarkMutant(c) ==
    /\ call[c].pc = "mark"
    /\ sync' = [sync EXCEPT !.pending = {}, !.touched = @ \/ CarriesTouch(call[c])]
    /\ call' = [call EXCEPT ![c] = AfterMetadata(@)]
    /\ UNCHANGED <<disk, w, chan, live, db, sent, acked, lost, direct, dropped, seen, faults>>

Mark(c) ==
    /\ call[c].pc = "mark"
    /\ sync' = [sync EXCEPT !.pending = IF sync.gen = call[c].gen THEN {} ELSE @,
                            !.touched = @ \/ CarriesTouch(call[c])]
    /\ call' = [call EXCEPT ![c] = AfterMetadata(@)]
    /\ UNCHANGED <<disk, w, chan, live, db, sent, acked, lost, direct, dropped, seen, faults>>

(***************************************************************************)
(* append_rollout_item_to_path: one line straight to the file, by a handle *)
(* of its own.  It serves threads that are not loaded, and the memory mode *)
(* of one that is, after a persist.                                        *)
(***************************************************************************)
AppendToPath ==
    \E o \in WriteOutcomes(disk, sent + 1) :
       /\ disk' = o.disk /\ CountFault(o.ok)
       /\ sent' = sent + 1
       /\ acked' = IF o.ok THEN acked \cup {sent + 1} ELSE acked
       /\ direct' = direct \cup {sent + 1}
       /\ lost' = IF o.ok THEN lost ELSE lost \cup {sent + 1}

\* A file without a session meta line is an error before anything is written.
\* After the line the row is reconciled with the file.
DirectAppend(c) ==
    /\ call[c].pc = "direct"
    /\ IF Resumable(disk) THEN AppendToPath ELSE UNCHANGED <<disk, faults, sent, acked, lost, direct>>
    /\ call' = [call EXCEPT ![c] =
          IF sent' \in acked' \ acked THEN [Idle EXCEPT !.op = "reconcile", !.pc = "reload"] ELSE Idle]
    /\ UNCHANGED <<w, chan, live, sync, db, dropped, seen>>

\* reconcile_rollout derives the row from the whole file ...
ReloadRow(c) ==
    /\ call[c].pc = "reload"
    /\ call' = [call EXCEPT ![c].pc = "reconcile", ![c].row = LoadedLines(disk)]
    /\ UNCHANGED <<disk, w, chan, live, sync, db, sent, acked, lost, direct, dropped, seen, faults>>

\* ... and writes it and its memory mode to SQLite; a failure is only logged.
Reconcile(c) ==
    /\ call[c].pc = "reconcile"
    /\ \/ db' = call[c].row /\ UNCHANGED faults
       \/ /\ faults < MaxFaults /\ faults' = faults + 1
          /\ db' \in {db, call[c].row \cup (db \cap {Mode})}
    /\ dropped' = dropped \cup Overwritten
    /\ call' = [call EXCEPT ![c] = Idle]
    /\ UNCHANGED <<disk, w, chan, live, sync, sent, acked, lost, direct, seen>>

AllIdle == \A c \in Callers : call[c].pc = "idle"

\* The update of a thread that is not loaded: SQLite, the line, and the row again
\* from the file, any of which may fail.
UnloadedAppend ==
    /\ ~live /\ w.pc = "ended" /\ AllIdle
    /\ Resumable(disk) /\ sent < MaxItems
    /\ AppendToPath
    /\ db' \in {db, db \cup {Mode}} \cup (IF sent' \in acked' THEN {LoadedLines(disk')} ELSE {})
    /\ dropped' = dropped \cup Overwritten
    /\ UNCHANGED <<w, chan, live, call, sync, seen>>

(***************************************************************************)
(* Closing, dying and coming back.                                         *)
(***************************************************************************)
\* discard_thread, for a session that failed to start: the recorder is dropped.
Discard ==
    /\ live /\ AllIdle /\ w.pc = "recv" /\ chan = <<>>
    /\ live' = FALSE
    /\ w' = Ended
    /\ lost' = lost \cup Unwritten
    /\ UNCHANGED <<disk, chan, call, sync, db, sent, acked, direct, dropped, seen, faults>>

\* LiveThread::resume, once the session that had the thread is gone.  The metadata
\* of the whole history is derived again and waits for the next append.
Resume ==
    /\ ~live /\ w.pc = "ended" /\ AllIdle
    /\ Resumable(disk)
    /\ live' = TRUE
    /\ w' = NewWriter(FALSE, FALSE)
    /\ sync' = NewSync(FALSE, LoadedLines(disk))
    /\ seen' = LoadedLines(disk)
    /\ UNCHANGED <<disk, chan, call, db, sent, acked, lost, direct, dropped, faults>>

\* The process dies: what is not in the file or in SQLite is gone.
Crash ==
    /\ faults < MaxFaults /\ live
    /\ faults' = faults + 1
    /\ w' = Ended /\ chan' = <<>> /\ live' = FALSE
    /\ call' = [c \in Callers |-> Idle]
    /\ sync' = NewSync(FALSE, {}) /\ seen' = {}
    /\ lost' = lost \cup Unwritten \cup QueuedItems
    /\ \E t \in {disk.torn} \cup (IF w.pc \in {"meta", "item"} THEN {TRUE} ELSE {}) :
          disk' = [disk EXCEPT !.torn = t]
    /\ UNCHANGED <<db, sent, acked, direct, dropped>>

Init ==
    /\ disk = [exists |-> FALSE, lines |-> <<>>, torn |-> FALSE]
    /\ w = NewWriter(TRUE, TRUE)
    /\ chan = <<>> /\ live = TRUE
    /\ call = [c \in Callers |-> Idle]
    /\ sync = NewSync(TRUE, {0}) /\ seen = {0}
    /\ db = {} /\ sent = 0 /\ acked = {} /\ lost = {} /\ direct = {} /\ dropped = {}
    /\ faults = 0

Writer == Recv \/ OpenLog \/ WriteMeta \/ WriteItem \/ Reply

Caller(c) == \/ SendItems(c) \/ SendBarrier(c) \/ RemoveLive(c)
             \/ Observe(c) \/ Take(c) \/ ReadRow(c) \/ WriteRow(c) \/ Mark(c)
             \/ DirectAppend(c) \/ ReloadRow(c) \/ Reconcile(c)

Next == \/ Writer
        \/ \E c \in Callers : Start(c) \/ Caller(c)
        \/ UnloadedAppend \/ Discard \/ Resume \/ Crash

Spec == Init /\ [][Next]_vars

\* The runtime polls the writer and every task, and the channel hands out its
\* room in the order in which it was asked for.  No fault, call or crash is owed.
FairSpec ==
    /\ Spec /\ WF_vars(Writer)
    /\ \A c \in Callers : SF_vars(Caller(c))

(***************************************************************************)
(* Properties.                                                             *)
(***************************************************************************)
CallPcs == {"idle", "add", "barrier", "wait", "remove", "observe", "take", "apply", "write",
            "mark", "direct", "reload", "reconcile"}

\* Types of the variables: file, writer, channel, callers, observer, histories.
TypeOK ==
    /\ disk \in [exists : BOOLEAN, lines : Seq((-(MaxItems + 1))..MaxItems), torn : BOOLEAN]
    /\ w.pc \in {"recv", "open", "meta", "item", "ack", "ended"}
    /\ w.pending \in Seq(Items) /\ w.written \in 0..Len(w.pending)
    /\ {w.open, w.deferred, w.meta, w.ok} \subseteq BOOLEAN /\ w.attempt \in 1..2
    /\ Len(chan) <= Capacity
    /\ \A c \in Callers : /\ call[c].pc \in CallPcs
                           /\ call[c].patch \cup call[c].row \subseteq {0} \cup Items
    /\ sync.pending \subseteq {0} \cup Items
    /\ UNION {db \ {Mode}, acked, lost, direct, dropped, seen} \subseteq {0} \cup Items
    /\ live \in BOOLEAN /\ sent \in 0..MaxItems
    /\ faults \in 0..MaxFaults

\* recorder.rs flush: "Flush all queued writes and wait until they are committed":
\* whatever failed, was tried again, crashed or was resumed since, an item that
\* was queued before a barrier that succeeded is in the file, and so is the session
\* meta.  Its line can be loaded unless it went behind the part of a line that a
\* failed write or a crash left, which can befall one line per failure.
FlushedIsOnDisk ==
    LET durable == acked \cup (IF acked = {} THEN {} ELSE {MetaLine})
    IN /\ durable \subseteq LoadedLines(disk) \cup SpoiltLines(disk)
       /\ Cardinality(SpoiltLines(disk)) <= faults

\* RolloutWriterState: an item leaves the queue only once it is written.  Every
\* accepted item is in the file, in the queue or in the channel, unless it died
\* with the process, a discarded recorder or a writer that was shut down.
ItemsConserved ==
    1..sent = lost \cup ((LoadedLines(disk) \cup SpoiltLines(disk)) \cap Items)
                   \cup Unwritten \cup QueuedItems

\* write_pending_items_once: however often a write failed and was taken up again,
\* the file holds the session meta first and then what the recorder accepted, in
\* that order, none of it twice; only a line that went past the recorder
\* (append_rollout_item_to_path) may stand before one that was accepted earlier.
FileInOrder ==
    LET item(k)  == Index(disk.lines[k])
        recorded == {k \in DOMAIN disk.lines : item(k) \notin direct}
    IN \A k \in recorded :
          /\ \A j \in recorded : j < k => item(j) < item(k)
          /\ item(k) = MetaLine \/ \E j \in recorded : j < k /\ item(j) = MetaLine

\* live_writer append_items: "Wait for the local writer so SQLite never gets ahead
\* of JSONL": SQLite knows no thread without a file and no item the file lacks,
\* also where rows that were read earlier are written back.  The memory mode alone
\* goes to SQLite before its line goes to the file (update_thread_metadata).
SqliteNeverAhead ==
    LET inFile == LoadedLines(disk) \cup SpoiltLines(disk)
    IN db # {} => MetaLine \in inFile /\ db \subseteq inFile \cup {Mode}

\* ThreadMetadataSync: a fact the observer was given is in SQLite or still pending,
\* however the updates of two callers overlap: the patch that is cleared is one
\* that was written.  Two things drop a fact for good: a failure that is only
\* logged, and a row that a call had read before the fact was written, or whose
\* patch it had taken before, and writes back over it.
FactsNotLost == live => seen \subseteq db \cup sync.pending \cup dropped

\* Every call returns: a full channel drains, failing writes are given up after
\* the second attempt, and a writer that stops does not leave anyone waiting.
CallsReturn == \A c \in Callers : []<>(call[c].pc = "idle")

\* The recorder loses, repeats and reorders nothing, whatever fails and is tried again.
RecorderInv ==
    /\ TypeOK
    /\ ItemsConserved
    /\ FileInOrder

\* SQLite follows the file: it is never ahead of it, and every fact about the thread
\* stays pending until it was written, however two callers' updates overlap.
MetadataInv ==
    /\ SqliteNeverAhead
    /\ FactsNotLost
================================================================================
