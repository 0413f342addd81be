# A TLA+ verification project for Codex

This directory holds TLA+ models of the concurrent core of Codex (`codex-rs/`), the TLC
configurations that check them on small instances, and TLAPS proofs of what holds for every
instance. `PROJECT.json` lists the components, the runs, the mutants that show each property can
fail, the source lines behind each definition, the finding, the hazards and the theorems. Paths
below are relative to `codex-rs/`; line numbers refer to the sources of this repository.

## 1. Inventory

Codex runs *sessions* (threads). A session is an actor: a submission loop takes one operation at
a time, each turn runs as a task of its own, and everything they share is behind small mutexes
that are released across awaits. Sessions spawn further sessions (sub-agents), which share one
registry. A session's commands run in a process store and reach the network through an approval
service; its history goes to a rollout file through a writer task; memories are extracted from
threads by background jobs that all programs of a user share through SQLite. Clients reach
sessions through the app server, remote ones over a websocket with its own acknowledgements.

| Part | State it keeps | Operations | Interacts with | What is hard | What makes it correct |
|---|---|---|---|---|---|
| Agent registry `core/src/agent/registry.rs` | map of agents behind a mutex, atomic slot counter, nickname pool | reserve slot / path / nickname, commit, drop, release, register root | agent control | two pieces of shared state without a common lock, RAII drop in two steps | every slot has an owner, the limit holds, paths and names are unique |
| Session turn `core/src/tasks`, `core/src/session/{inject,input_queue,turn}.rs`, `core/src/state/turn.rs` | active turn, turn state, pending input, mailbox | start, reserve, steer, inject, mail, abort, finish | submission loop, turn tasks, callers holding a `CodexThread`, goals, guardian | reservations of the turn slot, tails of finished tasks, the grace period of an abort, lost wake-ups | no input lost or handled twice, one turn at a time, one terminal event, mail wakes an idle session |
| Goal continuation `core/src/goals.rs` | goal status in the state database, a semaphore | continue an idle session | session turn | a reservation held across database reads | gives way to other work |
| Guardian `core/src/guardian` | denials per turn, review sessions | review, deny, abort a turn | session turn | abort from inside the turn's own tool call | aborts only the turn it judged |
| Agent control `core/src/agent/control.rs`, `core/src/thread_manager.rs` | loaded threads; the registry and the spawn edges | spawn, resume, send input, close | registry, sessions, state database | each operation is a sequence of awaits that may fail or be interrupted | slots match agents, a close stops what it saw, closed agents stay closed |
| Memories and their job table `memories/write`, `state/src/runtime/memories.rs` | jobs with leases and retries, extracted memories, workspace | scan, claim, heartbeat, succeed, fail, consolidate, reset | threads, other programs | crashed and slow workers, expired leases, scans of different ages | a job is finished by its holder only, no newer memory overwritten, every thread that is reached settles |
| Network approval `core/src/tools/network_approval.rs` | pending approvals per host, two caches, calls, outcomes | ask, decide, attribute, finish a call | proxy, tool calls | one decision shared by many waiters, separate locks | one question per host, every waiter answered |
| Rollout recorder and thread store `rollout/src/recorder.rs`, `thread-store` | open file, queue of items, metadata patch | append, flush, persist, memory mode, shut down, resume | session, SQLite | torn and failing writes, retry, crash, deferred creation | what was flushed is in the file, once and in order; SQLite never ahead |
| Rollout compression `rollout/src/compression.rs` | plain and compressed file, marker file | compress, materialize, append, read | recorder, other processes | no lock at all, only renames | the history survives and is found |
| Unified exec `core/src/unified_exec` | process store, reserved ids | start, write, poll, prune, terminate all | network approval, turn interrupts | pruning at the limit, a future dropped at any await | bounded, no process out of reach, one End event |
| Remote control `app-server-transport/src/transport/remote_control` | sequence ids, cursors, reassembly, replay buffer, connections | open, forward, close, send, acknowledge, reconnect | backend, app server | lost websockets, replays, a reader stopped at any await | messages once and in order, every connection ends once |
| App server, daemon `app-server`, `app-server-daemon` | connections, subscriptions, callbacks | request, event, answer | sessions, clients | disconnects, late answers | every request is answered once |
| Exec server `exec-server` | processes, retained output, sessions that may be resumed | start, read, write, detach, resume | unified exec | detach against resume, removal of exited processes | output read in order |
| Login `login/src/auth` | cached tokens | refresh, reload, log out | backend | two processes, one refresh token | one refresh in flight |
| MCP clients, network proxy, code mode, hooks | connections | – | external processes | I/O | – |
| Exec policy, apply patch, caches, UI, CLI, sandboxing | – | – | – | sequential or operating-system calls | – |

The hazards of the code, each at its line and with the properties that watch it, are in
`PROJECT.json`.

## 2. Plan

Done: the models `AgentRegistry`, `SessionTurn`, `AgentControl`, `MemoryJobs`, `NetworkApproval`,
`RolloutRecorder`, `RolloutCompression`, `UnifiedExec`, `RemoteInbound` and `RemoteOutbound`; the abstract
specifications `Lease` and `ReliableStreams`; the proofs of `AgentRegistry`, `SessionTurn`, `AgentControl`, `NetworkApproval`,
`MemoryJobs` with its refinement of `Lease`, `RolloutCompression`, `RolloutRecorder`, `UnifiedExec`,
`RemoteInbound` and `RemoteOutbound` with the safety part of its refinement of `ReliableStreams`.

Next: models of the exec server's sessions, of the app server's request serialization and callbacks, and
of the token refresh.

## 3. Modules

| Module | Role |
|---|---|
| `AgentRegistry` | the registry, its reservations and release |
| `SessionTurn` | submission loop, callers and turn runners of one session, goal continuation, the guardian's abort |
| `SessionTurnProofs` | its inductive invariants and theorems |
| `AgentControl` | spawn, input, resume and close over loaded threads, registry and spawn edges |
| `AgentProofs` | the inductive invariants and theorems of `AgentRegistry` and of `AgentControl` |
| `MemoryJobs` | both phases of the memory pipeline over the job table |
| `MemoryJobsProofs` | its inductive invariant, theorems and the refinement of `Lease` |
| `Lease` | abstract specification: what a job table with leases promises |
| `NetworkApproval` | requests of the proxy, tool calls, pending approvals and caches |
| `NetworkApprovalProofs` | its inductive invariant and theorem |
| `RolloutRecorder` | callers, channel, writer task and metadata observer of one thread |
| `RolloutCompression` | workers, appenders and readers of one archived rollout |
| `RolloutProofs` | the inductive invariants and theorems of `RolloutRecorder` and of `RolloutCompression` |
| `UnifiedExec` | `exec_command`, `write_stdin`, terminate-all, the watcher and denial tasks |
| `UnifiedExecProofs` | its inductive invariant and theorems |
| `RemoteInbound` | websocket reader, reassembly, client tracker |
| `RemoteInboundProofs` | its inductive invariant and theorems |
| `RemoteOutbound` | websocket writer, replay buffer, acknowledgements, client |
| `RemoteOutboundProofs` | its inductive invariant, theorems and the step-by-step refinement of `ReliableStreams` |
| `ReliableStreams` | abstract specification: each stream delivered once, in order |
| `MC...` | constants of the TLC instances |

Definitions that begin with a comment *Mutant* are not part of a specification. They are slips
one could make in the definition that follows, and are used to show that a property can fail.

### AgentRegistry

`agent_tree`, `used_agent_nicknames` and `nickname_reset_count` are the fields of `ActiveAgents`,
each changed in one critical section; `total_count` is the atomic counter, and its load and its
compare-exchange are separate actions, so another process may run between them. `reservation[p]` is
the `SpawnReservation` of spawner `p`. `Drop` is two actions (the path under the mutex, then
`fetch_sub`), and so is `release_spawned_thread`. Nicknames are pairs of a name and an ordinal, which
is what `format_agent_nickname` makes of them. The lookups (`agent_id_for_path`, `live_agents`)
are operators; formatting and metrics are left out. A thread identifier is registered once, as
thread identifiers are fresh UUIDs; resuming a thread that is still registered belongs to `AgentControl`.

### SessionTurn

The actors are the submission loop, one actor per operation that a holder of a `CodexThread` may
call from a task of its own, and the runner of each turn. Each async function is cut at its lock
acquisitions: an action is one critical section with the local work up to the next one, and
`fr[a].at` is the place, written `function.section`. So `start_task` is `StartTake`, `StartDrain`
(`get_pending_input` takes the turn's input under one lock and the mailbox under another),
`StartState`, `StartExtend` and `StartSpawn`; `on_task_finished` is `FinishTake`, `FinishRecord`,
`FinishEvent` and `FinishClear`; and so on. A runner that finished goes on with the tail of
`on_task_finished`: the pending-work check and the goal continuation.

What is abstracted:

- An item of input is named by the operation that brought it. Pending input and mailbox are sets:
  the order inside one batch is left out. `history` and `discarded` record where items went.
- A turn state is a slot of `States`, standing for the `Arc<Mutex<TurnState>>`; it is free again when
  nobody refers to it. Pending approvals and the other waiters of a turn state are left out.
- One sampling request ends in a tool call, an answer or an error; which one is a free choice.
  The retry after an invalid image is left out.
- `handle_task_abort` waits for the runner or stops it. The stop takes effect at once: a runner
  that has been told to abort does not pass another await.
- A hook may block user input only; `RecordInputs` is one step. `has_pending_input` reads the
  turn and the mailbox in one step, and the check and the change in `defer_mailbox_delivery_to_next_turn`
  are one step: the turn is the caller's own, and nobody else reads a turn state that an abort took away.
- Review and compaction are tasks of kind `Other`, a shell command one of kind `Shell`; none of them uses
  input of its turn. A shell command can be steered all the same, since its `TaskKind` is `Regular`
  (`tasks/user_shell.rs:64`). A shell command beside a running turn, rollback and shutdown are left out.
- A goal changes only by `StopGoal`; the effect of aborts on the goal's status is left out. A failed
  read of the state database counts as no goal, as in the code.

### AgentControl

`loaded`, `registered` with `slot_count`, and `edge` are the three stores, which share no lock. A
call is a tool call of the first multi-agent version; `call[c].at` is the await it is at. A thread
that is loaded again is a new instance with a session loop of its own, which is what
`wait_until_terminated` waits for. A call may be interrupted at any of its awaits (its reservation is
then dropped), flushes, sends and the listing of an agent's children may fail, and sessions may die. A close
that finds its agent not loaded still sends `Shutdown`, which may reach an instance that was loaded meanwhile. An agent's identifier is known to the
callers only once its spawn has returned it. The second version's paths and completion mail, the
completion watcher, forked histories and the depth limit are left out. `Overlap` says which tools may
be in flight together; the run lets `resume` run alone, because a resume that overlaps with others
loses slots (section 5).

### MemoryJobs and Lease

One transaction of the memories database is one step; workers and consolidators of all programs are
actors between transactions. Times are abstracted to what comparisons with `now` tell: a lease is
running or lapsed, a retry waits or is due, a success is recent or old. A worker's token is fresh; tokens are
only compared. The contents of memories are abstracted to the version of the thread they were made
from, and the ranking of `get_phase2_input_selection` to a free choice among the enabled threads.
The set of tokens is larger than the jobs and actors
together, so that a claim always finds one that nobody holds (`TokenAssumption`).
`Lease` has holders instead of tokens: a job's product changes only in the hands of its holder, and a
holder is superseded only after its lease has lapsed. `MemoryJobs` implements it under the mapping
`HolderOf`. Assumption: the lease renewed by `Confirm` outlives the baseline reset that follows.
Which threads a startup gets to (idle long enough, not too old, not its own, within `scan_limit` and
`max_claimed`) is left open: `Scan` may choose any enabled thread and owes none anything. Three operations
that consist of several statements are one step each (`Pollute`, `DeleteThread`, `Clear`): between their statements
the others see a thread that is still remembered and find it gone in the next selection.

### NetworkApproval

Each request of the proxy and each tool call is a task; each acquisition of one of the service's
locks is a step. `notify_waiters` wakes those whose notified future exists, parked or not yet: a waiter
creates it before it looks at the decision, so looking, parking and being parked are distinct (`look`, `park`,
`parked`) and a call between them is not missed. A request's task may be dropped at any await, as an HTTP server does
with the handler of a connection its client closed. Approval by the guardian and by the user are one
question with a free answer.

### RolloutRecorder

Callers append, flush, persist, update the memory mode and shut down; each sends commands through the
bounded channel and waits for the answer. The writer follows `run_writer_task` and
`write_pending_items_once` item by item; opens and writes may fail, and a failed write or a crash may
leave part of a line (`disk.torn`), so that the next line cannot be loaded. Such a line is kept as a
negative number. `sync` is the observer's pending patch, which two callers may take and apply side by
side. An update of SQLite is a read of the thread's row (`ReadRow`) and, an await later, a write of the whole row
(`WriteRow`), so that callers overwrite each other; the facts that go this way are kept in `dropped`. A change of the memory
mode goes to SQLite first (`Mode`), then to the file (`DirectAppend`), and then derives the row anew from the file
(`ReloadRow`, `Reconcile`). The same update of a thread that is not loaded is one step. A crash loses channel, writer and callers; a resume opens the file again. `direct` are the lines that
`append_rollout_item_to_path` writes past the recorder.

### RolloutCompression

Each action is one file-system call of a worker (stale-marker check, create marker, compress to a
temporary file, compare, rename, remove), of an appender (`materialize_rollout_for_append` and the
append) or of a reader (resolve the path, open it, try again). Files have identities, so that a process that
holds an open file whose name is gone keeps the file. `Age` and `WeekPasses` let time pass for the
marker and for the files. Two pairs of calls are one step: the comparison of the file's state and the removal of
a superseded compressed file (`compression.rs:638`), and the opening and copying of a materialization (`:82`), in which nobody
else's step changes the outcome. Assumption: nobody is in the middle of a run for six hours (a run gives up after
five), or of anything for a week.

### UnifiedExec

`pc[c]` is the await at which `exec_command` number `c` stands: reserve the id, open the session, store
(prune, wait for the pruned entry's clean-up, terminate it), watch, collect, report. The exit watcher, the
network-denial task, `write_stdin` and `terminate_all_processes` are actors of their own. An
interrupt may drop the future at every await; a process that only the future holds goes down with it, one that is stored or watched
does not. The process of a call in `RemoteCalls` runs on an exec-server, whose output task or stdin may give it up
(`os[c] = "lost"`): the local state says exited or failed whatever the process does, and nothing can reach it any more. `older[c]` are the processes last used before `c`, which is all
that pruning asks of the times of use. Output bytes and time-outs are left out: collecting ends
at any time. Assumptions: an id drawn at random is not that of an earlier call; `write_stdin` calls do not
overlap (they hold the tool's write lock); a killed child dies.

### RemoteInbound and RemoteOutbound

Inbound: the backend keeps a log of envelopes and, on each new websocket, goes on after the recorded
cursor, which is one for all clients and kinds of envelopes. The model has the streams of one client; an `ack`
envelope stands for whatever else moves the cursor (acknowledgements, pings, other clients' envelopes), and may stand
between two segments, as may envelopes of the client's other stream. The reader may be stopped at any await and left in the
middle of a close. A message is plain or has two segments. A send to the app server's event queue succeeds or times out.
Recording the cursor and invalidating the stream after `ClientClosed` are two locks and one step, and so are the two locks of
`CloseReturns`: only the reader writes what they protect, and a stop between the two leaves segment state behind that matters only to a
later initialize of the stream, which does not reset it either (section 5). Clients without a
stream id, the answers to pings, enrollment, authentication and pairing are left out.

Outbound: a message has one or three segments, or none when it is over the size limit. The
websocket loses what is on the wire when it breaks; the writer replays the buffer on the next one, the streams
one after another in any order (the buffer is a hash map), each in the order of its envelopes. The
client (external) accepts what is beyond the last envelope it has and acknowledges its last one after each envelope.
A message is taken off the queue before the state is locked (`websocket.rs:872`, `:882`); its numbering,
splitting and buffering are under the lock. So it either comes into the buffer in one step (`TakeMessage`) or is lost
without a number (`LoseMessage`), when the writer is aborted in between or the message cannot be split. The arithmetic of
splitting by bytes is left out.

## 4. Runs

| Run | Question | Result |
|---|---|---|
| `registry` | a caller with a limit and one without race for slots, a path and names: do map, counter and pool agree, and does every slot come back? | holds |
| `turn` | user input, steers, an interrupt, a replacing task, mail: is an item lost or handled twice, a turn ended twice or by another, a late steer missing at `TurnComplete`, mail left lying? | holds |
| `turn_goal` | a goal continuation, trigger mail and `try_start_turn_if_idle` compete for the idle session, and the goal with one of them under aborts: do the reservations keep their tasks apart, and does none stay behind? | holds |
| `turn_two_starters` | may two actors be inside `start_task`? | yes: the finding of section 5 |
| `control` | spawn, input, resume and close with interrupts, failures and dying sessions: is the counter ever too small, what loses a slot, does a close stop what it saw, does every call return? | holds |
| `memory` | workers and consolidators that fail, crash or outlive their lease, a thread that goes on, is deleted or polluted: does the table implement `Lease`, do watermarks only advance, does every thread that startups keep reaching settle, is the unwanted forgotten? | holds |
| `network` | three requests and two calls, at most four in all, for one host: one question at a time, caches that agree, denials reported, every request answered? | holds |
| `rollout` | a turn and a handler on one recorder with two faults among torn writes, failing opens, failing SQLite updates and crashes: is a flushed item missing, a line doubled or misplaced, SQLite ahead, a fact dropped other than by a logged failure or a row written back, a caller stuck? | holds |
| `compression` | two workers, two appenders and two readers over one archived rollout: does the history survive, does a reader find it? | holds |
| `exec` | two commands (one under a network approval and on an exec-server) and a store for one, with inputs, interrupts and terminate-all: is a process out of reach, or stopped by an interrupt of the wait for its output, an End event missing or doubled, a call stuck? | holds |
| `inbound` | two streams, one initialize and two faults or two and one: are messages doubled, out of order or missing, does every connection end once? | holds |
| `outbound` | three messages on two streams and two lost websockets: does the transport implement `ReliableStreams`, are queue and buffer emptied? | holds |

A run's invariants that belong together are checked as one conjunction of named parts, each with its own
comment:

| Invariant | Its parts |
|---|---|
| `AgentRegistry!RegistryInv` | types, `SlotAccounting` |
| `SessionTurn!TurnInv` | types, `StartFindsNoTask`, `OneTurnRuns`, `FinishesOwnTask`, `OneTerminalEvent`, `AnsweredTurnTakesNoMail` |
| `AgentControl!ControlInv` | types, `SlotsNeverUndercounted`, `CloseStopsSnapshot` |
| `MemoryJobs!JobsInv` | types, `OutputIsLastSuccess` |
| `NetworkApproval!ApprovalInv` | types, `OneQuestionPerHost`, `CachesAgree`, `CancelledIsRejected`, `OutcomesAreActive` |
| `RolloutRecorder!RecorderInv`, `MetadataInv` | types, `ItemsConserved`, `FileInOrder`; `SqliteNeverAhead`, `FactsNotLost` |
| `RolloutCompression!RolloutInv`, `ReadersServed` | types, `HistorySurvives`; `ReaderFindsRollout`, `ReaderSeesHistory` |
| `UnifiedExec!StoreInv` | types, `StoreBounded`, `OwnEntry`, `SingleEnd`, `CleanStopsAll` |
| `RemoteInbound!ConnectionInv`, `DeliveryInv` | types, `NoLeakedConnection`, `OnlySuccessorsHit`; `NoDuplicateDelivery`, `DeliveredInOrder`, `NoGap` |
| `RemoteOutbound!BufferInv` | types, `UsedIsBuffered`, `UnreceivedIsBuffered`, `SeqContiguous` |

The passing runs of `SessionTurn` are separated by who may start a turn (`Sessions` lists the sets of
operations that one session is sent), because the finding breaks most properties at once as soon as
user input and trigger mail meet. `TurnsApart` is the part of `TurnInv` that `turn_goal` checks; `SessionGoesIdle` says that
no reservation and no finished task stays in the active turn.

Several properties name an exception. An exception is a case in which the code does not keep the promise;
it is written into the property as narrowly as it could be, so that the property says that nothing
*else* breaks the promise. Section 5 lists them.

**Bounds.** Each run's constants are in its `.cfg`.

- `registry`: two spawners with different limits, two threads, one path and two names with one
  reset, so that the limit is reached, the pool is reset and the path is contended.
- `turn*`: each operation is sent once; `MaxTurns` and `MaxStates` cover the turns the operations can start
  and the turn states alive together; `MaxRounds` bounds follow-ups, blocked inputs and failures of a turn
  (one is enough for every branch); `MaxGoals` bounds continuations.
- `control`: two threads, two calls at a time and five in all, one fault: enough for spawn, close, resume and
  a second close of a parent and its child, with one interrupt or failure anywhere.
- `memory`: one thread with two versions, two workers and two consolidators of which two are at
  work at a time, one fault and one reset; one retry, so that retries are used up. `QuietResets` keeps
  resets away from a consolidation at work (section 5).
- `network`: three requests are an owner, a waiter and a late one.
- `rollout`: two items, a channel for one command (so that it fills), two faults: a write that fails
  and fails again, or one that fails before a crash. One caller appends and the other does everything else, so
  rows are written back over each other by an append and a handler; the theorems have any number of callers.
- `compression`: three file identities and four runs, so that a run is overtaken by a second one of
  another process while an appender materializes. No recorder creates the file anew in this run (section 5).
- `exec`: `MaxProcesses` is 1 and `Protected` 0, so that each store prunes; two inputs; one of the two processes is on
  an exec-server.
- `inbound`: five envelopes, which is an initialize, two segments with something between them, and a message after them,
  or two streams with an initialize each; two faults with one initialize and one with two (`MaxManyFaults`), which
  keeps the run at 2.3 million states. The log is filled before the first websocket:
  the reader cannot tell when an envelope was sent.
- `outbound`: a buffer for two envelopes, less than one segmented message, so that the limit is exceeded
  and holds the writer back.

**Deadlock.** A system with nothing left to do may stop, so most runs do not check for deadlock; that
calls in progress end is stated by liveness properties.

**Fairness.** Nobody is obliged to call or send anything; what has been started goes on.

- Registry and session: weak fairness on every call in progress and every runner. The runtime schedules
  every task, its mutexes are first come first served, a model request ends with an answer or an error,
  and Rust drops a reservation once its future ends.
- Agent control: weak fairness on every call and on session loops that were asked to stop.
- Memories: tasks go on (weak); consolidations are started again and again; leases of dead holders lapse, retries
  become due and cooldowns end, because time passes. A live holder need not lose its lease. No startup has to get
  to a thread: that one is scanned again and again is the premise of `ReachedThreadsSettle`, and for a thread
  outside the windows and limits of the startup claim it is false.
- Network: every request's task; the user answers.
- Rollout: the writer (weak) and each caller (strong, since a full channel is enabled and disabled by
  others; the channel is first come first served).
- Exec, inbound, outbound: weak fairness on the union of all steps in progress. Behaviours of these
  instances are finite apart from stuttering, so this means that the system runs on until nothing in progress is left.
  For exec it includes that a killed process exits, not that a running one does. For inbound it includes that
  the websocket comes back and the event queue is drained; for outbound, that clients acknowledge.

**Mutants.** Each property that a run checks has a mutant in `PROJECT.json`: a plausible slip in a mapped
definition (a dropped guard, a missing reset, a swapped order) under which TLC finds it violated.

## 5. Finding and known limits

*Two starters* (`core/src/tasks/mod.rs:357`). `start_task` asserts that the active turn has no
task, but `spawn_task` makes no reservation. When the tail of a finished turn wakes the session for
trigger mail while the loop spawns a turn for user input, the second one finds the task of the first. A
debug build panics; a release build drops the first task without a terminal event. The run
`turn_two_starters` shows it.

Modelling met further places where the code does less than a comment, a test or a tool description
says. They are not runs of their own. They are the exceptions in the properties and the restrictions of the runs:

| Where | What happens | In the model |
|---|---|---|
| `core/src/session/inject.rs:110` | an item injected while a finished turn sends `TurnComplete` goes into a turn state nobody reads any more | `inject1` is sent in `turn_goal`, which does not check `InputConserved` |
| `core/src/session/input_queue.rs:186` | an aborted turn that had answered takes "no active turn" for permission to drain mail | `turn` sends no mail with an interrupt |
| `core/src/goals.rs:1297` | a continuation that gives its reservation up does not look at the mailbox again | `turn_goal` does not check `InputSettles` |
| `core/src/goals.rs:1318`, `core/src/session/inject.rs:72`, `core/src/tasks/mod.rs:490` | an interrupt that comes after the owner of a reservation has confirmed it drops the reservation; with a second starter about, the two meet in `start_task` as in the finding | `turn_goal` aborts only where one actor at a time can start a turn |
| `core/src/tasks/mod.rs:586` | in the same sessions a runner past its cancellation check takes the next turn's task when it finishes and, stopped after the grace period, leaves an active turn without a task | the same |
| `core/src/tasks/mod.rs:490` | an interrupt that takes a finishing turn whose task is gone already does not look at the mailbox, and neither does the runner, whose turn is not the active one any more: trigger mail waits for the next event | no session has trigger mail and an interrupt |
| `core/src/tasks/regular.rs:80` | compaction that keeps failing with a steer pending is retried at once, without end | `MaxRounds` |
| `core/src/agent/control.rs:774` | a resume between `remove_thread` and the release of the slot commits over the old entry; one slot is lost | `SlotsLostOnlyByResume` |
| `core/src/thread_manager.rs:1345` | an interrupted resume leaves a loaded thread without a slot | `SlotsNeverUndercounted` counts registered agents, not loaded ones |
| `core/src/agent/control.rs:849` | a child spawned after the snapshot of a close survives it | `CloseStopsSnapshot` |
| `core/src/agent/control.rs:548` | when a descendant resumes its ancestor the edges form a cycle and the resume does not end | `CallsReturn` excepts resume |
| `memories/write/src/phase2.rs:115` | a run that loaded its inputs before a reset, or lost its lease, still writes them to the workspace | `QuietResets`; `Lease` has the baseline, not the workspace, as product |
| `state/src/runtime/memories.rs:153`, `:214` | a thread that was never idle long enough before it became too old, or that is always behind `scan_limit` or `max_claimed` others, is never extracted | the premise of `ReachedThreadsSettle` |
| `state/src/runtime/memories.rs:718` | a crash uses up no retry: a thread whose extraction kills the worker is tried for ever | crashes are bounded by `MaxFaults` |
| `core/src/tools/network_approval.rs:419` | when the task that asks is dropped its entry stays, and later requests for the host wait | `Abandoned` in `RequestsAnswered` |
| `core/src/tools/network_approval.rs:412` | a request that missed the caches just before an approval asks again | `OneQuestionPerHost` is about one time only |
| `core/src/tools/network_approval.rs:295` | a request that outlives its call is charged to the only call running | no property says which call is charged |
| `core/src/tools/orchestrator.rs:98` | an aborted call stays registered | as modelled |
| `rollout/src/recorder.rs:1472` | after a torn write the retried line is joined to the part and cannot be loaded, though the flush succeeded | `SpoiltLines` |
| `thread-store/src/local/update_thread_metadata.rs:547` | the memory mode of a live thread is written past its recorder | `direct` in `FileInOrder` |
| `thread-store/src/local/update_thread_metadata.rs:200`, `:307` | an update reads the row and writes all of it back an await later: of two that overlap the later one undoes the other's facts, and a patch taken earlier puts older values over newer ones; the pending patch of the one that was undone is cleared all the same | `dropped` in `FactsNotLost` |
| `rollout/src/state_db.rs:517` | reconciliation after a change of the memory mode writes the row as the file had it, over what was written meanwhile | the same |
| `thread-store/src/local/update_thread_metadata.rs:57` | a memory mode is in SQLite before its line is in the file, and stays when the line cannot be written | `Mode` in `SqliteNeverAhead` |
| `rollout/src/compression.rs:646`, `rollout/src/recorder.rs:1400`, `rollout/src/compression.rs:292` | an append between the comparison and the removal is lost; an empty file created after the removal hides the compressed one; two processes that find the marker stale both run | `HistorySurvives` is about the history that was archived, not about later lines; `Creators` is empty in the run |
| `core/src/unified_exec/process_manager.rs:846`, `:850`, `:389` | an interrupt while a pruned entry is cleaned up leaves the pruned process running and the new one without a watcher; one before a process with a network approval is stored leaves it running | `abandoned` in `NoOrphan`, `CommandsEnd` |
| `core/src/unified_exec/process_manager.rs:1258` | terminate-all misses a process that is opened and not yet stored | `cleans.quiet` in `CleanStopsAll` |
| `core/src/unified_exec/process.rs:419`, `:143` | a process on an exec-server that does not answer, or no longer takes its input, counts as over while it may still run | `lost`, which `NoOrphan` does not count as running |
| `remote_control/client_tracker.rs:144` | the end of a replaced client's task closes its successor | `OnlySuccessorsHit` |
| `remote_control/websocket.rs:157` | a new initialize does not reset the chunk cursor, and segmented messages are dropped as replays | `NoGap` and `MessageForwarded` for one initialize |
| `remote_control/websocket.rs:157` | a segmented message is forwarded and the reader stopped before the cursor is recorded; the replay does not complete it, because its assembly is dropped, but a later initialize opens a new connection; when that is not recorded either, the next replay completes the message and forwards it to the new connection as well | `Restarted` in `NoDuplicateDelivery`; it takes three faults, one more than the run has, and was met in the proof |
| `remote_control/websocket.rs:198`, `remote_control/segment.rs:217` | an envelope between two segments moves the cursor that all clients share past the first; completing the message drops its assembly; when the forward then fails or the reader is stopped, only the second segment is replayed and, alone, dropped: the message is lost | `Apart` in `NoGap` and `MessageForwarded` |
| `remote_control/segment.rs:99` | a client has one assembly: segments of its two streams that alternate reset each other's | the two properties are about a client with one stream |
| `remote_control/client_tracker.rs:118` | with two stops of the reader and an idle expiry an old message reaches a new client | more faults than `MaxFaults` |
| `remote_control/websocket.rs:919` | a message over the size limit uses up a sequence id | `void` in `SeqContiguous` |
| `remote_control/websocket.rs:872` | a message in the hands of a writer that is aborted before it has the state's lock is in neither queue nor buffer, and lost | `LoseMessage`; `ReliableStreams` is about what was given a number |
| `remote_control/websocket.rs:848` | nothing removes the envelopes of a client that left without acknowledging; enough of them stop the writer | the fairness of `outbound` |

## 6. Proofs

Each theorem holds for every value of the constants: any number of actors, streams, threads, items, faults
and crashes. The assumptions are the `ASSUME`s of the component's module; they say that sets are finite and
that markers such as `None` are not members of them, and TLC evaluates them on the run's instance. Where a
theorem needs more, its statement says so:

- `Creators = {}` (compression): no recorder creates the file anew beside the workers. With one the history
  can be hidden (section 5).
- `MaxRetries >= 2` (readers): the code has three. With one retry a reader can miss the file twice.
- `QuietResets` (lease): a reset waits for the consolidation at work (section 5).
- `{"resume", "close"} \notin Overlap` (closed agents): no close runs beside a resume. A resume that has listed
  the open children of an agent would load one that a close closes meanwhile.
- `OneStarter` (turns): no goal continuation, and each session is sent operations of one of three sorts: a client's
  session is started, steered, replaced and interrupted; one that is talked to also gets mail; a sub-agent's
  session gets mail, trigger mail and `try_start_turn_if_idle`. These are the sorts of sessions of the run `turn`,
  with any number of operations. With user input and trigger mail in one session two actors start turns at the same time,
  which violates `StartFindsNoTask` (the run that expects a violation), and an aborted turn may drain mail
  (section 5).
- No spawn, input or close beside a resume (`ControlIsSafe`): a resume would load again an agent that a close
  has stopped and does not look at again. Resumes may overlap with each other, and the accounting of slots
  needs no such hypothesis.

| Module | Theorems |
|---|---|
| `AgentProofs` (registry) | `TypeCorrectness`, `SlotAccountingHolds` (`RegistryInv`), `AgentLimit`, `PathOwnership`, `NicknamesStayDistinct`, `LimitAtReserve`, `RegistrationStability` |
| `AgentProofs` (control) | `SlotsAreCounted`, `OnlyResumesLoseSlots` (`SlotsLostOnlyByResume`), `ClosedAgentsStayClosed` (`ClosedStaysClosed`), `ControlIsSafe` (`ControlInv`) |
| `NetworkApprovalProofs` | `ApprovalsAgree` (`ApprovalInv`) |
| `MemoryJobsProofs` | `TableAgrees` (`JobsInv`), `WatermarksAdvance`, `TableImplementsLease` |
| `SessionTurnProofs` | `TurnsAreKeptApart` (`TurnInv`), `InputIsConserved` (`InputConserved`), `SteersAreRecorded` (`SteerRecordedBeforeComplete`) |
| `RolloutProofs` (compression) | `HistoryIsKept` (`RolloutInv`), `ReadersAreServed` |
| `RolloutProofs` (recorder) | `NothingLostOrReordered` (`RecorderInv`), `FlushIsDurable` (`FlushedIsOnDisk`), `MetadataFollows` (`MetadataInv`) |
| `UnifiedExecProofs` | `StoreIsRight` (`StoreInv`), `NothingOrphaned` (`NoOrphan`), `InterruptsSpareWaiting` (`InterruptSparesWaiting`), `WriterFindsItsOwn` |
| `RemoteInboundProofs` | `NoConnectionLeaks` (`ConnectionInv`), `DeliveryIsExact` (`DeliveryInv`) |
| `RemoteOutboundProofs` | `BufferAgrees` (`BufferInv`), `StreamsAreReliable` |

All proofs go the same way. None of the properties is inductive alone; `Inv` (`IInv` for the registry,
`ControlBase` with `ResumeInv` or `CloseInv` for agent control) is the inductive invariant, a conjunction of named parts, and it was checked with TLC before it was proved. Lemmas say
what each action does to the pieces of state that the parts speak of; each part then has a lemma that it is
preserved, with one step per action that can disturb it.

**AgentRegistry.** `IInv` adds to the types that an entry under a thread key belongs to that thread (so a
release removes one registration), that placeholders and reservations correspond, that the counter equals
registered agents plus held reservations plus decrements that are due, that it stays within the limit when
all callers share one, that the value a spawner observed is a number, and that a nickname in use has an
ordinal no larger than the number of resets and, if it is of the current generation, is in the used set: this
is why clearing the pool cannot hand out a name twice. The action properties follow from the same
invariant. `AgentLimit` (all callers share one limit) and `RegistrationStability` are not part of the run.

**SessionTurn.** A start finds no task because an active turn without a task has exactly one owner (`OneOwner`,
`ReservedIsOwned`): the actor that is starting a turn, or that holds the turn state of the reservation. Who that can
be depends on what the session was sent. In the first two sorts only the submission loop starts turns, and it finds
no active turn when it does (`LoopStarts`, `LoopOnly`); in the third, whoever reserved the active turn does, and nobody aborts
(`ReserverStarts`, `ReserversOnly`). `StatesApart` says that no two actors hold one turn state and none holds
that of a running task, so that clearing or extending it disturbs nobody. `RunnerOK` ties the place of a runner to
the active turn: in its body it is the task there, or the loop has taken its turn away and is stopping it
(`Stops`). While the loop aborts nothing is active (`AbortOK`). That one runner works and none ends twice follows.
`ItemInv`, which is inductive together with `Inv`, is about input: an item has one home (`ItemOK`), and every step
that takes it from one home puts it into another. What could lose an item is a turn state that is dropped while the item waits in it, so
an actor that will not read its turn state again holds an empty one (`EmptyOK`); `HeldFor` says whose
turn state it is meanwhile, and an item that a turn accepted is recorded, in its runner's hands or in that turn state
(`SteerOK`). When `TurnComplete` is sent the last two are over.

**AgentControl.** `ControlBase` needs no hypothesis on what overlaps. Whatever a call, the registry or an edge names
has been loaded once (`Old`), so the thread a spawn has just created is strange to all of them until it is
committed (`SpawnedIsNew`): its commit adds an entry, and the slot goes from the reservation to that entry. Every other
step but one leaves `Slack`, the slots of nobody, as it is; the one is a resume that commits over an entry. Hence the
counter is never too small, which also keeps it a natural number. `ResumeInv` adds that the edges a resume goes
along stay open until it has loaded their agents (`AlongOpen`). `CloseInv` adds, for a close without a failure, that
an instance it saw and that still runs is loaded and still to be stopped or waited for (`StillToStop`): nobody takes a
running instance out of the thread map, since `remove_thread` comes after the wait for the instance that was found.

**NetworkApproval.** One question per host holds because the request that asks is the one that `pending`
names (`AskerIsPending`), and nobody else removes that entry. The two caches are changed under two locks, so
`CachesAgree` needs `HostMoves`: between the removal from one and the insertion into the other the host is in
neither, and no other request can be there. `CancelledIsRejected` needs that a cancelled call that still runs
has its outcome already.

**MemoryJobs.** The argument is about tokens: no two actors hold the same one, and an actor's token is in no row
but that of its job (`TokensDistinct`). So the worker whose token matches is the one that claimed last, its
source is the row's input (`OwnerExtractsInput`), and that is beyond the row's last success (`RunningIsNewer`).
`TokenAssumption` is what makes a token fresh. For `Lease`, each action is shown to be a step of the abstract
specification or a stutter under `HolderOf`; `ResetIsLeased` is what the step that replaces the baseline needs.

**RolloutCompression.** The marker is no part of the argument: two runs may overlap, and the history survives.
What counts is that all workers past the check of the age have seen the same file (`OneFile`), that of those past
the link only one still finds the plain file under its name, and the compressed one is there (`OneRemover`),
and that an appender that restores the plain file does not meet a worker that may remove it
(`NoOverlap`). For readers, `Patience` bounds how often the file can move within one resolution: it is removed once
and linked once, and after that it stays (`Settled`), so the third attempt finds it.

**RolloutRecorder.** `FileInv` says where each accepted item is (file, queue, channel, or reported lost) and that
file, queue and channel in this order are sorted; a failed write changes where the boundary between
file and queue lies, never the order. `CallsInv` says that behind a barrier the channel holds only items it does
not cover, and that a caller waits for one barrier, so that an answer of success means that the items are
in the file. Each spoilt line is charged to a fault (`Durable`). `FactsInv` says that every fact in SQLite, in a
patch or in a row that was read is about an item in the file, that a patch of the current generation covers the pending
one, and that a patch that was written is in SQLite or in `dropped` (`PatchesCover`): so the pending patch can be cleared.

**UnifiedExec.** Ids are drawn once, so an id that is in the store, with the writer or with a cleaner leads to the
process of its own call (`EntriesOwned`). `Reachable` says who answers for a running process: its call until it is
stored, then the store, then whoever took it out, or nobody once an interrupt abandoned it. `EndToCome` says who will
send the End event: one of the call and the watcher, never both. The store stays bounded because every set of
begun processes has a least recently used one (`AgesOrdered`), so a full store always has an entry to prune.
An interrupt spares the process waited for because a running process past its store has an exit watcher that waits (`RunningOK`)
and holds it, whoever has taken it out of the store meanwhile. The
proof showed that an exception `NoOrphan` had for processes whose network approval was denied is not needed; it
was removed.

**RemoteInbound.** `LogInv` is the shape of the log, `ReaderInv` what the reader knows at each await, `ConnInv`
that a tracked connection is the newest of its stream and why a task stopped, `DelInv` what was forwarded
and not recorded yet (its client knows its seq, or is gone), and `GapInv`, for a client that initializes once, how
far it is ahead of the cursor. The last is the argument for `NoGap`: of what the reader has passed, the client knows every
message that is due, but for the one in hand (`PassedKnown`); the assembly is of the first message that it does not know
(`AsmNext`); and when the second of two adjacent segments comes next, the first is held (`Holding`). The proof of `DelInv` failed for the version of `NoDuplicateDelivery` that two faults
cannot violate; the exception it showed is in section 5.

**RemoteOutbound.** All sequences of a stream are read as parts of `given`, which is what the writer was given
out for it: the client has a prefix, the buffer and the payloads to write are ends of it, and the wire holds, in order,
at least what lies between the two. The refinement follows: whatever the client accepts is the next
element of `given`. Acknowledgements are of what the client has, so removing up to them leaves the
rest in the buffer. The counter of the buffer is the number of pairs of a stream and a place (`Slots`). Sizes of messages
may be any, as long as there is a largest one, which bounds how far the limit is exceeded. `SafeSpec` is
`ReliableStreams` without its fairness.

**Only model-checked.** Liveness, which is out of the prover's reach: `SlotsReturned`, `EveryTurnEnds`, `InputSettles`,
`SessionGoesIdle`, `CallsReturn`, `ReachedThreadsSettle`, `UnwantedIsForgotten`, `RequestsAnswered`, `CommandsEnd`,
`MessageForwarded`, `ConnectionsEnd`, `QueueDrains` and the fairness of `ReliableStreams` in
`ImplementsReliableStreams`. Of the safety properties `TurnsApart` is proved only as part of `TurnInv`, in the sessions of
`OneStarter`; with a goal continuation and several reservers (`turn_goal`) it is model-checked. Every other safety property of
the passing runs is stated by a theorem, under the hypotheses listed above.

## 7. Not modelled

The repository has some 600 thousand lines of Rust, most of them presentation (`tui`), protocol and
configuration types, command-line tools and I/O, in which little happens concurrently. The modules
above cover the parts whose correctness depends on the order of steps of several actors.

- *App server*: request serialization and the routing of callbacks are next in the plan; the request
  processors are a dispatch over the protocol. *Daemon*: process supervision over the file system.
- *Exec server*: its sessions (detach and resume, the entry left behind in state starting, the removal
  of exited processes) are next in the plan.
- *Login*: single-flight refresh against a changed file is next in the plan.
- *MCP clients, network proxy, code mode, hooks*: the protocol engines are libraries, and what remains is I/O.
- *Exec policy, apply patch*: sequential algorithms over strings.
- *Models cache, message history, file watcher, agent graph store*: thin layers over files or the database.
- *Terminal UI, command line, sandboxing*: presentation, argument parsing, operating-system calls.
- Of the modelled components: what `PROJECT.json` says in the component's note.
