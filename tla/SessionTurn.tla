---------------------------- MODULE SessionTurn ----------------------------
(***************************************************************************)
(* The turns of one session: the submission loop, the callers that hold a  *)
(* CodexThread, and the task of every turn, which meet on one mutex (the   *)
(* active turn), on the state of the active turn and on the mailbox        *)
(* (codex-rs/core/src/tasks/mod.rs, session/inject.rs,                     *)
(* session/input_queue.rs, tasks/regular.rs, session/turn.rs).             *)
(*                                                                         *)
(* Every async function is cut at its lock acquisitions: an action is one  *)
(* critical section with the local work up to the next one.  fr[a].at      *)
(* names the section that actor a enters next, as function.section.        *)
(***************************************************************************)
EXTENDS Integers, FiniteSets

CONSTANTS
    LOOP,        \* the submission loop
    Ops,         \* what clients and other agents send, once each
    OpKind,      \* OpKind[o], one of the kinds below
    Sessions,    \* the sets of operations that one session may be sent
    MaxTurns,    \* bound on the turns started
    MaxStates,   \* bound on the turn states alive at one time
    MaxRounds,   \* bound on the follow-ups and failures of one turn
    MaxGoals,    \* bound on the goal continuations; 0: Feature::Goals is off
    GOAL,        \* the prompt of a goal continuation
    Rejected,    \* the reply that gives the input back to the sender
    None

LoopKinds == {"user", "spawn", "mail", "trigger", "interrupt"}
ThreadKinds == {"steer", "inject", "try_start", "goal_stop", "abort_turn"}

\* The operations that carry an input item; the item is named by its operation.
Items ==
    {o \in Ops : OpKind[o] \notin {"spawn", "interrupt", "goal_stop", "abort_turn"}}
TriggerMail == {o \in Ops : OpKind[o] = "trigger"}

Turns == 1 .. MaxTurns
States == 1 .. MaxStates
Actors == {LOOP} \cup Ops \cup Turns

ASSUME ConstantsAssumption ==
    /\ IsFiniteSet(Ops)
    /\ OpKind \in [Ops -> LoopKinds \cup ThreadKinds]
    /\ Sessions \subseteq SUBSET Ops
    /\ MaxTurns \in Nat /\ MaxStates \in Nat /\ MaxRounds \in Nat /\ MaxGoals \in Nat
    /\ LOOP \notin Ops \cup Turns /\ Ops \cap Turns = {}
    /\ None \notin Actors \cup States \cup [task : Turns \cup {None}, ts : States]
    /\ Rejected \notin Turns \cup {None}
    /\ GOAL \notin Ops

VARIABLES
    active,      \* Session::active_turn: None or [task, ts]
    turn_state,  \* the TurnState behind each Arc: pending input and phase
    mailbox,     \* InputQueue::mailbox_pending_mails
    history,     \* the items recorded in the conversation
    discarded,   \* the items dropped by an abort or a failed turn
    ops,         \* the operations not sent yet
    reply,       \* what the sender of an operation was told
    turn,        \* per turn: kind, input, cancellation, events, rounds
    fr,          \* per actor: its place and its local variables
    goal_active, \* the status of the thread goal is Active
    goal_turns   \* continuations started

vars == <<active, turn_state, mailbox, history, discarded, ops, reply, turn,
          fr, goal_active, goal_turns>>

goalVars == <<goal_active, goal_turns>>
clientVars == <<ops, reply>>
recordVars == <<history, discarded>>

\* at, and the locals: the items taken, the turn state held, the turn being
\* aborted, the task to start, where start_task returns to, the abort reason
\* and the continuation permit.
Frame(at) == [at |-> at, items |-> {}, ts |-> None, turn |-> None,
              kind |-> "Regular", input |-> {}, ret |-> None, reason |-> None,
              permit |-> FALSE]

NewState == [pending |-> {}, phase |-> "CurrentTurn"]

Unborn == [kind |-> None, input |-> {}, cancelled |-> FALSE, events |-> {},
           follow_up |-> FALSE, rounds |-> 0]

Init ==
    /\ active = None
    /\ turn_state = [s \in States |-> NewState]
    /\ mailbox = {}
    /\ history = {} /\ discarded = {}
    /\ ops = Ops
    /\ reply = [o \in Ops |-> None]
    /\ turn = [t \in Turns |-> Unborn]
    /\ fr = [a \in Actors |-> Frame(IF a \in Turns THEN "unborn" ELSE "idle")]
    /\ goal_active = (MaxGoals > 0)
    /\ goal_turns = 0

----------------------------------------------------------------------------
(* The active turn and its state *)

HasTask == active # None /\ active.task # None
TaskIs(t) == active # None /\ active.task = t
Reserved(s) == active # None /\ active.task = None /\ active.ts = s

Referenced(s) == (active # None /\ active.ts = s) \/ \E a \in Actors : fr[a].ts = s

\* ActiveTurn::default() with a new Arc<Mutex<TurnState>>.  The Arc of a turn
\* state that nobody refers to any more is free for the next one.
Allocates(s) ==
    /\ ~Referenced(s)
    /\ \A r \in States : r < s => Referenced(r)

\* *active_turn = Some(ActiveTurn::default())
Reserve(s) ==
    /\ Allocates(s)
    /\ active' = [task |-> None, ts |-> s]
    /\ turn_state' = [turn_state EXCEPT ![s] = NewState]

accepts_mailbox_delivery ==
    active # None => turn_state[active.ts].phase = "CurrentTurn"

HasPendingTurnInput == active # None /\ turn_state[active.ts].pending # {}

has_pending_input ==
    HasPendingTurnInput \/ (accepts_mailbox_delivery /\ mailbox # {})

has_trigger_turn_mailbox_items == mailbox \cap TriggerMail # {}

Extend(s, items) == turn_state' = [turn_state EXCEPT ![s].pending = @ \cup items]

At(a, place) == fr[a].at = place
Goto(a, place) == fr' = [fr EXCEPT ![a].at = place]
GotoWith(a, frame) == fr' = [fr EXCEPT ![a] = frame]

\* The end of start_task or of maybe_start_turn_for_pending_work.
Return(a) == GotoWith(a, Frame(fr[a].ret))

\* get_pending_input: the pending input and the phase under the lock ...
\* (`drain` and `done` are the places that follow)
TakePending(a, drain, done) ==
    /\ fr' = [fr EXCEPT
            ![a].items = IF active = None THEN {} ELSE turn_state[active.ts].pending,
            ![a].at = IF accepts_mailbox_delivery THEN drain ELSE done]
    /\ turn_state' = IF active = None THEN turn_state
                     ELSE [turn_state EXCEPT ![active.ts].pending = {}]
    /\ UNCHANGED <<active, mailbox, turn, recordVars, clientVars, goalVars>>

\* ... and the mailbox after it has been released.
DrainMailbox(a, done) ==
    /\ fr' = [fr EXCEPT ![a].items = @ \cup mailbox, ![a].at = done]
    /\ mailbox' = {}
    /\ UNCHANGED <<active, turn_state, turn, recordVars, clientVars, goalVars>>

----------------------------------------------------------------------------
(* start_task(kind, input), by any actor *)

StartTake(a) ==
    /\ At(a, "start.take")
    /\ TakePending(a, "start.drain", "start.state")

StartDrain(a) ==
    /\ At(a, "start.drain")
    /\ DrainMailbox(a, "start.state")

\* get_or_insert_with, under debug_assert!(turn.task.is_none()).
StartState(a) ==
    /\ At(a, "start.state")
    /\ \/ /\ active # None
          /\ fr' = [fr EXCEPT ![a].ts = active.ts, ![a].at = "start.extend"]
          /\ UNCHANGED <<active, turn_state>>
       \/ /\ active = None
          /\ \E s \in States :
                /\ Reserve(s)
                /\ fr' = [fr EXCEPT ![a].ts = s, ![a].at = "start.extend"]
    /\ UNCHANGED <<mailbox, turn, recordVars, clientVars, goalVars>>

StartExtend(a) ==
    /\ At(a, "start.extend")
    /\ Extend(fr[a].ts, fr[a].items)
    /\ fr' = [fr EXCEPT ![a].items = {}, ![a].ts = None, ![a].at = "start.spawn"]
    /\ UNCHANGED <<active, mailbox, turn, recordVars, clientVars, goalVars>>

NewTurn(a) == [Unborn EXCEPT !.kind = fr[a].kind, !.input = fr[a].input]

\* The runner is spawned and stored in the active turn.  A task that is there
\* is overwritten, and its AbortOnDropHandle stops its runner for good.
StartSpawn(a) ==
    /\ At(a, "start.spawn")
    /\ \E t \in Turns :
        /\ At(t, "unborn")
        /\ \A u \in Turns : u < t => ~At(u, "unborn")
        /\ turn' = [turn EXCEPT ![t] = NewTurn(a)]
        /\ LET overwritten == {u \in Turns : TaskIs(u)}
           IN  fr' = [b \in Actors |->
                    CASE b = t -> Frame("run.begin")
                      [] b = a -> Frame(fr[a].ret)
                      [] b \in overwritten -> Frame("over")
                      [] OTHER -> fr[b]]
        /\ \/ /\ active # None
              /\ active' = [active EXCEPT !.task = t]
              /\ UNCHANGED turn_state
           \/ /\ active = None
              /\ \E s \in States :
                    /\ Allocates(s)
                    /\ active' = [task |-> t, ts |-> s]
                    /\ turn_state' = [turn_state EXCEPT ![s] = NewState]
    /\ UNCHANGED <<mailbox, recordVars, clientVars, goalVars>>

StartTask(a) ==
    StartTake(a) \/ StartDrain(a) \/ StartState(a) \/ StartExtend(a) \/ StartSpawn(a)

----------------------------------------------------------------------------
(* maybe_start_turn_for_pending_work *)

PendingCheck(a) ==
    /\ At(a, "pending.check")
    /\ IF has_trigger_turn_mailbox_items THEN Goto(a, "pending.reserve") ELSE Return(a)
    /\ UNCHANGED <<active, turn_state, mailbox, turn, recordVars, clientVars, goalVars>>

PendingReserve(a) ==
    /\ At(a, "pending.reserve")
    /\ \/ /\ active # None
          /\ Return(a)
          /\ UNCHANGED <<active, turn_state>>
       \/ /\ active = None
          /\ \E s \in States : Reserve(s)
          /\ GotoWith(a, [Frame("start.take") EXCEPT !.ret = fr[a].ret])
    /\ UNCHANGED <<mailbox, turn, recordVars, clientVars, goalVars>>

maybe_start_turn_for_pending_work(a) == PendingCheck(a) \/ PendingReserve(a)

----------------------------------------------------------------------------
(* abort_all_tasks(reason), by the submission loop.  spawn_task goes on with *)
(* start_task; an interrupt that aborted a turn looks for pending work.      *)

AfterAbort(a) ==
    IF fr[a].reason = "Interrupted"
    THEN [Frame("pending.check") EXCEPT !.ret = fr[a].ret]
    ELSE [Frame("start.take") EXCEPT !.ret = fr[a].ret, !.kind = fr[a].kind,
                                     !.input = fr[a].input]

\* Mutant: the active turn is read, not taken.
AbortTakeReads(a) ==
    /\ At(a, "abort.take")
    /\ \/ /\ HasTask
          /\ fr' = [fr EXCEPT ![a].turn = active.task, ![a].ts = active.ts,
                              ![a].at = "abort.cancel"]
       \/ /\ ~HasTask
          /\ IF fr[a].reason = "Interrupted" THEN Return(a) ELSE GotoWith(a, AfterAbort(a))
    /\ UNCHANGED <<active, turn_state, mailbox, turn, recordVars, clientVars, goalVars>>

AbortTake(a) ==
    /\ At(a, "abort.take")
    /\ active' = None
    /\ \/ /\ HasTask
          /\ fr' = [fr EXCEPT ![a].turn = active.task, ![a].ts = active.ts,
                              ![a].at = "abort.cancel"]
       \/ /\ ~HasTask
          /\ IF fr[a].reason = "Interrupted" THEN Return(a) ELSE GotoWith(a, AfterAbort(a))
    /\ UNCHANGED <<turn_state, mailbox, turn, recordVars, clientVars, goalVars>>

\* handle_task_abort: cancel the token ...
AbortCancel(a) ==
    /\ At(a, "abort.cancel")
    /\ turn' = [turn EXCEPT ![fr[a].turn].cancelled = TRUE]
    /\ Goto(a, "abort.wait")
    /\ UNCHANGED <<active, turn_state, mailbox, recordVars, clientVars, goalVars>>

\* ... and wait for the runner, or stop it after the grace period.
AbortWait(a) ==
    /\ At(a, "abort.wait")
    /\ LET t == fr[a].turn
       IN  \/ /\ At(t, "over")
              /\ Goto(a, "abort.event")
              /\ UNCHANGED <<discarded, turn>>
           \/ /\ ~At(t, "over")
              /\ fr' = [fr EXCEPT ![t] = Frame("over"), ![a].at = "abort.event"]
              /\ discarded' = discarded \cup (Items \cap (fr[t].items \cup turn[t].input))
              /\ turn' = [turn EXCEPT ![t].input = {}]
    /\ UNCHANGED <<active, turn_state, mailbox, history, clientVars, goalVars>>

\* Mutant: a replaced turn is not reported.
AbortEventInterruptedOnly(a) ==
    /\ At(a, "abort.event")
    /\ turn' = IF fr[a].reason = "Interrupted"
               THEN [turn EXCEPT ![fr[a].turn].events = @ \cup {"TurnAborted"}]
               ELSE turn
    /\ Goto(a, "abort.clear")
    /\ UNCHANGED <<active, turn_state, mailbox, recordVars, clientVars, goalVars>>

AbortEvent(a) ==
    /\ At(a, "abort.event")
    /\ turn' = [turn EXCEPT ![fr[a].turn].events = @ \cup {"TurnAborted"}]
    /\ Goto(a, "abort.clear")
    /\ UNCHANGED <<active, turn_state, mailbox, recordVars, clientVars, goalVars>>

\* clear_pending
AbortClear(a) ==
    /\ At(a, "abort.clear")
    /\ discarded' = discarded \cup (Items \cap turn_state[fr[a].ts].pending)
    /\ turn_state' = [turn_state EXCEPT ![fr[a].ts].pending = {}]
    /\ GotoWith(a, AfterAbort(a))
    /\ UNCHANGED <<active, mailbox, turn, history, clientVars, goalVars>>

\* abort_turn_if_active, by whoever denied something to turn fr[a].turn.
AbortIfActive(a) ==
    /\ At(a, "abort_if.take")
    /\ \/ /\ TaskIs(fr[a].turn)
          /\ active' = None
          /\ fr' = [fr EXCEPT ![a].ts = active.ts, ![a].at = "abort.cancel"]
       \/ /\ ~TaskIs(fr[a].turn)
          /\ Return(a)
          /\ UNCHANGED active
    /\ UNCHANGED <<turn_state, mailbox, turn, recordVars, clientVars, goalVars>>

abort_all_tasks(a) ==
    AbortTake(a) \/ AbortCancel(a) \/ AbortWait(a) \/ AbortEvent(a) \/ AbortClear(a)

----------------------------------------------------------------------------
(* The runner of turn t: RegularTask::run and run_turn.  A review or a       *)
(* compaction (kind "Other") and a shell command (kind "Shell", which the    *)
(* code calls Regular too) take no input of their turn.                      *)

Round(t) == turn[t].rounds < MaxRounds

UserItems == {o \in Items : OpKind[o] \in {"user", "steer"}}

\* run_hooks_and_record_inputs: a hook may block user input; if it blocks some
\* and lets no other user input through, the caller stops.
RecordInputs(t, items, go, stop) ==
    \E blocked \in SUBSET (items \cap UserItems) :
        /\ blocked # {} => Round(t)
        /\ history' = history \cup ((items \cap Items) \ blocked)
        /\ discarded' = discarded \cup blocked
        /\ turn' = [turn EXCEPT ![t].input = {},
                                ![t].rounds = IF blocked = {} THEN @ ELSE @ + 1]
        /\ fr' = [fr EXCEPT ![t].items = {},
                 ![t].at = IF blocked # {} /\ items \cap UserItems = blocked
                           THEN stop ELSE go]

\* RegularTask::run announces the turn; a cancelled prewarm returns at once.
RunBegin(t) ==
    /\ At(t, "run.begin")
    /\ \/ /\ turn[t].kind # "Regular"
          /\ Goto(t, "run.end")
          /\ UNCHANGED <<turn, discarded>>
       \/ /\ turn[t].kind = "Regular" /\ ~turn[t].cancelled
          /\ turn' = [turn EXCEPT ![t].events = @ \cup {"TurnStarted"}]
          /\ Goto(t, "turn.input")
          /\ UNCHANGED discarded
       \/ /\ turn[t].kind = "Regular" /\ turn[t].cancelled
          /\ turn' = [turn EXCEPT ![t].events = @ \cup {"TurnStarted"}, ![t].input = {}]
          /\ discarded' = discarded \cup turn[t].input
          /\ Goto(t, "run.end")
    /\ UNCHANGED <<active, turn_state, mailbox, history, clientVars, goalVars>>

\* The input that the turn was started with is recorded and sampled first; a
\* failed compaction or a session-start hook before that ends run_turn without it.
TurnInput(t) ==
    /\ At(t, "turn.input")
    /\ \/ RecordInputs(t, turn[t].input,
                       IF turn[t].input = {} THEN "turn.take" ELSE "turn.sample", "run.loop")
       \/ /\ Round(t)
          /\ discarded' = discarded \cup turn[t].input
          /\ turn' = [turn EXCEPT ![t].input = {}, ![t].rounds = @ + 1]
          /\ Goto(t, "run.loop")
          /\ UNCHANGED history
    /\ UNCHANGED <<active, turn_state, mailbox, clientVars, goalVars>>

TurnTake(t) ==
    /\ At(t, "turn.take")
    /\ TakePending(t, "turn.drain", "turn.record")

TurnDrain(t) ==
    /\ At(t, "turn.drain")
    /\ DrainMailbox(t, "turn.record")

TurnRecord(t) ==
    /\ At(t, "turn.record")
    /\ RecordInputs(t, fr[t].items, "turn.sample", "run.loop")
    /\ UNCHANGED <<active, turn_state, mailbox, clientVars, goalVars>>

SetPhase(t, phase) ==
    turn_state' = IF TaskIs(t) THEN [turn_state EXCEPT ![active.ts].phase = phase]
                  ELSE turn_state

accept_mailbox_delivery_for_current_turn(t) == SetPhase(t, "CurrentTurn")

defer_mailbox_delivery_to_next_turn(t) ==
    IF HasPendingTurnInput THEN UNCHANGED turn_state ELSE SetPhase(t, "NextTurn")

SampleToolCall(t) ==
    /\ At(t, "turn.sample") /\ Round(t)
    /\ accept_mailbox_delivery_for_current_turn(t)
    /\ turn' = [turn EXCEPT ![t].follow_up = TRUE, ![t].rounds = @ + 1]
    /\ Goto(t, "turn.post")
    /\ UNCHANGED <<active, mailbox, recordVars, clientVars, goalVars>>

SampleAnswer(t) ==
    /\ At(t, "turn.sample")
    /\ defer_mailbox_delivery_to_next_turn(t)
    /\ turn' = [turn EXCEPT ![t].follow_up = FALSE]
    /\ Goto(t, "turn.post")
    /\ UNCHANGED <<active, mailbox, recordVars, clientVars, goalVars>>

\* TurnAborted once the token is cancelled, or any other error.
SampleFails(t) ==
    /\ At(t, "turn.sample")
    /\ \/ turn[t].cancelled /\ UNCHANGED turn
       \/ Round(t) /\ turn' = [turn EXCEPT ![t].rounds = @ + 1]
    /\ Goto(t, "run.loop")
    /\ UNCHANGED <<active, turn_state, mailbox, recordVars, clientVars, goalVars>>

\* After a sampling request: follow up (straight to the model when an automatic
\* compaction ran in the middle of a tool call), stop, stop on a failed
\* compaction, or go on because a stop hook asks for it.
TurnPost(t) ==
    /\ At(t, "turn.post")
    /\ LET needs_follow_up == turn[t].follow_up \/ has_pending_input
           Extra(place) ==
                /\ Round(t)
                /\ turn' = [turn EXCEPT ![t].rounds = @ + 1]
                /\ Goto(t, place)
       IN  \/ /\ Goto(t, IF needs_follow_up THEN "turn.take" ELSE "run.loop")
              /\ UNCHANGED turn
           \/ turn[t].follow_up /\ Extra("turn.sample")
           \/ needs_follow_up /\ Extra("run.loop")
           \/ ~needs_follow_up /\ Extra("turn.take")
    /\ UNCHANGED <<active, turn_state, mailbox, recordVars, clientVars, goalVars>>

\* RegularTask::run calls run_turn again while input is pending.
RunLoop(t) ==
    /\ At(t, "run.loop")
    /\ Goto(t, IF has_pending_input THEN "turn.input" ELSE "run.end")
    /\ UNCHANGED <<active, turn_state, mailbox, turn, recordVars, clientVars, goalVars>>

RunEnd(t) ==
    /\ At(t, "run.end")
    /\ turn' = [turn EXCEPT ![t].rounds = 0, ![t].follow_up = FALSE]
    /\ Goto(t, IF turn[t].cancelled THEN "over" ELSE "finish.take")
    /\ UNCHANGED <<active, turn_state, mailbox, recordVars, clientVars, goalVars>>

----------------------------------------------------------------------------
(* on_task_finished.  The task in the active turn is taken, whichever it is. *)

FinishTake(t) ==
    /\ At(t, "finish.take")
    /\ \/ /\ HasTask
          /\ active' = [active EXCEPT !.task = None]
          /\ fr' = [fr EXCEPT ![t].ts = active.ts, ![t].at = "finish.record"]
       \/ /\ ~HasTask
          /\ Goto(t, "over")
          /\ UNCHANGED active
    /\ UNCHANGED <<turn_state, mailbox, turn, recordVars, clientVars, goalVars>>

\* Mutant: input steered into the turn at the last moment is forgotten.
FinishRecordForgotten(t) ==
    /\ At(t, "finish.record")
    /\ Goto(t, "finish.event")
    /\ UNCHANGED <<active, turn_state, mailbox, turn, recordVars, clientVars, goalVars>>

\* take_pending_input_for_turn_state, then the items are recorded.
FinishRecord(t) ==
    /\ At(t, "finish.record")
    /\ RecordInputs(t, turn_state[fr[t].ts].pending, "finish.event", "finish.event")
    /\ turn_state' = [turn_state EXCEPT ![fr[t].ts].pending = {}]
    /\ UNCHANGED <<active, mailbox, clientVars, goalVars>>

FinishEvent(t) ==
    /\ At(t, "finish.event")
    /\ turn' = [turn EXCEPT ![t].events = @ \cup {"TurnComplete"}, ![t].rounds = 0]
    /\ Goto(t, "finish.clear")
    /\ UNCHANGED <<active, turn_state, mailbox, recordVars, clientVars, goalVars>>

\* MaybeContinueIfIdle: pending work first, then the goal.
FinishClear(t) ==
    /\ At(t, "finish.clear")
    /\ \/ /\ Reserved(fr[t].ts)
          /\ active' = None
          /\ GotoWith(t, [Frame("pending.check") EXCEPT !.ret = "goal.read"])
       \/ /\ ~Reserved(fr[t].ts)
          /\ GotoWith(t, Frame("over"))
          /\ UNCHANGED active
    /\ UNCHANGED <<turn_state, mailbox, turn, recordVars, clientVars, goalVars>>

on_task_finished(t) ==
    FinishTake(t) \/ FinishRecord(t) \/ FinishEvent(t) \/ FinishClear(t)

----------------------------------------------------------------------------
(* maybe_start_goal_continuation_turn, by the runner of a finished turn      *)

Continuing(t) == fr[t].permit

\* The continuation semaphore and the first read of the goal.  Either read of
\* the state database may fail, which counts as no goal.
GoalRead(t) ==
    /\ At(t, "goal.read")
    /\ \A u \in Turns : ~Continuing(u)
    /\ \/ /\ goal_active /\ goal_turns < MaxGoals
          /\ GotoWith(t, [Frame("goal.candidate") EXCEPT !.permit = TRUE])
       \/ GotoWith(t, Frame("over"))
    /\ UNCHANGED <<active, turn_state, mailbox, turn, recordVars, clientVars, goalVars>>

GoalCandidate(t) ==
    /\ At(t, "goal.candidate")
    /\ IF active # None \/ has_trigger_turn_mailbox_items
       THEN GotoWith(t, Frame("over"))
       ELSE Goto(t, "goal.reserve")
    /\ UNCHANGED <<active, turn_state, mailbox, turn, recordVars, clientVars, goalVars>>

\* Mutant: the reservation does not look whether there is an active turn by now.
GoalReserveBlind(t) ==
    /\ At(t, "goal.reserve")
    /\ \E s \in States :
        /\ Reserve(s)
        /\ fr' = [fr EXCEPT ![t].ts = s, ![t].at = "goal.reread"]
    /\ UNCHANGED <<mailbox, turn, recordVars, clientVars, goalVars>>

GoalReserve(t) ==
    /\ At(t, "goal.reserve")
    /\ \/ /\ active # None
          /\ GotoWith(t, Frame("over"))
          /\ UNCHANGED <<active, turn_state>>
       \/ /\ active = None
          /\ \E s \in States :
                /\ Reserve(s)
                /\ fr' = [fr EXCEPT ![t].ts = s, ![t].at = "goal.reread"]
    /\ UNCHANGED <<mailbox, turn, recordVars, clientVars, goalVars>>

\* The prompt goes into the reserved turn only if the goal is still active.
GoalReread(t) ==
    /\ At(t, "goal.reread")
    /\ \/ /\ goal_active
          /\ goal_turns' = goal_turns + 1
          /\ Extend(fr[t].ts, {GOAL})
          /\ Goto(t, "goal.confirm")
       \/ /\ Goto(t, "goal.clear")
          /\ UNCHANGED <<turn_state, goal_turns>>
    /\ UNCHANGED <<active, mailbox, turn, recordVars, clientVars, goal_active>>

GoalConfirm(t) ==
    /\ At(t, "goal.confirm")
    /\ IF Reserved(fr[t].ts)
       THEN fr' = [fr EXCEPT ![t].at = "start.take", ![t].ts = None, ![t].ret = "over"]
       ELSE Goto(t, "goal.clear")
    /\ UNCHANGED <<active, turn_state, mailbox, turn, recordVars, clientVars, goalVars>>

\* Mutant: the reserved turn is left behind.
GoalClearForgotten(t) ==
    /\ At(t, "goal.clear")
    /\ GotoWith(t, Frame("over"))
    /\ UNCHANGED <<active, turn_state, mailbox, turn, recordVars, clientVars, goalVars>>

\* clear_reserved_goal_continuation_turn
GoalClear(t) ==
    /\ At(t, "goal.clear")
    /\ active' = IF Reserved(fr[t].ts) THEN None ELSE active
    /\ GotoWith(t, Frame("over"))
    /\ UNCHANGED <<turn_state, mailbox, turn, recordVars, clientVars, goalVars>>

GoalContinuation(t) ==
    \/ GoalRead(t) \/ GoalCandidate(t) \/ GoalReserve(t)
    \/ GoalReread(t) \/ GoalConfirm(t) \/ GoalClear(t)

----------------------------------------------------------------------------
(* What the submission loop receives *)

Sends(o, kind) ==
    /\ o \in ops /\ OpKind[o] = kind
    /\ \E session \in Sessions : (Ops \ ops) \cup {o} \subseteq session
    /\ ops' = ops \ {o}

Receives(o, kind) == At(LOOP, "idle") /\ Sends(o, kind)

\* The input joins the running turn and reopens it for mail.  The sender is
\* told the turn.
SteerInto(o) ==
    /\ turn_state' = [turn_state EXCEPT
            ![active.ts] = [pending |-> @.pending \cup {o}, phase |-> "CurrentTurn"]]
    /\ reply' = [reply EXCEPT ![o] = active.task]

\* TaskKind::Regular is also the kind of a shell command, which is steered like a
\* regular turn although it reads no input; on_task_finished records the item.
Steerable == HasTask /\ turn[active.task].kind # "Other"

Reject(o) == reply' = [reply EXCEPT ![o] = Rejected]

\* user_input_or_turn_inner: steer, or spawn_task when no task is running.
UserInput(o) ==
    /\ Receives(o, "user")
    /\ \/ Steerable /\ SteerInto(o) /\ UNCHANGED fr
       \/ HasTask /\ ~Steerable /\ Reject(o) /\ UNCHANGED <<turn_state, fr>>
       \/ /\ ~HasTask
          /\ GotoWith(LOOP, [Frame("abort.take") EXCEPT
                !.reason = "Replaced", !.input = {o}, !.ret = "idle"])
          /\ UNCHANGED <<turn_state, reply>>
    /\ UNCHANGED <<active, mailbox, recordVars, turn, goalVars>>

\* review and compact replace what is running; run_user_shell_command starts a turn
\* when no task runs (beside a running task it starts none and is not modelled).
SpawnOther(o) ==
    /\ Receives(o, "spawn")
    /\ \E kind \in {"Other", "Shell"} :
        /\ kind = "Shell" => ~HasTask
        /\ GotoWith(LOOP, [Frame("abort.take") EXCEPT
                !.reason = "Replaced", !.kind = kind, !.ret = "idle"])
    /\ UNCHANGED <<active, turn_state, mailbox, recordVars, reply, turn, goalVars>>

Interrupt(o) ==
    /\ Receives(o, "interrupt")
    /\ GotoWith(LOOP, [Frame("abort.take") EXCEPT !.reason = "Interrupted", !.ret = "idle"])
    /\ UNCHANGED <<active, turn_state, mailbox, recordVars, reply, turn, goalVars>>

\* inter_agent_communication
QueueMail(o) ==
    /\ Receives(o, "mail")
    /\ mailbox' = mailbox \cup {o}
    /\ UNCHANGED <<active, turn_state, recordVars, reply, turn, fr, goalVars>>

TriggerTurnMail(o) ==
    /\ Receives(o, "trigger")
    /\ mailbox' = mailbox \cup {o}
    /\ GotoWith(LOOP, [Frame("pending.check") EXCEPT !.ret = "idle"])
    /\ UNCHANGED <<active, turn_state, recordVars, reply, turn, goalVars>>

----------------------------------------------------------------------------
(* What callers that hold the CodexThread do, each in a task of its own      *)

Steer(o) ==
    /\ Sends(o, "steer")
    /\ \/ Steerable /\ SteerInto(o)
       \/ ~Steerable /\ Reject(o) /\ UNCHANGED turn_state
    /\ UNCHANGED <<active, mailbox, recordVars, turn, fr, goalVars>>

\* inject_no_new_turn: any active turn will do, with or without a task.
Inject(o) ==
    /\ Sends(o, "inject")
    /\ \/ active # None /\ Extend(active.ts, {o}) /\ UNCHANGED history
       \/ active = None /\ history' = history \cup {o} /\ UNCHANGED turn_state
    /\ UNCHANGED <<active, mailbox, discarded, reply, turn, fr, goalVars>>

\* The guardian rejects too much in turn t; a new task is to abort that turn.
GuardianAborts(o) ==
    /\ Sends(o, "abort_turn")
    /\ \E t \in Turns :
        /\ At(t, "turn.sample") /\ TaskIs(t)
        /\ GotoWith(o, [Frame("abort_if.take") EXCEPT
                !.turn = t, !.reason = "Interrupted", !.ret = "idle"])
    /\ UNCHANGED <<active, turn_state, mailbox, recordVars, reply, turn, goalVars>>

StopGoal(o) ==
    /\ Sends(o, "goal_stop")
    /\ goal_active' = FALSE
    /\ UNCHANGED <<active, turn_state, mailbox, recordVars, reply, turn, fr, goal_turns>>

\* try_start_turn_if_idle
TryStart(o) ==
    /\ Sends(o, "try_start")
    /\ \/ /\ has_trigger_turn_mailbox_items
          /\ Reject(o)
          /\ UNCHANGED fr
       \/ /\ ~has_trigger_turn_mailbox_items
          /\ GotoWith(o, [Frame("try.reserve") EXCEPT !.items = {o}])
          /\ UNCHANGED reply
    /\ UNCHANGED <<active, turn_state, mailbox, recordVars, turn, goalVars>>

TryReserve(o) ==
    /\ At(o, "try.reserve")
    /\ \/ /\ active # None
          /\ Reject(o)
          /\ GotoWith(o, Frame("idle"))
          /\ UNCHANGED <<active, turn_state>>
       \/ /\ active = None
          /\ \E s \in States :
                /\ Reserve(s)
                /\ fr' = [fr EXCEPT ![o].ts = s, ![o].at = "try.recheck"]
          /\ UNCHANGED reply
    /\ UNCHANGED <<mailbox, recordVars, ops, turn, goalVars>>

\* Both rechecks of the mailbox, before and after the turn context is built.
TryRecheck(o) ==
    /\ At(o, "try.recheck") \/ At(o, "try.recheck2")
    /\ IF has_trigger_turn_mailbox_items THEN Goto(o, "try.yield")
       ELSE Goto(o, IF At(o, "try.recheck") THEN "try.recheck2" ELSE "try.confirm")
    /\ UNCHANGED <<active, turn_state, mailbox, recordVars, clientVars, turn, goalVars>>

\* Mutant: the reservation is given up without looking at the mailbox again.
TryYieldSilently(o) ==
    /\ At(o, "try.yield")
    /\ active' = IF Reserved(fr[o].ts) THEN None ELSE active
    /\ Reject(o)
    /\ GotoWith(o, Frame("idle"))
    /\ UNCHANGED <<turn_state, mailbox, recordVars, ops, turn, goalVars>>

\* clear_reserved_idle_turn, then maybe_start_turn_for_pending_work.
TryYield(o) ==
    /\ At(o, "try.yield")
    /\ active' = IF Reserved(fr[o].ts) THEN None ELSE active
    /\ Reject(o)
    /\ GotoWith(o, [Frame("pending.check") EXCEPT !.ret = "idle"])
    /\ UNCHANGED <<turn_state, mailbox, recordVars, ops, turn, goalVars>>

TryConfirm(o) ==
    /\ At(o, "try.confirm")
    /\ \/ /\ Reserved(fr[o].ts)
          /\ Goto(o, "try.extend")
          /\ UNCHANGED reply
       \/ /\ ~Reserved(fr[o].ts)
          /\ Reject(o)
          /\ GotoWith(o, Frame("idle"))
    /\ UNCHANGED <<active, turn_state, mailbox, recordVars, ops, turn, goalVars>>

TryExtend(o) ==
    /\ At(o, "try.extend")
    /\ Extend(fr[o].ts, {o})
    /\ GotoWith(o, [Frame("start.take") EXCEPT !.ret = "idle"])
    /\ UNCHANGED <<active, mailbox, recordVars, clientVars, turn, goalVars>>

try_start_turn_if_idle(o) ==
    \/ TryStart(o) \/ TryReserve(o) \/ TryRecheck(o)
    \/ TryYield(o) \/ TryConfirm(o) \/ TryExtend(o)

----------------------------------------------------------------------------
RunnerStep(t) ==
    \/ RunBegin(t) \/ TurnInput(t) \/ TurnTake(t) \/ TurnDrain(t) \/ TurnRecord(t)
    \/ SampleToolCall(t) \/ SampleAnswer(t) \/ SampleFails(t) \/ TurnPost(t)
    \/ RunLoop(t) \/ RunEnd(t) \/ on_task_finished(t) \/ GoalContinuation(t)

\* A call in progress: start_task, the pending-work check or an abort.
CallStep(a) ==
    \/ StartTask(a) \/ maybe_start_turn_for_pending_work(a)
    \/ abort_all_tasks(a) \/ AbortIfActive(a)

ClientStep(o) ==
    \/ UserInput(o) \/ SpawnOther(o) \/ Interrupt(o) \/ QueueMail(o) \/ TriggerTurnMail(o)
    \/ Steer(o) \/ Inject(o) \/ GuardianAborts(o) \/ StopGoal(o)
    \/ try_start_turn_if_idle(o)

Next ==
    \/ \E a \in Actors : CallStep(a)
    \/ \E t \in Turns : RunnerStep(t)
    \/ \E o \in Ops : ClientStep(o)

Spec == Init /\ [][Next]_vars

\* Every task that is not over is scheduled, and a model request ends: the loop,
\* the runner of a turn, and the caller of try_start_turn_if_idle or of an abort
\* once it has begun.  Nobody has to send anything.
Fairness ==
    /\ WF_vars(CallStep(LOOP))
    /\ \A t \in Turns : WF_vars(CallStep(t) \/ RunnerStep(t))
    /\ \A o \in {p \in Ops : OpKind[p] \in {"try_start", "abort_turn"}} :
            WF_vars(o \notin ops /\ (CallStep(o) \/ try_start_turn_if_idle(o)))

FairSpec == Spec /\ Fairness

----------------------------------------------------------------------------
(* Properties *)

Body == {"run.begin", "turn.input", "turn.take", "turn.drain", "turn.record",
         "turn.sample", "turn.post", "run.loop", "run.end", "finish.take"}
Finish == {"finish.record", "finish.event", "finish.clear", "goal.read",
           "goal.candidate", "goal.reserve", "goal.reread", "goal.confirm", "goal.clear"}
Call == {"start.take", "start.drain", "start.state", "start.extend", "start.spawn",
         "pending.check", "pending.reserve", "abort.take", "abort.cancel",
         "abort.wait", "abort.event", "abort.clear", "abort_if.take"}
Try == {"try.reserve", "try.recheck", "try.recheck2", "try.yield", "try.confirm",
        "try.extend"}

TypeOK ==
    /\ active \in [task : Turns \cup {None}, ts : States] \cup {None}
    /\ turn_state \in [States -> [pending : SUBSET (Items \cup {GOAL}),
                                  phase : {"CurrentTurn", "NextTurn"}]]
    /\ mailbox \subseteq Items /\ history \subseteq Items /\ discarded \subseteq Items
    /\ ops \subseteq Ops
    /\ reply \in [Ops -> Turns \cup {Rejected, None}]
    /\ turn \in [Turns -> [kind : {"Regular", "Other", "Shell", None}, input : SUBSET Items,
                           cancelled : BOOLEAN,
                           events : SUBSET {"TurnStarted", "TurnComplete", "TurnAborted"},
                           follow_up : BOOLEAN, rounds : 0 .. MaxRounds]]
    /\ fr \in [Actors -> [at : Body \cup Finish \cup Call \cup Try
                               \cup {"idle", "unborn", "over"},
                          items : SUBSET (Items \cup {GOAL}),
                          ts : States \cup {None}, turn : Turns \cup {None},
                          kind : {"Regular", "Other", "Shell"}, input : SUBSET Items,
                          ret : {"idle", "goal.read", "over", None},
                          reason : {"Replaced", "Interrupted", None},
                          permit : BOOLEAN]]
    /\ goal_active \in BOOLEAN /\ goal_turns \in 0 .. MaxGoals

\* Where item o is: a turn state that nobody refers to any more is nowhere.
Places(o) ==
    {<<"mailbox", o>> : x \in mailbox \cap {o}}
        \cup {<<"history", o>> : x \in history \cap {o}}
        \cup {<<"discarded", o>> : x \in discarded \cap {o}}
        \cup {<<"sender", o>> : x \in {r \in {reply[o]} : r = Rejected}}
        \cup {<<"pending", s>> : s \in {r \in States : Referenced(r)
                                            /\ o \in turn_state[r].pending}}
        \cup {<<"input", t>> : t \in {u \in Turns : o \in turn[u].input}}
        \cup {<<"local", a>> : a \in {b \in Actors : o \in fr[b].items \cup fr[b].input}}

\* Every item that was sent is in exactly one place: no interleaving of drains,
\* steers, aborts and finishing turns loses an accepted item, hands it to two
\* turns or both accepts and rejects it.  Only an abort or a failed turn, which
\* the client is told of, may discard it.
InputConserved == \A o \in Items \ ops : Cardinality(Places(o)) = 1

\* The two debug_assert!(turn.task.is_none()) of start_task: whoever starts a
\* task finds no other task in the active turn.
StartFindsNoTask ==
    \A a \in Actors : fr[a].at \in {"start.state", "start.spawn"} => ~HasTask

\* Two turns never work on the conversation at the same time: before a second
\* runner exists, the first has been cancelled or has finished.
OneTurnRuns ==
    \A t, u \in Turns :
        (/\ fr[t].at \in Body /\ ~turn[t].cancelled
         /\ fr[u].at \in Body /\ ~turn[u].cancelled) => t = u

\* on_task_finished takes the task it finds; it is always the caller's own, so
\* a turn never ends another one.
FinishesOwnTask ==
    \A t \in Turns : At(t, "finish.take") /\ HasTask => TaskIs(t)

\* A turn is reported as complete or as aborted, never as both, although the
\* abort and the end of the runner race for the active turn.
OneTerminalEvent ==
    \A t \in Turns : ~({"TurnComplete", "TurnAborted"} \subseteq turn[t].events)

\* Input that was accepted for a turn is in the conversation, or was blocked by
\* a hook, when the client hears that the turn is complete, however late it was
\* steered in.
SteerRecordedBeforeComplete ==
    \A o \in Items :
        reply[o] \in Turns /\ "TurnComplete" \in turn[reply[o]].events =>
            o \in history \cup discarded

\* A turn that has shown its final answer leaves mail in the mailbox for the
\* next turn.
AnsweredTurnTakesNoMail ==
    \A t \in Turns : At(t, "turn.drain") /\ mailbox # {} =>
        /\ TaskIs(t) => turn_state[active.ts].phase = "CurrentTurn"
        /\ \A a \in Actors : fr[a].turn = t /\ fr[a].ts # None =>
                turn_state[fr[a].ts].phase = "CurrentTurn"

\* What follows holds once the clients have sent what they send (a session is
\* sent finitely many operations, and may stop being sent any at any time).

\* Every turn that was started has been reported as complete or aborted.
EveryTurnEnds ==
    <>[](\A t \in Turns : turn[t].kind # None =>
            turn[t].events \cap {"TurnComplete", "TurnAborted"} # {})

\* Whatever a client or an agent sent, other than mail that may wait, is in the
\* conversation unless the client was told otherwise.
InputSettles ==
    <>[](\A o \in Items \ ops : OpKind[o] # "mail" =>
            o \in history \cup discarded \/ reply[o] = Rejected)

\* The turns of a session are kept apart: a start finds no task, one runner works on
\* the conversation, a runner finishes its own task, no turn ends twice, and a turn
\* that has answered takes no more mail.
TurnInv ==
    /\ TypeOK
    /\ StartFindsNoTask
    /\ OneTurnRuns
    /\ FinishesOwnTask
    /\ OneTerminalEvent
    /\ AnsweredTurnTakesNoMail

\* What the reservation of the idle session is for (the code behind it:
\* maybe_start_goal_continuation_turn, maybe_start_turn_for_pending_work and
\* try_start_turn_if_idle): whoever starts a task finds none, one runner works on the
\* conversation, a runner finishes its own task and no turn ends twice.
TurnsApart == StartFindsNoTask /\ OneTurnRuns /\ FinishesOwnTask /\ OneTerminalEvent

AllTurnsStarted == \A t \in Turns : ~At(t, "unborn")

\* In the end the session is idle: no reservation, whether given up because the goal
\* has stopped, taken by an abort or yielded to mail, and no finished task is left in
\* the active turn, where it would keep every later starter out.  (Checks of the
\* mailbox that come late start turns without input, so the bound on turns can be hit.)
SessionGoesIdle == <>[](active = None \/ AllTurnsStarted)
=============================================================================
