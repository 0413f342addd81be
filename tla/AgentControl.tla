---------------------------- MODULE AgentControl ----------------------------
(***************************************************************************)
(* AgentControl (codex-rs/core/src/agent/control.rs): the spawn, resume,   *)
(* input and close tools of the first multi-agent version as sequences of  *)
(* awaits over three stores that share no lock: the threads loaded by the  *)
(* ThreadManager, the agent registry with its slot counter, and the spawn  *)
(* edges in the state database.                                            *)
(*                                                                         *)
(* A registry access is one step here; AgentRegistry has its finer steps.  *)
(* Agents of this version have no path, so the registry keys them by their *)
(* thread id.                                                              *)
(***************************************************************************)
EXTENDS Integers, FiniteSets, Sequences

CONSTANTS
    Calls,        \* tool calls that may be in flight at the same time
    Agents,       \* thread ids of sub-agents
    Root,         \* the thread id of the root session
    max_threads,  \* agents.max_threads
    Overlap,      \* the sets of two tools whose calls may be in flight together
    MaxCalls,     \* bound: tool calls made
    MaxInstances, \* bound: how often one thread is loaded
    MaxFaults     \* bound: failures, interrupts and sessions that die

ASSUME ControlAssumption ==
    /\ IsFiniteSet(Agents) /\ IsFiniteSet(Calls)
    /\ Root \notin Agents
    /\ max_threads \in Nat /\ MaxInstances \in Nat \ {0} /\ MaxFaults \in Nat /\ MaxCalls \in Nat
    /\ Overlap \subseteq SUBSET {"spawn", "input", "resume", "close"}

\* A thread id is loaded again and again; each session loop is an instance.
Instances == Agents \X (1 .. MaxInstances)

VARIABLES
    loaded,       \* ThreadManagerState.threads: thread -> instance number, 0 if absent
    parent,       \* the parent in the session source of the loaded thread
    instances,    \* per thread, the number of instances so far
    alive,        \* instances whose session loop runs
    stopping,     \* instances that were sent Op::Shutdown
    registered,   \* the agent_tree of the registry
    slot_count,   \* its slot counter, total_count
    edge,         \* thread_spawn_edges: child -> parent and status
    call,         \* per tool call, where it is and what it holds
    made,         \* the tool calls made so far
    faults        \* the faults so far

controlVars == <<loaded, parent, instances, alive, stopping, registered, slot_count, edge,
          call, made, faults>>
threadVars == <<loaded, parent, instances, alive, stopping>>
registryVars == <<registered, slot_count>>
boundVars == <<made, faults>>

NoThread == Root   \* the root is never the target of a call

RootSession == <<Root, 0>>

Idle == [tool |-> "none", at |-> "idle", owner |-> RootSession, by |-> Root,
         target |-> NoThread, top |-> FALSE, waits |-> 0,
         known |-> FALSE, failed |-> FALSE,
         queue |-> <<>>, todo |-> {}, seen |-> {}]

NoEdge == [parent |-> Root, status |-> "none"]

ControlInit ==
    /\ loaded = [t \in Agents |-> 0]
    /\ parent = [t \in Agents |-> Root]
    /\ instances = [t \in Agents |-> 0]
    /\ alive = {} /\ stopping = {}
    /\ registered = {} /\ slot_count = 0
    /\ edge = [t \in Agents |-> NoEdge]
    /\ call = [c \in Calls |-> Idle]
    /\ made = 0 /\ faults = 0

----------------------------------------------------------------------------
Running(t) == loaded[t] # 0 /\ <<t, loaded[t]>> \in alive

At(c, at) == call[c].at = at
Goto(c, at) == call' = [call EXCEPT ![c].at = at]
Done(c) == call' = [call EXCEPT ![c] = Idle]

\* The places where the call holds a SpawnReservation, whose Drop gives the
\* slot back.
Holding(c) == call[c].at \in {"spawn.thread", "spawn.commit", "resume.lookup",
                              "resume.thread", "resume.lifecycle"}

\* A tool call is made in a turn of a running session.  When that session ends
\* its turn is aborted, and the call with it.
Callers == {RootSession} \cup {i \in alive : loaded[i[1]] = i[2]}

OwnerRuns(c) == call[c].owner \in alive \cup {RootSession}

\* Places that are reached from the one before without an await, so that the
\* task of the call cannot be aborted there.
NoAwait == {"spawn.commit", "died.release", "stop.release", "closed"}

\* A new call by a session, beside the calls in flight.
MayStart(c, tool) ==
    /\ At(c, "idle") /\ made < MaxCalls
    /\ \A d \in Calls : ~At(d, "idle") => {call[d].tool, tool} \in Overlap
    /\ made' = made + 1

\* A caller has the id of an agent from the result of the call that spawned it.
Known(t) ==
    instances[t] # 0 /\ \A d \in Calls : call[d].tool = "spawn" => call[d].target # t

\* One of the failures that the code handles, within the bound.
Fault == faults < MaxFaults /\ faults' = faults + 1

Ready(c, at) == At(c, at) /\ (OwnerRuns(c) \/ at \in NoAwait)

Load(t, by) ==
    /\ instances[t] < MaxInstances
    /\ instances' = [instances EXCEPT ![t] = @ + 1]
    /\ loaded' = [loaded EXCEPT ![t] = instances[t] + 1]
    /\ alive' = alive \cup {<<t, instances[t] + 1>>}
    /\ parent' = [parent EXCEPT ![t] = by]
    /\ UNCHANGED stopping

remove_thread(t) ==
    /\ loaded' = [loaded EXCEPT ![t] = 0]
    /\ parent' = [parent EXCEPT ![t] = Root]
    /\ UNCHANGED <<instances, alive, stopping>>

\* SpawnReservation::commit: the entry takes over the reserved slot, also when
\* the registry already had an entry under this key.
commit_agent(t) ==
    /\ registered' = registered \cup {t}
    /\ UNCHANGED slot_count

\* Mutant: an unknown thread gives a slot back, too.
release_any_thread(t) ==
    /\ registered' = registered \ {t}
    /\ slot_count' = slot_count - 1

release_agent(t) ==
    /\ registered' = registered \ {t}
    /\ slot_count' = IF t \in registered THEN slot_count - 1 ELSE slot_count

reserve_spawn_slot ==
    /\ slot_count < max_threads
    /\ slot_count' = slot_count + 1
    /\ UNCHANGED registered

\* Mutant: the reservation is not dropped.
forget_reservation == UNCHANGED <<registered, slot_count>>

drop_reservation ==
    /\ slot_count' = slot_count - 1
    /\ UNCHANGED registered

----------------------------------------------------------------------------
(* spawn_agent_internal *)

\* Thread ids are never used twice; the bound is that they run out.
Fresh == {t \in Agents : instances[t] = 0}

SpawnReserve(c) ==
    /\ MayStart(c, "spawn")
    /\ Cardinality({d \in Calls : At(d, "spawn.thread")}) < Cardinality(Fresh)
    /\ reserve_spawn_slot
    /\ \E o \in Callers :
          call' = [call EXCEPT ![c] =
                [Idle EXCEPT !.tool = "spawn", !.at = "spawn.thread", !.owner = o, !.by = o[1]]]
    /\ UNCHANGED <<threadVars, edge, faults>>

\* spawn_new_thread_with_source: the session starts under a fresh id and is in
\* the thread map before the reservation is committed.
SpawnThread(c) ==
    /\ Ready(c, "spawn.thread")
    /\ \E t \in Fresh :
          /\ Load(t, call[c].by)
          /\ call' = [call EXCEPT ![c].at = "spawn.commit", ![c].target = t]
    /\ UNCHANGED <<registryVars, edge, boundVars>>

SpawnThreadFails(c) ==
    /\ Fault /\ Ready(c, "spawn.thread")
    /\ drop_reservation
    /\ Done(c)
    /\ UNCHANGED <<threadVars, edge, made>>

SpawnCommit(c) ==
    /\ Ready(c, "spawn.commit")
    /\ commit_agent(call[c].target)
    /\ Goto(c, "spawn.edge")
    /\ UNCHANGED <<threadVars, edge, boundVars>>

\* A failure of the database is only logged.
upsert_edge(t, by) ==
    \/ edge' = [edge EXCEPT ![t] = [parent |-> by, status |-> "Open"]] /\ UNCHANGED faults
    \/ Fault /\ UNCHANGED edge

SpawnEdge(c) ==
    /\ Ready(c, "spawn.edge")
    /\ upsert_edge(call[c].target, call[c].by)
    /\ Goto(c, "input")
    /\ UNCHANGED <<threadVars, registryVars, made>>

----------------------------------------------------------------------------
(* send_input and handle_thread_request_result *)

InputStart(c) ==
    /\ MayStart(c, "input")
    /\ \E o \in Callers, t \in Agents :
          /\ Known(t)
          /\ call' = [call EXCEPT ![c] =
                [Idle EXCEPT !.tool = "input", !.at = "input", !.owner = o, !.target = t]]
    /\ UNCHANGED <<threadVars, registryVars, edge, faults>>

\* Delivered, or the thread is not loaded: either way nothing is cleaned up.
SendInput(c) ==
    /\ Ready(c, "input")
    /\ loaded[call[c].target] = 0 \/ Running(call[c].target)
    /\ Done(c)
    /\ UNCHANGED <<threadVars, registryVars, edge, boundVars>>

\* submit fails with InternalAgentDied.
SendInputDied(c) ==
    /\ Ready(c, "input")
    /\ loaded[call[c].target] # 0 /\ ~Running(call[c].target)
    /\ Goto(c, "died.remove")
    /\ UNCHANGED <<threadVars, registryVars, edge, boundVars>>

DiedRemove(c) ==
    /\ Ready(c, "died.remove")
    /\ remove_thread(call[c].target)
    /\ Goto(c, "died.release")
    /\ UNCHANGED <<registryVars, edge, boundVars>>

DiedRelease(c) ==
    /\ Ready(c, "died.release")
    /\ release_agent(call[c].target)
    /\ Done(c)
    /\ UNCHANGED <<threadVars, edge, boundVars>>

----------------------------------------------------------------------------
(* The resume tool: resume_agent_from_rollout, which resumes its target and *)
(* then, along the open spawn edges, the target's descendants.              *)

\* handle_resume_agent goes on only when the agent's status is NotFound.
ResumeStart(c) ==
    /\ MayStart(c, "resume")
    /\ \E o \in Callers, t \in Agents :
          /\ Known(t) /\ loaded[t] = 0
          /\ call' = [call EXCEPT ![c] = [Idle EXCEPT !.tool = "resume",
                !.at = "resume.reserve", !.owner = o, !.by = o[1], !.target = t, !.top = TRUE]]
    /\ UNCHANGED <<threadVars, registryVars, edge, faults>>

\* What follows a resume_single_agent_from_rollout that failed: the target's
\* failure ends the call, a descendant's is logged.
ResumeFailed(c) ==
    call' = [call EXCEPT ![c] =
        IF @.top THEN Idle ELSE [@ EXCEPT !.at = "resume.next"]]

ResumeReserve(c) ==
    /\ Ready(c, "resume.reserve")
    /\ reserve_spawn_slot
    /\ Goto(c, "resume.lookup")
    /\ UNCHANGED <<threadVars, edge, boundVars>>

ResumeLimitReached(c) ==
    /\ Ready(c, "resume.reserve")
    /\ slot_count >= max_threads
    /\ ResumeFailed(c)
    /\ UNCHANGED <<threadVars, registryVars, edge, boundVars>>

\* The head of spawn_thread_with_source, under the write lock of the thread
\* map: a running thread is returned as it is, an ended one is removed.
ResumeLookup(c) ==
    LET t == call[c].target IN
    /\ Ready(c, "resume.lookup")
    /\ IF Running(t)
       THEN Goto(c, "resume.lifecycle") /\ UNCHANGED threadVars
       ELSE Goto(c, "resume.thread") /\ remove_thread(t)
    /\ UNCHANGED <<registryVars, edge, boundVars>>

\* finalize_thread_spawn: a thread that was loaded meanwhile wins.  Past the
\* bound MaxInstances a load fails.
ResumeThread(c) ==
    LET t == call[c].target IN
    /\ Ready(c, "resume.thread")
    /\ loaded[t] = 0
    /\ Load(t, call[c].by)
    /\ Goto(c, "resume.lifecycle")
    /\ UNCHANGED <<registryVars, edge, boundVars>>

ResumeThreadFails(c) ==
    /\ Ready(c, "resume.thread")
    /\ \/ /\ loaded[call[c].target] # 0 \/ instances[call[c].target] = MaxInstances
          /\ UNCHANGED faults
       \/ Fault
    /\ drop_reservation
    /\ ResumeFailed(c)
    /\ UNCHANGED <<threadVars, edge, made>>

ResumeCommit(c) ==
    /\ Ready(c, "resume.lifecycle")
    /\ commit_agent(call[c].target)
    /\ Goto(c, "resume.edge")
    /\ UNCHANGED <<threadVars, edge, boundVars>>

ResumeEdge(c) ==
    /\ Ready(c, "resume.edge")
    /\ upsert_edge(call[c].target, call[c].by)
    /\ call' = [call EXCEPT ![c].at = IF call[c].top THEN "resume.check" ELSE "resume.next",
                            ![c].queue = Append(@, call[c].target)]
    /\ UNCHANGED <<threadVars, registryVars, made>>

\* The descendants are left alone when the target is gone again.
ResumeCheck(c) ==
    /\ Ready(c, "resume.check")
    /\ IF loaded[call[c].target] = 0
       THEN Done(c)
       ELSE call' = [call EXCEPT ![c].at = "resume.next", ![c].top = FALSE]
    /\ UNCHANGED <<threadVars, registryVars, edge, boundVars>>

\* Mutant: the status of the edge is not part of the query.
OpenChildrenAnyStatus(p) == {t \in Agents : edge[t].status # "none" /\ edge[t].parent = p}

\* list_thread_spawn_children_with_status(parent, Open)
OpenChildren(p) == {t \in Agents : edge[t].status = "Open" /\ edge[t].parent = p}

\* Takes the next parent off the queue and lists its open children.  A failure
\* of the database is logged, and the parent counts as childless.
ResumeListChildren(c) ==
    /\ Ready(c, "resume.next") /\ call[c].todo = {} /\ call[c].queue # <<>>
    /\ \E children \in {OpenChildren(Head(call[c].queue)), {}} :
          /\ \/ children = OpenChildren(Head(call[c].queue)) /\ UNCHANGED faults
             \/ children = {} /\ Fault
          /\ call' = [call EXCEPT ![c].todo = children,
                                  ![c].by = Head(call[c].queue),
                                  ![c].queue = Tail(@)]
    /\ UNCHANGED <<threadVars, registryVars, edge, made>>

\* A child that is loaded counts as resumed; the others are resumed.
ResumeChild(c) ==
    /\ Ready(c, "resume.next")
    /\ \E t \in call[c].todo :
          call' = [call EXCEPT ![c].todo = @ \ {t}, ![c].target = t,
                ![c].queue = IF loaded[t] # 0 THEN Append(@, t) ELSE @,
                ![c].at = IF loaded[t] # 0 THEN "resume.next" ELSE "resume.reserve"]
    /\ UNCHANGED <<threadVars, registryVars, edge, boundVars>>

ResumeReturn(c) ==
    /\ Ready(c, "resume.next") /\ call[c].todo = {} /\ call[c].queue = <<>>
    /\ Done(c)
    /\ UNCHANGED <<threadVars, registryVars, edge, boundVars>>

----------------------------------------------------------------------------
(* close_agent and shutdown_agent_tree *)

\* The tool refuses an agent that is neither loaded nor registered.
CloseStart(c) ==
    /\ MayStart(c, "close")
    /\ \E o \in Callers, t \in Agents :
          /\ Known(t)
          /\ loaded[t] # 0 \/ t \in registered
          /\ call' = [call EXCEPT ![c] = [Idle EXCEPT !.tool = "close", !.at = "close.edge",
                !.owner = o, !.target = t, !.top = TRUE, !.known = t \in registered]]
    /\ UNCHANGED <<threadVars, registryVars, edge, faults>>

\* set_thread_spawn_edge_status updates the row if there is one.
SetClosed(t) ==
    edge' = IF edge[t].status = "none" THEN edge
            ELSE [edge EXCEPT ![t].status = "Closed"]

CloseEdge(c) ==
    LET t == call[c].target IN
    /\ Ready(c, "close.edge")
    /\ IF loaded[t] # 0 \/ call[c].known THEN SetClosed(t) ELSE UNCHANGED edge
    /\ Goto(c, "close.snapshot")
    /\ UNCHANGED <<threadVars, registryVars, boundVars>>

\* For a loaded agent the failure is logged, for a stale one it is fatal.
CloseEdgeFails(c) ==
    LET t == call[c].target IN
    /\ Fault /\ Ready(c, "close.edge")
    /\ loaded[t] # 0 \/ call[c].known
    /\ IF loaded[t] # 0 THEN Goto(c, "close.snapshot") ELSE Done(c)
    /\ UNCHANGED <<threadVars, registryVars, edge, made>>

LiveChildren(S) == {t \in Agents : loaded[t] # 0 /\ parent[t] \in S}

\* live_thread_spawn_descendants: the smallest set of loaded threads that has
\* the children of t and is closed under children.
live_thread_spawn_descendants(t) ==
    {u \in Agents : \A D \in SUBSET Agents : LiveChildren({t} \cup D) \subseteq D => u \in D}

\* `seen` remembers the instances of the tree for the properties.
CloseSnapshot(c) ==
    LET tree == live_thread_spawn_descendants(call[c].target) IN
    /\ Ready(c, "close.snapshot")
    /\ call' = [call EXCEPT ![c].at = "stop.flush", ![c].todo = tree,
            ![c].seen = {<<t, loaded[t]>> : t \in tree \cup {call[c].target}}]
    /\ UNCHANGED <<threadVars, registryVars, edge, boundVars>>

----------------------------------------------------------------------------
(* shutdown_live_agent for the thread the call is at, then the next one *)

\* get_thread and flush_rollout; `waits` is the instance it has a handle of,
\* 0 when the thread is not loaded.
StopFlush(c) ==
    LET t == call[c].target IN
    /\ Ready(c, "stop.flush")
    /\ call' = [call EXCEPT ![c].waits = loaded[t], ![c].at = "stop.send"]
    /\ UNCHANGED <<threadVars, registryVars, edge, boundVars>>

\* The root's error is kept until the descendants are stopped, a
\* descendant's ends the call.
StopFlushFails(c) ==
    /\ Fault /\ Ready(c, "stop.flush") /\ loaded[call[c].target] # 0
    /\ IF call[c].top
       THEN call' = [call EXCEPT ![c].at = "stop.next", ![c].failed = TRUE, ![c].top = FALSE]
       ELSE Done(c)
    /\ UNCHANGED <<threadVars, registryVars, edge, made>>

\* Mutant: the shutdown request goes missing.
StopSendNothing(c) ==
    /\ Ready(c, "stop.send")
    /\ Goto(c, "stop.wait")
    /\ UNCHANGED <<threadVars, registryVars, edge, boundVars>>

\* send_op looks the thread up again; it reaches whichever instance is loaded,
\* also when none was before.  An agent whose status is Shutdown already is not
\* sent anything.
StopSend(c) ==
    LET t == call[c].target IN
    /\ Ready(c, "stop.send")
    /\ stopping' = IF Running(t) /\ (call[c].waits = 0 \/ <<t, call[c].waits>> \in alive)
                   THEN stopping \cup {<<t, loaded[t]>>} ELSE stopping
    /\ Goto(c, "stop.wait")
    /\ UNCHANGED <<loaded, parent, instances, alive, registryVars, edge, boundVars>>

\* wait_until_terminated, of the instance it has a handle of, if any.
StopWait(c) ==
    /\ Ready(c, "stop.wait")
    /\ <<call[c].target, call[c].waits>> \notin alive
    /\ Goto(c, "stop.remove")
    /\ UNCHANGED <<threadVars, registryVars, edge, boundVars>>

StopRemove(c) ==
    /\ Ready(c, "stop.remove")
    /\ remove_thread(call[c].target)
    /\ Goto(c, "stop.release")
    /\ UNCHANGED <<registryVars, edge, boundVars>>

StopRelease(c) ==
    /\ Ready(c, "stop.release")
    /\ release_agent(call[c].target)
    /\ call' = [call EXCEPT ![c].at = "stop.next", ![c].top = FALSE, ![c].waits = 0]
    /\ UNCHANGED <<threadVars, edge, boundVars>>

StopNext(c) ==
    /\ Ready(c, "stop.next")
    /\ \E t \in call[c].todo :
          call' = [call EXCEPT ![c].at = "stop.flush", ![c].target = t, ![c].todo = @ \ {t}]
    /\ UNCHANGED <<threadVars, registryVars, edge, boundVars>>

\* close_agent has stopped the tree; "closed" is where it returns Ok.
CloseReturn(c) ==
    /\ Ready(c, "stop.next") /\ call[c].todo = {}
    /\ IF call[c].failed THEN Done(c) ELSE Goto(c, "closed")
    /\ UNCHANGED <<threadVars, registryVars, edge, boundVars>>

CloseReturned(c) ==
    /\ Ready(c, "closed")
    /\ Done(c)
    /\ UNCHANGED <<threadVars, registryVars, edge, boundVars>>

----------------------------------------------------------------------------
(* The environment *)

\* The task of the tool call is aborted at an await, and drops what it holds.
Abort(c) ==
    /\ call[c].at \notin {"idle"} \cup NoAwait
    /\ IF Holding(c) THEN drop_reservation ELSE UNCHANGED registryVars
    /\ Done(c)
    /\ UNCHANGED <<threadVars, edge, made>>

\* The turn of the calling session is interrupted.
Interrupted(c) == Fault /\ OwnerRuns(c) /\ Abort(c)

\* The calling session has ended.
OwnerEnded(c) == ~OwnerRuns(c) /\ Abort(c) /\ UNCHANGED faults

\* The session loop ends after Op::Shutdown.
SessionEnds(i) ==
    /\ i \in alive \cap stopping
    /\ alive' = alive \ {i} /\ stopping' = stopping \ {i}
    /\ UNCHANGED <<loaded, parent, instances, registryVars, edge, call, boundVars>>

\* The session loop ends for another reason (a client shuts the thread down,
\* its task panics): the next request finds InternalAgentDied.
SessionDies(i) ==
    /\ Fault
    /\ i \in alive \ stopping
    /\ alive' = alive \ {i}
    /\ UNCHANGED <<loaded, parent, instances, stopping, registryVars, edge, call, made>>

Step(c) ==
    \/ SpawnThread(c) \/ SpawnThreadFails(c) \/ SpawnCommit(c) \/ SpawnEdge(c)
    \/ SendInput(c) \/ SendInputDied(c) \/ DiedRemove(c) \/ DiedRelease(c)
    \/ ResumeReserve(c) \/ ResumeLimitReached(c) \/ ResumeLookup(c)
    \/ ResumeThread(c) \/ ResumeThreadFails(c) \/ ResumeCommit(c) \/ ResumeEdge(c)
    \/ ResumeCheck(c) \/ ResumeListChildren(c) \/ ResumeChild(c) \/ ResumeReturn(c)
    \/ CloseEdge(c) \/ CloseEdgeFails(c) \/ CloseSnapshot(c)
    \/ StopFlush(c) \/ StopFlushFails(c) \/ StopSend(c) \/ StopWait(c)
    \/ StopRemove(c) \/ StopRelease(c) \/ StopNext(c) \/ CloseReturn(c)
    \/ CloseReturned(c)

Start(c) == SpawnReserve(c) \/ InputStart(c) \/ ResumeStart(c) \/ CloseStart(c)

ControlNext ==
    \/ \E c \in Calls : Start(c) \/ Step(c) \/ Interrupted(c) \/ OwnerEnded(c)
    \/ \E i \in Instances : SessionEnds(i) \/ SessionDies(i)

ControlSpec == ControlInit /\ [][ControlNext]_controlVars

\* A call in progress is a task the runtime keeps polling, and a session loop
\* that was sent Shutdown handles it.
ControlLiveSpec ==
    /\ ControlSpec
    /\ \A c \in Calls : WF_controlVars(Step(c) \/ OwnerEnded(c))
    /\ \A i \in Instances : WF_controlVars(SessionEnds(i))

----------------------------------------------------------------------------
(* Properties *)

Held == {c \in Calls : Holding(c)}

Places == {"idle", "spawn.thread", "spawn.commit", "spawn.edge", "input",
    "died.remove", "died.release", "resume.reserve", "resume.lookup",
    "resume.thread", "resume.lifecycle", "resume.edge", "resume.check",
    "resume.next", "close.edge", "close.snapshot", "stop.flush", "stop.send",
    "stop.wait", "stop.remove", "stop.release", "stop.next", "closed"}

\* Every variable has its type, and a call that is at a thread names one.
ControlTypeOK ==
    /\ loaded \in [Agents -> 0 .. MaxInstances]
    /\ instances \in [Agents -> 0 .. MaxInstances]
    /\ parent \in [Agents -> Agents \cup {Root}]
    /\ alive \subseteq Instances /\ stopping \subseteq Instances
    /\ registered \subseteq Agents
    /\ slot_count \in 0 .. max_threads
    /\ edge \in [Agents -> [parent : Agents \cup {Root},
                               status : {"none", "Open", "Closed"}]]
    /\ made \in 0 .. MaxCalls /\ faults \in 0 .. MaxFaults
    /\ call \in [Calls -> [tool : {"none", "spawn", "input", "resume", "close"}, at : Places,
            owner : Instances \cup {RootSession}, by : Agents \cup {Root},
            target : Agents \cup {Root}, top : BOOLEAN, waits : 0 .. MaxInstances,
            known : BOOLEAN, failed : BOOLEAN, queue : Seq(Agents),
            todo : SUBSET Agents, seen : SUBSET (Agents \X (0 .. MaxInstances))]]
    /\ \A c \in Calls : call[c].at \notin {"idle", "spawn.thread"} => call[c].target \in Agents

\* Whatever is interrupted, resumed twice or closed concurrently, the counter
\* never falls below the registered agents and the reservations: the registry
\* never admits more of them than its limit.
SlotsNeverUndercounted ==
    Cardinality(registered) + Cardinality(Held) <= slot_count

Slack == slot_count - Cardinality(registered) - Cardinality(Held)

\* A slot that belongs to no agent and no reservation is lost for good, and the
\* limit is reached with fewer agents.  However calls fail, are interrupted or
\* overlap, only one step loses one: a resume that commits its reservation over
\* an entry that is still registered.
SlotsLostOnlyByResume ==
    [][Slack' > Slack =>
          \E c \in Calls : At(c, "resume.lifecycle") /\ call[c].target \in registered]_controlVars

\* close_agent returns Ok only when the session loops of the tree it found
\* have ended: each was waited for by this call or by a concurrent one.
CloseStopsSnapshot ==
    \A c \in Calls : At(c, "closed") => call[c].seen \cap alive = {}

\* A closed agent is never brought back as somebody's descendant: only a
\* resume that names it loads it again.
ClosedStaysClosed ==
    [][\A t \in Agents :
          (loaded[t] = 0 /\ loaded'[t] # 0 /\ edge[t].status = "Closed") =>
              \E c \in Calls : call[c].target = t /\ call[c].top]_controlVars

\* Nobody waits for ever: a call that spawns, sends input or closes returns,
\* whoever else stops the same agents.
CallsReturn ==
    <>[](\A c \in Calls : call[c].tool \in {"none", "resume"})

\* The three stores of agent control, which share no lock, stay on the safe side of
\* each other: no slot too few is counted, and a close that returned Ok has stopped
\* the session loops it found.
ControlInv ==
    /\ ControlTypeOK
    /\ SlotsNeverUndercounted
    /\ CloseStopsSnapshot
=============================================================================
