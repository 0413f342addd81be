---------------------------- MODULE UnifiedExec ----------------------------
(***************************************************************************)
(* The process manager of unified exec (core/src/unified_exec): the        *)
(* processes that exec_command starts and leaves running between tool      *)
(* calls, the store that remembers them under a number the model may use   *)
(* in write_stdin, the pruning of that store, the tasks that watch each    *)
(* process, and "terminate all background terminals".                      *)
(*                                                                         *)
(* Every exec_command call starts at most one process, so a process is     *)
(* named by its call.  A process lives as long as somebody holds an Arc to *)
(* it: Drop terminates it.  The tool call's future is dropped when the     *)
(* turn is interrupted, at whatever await it has reached.                  *)
(***************************************************************************)
EXTENDS Integers, FiniteSets

CONSTANTS
    Calls,        \* exec_command calls, numbered in the order in which they
                  \* start; each also names the process it starts
    NetCalls,     \* the calls whose process has a deferred network approval
    RemoteCalls,  \* the calls whose process runs on an exec-server
    Ids,          \* process ids a draw of rand can return
    MaxProcesses,          \* MAX_UNIFIED_EXEC_PROCESSES
    Protected,    \* how many most recently used processes pruning spares
    MaxInputs,    \* bound on write_stdin calls, interrupts and terminate-alls
    NoCall, NoId

ASSUME StoreAssumption ==
    /\ IsFiniteSet(Calls) /\ Calls \subseteq Nat
    /\ IsFiniteSet(Ids) /\ Cardinality(Calls) <= Cardinality(Ids)
    /\ NetCalls \subseteq Calls /\ RemoteCalls \subseteq Calls
    /\ NoCall \notin Calls /\ NoId \notin Ids
    /\ MaxProcesses \in Nat /\ Protected \in Nat /\ Protected < MaxProcesses
    /\ MaxInputs \in Nat

VARIABLES
    reserved,     \* ProcessStore.reserved_process_ids
    store,        \* ProcessStore.processes: id -> the call whose process it is
    older,        \* for each call, the calls whose last_used is before its own
    pc,           \* where each exec_command call is
    id,           \* the process id allocated for the call
    startedAlive, \* process_started_alive
    pruning,      \* the entry this call has taken out of the store to prune
    abandoned,    \* history: processes an interrupted call left running
    os,           \* the process: "none", "running", "killed", "exited", or "lost":
                  \* given up because the exec-server no longer answers for it
    token,        \* its cancellation token is cancelled
    failed,       \* ProcessState.failure_message is set
    net,          \* its deferred network approval
    denial,       \* the task of terminate_process_on_network_denial
    begun,        \* its Begin event is out and its output streamed
    watcher,      \* the task of spawn_exit_watcher
    ends,         \* ExecCommandEnd events of the call
    writer,       \* the write_stdin call in progress
    inputs,       \* write_stdin calls, interrupts, terminate-alls so far
    cleaner,      \* terminate_all_processes: the drained entries left to stop
    cleans        \* history: what the last one should have stopped

vars == <<reserved, store, older, pc, id, startedAlive, pruning, abandoned, os,
          token, failed, net, denial, begun, watcher, ends, writer, inputs, cleaner,
          cleans>>

storeVars == <<reserved, store, older>>
callVars == <<id, startedAlive, pruning, abandoned>>
taskVars == <<denial, begun, watcher, ends>>
writerVars == <<writer, inputs>>
cleanVars == <<cleaner, cleans>>

NoWriter == [pc |-> "idle", call |-> NoCall, id |-> NoId]

Init ==
    /\ reserved = {}
    /\ store = [i \in Ids |-> NoCall]
    /\ older = [c \in Calls |-> {}]
    /\ pc = [c \in Calls |-> "idle"]
    /\ id = [c \in Calls |-> NoId]
    /\ startedAlive = [c \in Calls |-> FALSE]
    /\ pruning = [c \in Calls |-> NoCall]
    /\ abandoned = {}
    /\ os = [c \in Calls |-> "none"]
    /\ token = [c \in Calls |-> FALSE]
    /\ failed = [c \in Calls |-> FALSE]
    /\ net = [c \in Calls |-> "none"]
    /\ denial = [c \in Calls |-> "off"]
    /\ begun = [c \in Calls |-> FALSE]
    /\ watcher = [c \in Calls |-> "off"]
    /\ ends = [c \in Calls |-> 0]
    /\ writer = NoWriter
    /\ inputs = 0
    /\ cleaner = [pc |-> "idle", left |-> {}]
    /\ cleans = [due |-> {}, quiet |-> TRUE]

-----------------------------------------------------------------------------
(* Processes.                                                              *)

HasProcess == {"begin", "store", "cleanup", "collect", "end", "release",
               "refresh"}
InFlight == {"opening"} \cup HasProcess

Stored == {c \in Calls : \E i \in Ids : store[i] = c}

\* has_exited: the handle has seen the exit, or the state says exited or failed
HasExited(c) == os[c] \in {"exited", "lost"} \/ failed[c]

\* An Arc<UnifiedExecProcess> of the call's process exists somewhere.
Held(c) ==
    \/ pc[c] \in HasProcess
    \/ c \in Stored
    \/ watcher[c] = "waiting"
    \/ denial[c] = "waiting"
    \/ writer.call = c
    \/ \E d \in Calls : pruning[d] = c
    \/ c \in cleaner.left

\* The processes after a step that terminates T: terminate() kills the child
\* and cancels the token, and so does the Drop of the last Arc.
Terminate(T) ==
    LET stopped == {c \in Calls :
                      os[c] # "none" /\ (c \in T \/ ~Held(c)')}
    IN  /\ os' = [c \in Calls |->
                    IF c \in stopped /\ os[c] = "running" THEN "killed"
                    ELSE os[c]]
        /\ token' = [c \in Calls |-> token[c] \/ c \in stopped]

\* fail_and_terminate records a message for each of T
Fail(T) == failed' = [c \in Calls |-> failed[c] \/ c \in T]

\* the call's process, when its network approval was denied
IfDenied(c, p) == IF net[c] = "denied" THEN {p} ELSE {}

Unregister(S) ==
    net' = [c \in Calls |->
              IF c \in S /\ net[c] = "open" THEN "closed" ELSE net[c]]

\* last_used becomes now: every other call is older than c, and c than none
UseNow(c) ==
    older' = [d \in Calls |-> IF d = c THEN Calls \ {c} ELSE older[d] \ {c}]

-----------------------------------------------------------------------------
(* The store.                                                              *)

\* ProcessStore::remove
RemoveId(i) ==
    /\ reserved' = reserved \ {i}
    /\ store' = [store EXCEPT ![i] = NoCall]

\* release_process_id: whatever entry the id has now is dropped
Release(i) ==
    /\ RemoveId(i)
    /\ Unregister({store[i]})

Oldest(S) == CHOOSE c \in S : \A d \in S \ {c} : c \in older[d]

\* process_id_to_prune_from_meta over the stored calls: the oldest that has
\* exited, else the oldest, of those with enough others used after them
ToPrune(stored) ==
    LET unguarded == {c \in stored :
                        Cardinality({d \in stored : c \in older[d]}) >= Protected}
        exited    == {c \in unguarded : HasExited(c)}
    IN  IF exited # {} THEN Oldest(exited)
        ELSE IF unguarded # {} THEN Oldest(unguarded) ELSE NoCall

\* prune_processes_if_needed
Prune == IF Cardinality(Stored) < MaxProcesses THEN NoCall ELSE ToPrune(Stored)

-----------------------------------------------------------------------------
(* exec_command.                                                           *)

\* The tools lock: exec_command runs beside other exec_command calls,
\* write_stdin alone.
WriterIdle == writer.pc = "idle"
InOrder(c) == \A d \in Calls : d < c => pc[d] # "idle"
NoExecInFlight == \A c \in Calls : pc[c] \notin InFlight

\* The draws are taken to be distinct (the code excludes only the reserved
\* numbers, out of 99,000), and which number is drawn tells nothing apart.
AllocateProcessId(c) ==
    /\ pc[c] = "idle" /\ InOrder(c)
    /\ WriterIdle
    /\ LET i == CHOOSE i \in Ids \ reserved : \A d \in Calls : id[d] # i
       IN
         /\ reserved' = reserved \cup {i}
         /\ id' = [id EXCEPT ![c] = i]
    /\ pc' = [pc EXCEPT ![c] = "opening"]
    /\ UNCHANGED <<store, older, startedAlive, pruning, abandoned, os, token, failed, net,
                   taskVars, writerVars, cleanVars>>

\* The handler gives up before exec_command.  Two of its early returns (an
\* unusable shell, a patch that fails) do not release the id.
RejectRequest(c) ==
    /\ pc[c] = "opening"
    /\ pc' = [pc EXCEPT ![c] = "done"]
    /\ \/ Release(id[c])
       \/ UNCHANGED <<reserved, store, net>>
    /\ UNCHANGED <<older, callVars, failed, taskVars, writerVars, cleanVars>>
    /\ Terminate({})

\* open_session_with_sandbox fails: exec_command releases the id
OpenFails(c) ==
    /\ pc[c] = "opening"
    /\ Release(id[c])
    /\ pc' = [pc EXCEPT ![c] = "done"]
    /\ UNCHANGED <<older, callVars, failed, taskVars, writerVars, cleanVars>>
    /\ Terminate({})

\* open_session_with_sandbox: the process runs, or has exited already
OpenSession(c) ==
    /\ pc[c] = "opening"
    /\ \E o \in {"running", "exited"} :
         /\ os' = [os EXCEPT ![c] = o]
         /\ token' = [token EXCEPT ![c] = (o = "exited")]
    /\ IF c \in NetCalls
       THEN /\ net' = [net EXCEPT ![c] = "open"]
            /\ denial' = [denial EXCEPT ![c] = "waiting"]
       ELSE UNCHANGED <<net, denial>>
    /\ pc' = [pc EXCEPT ![c] = "begin"]
    /\ UNCHANGED <<storeVars, callVars, failed, begun, watcher, ends,
                   writerVars, cleanVars>>

\* Mutant: a live process is not stored before the wait for its output.
EmitBeginUnstored(c) ==
    /\ pc[c] = "begin"
    /\ begun' = [begun EXCEPT ![c] = TRUE]
    /\ startedAlive' = [startedAlive EXCEPT ![c] = ~HasExited(c)]
    /\ UseNow(c)
    /\ pc' = [pc EXCEPT ![c] = "collect"]
    /\ UNCHANGED <<reserved, store, id, pruning, abandoned, os, token, failed, net,
                   denial, watcher, ends, writerVars, cleanVars>>

\* The Begin event is out; streaming starts and the process is looked at.
EmitBegin(c) ==
    /\ pc[c] = "begin"
    /\ begun' = [begun EXCEPT ![c] = TRUE]
    /\ startedAlive' = [startedAlive EXCEPT ![c] = ~HasExited(c)]
    /\ UseNow(c)
    /\ pc' = [pc EXCEPT ![c] = IF HasExited(c) THEN "collect" ELSE "store"]
    /\ UNCHANGED <<reserved, store, id, pruning, abandoned, os, token, failed, net,
                   denial, watcher, ends, writerVars, cleanVars>>

\* store_process under the lock: prune, then insert
StoreProcess(c) ==
    /\ pc[c] = "store"
    /\ LET p   == Prune
           old == {i \in Ids : p # NoCall /\ store[i] = p}
       IN  /\ reserved' = reserved \ old
           /\ store' = [i \in Ids |-> IF i = id[c] THEN c
                                      ELSE IF i \in old THEN NoCall
                                      ELSE store[i]]
           /\ pruning' = [pruning EXCEPT ![c] = p]
           /\ IF p = NoCall
              THEN /\ watcher' = [watcher EXCEPT ![c] = "waiting"]
                   /\ pc' = [pc EXCEPT ![c] = "collect"]
              ELSE /\ pc' = [pc EXCEPT ![c] = "cleanup"]
                   /\ UNCHANGED watcher
    /\ UNCHANGED <<older, id, startedAlive, abandoned, failed, net, denial, begun, ends,
                   writerVars, cleanVars>>
    /\ Terminate({})

\* Mutant: the pruned process is not terminated.
CleanupForgets(c) ==
    /\ pc[c] = "cleanup"
    /\ Unregister({pruning[c]})
    /\ pruning' = [pruning EXCEPT ![c] = NoCall]
    /\ watcher' = [watcher EXCEPT ![c] = "waiting"]
    /\ pc' = [pc EXCEPT ![c] = "collect"]
    /\ UNCHANGED <<storeVars, id, startedAlive, abandoned, failed, denial, begun, ends,
                   writerVars, cleanVars>>
    /\ Terminate({})

\* Mutant: no exit watcher is started.
CleanupUnwatched(c) ==
    /\ pc[c] = "cleanup"
    /\ Unregister({pruning[c]})
    /\ pruning' = [pruning EXCEPT ![c] = NoCall]
    /\ pc' = [pc EXCEPT ![c] = "collect"]
    /\ UNCHANGED <<storeVars, id, startedAlive, abandoned, failed, denial, begun, watcher, ends,
                   writerVars, cleanVars>>
    /\ Terminate({pruning[c]})

\* store_process after the lock: the pruned process is unregistered from the
\* network approvals (an await) and terminated; the exit watcher starts
CleanupPruned(c) ==
    /\ pc[c] = "cleanup"
    /\ Unregister({pruning[c]})
    /\ pruning' = [pruning EXCEPT ![c] = NoCall]
    /\ watcher' = [watcher EXCEPT ![c] = "waiting"]
    /\ pc' = [pc EXCEPT ![c] = "collect"]
    /\ UNCHANGED <<storeVars, id, startedAlive, abandoned, failed, denial, begun, ends,
                   writerVars, cleanVars>>
    /\ Terminate({pruning[c]})

\* collect_output_until_deadline returns, at the deadline or on the exit
CollectOutput(c) ==
    /\ pc[c] = "collect"
    /\ pc' = [pc EXCEPT ![c] =
                IF net[c] = "denied" \/ failed[c] \/ ~startedAlive[c]
                THEN "end" ELSE "refresh"]
    /\ UNCHANGED <<storeVars, callVars, os, token, failed, net, taskVars,
                   writerVars, cleanVars>>

\* Mutant: a stored process gets its End event here as well.
EmitEndAlways(c) ==
    /\ pc[c] = "end"
    /\ ends' = [ends EXCEPT ![c] = @ + 1]
    /\ Unregister({c})
    /\ pc' = [pc EXCEPT ![c] = "release"]
    /\ UNCHANGED <<storeVars, callVars, os, token, failed, denial, begun,
                   watcher, writerVars, cleanVars>>

\* The End event of a call whose process was never stored; a stored one is
\* left to the exit watcher.
EmitEnd(c) ==
    /\ pc[c] = "end"
    /\ ends' = [ends EXCEPT ![c] = IF startedAlive[c] THEN @ ELSE @ + 1]
    /\ Unregister({c})
    /\ pc' = [pc EXCEPT ![c] = "release"]
    /\ UNCHANGED <<storeVars, callVars, os, token, failed, denial, begun,
                   watcher, writerVars, cleanVars>>

\* release_process_id and, after a denial, fail_process_with_message
ReleaseCall(c) ==
    /\ pc[c] = "release"
    /\ Release(id[c])
    /\ pc' = [pc EXCEPT ![c] = "done"]
    /\ Fail(IfDenied(c, c))
    /\ UNCHANGED <<older, callVars, taskVars, writerVars, cleanVars>>
    /\ Terminate(IfDenied(c, c))

\* refresh_process_state: the entry the id has now, gone, exited or alive
RefreshCall(c) ==
    /\ pc[c] = "refresh"
    /\ pc' = [pc EXCEPT ![c] = "done"]
    /\ UNCHANGED <<older, callVars, taskVars, writerVars, cleanVars>>
    /\ LET e == store[id[c]]
       IN  IF e # NoCall /\ HasExited(e)
           THEN /\ RemoveId(id[c])
                /\ Unregister({c})
                /\ Fail(IfDenied(c, e))
                /\ Terminate(IfDenied(c, e))
           ELSE /\ UNCHANGED <<reserved, store, failed, net>>
                /\ Terminate({})

\* What an interrupt leaves running outside the store: the entry the call had
\* taken out to prune, while its exit watcher holds it, and a process not yet
\* stored that the task waiting for a network denial holds.
Abandons(c) ==
    ({pruning[c]} \ {NoCall})
      \cup {d \in {c} : pc[c] \in {"begin", "store"} /\ denial[c] = "waiting"}

\* The turn is interrupted: handle_tool_call aborts the call and its future,
\* with everything it holds, is dropped at the await it has reached.
Interrupt(c) ==
    /\ pc[c] \in InFlight
    /\ inputs < MaxInputs /\ inputs' = inputs + 1
    /\ pc' = [pc EXCEPT ![c] = "aborted"]
    /\ pruning' = [pruning EXCEPT ![c] = NoCall]
    /\ abandoned' = abandoned \cup Abandons(c)
    /\ UNCHANGED <<storeVars, id, startedAlive, failed, net, taskVars,
                   writer, cleanVars>>
    /\ Terminate({})

-----------------------------------------------------------------------------
(* The process and the tasks that watch it.                                *)

\* The child exits, by itself or because it was killed.
Exit(c) ==
    /\ os[c] \in {"running", "killed"}
    /\ os' = [os EXCEPT ![c] = "exited"]
    /\ UNCHANGED <<storeVars, pc, callVars, token, failed, net, taskVars,
                   writerVars, cleanVars>>

\* The output task of a process on an exec-server fails (an error in a response, a
\* failed read, a closed wake channel): the process is given up, wherever it is.
LoseProcess(c) ==
    /\ c \in RemoteCalls /\ os[c] = "running"
    /\ os' = [os EXCEPT ![c] = "lost"]
    /\ token' = [token EXCEPT ![c] = TRUE]
    /\ failed' = [failed EXCEPT ![c] = TRUE]
    /\ UNCHANGED <<storeVars, pc, callVars, net, taskVars, writerVars, cleanVars>>

\* The task that waits for the exit code cancels the token.
ExitSeen(c) ==
    /\ os[c] = "exited" /\ ~token[c]
    /\ token' = [token EXCEPT ![c] = TRUE]
    /\ UNCHANGED <<storeVars, pc, callVars, os, failed, net, taskVars,
                   writerVars, cleanVars>>

\* The network proxy refuses the process a host.
Deny(c) ==
    /\ net[c] = "open"
    /\ net' = [net EXCEPT ![c] = "denied"]
    /\ UNCHANGED <<storeVars, pc, callVars, os, token, failed, taskVars,
                   writerVars, cleanVars>>

\* terminate_process_on_network_denial
DenialTask(c) ==
    /\ denial[c] = "waiting"
    /\ denial' = [denial EXCEPT ![c] = "done"]
    /\ net[c] # "denied" => token[c]
    /\ Fail(IfDenied(c, c))
    /\ UNCHANGED <<storeVars, pc, callVars, net, begun, watcher, ends,
                   writerVars, cleanVars>>
    /\ Terminate(IfDenied(c, c))

\* spawn_exit_watcher: the token, then the end of start_streaming_output, which
\* comes a grace period after the token, then the event
ExitWatcher(c) ==
    /\ watcher[c] = "waiting" /\ token[c]
    /\ watcher' = [watcher EXCEPT ![c] = "done"]
    /\ ends' = [ends EXCEPT ![c] = @ + 1]
    /\ UNCHANGED <<storeVars, pc, callVars, failed, net, denial, begun,
                   writerVars, cleanVars>>
    /\ Terminate({})

-----------------------------------------------------------------------------
(* write_stdin.                                                            *)

\* prepare_process_handles: the entry is used now.  Input for a process
\* without a tty is refused right after it.
WriteStdin(i) ==
    /\ WriterIdle /\ NoExecInFlight
    /\ inputs < MaxInputs
    /\ store[i] # NoCall
    /\ inputs' = inputs + 1
    /\ UseNow(store[i])
    /\ \E next \in {"idle", "write", "poll"} :
         writer' = IF next = "idle" THEN NoWriter
                   ELSE [pc |-> next, call |-> store[i], id |-> i]
    /\ UNCHANGED <<reserved, store, pc, callVars, os, token, failed, net,
                   taskVars, cleanVars>>

WriteAccepted ==
    /\ writer.pc = "write"
    /\ writer' = [writer EXCEPT !.pc = "poll"]
    /\ UNCHANGED <<storeVars, pc, callVars, os, token, failed, net, taskVars,
                   inputs, cleanVars>>

\* The write fails.  An entry that has exited is removed and the output still
\* collected; a broken exec-server connection ends the process; an exec-server that
\* no longer knows the process, or has closed its stdin, makes the state exited.
WriteFails ==
    /\ writer.pc = "write"
    /\ UNCHANGED <<older, pc, callVars, failed, taskVars, inputs, cleanVars>>
    /\ LET e == store[writer.id]
       IN  \/ /\ e # NoCall /\ HasExited(e)
              /\ RemoveId(writer.id)
              /\ writer' = [writer EXCEPT !.pc = "exited"]
              /\ UNCHANGED net
              /\ Terminate({})
           \/ /\ (e # NoCall => ~HasExited(e))
              /\ Release(writer.id)
              /\ writer' = NoWriter
              /\ Terminate({writer.call})
           \/ /\ (e # NoCall => ~HasExited(e))
              /\ writer' = NoWriter
              /\ UNCHANGED <<reserved, store, net>>
              /\ Terminate({})
           \/ /\ writer.call \in RemoteCalls /\ os[writer.call] = "running"
              /\ os' = [os EXCEPT ![writer.call] = "lost"]
              /\ token' = [token EXCEPT ![writer.call] = TRUE]
              /\ IF e = writer.call
                 THEN RemoveId(writer.id) /\ writer' = [writer EXCEPT !.pc = "exited"]
                 ELSE UNCHANGED <<reserved, store>> /\ writer' = NoWriter
              /\ UNCHANGED net

\* The output is collected; denied, failed, or the state is refreshed
PollReturns ==
    /\ writer.pc \in {"poll", "exited"}
    /\ writer' = NoWriter
    /\ UNCHANGED <<older, pc, callVars, taskVars, inputs, cleanVars>>
    /\ LET c     == writer.call
           e     == store[writer.id]
           ended == net[c] = "denied" \/ failed[c]
           gone  == writer.pc = "exited" \/ (e # NoCall /\ HasExited(e))
       IN  /\ Fail(IfDenied(c, c))
           /\ IF ended THEN Release(writer.id)
              ELSE IF ~gone THEN UNCHANGED <<reserved, store, net>>
              ELSE /\ IF writer.pc = "poll" THEN RemoveId(writer.id)
                      ELSE UNCHANGED <<reserved, store>>
                   /\ Unregister({c})
           /\ Terminate(IfDenied(c, c))

\* The turn is interrupted while write_stdin waits.
InterruptWriter ==
    /\ ~WriterIdle
    /\ inputs < MaxInputs /\ inputs' = inputs + 1
    /\ writer' = NoWriter
    /\ UNCHANGED <<storeVars, pc, callVars, failed, net, taskVars, cleanVars>>
    /\ Terminate({})

-----------------------------------------------------------------------------
(* terminate_all_processes.                                                *)

\* Under the lock: every entry is drained and every reservation dropped.
\* cleans.due remembers the processes running then, for the properties, and
\* cleans.quiet whether no exec_command was in progress.
TerminateAll ==
    /\ cleaner.pc = "idle"
    /\ inputs < MaxInputs /\ inputs' = inputs + 1
    /\ cleaner' = [pc |-> "closing", left |-> Stored]
    /\ store' = [i \in Ids |-> NoCall]
    /\ reserved' = {}
    /\ cleans' = [due |-> {c \in Calls : os[c] = "running"},
                  quiet |-> NoExecInFlight]
    /\ UNCHANGED <<older, pc, callVars, os, token, failed, net, taskVars,
                   writer>>

\* One drained entry: unregistered, then terminated
CloseEntry(c) ==
    /\ c \in cleaner.left
    /\ cleaner' = [cleaner EXCEPT !.left = @ \ {c}]
    /\ Unregister({c})
    /\ UNCHANGED <<storeVars, pc, callVars, failed, taskVars, writerVars,
                   cleans>>
    /\ Terminate({c})

TerminateAllDone ==
    /\ cleaner.pc = "closing" /\ cleaner.left = {}
    /\ cleaner' = [cleaner EXCEPT !.pc = "idle"]
    /\ UNCHANGED <<storeVars, pc, callVars, os, token, failed, net, taskVars,
                   writerVars, cleans>>

-----------------------------------------------------------------------------
ExecStep(c) ==
    \/ AllocateProcessId(c) \/ RejectRequest(c) \/ OpenFails(c)
    \/ OpenSession(c) \/ EmitBegin(c) \/ StoreProcess(c) \/ CleanupPruned(c)
    \/ CollectOutput(c) \/ EmitEnd(c) \/ ReleaseCall(c) \/ RefreshCall(c)

ProcessStep(c) ==
    \/ ExitSeen(c) \/ DenialTask(c) \/ ExitWatcher(c)

Next ==
    \/ \E c \in Calls :
         \/ ExecStep(c) \/ Interrupt(c) \/ Exit(c) \/ LoseProcess(c) \/ Deny(c)
         \/ ProcessStep(c) \/ CloseEntry(c)
    \/ \E i \in Ids : WriteStdin(i)
    \/ WriteAccepted \/ WriteFails \/ PollReturns \/ InterruptWriter
    \/ TerminateAll \/ TerminateAllDone

Spec == Init /\ [][Next]_vars

\* A started call, the tasks of a process and terminate-all go on; a killed
\* child dies.  Nobody has to call, to interrupt, or to exit by itself.  Calls
\* are bounded and every step leads on, so one fairness condition serves all.
Proceeds ==
    \/ \E c \in Calls :
         \/ pc[c] # "idle" /\ ExecStep(c)
         \/ ProcessStep(c) \/ (os[c] = "killed" /\ Exit(c))
         \/ CloseEntry(c)
    \/ WriteAccepted \/ WriteFails \/ PollReturns \/ TerminateAllDone

FairSpec == Spec /\ WF_vars(Proceeds)

-----------------------------------------------------------------------------
(* Properties.                                                             *)

\* Every variable holds a value of its kind.
TypeOK ==
    /\ reserved \subseteq Ids
    /\ store \in [Ids -> Calls \cup {NoCall}]
    /\ older \in [Calls -> SUBSET Calls]
    /\ pc \in [Calls -> {"idle", "done", "aborted"} \cup InFlight]
    /\ id \in [Calls -> Ids \cup {NoId}]
    /\ startedAlive \in [Calls -> BOOLEAN]
    /\ pruning \in [Calls -> Calls \cup {NoCall}] /\ abandoned \subseteq Calls
    /\ os \in [Calls -> {"none", "running", "killed", "exited", "lost"}]
    /\ token \in [Calls -> BOOLEAN] /\ failed \in [Calls -> BOOLEAN]
    /\ net \in [Calls -> {"none", "open", "denied", "closed"}]
    /\ denial \in [Calls -> {"off", "waiting", "done"}]
    /\ begun \in [Calls -> BOOLEAN]
    /\ watcher \in [Calls -> {"off", "waiting", "done"}]
    /\ ends \in [Calls -> Nat]
    /\ writer \in [pc : {"idle", "write", "poll", "exited"},
                   call : Calls \cup {NoCall}, id : Ids \cup {NoId}]
    /\ inputs \in 0..MaxInputs
    /\ cleaner \in [pc : {"idle", "closing"}, left : SUBSET Calls]
    /\ cleans \in [due : SUBSET Calls, quiet : BOOLEAN]

\* The store never grows past MAX_UNIFIED_EXEC_PROCESSES, however many
\* exec_command calls store their process side by side.
StoreBounded == Cardinality(Stored) <= MaxProcesses

\* No running process is out of reach: its call is about to store it, it is stored
\* (so write_stdin, pruning and terminate-all find it, also when the call that waits
\* for its output is interrupted), or somebody has taken it out of the store in order
\* to terminate it.  Only an interrupt between a prune and its termination, or before
\* a process with a network approval is stored, leaves one behind.
NoOrphan ==
    \A c \in Calls : os[c] = "running" =>
        \/ pc[c] \in {"begin", "store"}
        \/ c \in Stored
        \/ \E d \in Calls : pruning[d] = c
        \/ c \in cleaner.left
        \/ c \in abandoned

\* A call that waits for its process finds, under its id, its own process or
\* nothing: it never reports or removes the process of another call.
OwnEntry ==
    \A c \in Calls :
        (pc[c] \in {"cleanup", "collect", "refresh"} /\ startedAlive[c])
          => store[id[c]] \in {c, NoCall}

\* At most one ExecCommandEnd per call, from exec_command or from the exit
\* watcher, and none while the process runs and the exec-server answers for it.
SingleEnd ==
    \A c \in Calls : ends[c] <= 1 /\ (ends[c] = 1 => os[c] # "running")

\* An interrupt during the yield wait does not stop the process waited for (the
\* comment at process_manager.rs:413): somebody other than the dropped future holds
\* it by then, also when it was pruned or drained meanwhile.
InterruptSparesWaiting ==
    [][\A c \in Calls :
         /\ pc[c] \in {"collect", "end", "release", "refresh"} /\ os[c] = "running"
         /\ Interrupt(c)
         => os'[c] = "running"]_vars

\* Once a terminate-all that found no exec_command in progress is over, the
\* processes that were running when it started no longer run
\* (Op::CleanBackgroundTerminals, protocol.rs:503), but for those that an
\* interrupt had left behind.
CleanStopsAll ==
    (cleans.quiet /\ cleaner.pc = "idle")
      => \A c \in cleans.due \ abandoned : os[c] # "running"

\* In the end every exec_command has returned or was interrupted, every write_stdin
\* and terminate-all has returned, and a command whose Begin event was sent and whose
\* process is over has its End event, from exec_command itself or from the exit
\* watcher, unless the turn was interrupted before there was a watcher.
CommandsEnd ==
    <>[](/\ NoExecInFlight /\ WriterIdle /\ cleaner.pc = "idle"
         /\ \A c \in Calls :
               begun[c] /\ os[c] \in {"killed", "exited", "lost"}
                 => ends[c] = 1 \/ (pc[c] = "aborted" /\ watcher[c] = "off"))

\* The process store and the events about it are right at every moment: bounded, each
\* call at its own entry, at most one End per command, and nothing left running by a
\* terminate-all.
StoreInv ==
    /\ TypeOK
    /\ StoreBounded
    /\ OwnEntry
    /\ SingleEnd
    /\ CleanStopsAll
=============================================================================
