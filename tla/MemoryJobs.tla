---------------------------- MODULE MemoryJobs ----------------------------
(***************************************************************************)
(* The memory pipeline: stage 1 extracts a memory from each thread, phase  *)
(* 2 consolidates the selected memories in a shared workspace              *)
(* (codex-rs/state/src/runtime/memories.rs, codex-rs/memories/write/src).  *)
(* Every running program takes part; they meet in the job table of the     *)
(* memories database.  One transaction of the database is one step.        *)
(*                                                                         *)
(* Clock readings are abstracted to what comparisons with `now` tell: a    *)
(* lease is running or has lapsed, a retry waits or is due, a success is   *)
(* recent (cooling down) or not.                                           *)
(***************************************************************************)
EXTENDS Integers, FiniteSets

CONSTANTS
    Threads,        \* threads that may be remembered
    Workers,        \* stage-1 extraction tasks, of any program
    Consolidators,  \* phase-2 runs, of any program
    Global,         \* the key of the phase-2 job
    Tokens,         \* ownership tokens
    NoToken, NoRow,
    MaxSource,      \* bound on thread updates
    MaxRunning,     \* max_rollouts_per_startup
    MaxSelected,    \* max_raw_memories_for_consolidation
    Retries,        \* DEFAULT_RETRY_REMAINING
    MaxActive,      \* bound on the tasks at work at one time
    MaxFaults,      \* bound on crashes, failures and leases lost by live holders
    MaxResets,      \* bound on memory resets
    QuietResets     \* whether a reset waits until no consolidation is at work

Jobs == Threads \cup {Global}
Actors == Workers \cup Consolidators
Sources == 0 .. MaxSource

ASSUME MemoryAssumption ==
    /\ IsFiniteSet(Threads) /\ IsFiniteSet(Workers) /\ IsFiniteSet(Consolidators)
    /\ Global \notin Threads
    /\ Workers \cap Consolidators = {}
    /\ NoToken \notin Tokens
    /\ NoToken \notin Actors /\ NoRow \notin Actors /\ NoRow # NoToken
    /\ MaxSource \in Nat \ {0} /\ MaxRunning \in Nat /\ MaxSelected \in Nat
    /\ Retries \in Nat \ {0} /\ MaxActive \in Nat
    /\ MaxFaults \in Nat /\ MaxResets \in Nat /\ QuietResets \in BOOLEAN

\* Every holder and every row can have a token of its own, and one is left.
ASSUME TokenAssumption ==
    IsFiniteSet(Tokens) => Cardinality(Tokens) > Cardinality(Jobs) + Cardinality(Actors)

Rows == [status : {"pending", "running", "done", "error"},
         token : Tokens \cup {NoToken},           \* ownership_token; read, and so
                                                   \* kept, only while running
         lapsed : BOOLEAN,                         \* lease_until <= now
         retry : {"none", "waiting", "due"},       \* retry_at
         left : 0 .. Retries,                      \* retry_remaining, stage 1
         input : Sources,                          \* input_watermark, stage 1
         success : Sources,                        \* last_success_watermark, stage 1
         finished : {"none", "recent", "old"},     \* finished_at, phase 2
         failed : BOOLEAN]                         \* last_error is set, phase 2

ASSUME NoRowAssumption == NoRow \notin Rows

VARIABLES
    mode,       \* threads.memory_mode, or "deleted"
    updated,    \* threads.updated_at
    job,        \* the jobs table
    output,     \* stage1_outputs: the source stamp (0 without a row) and the
                \* stamp under which phase 2 selected it (0 if it did not)
    actor,      \* the workers and consolidators
    workspace,  \* the memories that phase 2 has written to the workspace
    baseline,   \* the workspace as of the last reset of its baseline
    faults, resets

vars == <<mode, updated, job, output, actor, workspace, baseline, faults, resets>>
threadVars == <<mode, updated>>
fileVars == <<workspace, baseline>>
bounds == <<faults, resets>>

Idle == [at |-> "idle", job |-> Global, token |-> NoToken, source |-> 0, chosen |-> {}]

NewRow == [status |-> "pending", token |-> NoToken, lapsed |-> FALSE, retry |-> "none",
           left |-> Retries, input |-> 0, success |-> 0, finished |-> "none",
           failed |-> FALSE]

NoOutput == [source |-> 0, selected |-> 0]

Init ==
    /\ mode = [t \in Threads |-> "enabled"]
    /\ updated = [t \in Threads |-> 1]
    /\ job = [j \in Jobs |-> NoRow]
    /\ output = [t \in Threads |-> NoOutput]
    /\ actor = [a \in Actors |-> Idle]
    /\ workspace = {} /\ baseline = {}
    /\ faults = 0 /\ resets = 0

----------------------------------------------------------------------------
Exists(j) == job[j] # NoRow

\* status = 'running' with a lease that has not run out.
Leased(j) == Exists(j) /\ job[j].status = "running" /\ ~job[j].lapsed

\* The condition of every UPDATE a worker makes for its job.
Owns(a) ==
    LET row == job[actor[a].job] IN
    row # NoRow /\ row.status = "running" /\ row.token = actor[a].token

\* Uuid::new_v4(): a token that nobody has.  Tokens are only compared, so any
\* one of them will do.
UsedTokens ==
    {job[j].token : j \in {i \in Jobs : Exists(i)}} \cup {actor[a].token : a \in Actors}

FreshToken == CHOOSE k \in Tokens : k \notin UsedTokens

At(a, at) == actor[a].at = at

Begins(a) == At(a, "idle") /\ Cardinality({b \in Actors : ~At(b, "idle")}) < MaxActive

Goto(a, at) == actor' = [actor EXCEPT ![a].at = at]
Stop(a) == actor' = [actor EXCEPT ![a] = Idle]

\* enqueue_global_consolidation_with_executor, over the table `rows`.
Enqueue(rows) ==
    [rows EXCEPT ![Global] =
        IF @ = NoRow THEN NewRow
        ELSE IF @.status = "running" THEN @
        ELSE [@ EXCEPT !.status = "pending", !.retry = "none"]]

EnqueueIf(condition, rows) == IF condition THEN Enqueue(rows) ELSE rows

----------------------------------------------------------------------------
(* Stage 1 *)

\* claim_stage1_jobs_for_startup reads the candidates before it claims them.  Its
\* query keeps the threads that are idle for long enough, not too old and not
\* the program's own, and of these the scan_limit newest; its loop stops once
\* max_claimed of them are claimed.  Whether that leaves t depends on the clock
\* and on all the other threads of the database, so it is left open: a startup
\* may get to any enabled thread, and none has to be got to.
Scan(w, t) ==
    /\ Begins(w)
    /\ mode[t] = "enabled"
    /\ actor' = [actor EXCEPT ![w] =
            [Idle EXCEPT !.at = "claim", !.job = t, !.source = updated[t]]]
    /\ UNCHANGED <<threadVars, job, output, fileVars, bounds>>

\* Mutant: a running row may be taken whatever its lease says.
ClaimableRunning(t, source) ==
    /\ output[t].source < source
    /\ Exists(t) => job[t].success < source
    /\ Cardinality({u \in Threads \ {t} : Leased(u)}) < MaxRunning

\* Mutant: a claim trusts the scan and does not compare watermarks again.
ClaimableStale(t, source) ==
    /\ Exists(t) => ~Leased(t) /\ job[t].left > 0
    /\ Cardinality({u \in Threads : Leased(u)}) < MaxRunning

\* Mutant: a running row is never taken over.
ClaimableNotRunning(t, source) ==
    /\ output[t].source < source
    /\ Exists(t) => LET row == job[t] IN
          /\ row.success < source
          /\ row.status # "running"
          /\ row.retry = "waiting" => source > row.input
          /\ row.left > 0 \/ source > row.input
    /\ Cardinality({u \in Threads : Leased(u)}) < MaxRunning

\* try_claim_stage1_job takes the row.
Claimable(t, source) ==
    /\ output[t].source < source
    /\ Exists(t) => LET row == job[t] IN
          /\ row.success < source
          /\ ~Leased(t)
          /\ row.retry = "waiting" => source > row.input
          /\ row.left > 0 \/ source > row.input
    /\ Cardinality({u \in Threads : Leased(u)}) < MaxRunning

ClaimedRow(t, source, k) ==
    LET old == IF Exists(t) THEN job[t] ELSE NewRow IN
    [old EXCEPT !.status = "running", !.token = k, !.lapsed = FALSE, !.retry = "none",
                !.left = IF source > old.input THEN Retries ELSE @,
                !.input = source]

Claim(w) ==
    LET t == actor[w].job IN
    /\ At(w, "claim")
    /\ Claimable(t, actor[w].source)
    /\ job' = [job EXCEPT ![t] = ClaimedRow(t, actor[w].source, FreshToken)]
    /\ actor' = [actor EXCEPT ![w].at = "extract", ![w].token = FreshToken]
    /\ UNCHANGED <<threadVars, output, fileVars, bounds>>

ClaimSkipped(w) ==
    /\ At(w, "claim")
    /\ ~Claimable(actor[w].job, actor[w].source)
    /\ Stop(w)
    /\ UNCHANGED <<threadVars, job, output, fileVars, bounds>>

DoneRow(row) ==
    [row EXCEPT !.status = "done", !.token = NoToken, !.lapsed = FALSE, !.success = row.input]

\* Mutant: the token is not compared.
SucceedAnyToken(w) ==
    LET t == actor[w].job IN
    /\ At(w, "extract")
    /\ IF Exists(t) /\ job[t].status = "running"
       THEN /\ job' = Enqueue([job EXCEPT ![t] = DoneRow(@)])
            /\ output' = [output EXCEPT ![t].source = actor[w].source]
       ELSE UNCHANGED <<job, output>>
    /\ Stop(w)
    /\ UNCHANGED <<threadVars, fileVars, bounds>>

\* mark_stage1_job_succeeded
Succeed(w) ==
    LET t == actor[w].job IN
    /\ At(w, "extract")
    /\ IF Owns(w)
       THEN /\ job' = Enqueue([job EXCEPT ![t] = DoneRow(@)])
            /\ output' = [output EXCEPT ![t].source =
                    IF actor[w].source >= @ THEN actor[w].source ELSE @]
       ELSE UNCHANGED <<job, output>>
    /\ Stop(w)
    /\ UNCHANGED <<threadVars, fileVars, bounds>>

\* mark_stage1_job_succeeded_no_output
SucceedNoOutput(w) ==
    LET t == actor[w].job IN
    /\ At(w, "extract")
    /\ IF Owns(w)
       THEN /\ job' = EnqueueIf(output[t] # NoOutput, [job EXCEPT ![t] = DoneRow(@)])
            /\ output' = [output EXCEPT ![t] = NoOutput]
       ELSE UNCHANGED <<job, output>>
    /\ Stop(w)
    /\ UNCHANGED <<threadVars, fileVars, bounds>>

FailedRow(row) ==
    [row EXCEPT !.status = "error", !.token = NoToken, !.lapsed = FALSE, !.retry = "waiting",
                !.left = row.left - 1]

\* mark_stage1_job_failed.  A running row has a retry left, so the count stays
\* above zero.
Fail(w) ==
    /\ At(w, "extract") /\ faults < MaxFaults
    /\ job' = IF Owns(w) THEN [job EXCEPT ![actor[w].job] = FailedRow(@)] ELSE job
    /\ Stop(w)
    /\ faults' = faults + 1
    /\ UNCHANGED <<threadVars, output, fileVars, resets>>

----------------------------------------------------------------------------
(* Phase 2 *)

\* try_claim_global_phase2_job
GlobalClaimable ==
    Exists(Global) => LET row == job[Global] IN
        /\ row.retry # "waiting"
        /\ ~Leased(Global)
        /\ row.failed \/ row.finished # "recent"

ClaimGlobal(c) ==
    /\ Begins(c)
    /\ GlobalClaimable
    /\ job' = [job EXCEPT ![Global] = [(IF @ = NoRow THEN NewRow ELSE @) EXCEPT
            !.status = "running", !.token = FreshToken, !.lapsed = FALSE,
            !.retry = "none", !.finished = "none", !.failed = FALSE]]
    /\ actor' = [actor EXCEPT ![c] = [Idle EXCEPT !.at = "load", !.token = FreshToken]]
    /\ UNCHANGED <<threadVars, output, fileVars, bounds>>

\* Mutant: the mode of the thread is not looked at.
RememberedAny == {t \in Threads : output[t].source # 0}

Remembered == {t \in Threads : output[t].source # 0 /\ mode[t] = "enabled"}

\* get_phase2_input_selection: at most MaxSelected outputs of threads that are
\* still enabled; which ones are recent enough and best used is left open.
Load(c) ==
    /\ At(c, "load")
    /\ \E best \in SUBSET Remembered :
          /\ Cardinality(best) <= MaxSelected
          /\ actor' = [actor EXCEPT ![c].at = "sync",
                    ![c].chosen = {<<t, output[t].source>> : t \in best}]
    /\ UNCHANGED <<threadVars, job, output, fileVars, bounds>>

\* sync_phase2_workspace_inputs, then the diff against the baseline.
Sync(c) ==
    /\ At(c, "sync")
    /\ workspace' = actor[c].chosen
    /\ Goto(c, "diff")
    /\ UNCHANGED <<threadVars, job, output, baseline, bounds>>

Diff(c) ==
    /\ At(c, "diff")
    /\ Goto(c, IF workspace = baseline THEN "succeed" ELSE "agent")
    /\ UNCHANGED <<threadVars, job, output, fileVars, bounds>>

\* job::failed: mark_global_phase2_job_failed.  Its fallback for rows without a
\* token finds nothing: every running row has one.
GlobalFailed(c) ==
    /\ job' = IF Owns(c)
              THEN [job EXCEPT ![Global] = [@ EXCEPT !.status = "error",
                        !.token = NoToken, !.lapsed = FALSE, !.retry = "waiting",
                        !.finished = "recent", !.failed = TRUE]]
              ELSE job
    /\ Stop(c)
    /\ UNCHANGED <<threadVars, output, fileVars>>

\* heartbeat_global_phase2_job
Renew(c) == job' = [job EXCEPT ![Global].lapsed = FALSE]

\* loop_agent: a heartbeat that finds the row lost makes the run fail.
Heartbeat(c) ==
    /\ At(c, "agent")
    /\ IF Owns(c)
       THEN Renew(c) /\ UNCHANGED <<threadVars, output, actor, fileVars>>
       ELSE GlobalFailed(c)
    /\ UNCHANGED bounds

AgentCompleted(c) ==
    /\ At(c, "agent")
    /\ Goto(c, "confirm")
    /\ UNCHANGED <<threadVars, job, output, fileVars, bounds>>

\* One more heartbeat decides whether the run may reset the baseline.
Confirm(c) ==
    /\ At(c, "confirm")
    /\ IF Owns(c)
       THEN Renew(c) /\ Goto(c, "reset")
       ELSE Stop(c) /\ UNCHANGED job
    /\ UNCHANGED <<threadVars, output, fileVars, bounds>>

\* reset_memory_workspace_baseline
Reset(c) ==
    /\ At(c, "reset")
    /\ baseline' = workspace
    /\ Goto(c, "succeed")
    /\ UNCHANGED <<threadVars, job, output, workspace, bounds>>

\* mark_global_phase2_job_succeeded
GlobalSucceeded(c) ==
    /\ At(c, "succeed")
    /\ IF Owns(c)
       THEN /\ job' = [job EXCEPT ![Global] = [@ EXCEPT !.status = "done",
                    !.token = NoToken, !.lapsed = FALSE, !.finished = "recent", !.failed = FALSE]]
            /\ output' = [t \in Threads |-> [output[t] EXCEPT !.selected =
                    IF output[t].source # 0 /\ <<t, output[t].source>> \in actor[c].chosen
                    THEN output[t].source ELSE 0]]
       ELSE UNCHANGED <<job, output>>
    /\ Stop(c)
    /\ UNCHANGED <<threadVars, fileVars, bounds>>

\* Any of the steps of a run may fail.
GlobalFails(c) ==
    /\ actor[c].at \in {"load", "sync", "diff", "agent", "confirm", "reset"}
    /\ faults < MaxFaults
    /\ GlobalFailed(c)
    /\ faults' = faults + 1 /\ UNCHANGED resets

----------------------------------------------------------------------------
(* Time, crashes and the user *)

\* The program goes away, or its last database call fails.
Crash(a) ==
    /\ ~At(a, "idle") /\ faults < MaxFaults
    /\ Stop(a)
    /\ faults' = faults + 1
    /\ UNCHANGED <<threadVars, job, output, fileVars, resets>>

\* An hour without a heartbeat: the holder is gone, or asleep.  Assumption: the
\* lease that Confirm renews outlives the reset that follows.
Held(j) == \E a \in Actors : actor[a].job = j /\ Owns(a)

LeaseLapses(j) ==
    /\ Leased(j)
    /\ \A c \in Consolidators : j = Global /\ Owns(c) => ~At(c, "reset")
    /\ faults' = IF Held(j) THEN faults + 1 ELSE faults
    /\ faults' <= MaxFaults
    /\ job' = [job EXCEPT ![j].lapsed = TRUE]
    /\ UNCHANGED <<threadVars, output, actor, fileVars, resets>>

RetryDue(j) ==
    /\ Exists(j) /\ job[j].retry = "waiting"
    /\ job' = [job EXCEPT ![j].retry = "due"]
    /\ UNCHANGED <<threadVars, output, actor, fileVars, bounds>>

CooldownEnds ==
    /\ Exists(Global) /\ job[Global].finished = "recent"
    /\ job' = [job EXCEPT ![Global].finished = "old"]
    /\ UNCHANGED <<threadVars, output, actor, fileVars, bounds>>

UpdateThread(t) ==
    /\ mode[t] # "deleted" /\ updated[t] < MaxSource
    /\ updated' = [updated EXCEPT ![t] = @ + 1]
    /\ UNCHANGED <<mode, job, output, actor, fileVars, bounds>>

\* mark_thread_memory_mode_polluted
Pollute(t) ==
    /\ mode[t] # "deleted"
    /\ mode' = [mode EXCEPT ![t] = "polluted"]
    /\ job' = EnqueueIf(output[t].selected # 0, job)
    /\ UNCHANGED <<updated, output, actor, fileVars, bounds>>

\* delete_thread: the row of the thread, then delete_thread_memory.
DeleteThread(t) ==
    /\ mode[t] # "deleted"
    /\ mode' = [mode EXCEPT ![t] = "deleted"]
    /\ job' = EnqueueIf(output[t].selected # 0, [job EXCEPT ![t] = NoRow])
    /\ output' = [output EXCEPT ![t] = NoOutput]
    /\ UNCHANGED <<updated, actor, fileVars, bounds>>

\* prune_stage1_outputs_for_retention
Prune(t) ==
    /\ output[t].source # 0 /\ output[t].selected = 0
    /\ output' = [output EXCEPT ![t] = NoOutput]
    /\ UNCHANGED <<threadVars, job, actor, fileVars, bounds>>

\* memory_reset: clear_memory_data, then clear_memory_roots_contents, which
\* removes the repository with the baseline as well.
Clear ==
    /\ resets < MaxResets
    /\ QuietResets => \A c \in Consolidators : At(c, "idle")
    /\ resets' = resets + 1
    /\ job' = [j \in Jobs |-> NoRow]
    /\ output' = [t \in Threads |-> NoOutput]
    /\ workspace' = {} /\ baseline' = {}
    /\ UNCHANGED <<threadVars, actor, faults>>

WorkerStep(w) ==
    Claim(w) \/ ClaimSkipped(w) \/ Succeed(w) \/ SucceedNoOutput(w) \/ Fail(w)

RunStep(c) ==
    \/ Load(c) \/ Sync(c) \/ Diff(c) \/ AgentCompleted(c) \/ Confirm(c)
    \/ Reset(c) \/ GlobalSucceeded(c) \/ GlobalFails(c)

User ==
    \/ \E t \in Threads : UpdateThread(t) \/ Pollute(t) \/ DeleteThread(t) \/ Prune(t)
    \/ Clear

Next ==
    \/ \E w \in Workers : WorkerStep(w) \/ \E t \in Threads : Scan(w, t)
    \/ \E c \in Consolidators : ClaimGlobal(c) \/ RunStep(c) \/ Heartbeat(c)
    \/ \E a \in Actors : Crash(a)
    \/ \E j \in Jobs : LeaseLapses(j) \/ RetryDue(j)
    \/ CooldownEnds
    \/ User

Spec == Init /\ [][Next]_vars

\* The tasks that were started run, phase 2 keeps being started, and time passes.
\* A live holder need not lose its lease, nothing has to fail, and no startup
\* has to get to a thread.
LiveSpec ==
    /\ Spec
    /\ \A w \in Workers :
          WF_vars(Claim(w) \/ ClaimSkipped(w) \/ Succeed(w) \/ SucceedNoOutput(w))
    /\ \A c \in Consolidators : WF_vars(RunStep(c))
    /\ SF_vars(\E c \in Consolidators : ClaimGlobal(c))
    /\ \A j \in Jobs : WF_vars(LeaseLapses(j) /\ ~Held(j)) /\ WF_vars(RetryDue(j))
    /\ WF_vars(CooldownEnds)

----------------------------------------------------------------------------
(* Properties *)

Memories == Threads \X Sources

\* Every variable has its type.
TypeOK ==
    /\ mode \in [Threads -> {"enabled", "polluted", "deleted"}]
    /\ updated \in [Threads -> Sources]
    /\ job \in [Jobs -> Rows \cup {NoRow}]
    /\ output \in [Threads -> [source : Sources, selected : Sources]]
    /\ actor \in [Actors -> [at : {"idle", "claim", "extract", "load", "sync", "diff",
                                   "agent", "confirm", "reset", "succeed"},
                            job : Jobs, token : Tokens \cup {NoToken},
                            source : Sources, chosen : SUBSET Memories]]
    /\ workspace \in SUBSET Memories /\ baseline \in SUBSET Memories
    /\ faults \in 0 .. MaxFaults /\ resets \in 0 .. MaxResets

\* A stored memory was extracted from the very version of the thread that the
\* job table records as done: a worker whose job was taken over in the
\* meantime (try_claim_stage1_job) can neither store its older memory nor make
\* the newer version count as extracted.
OutputIsLastSuccess ==
    \A t \in Threads : output[t].source # 0 =>
        Exists(t) /\ job[t].success = output[t].source

\* No thread goes back to an older memory: while its row exists, what was last
\* extracted only gets newer, also when claims made from scans of different
\* ages succeed in any order.
WatermarkAdvances ==
    [][\A t \in Threads : Exists(t) /\ Exists(t)' => job[t].success <= job'[t].success]_vars

\* The job table is a lease: what the jobs make changes only in the hands of
\* their holder, and a holder is superseded only once its lease has lapsed.
Running(j) == Exists(j) /\ job[j].status = "running"

Free == NoRow
Lost == NoToken

HolderOf(j) ==
    IF ~Running(j) THEN Free
    ELSE IF Held(j) THEN CHOOSE a \in Actors : actor[a].job = j /\ Owns(a)
    ELSE Lost

L == INSTANCE Lease WITH
    Products <- SUBSET Memories,
    NoProduct <- {},
    holder <- [j \in Jobs |-> HolderOf(j)],
    lapsed <- {j \in Jobs : Running(j) /\ job[j].lapsed},
    product <- [j \in Jobs |-> IF j = Global THEN baseline
                               ELSE {<<j, s>> : s \in {output[j].source} \ {0}}]

JobsAreLeases == L!Spec

\* A thread that the startup claim gets to again and again (it is idle long
\* enough, not too old, and within scan_limit and max_claimed) has its last
\* version extracted sooner or later, or its retries are used up, or it stops
\* being remembered, although workers crash with the job in their hands and
\* claims made from older scans come in between.
Settled(t) ==
    \/ mode[t] # "enabled"
    \/ Exists(t) /\ (job[t].success >= updated[t] \/ (job[t].left = 0 /\ job[t].input = updated[t]))

ReachedThreadsSettle ==
    \A t \in Threads : []<><<\E w \in Workers : Scan(w, t)>>_vars => []<>Settled(t)

\* A thread that is polluted or deleted is forgotten for good: its memories
\* leave the consolidated baseline and do not come back.
Forgotten(t) == \A s \in Sources : <<t, s>> \notin workspace \cup baseline

UnwantedIsForgotten == <>[](\A t \in Threads : mode[t] # "enabled" => Forgotten(t))

\* The job table and the extracted memories agree, whatever the order in which
\* workers that took a job over from each other come back.
JobsInv ==
    /\ TypeOK
    /\ OutputIsLastSuccess
=============================================================================
