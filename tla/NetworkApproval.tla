-------------------------- MODULE NetworkApproval --------------------------
(***************************************************************************)
(* The approval of network access (codex-rs/core/src/tools/                *)
(* network_approval.rs).  The sandboxed commands of the running tool calls *)
(* reach the network through a proxy; for a host that is not on the        *)
(* allowlist the proxy asks this service, one task per request.  Requests  *)
(* for one host share one question to the user, and a denial cancels the   *)
(* tool call that made the request, when it can be told which one that is. *)
(* Every acquisition of one of the service's locks is one step.            *)
(***************************************************************************)
EXTENDS Integers, FiniteSets

CONSTANTS
    Requests,   \* requests that the proxy asks about, numbered as they are made
    Calls,      \* tool calls with managed network access, numbered likewise
    Hosts,      \* HostApprovalKey: host, protocol and port
    None,
    MaxTasks    \* bound on the calls and requests made, together

ASSUME NetworkAssumption ==
    /\ Requests \subseteq Nat /\ IsFiniteSet(Requests)
    /\ Calls \subseteq Nat /\ IsFiniteSet(Calls)
    /\ None \notin Requests \cup Calls \cup Hosts /\ None \notin {"user", "policy"}
    /\ MaxTasks \in Nat

VARIABLES
    active_calls,   \* the registered calls
    call_outcomes,  \* per call, None or why it was denied
    cancelled,      \* calls whose cancellation token has fired
    pending,        \* pending_host_approvals: per host, the request that asks
    decision,       \* per request that asks, the decision it has set
    approved,       \* session_approved_hosts
    denied,         \* session_denied_hosts
    request,        \* the tasks
    call            \* the tool calls

vars == <<active_calls, call_outcomes, cancelled, pending, decision, approved,
          denied, request, call>>
callVars == <<active_calls, call_outcomes, cancelled, call>>
hostVars == <<pending, decision, approved, denied>>

\* What may be said about a request: allow it (a hook, the user or the guardian),
\* allow the host for the session or amend the policy to allow it, deny it, amend
\* the policy to deny it (all by the user), or deny it by policy (a hook, the
\* guardian, or the guardian's timeout).
Verdicts == {"allow", "allowHost", "deny", "denyHost", "denyByPolicy"}

Decision(verdict) ==
    CASE verdict = "allow" -> "AllowOnce"
      [] verdict = "allowHost" -> "AllowForSession"
      [] OTHER -> "Deny"

NewRequest == [at |-> "new", host |-> None, caller |-> None, on |-> None,
               owner |-> None, verdict |-> None, woken |-> FALSE]

Init ==
    /\ active_calls = {}
    /\ call_outcomes = [c \in Calls |-> None]
    /\ cancelled = {}
    /\ pending = [h \in Hosts |-> None]
    /\ decision = [r \in Requests |-> None]
    /\ approved = {} /\ denied = {}
    /\ request = [r \in Requests |-> NewRequest]
    /\ call = [c \in Calls |-> "new"]

At(r, at) == request[r].at = at

MayBegin ==
    Cardinality({c \in Calls : call[c] # "new"})
        + Cardinality({r \in Requests : ~At(r, "new")}) < MaxTasks

Host(r) == request[r].host

\* A request that has its answer keeps only what it asked.
Goto(r, at) ==
    request' = [request EXCEPT ![r] =
        [(IF at \in {"allowed", "blocked", "refused", "dropped"}
          THEN [NewRequest EXCEPT !.host = Host(r), !.caller = request[r].caller]
          ELSE request[r]) EXCEPT !.at = at]]

----------------------------------------------------------------------------
(* Tool calls *)

\* begin_network_approval
Begin(c) ==
    /\ call[c] = "new" /\ \A d \in Calls : d < c => call[d] # "new"
    /\ MayBegin
    /\ call' = [call EXCEPT ![c] = "running"]
    /\ active_calls' = active_calls \cup {c}
    /\ UNCHANGED <<call_outcomes, cancelled, hostVars, request>>

remove_call(c) ==
    /\ active_calls' = active_calls \ {c}
    /\ call_outcomes' = [call_outcomes EXCEPT ![c] = None]

\* finish_immediate_network_approval, when the command has ended by itself or
\* because its token was cancelled.
Finish(c) ==
    /\ call[c] = "running"
    /\ call' = [call EXCEPT ![c] = IF call_outcomes[c] = None THEN "ok" ELSE "rejected"]
    /\ remove_call(c)
    /\ UNCHANGED <<cancelled, hostVars, request>>

\* The turn is interrupted: the future of the call is dropped while it waits for
\* the command, and nothing unregisters it.
Abort(c) ==
    /\ call[c] = "running"
    /\ call' = [call EXCEPT ![c] = "aborted"]
    /\ UNCHANGED <<active_calls, call_outcomes, cancelled, hostVars, request>>

SingleActiveCall ==
    IF Cardinality(active_calls) = 1 THEN CHOOSE c \in active_calls : TRUE ELSE None

\* The token is cancelled after the lock is released, which nobody can tell:
\* the call it ends reads the outcome.
record_call_outcome(c, outcome) ==
    IF c \in active_calls /\ call_outcomes[c] # "user"
    THEN /\ call_outcomes' = [call_outcomes EXCEPT ![c] = outcome]
         /\ cancelled' = cancelled \cup {c}
    ELSE UNCHANGED <<call_outcomes, cancelled>>

----------------------------------------------------------------------------
(* handle_inline_policy_request, one task per request *)

\* A command of a running call connects to a host.
Start(r) ==
    /\ At(r, "new") /\ \A q \in Requests : q < r => ~At(q, "new")
    /\ MayBegin
    /\ \E c \in Calls, h \in Hosts :
          /\ call[c] = "running"
          /\ request' = [request EXCEPT ![r] =
                [NewRequest EXCEPT !.at = "denied?", !.host = h, !.caller = c]]
    /\ UNCHANGED <<callVars, hostVars>>

CheckDenied(r) ==
    /\ At(r, "denied?")
    /\ Goto(r, IF Host(r) \in denied THEN "blocked" ELSE "approved?")
    /\ UNCHANGED <<callVars, hostVars>>

CheckApproved(r) ==
    /\ At(r, "approved?")
    /\ Goto(r, IF Host(r) \in approved THEN "allowed" ELSE "join")
    /\ UNCHANGED <<callVars, hostVars>>

\* Mutant: every request asks for itself.
JoinNobody(r) ==
    /\ At(r, "join")
    /\ pending' = [pending EXCEPT ![Host(r)] = r]
    /\ Goto(r, "turn")
    /\ UNCHANGED <<callVars, decision, approved, denied>>

\* get_or_create_pending_approval
Join(r) ==
    /\ At(r, "join")
    /\ IF pending[Host(r)] = None
       THEN pending' = [pending EXCEPT ![Host(r)] = r] /\ Goto(r, "turn")
       ELSE /\ request' = [request EXCEPT ![r].at = "wait", ![r].on = pending[Host(r)]]
            /\ UNCHANGED pending
    /\ UNCHANGED <<callVars, decision, approved, denied>>

\* wait_for_decision creates the notification before it looks at the decision.
Answered(r) == IF decision[request[r].on] = "Deny" THEN "blocked" ELSE "allowed"

Wait(r) ==
    /\ At(r, "wait")
    /\ request' = [request EXCEPT ![r].at = "look", ![r].woken = FALSE]
    /\ UNCHANGED <<callVars, hostVars>>

Look(r) ==
    /\ At(r, "look")
    /\ Goto(r, IF decision[request[r].on] # None THEN Answered(r) ELSE "park")
    /\ UNCHANGED <<callVars, hostVars>>

Park(r) ==
    /\ At(r, "park")
    /\ Goto(r, "parked")
    /\ UNCHANGED <<callVars, hostVars>>

Wake(r) ==
    /\ At(r, "parked") /\ request[r].woken
    /\ Goto(r, "wait")
    /\ UNCHANGED <<callVars, hostVars>>

\* No active turn, no managed permissions or a policy of never asking.
Refuse(r) ==
    /\ At(r, "turn")
    /\ request' = [request EXCEPT ![r].at = "set", ![r].verdict = "refused"]
    /\ UNCHANGED <<callVars, hostVars>>

\* The call that a denial is going to be charged to.
Resolve(r) ==
    /\ At(r, "turn")
    /\ request' = [request EXCEPT ![r].at = "ask", ![r].owner = SingleActiveCall]
    /\ UNCHANGED <<callVars, hostVars>>

Ask(r) ==
    /\ At(r, "ask")
    /\ \E v \in Verdicts : request' = [request EXCEPT ![r].verdict = v,
            ![r].at = CASE Decision(v) = "Deny" -> "record"
                        [] Decision(v) = "AllowForSession" -> "cache"
                        [] OTHER -> "set"]
    /\ UNCHANGED <<callVars, hostVars>>

Record(r) ==
    LET v == request[r].verdict IN
    /\ At(r, "record")
    /\ record_call_outcome(request[r].owner,
            IF v = "denyByPolicy" THEN "policy" ELSE "user")
    /\ Goto(r, IF v = "denyHost" THEN "cache" ELSE "set")
    /\ UNCHANGED <<active_calls, call, hostVars>>

\* The host leaves one of the session's sets before it enters the other.
Cache(r) ==
    /\ At(r, "cache")
    /\ IF Decision(request[r].verdict) = "Deny"
       THEN approved' = approved \ {Host(r)} /\ UNCHANGED denied
       ELSE denied' = denied \ {Host(r)} /\ UNCHANGED approved
    /\ Goto(r, "insert")
    /\ UNCHANGED <<callVars, pending, decision>>

Insert(r) ==
    /\ At(r, "insert")
    /\ IF Decision(request[r].verdict) = "Deny"
       THEN denied' = denied \cup {Host(r)} /\ UNCHANGED approved
       ELSE approved' = approved \cup {Host(r)} /\ UNCHANGED denied
    /\ Goto(r, "set")
    /\ UNCHANGED <<callVars, pending, decision>>

\* set_decision: the decision, then notify_waiters.
SetDecision(r) ==
    /\ At(r, "set")
    /\ decision' = [decision EXCEPT ![r] = Decision(request[r].verdict)]
    /\ Goto(r, "notify")
    /\ UNCHANGED <<callVars, pending, approved, denied>>

\* Mutant: a request that is between its look and its wait misses the call.
NotifyParked(r) ==
    /\ At(r, "notify")
    /\ request' = [q \in Requests |->
            IF q = r THEN [request[q] EXCEPT !.at = "remove"]
            ELSE IF request[q].on = r /\ request[q].at = "parked"
                 THEN [request[q] EXCEPT !.woken = TRUE]
            ELSE request[q]]
    /\ UNCHANGED <<callVars, hostVars>>

Notify(r) ==
    /\ At(r, "notify")
    /\ request' = [q \in Requests |->
            IF q = r THEN [request[q] EXCEPT !.at = "remove"]
            ELSE IF request[q].on = r /\ request[q].at \in {"look", "park", "parked"}
                 THEN [request[q] EXCEPT !.woken = TRUE]
            ELSE request[q]]
    /\ UNCHANGED <<callVars, hostVars>>

\* A refused request is charged to a call only now.
Remove(r) ==
    /\ At(r, "remove")
    /\ pending' = [pending EXCEPT ![Host(r)] = None]
    /\ Goto(r, IF request[r].verdict = "refused" THEN "charge"
               ELSE IF decision[r] = "Deny" THEN "blocked" ELSE "allowed")
    /\ UNCHANGED <<callVars, decision, approved, denied>>

\* record_outcome_for_single_active_call: the call is found under one lock, its
\* outcome stored under another.
Charge(r) ==
    /\ At(r, "charge") \/ At(r, "blocked")
    /\ request' = [request EXCEPT ![r].owner = SingleActiveCall,
            ![r].at = IF At(r, "charge") THEN "charged" ELSE "reported"]
    /\ UNCHANGED <<callVars, hostVars>>

\* record_blocked_request follows every denial, before the proxy answers.
Charged(r) ==
    /\ At(r, "charged") \/ At(r, "reported")
    /\ record_call_outcome(request[r].owner, "policy")
    /\ Goto(r, IF At(r, "charged") THEN "blocked" ELSE "refused")
    /\ UNCHANGED <<active_calls, call, hostVars>>

\* The client went away, and the proxy drops the task.
Drop(r) ==
    /\ request[r].at \notin {"new", "allowed", "refused", "dropped"}
    /\ Goto(r, "dropped")
    /\ UNCHANGED <<callVars, hostVars>>

Step(r) ==
    \/ CheckDenied(r) \/ CheckApproved(r) \/ Join(r)
    \/ Wait(r) \/ Look(r) \/ Park(r) \/ Wake(r)
    \/ Refuse(r) \/ Resolve(r) \/ Ask(r) \/ Record(r) \/ Cache(r) \/ Insert(r)
    \/ SetDecision(r) \/ Notify(r) \/ Remove(r) \/ Charge(r) \/ Charged(r)

Next ==
    \/ \E c \in Calls : Begin(c) \/ Finish(c) \/ Abort(c)
    \/ \E r \in Requests : Start(r) \/ Step(r) \/ Drop(r)

Spec == Init /\ [][Next]_vars

\* The tasks run, and whoever is asked answers in the end.
LiveSpec == Spec /\ \A r \in Requests : WF_vars(Step(r))

----------------------------------------------------------------------------
(* Properties *)

\* Every variable has its type.
TypeOK ==
    /\ active_calls \in SUBSET Calls /\ cancelled \in SUBSET Calls
    /\ call_outcomes \in [Calls -> {None, "user", "policy"}]
    /\ pending \in [Hosts -> Requests \cup {None}]
    /\ decision \in [Requests -> {None, "AllowOnce", "AllowForSession", "Deny"}]
    /\ approved \in SUBSET Hosts /\ denied \in SUBSET Hosts
    /\ request \in [Requests ->
          [at : {"new", "denied?", "approved?", "join", "wait", "look", "park", "parked", "turn",
                 "ask", "record", "cache", "insert", "set", "notify", "remove", "charge",
                 "charged", "blocked", "reported", "allowed", "refused", "dropped"},
           host : Hosts \cup {None}, caller : Calls \cup {None},
           on : Requests \cup {None}, owner : Calls \cup {None},
           verdict : Verdicts \cup {None, "refused"}, woken : BOOLEAN]]
    /\ call \in [Calls -> {"new", "running", "ok", "rejected", "aborted"}]

\* The session's two sets never disagree about a host, although a host leaves
\* one and enters the other in separate steps: the pending approval keeps a
\* second decision for the host away.
CachesAgree == approved \cap denied = {}

\* The user is never asked twice at the same time about one host.
Asking == {"turn", "ask", "record", "cache", "insert", "set", "notify", "remove"}
OneQuestionPerHost ==
    \A q, r \in Requests :
        request[q].at \in Asking /\ request[r].at \in Asking /\ Host(q) = Host(r) => q = r

\* A call that was cancelled because of a denial reports the denial, also when
\* it ends by itself at the same time.
CancelledIsRejected == \A c \in cancelled : call[c] # "ok"

\* The service forgets a call when it ends: an outcome that arrives late, for a
\* call that has been finished, is not kept.
OutcomesAreActive == \A c \in Calls : call_outcomes[c] # None => c \in active_calls

\* Every request is answered: one that waits for another request's question
\* learns its decision, however the notification falls.  Only one thing keeps a
\* request waiting: the task that was to answer for its host was dropped.
Abandoned(h) == pending[h] # None /\ At(pending[h], "dropped")

RequestsAnswered ==
    <>[](\A r \in Requests :
            request[r].at \in {"new", "allowed", "refused", "dropped"} \/ Abandoned(Host(r)))

\* What the approval service keeps under separate locks agrees: one question per host,
\* caches that do not contradict each other, and denials that reach their call or
\* nobody.
ApprovalInv ==
    /\ TypeOK
    /\ OneQuestionPerHost
    /\ CachesAgree
    /\ CancelledIsRejected
    /\ OutcomesAreActive
=============================================================================
