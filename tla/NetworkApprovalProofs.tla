----------------------- MODULE NetworkApprovalProofs -----------------------
(***************************************************************************)
(* ApprovalInv for any number of requests, tool calls and hosts.           *)
(***************************************************************************)
EXTENDS NetworkApproval, FiniteSetTheorems, TLAPS

States == {"new", "denied?", "approved?", "join", "wait", "look", "park", "parked", "turn",
           "ask", "record", "cache", "insert", "set", "notify", "remove", "charge",
           "charged", "blocked", "reported", "allowed", "refused", "dropped"}

Tasks == [at : States, host : Hosts \cup {None}, caller : Calls \cup {None},
          on : Requests \cup {None}, owner : Calls \cup {None},
          verdict : Verdicts \cup {None, "refused"}, woken : BOOLEAN]

----------------------------------------------------------------------------
(* The inductive invariant. *)

\* A call is registered from its start to its end, and a call whose future was
\* dropped stays registered.
Registered ==
    \A c \in Calls :
        /\ call[c] = "running" => c \in active_calls
        /\ c \in active_calls => call[c] \in {"running", "aborted"}

\* A cancelled call that still runs has the outcome it is going to report.
CancelledHasOutcome ==
    \A c \in cancelled :
        /\ call[c] \notin {"new", "ok"}
        /\ call[c] = "running" => call_outcomes[c] # None

\* The request that asks about a host is the one that is pending there.
AskerIsPending ==
    \A r \in Requests : request[r].at \in Asking => Host(r) \in Hosts /\ pending[Host(r)] = r

\* A request that was made has a host.
HostKnown == \A r \in Requests : request[r].at # "new" => Host(r) \in Hosts

\* Between the two steps that move a host from one set to the other, the host
\* is in neither.
HostMoves ==
    \A r \in Requests : request[r].at = "insert" =>
        IF Decision(request[r].verdict) = "Deny" THEN Host(r) \notin approved
        ELSE Host(r) \notin denied

CallInv == Registered /\ CancelledHasOutcome /\ OutcomesAreActive
HostInv == AskerIsPending /\ HostKnown /\ HostMoves /\ CachesAgree

\* The inductive invariant.
Inv == TypeOK /\ CallInv /\ HostInv

----------------------------------------------------------------------------
(* What the steps do to the task that takes them. *)

\* The types of the requests' tasks.
LEMMA TaskTypes ==
    ASSUME TypeOK
    PROVE  request \in [Requests -> Tasks]
BY DEF TypeOK, Tasks, States

\* The other tasks are not touched, and the task keeps its host.
Moves(r, at) ==
    /\ request' \in [Requests -> Tasks]
    /\ \A q \in Requests \ {r} : request'[q] = request[q]
    /\ request'[r].at = at
    /\ request'[r].host = request[r].host

\* Goto moves one task.
LEMMA GotoMoves ==
    ASSUME TypeOK, NEW r \in Requests, NEW at \in States, Goto(r, at)
    PROVE  /\ Moves(r, at)
           /\ at \notin {"allowed", "blocked", "refused", "dropped"} =>
                request'[r].verdict = request[r].verdict
<1>1. request[r] \in Tasks
  BY TaskTypes
<1>2. NewRequest \in Tasks
  BY DEF NewRequest, Tasks, States
<1>. DEFINE kept == [NewRequest EXCEPT !.host = Host(r), !.caller = request[r].caller]
            from == IF at \in {"allowed", "blocked", "refused", "dropped"} THEN kept ELSE request[r]
<1>3. kept \in Tasks /\ kept.host = request[r].host
  BY <1>1, <1>2 DEF Tasks, Host
<1>4. from \in Tasks /\ from.host = request[r].host
  BY <1>1, <1>3
<1>5. /\ [from EXCEPT !.at = at] \in Tasks
      /\ [from EXCEPT !.at = at].host = request[r].host
      /\ [from EXCEPT !.at = at].at = at
      /\ [from EXCEPT !.at = at].verdict = from.verdict
  <2>. HIDE DEF from
  <2>. QED BY <1>4 DEF Tasks
<1>6. request' = [request EXCEPT ![r] = [from EXCEPT !.at = at]]
  BY DEF Goto
<1>7. QED BY <1>5, <1>6, TaskTypes DEF Moves

\* The assignments of fields that the other steps make.
LEMMA EditMoves ==
    ASSUME TypeOK, NEW r \in Requests, NEW at \in States,
           \/ \E o \in Requests \cup {None} :
                request' = [request EXCEPT ![r].at = at, ![r].on = o]
           \/ \E w \in BOOLEAN : request' = [request EXCEPT ![r].at = at, ![r].woken = w]
           \/ \E v \in Verdicts \cup {"refused"} :
                \/ request' = [request EXCEPT ![r].at = at, ![r].verdict = v]
                \/ request' = [request EXCEPT ![r].verdict = v, ![r].at = at]
           \/ \E c \in Calls \cup {None} :
                \/ request' = [request EXCEPT ![r].at = at, ![r].owner = c]
                \/ request' = [request EXCEPT ![r].owner = c, ![r].at = at]
    PROVE  Moves(r, at)
<1>1. request \in [Requests -> Tasks] /\ request[r] \in Tasks
  BY TaskTypes
<1>. DEFINE Edited == \E t \in Tasks : /\ request' = [request EXCEPT ![r] = t]
                                     /\ t.at = at /\ t.host = request[r].host
<1>2. Edited
  <2>1. CASE \E o \in Requests \cup {None} :
                request' = [request EXCEPT ![r].at = at, ![r].on = o]
    <3>1. PICK o \in Requests \cup {None} :
                request' = [request EXCEPT ![r].at = at, ![r].on = o]
      BY <2>1
    <3>2. request' = [request EXCEPT ![r] = [request[r] EXCEPT !.at = at, !.on = o]]
      BY <1>1, <3>1
    <3>3. /\ [request[r] EXCEPT !.at = at, !.on = o] \in Tasks
          /\ [request[r] EXCEPT !.at = at, !.on = o].at = at /\ [request[r] EXCEPT !.at = at, !.on = o].host = request[r].host
      BY <1>1 DEF Tasks
    <3>4. QED BY <3>2, <3>3
  <2>2. CASE \E w \in BOOLEAN : request' = [request EXCEPT ![r].at = at, ![r].woken = w]
    <3>1. PICK w \in BOOLEAN : request' = [request EXCEPT ![r].at = at, ![r].woken = w]
      BY <2>2
    <3>2. request' = [request EXCEPT ![r] = [request[r] EXCEPT !.at = at, !.woken = w]]
      BY <1>1, <3>1
    <3>3. /\ [request[r] EXCEPT !.at = at, !.woken = w] \in Tasks
          /\ [request[r] EXCEPT !.at = at, !.woken = w].at = at /\ [request[r] EXCEPT !.at = at, !.woken = w].host = request[r].host
      BY <1>1 DEF Tasks
    <3>4. QED BY <3>2, <3>3
  <2>3. ASSUME NEW v \in Verdicts \cup {"refused"},
               \/ request' = [request EXCEPT ![r].at = at, ![r].verdict = v]
               \/ request' = [request EXCEPT ![r].verdict = v, ![r].at = at]
        PROVE  Edited
    <3>2. request' = [request EXCEPT ![r] = [request[r] EXCEPT !.at = at, !.verdict = v]]
      BY <1>1, <2>3
    <3>3. /\ [request[r] EXCEPT !.at = at, !.verdict = v] \in Tasks
          /\ [request[r] EXCEPT !.at = at, !.verdict = v].at = at /\ [request[r] EXCEPT !.at = at, !.verdict = v].host = request[r].host
      BY <1>1 DEF Tasks
    <3>4. QED BY <3>2, <3>3
  <2>4. ASSUME NEW c \in Calls \cup {None},
               \/ request' = [request EXCEPT ![r].at = at, ![r].owner = c]
               \/ request' = [request EXCEPT ![r].owner = c, ![r].at = at]
        PROVE  Edited
    <3>2. request' = [request EXCEPT ![r] = [request[r] EXCEPT !.at = at, !.owner = c]]
      BY <1>1, <2>4
    <3>3. /\ [request[r] EXCEPT !.at = at, !.owner = c] \in Tasks
          /\ [request[r] EXCEPT !.at = at, !.owner = c].at = at /\ [request[r] EXCEPT !.at = at, !.owner = c].host = request[r].host
      BY <1>1 DEF Tasks
    <3>4. QED BY <3>2, <3>3
  <2>5. QED BY <2>1, <2>2, <2>3, <2>4
<1>3. QED BY <1>1, <1>2 DEF Moves

\* single_active_call finds a registered call or nobody.
LEMMA SingleActive ==
    ASSUME TypeOK
    PROVE  SingleActiveCall \in Calls \cup {None}
<1>1. CASE Cardinality(active_calls) = 1
  <2>1. active_calls # {}
    BY <1>1, FS_EmptySet
  <2>2. QED BY <1>1, <2>1 DEF SingleActiveCall, TypeOK
<1>2. QED BY <1>1 DEF SingleActiveCall

----------------------------------------------------------------------------
(* Preservation, for the calls and for the hosts. *)

\* A step that touches no call keeps the calls' part.
LEMMA CallsUnchanged ==
    ASSUME CallInv, UNCHANGED callVars
    PROVE  CallInv'
BY DEF CallInv, callVars, Registered, CancelledHasOutcome, OutcomesAreActive

\* record_call_outcome cancels registered calls only, and leaves the reason.
LEMMA OutcomeRecorded ==
    ASSUME TypeOK, CallInv, NEW c, NEW outcome \in {"user", "policy"},
           record_call_outcome(c, outcome), UNCHANGED <<active_calls, call>>
    PROVE  /\ CallInv'
           /\ call_outcomes' \in [Calls -> {None, "user", "policy"}]
           /\ cancelled' \in SUBSET Calls
<1>1. CASE c \in active_calls /\ call_outcomes[c] # "user"
  <2>1. /\ c \in Calls /\ cancelled' = cancelled \cup {c} /\ outcome # None
        /\ call_outcomes' = [call_outcomes EXCEPT ![c] = outcome]
    BY <1>1, NetworkAssumption DEF record_call_outcome, TypeOK
  <2>2. /\ call_outcomes' \in [Calls -> {None, "user", "policy"}]
        /\ cancelled' \in SUBSET Calls
    BY <2>1 DEF TypeOK
  <2>3. Registered' /\ OutcomesAreActive'
    BY <1>1, <2>1 DEF CallInv, Registered, OutcomesAreActive, TypeOK
  <2>4. CancelledHasOutcome'
    BY <1>1, <2>1 DEF CallInv, Registered, CancelledHasOutcome, TypeOK
  <2>5. QED BY <2>2, <2>3, <2>4 DEF CallInv
<1>2. CASE ~(c \in active_calls /\ call_outcomes[c] # "user")
  BY <1>2 DEF record_call_outcome, CallInv, Registered, CancelledHasOutcome,
              OutcomesAreActive, TypeOK
<1>3. QED BY <1>1, <1>2

\* A step that neither opens a question nor touches the hosts' tables.
LEMMA HostsKept ==
    ASSUME TypeOK, HostInv, NEW r \in Requests, NEW at \in States \ {"new", "insert"},
           Moves(r, at), request[r].at # "new",
           at \in Asking => request[r].at \in Asking,
           UNCHANGED <<pending, approved, denied>>
    PROVE  HostInv'
<1>1. \A q \in Requests : q # r => request'[q] = request[q]
  BY DEF Moves
<1>2. AskerIsPending'
  BY <1>1 DEF Moves, HostInv, AskerIsPending, Host
<1>3. HostKnown'
  BY <1>1 DEF Moves, HostInv, HostKnown, Host
<1>4. HostMoves'
  BY <1>1 DEF Moves, HostInv, HostMoves, Host
<1>5. QED BY <1>2, <1>3, <1>4 DEF HostInv, CachesAgree

\* The types, when a step moves one task.
LEMMA TypesKept ==
    ASSUME TypeOK, request' \in [Requests -> Tasks], UNCHANGED <<callVars, hostVars>>
    PROVE  TypeOK'
BY DEF TypeOK, Tasks, States, callVars, hostVars

\* Starting, finishing or dropping a tool call.
LEMMA CallSteps ==
    ASSUME Inv, NEW c \in Calls, Begin(c) \/ Finish(c) \/ Abort(c)
    PROVE  Inv'
<1>1. HostInv'
  BY DEF Inv, HostInv, Begin, Finish, Abort, hostVars, AskerIsPending, HostKnown, HostMoves,
         CachesAgree, Host
<1>2. CASE Begin(c)
  BY <1>1, <1>2 DEF Begin, Inv, TypeOK, CallInv, Registered, CancelledHasOutcome,
                    OutcomesAreActive, hostVars
<1>3. CASE Finish(c)
  BY <1>1, <1>3 DEF Finish, remove_call, Inv, TypeOK, CallInv, Registered, CancelledHasOutcome,
                    OutcomesAreActive, hostVars
<1>4. CASE Abort(c)
  BY <1>1, <1>4 DEF Abort, Inv, TypeOK, CallInv, Registered, CancelledHasOutcome,
                    OutcomesAreActive, hostVars
<1>5. QED BY <1>2, <1>3, <1>4

\* The steps of a request that leave the calls and the hosts' tables alone.
LEMMA QuietSteps ==
    ASSUME Inv, NEW r \in Requests, NEW at \in States \ {"new", "insert"}, Moves(r, at),
           request[r].at # "new", at \in Asking => request[r].at \in Asking,
           UNCHANGED <<callVars, hostVars>>
    PROVE  Inv'
<1>1. TypeOK'
  BY TypesKept DEF Moves, Inv
<1>2. CallInv'
  BY CallsUnchanged DEF Inv
<1>3. HostInv'
  BY HostsKept DEF Inv, hostVars
<1>4. QED BY <1>1, <1>2, <1>3 DEF Inv

\* A new request.
LEMMA StartStep ==
    ASSUME Inv, NEW r \in Requests, Start(r)
    PROVE  Inv'
<1>1. PICK c \in Calls, h \in Hosts : request' = [request EXCEPT ![r] =
                [NewRequest EXCEPT !.at = "denied?", !.host = h, !.caller = c]]
  BY DEF Start
<1>. DEFINE t == [NewRequest EXCEPT !.at = "denied?", !.host = h, !.caller = c]
<1>2. t \in Tasks /\ t.at = "denied?" /\ t.host = h
  BY DEF NewRequest, Tasks, States
<1>. HIDE DEF t
<1>3. request' = [request EXCEPT ![r] = t] /\ request \in [Requests -> Tasks]
  BY <1>1, TaskTypes DEF t, Inv
<1>4. TypeOK' /\ CallInv'
  BY <1>2, <1>3, TypesKept, CallsUnchanged DEF Inv, Start
<1>5. HostInv'
  BY <1>2, <1>3 DEF Inv, HostInv, Start, hostVars, AskerIsPending, HostKnown, HostMoves,
                    CachesAgree, Host, Asking
<1>6. QED BY <1>4, <1>5 DEF Inv

\* Opening the question of a host.
LEMMA JoinStep ==
    ASSUME Inv, NEW r \in Requests, Join(r)
    PROVE  Inv'
<1>1. Host(r) \in Hosts
  BY DEF Inv, HostInv, HostKnown, Join, At
<1>2. CASE pending[Host(r)] = None
  <2>1. pending' = [pending EXCEPT ![Host(r)] = r] /\ Moves(r, "turn")
    BY <1>2, GotoMoves DEF Join, Inv, States
  <2>2. TypeOK'
    BY <1>1, <2>1 DEF Inv, TypeOK, Join, Moves, callVars, Tasks, States
  <2>3. CallInv'
    BY CallsUnchanged DEF Inv, Join
  <2>4. AskerIsPending'
    BY <1>1, <1>2, <2>1, NetworkAssumption
       DEF Inv, HostInv, AskerIsPending, Moves, Host, TypeOK
  <2>5. HostKnown' /\ HostMoves' /\ CachesAgree'
    BY <1>1, <2>1 DEF Inv, HostInv, HostKnown, HostMoves, CachesAgree, Moves, Host, Join
  <2>6. QED BY <2>2, <2>3, <2>4, <2>5 DEF Inv, HostInv
<1>3. CASE pending[Host(r)] # None
  <2>1. pending[Host(r)] \in Requests \cup {None}
    BY <1>1 DEF Inv, TypeOK
  <2>2. \E o \in Requests \cup {None} :
            request' = [request EXCEPT ![r].at = "wait", ![r].on = o]
    BY <1>3, <2>1 DEF Join
  <2>3. Moves(r, "wait")
    BY <2>2, EditMoves DEF Inv, States
  <2>4. QED
    BY <1>3, <2>3, QuietSteps DEF Join, Inv, At, States, Asking, hostVars
<1>4. QED BY <1>2, <1>3

\* The two steps that move a host from one of the session's sets to the other.
LEMMA CacheSteps ==
    ASSUME Inv, NEW r \in Requests, Cache(r) \/ Insert(r)
    PROVE  Inv'
<1>1. /\ Host(r) \in Hosts /\ pending[Host(r)] = r
      /\ \A q \in Requests \ {r} : request[q].at \in Asking => Host(q) # Host(r)
  BY DEF Inv, HostInv, AskerIsPending, Cache, Insert, At, Asking
<1>2. CASE Cache(r)
  <2>1. Moves(r, "insert") /\ request'[r].verdict = request[r].verdict
    BY <1>2, GotoMoves DEF Cache, Inv, States
  <2>2. TypeOK'
    BY <1>2, <2>1 DEF Inv, TypeOK, Cache, Moves, callVars, Tasks, States
  <2>3. CallInv'
    BY <1>2, CallsUnchanged DEF Inv, Cache
  <2>4. AskerIsPending' /\ HostKnown' /\ CachesAgree'
    BY <1>1, <1>2, <2>1 DEF Inv, HostInv, AskerIsPending, HostKnown, CachesAgree, Moves, Host,
                            Cache, At, Asking
  <2>5. HostMoves'
    BY <1>1, <1>2, <2>1 DEF Inv, HostInv, HostMoves, Moves, Host, Cache, Asking
  <2>6. QED BY <2>2, <2>3, <2>4, <2>5 DEF Inv, HostInv
<1>3. CASE Insert(r)
  <2>1. Moves(r, "set") /\ request'[r].verdict = request[r].verdict
    BY <1>3, GotoMoves DEF Insert, Inv, States
  <2>2. TypeOK'
    BY <1>1, <1>3, <2>1 DEF Inv, TypeOK, Insert, Moves, callVars, Tasks, States
  <2>3. CallInv'
    BY <1>3, CallsUnchanged DEF Inv, Insert
  <2>4. AskerIsPending' /\ HostKnown'
    BY <1>1, <1>3, <2>1 DEF Inv, HostInv, AskerIsPending, HostKnown, Moves, Host,
                            Insert, At, Asking
  <2>5. HostMoves'
    BY <1>1, <1>3, <2>1 DEF Inv, HostInv, HostMoves, Moves, Host, Insert, Asking
  <2>6. CachesAgree'
    BY <1>3 DEF Inv, HostInv, HostMoves, CachesAgree, Insert, At
  <2>7. QED BY <2>2, <2>3, <2>4, <2>5, <2>6 DEF Inv, HostInv
<1>4. QED BY <1>2, <1>3

\* Closing the question of a host.
LEMMA RemoveStep ==
    ASSUME Inv, NEW r \in Requests, Remove(r)
    PROVE  Inv'
<1>1. /\ Host(r) \in Hosts
      /\ \A q \in Requests \ {r} : request[q].at \in Asking => Host(q) # Host(r)
  BY DEF Inv, HostInv, AskerIsPending, Remove, At, Asking
<1>2. PICK at \in {"charge", "blocked", "allowed"} : Moves(r, at)
  BY GotoMoves DEF Remove, Inv, States
<1>3. TypeOK'
  BY <1>1, <1>2 DEF Inv, TypeOK, Remove, Moves, callVars, Tasks, States
<1>4. CallInv'
  BY CallsUnchanged DEF Inv, Remove
<1>5. AskerIsPending' /\ HostKnown' /\ HostMoves' /\ CachesAgree'
  BY <1>1, <1>2 DEF Inv, HostInv, AskerIsPending, HostKnown, HostMoves, CachesAgree, Moves,
                    Host, Remove, At, Asking, TypeOK
<1>6. QED BY <1>3, <1>4, <1>5 DEF Inv, HostInv

\* notify_waiters touches no more than the flag of the requests it wakes.
LEMMA NotifyStep ==
    ASSUME Inv, NEW r \in Requests, Notify(r)
    PROVE  Inv'
<1>1. request \in [Requests -> Tasks]
  BY TaskTypes DEF Inv
<1>2. \A q \in Requests :
        /\ [request[q] EXCEPT !.at = "remove"] \in Tasks
        /\ [request[q] EXCEPT !.at = "remove"].at = "remove"
        /\ [request[q] EXCEPT !.at = "remove"].host = request[q].host
        /\ [request[q] EXCEPT !.woken = TRUE] \in Tasks
        /\ [request[q] EXCEPT !.woken = TRUE].at = request[q].at
        /\ [request[q] EXCEPT !.woken = TRUE].host = request[q].host
        /\ [request[q] EXCEPT !.woken = TRUE].verdict = request[q].verdict
  BY <1>1, ZenonT(60) DEF Tasks, States
<1>3. /\ request' \in [Requests -> Tasks]
      /\ request'[r].at = "remove" /\ request'[r].host = request[r].host
      /\ \A q \in Requests \ {r} : /\ request'[q].at = request[q].at
                                   /\ request'[q].host = request[q].host
                                   /\ request'[q].verdict = request[q].verdict
  BY <1>1, <1>2 DEF Notify
<1>4. TypeOK' /\ CallInv'
  BY <1>3, TypesKept, CallsUnchanged DEF Inv, Notify
<1>5. AskerIsPending' /\ HostKnown' /\ HostMoves' /\ CachesAgree'
  BY <1>3 DEF Inv, HostInv, AskerIsPending, HostKnown, HostMoves, CachesAgree, Host, Notify,
              At, Asking, hostVars
<1>6. QED BY <1>4, <1>5 DEF Inv, HostInv

\* A denial that is charged to a call.
LEMMA ChargeSteps ==
    ASSUME Inv, NEW r \in Requests, Record(r) \/ Charged(r)
    PROVE  Inv'
<1>1. PICK at \in {"cache", "set", "blocked", "refused"} :
        Moves(r, at) /\ (at \in Asking => request[r].at \in Asking) /\ request[r].at # "new"
  <2>1. CASE Record(r)
    BY <2>1, GotoMoves DEF Record, Inv, States, Asking, At
  <2>2. CASE Charged(r)
    BY <2>2, GotoMoves DEF Charged, Inv, States, Asking, At
  <2>3. QED BY <2>1, <2>2
<1>2. PICK outcome \in {"user", "policy"} : record_call_outcome(request[r].owner, outcome)
  BY DEF Record, Charged
<1>3. UNCHANGED <<active_calls, call, hostVars>>
  BY DEF Record, Charged
<1>4. /\ CallInv'
      /\ call_outcomes' \in [Calls -> {None, "user", "policy"}]
      /\ cancelled' \in SUBSET Calls
  BY <1>2, <1>3, OutcomeRecorded DEF Inv
<1>5. TypeOK'
  BY <1>1, <1>3, <1>4 DEF Inv, TypeOK, Moves, Tasks, States, hostVars
<1>6. HostInv'
  BY <1>1, <1>3, HostsKept DEF Inv, hostVars, States
<1>7. QED BY <1>4, <1>5, <1>6 DEF Inv

\* set_decision
LEMMA DecisionStep ==
    ASSUME Inv, NEW r \in Requests, SetDecision(r)
    PROVE  Inv'
<1>1. Moves(r, "notify")
  BY GotoMoves DEF SetDecision, Inv, States
<1>2. Decision(request[r].verdict) \in {"AllowOnce", "AllowForSession", "Deny"}
  BY DEF Decision
<1>3. TypeOK'
  BY <1>1, <1>2 DEF SetDecision, Inv, TypeOK, Moves, Tasks, States, callVars
<1>4. CallInv'
  BY CallsUnchanged DEF SetDecision, Inv
<1>5. HostInv'
  BY <1>1, HostsKept DEF SetDecision, Inv, At, States, Asking
<1>6. QED BY <1>3, <1>4, <1>5 DEF Inv

\* Every action preserves the inductive invariant.
LEMMA InvStep ==
    ASSUME Inv, [Next]_vars
    PROVE  Inv'
<1>1. ASSUME NEW c \in Calls, Begin(c) \/ Finish(c) \/ Abort(c) PROVE Inv'
  BY <1>1, CallSteps
<1>2. ASSUME NEW r \in Requests, Start(r) \/ Step(r) \/ Drop(r) PROVE Inv'
  <2>. TypeOK
    BY DEF Inv
  <2>1. CASE Start(r)
    BY <2>1, StartStep
  <2>2. CASE CheckDenied(r)
    <3>1. \E at \in {"blocked", "approved?"} : Moves(r, at)
      BY <2>2, GotoMoves DEF CheckDenied, States
    <3>2. QED BY <2>2, <3>1, QuietSteps DEF CheckDenied, At, States, Asking
  <2>3. CASE CheckApproved(r)
    <3>1. \E at \in {"allowed", "join"} : Moves(r, at)
      BY <2>3, GotoMoves DEF CheckApproved, States
    <3>2. QED BY <2>3, <3>1, QuietSteps DEF CheckApproved, At, States, Asking
  <2>4. CASE Join(r)
    BY <2>4, JoinStep
  <2>5. CASE Wait(r)
    <3>1. Moves(r, "look")
      BY <2>5, EditMoves DEF Wait, States
    <3>2. QED BY <2>5, <3>1, QuietSteps DEF Wait, At, States, Asking
  <2>6. CASE Look(r)
    <3>1. \E at \in {"blocked", "allowed", "park"} : Moves(r, at)
      BY <2>6, GotoMoves DEF Look, Answered, States
    <3>2. QED BY <2>6, <3>1, QuietSteps DEF Look, At, States, Asking
  <2>7. CASE Park(r)
    <3>1. Moves(r, "parked")
      BY <2>7, GotoMoves DEF Park, States
    <3>2. QED BY <2>7, <3>1, QuietSteps DEF Park, At, States, Asking
  <2>8. CASE Wake(r)
    <3>1. Moves(r, "wait")
      BY <2>8, GotoMoves DEF Wake, States
    <3>2. QED BY <2>8, <3>1, QuietSteps DEF Wake, At, States, Asking
  <2>9. CASE Refuse(r)
    <3>1. \E v \in Verdicts \cup {"refused"} :
            request' = [request EXCEPT ![r].at = "set", ![r].verdict = v]
      BY <2>9 DEF Refuse
    <3>2. Moves(r, "set")
      BY <3>1, EditMoves DEF States
    <3>3. QED BY <2>9, <3>2, QuietSteps DEF Refuse, At, States, Asking
  <2>10. CASE Resolve(r)
    <3>1. \E c \in Calls \cup {None} :
            request' = [request EXCEPT ![r].at = "ask", ![r].owner = c]
      BY <2>10, SingleActive DEF Resolve
    <3>2. Moves(r, "ask")
      BY <3>1, EditMoves DEF States
    <3>3. QED BY <2>10, <3>2, QuietSteps DEF Resolve, At, States, Asking
  <2>11. CASE Ask(r)
    <3>1. PICK v \in Verdicts, at \in {"record", "cache", "set"} :
            request' = [request EXCEPT ![r].verdict = v, ![r].at = at]
      <4>1. PICK v \in Verdicts : request' = [request EXCEPT ![r].verdict = v,
            ![r].at = CASE Decision(v) = "Deny" -> "record"
                        [] Decision(v) = "AllowForSession" -> "cache"
                        [] OTHER -> "set"]
        BY <2>11 DEF Ask
      <4>2. (CASE Decision(v) = "Deny" -> "record"
               [] Decision(v) = "AllowForSession" -> "cache"
               [] OTHER -> "set") \in {"record", "cache", "set"}
        BY DEF Decision
      <4>3. QED BY <4>1, <4>2
    <3>2. \E u \in Verdicts \cup {"refused"} :
            request' = [request EXCEPT ![r].verdict = u, ![r].at = at]
      BY <3>1
    <3>3. Moves(r, at)
      BY <3>2, EditMoves DEF States
    <3>4. QED BY <2>11, <3>3, QuietSteps DEF Ask, At, States, Asking
  <2>12. CASE Record(r) \/ Charged(r)
    BY <2>12, ChargeSteps
  <2>13. CASE Cache(r) \/ Insert(r)
    BY <2>13, CacheSteps
  <2>14. CASE SetDecision(r)
    BY <2>14, DecisionStep
  <2>15. CASE Notify(r)
    BY <2>15, NotifyStep
  <2>16. CASE Remove(r)
    BY <2>16, RemoveStep
  <2>17. CASE Charge(r)
    <3>1. PICK at \in {"charged", "reported"} : \E c \in Calls \cup {None} :
            request' = [request EXCEPT ![r].owner = c, ![r].at = at]
      BY <2>17, SingleActive DEF Charge
    <3>2. Moves(r, at)
      BY <3>1, EditMoves DEF States
    <3>3. QED BY <2>17, <3>2, QuietSteps DEF Charge, At, States, Asking
  <2>18. CASE Drop(r)
    <3>1. Moves(r, "dropped")
      BY <2>18, GotoMoves DEF Drop, States
    <3>2. QED BY <2>18, <3>1, QuietSteps DEF Drop, States, Asking
  <2>19. QED
    BY <1>2, <2>1, <2>2, <2>3, <2>4, <2>5, <2>6, <2>7, <2>8, <2>9, <2>10, <2>11, <2>12,
       <2>13, <2>14, <2>15, <2>16, <2>17, <2>18 DEF Step
<1>3. CASE UNCHANGED vars
  <2>1. TypeOK' /\ CallInv'
    BY <1>3, TaskTypes, TypesKept, CallsUnchanged DEF vars, callVars, hostVars, Inv
  <2>2. HostInv'
    BY <1>3 DEF vars, Inv, HostInv, AskerIsPending, HostKnown, HostMoves, CachesAgree, Host
  <2>3. QED BY <2>1, <2>2 DEF Inv
<1>4. QED BY <1>1, <1>2, <1>3 DEF Next

\* The initial states.
LEMMA InvInit ==
    ASSUME Init
    PROVE  Inv
<1>1. NewRequest \in Tasks /\ NewRequest.at = "new"
  BY DEF NewRequest, Tasks, States
<1>2. TypeOK
  BY <1>1 DEF Init, TypeOK, Tasks, States
<1>3. CallInv
  BY DEF Init, CallInv, Registered, CancelledHasOutcome, OutcomesAreActive
<1>4. HostInv
  BY <1>1 DEF Init, HostInv, AskerIsPending, HostKnown, HostMoves, CachesAgree, Asking, Host
<1>5. QED BY <1>2, <1>3, <1>4 DEF Inv

\* What the run checks follows from the inductive invariant.
LEMMA InvSuffices ==
    ASSUME Inv
    PROVE  ApprovalInv
<1>1. OneQuestionPerHost
  BY DEF Inv, HostInv, AskerIsPending, OneQuestionPerHost
<1>2. CancelledIsRejected
  BY DEF Inv, CallInv, CancelledHasOutcome, CancelledIsRejected
<1>3. QED BY <1>1, <1>2 DEF Inv, HostInv, CallInv, ApprovalInv

----------------------------------------------------------------------------
\* What the approval service keeps under separate locks always agrees: a host
\* has one question at a time (get_or_create_pending_approval), the session's
\* sets of approved and denied hosts are disjoint, a cancelled call does not
\* report success, and only registered calls have outcomes.
THEOREM ApprovalsAgree == Spec => []ApprovalInv
<1>1. Init => Inv
  BY InvInit
<1>2. Inv /\ [Next]_vars => Inv'
  BY InvStep
<1>3. Inv => ApprovalInv
  BY InvSuffices
<1>4. QED BY <1>1, <1>2, <1>3, PTL DEF Spec
=============================================================================
