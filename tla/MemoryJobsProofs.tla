------------------------- MODULE MemoryJobsProofs -------------------------
(***************************************************************************)
(* JobsInv, WatermarkAdvances and the refinement of Lease, for any number  *)
(* of threads, workers and consolidators, and any bounds.                  *)
(***************************************************************************)
EXTENDS MemoryJobs, FiniteSetTheorems, TLAPS

Steps == {"idle", "claim", "extract", "load", "sync", "diff", "agent", "confirm", "reset",
          "succeed"}

ActorRecs == [at : Steps, job : Jobs, token : Tokens \cup {NoToken},
              source : Sources, chosen : SUBSET Memories]

Outputs == [source : Sources, selected : Sources]

\* The token under which the row of a job is running.
TokenOf(j) == IF Exists(j) THEN job[j].token ELSE NoToken

----------------------------------------------------------------------------
(* The inductive invariant. *)

\* A row has a token exactly while it is running.
RunningHasToken ==
    \A j \in Jobs : Exists(j) => (job[j].status = "running" <=> job[j].token # NoToken)

\* The row of a thread that is running is about a newer version than the last
\* one extracted, and has a retry left.
RunningIsNewer ==
    \A t \in Threads : Exists(t) /\ job[t].status = "running" =>
        job[t].success < job[t].input /\ job[t].left > 0

\* Workers do the jobs of threads, consolidators the global one.
Roles ==
    /\ \A w \in Workers :
          /\ actor[w].at \in {"idle", "claim", "extract"}
          /\ actor[w].at # "idle" => actor[w].job \in Threads
          /\ actor[w].at # "extract" => actor[w].token = NoToken
    /\ \A c \in Consolidators :
          /\ actor[c].at \notin {"claim", "extract"}
          /\ actor[c].job = Global
          /\ actor[c].at = "idle" => actor[c].token = NoToken

\* No two actors have the same token, and the token of an actor is found in no
\* row but that of its job.
TokensDistinct ==
    \A a \in Actors : actor[a].token # NoToken =>
        /\ \A b \in Actors : actor[b].token = actor[a].token => b = a
        /\ \A j \in Jobs : TokenOf(j) = actor[a].token => actor[a].job = j

\* A worker that owns its job extracts the version that the row says.
OwnerExtractsInput ==
    \A w \in Workers : actor[w].at = "extract" /\ Owns(w) =>
        job[actor[w].job].input = actor[w].source

\* The baseline is reset under a lease that has not lapsed.
ResetIsLeased ==
    \A c \in Consolidators : actor[c].at = "reset" => Owns(c) /\ ~job[Global].lapsed

\* Rows and tokens.
TableInv == RunningHasToken /\ RunningIsNewer /\ Roles /\ TokensDistinct

\* All but the types.
SafeInv ==
    /\ TableInv
    /\ OwnerExtractsInput
    /\ OutputIsLastSuccess
    /\ QuietResets => ResetIsLeased

\* The inductive invariant.
Inv == TypeOK /\ SafeInv

----------------------------------------------------------------------------
(* Tokens. *)

\* The sets the state's functions range over.
LEMMA Types ==
    ASSUME TypeOK
    PROVE  /\ actor \in [Actors -> ActorRecs]
           /\ job \in [Jobs -> Rows \cup {NoRow}]
           /\ output \in [Threads -> Outputs]
           /\ \A j \in Jobs : Exists(j) => job[j] \in Rows
           /\ \A a \in Actors : actor[a].job \in Jobs
           /\ \A j \in Jobs : TokenOf(j) \in Tokens \cup {NoToken}
<1>1. /\ actor \in [Actors -> ActorRecs]
      /\ job \in [Jobs -> Rows \cup {NoRow}]
      /\ output \in [Threads -> Outputs]
  BY DEF TypeOK, ActorRecs, Steps, Outputs
<1>2. \A a \in Actors : actor[a].job \in Jobs
  BY <1>1 DEF ActorRecs
<1>3. \A j \in Jobs : Exists(j) => job[j] \in Rows /\ job[j].token \in Tokens \cup {NoToken}
  BY <1>1 DEF Exists, Rows
<1>4. QED BY <1>1, <1>2, <1>3 DEF TokenOf

\* There are never as many tokens in use as there are tokens.
LEMMA FreshTokenExists ==
    ASSUME TypeOK
    PROVE  FreshToken \in Tokens /\ FreshToken \notin UsedTokens
<1>. DEFINE rows == {job[j].token : j \in {i \in Jobs : Exists(i)}}
            held == {actor[a].token : a \in Actors}
            from == {i \in Jobs : Exists(i)}
<1>1. IsFiniteSet(Jobs) /\ IsFiniteSet(Actors)
  BY MemoryAssumption, FS_Union, FS_AddElement DEF Jobs, Actors
<1>2. IsFiniteSet(from) /\ Cardinality(from) <= Cardinality(Jobs) /\ Cardinality(from) \in Nat
  BY <1>1, FS_Subset, FS_CardinalityType
<1>. HIDE DEF from
<1>3. IsFiniteSet(rows) /\ Cardinality(rows) <= Cardinality(from) /\ Cardinality(rows) \in Nat
  <2>. DEFINE f == [j \in from |-> job[j].token]
  <2>1. f \in Surjection(from, rows)
    BY DEF Surjection, from
  <2>2. QED BY <1>2, <2>1, FS_Surjection, FS_CardinalityType
<1>4. IsFiniteSet(held) /\ Cardinality(held) <= Cardinality(Actors) /\ Cardinality(held) \in Nat
  <2>. DEFINE f == [a \in Actors |-> actor[a].token]
  <2>1. f \in Surjection(Actors, held)
    BY DEF Surjection
  <2>2. QED BY <1>1, <2>1, FS_Surjection, FS_CardinalityType
<1>5. UsedTokens = rows \cup held
  BY DEF UsedTokens
<1>. HIDE DEF rows, held
<1>6. /\ IsFiniteSet(UsedTokens)
      /\ Cardinality(UsedTokens) <= Cardinality(Jobs) + Cardinality(Actors)
  <2>1. /\ IsFiniteSet(rows \cup held) /\ IsFiniteSet(rows \cap held)
        /\ Cardinality(rows \cup held)
            = Cardinality(rows) + Cardinality(held) - Cardinality(rows \cap held)
        /\ Cardinality(rows \cap held) \in Nat
    BY <1>3, <1>4, FS_Union, FS_Intersection, FS_CardinalityType
  <2>2. Cardinality(Jobs) \in Nat /\ Cardinality(Actors) \in Nat
    BY <1>1, FS_CardinalityType
  <2>3. QED BY <1>2, <1>3, <1>4, <1>5, <2>1, <2>2
<1>7. \E k \in Tokens : k \notin UsedTokens
  <2>1. SUFFICES ASSUME Tokens \subseteq UsedTokens PROVE FALSE
    OBVIOUS
  <2>2. IsFiniteSet(Tokens) /\ Cardinality(Tokens) <= Cardinality(UsedTokens)
    BY <1>6, <2>1, FS_Subset
  <2>3. /\ Cardinality(Tokens) \in Nat /\ Cardinality(UsedTokens) \in Nat
        /\ Cardinality(Jobs) \in Nat /\ Cardinality(Actors) \in Nat
    BY <1>1, <1>6, <2>2, FS_CardinalityType
  <2>4. QED BY <1>6, <2>2, <2>3, TokenAssumption
<1>8. QED BY <1>7 DEF FreshToken

----------------------------------------------------------------------------
(* What an action may do to the rows, to the actors and to the outputs. *)

\* The row of j keeps its holder and its watermarks, or is a new row without a
\* holder.  Its lease and its retry may change.
QuietRow(j) ==
    /\ Exists(j) =>
          /\ Exists(j)'
          /\ job'[j].status = "running" <=> job[j].status = "running"
          /\ job'[j].token = job[j].token /\ job'[j].left = job[j].left
          /\ job'[j].input = job[j].input /\ job'[j].success = job[j].success
    /\ ~Exists(j) => job'[j] \in {NoRow, NewRow}

\* The actor gives its token up, or keeps it together with its job.
QuietActor(a) ==
    \/ actor'[a].token = NoToken
    \/ /\ actor'[a].token = actor[a].token /\ actor'[a].job = actor[a].job
       /\ actor'[a].source = actor[a].source
       /\ actor'[a].at = "extract" => actor[a].at = "extract"

\* The memory of t stays or goes.
QuietOutput(t) == output'[t].source \in {0, output[t].source}

\* Only x moves.
OnlyActor(x) ==
    actor' \in [Actors -> ActorRecs] /\ \A a \in Actors \ {x} : actor'[a] = actor[a]

\* A new row has no token and no success yet.
LEMMA NewRowType ==
    /\ NewRow \in Rows /\ NewRow # NoRow
    /\ NewRow.token = NoToken /\ NewRow.status = "pending" /\ NewRow.success = 0
    /\ NewRow.input = 0 /\ NewRow.left = Retries
<1>1. NewRow \in Rows
  BY MemoryAssumption DEF NewRow, Rows, Sources
<1>2. NewRow # NoRow
  BY <1>1, NoRowAssumption
<1>3. QED BY <1>1, <1>2 DEF NewRow

\* An actor owns its job when it has the token of the row.
LEMMA OwnsToken ==
    ASSUME TypeOK, RunningHasToken, NEW a \in Actors
    PROVE  Owns(a) <=> actor[a].token # NoToken /\ TokenOf(actor[a].job) = actor[a].token
BY Types DEF Owns, TokenOf, RunningHasToken, Exists

\* The same after the step.
LEMMA OwnsTokenNext ==
    ASSUME TypeOK', RunningHasToken', NEW a \in Actors
    PROVE  Owns(a)' <=> actor'[a].token # NoToken /\ TokenOf(actor[a].job)' = actor'[a].token
<1>1. actor'[a].job \in Jobs
  BY DEF TypeOK
<1>2. QED BY <1>1 DEF Owns, TokenOf, RunningHasToken, Exists

\* Steps after which every job has the holder it had, or none.
LEMMA QuietKeepsInv ==
    ASSUME Inv, TypeOK', Roles', QuietResets => ResetIsLeased',
           \A j \in Jobs : QuietRow(j) \/ job'[j] = NoRow,
           \A a \in Actors : QuietActor(a),
           \A t \in Threads : QuietOutput(t) /\ (job'[t] = NoRow => output'[t].source = 0)
    PROVE  SafeInv'
<1> USE DEF Inv, SafeInv, TableInv
<1>1. \A j \in Jobs : TokenOf(j)' \in {TokenOf(j), NoToken}
  BY NewRowType DEF QuietRow, TokenOf, Exists
<1>2. RunningHasToken'
  BY NewRowType DEF RunningHasToken, QuietRow, Exists
<1>3. RunningIsNewer'
  BY NewRowType DEF RunningIsNewer, QuietRow, Exists, Jobs
<1>4. TokensDistinct'
  BY <1>1 DEF TokensDistinct, QuietActor
<1>5. OwnerExtractsInput'
  <2>1. SUFFICES ASSUME NEW w \in Workers, actor'[w].at = "extract", Owns(w)'
                 PROVE  job'[actor'[w].job].input = actor'[w].source
    BY DEF OwnerExtractsInput
  <2>2. w \in Actors
    BY DEF Actors
  <2>3. /\ actor'[w].token # NoToken
        /\ TokenOf(actor[w].job)' = actor'[w].token
    BY <1>2, <2>1, <2>2, OwnsTokenNext
  <2>4. /\ actor'[w].token = actor[w].token /\ actor'[w].job = actor[w].job
        /\ actor'[w].source = actor[w].source /\ actor[w].at = "extract"
        /\ actor[w].job \in Jobs
    BY <2>1, <2>2, <2>3, Types DEF QuietActor
  <2>5. TokenOf(actor[w].job) = actor[w].token
    BY <1>1, <2>3, <2>4
  <2>6. Owns(w)
    BY <2>2, <2>3, <2>4, <2>5, OwnsToken
  <2>7. job[actor[w].job].input = actor[w].source /\ Exists(actor[w].job)
    BY <2>1, <2>4, <2>6 DEF OwnerExtractsInput, Owns, Exists
  <2>8. job'[actor[w].job] # NoRow
    BY <2>1, <2>4 DEF Owns
  <2>9. QED BY <2>4, <2>7, <2>8 DEF QuietRow
<1>6. OutputIsLastSuccess'
  BY DEF OutputIsLastSuccess, QuietRow, QuietOutput, Exists, Jobs
<1>7. QED BY <1>2, <1>3, <1>4, <1>5, <1>6

\* A claim: x takes job j with a token that nobody has.
LEMMA GrantKeepsInv ==
    ASSUME Inv, TypeOK', Roles', QuietResets => ResetIsLeased',
           NEW x \in Actors, NEW j \in Jobs, NEW k \in Tokens, k \notin UsedTokens,
           OnlyActor(x), actor'[x].token = k, actor'[x].job = j,
           \A i \in Jobs \ {j} : job'[i] = job[i],
           Exists(j)', job'[j].status = "running", job'[j].token = k,
           j \in Threads => /\ job'[j].success < job'[j].input /\ job'[j].left > 0
                            /\ job'[j].input = actor'[x].source
                            /\ Exists(j) => job'[j].success = job[j].success,
           output' = output
    PROVE  SafeInv'
<1> USE DEF Inv, SafeInv, TableInv
<1>1. k # NoToken
  BY MemoryAssumption
<1>2. RunningHasToken'
  BY <1>1 DEF RunningHasToken, Exists
<1>3. RunningIsNewer'
  BY DEF RunningIsNewer, Exists, Jobs
<1>4. /\ \A a \in Actors : actor[a].token # k
      /\ \A i \in Jobs : TokenOf(i) # k
  BY <1>1 DEF UsedTokens, TokenOf
<1>5. TokenOf(j)' = k /\ \A i \in Jobs \ {j} : TokenOf(i)' = TokenOf(i)
  BY DEF TokenOf, Exists
<1>6. TokensDistinct'
  <2>1. SUFFICES ASSUME NEW a \in Actors, actor'[a].token # NoToken
                 PROVE  /\ \A b \in Actors : actor'[b].token = actor'[a].token => b = a
                        /\ \A i \in Jobs : TokenOf(i)' = actor'[a].token => actor'[a].job = i
    BY DEF TokensDistinct
  <2>2. CASE a = x
    BY <1>4, <1>5, <2>2 DEF OnlyActor
  <2>3. CASE a # x
    BY <1>4, <1>5, <2>1, <2>3 DEF OnlyActor, TokensDistinct
  <2>4. QED BY <2>2, <2>3
<1>7. OwnerExtractsInput'
  <2>1. SUFFICES ASSUME NEW w \in Workers, actor'[w].at = "extract", Owns(w)'
                 PROVE  job'[actor'[w].job].input = actor'[w].source
    BY DEF OwnerExtractsInput
  <2>2. w \in Actors
    BY DEF Actors
  <2>3. actor'[w].token # NoToken /\ TokenOf(actor[w].job)' = actor'[w].token
    BY <1>2, <2>1, <2>2, OwnsTokenNext
  <2>4. actor'[w].job \in Threads
    BY <2>1 DEF Roles
  <2>5. CASE w = x
    BY <2>4, <2>5
  <2>6. CASE w # x
    <3>1. actor'[w] = actor[w] /\ actor[w].job \in Jobs
      BY <2>2, <2>6, Types DEF OnlyActor
    <3>2. actor[w].job # j
      BY <1>4, <1>5, <2>2, <2>3, <3>1
    <3>3. Owns(w)
      BY <1>5, <2>2, <2>3, <3>1, <3>2, OwnsToken
    <3>4. QED BY <2>1, <3>1, <3>2, <3>3 DEF OwnerExtractsInput
  <2>7. QED BY <2>5, <2>6
<1>8. OutputIsLastSuccess'
  BY DEF OutputIsLastSuccess, Exists, Jobs
<1>9. QED BY <1>2, <1>3, <1>6, <1>7, <1>8

\* The end of a job: its holder x gives it back.
LEMMA FinishKeepsInv ==
    ASSUME Inv, TypeOK', Roles', QuietResets => ResetIsLeased',
           NEW x \in Actors, NEW j \in Jobs, OnlyActor(x), actor'[x].token = NoToken,
           \A i \in Jobs \ {j} : QuietRow(i),
           Exists(j)', job'[j].status # "running", job'[j].token = NoToken,
           \A t \in Threads \ {j} : output'[t].source = output[t].source,
           j \in Threads => output'[j].source \in {0, job'[j].success}
    PROVE  SafeInv'
<1> USE DEF Inv, SafeInv, TableInv
<1>1. TokenOf(j)' = NoToken /\ \A i \in Jobs \ {j} : TokenOf(i)' = TokenOf(i)
  BY NewRowType DEF TokenOf, Exists, QuietRow
<1>2. RunningHasToken'
  BY NewRowType DEF RunningHasToken, QuietRow, Exists
<1>3. RunningIsNewer'
  BY NewRowType DEF RunningIsNewer, QuietRow, Exists, Jobs
<1>4. TokensDistinct'
  BY <1>1 DEF TokensDistinct, OnlyActor
<1>5. OwnerExtractsInput'
  <2>1. SUFFICES ASSUME NEW w \in Workers, actor'[w].at = "extract", Owns(w)'
                 PROVE  job'[actor'[w].job].input = actor'[w].source
    BY DEF OwnerExtractsInput
  <2>2. w \in Actors
    BY DEF Actors
  <2>3. actor'[w].token # NoToken /\ TokenOf(actor[w].job)' = actor'[w].token
    BY <1>2, <2>1, <2>2, OwnsTokenNext
  <2>4. actor'[w] = actor[w] /\ actor[w].job \in Jobs
    BY <2>2, <2>3, Types DEF OnlyActor
  <2>5. actor[w].job # j /\ TokenOf(actor[w].job) = actor[w].token
    BY <1>1, <2>3, <2>4
  <2>6. Owns(w)
    BY <2>2, <2>3, <2>4, <2>5, OwnsToken
  <2>7. Exists(actor[w].job) /\ job[actor[w].job].input = actor[w].source
    BY <2>1, <2>4, <2>6 DEF OwnerExtractsInput, Owns, Exists
  <2>8. QED BY <2>4, <2>5, <2>7 DEF QuietRow
<1>6. OutputIsLastSuccess'
  <2>1. SUFFICES ASSUME NEW t \in Threads, output'[t].source # 0
                 PROVE  Exists(t)' /\ job'[t].success = output'[t].source
    BY DEF OutputIsLastSuccess
  <2>2. t \in Jobs
    BY DEF Jobs
  <2>3. CASE t = j
    BY <2>1, <2>3
  <2>4. CASE t # j
    BY <2>1, <2>2, <2>4 DEF OutputIsLastSuccess, QuietRow
  <2>5. QED BY <2>3, <2>4
<1>7. QED BY <1>2, <1>3, <1>4, <1>5, <1>6

----------------------------------------------------------------------------
(* The rows and the actors that the actions assign. *)

Table == [Jobs -> Rows \cup {NoRow}]

\* Enqueueing phase 2 changes no row of a thread and no row that is running.
LEMMA EnqueueEffect ==
    ASSUME NEW rows \in Table
    PROVE  /\ Enqueue(rows) \in Table
           /\ \A t \in Threads : Enqueue(rows)[t] = rows[t]
           /\ rows[Global] = NoRow => Enqueue(rows)[Global] = NewRow
           /\ rows[Global] # NoRow =>
                 /\ Enqueue(rows)[Global] # NoRow
                 /\ Enqueue(rows)[Global].status = "running" <=> rows[Global].status = "running"
                 /\ Enqueue(rows)[Global].token = rows[Global].token
                 /\ Enqueue(rows)[Global].left = rows[Global].left
                 /\ Enqueue(rows)[Global].input = rows[Global].input
                 /\ Enqueue(rows)[Global].success = rows[Global].success
                 /\ Enqueue(rows)[Global].lapsed = rows[Global].lapsed
<1>1. Global \in Jobs /\ Global \notin Threads /\ Threads \subseteq Jobs
  BY MemoryAssumption DEF Jobs
<1>. DEFINE old == rows[Global]
            new == IF old = NoRow THEN NewRow
                   ELSE IF old.status = "running" THEN old
                   ELSE [old EXCEPT !.status = "pending", !.retry = "none"]
            set == [old EXCEPT !.status = "pending", !.retry = "none"]
<1>2. Enqueue(rows) = [rows EXCEPT ![Global] = new]
  BY DEF Enqueue
<1>3. old \in Rows => /\ set \in Rows /\ set.status = "pending" /\ set.token = old.token
                      /\ set.left = old.left /\ set.input = old.input
                      /\ set.success = old.success /\ set.lapsed = old.lapsed
  BY DEF Rows
<1>4. old \in Rows \cup {NoRow}
  BY <1>1 DEF Table
<1>5. /\ new \in Rows /\ new # NoRow
      /\ old = NoRow => new = NewRow
      /\ old # NoRow => /\ new.status = "running" <=> old.status = "running"
                        /\ new.token = old.token /\ new.left = old.left
                        /\ new.input = old.input /\ new.success = old.success
                        /\ new.lapsed = old.lapsed
  <2>1. CASE old = NoRow
    BY <2>1, NewRowType
  <2>2. CASE old # NoRow /\ old.status = "running"
    BY <1>4, <2>2
  <2>3. CASE old # NoRow /\ old.status # "running"
    <3>1. new = set /\ old \in Rows
      BY <1>4, <2>3
    <3>. HIDE DEF new, set
    <3>2. set # NoRow
      BY <1>3, <3>1, NoRowAssumption
    <3>3. QED BY <1>3, <2>3, <3>1, <3>2
  <2>4. QED BY <2>1, <2>2, <2>3
<1>. HIDE DEF new, set
<1>6. QED BY <1>1, <1>2, <1>5 DEF Table

\* A row that is done gives its token back, and its input is the new success.
LEMMA DoneRowEffect ==
    ASSUME NEW row \in Rows
    PROVE  /\ DoneRow(row) \in Rows /\ DoneRow(row) # NoRow
           /\ DoneRow(row).status = "done" /\ DoneRow(row).token = NoToken
           /\ DoneRow(row).success = row.input
<1>1. /\ DoneRow(row) \in Rows
      /\ DoneRow(row).status = "done" /\ DoneRow(row).token = NoToken
      /\ DoneRow(row).success = row.input
  BY DEF DoneRow, Rows
<1>2. QED BY <1>1, NoRowAssumption

\* An idle actor has no token.
LEMMA IdleType ==
    /\ Idle \in ActorRecs /\ Idle.at = "idle" /\ Idle.token = NoToken /\ Idle.job = Global
BY MemoryAssumption DEF Idle, ActorRecs, Steps, Jobs, Sources, Memories

\* An actor that stops is idle, and the others are not touched.
LEMMA StopEffect ==
    ASSUME TypeOK, NEW a \in Actors, Stop(a)
    PROVE  OnlyActor(a) /\ actor'[a] = Idle
BY Types, IdleType DEF Stop, OnlyActor

\* Going from one step to the next, an actor keeps its job and its token.
LEMMA GotoEffect ==
    ASSUME TypeOK, NEW a \in Actors, NEW at \in Steps, Goto(a, at)
    PROVE  /\ OnlyActor(a) /\ actor'[a].at = at
           /\ actor'[a].job = actor[a].job /\ actor'[a].token = actor[a].token
           /\ actor'[a].source = actor[a].source
<1>1. actor \in [Actors -> ActorRecs] /\ actor[a] \in ActorRecs
  BY Types
<1>2. /\ [actor[a] EXCEPT !.at = at] \in ActorRecs
      /\ [actor[a] EXCEPT !.at = at].at = at
      /\ [actor[a] EXCEPT !.at = at].job = actor[a].job
      /\ [actor[a] EXCEPT !.at = at].token = actor[a].token
      /\ [actor[a] EXCEPT !.at = at].source = actor[a].source
  BY <1>1 DEF ActorRecs
<1>3. actor' = [actor EXCEPT ![a] = [actor[a] EXCEPT !.at = at]]
  BY <1>1 DEF Goto
<1>4. QED BY <1>1, <1>2, <1>3 DEF OnlyActor

----------------------------------------------------------------------------
(* The kinds of steps. *)

\* The row keeps its lease as well.
LeaseKept(j) == QuietRow(j) /\ (Exists(j) => job'[j].lapsed = job[j].lapsed)

SourcesKept == \A t \in Threads : output'[t].source = output[t].source

\* The actor x goes on with its job.
KeepsJob(x) ==
    /\ OnlyActor(x) /\ actor'[x].token = actor[x].token /\ actor'[x].job = actor[x].job
    /\ actor'[x].source = actor[x].source
    /\ actor'[x].at = "extract" => actor[x].at = "extract"

\* x, that has no job, takes job j.
Granted(x, j) ==
    /\ OnlyActor(x) /\ actor[x].token = NoToken
    /\ actor'[x].token \in Tokens \ UsedTokens
    /\ actor'[x].job = j /\ actor'[x].at \in {"extract", "load"}
    /\ ~Leased(j)
    /\ \A i \in Jobs \ {j} : job'[i] = job[i]
    /\ Exists(j)' /\ job'[j].status = "running" /\ ~job'[j].lapsed
    /\ job'[j].token = actor'[x].token
    /\ j \in Threads => /\ job'[j].success < job'[j].input /\ job'[j].left > 0
                        /\ job'[j].input = actor'[x].source
                        /\ Exists(j) => job'[j].success = job[j].success
    /\ output' = output /\ baseline' = baseline

\* The owner x of job j gives it back.
Finished(x, j) ==
    /\ OnlyActor(x) /\ actor'[x] = Idle
    /\ Owns(x) /\ actor[x].job = j
    /\ \A i \in Jobs \ {j} : LeaseKept(i)
    /\ Exists(j)' /\ job'[j].status # "running" /\ job'[j].token = NoToken
    /\ j \in Threads => job'[j].success \in {job[j].success, job[j].input}
    /\ \A t \in Threads \ {j} : output'[t].source = output[t].source
    /\ j \in Threads => output'[j].source \in {0, job'[j].success}
    /\ baseline' = baseline

\* x gives up its token, if it has one, and tells nobody.
Rests(x) ==
    /\ OnlyActor(x) /\ actor'[x].token = NoToken /\ actor'[x].at \in {"idle", "claim"}
    /\ \A j \in Jobs : LeaseKept(j)
    /\ SourcesKept /\ baseline' = baseline

\* x goes on with its job.
Works(x) ==
    /\ KeepsJob(x) /\ actor'[x].at # "reset"
    /\ \A j \in Jobs : LeaseKept(j)
    /\ SourcesKept
    /\ baseline' = baseline \/ (x \in Consolidators /\ actor[x].at = "reset")

\* Only the lease of j changes.
LeaseMoves(j) ==
    /\ \A i \in Jobs \ {j} : LeaseKept(i)
    /\ QuietRow(j) /\ Exists(j) /\ job[j].status = "running"
    /\ SourcesKept /\ baseline' = baseline

\* The owner x of j renews the lease.
Renews(x, j) ==
    /\ KeepsJob(x) /\ Owns(x) /\ actor[x].job = j
    /\ LeaseMoves(j) /\ ~job'[j].lapsed

\* The lease of j lapses, but not under a consolidator that resets the baseline.
Lapses(j) ==
    /\ actor' = actor
    /\ LeaseMoves(j) /\ job'[j].lapsed
    /\ \A c \in Consolidators : j = Global /\ Owns(c) => actor[c].at # "reset"

\* Jobs or memories are withdrawn.
Withdraws ==
    /\ actor' = actor
    /\ \A j \in Jobs : LeaseKept(j) \/ job'[j] = NoRow
    /\ QuietResets /\ job'[Global] = NoRow /\ Exists(Global) =>
            \A c \in Consolidators : actor[c].at # "reset"
    /\ \A t \in Threads : QuietOutput(t) /\ (job'[t] = NoRow => output'[t].source = 0)
    /\ baseline' \in {baseline, {}}

----------------------------------------------------------------------------
(* Every action is a step of one of these kinds, and keeps types and roles. *)

\* The type invariant after a step, from the sets.
LEMMA TypesNext ==
    ASSUME TypeOK, actor' \in [Actors -> ActorRecs], job' \in Table,
           output' \in [Threads -> Outputs], UNCHANGED <<threadVars, fileVars>>,
           faults' \in 0 .. MaxFaults, resets' \in 0 .. MaxResets
    PROVE  TypeOK'
BY DEF TypeOK, ActorRecs, Steps, Outputs, Table, threadVars, fileVars

\* Workers extract, consolidators consolidate, also after a step of x.
LEMMA RolesNext ==
    ASSUME Roles, NEW x \in Actors, OnlyActor(x),
           x \in Workers =>
              /\ actor'[x].at \in {"idle", "claim", "extract"}
              /\ actor'[x].at # "idle" => actor'[x].job \in Threads
              /\ actor'[x].at # "extract" => actor'[x].token = NoToken,
           x \in Consolidators =>
              /\ actor'[x].at \notin {"claim", "extract"}
              /\ actor'[x].job = Global
              /\ actor'[x].at = "idle" => actor'[x].token = NoToken
    PROVE  Roles'
BY DEF Roles, OnlyActor, Actors

\* Rows that are not touched keep their lease.
LEMMA UntouchedRow ==
    ASSUME TypeOK, NEW j \in Jobs, job'[j] = job[j]
    PROVE  LeaseKept(j)
BY DEF LeaseKept, QuietRow, Exists

Fits == TypeOK' /\ Roles'

\* scan_and_claim: a scan changes no job.
LEMMA ScanKind ==
    ASSUME Inv, NEW w \in Workers, NEW t \in Threads, Scan(w, t)
    PROVE  Fits /\ Rests(w)
<1>. DEFINE rec == [Idle EXCEPT !.at = "claim", !.job = t, !.source = updated[t]]
<1>1. TypeOK /\ w \in Actors /\ t \in Jobs /\ updated[t] \in Sources
  BY DEF Inv, Actors, Jobs, TypeOK
<1>2. rec \in ActorRecs /\ rec.at = "claim" /\ rec.job = t /\ rec.token = NoToken
  BY <1>1, IdleType DEF ActorRecs, Steps
<1>. HIDE DEF rec
<1>3. OnlyActor(w) /\ actor'[w] = rec
  BY <1>1, <1>2, Types DEF Scan, OnlyActor, rec
<1>4. TypeOK'
  BY <1>1, <1>3, Types, TypesNext DEF OnlyActor, Scan, Table, bounds, TypeOK
<1>5. Roles'
  BY <1>1, <1>2, <1>3, RolesNext, MemoryAssumption DEF Inv, SafeInv, TableInv
<1>6. Rests(w)
  BY <1>1, <1>2, <1>3, UntouchedRow DEF Rests, Scan, SourcesKept, fileVars
<1>7. QED BY <1>4, <1>5, <1>6 DEF Fits

\* try_claim_stage1_job: a claim that is granted.
LEMMA ClaimKind ==
    ASSUME Inv, NEW w \in Workers, Claim(w)
    PROVE  Fits /\ \E t \in Threads : Granted(w, t)
<1>0. PICK t \in Threads : t = actor[w].job
  BY DEF Inv, SafeInv, TableInv, Roles, Claim, At
<1>. DEFINE src == actor[w].source
            k == FreshToken
            rec == [actor[w] EXCEPT !.at = "extract", !.token = k]
            old == IF Exists(t) THEN job[t] ELSE NewRow
            row == ClaimedRow(t, src, k)
<1>1. /\ TypeOK /\ w \in Actors /\ t \in Threads /\ t \in Jobs
      /\ actor[w] \in ActorRecs /\ src \in Sources
      /\ actor[w].token = NoToken
  BY <1>0, Types DEF Inv, SafeInv, TableInv, Roles, Actors, Jobs, Claim, At, ActorRecs
<1>2. k \in Tokens /\ k \notin UsedTokens
  BY <1>1, FreshTokenExists
<1>. HIDE DEF k
<1>3. rec \in ActorRecs /\ rec.at = "extract" /\ rec.job = t /\ rec.token = k /\ rec.source = src
  BY <1>0, <1>1, <1>2 DEF ActorRecs, Steps
<1>4. actor' = [actor EXCEPT ![w] = rec]
  BY <1>1, Types DEF Claim, k
<1>5. OnlyActor(w) /\ actor'[w] = rec
  <2>. HIDE DEF rec
  <2>. QED BY <1>1, <1>3, <1>4, Types DEF OnlyActor
<1>6. old \in Rows /\ old.success \in Sources /\ old.input \in Sources /\ old.left \in 0 .. Retries
  BY <1>1, Types, NewRowType DEF Rows
<1>7. /\ old.success < src /\ (old.left > 0 \/ src > old.input) /\ ~Leased(t)
  <2>1. Claimable(t, src)
    BY <1>0 DEF Claim
  <2>2. CASE Exists(t)
    BY <2>1, <2>2 DEF Claimable
  <2>3. CASE ~Exists(t)
    <3>1. 0 < src
      <4>1. output[t].source \in Sources /\ output[t].source < src
        BY <1>1, <2>1, Types DEF Claimable, Outputs
      <4>2. QED BY <1>1, <4>1 DEF Sources
    <3>2. QED BY <2>3, <3>1, NewRowType, MemoryAssumption DEF Leased
  <2>4. QED BY <2>2, <2>3
<1>8. /\ row \in Rows /\ row.status = "running" /\ row.token = k /\ ~row.lapsed
      /\ row.success = old.success /\ row.input = src
      /\ row.left = IF src > old.input THEN Retries ELSE old.left
  <2>. HIDE DEF old
  <2>1. row = [old EXCEPT !.status = "running", !.token = k, !.lapsed = FALSE,
                !.retry = "none", !.left = IF src > old.input THEN Retries ELSE old.left,
                !.input = src]
    BY <1>6 DEF ClaimedRow, old, Rows
  <2>2. (IF src > old.input THEN Retries ELSE old.left) \in 0 .. Retries
    BY <1>6, MemoryAssumption
  <2>3. QED BY <1>1, <1>2, <1>6, <2>1, <2>2 DEF Rows
<1>9. job' = [job EXCEPT ![t] = row] /\ job'[t] = row
  BY <1>0, <1>1, Types DEF Claim, k
<1>10. Exists(t)'
  BY <1>8, <1>9, NoRowAssumption DEF Exists
<1>11. row.success < row.input /\ row.left > 0
  BY <1>1, <1>6, <1>7, <1>8, MemoryAssumption DEF Sources
<1>12. Granted(w, t)
  <2>1. \A i \in Jobs \ {t} : job'[i] = job[i]
    BY <1>9, Types, <1>1
  <2>2. Exists(t) => row.success = job[t].success
    BY <1>8
  <2>. HIDE DEF rec, row, old, src
  <2>3. output' = output /\ baseline' = baseline
    BY DEF Claim, fileVars
  <2>4. QED
    BY <1>1, <1>2, <1>3, <1>5, <1>7, <1>8, <1>9, <1>10, <1>11, <2>1, <2>2, <2>3 DEF Granted
<1>13. TypeOK'
  <2>1. job' \in Table
    BY <1>1, <1>8, <1>9, Types DEF Table
  <2>2. QED
    BY <1>1, <1>5, <2>1, Types, TypesNext DEF Claim, OnlyActor, TypeOK, bounds
<1>14. Roles'
  BY <1>1, <1>3, <1>5, RolesNext, MemoryAssumption DEF Inv, SafeInv, TableInv
<1>15. QED BY <1>12, <1>13, <1>14 DEF Fits

\* An actor that stops and leaves the row as it is: because it has lost it, or
\* because it crashes.
LEMMA StopKind ==
    ASSUME Inv, NEW a \in Actors, Stop(a), UNCHANGED <<threadVars, job, output, fileVars>>,
           faults' \in 0 .. MaxFaults, resets' = resets
    PROVE  Fits /\ Rests(a)
<1>1. TypeOK /\ OnlyActor(a) /\ actor'[a] = Idle
  BY StopEffect DEF Inv
<1>2. TypeOK'
  BY <1>1, Types, TypesNext DEF OnlyActor, Table, TypeOK
<1>3. Roles'
  BY <1>1, RolesNext, IdleType DEF Inv, SafeInv, TableInv
<1>4. Rests(a)
  BY <1>1, IdleType, UntouchedRow DEF Rests, SourcesKept, fileVars
<1>5. QED BY <1>2, <1>3, <1>4 DEF Fits

\* An owner that gives its job back, with or without enqueueing phase 2.
LEMMA GiveBackKind ==
    ASSUME Inv, NEW x \in Actors, NEW j \in Jobs, actor[x].job = j, Owns(x), Stop(x),
           NEW row \in Rows, row.status # "running", row.token = NoToken,
           \/ job' = [job EXCEPT ![j] = row]
           \/ j \in Threads /\ job' = Enqueue([job EXCEPT ![j] = row]),
           j \in Threads => row.success \in {job[j].success, job[j].input},
           output' \in [Threads -> Outputs],
           \A t \in Threads \ {j} : output'[t].source = output[t].source,
           j \in Threads => output'[j].source \in {0, row.success},
           UNCHANGED <<threadVars, fileVars>>, faults' \in 0 .. MaxFaults, resets' = resets
    PROVE  Fits /\ Finished(x, j)
<1>1. TypeOK /\ OnlyActor(x) /\ actor'[x] = Idle
  BY StopEffect DEF Inv
<1>. DEFINE rows == [job EXCEPT ![j] = row]
<1>2. rows \in Table /\ rows[j] = row /\ \A i \in Jobs \ {j} : rows[i] = job[i]
  BY <1>1, Types DEF Table
<1>3. Global \in Jobs /\ Global \notin Threads /\ \A t \in Jobs : t # Global => t \in Threads
  BY MemoryAssumption DEF Jobs
<1>. HIDE DEF rows
<1>4. job' \in Table /\ job'[j] = row
  <2>1. CASE job' = rows
    BY <1>2, <2>1
  <2>2. CASE j \in Threads /\ job' = Enqueue(rows)
    BY <1>2, <2>2, EnqueueEffect
  <2>3. QED BY <2>1, <2>2 DEF rows
<1>5. \A i \in Jobs \ {j} : LeaseKept(i)
  <2>1. CASE job' = rows
    BY <1>1, <1>2, <2>1, UntouchedRow
  <2>2. CASE j \in Threads /\ job' = Enqueue(rows)
    BY <1>1, <1>2, <1>3, <2>2, EnqueueEffect, UntouchedRow DEF LeaseKept, QuietRow, Exists
  <2>3. QED BY <2>1, <2>2 DEF rows
<1>6. TypeOK'
  BY <1>1, <1>4, TypesNext DEF OnlyActor, TypeOK
<1>7. Roles'
  BY <1>1, RolesNext, IdleType DEF Inv, SafeInv, TableInv
<1>8. row # NoRow
  BY NoRowAssumption
<1>9. Finished(x, j)
  BY <1>1, <1>4, <1>5, <1>8 DEF Finished, Exists, fileVars
<1>10. QED BY <1>6, <1>7, <1>9 DEF Fits

\* What a worker that owns its job knows.
LEMMA WorkerOwns ==
    ASSUME Inv, NEW w \in Workers, actor[w].at = "extract", Owns(w)
    PROVE  \E t \in Threads :
              /\ actor[w].job = t /\ job[t] \in Rows /\ job[t].status = "running"
              /\ job[t].input = actor[w].source /\ job[t].success < job[t].input
              /\ job[t].left > 0 /\ actor[w].source \in Sources
              /\ output[t] \in Outputs
              /\ output[t].source = 0 \/ output[t].source = job[t].success
<1>1. TypeOK /\ w \in Actors
  BY DEF Inv, Actors
<1>2. PICK t \in Threads : actor[w].job = t
  BY DEF Inv, SafeInv, TableInv, Roles
<1>3. t \in Jobs /\ Exists(t) /\ job[t].status = "running"
  BY <1>2 DEF Owns, Exists, Jobs
<1>4. job[t] \in Rows /\ output[t] \in Outputs /\ actor[w] \in ActorRecs
  BY <1>1, <1>3, Types
<1>5. job[t].input = actor[w].source
  BY <1>2 DEF Inv, SafeInv, OwnerExtractsInput
<1>6. job[t].success < job[t].input /\ job[t].left > 0
  BY <1>3 DEF Inv, SafeInv, TableInv, RunningIsNewer
<1>7. output[t].source = 0 \/ output[t].source = job[t].success
  BY DEF Inv, SafeInv, OutputIsLastSuccess
<1>8. QED BY <1>2, <1>3, <1>4, <1>5, <1>6, <1>7 DEF ActorRecs

\* mark_stage1_job_succeeded: the holder writes its output and finishes,
\* one that was superseded stops.
LEMMA SucceedKind ==
    ASSUME Inv, NEW w \in Workers, Succeed(w)
    PROVE  Fits /\ (Rests(w) \/ \E t \in Threads : Finished(w, t))
<1>1. /\ TypeOK /\ w \in Actors /\ actor[w].at = "extract" /\ Stop(w)
      /\ UNCHANGED <<threadVars, fileVars>> /\ faults' \in 0 .. MaxFaults /\ resets' = resets
  BY DEF Inv, Actors, Succeed, At, bounds, TypeOK
<1>2. CASE ~Owns(w)
  BY <1>1, <1>2, StopKind DEF Succeed
<1>3. CASE Owns(w)
  <2>1. PICK t \in Threads :
              /\ actor[w].job = t /\ job[t] \in Rows /\ job[t].status = "running"
              /\ job[t].input = actor[w].source /\ job[t].success < job[t].input
              /\ job[t].left > 0 /\ actor[w].source \in Sources
              /\ output[t] \in Outputs
              /\ output[t].source = 0 \/ output[t].source = job[t].success
    BY <1>1, <1>3, WorkerOwns
  <2>. DEFINE row == DoneRow(job[t])
              src == actor[w].source
              out == [output[t] EXCEPT !.source = src]
  <2>2. job' = Enqueue([job EXCEPT ![t] = row])
    BY <1>3, <2>1, Types, <1>1 DEF Succeed, Jobs
  <2>3. src >= output[t].source
    BY <2>1 DEF Outputs, Sources, Rows
  <2>4. output' = [output EXCEPT ![t] = out]
    BY <1>1, <1>3, <2>1, <2>3, Types DEF Succeed
  <2>5. out \in Outputs /\ out.source = src
    BY <2>1 DEF Outputs
  <2>6. row \in Rows /\ row.status = "done" /\ row.token = NoToken /\ row.success = src
        /\ row.success = job[t].input
    BY <2>1, DoneRowEffect
  <2>. HIDE DEF row, out, src
  <2>7. /\ output' \in [Threads -> Outputs] /\ output'[t].source = src
        /\ \A u \in Threads \ {t} : output'[u].source = output[u].source
    BY <1>1, <2>4, <2>5, Types
  <2>8. t \in Jobs
    BY DEF Jobs
  <2>9. Fits /\ Finished(w, t)
    BY <1>1, <1>3, <2>1, <2>2, <2>6, <2>7, <2>8, GiveBackKind
  <2>10. QED BY <2>9
<1>4. QED BY <1>2, <1>3

\* mark_stage1_job_succeeded_no_output: the same without an output.
LEMMA SucceedNoOutputKind ==
    ASSUME Inv, NEW w \in Workers, SucceedNoOutput(w)
    PROVE  Fits /\ (Rests(w) \/ \E t \in Threads : Finished(w, t))
<1>1. /\ TypeOK /\ w \in Actors /\ actor[w].at = "extract" /\ Stop(w)
      /\ UNCHANGED <<threadVars, fileVars>> /\ faults' \in 0 .. MaxFaults /\ resets' = resets
  BY DEF Inv, Actors, SucceedNoOutput, At, bounds, TypeOK
<1>2. CASE ~Owns(w)
  BY <1>1, <1>2, StopKind DEF SucceedNoOutput
<1>3. CASE Owns(w)
  <2>1. PICK t \in Threads : actor[w].job = t /\ job[t] \in Rows
    BY <1>1, <1>3, WorkerOwns
  <2>. DEFINE row == DoneRow(job[t])
  <2>2. \/ job' = Enqueue([job EXCEPT ![t] = row])
        \/ job' = [job EXCEPT ![t] = row]
    BY <1>3, <2>1, Types, <1>1 DEF SucceedNoOutput, EnqueueIf, Jobs
  <2>3. NoOutput \in Outputs /\ NoOutput.source = 0
    BY MemoryAssumption DEF NoOutput, Outputs, Sources
  <2>4. row \in Rows /\ row.status = "done" /\ row.token = NoToken /\ row.success = job[t].input
    BY <2>1, DoneRowEffect
  <2>. HIDE DEF row
  <2>5. /\ output' \in [Threads -> Outputs] /\ output'[t].source = 0
        /\ \A u \in Threads \ {t} : output'[u].source = output[u].source
    BY <1>1, <1>3, <2>1, <2>3, Types DEF SucceedNoOutput
  <2>6. t \in Jobs
    BY DEF Jobs
  <2>7. Fits /\ Finished(w, t)
    BY <1>1, <1>3, <2>1, <2>2, <2>4, <2>5, <2>6, GiveBackKind
  <2>8. QED BY <2>7
<1>4. QED BY <1>2, <1>3

\* mark_stage1_job_failed: the holder finishes without a change,
\* one that was superseded stops.
LEMMA FailKind ==
    ASSUME Inv, NEW w \in Workers, Fail(w)
    PROVE  Fits /\ (Rests(w) \/ \E t \in Threads : Finished(w, t))
<1>1. /\ TypeOK /\ w \in Actors /\ actor[w].at = "extract" /\ Stop(w) /\ output' = output
      /\ UNCHANGED <<threadVars, fileVars>> /\ faults' \in 0 .. MaxFaults /\ resets' = resets
  BY MemoryAssumption DEF Inv, Actors, Fail, At, bounds, TypeOK
<1>2. CASE ~Owns(w)
  BY <1>1, <1>2, StopKind DEF Fail
<1>3. CASE Owns(w)
  <2>1. PICK t \in Threads : /\ actor[w].job = t /\ job[t] \in Rows /\ job[t].left > 0
                             /\ output[t].source = 0 \/ output[t].source = job[t].success
    BY <1>1, <1>3, WorkerOwns
  <2>. DEFINE row == FailedRow(job[t])
  <2>2. job' = [job EXCEPT ![t] = row]
    BY <1>3, <2>1, Types, <1>1 DEF Fail, Jobs
  <2>3. job[t].left - 1 \in 0 .. Retries
    BY <2>1, MemoryAssumption DEF Rows
  <2>4. row \in Rows /\ row.status = "error" /\ row.token = NoToken /\ row.success = job[t].success
    BY <2>1, <2>3 DEF FailedRow, Rows
  <2>. HIDE DEF row
  <2>5. output' \in [Threads -> Outputs]
    BY <1>1, Types
  <2>6. t \in Jobs
    BY DEF Jobs
  <2>7. Fits /\ Finished(w, t)
    BY <1>1, <1>3, <2>1, <2>2, <2>4, <2>5, <2>6, GiveBackKind
  <2>8. QED BY <2>7
<1>4. QED BY <1>2, <1>3

\* try_claim_global_phase2_job: a claim of the global job.
LEMMA ClaimGlobalKind ==
    ASSUME Inv, NEW c \in Consolidators, ClaimGlobal(c)
    PROVE  Fits /\ Granted(c, Global)
<1>. DEFINE k == FreshToken
            old == IF job[Global] = NoRow THEN NewRow ELSE job[Global]
            row == [old EXCEPT !.status = "running", !.token = k, !.lapsed = FALSE,
                               !.retry = "none", !.finished = "none", !.failed = FALSE]
            rec == [Idle EXCEPT !.at = "load", !.token = k]
<1>1. /\ TypeOK /\ c \in Actors /\ Global \in Jobs /\ Global \notin Threads
      /\ actor[c].token = NoToken /\ c \notin Workers
  BY MemoryAssumption
     DEF Inv, SafeInv, TableInv, Roles, Actors, Jobs, ClaimGlobal, Begins, At
<1>2. k \in Tokens /\ k \notin UsedTokens
  BY <1>1, FreshTokenExists
<1>. HIDE DEF k
<1>3. old \in Rows
  BY <1>1, Types, NewRowType DEF Exists
<1>. HIDE DEF old
<1>4. row \in Rows /\ row.status = "running" /\ row.token = k /\ ~row.lapsed
  BY <1>2, <1>3 DEF Rows
<1>5. rec \in ActorRecs /\ rec.at = "load" /\ rec.token = k /\ rec.job = Global
  BY <1>2, IdleType DEF ActorRecs, Steps
<1>6. job' = [job EXCEPT ![Global] = row]
  BY <1>1, Types DEF ClaimGlobal, old, k
<1>7. actor' = [actor EXCEPT ![c] = rec]
  BY DEF ClaimGlobal, k
<1>. HIDE DEF row, rec
<1>8. OnlyActor(c) /\ actor'[c] = rec
  BY <1>1, <1>5, <1>7, Types DEF OnlyActor
<1>9. job' \in Table /\ job'[Global] = row /\ \A i \in Jobs \ {Global} : job'[i] = job[i]
  BY <1>1, <1>4, <1>6, Types DEF Table
<1>10. row # NoRow
  BY <1>4, NoRowAssumption
<1>11. ~Leased(Global)
  BY DEF ClaimGlobal, GlobalClaimable, Leased
<1>12. Granted(c, Global)
  BY <1>1, <1>2, <1>4, <1>5, <1>8, <1>9, <1>10, <1>11 DEF Granted, Exists, ClaimGlobal, fileVars
<1>13. TypeOK'
  BY <1>1, <1>8, <1>9, Types, TypesNext DEF ClaimGlobal, OnlyActor, bounds, TypeOK
<1>14. Roles'
  BY <1>1, <1>5, <1>8, RolesNext DEF Inv, SafeInv, TableInv
<1>15. QED BY <1>12, <1>13, <1>14 DEF Fits

\* A consolidator that goes on, and does not touch the table.
LEMMA WorkKind ==
    ASSUME Inv, NEW c \in Consolidators, OnlyActor(c),
           actor[c].at # "idle", actor'[c].at \in Steps \ {"idle", "claim", "extract", "reset"},
           actor'[c].token = actor[c].token, actor'[c].job = actor[c].job,
           actor'[c].source = actor[c].source,
           UNCHANGED <<threadVars, job, output, bounds>>,
           workspace' \in SUBSET Memories, baseline' \in SUBSET Memories,
           baseline' = baseline \/ actor[c].at = "reset"
    PROVE  Fits /\ Works(c)
<1>1. TypeOK /\ c \in Actors /\ c \notin Workers /\ actor[c].job = Global
  BY MemoryAssumption DEF Inv, SafeInv, TableInv, Roles, Actors
<1>2. TypeOK'
  BY <1>1, Types DEF OnlyActor, TypeOK, ActorRecs, Steps, threadVars, bounds
<1>3. Roles'
  BY <1>1, RolesNext DEF Inv, SafeInv, TableInv
<1>4. Works(c)
  BY <1>1, UntouchedRow DEF Works, KeepsJob, SourcesKept
<1>5. QED BY <1>2, <1>3, <1>4 DEF Fits

\* The inputs of a consolidation are read.
LEMMA LoadKind ==
    ASSUME Inv, NEW c \in Consolidators, Load(c)
    PROVE  Fits /\ Works(c)
<1>1. TypeOK /\ c \in Actors /\ actor[c] \in ActorRecs
  BY Types DEF Inv, Actors
<1>2. PICK best \in SUBSET Remembered : actor' = [actor EXCEPT ![c].at = "sync",
                    ![c].chosen = {<<t, output[t].source>> : t \in best}]
  BY DEF Load
<1>. DEFINE chosen == {<<t, output[t].source>> : t \in best}
            rec == [actor[c] EXCEPT !.at = "sync", !.chosen = chosen]
<1>3. chosen \in SUBSET Memories
  BY <1>1, Types DEF Remembered, Memories, Outputs
<1>4. actor' = [actor EXCEPT ![c] = rec]
  BY <1>1, <1>2, Types
<1>. HIDE DEF chosen
<1>5. /\ rec \in ActorRecs /\ rec.at = "sync" /\ rec.token = actor[c].token
      /\ rec.job = actor[c].job /\ rec.source = actor[c].source
  BY <1>1, <1>3 DEF ActorRecs, Steps
<1>. HIDE DEF rec
<1>6. OnlyActor(c) /\ actor'[c] = rec
  BY <1>1, <1>4, <1>5, Types DEF OnlyActor
<1>7. QED
  BY <1>1, <1>5, <1>6, WorkKind DEF Load, At, Steps, fileVars, TypeOK

\* Steps of a consolidation that do not touch its row.
LEMMA RunKind ==
    ASSUME Inv, NEW c \in Consolidators,
           Sync(c) \/ Diff(c) \/ AgentCompleted(c) \/ Reset(c)
    PROVE  Fits /\ Works(c)
<1>1. TypeOK /\ c \in Actors /\ actor[c] \in ActorRecs
  BY Types DEF Inv, Actors
<1>2. PICK at \in {"diff", "succeed", "agent", "confirm"} : Goto(c, at)
  BY DEF Sync, Diff, AgentCompleted, Reset
<1>3. /\ OnlyActor(c) /\ actor'[c].at = at
      /\ actor'[c].job = actor[c].job /\ actor'[c].token = actor[c].token
      /\ actor'[c].source = actor[c].source
  BY <1>1, <1>2, GotoEffect DEF Steps
<1>4. actor[c].at # "idle"
  BY DEF Sync, Diff, AgentCompleted, Reset, At
<1>5. actor[c].chosen \in SUBSET Memories
  BY <1>1 DEF ActorRecs
<1>6. /\ workspace' \in SUBSET Memories /\ baseline' \in SUBSET Memories
      /\ baseline' = baseline \/ actor[c].at = "reset"
      /\ UNCHANGED <<threadVars, job, output, bounds>>
  BY <1>1, <1>5 DEF Sync, Diff, AgentCompleted, Reset, At, TypeOK, fileVars
<1>7. QED
  BY <1>3, <1>4, <1>6, WorkKind DEF Steps

\* What a consolidator that owns the global row knows.
LEMMA ConsolidatorOwns ==
    ASSUME Inv, NEW c \in Consolidators, Owns(c)
    PROVE  /\ actor[c].job = Global /\ Exists(Global)
           /\ job[Global] \in Rows /\ job[Global].status = "running"
<1>1. TypeOK /\ actor[c].job = Global /\ Global \in Jobs
  BY DEF Inv, SafeInv, TableInv, Roles, Jobs
<1>2. Exists(Global) /\ job[Global].status = "running"
  BY <1>1 DEF Owns, Exists
<1>3. QED BY <1>1, <1>2, Types

\* A consolidation that fails finishes without a change of the baseline.
LEMMA GlobalFailedKind ==
    ASSUME Inv, NEW c \in Consolidators, GlobalFailed(c), faults' \in 0 .. MaxFaults,
           resets' = resets
    PROVE  Fits /\ (Rests(c) \/ Finished(c, Global))
<1>1. /\ TypeOK /\ c \in Actors /\ Stop(c) /\ output' = output /\ output \in [Threads -> Outputs]
      /\ UNCHANGED <<threadVars, fileVars>>
      /\ Global \in Jobs /\ Global \notin Threads
  BY Types, MemoryAssumption DEF Inv, Actors, GlobalFailed, Jobs
<1>2. CASE ~Owns(c)
  BY <1>1, <1>2, StopKind DEF GlobalFailed
<1>3. CASE Owns(c)
  <2>. DEFINE row == [job[Global] EXCEPT !.status = "error",
                        !.token = NoToken, !.lapsed = FALSE, !.retry = "waiting",
                        !.finished = "recent", !.failed = TRUE]
  <2>1. job[Global] \in Rows /\ actor[c].job = Global
    BY <1>3, ConsolidatorOwns
  <2>2. job' = [job EXCEPT ![Global] = row]
    BY <1>1, <1>3, Types DEF GlobalFailed
  <2>3. row \in Rows /\ row.status = "error" /\ row.token = NoToken
    BY <2>1 DEF Rows
  <2>. HIDE DEF row
  <2>4. QED BY <1>1, <1>3, <2>1, <2>2, <2>3, GiveBackKind
<1>4. QED BY <1>2, <1>3

\* A consolidation that succeeds finishes.
LEMMA GlobalSucceededKind ==
    ASSUME Inv, NEW c \in Consolidators, GlobalSucceeded(c)
    PROVE  Fits /\ (Rests(c) \/ Finished(c, Global))
<1>1. /\ TypeOK /\ c \in Actors /\ Stop(c) /\ output \in [Threads -> Outputs]
      /\ UNCHANGED <<threadVars, fileVars>> /\ faults' \in 0 .. MaxFaults /\ resets' = resets
      /\ Global \in Jobs /\ Global \notin Threads
  BY Types, MemoryAssumption DEF Inv, Actors, GlobalSucceeded, Jobs, bounds, TypeOK
<1>2. CASE ~Owns(c)
  BY <1>1, <1>2, StopKind DEF GlobalSucceeded
<1>3. CASE Owns(c)
  <2>. DEFINE row == [job[Global] EXCEPT !.status = "done",
                    !.token = NoToken, !.lapsed = FALSE, !.finished = "recent", !.failed = FALSE]
              sel(t) == IF output[t].source # 0 /\ <<t, output[t].source>> \in actor[c].chosen
                        THEN output[t].source ELSE 0
  <2>1. job[Global] \in Rows /\ actor[c].job = Global
    BY <1>3, ConsolidatorOwns
  <2>2. job' = [job EXCEPT ![Global] = row]
    BY <1>1, <1>3, Types DEF GlobalSucceeded
  <2>3. row \in Rows /\ row.status = "done" /\ row.token = NoToken
    BY <2>1 DEF Rows
  <2>4. output' = [t \in Threads |-> [output[t] EXCEPT !.selected = sel(t)]]
    BY <1>3 DEF GlobalSucceeded
  <2>5. \A t \in Threads : sel(t) \in Sources
    BY <1>1, MemoryAssumption DEF Outputs, Sources
  <2>. HIDE DEF row, sel
  <2>6. \A t \in Threads : /\ [output[t] EXCEPT !.selected = sel(t)] \in Outputs
                           /\ [output[t] EXCEPT !.selected = sel(t)].source = output[t].source
    BY <1>1, <2>5 DEF Outputs
  <2>7. output' \in [Threads -> Outputs] /\ \A t \in Threads : output'[t].source = output[t].source
    BY <2>4, <2>6
  <2>8. QED BY <1>1, <1>3, <2>1, <2>2, <2>3, <2>7, GiveBackKind
<1>4. QED BY <1>2, <1>3

\* Edits of a row that leave its holder and its watermarks alone.
LEMMA RowEdit ==
    ASSUME TypeOK, NEW j \in Jobs, Exists(j),
           \/ \E b \in BOOLEAN : job' = [job EXCEPT ![j].lapsed = b]
           \/ job' = [job EXCEPT ![j].retry = "due"]
           \/ job' = [job EXCEPT ![j].finished = "old"]
    PROVE  /\ job' \in Table /\ QuietRow(j)
           /\ \A i \in Jobs \ {j} : LeaseKept(i)
           /\ \A b \in BOOLEAN : job' = [job EXCEPT ![j].lapsed = b] => job'[j].lapsed = b
           /\ \/ job' = [job EXCEPT ![j].retry = "due"]
              \/ job' = [job EXCEPT ![j].finished = "old"]
              => LeaseKept(j)
<1>1. job \in Table /\ job[j] \in Rows
  BY Types DEF Table
<1>. DEFINE Same(row) == /\ row \in Rows /\ row # NoRow
                         /\ row.status = job[j].status /\ row.token = job[j].token
                         /\ row.left = job[j].left /\ row.input = job[j].input
                         /\ row.success = job[j].success
<1>2. \A b \in BOOLEAN : /\ Same([job[j] EXCEPT !.lapsed = b])
                         /\ [job[j] EXCEPT !.lapsed = b].lapsed = b
  <2>1. \A b \in BOOLEAN : [job[j] EXCEPT !.lapsed = b] \in Rows
    BY <1>1 DEF Rows
  <2>2. QED BY <1>1, <2>1, NoRowAssumption DEF Rows
<1>3. /\ Same([job[j] EXCEPT !.retry = "due"])
      /\ [job[j] EXCEPT !.retry = "due"].lapsed = job[j].lapsed
  <2>1. [job[j] EXCEPT !.retry = "due"] \in Rows
    BY <1>1 DEF Rows
  <2>2. QED BY <1>1, <2>1, NoRowAssumption DEF Rows
<1>4. /\ Same([job[j] EXCEPT !.finished = "old"])
      /\ [job[j] EXCEPT !.finished = "old"].lapsed = job[j].lapsed
  <2>1. [job[j] EXCEPT !.finished = "old"] \in Rows
    BY <1>1 DEF Rows
  <2>2. QED BY <1>1, <2>1, NoRowAssumption DEF Rows
<1>5. PICK row : /\ Same(row) /\ job' = [job EXCEPT ![j] = row]
                 /\ \/ \E b \in BOOLEAN : job' = [job EXCEPT ![j].lapsed = b]
                    \/ row.lapsed = job[j].lapsed
  BY <1>1, <1>2, <1>3, <1>4 DEF Table
<1>6. job' \in Table /\ job'[j] = row /\ \A i \in Jobs \ {j} : job'[i] = job[i]
  BY <1>1, <1>5 DEF Table
<1>7. QuietRow(j) /\ \A i \in Jobs \ {j} : LeaseKept(i)
  BY <1>5, <1>6, UntouchedRow DEF QuietRow, Exists
<1>8. \A b \in BOOLEAN : job' = [job EXCEPT ![j].lapsed = b] => job'[j].lapsed = b
  BY <1>1, <1>2 DEF Table
<1>9. job' = [job EXCEPT ![j].retry = "due"] => LeaseKept(j)
  BY <1>1, <1>3, <1>7 DEF LeaseKept, Table
<1>10. job' = [job EXCEPT ![j].finished = "old"] => LeaseKept(j)
  BY <1>1, <1>4, <1>7 DEF LeaseKept, Table
<1>11. QED BY <1>6, <1>7, <1>8, <1>9, <1>10

\* A heartbeat of the owner, with or without a next step.
LEMMA RenewKind ==
    ASSUME Inv, NEW c \in Consolidators, Owns(c), Renew(c),
           UNCHANGED <<threadVars, output, fileVars, bounds>>,
           actor' = actor \/ (actor[c].at # "idle" /\ Goto(c, "reset"))
    PROVE  Fits /\ Renews(c, Global)
<1>1. /\ TypeOK /\ c \in Actors /\ c \notin Workers /\ Global \in Jobs
      /\ actor[c].job = Global /\ Exists(Global) /\ job[Global].status = "running"
  BY ConsolidatorOwns, MemoryAssumption DEF Inv, Actors, Jobs
<1>2. KeepsJob(c) /\ actor'[c].at \in {actor[c].at, "reset"}
      /\ (actor'[c].at = "idle" => actor[c].at = "idle")
  BY <1>1, GotoEffect, Types DEF KeepsJob, OnlyActor, Steps
<1>3. job' = [job EXCEPT ![Global].lapsed = FALSE]
  BY DEF Renew
<1>4. /\ job' \in Table /\ QuietRow(Global) /\ ~job'[Global].lapsed
      /\ \A i \in Jobs \ {Global} : LeaseKept(i)
  BY <1>1, <1>3, RowEdit
<1>5. TypeOK'
  BY <1>1, <1>2, <1>4, Types, TypesNext DEF KeepsJob, OnlyActor, bounds, TypeOK
<1>6. Roles'
  BY <1>1, <1>2, RolesNext DEF KeepsJob, Inv, SafeInv, TableInv, Roles
<1>7. Renews(c, Global)
  BY <1>1, <1>2, <1>4 DEF Renews, LeaseMoves, SourcesKept, fileVars
<1>8. QED BY <1>5, <1>6, <1>7 DEF Fits

\* A lease lapses.
LEMMA LapseKind ==
    ASSUME Inv, NEW j \in Jobs, LeaseLapses(j)
    PROVE  Fits /\ Lapses(j)
<1>1. TypeOK /\ Exists(j) /\ job[j].status = "running" /\ actor' = actor
  BY DEF Inv, LeaseLapses, Leased
<1>2. job' = [job EXCEPT ![j].lapsed = TRUE]
  BY DEF LeaseLapses
<1>3. /\ job' \in Table /\ QuietRow(j) /\ job'[j].lapsed
      /\ \A i \in Jobs \ {j} : LeaseKept(i)
  BY <1>1, <1>2, RowEdit
<1>4. faults' \in 0 .. MaxFaults
  BY <1>1 DEF LeaseLapses, TypeOK
<1>5. TypeOK'
  BY <1>1, <1>3, <1>4, Types, TypesNext DEF LeaseLapses, TypeOK
<1>6. Roles'
  BY <1>1 DEF Inv, SafeInv, TableInv, Roles
<1>7. Lapses(j)
  BY <1>1, <1>3 DEF Lapses, LeaseMoves, LeaseLapses, At, SourcesKept, fileVars
<1>8. QED BY <1>5, <1>6, <1>7 DEF Fits

\* Steps of nobody: the types of everything but the table and the outputs.
LEMMA WithdrawKind ==
    ASSUME Inv, actor' = actor, job' \in Table, output' \in [Threads -> Outputs],
           mode' \in [Threads -> {"enabled", "polluted", "deleted"}],
           updated' \in [Threads -> Sources],
           workspace' \in SUBSET Memories, baseline' \in {baseline, {}},
           faults' = faults, resets' \in 0 .. MaxResets,
           \A j \in Jobs : LeaseKept(j) \/ job'[j] = NoRow,
           QuietResets /\ job'[Global] = NoRow /\ Exists(Global) =>
                \A c \in Consolidators : actor[c].at # "reset",
           \A t \in Threads : QuietOutput(t) /\ (job'[t] = NoRow => output'[t].source = 0)
    PROVE  Fits /\ Withdraws
<1>1. TypeOK'
  BY DEF Inv, TypeOK, Table, Outputs
<1>2. Roles'
  BY DEF Inv, SafeInv, TableInv, Roles
<1>3. QED BY <1>1, <1>2 DEF Fits, Withdraws

\* Where leases and outputs stay, nothing is written.
LEMMA QuietOutputs ==
    ASSUME Inv, output' = output, \A j \in Jobs : LeaseKept(j)
    PROVE  \A t \in Threads : QuietOutput(t) /\ (job'[t] = NoRow => output'[t].source = 0)
BY DEF Inv, SafeInv, OutputIsLastSuccess, QuietOutput, LeaseKept, QuietRow, Exists, Jobs

\* Time passes, or nothing happens to the jobs.
LEMMA TimeKind ==
    ASSUME Inv,
           \/ \E j \in Jobs : RetryDue(j)
           \/ CooldownEnds
           \/ \E t \in Threads : UpdateThread(t)
           \/ UNCHANGED vars
    PROVE  Fits /\ Withdraws
<1>1. /\ TypeOK /\ job \in Table /\ output \in [Threads -> Outputs] /\ Global \in Jobs
      /\ workspace \in SUBSET Memories /\ faults \in 0 .. MaxFaults /\ resets \in 0 .. MaxResets
      /\ mode \in [Threads -> {"enabled", "polluted", "deleted"}]
      /\ updated \in [Threads -> Sources]
  BY Types DEF Inv, Table, Jobs, TypeOK
<1>2. job' \in Table /\ \A j \in Jobs : LeaseKept(j)
  <2>1. ASSUME NEW j \in Jobs, RetryDue(j) PROVE <1>2
    BY <1>1, <2>1, RowEdit DEF RetryDue
  <2>2. CASE CooldownEnds
    BY <1>1, <2>2, RowEdit DEF CooldownEnds
  <2>3. CASE job' = job
    BY <1>1, <2>3, UntouchedRow
  <2>4. QED BY <2>1, <2>2, <2>3 DEF UpdateThread, vars
<1>3. updated' \in [Threads -> Sources]
  BY <1>1, MemoryAssumption DEF RetryDue, CooldownEnds, UpdateThread, vars, threadVars, Sources
<1>4. /\ actor' = actor /\ output' = output /\ mode' = mode /\ workspace' = workspace
      /\ baseline' = baseline /\ faults' = faults /\ resets' = resets
  BY DEF RetryDue, CooldownEnds, UpdateThread, vars, threadVars, fileVars, bounds
<1>5. job'[Global] = NoRow => ~Exists(Global)
  BY <1>1, <1>2 DEF LeaseKept, QuietRow, Exists
<1>6. QED
  BY <1>1, <1>2, <1>3, <1>4, <1>5, QuietOutputs, WithdrawKind

\* What users and the retention do withdraws rows and outputs.
LEMMA UserKind ==
    ASSUME Inv,
           \/ \E t \in Threads : Pollute(t) \/ DeleteThread(t) \/ Prune(t)
           \/ Clear
    PROVE  Fits /\ Withdraws
<1>1. /\ TypeOK /\ job \in Table /\ output \in [Threads -> Outputs] /\ Global \in Jobs
      /\ workspace \in SUBSET Memories /\ faults \in 0 .. MaxFaults /\ resets \in 0 .. MaxResets
      /\ mode \in [Threads -> {"enabled", "polluted", "deleted"}]
      /\ updated \in [Threads -> Sources]
      /\ Global \notin Threads /\ Threads \subseteq Jobs
      /\ \A j \in Jobs : j = Global \/ j \in Threads
      /\ NoOutput \in Outputs /\ NoOutput.source = 0
  BY Types, MemoryAssumption DEF Inv, Table, Jobs, TypeOK, NoOutput, Outputs, Sources
<1>2. ASSUME NEW t \in Threads, Pollute(t) PROVE Fits /\ Withdraws
  <2>1. job' = job \/ job' = Enqueue(job)
    BY <1>2 DEF Pollute, EnqueueIf
  <2>2. job' \in Table /\ \A j \in Jobs : LeaseKept(j)
    BY <1>1, <2>1, EnqueueEffect, UntouchedRow DEF LeaseKept, QuietRow, Exists
  <2>3. job'[Global] = NoRow => ~Exists(Global)
    BY <1>1, <2>2 DEF LeaseKept, QuietRow, Exists
  <2>4. mode' \in [Threads -> {"enabled", "polluted", "deleted"}]
    BY <1>1, <1>2 DEF Pollute
  <2>5. /\ actor' = actor /\ output' = output /\ updated' = updated /\ workspace' = workspace
        /\ baseline' = baseline /\ faults' = faults /\ resets' = resets
    BY <1>2 DEF Pollute, fileVars, bounds
  <2>6. QED BY <1>1, <2>2, <2>3, <2>4, <2>5, QuietOutputs, WithdrawKind
<1>3. ASSUME NEW t \in Threads, DeleteThread(t) PROVE Fits /\ Withdraws
  <2>. DEFINE rows == [job EXCEPT ![t] = NoRow]
  <2>1. rows \in Table /\ rows[t] = NoRow /\ \A j \in Jobs \ {t} : rows[j] = job[j]
    BY <1>1 DEF Table
  <2>2. job' = rows \/ job' = Enqueue(rows)
    BY <1>3 DEF DeleteThread, EnqueueIf
  <2>. HIDE DEF rows
  <2>3. /\ job' \in Table /\ job'[t] = NoRow
        /\ \A j \in Jobs \ {t} : LeaseKept(j)
    BY <1>1, <2>1, <2>2, EnqueueEffect, UntouchedRow DEF LeaseKept, QuietRow, Exists
  <2>4. job'[Global] = NoRow => ~Exists(Global)
    BY <1>1, <2>3 DEF LeaseKept, QuietRow, Exists
  <2>5. mode' \in [Threads -> {"enabled", "polluted", "deleted"}]
    BY <1>1, <1>3 DEF DeleteThread
  <2>6. /\ output' \in [Threads -> Outputs] /\ output'[t].source = 0
        /\ \A u \in Threads \ {t} : output'[u] = output[u]
    BY <1>1, <1>3 DEF DeleteThread
  <2>7. \A u \in Threads : QuietOutput(u) /\ (job'[u] = NoRow => output'[u].source = 0)
    BY <1>1, <2>3, <2>6
       DEF Inv, SafeInv, OutputIsLastSuccess, QuietOutput, LeaseKept, QuietRow, Exists
  <2>8. /\ actor' = actor /\ updated' = updated /\ workspace' = workspace
        /\ baseline' = baseline /\ faults' = faults /\ resets' = resets
    BY <1>3 DEF DeleteThread, fileVars, bounds
  <2>9. QED BY <1>1, <2>3, <2>4, <2>5, <2>6, <2>7, <2>8, WithdrawKind
<1>4. ASSUME NEW t \in Threads, Prune(t) PROVE Fits /\ Withdraws
  <2>1. /\ actor' = actor /\ mode' = mode /\ updated' = updated /\ workspace' = workspace
        /\ baseline' = baseline /\ faults' = faults /\ resets' = resets /\ job' = job
    BY <1>4 DEF Prune, threadVars, fileVars, bounds
  <2>2. \A j \in Jobs : LeaseKept(j)
    BY <1>1, <2>1, UntouchedRow
  <2>3. /\ output' \in [Threads -> Outputs] /\ output'[t].source = 0
        /\ \A u \in Threads \ {t} : output'[u] = output[u]
    BY <1>1, <1>4 DEF Prune
  <2>4. \A u \in Threads : QuietOutput(u) /\ (job'[u] = NoRow => output'[u].source = 0)
    BY <2>1, <2>3 DEF Inv, SafeInv, OutputIsLastSuccess, QuietOutput, Exists
  <2>5. QED BY <1>1, <2>1, <2>2, <2>3, <2>4, WithdrawKind DEF Exists
<1>5. CASE Clear
  <2>1. /\ actor' = actor /\ mode' = mode /\ updated' = updated /\ workspace' = {}
        /\ baseline' = {} /\ faults' = faults
        /\ \A j \in Jobs : job'[j] = NoRow
        /\ job' \in Table
    BY <1>5 DEF Clear, threadVars, Table
  <2>2. /\ output' \in [Threads -> Outputs] /\ \A t \in Threads : output'[t].source = 0
    BY <1>1, <1>5 DEF Clear
  <2>3. QuietResets => \A c \in Consolidators : actor[c].at # "reset"
    BY <1>5 DEF Clear, At
  <2>4. resets' \in 0 .. MaxResets
    BY <1>1, <1>5, MemoryAssumption DEF Clear
  <2>5. QED BY <1>1, <2>1, <2>2, <2>3, <2>4, WithdrawKind DEF QuietOutput
<1>6. QED BY <1>2, <1>3, <1>4, <1>5

SomeKind ==
    \/ \E x \in Actors :
          \/ Rests(x) \/ Works(x)
          \/ \E j \in Jobs : Granted(x, j) \/ Finished(x, j) \/ Renews(x, j)
    \/ \E j \in Jobs : Lapses(j)
    \/ Withdraws

\* Every step is of one of the kinds above.
LEMMA EveryStepHasKind ==
    ASSUME Inv, [Next]_vars
    PROVE  Fits /\ SomeKind
<1>1. /\ TypeOK /\ Global \in Jobs /\ Threads \subseteq Jobs
      /\ Workers \subseteq Actors /\ Consolidators \subseteq Actors
      /\ faults \in 0 .. MaxFaults /\ resets \in 0 .. MaxResets
  BY DEF Inv, TypeOK, Jobs, Actors
<1>2. ASSUME NEW w \in Workers, WorkerStep(w) \/ \E t \in Threads : Scan(w, t)
      PROVE  Fits /\ SomeKind
  <2>1. ASSUME NEW t \in Threads, Scan(w, t) PROVE Fits /\ SomeKind
    BY <1>1, <2>1, ScanKind DEF SomeKind
  <2>2. CASE Claim(w)
    BY <1>1, <2>2, ClaimKind DEF SomeKind
  <2>3. CASE ClaimSkipped(w)
    <3>1. /\ Stop(w) /\ UNCHANGED <<threadVars, job, output, fileVars>>
          /\ faults' \in 0 .. MaxFaults /\ resets' = resets
      BY <1>1, <2>3 DEF ClaimSkipped, bounds
    <3>2. QED BY <1>1, <3>1, StopKind DEF SomeKind
  <2>4. CASE Succeed(w)
    BY <1>1, <2>4, SucceedKind DEF SomeKind
  <2>5. CASE SucceedNoOutput(w)
    BY <1>1, <2>5, SucceedNoOutputKind DEF SomeKind
  <2>6. CASE Fail(w)
    BY <1>1, <2>6, FailKind DEF SomeKind
  <2>7. QED BY <1>2, <2>1, <2>2, <2>3, <2>4, <2>5, <2>6 DEF WorkerStep
<1>3. ASSUME NEW c \in Consolidators, ClaimGlobal(c) \/ RunStep(c) \/ Heartbeat(c)
      PROVE  Fits /\ SomeKind
  <2>1. CASE ClaimGlobal(c)
    BY <1>1, <2>1, ClaimGlobalKind DEF SomeKind
  <2>2. CASE Load(c)
    BY <1>1, <2>2, LoadKind DEF SomeKind
  <2>3. CASE Sync(c) \/ Diff(c) \/ AgentCompleted(c) \/ Reset(c)
    BY <1>1, <2>3, RunKind DEF SomeKind
  <2>4. CASE Confirm(c)
    <3>1. CASE Owns(c)
      BY <1>1, <2>4, <3>1, RenewKind DEF SomeKind, Confirm, At
    <3>2. CASE ~Owns(c)
      <4>1. /\ Stop(c) /\ UNCHANGED <<threadVars, job, output, fileVars>>
            /\ faults' \in 0 .. MaxFaults /\ resets' = resets
        BY <1>1, <2>4, <3>2 DEF Confirm, bounds
      <4>2. QED BY <1>1, <4>1, StopKind DEF SomeKind
    <3>3. QED BY <3>1, <3>2
  <2>5. CASE GlobalSucceeded(c)
    BY <1>1, <2>5, GlobalSucceededKind DEF SomeKind
  <2>6. CASE GlobalFails(c)
    <3>1. GlobalFailed(c) /\ faults' \in 0 .. MaxFaults /\ resets' = resets
      BY <1>1, <2>6, MemoryAssumption DEF GlobalFails
    <3>2. QED BY <1>1, <3>1, GlobalFailedKind DEF SomeKind
  <2>7. CASE Heartbeat(c)
    <3>1. CASE Owns(c)
      BY <1>1, <2>7, <3>1, RenewKind DEF SomeKind, Heartbeat
    <3>2. CASE ~Owns(c)
      <4>1. GlobalFailed(c) /\ faults' \in 0 .. MaxFaults /\ resets' = resets
        BY <1>1, <2>7, <3>2 DEF Heartbeat, bounds
      <4>2. QED BY <1>1, <4>1, GlobalFailedKind DEF SomeKind
    <3>3. QED BY <3>1, <3>2
  <2>8. QED BY <1>3, <2>1, <2>2, <2>3, <2>4, <2>5, <2>6, <2>7 DEF RunStep
<1>4. ASSUME NEW a \in Actors, Crash(a) PROVE Fits /\ SomeKind
  <2>1. /\ Stop(a) /\ UNCHANGED <<threadVars, job, output, fileVars>>
        /\ faults' \in 0 .. MaxFaults /\ resets' = resets
    BY <1>1, <1>4, MemoryAssumption DEF Crash
  <2>2. QED BY <2>1, StopKind DEF SomeKind
<1>5. ASSUME NEW j \in Jobs, LeaseLapses(j) PROVE Fits /\ SomeKind
  BY <1>5, LapseKind DEF SomeKind
<1>6. CASE (\E j \in Jobs : RetryDue(j)) \/ CooldownEnds
           \/ (\E t \in Threads : UpdateThread(t)) \/ UNCHANGED vars
  BY <1>6, TimeKind DEF SomeKind
<1>7. CASE (\E t \in Threads : Pollute(t) \/ DeleteThread(t) \/ Prune(t)) \/ Clear
  BY <1>7, UserKind DEF SomeKind
<1>8. QED BY <1>2, <1>3, <1>4, <1>5, <1>6, <1>7 DEF Next, User

----------------------------------------------------------------------------
(* The invariant. *)

\* Only one actor owns a job.
LEMMA OneOwner ==
    ASSUME Inv, NEW a \in Actors, NEW b \in Actors, Owns(a), Owns(b),
           actor[a].job = actor[b].job
    PROVE  a = b
BY OwnsToken DEF Inv, SafeInv, TableInv, TokensDistinct

\* No kind of step takes the lease from a consolidator that resets the baseline.
LEMMA ResetStep ==
    ASSUME Inv, Fits, SomeKind, QuietResets
    PROVE  ResetIsLeased'
<1>1. SUFFICES ASSUME NEW c \in Consolidators, actor'[c].at = "reset"
               PROVE  Owns(c)' /\ ~job'[Global].lapsed
  BY DEF ResetIsLeased
<1>2. TypeOK /\ c \in Actors /\ Global \in Jobs /\ actor[c].job = Global /\ actor'[c].job = Global
  BY DEF Inv, SafeInv, TableInv, Roles, Actors, Jobs, Fits
<1>3. actor[c].at = "reset" => Owns(c) /\ ~job[Global].lapsed /\ Leased(Global)
  BY <1>2 DEF Inv, SafeInv, ResetIsLeased, Owns, Leased, Exists

\* The row is still there with the token of c, whose lease runs.
<1>4. ASSUME Owns(c), actor'[c].token = actor[c].token, QuietRow(Global), ~job'[Global].lapsed
      PROVE  Owns(c)' /\ ~job'[Global].lapsed
  BY <1>2, <1>4 DEF Owns, QuietRow, Exists
<1>5. ASSUME actor[c].at = "reset", actor'[c].token = actor[c].token, LeaseKept(Global)
      PROVE  Owns(c)' /\ ~job'[Global].lapsed
  BY <1>2, <1>3, <1>4, <1>5 DEF LeaseKept, Owns, Exists
<1>6. ASSUME NEW x \in Actors, Rests(x) \/ Works(x) PROVE Owns(c)' /\ ~job'[Global].lapsed
  <2>1. c # x
    BY <1>1, <1>6 DEF Rests, Works
  <2>2. QED BY <1>1, <1>2, <1>5, <1>6, <2>1 DEF Rests, Works, KeepsJob, OnlyActor
<1>7. ASSUME NEW x \in Actors, NEW j \in Jobs, Granted(x, j)
      PROVE  Owns(c)' /\ ~job'[Global].lapsed
  <2>1. c # x /\ actor'[c] = actor[c]
    BY <1>1, <1>2, <1>7 DEF Granted, OnlyActor
  <2>2. j # Global
    BY <1>1, <1>3, <1>7, <2>1 DEF Granted
  <2>3. QED BY <1>1, <1>2, <1>5, <1>7, <2>1, <2>2, UntouchedRow DEF Granted
<1>8. ASSUME NEW x \in Actors, NEW j \in Jobs, Finished(x, j)
      PROVE  Owns(c)' /\ ~job'[Global].lapsed
  <2>1. c # x /\ actor'[c] = actor[c]
    BY <1>1, <1>2, <1>8, IdleType DEF Finished, OnlyActor
  <2>2. j # Global
    BY <1>1, <1>2, <1>3, <1>8, <2>1, OneOwner DEF Finished
  <2>3. QED BY <1>1, <1>2, <1>5, <1>8, <2>1, <2>2 DEF Finished
<1>9. ASSUME NEW x \in Actors, NEW j \in Jobs, Renews(x, j)
      PROVE  Owns(c)' /\ ~job'[Global].lapsed
  <2>1. CASE j = Global
    <3>1. CASE x = c
      BY <1>4, <1>9, <2>1, <3>1 DEF Renews, KeepsJob, LeaseMoves
    <3>2. CASE x # c
      BY <1>1, <1>2, <1>3, <1>4, <1>9, <2>1, <3>2 DEF Renews, KeepsJob, LeaseMoves, OnlyActor
    <3>3. QED BY <3>1, <3>2
  <2>2. CASE j # Global
    <3>1. x # c
      BY <1>2, <1>9, <2>2 DEF Renews
    <3>2. QED BY <1>1, <1>2, <1>5, <1>9, <2>2, <3>1 DEF Renews, KeepsJob, LeaseMoves, OnlyActor
  <2>3. QED BY <2>1, <2>2
<1>10. ASSUME NEW j \in Jobs, Lapses(j) PROVE Owns(c)' /\ ~job'[Global].lapsed
  <2>1. j # Global
    BY <1>1, <1>3, <1>10 DEF Lapses
  <2>2. QED BY <1>1, <1>2, <1>5, <1>10, <2>1 DEF Lapses, LeaseMoves
<1>11. CASE Withdraws
  BY <1>1, <1>2, <1>3, <1>5, <1>11 DEF Withdraws, Leased
<1>12. QED BY <1>6, <1>7, <1>8, <1>9, <1>10, <1>11 DEF SomeKind

\* Every action preserves the inductive invariant.
LEMMA InvStep ==
    ASSUME Inv, [Next]_vars
    PROVE  Inv'
<1>1. Fits /\ SomeKind
  BY EveryStepHasKind
<1>2. /\ TypeOK' /\ Roles' /\ (QuietResets => ResetIsLeased')
      /\ Threads \subseteq Jobs /\ TypeOK
  BY <1>1, ResetStep DEF Fits, Inv, Jobs
<1>3. ASSUME \A j \in Jobs : LeaseKept(j) \/ (QuietRow(j) /\ Exists(j)), SourcesKept
      PROVE  \A t \in Threads : QuietOutput(t) /\ (job'[t] = NoRow => output'[t].source = 0)
  BY <1>2, <1>3 DEF Inv, SafeInv, OutputIsLastSuccess, QuietOutput, LeaseKept, QuietRow, Exists,
                    SourcesKept
<1>4. ASSUME NEW x \in Actors, OnlyActor(x), QuietActor(x)
      PROVE  \A a \in Actors : QuietActor(a)
  BY <1>4 DEF OnlyActor, QuietActor
<1>5. ASSUME NEW x \in Actors, Rests(x) \/ Works(x) PROVE SafeInv'
  <2>1. \A a \in Actors : QuietActor(a)
    BY <1>4, <1>5 DEF Rests, Works, KeepsJob, QuietActor
  <2>2. /\ \A j \in Jobs : QuietRow(j)
        /\ \A t \in Threads : QuietOutput(t) /\ (job'[t] = NoRow => output'[t].source = 0)
    BY <1>3, <1>5 DEF Rests, Works, LeaseKept
  <2>3. QED BY <1>2, <2>1, <2>2, QuietKeepsInv
<1>6. ASSUME NEW x \in Actors, NEW j \in Jobs, Granted(x, j) PROVE SafeInv'
  BY <1>2, <1>6, GrantKeepsInv DEF Granted
<1>7. ASSUME NEW x \in Actors, NEW j \in Jobs, Finished(x, j) PROVE SafeInv'
  BY <1>2, <1>7, IdleType, FinishKeepsInv DEF Finished, LeaseKept
<1>8. ASSUME NEW j \in Jobs, LeaseMoves(j), \A a \in Actors : QuietActor(a) PROVE SafeInv'
  <2>1. /\ \A i \in Jobs : QuietRow(i)
        /\ \A t \in Threads : QuietOutput(t) /\ (job'[t] = NoRow => output'[t].source = 0)
    BY <1>3, <1>8 DEF LeaseMoves, LeaseKept
  <2>2. QED BY <1>2, <1>8, <2>1, QuietKeepsInv
<1>9. ASSUME NEW x \in Actors, NEW j \in Jobs, Renews(x, j) PROVE SafeInv'
  BY <1>4, <1>8, <1>9 DEF Renews, KeepsJob, QuietActor
<1>10. ASSUME NEW j \in Jobs, Lapses(j) PROVE SafeInv'
  BY <1>8, <1>10 DEF Lapses, QuietActor
<1>11. ASSUME Withdraws PROVE SafeInv'
  <2>1. \A a \in Actors : QuietActor(a)
    BY <1>11 DEF Withdraws, QuietActor
  <2>2. QED BY <1>2, <1>11, <2>1, QuietKeepsInv DEF Withdraws, LeaseKept
<1>12. QED BY <1>1, <1>2, <1>5, <1>6, <1>7, <1>9, <1>10, <1>11 DEF SomeKind, Inv

\* The initial states.
LEMMA InvInit ==
    ASSUME Init
    PROVE  Inv
<1> USE MemoryAssumption
<1>1. TypeOK
  <2>1. NoOutput \in Outputs
    BY DEF NoOutput, Outputs, Sources
  <2>2. updated \in [Threads -> Sources]
    BY DEF Init, Sources
  <2>3. QED BY <2>1, <2>2, IdleType DEF Init, TypeOK, ActorRecs, Steps, Outputs
<1>2. SafeInv
  BY IdleType DEF Init, SafeInv, TableInv, RunningHasToken, RunningIsNewer, Roles, TokensDistinct,
         OwnerExtractsInput, OutputIsLastSuccess, ResetIsLeased, Exists, Owns, NoOutput, Jobs, Actors
<1>3. QED BY <1>1, <1>2 DEF Inv

\* No step takes the last extracted version of a thread back.
LEMMA WatermarkStep ==
    ASSUME Inv, [Next]_vars
    PROVE  \A t \in Threads : Exists(t) /\ Exists(t)' => job[t].success <= job'[t].success
<1>1. SUFFICES ASSUME NEW t \in Threads, Exists(t), Exists(t)'
               PROVE  job[t].success <= job'[t].success
  OBVIOUS
<1>2. Fits /\ SomeKind
  BY EveryStepHasKind
<1>3. t \in Jobs /\ job[t] \in Rows /\ job[t].success \in Int /\ job[t].input \in Int
  BY <1>1, Types DEF Inv, Jobs, Rows, Sources
<1>4. QuietRow(t) => job[t].success <= job'[t].success
  BY <1>1, <1>3 DEF QuietRow
<1>5. ASSUME NEW x \in Actors, NEW j \in Jobs, Granted(x, j)
      PROVE  job[t].success <= job'[t].success
  BY <1>1, <1>3, <1>5 DEF Granted
<1>6. ASSUME NEW x \in Actors, NEW j \in Jobs, Finished(x, j)
      PROVE  job[t].success <= job'[t].success
  <2>1. CASE j = t
    <3>1. job[t].status = "running"
      BY <1>6, <2>1 DEF Finished, Owns
    <3>2. job[t].success < job[t].input
      BY <1>1, <3>1 DEF Inv, SafeInv, TableInv, RunningIsNewer
    <3>3. QED BY <1>1, <1>3, <1>6, <2>1, <3>2 DEF Finished
  <2>2. CASE j # t
    BY <1>3, <1>4, <1>6, <2>2 DEF Finished, LeaseKept
  <2>3. QED BY <2>1, <2>2
<1>7. ASSUME NEW j \in Jobs, LeaseMoves(j) PROVE job[t].success <= job'[t].success
  BY <1>3, <1>4, <1>7 DEF LeaseMoves, LeaseKept
<1>8. QED
  BY <1>1, <1>2, <1>3, <1>4, <1>5, <1>6, <1>7
     DEF SomeKind, Rests, Works, Renews, Lapses, Withdraws, LeaseKept, Exists

----------------------------------------------------------------------------
\* A stored memory is always the one that the job table records as done
\* (mark_stage1_job_succeeded), whoever took the job over in the meantime.
THEOREM TableAgrees == Spec => []JobsInv
<1>1. Init => Inv
  BY InvInit
<1>2. Inv /\ [Next]_vars => Inv'
  BY InvStep
<1>3. Inv => JobsInv
  BY DEF Inv, SafeInv, JobsInv
<1>4. QED BY <1>1, <1>2, <1>3, PTL DEF Spec

\* The version of a thread that was last extracted only gets newer
\* (try_claim_stage1_job compares the watermarks again under its transaction).
THEOREM WatermarksAdvance == Spec => WatermarkAdvances
<1>1. Init => Inv
  BY InvInit
<1>2. Inv /\ [Next]_vars => Inv'
  BY InvStep
<1>3. Inv /\ [Next]_vars =>
        [\A t \in Threads : Exists(t) /\ Exists(t)' => job[t].success <= job'[t].success]_vars
  BY WatermarkStep
<1>4. QED BY <1>1, <1>2, <1>3, PTL DEF Spec, WatermarkAdvances

----------------------------------------------------------------------------
(* The job table implements Lease. *)

\* Whoever has the token of the row holds the job.
HolderHasToken ==
    \A j \in Jobs :
        /\ Running(j) <=> TokenOf(j) # NoToken
        /\ TokenOf(j) = NoToken => HolderOf(j) = NoRow
        /\ TokenOf(j) # NoToken =>
              /\ \A a \in Actors : actor[a].token = TokenOf(j) => HolderOf(j) = a
              /\ (\A a \in Actors : actor[a].token # TokenOf(j)) => HolderOf(j) = NoToken

\* The holder of a job, under the mapping to Lease, is the actor with its token.
LEMMA HolderIs == TypeOK /\ TableInv => HolderHasToken
<1>. SUFFICES ASSUME TypeOK, TableInv, NEW j \in Jobs
              PROVE  /\ Running(j) <=> TokenOf(j) # NoToken
                     /\ TokenOf(j) = NoToken => HolderOf(j) = NoRow
                     /\ TokenOf(j) # NoToken =>
                           /\ \A a \in Actors : actor[a].token = TokenOf(j) => HolderOf(j) = a
                           /\ (\A a \in Actors : actor[a].token # TokenOf(j)) =>
                                 HolderOf(j) = NoToken
  BY DEF HolderHasToken
<1>1. Running(j) <=> TokenOf(j) # NoToken
  BY DEF TableInv, RunningHasToken, Running, TokenOf
<1>2. ASSUME NEW a \in Actors
      PROVE  actor[a].job = j /\ Owns(a) <=>
                TokenOf(j) # NoToken /\ actor[a].token = TokenOf(j)
  <2>1. Owns(a) <=> actor[a].token # NoToken /\ TokenOf(actor[a].job) = actor[a].token
    BY OwnsToken DEF TableInv
  <2>2. QED BY <2>1 DEF TableInv, TokensDistinct
<1>3. ASSUME TokenOf(j) # NoToken, NEW a \in Actors, actor[a].token = TokenOf(j)
      PROVE  HolderOf(j) = a
  <2>1. actor[a].job = j /\ Owns(a)
    BY <1>2, <1>3
  <2>2. \A b \in Actors : actor[b].job = j /\ Owns(b) => b = a
    BY <1>2, <1>3 DEF TableInv, TokensDistinct
  <2>3. (CHOOSE b \in Actors : actor[b].job = j /\ Owns(b)) = a
    BY <2>1, <2>2
  <2>4. QED BY <1>1, <1>3, <2>1, <2>3 DEF HolderOf, Held
<1>4. ASSUME TokenOf(j) # NoToken, \A a \in Actors : actor[a].token # TokenOf(j)
      PROVE  HolderOf(j) = NoToken
  BY <1>1, <1>2, <1>4 DEF HolderOf, Held, Lost
<1>5. TokenOf(j) = NoToken => HolderOf(j) = NoRow
  BY <1>1 DEF HolderOf, Free
<1>6. QED BY <1>1, <1>3, <1>4, <1>5

\* The same after the step.
LEMMA HolderIsNext == (TypeOK /\ TableInv => HolderHasToken)'
BY HolderIs, PTL

LapsedJobs == {j \in Jobs : Running(j) /\ job[j].lapsed}
ProductOf(j) == IF j = Global THEN baseline ELSE {<<j, s>> : s \in {output[j].source} \ {0}}

ProductsKept == \A j \in Jobs : ProductOf(j)' = ProductOf(j)
HoldersKept == \A j \in Jobs : HolderOf(j)' = HolderOf(j)

\* A crash leaves the job to a holder that is gone.
LEMMA CrashMaps ==
    ASSUME NEW x \in Actors,
           \A j \in Jobs : HolderOf(j)' = IF HolderOf(j) = x THEN Lost ELSE HolderOf(j),
           LapsedJobs' = LapsedJobs, ProductsKept
    PROVE  L!Crash(x)
BY DEF L!Crash, LapsedJobs, ProductOf, ProductsKept

\* A grant is Lease's grant.
LEMMA GrantMaps ==
    ASSUME NEW x \in Actors, NEW j \in Jobs, HolderOf(j) = Free \/ j \in LapsedJobs,
           \A i \in Jobs : HolderOf(i) # x, HolderOf(j)' = x,
           \A i \in Jobs \ {j} : HolderOf(i)' = HolderOf(i),
           LapsedJobs' = LapsedJobs \ {j}, ProductsKept
    PROVE  L!Grant(j, x)
BY DEF L!Grant, LapsedJobs, ProductOf, ProductsKept

\* A write is Lease's write.
LEMMA WriteMaps ==
    ASSUME NEW j \in Jobs, HolderOf(j) \in Actors, ProductOf(j)' \in SUBSET Memories,
           \A i \in Jobs \ {j} : ProductOf(i)' = ProductOf(i),
           HoldersKept, LapsedJobs' = LapsedJobs
    PROVE  L!Write(j)
BY DEF L!Write, L!Makes, LapsedJobs, ProductOf, HoldersKept

\* A finish is Lease's finish.
LEMMA FinishMaps ==
    ASSUME NEW j \in Jobs, HolderOf(j) \in Actors, ProductOf(j)' \in SUBSET Memories,
           \A i \in Jobs \ {j} : ProductOf(i)' = ProductOf(i),
           HolderOf(j)' = Free, \A i \in Jobs \ {j} : HolderOf(i)' = HolderOf(i),
           LapsedJobs' = LapsedJobs \ {j}
    PROVE  L!Finish(j)
BY DEF L!Finish, L!Makes, LapsedJobs, ProductOf

\* A lapse is Lease's lapse.
LEMMA LapseMaps ==
    ASSUME NEW j \in Jobs, HolderOf(j) # Free, LapsedJobs' = LapsedJobs \cup {j},
           HoldersKept, ProductsKept
    PROVE  L!Lapse(j)
BY DEF L!Lapse, LapsedJobs, ProductOf, HoldersKept, ProductsKept

\* A renewal is Lease's renewal.
LEMMA RenewMaps ==
    ASSUME NEW j \in Jobs, HolderOf(j) \in Actors, LapsedJobs' = LapsedJobs \ {j},
           HoldersKept, ProductsKept
    PROVE  L!Renew(j)
BY DEF L!Renew, LapsedJobs, ProductOf, HoldersKept, ProductsKept

\* A withdrawal is Lease's withdrawal.
LEMMA WithdrawMaps ==
    ASSUME \A j \in Jobs : HolderOf(j)' \in {HolderOf(j), Free},
           \A j \in Jobs : ProductOf(j)' \in {ProductOf(j), {}},
           LapsedJobs' = {j \in LapsedJobs : HolderOf(j)' # Free}
    PROVE  L!Withdraw
BY DEF L!Withdraw, LapsedJobs, ProductOf

\* Every step of the table is a step of the lease, or changes nothing in it.
LEMMA LeaseStep ==
    ASSUME Inv, [Next]_vars, QuietResets
    PROVE  L!Next \/ UNCHANGED L!leaseVars
<1>1. SomeKind /\ Fits
  BY EveryStepHasKind
<1>2. TypeOK /\ TableInv /\ TypeOK' /\ TableInv' /\ Threads \subseteq Jobs /\ Global \in Jobs
      /\ Global \notin Threads /\ (\A j \in Jobs : j = Global \/ j \in Threads)
      /\ Consolidators \subseteq Actors
  BY InvStep, MemoryAssumption DEF Inv, SafeInv, Jobs, Actors
<1>3. HolderHasToken /\ HolderHasToken'
  BY <1>2, HolderIs, HolderIsNext
<1>4. NoRow \notin Actors /\ NoToken \notin Actors /\ NoRow # NoToken
  BY MemoryAssumption
<1>5. ASSUME NEW j \in Jobs, QuietRow(j) PROVE TokenOf(j)' = TokenOf(j)
  BY <1>5, NewRowType DEF QuietRow, TokenOf, Exists
<1>6. ASSUME NEW j \in Jobs, LeaseKept(j)
      PROVE  TokenOf(j)' = TokenOf(j) /\ (j \in LapsedJobs' <=> j \in LapsedJobs)
  <2>1. TokenOf(j)' = TokenOf(j)
    BY <1>5, <1>6 DEF LeaseKept
  <2>2. Running(j)' <=> Running(j)
    BY <1>3, <2>1 DEF HolderHasToken
  <2>3. QED BY <1>6, <2>1, <2>2 DEF LapsedJobs, LeaseKept, Running
<1>7. ASSUME NEW j \in Jobs, TokenOf(j)' = TokenOf(j),
             \A a \in Actors : actor'[a].token = actor[a].token
      PROVE  HolderOf(j)' = HolderOf(j)
  BY <1>3, <1>7 DEF HolderHasToken
<1>8. ASSUME SourcesKept, baseline' = baseline PROVE ProductsKept
  BY <1>2, <1>8 DEF SourcesKept, ProductsKept, ProductOf
<1>9. ASSUME NEW t \in Threads, TypeOK' PROVE ProductOf(t)' \in SUBSET Memories
  <2>1. output'[t].source \in Sources /\ t # Global
    BY <1>2, <1>9 DEF TypeOK
  <2>2. QED BY <2>1 DEF ProductOf, Memories
<1>10. ASSUME NEW x \in Actors, Rests(x) PROVE L!Crash(x)
  <2>1. \A j \in Jobs : TokenOf(j)' = TokenOf(j)
    BY <1>6, <1>10 DEF Rests
  <2>2. LapsedJobs' = LapsedJobs
    BY <1>6, <1>10 DEF Rests, LapsedJobs
  <2>3. ASSUME NEW j \in Jobs
        PROVE  HolderOf(j)' = IF HolderOf(j) = x THEN Lost ELSE HolderOf(j)
    <3>1. CASE TokenOf(j) = NoToken
      BY <1>3, <1>4, <2>1, <3>1 DEF HolderHasToken
    <3>2. CASE TokenOf(j) # NoToken /\ actor[x].token = TokenOf(j)
      <4>1. \A a \in Actors : actor'[a].token # TokenOf(j)'
        BY <1>2, <1>10, <2>1, <3>2 DEF Rests, OnlyActor, TableInv, TokensDistinct
      <4>2. QED BY <1>3, <2>1, <3>2, <4>1 DEF HolderHasToken, Lost
    <3>3. CASE TokenOf(j) # NoToken /\ actor[x].token # TokenOf(j)
      <4>1. \A a \in Actors : actor'[a].token = TokenOf(j)' <=> actor[a].token = TokenOf(j)
        BY <1>10, <2>1, <3>3 DEF Rests, OnlyActor
      <4>2. HolderOf(j)' = HolderOf(j) /\ HolderOf(j) # x
        BY <1>3, <1>4, <2>1, <3>3, <4>1 DEF HolderHasToken
      <4>3. QED BY <4>2
    <3>4. QED BY <3>1, <3>2, <3>3
  <2>4. ProductsKept
    BY <1>8, <1>10 DEF Rests
  <2>5. QED BY <2>2, <2>3, <2>4, CrashMaps
<1>11. ASSUME NEW x \in Actors, Works(x) PROVE L!Write(Global) \/ UNCHANGED L!leaseVars
  <2>1. HoldersKept
    BY <1>6, <1>7, <1>11 DEF Works, KeepsJob, OnlyActor, HoldersKept
  <2>2. LapsedJobs' = LapsedJobs
    BY <1>6, <1>11 DEF Works, LapsedJobs
  <2>3. CASE baseline' = baseline
    <3>1. ProductsKept
      BY <1>8, <1>11, <2>3 DEF Works
    <3>2. QED BY <2>1, <2>2, <3>1 DEF L!leaseVars, HoldersKept, ProductsKept, LapsedJobs, ProductOf
  <2>4. CASE x \in Consolidators /\ actor[x].at = "reset"
    <3>1. Owns(x) /\ actor[x].job = Global
      BY <2>4 DEF Inv, SafeInv, ResetIsLeased, TableInv, Roles
    <3>2. HolderOf(Global) \in Actors
      <4>1. actor[x].token # NoToken /\ TokenOf(Global) = actor[x].token
        BY <1>2, <3>1, OwnsToken DEF TableInv
      <4>2. QED BY <1>2, <1>3, <4>1 DEF HolderHasToken
    <3>3. \A i \in Jobs \ {Global} : ProductOf(i)' = ProductOf(i)
      BY <1>2, <1>11 DEF Works, SourcesKept, ProductOf
    <3>4. ProductOf(Global)' \in SUBSET Memories
      BY <1>2 DEF ProductOf, TypeOK
    <3>5. QED BY <1>2, <2>1, <2>2, <3>2, <3>3, <3>4, WriteMaps
  <2>5. QED BY <1>11, <2>3, <2>4 DEF Works
<1>12. ASSUME NEW x \in Actors, NEW j \in Jobs, Granted(x, j) PROVE L!Grant(j, x)
  <2>1. /\ TokenOf(j)' = actor'[x].token /\ actor'[x].token # NoToken
        /\ \A i \in Jobs \ {j} : TokenOf(i)' = TokenOf(i)
        /\ \A i \in Jobs : TokenOf(i) # actor'[x].token
        /\ \A a \in Actors : actor[a].token # actor'[x].token
        /\ \A a \in Actors \ {x} : actor'[a].token = actor[a].token
    BY <1>12, MemoryAssumption DEF Granted, TokenOf, Exists, UsedTokens, OnlyActor
  <2>2. HolderOf(j) = Free \/ j \in LapsedJobs
    BY <1>3, <1>12 DEF Granted, Leased, HolderHasToken, Running, LapsedJobs, Free
  <2>3. \A i \in Jobs : HolderOf(i) # x
    BY <1>3, <1>4, <1>12 DEF Granted, HolderHasToken
  <2>4. HolderOf(j)' = x
    BY <1>3, <2>1 DEF HolderHasToken
  <2>5. ASSUME NEW i \in Jobs \ {j} PROVE HolderOf(i)' = HolderOf(i)
    <3>1. TokenOf(i)' = TokenOf(i) /\ actor'[x].token # TokenOf(i)
      BY <2>1
    <3>2. TokenOf(i) # NoToken =>
            \A a \in Actors : actor'[a].token = TokenOf(i) <=> actor[a].token = TokenOf(i)
      BY <1>12, <2>1, <3>1 DEF Granted
    <3>3. QED BY <1>3, <3>1, <3>2 DEF HolderHasToken
  <2>6. LapsedJobs' = LapsedJobs \ {j}
    <3>1. \A i \in Jobs \ {j} : i \in LapsedJobs' <=> i \in LapsedJobs
      BY <1>12 DEF Granted, LapsedJobs, Running, Exists
    <3>2. j \notin LapsedJobs'
      BY <1>12 DEF Granted, LapsedJobs
    <3>3. QED BY <3>1, <3>2 DEF LapsedJobs
  <2>7. ProductsKept
    BY <1>8, <1>12 DEF Granted, SourcesKept
  <2>8. QED BY <2>2, <2>3, <2>4, <2>5, <2>6, <2>7, GrantMaps
<1>13. ASSUME NEW x \in Actors, NEW j \in Jobs, Finished(x, j) PROVE L!Finish(j)
  <2>1. actor[x].token # NoToken /\ TokenOf(j) = actor[x].token
    BY <1>2, <1>13, OwnsToken DEF Finished, TableInv
  <2>2. HolderOf(j) \in Actors
    BY <1>3, <2>1 DEF HolderHasToken
  <2>3. TokenOf(j)' = NoToken /\ HolderOf(j)' = Free
    BY <1>3, <1>13 DEF Finished, TokenOf, HolderHasToken, Free
  <2>4. ASSUME NEW i \in Jobs \ {j} PROVE HolderOf(i)' = HolderOf(i)
    <3>1. TokenOf(i)' = TokenOf(i) /\ TokenOf(i) # actor[x].token
      BY <1>2, <1>6, <1>13, <2>1 DEF Finished, TableInv, TokensDistinct
    <3>2. TokenOf(i) # NoToken =>
            \A a \in Actors : actor'[a].token = TokenOf(i) <=> actor[a].token = TokenOf(i)
      BY <1>13, <3>1, IdleType DEF Finished, OnlyActor
    <3>3. QED BY <1>3, <3>1, <3>2 DEF HolderHasToken
  <2>5. LapsedJobs' = LapsedJobs \ {j}
    <3>1. \A i \in Jobs \ {j} : i \in LapsedJobs' <=> i \in LapsedJobs
      BY <1>6, <1>13 DEF Finished
    <3>2. j \notin LapsedJobs'
      BY <1>13 DEF Finished, LapsedJobs, Running
    <3>3. QED BY <3>1, <3>2 DEF LapsedJobs
  <2>6. \A i \in Jobs \ {j} : ProductOf(i)' = ProductOf(i)
    BY <1>2, <1>13 DEF Finished, ProductOf
  <2>7. ProductOf(j)' \in SUBSET Memories
    BY <1>2, <1>9, <1>13 DEF Finished, ProductOf, TypeOK
  <2>8. QED BY <2>2, <2>3, <2>4, <2>5, <2>6, <2>7, FinishMaps
<1>14. ASSUME NEW x \in Actors, NEW j \in Jobs, Renews(x, j) PROVE L!Renew(j)
  <2>1. actor[x].token # NoToken /\ TokenOf(j) = actor[x].token
    BY <1>2, <1>14, OwnsToken DEF Renews, TableInv
  <2>2. HolderOf(j) \in Actors
    BY <1>3, <2>1 DEF HolderHasToken
  <2>3. HoldersKept
    BY <1>5, <1>6, <1>7, <1>14 DEF Renews, LeaseMoves, KeepsJob, OnlyActor, HoldersKept
  <2>4. LapsedJobs' = LapsedJobs \ {j}
    <3>1. \A i \in Jobs \ {j} : i \in LapsedJobs' <=> i \in LapsedJobs
      BY <1>6, <1>14 DEF Renews, LeaseMoves
    <3>2. j \notin LapsedJobs'
      BY <1>14 DEF Renews, LapsedJobs
    <3>3. QED BY <3>1, <3>2 DEF LapsedJobs
  <2>5. ProductsKept
    BY <1>8, <1>14 DEF Renews, LeaseMoves
  <2>6. QED BY <2>2, <2>3, <2>4, <2>5, RenewMaps
<1>15. ASSUME NEW j \in Jobs, Lapses(j) PROVE L!Lapse(j)
  <2>1. TokenOf(j) # NoToken /\ TokenOf(j)' = TokenOf(j)
    BY <1>3, <1>5, <1>15 DEF Lapses, LeaseMoves, Running, HolderHasToken
  <2>2. HolderOf(j) # Free
    BY <1>3, <1>4, <2>1 DEF HolderHasToken, Free
  <2>3. HoldersKept
    BY <1>6, <1>7, <1>15, <2>1 DEF Lapses, LeaseMoves, HoldersKept
  <2>4. LapsedJobs' = LapsedJobs \cup {j}
    <3>1. \A i \in Jobs \ {j} : i \in LapsedJobs' <=> i \in LapsedJobs
      BY <1>6, <1>15 DEF Lapses, LeaseMoves
    <3>2. j \in LapsedJobs'
      BY <1>3, <1>15, <2>1 DEF Lapses, LapsedJobs, HolderHasToken
    <3>3. QED BY <3>1, <3>2 DEF LapsedJobs
  <2>5. ProductsKept
    BY <1>8, <1>15 DEF Lapses, LeaseMoves
  <2>6. QED BY <2>2, <2>3, <2>4, <2>5, LapseMaps
<1>16. ASSUME Withdraws PROVE L!Withdraw
  <2>1. ASSUME NEW j \in Jobs
        PROVE  /\ HolderOf(j)' \in {HolderOf(j), Free}
               /\ j \in LapsedJobs' <=> j \in LapsedJobs /\ HolderOf(j)' # Free
    <3>1. CASE LeaseKept(j)
      <4>1. HolderOf(j)' = HolderOf(j)
        BY <1>6, <1>7, <1>16, <3>1 DEF Withdraws
      <4>2. j \in LapsedJobs => HolderOf(j) # Free
        BY <1>3, <1>4 DEF LapsedJobs, HolderHasToken, Free
      <4>3. QED BY <1>6, <3>1, <4>1, <4>2
    <3>2. CASE job'[j] = NoRow
      BY <1>3, <3>2 DEF HolderHasToken, TokenOf, Exists, LapsedJobs, Running, Free
    <3>3. QED BY <1>16, <3>1, <3>2 DEF Withdraws
  <2>2. \A j \in Jobs : ProductOf(j)' \in {ProductOf(j), {}}
    BY <1>2, <1>16 DEF Withdraws, QuietOutput, ProductOf
  <2>3. LapsedJobs' = {j \in LapsedJobs : HolderOf(j)' # Free}
    BY <2>1 DEF LapsedJobs
  <2>4. QED BY <2>1, <2>2, <2>3, WithdrawMaps
<1>17. QED
  BY <1>1, <1>2, <1>10, <1>11, <1>12, <1>13, <1>14, <1>15, <1>16 DEF SomeKind, L!Next

\* The initial states are initial states of Lease.
LEMMA LeaseInit ==
    ASSUME Init
    PROVE  L!Init
<1>1. \A j \in Jobs : HolderOf(j) = Free /\ ~Running(j)
  BY DEF Init, HolderOf, Running, Exists
<1>2. \A t \in Threads : output[t].source = 0
  BY DEF Init, NoOutput
<1>3. \A j \in Jobs : ProductOf(j) = {}
  BY <1>2 DEF ProductOf, Init, Jobs
<1>4. QED BY <1>1, <1>3 DEF L!Init, ProductOf

\* The job table is a lease: at any time a job has at most one holder, what it
\* makes changes only in the hands of that holder, and a holder is superseded
\* only once its lease has lapsed.  The ownership tokens that every UPDATE of
\* memories.rs compares are what makes it so.  The user's reset of the memories
\* is taken to wait for the consolidations at work.
THEOREM TableImplementsLease == QuietResets => (Spec => JobsAreLeases)
<1>. SUFFICES ASSUME QuietResets PROVE Spec => JobsAreLeases
  OBVIOUS
<1>1. Init => Inv /\ L!Init
  BY InvInit, LeaseInit
<1>2. Inv /\ [Next]_vars => Inv' /\ [L!Next]_(L!leaseVars)
  BY InvStep, LeaseStep
<1>3. QED BY <1>1, <1>2, PTL DEF Spec, JobsAreLeases, L!Spec
=============================================================================
