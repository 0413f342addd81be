------------------------- MODULE UnifiedExecProofs -------------------------
(***************************************************************************)
(* StoreInv, NoOrphan and InterruptSparesWaiting for any number of         *)
(* exec_command calls, process ids and inputs, and a store of any size.    *)
(***************************************************************************)
EXTENDS UnifiedExec, FiniteSetTheorems, TLAPS

----------------------------------------------------------------------------
(* The inductive invariant. *)

\* Where a call is before its process can be in the store, and after.
Before == {"idle", "opening", "begin", "store"}
Past == {"cleanup", "collect", "end", "release", "refresh", "done", "aborted"}

\* A call has an id from its start on, its own, and only such ids are reserved.
IdsDistinct ==
    /\ \A c \in Calls : pc[c] = "idle" <=> id[c] = NoId
    /\ \A c, d \in Calls : id[c] # NoId /\ id[c] = id[d] => c = d
    /\ \A i \in reserved : \E c \in Calls : id[c] = i

\* Whoever finds a process in the store, or has taken it out, holds one that its own
\* call has put there, under the id of that call.
EntriesOwned ==
    /\ \A i \in Ids : store[i] # NoCall =>
         /\ id[store[i]] = i
         /\ pc[store[i]] \in Past /\ begun[store[i]]
    /\ writer.pc # "idle" =>
         /\ writer.call \in Calls /\ id[writer.call] = writer.id
         /\ pc[writer.call] \in Past
    /\ writer.pc = "idle" => writer = NoWriter
    /\ \A d \in Calls : pruning[d] # NoCall => pc[d] = "cleanup" /\ pc[pruning[d]] \in Past
    /\ \A c \in cleaner.left : pc[c] \in Past
    /\ cleaner.pc = "idle" => cleaner.left = {}

\* What is known of a process by the place its call has reached.
PlaceOK(c) ==
    /\ pc[c] \in {"idle", "opening"} =>
         os[c] = "none" /\ ~failed[c] /\ net[c] = "none" /\ denial[c] = "off"
    /\ pc[c] = "store" => begun[c]
    /\ pc[c] \in {"store", "cleanup"} => startedAlive[c]
    /\ watcher[c] # "off" => pc[c] \in Past \ {"cleanup"} /\ startedAlive[c]

\* A process whose token is cancelled, or that failed, does not run or is lost; one
\* that runs while its call waits was stored and has its exit watcher, and one that
\* runs at the end of its call is there to be terminated after a denial.
RunningOK(c) ==
    os[c] = "running" =>
        /\ ~token[c] /\ ~failed[c]
        /\ pc[c] \in {"collect", "end", "release", "refresh"} =>
             startedAlive[c] /\ watcher[c] = "waiting"
        /\ pc[c] \in {"end", "release"} => net[c] = "denied"

\* The End event of a process is still to come.
EndToCome(c) ==
    \/ pc[c] \in Before \cup {"cleanup"}
    \/ pc[c] \in {"collect", "end"} /\ ~startedAlive[c]
    \/ watcher[c] = "waiting"

EndsOK(c) ==
    /\ ends[c] \in {0, 1}
    /\ EndToCome(c) => ends[c] = 0
    /\ ends[c] = 1 => os[c] # "running"

\* Who answers for a running process: its call until it is stored, then the store,
\* then the one who took it out.
Reachable(c) ==
    \/ pc[c] \in {"begin", "store"}
    \/ c \in Stored
    \/ \E d \in Calls : pruning[d] = c
    \/ c \in cleaner.left
    \/ c \in abandoned

AllReachable == \A c \in Calls : os[c] = "running" => Reachable(c)

\* What a terminate-all has still to stop are the entries it has drained.
DueAreDrained ==
    \A c \in cleans.due :
        /\ os[c] # "none"
        /\ cleans.quiet /\ c \notin abandoned /\ os[c] = "running" => c \in cleaner.left

\* Every set of processes that were looked at has a least recently used one.
AgesOrdered ==
    \A S \in SUBSET {c \in Calls : begun[c]} : S # {} =>
        \E c \in S : \A d \in S \ {c} : c \in older[d]

IdInv == IdsDistinct /\ EntriesOwned
ProcessInv == \A c \in Calls : PlaceOK(c) /\ RunningOK(c) /\ EndsOK(c)
ReachInv == AllReachable /\ DueAreDrained
BoundInv == AgesOrdered /\ StoreBounded

\* The inductive invariant.
Inv == TypeOK /\ IdInv /\ ProcessInv /\ ReachInv /\ BoundInv

----------------------------------------------------------------------------
(* What the steps do, and what keeps the parts of the invariant. *)

\* The types of the per-process variables that terminate() changes.
LEMMA ProcessTypes ==
    ASSUME TypeOK
    PROVE  /\ os \in [Calls -> {"none", "running", "killed", "exited", "lost"}]
           /\ token \in [Calls -> BOOLEAN] /\ failed \in [Calls -> BOOLEAN]
           /\ net \in [Calls -> {"none", "open", "denied", "closed"}]
BY DEF TypeOK

\* After terminate(): what still runs ran before, was not to be terminated, and is
\* held by somebody; its token is as it was.
LEMMA Terminated ==
    ASSUME TypeOK, NEW T, Terminate(T)
    PROVE  /\ os' \in [Calls -> {"none", "running", "killed", "exited", "lost"}]
           /\ token' \in [Calls -> BOOLEAN]
           /\ \A c \in Calls :
                /\ os[c] = "none" <=> os'[c] = "none"
                /\ os'[c] = "running" =>
                     os[c] = "running" /\ c \notin T /\ Held(c)' /\ token'[c] = token[c]
<1> DEFINE H(c) == Held(c)'
<1>1. /\ os' = [c \in Calls |->
                  IF (os[c] # "none" /\ (c \in T \/ ~H(c))) /\ os[c] = "running"
                  THEN "killed" ELSE os[c]]
      /\ token' = [c \in Calls |-> token[c] \/ (os[c] # "none" /\ (c \in T \/ ~H(c)))]
  BY DEF Terminate
<1> HIDE DEF H
<1>2. /\ os' \in [Calls -> {"none", "running", "killed", "exited", "lost"}]
      /\ token' \in [Calls -> BOOLEAN]
      /\ \A c \in Calls :
           /\ os[c] = "none" <=> os'[c] = "none"
           /\ os'[c] = "running" =>
                os[c] = "running" /\ c \notin T /\ H(c) /\ token'[c] = token[c]
  BY <1>1, ProcessTypes
<1> QED
  BY <1>2 DEF H

\* unregister: an open approval is closed; the others stay as they are.
LEMMA Unregistered ==
    ASSUME TypeOK, NEW S, Unregister(S)
    PROVE  /\ net' \in [Calls -> {"none", "open", "denied", "closed"}]
           /\ \A c \in Calls : net[c] \in {"none", "denied"} => net'[c] = net[c]
           /\ \A c \in Calls : net[c] # "none" => net'[c] # "none"
BY ProcessTypes DEF Unregister

\* A failure is recorded for the calls of T.
LEMMA Failed ==
    ASSUME TypeOK, NEW T, Fail(T)
    PROVE  /\ failed' \in [Calls -> BOOLEAN]
           /\ \A c \in Calls : c \notin T => failed'[c] = failed[c]
BY ProcessTypes DEF Fail

\* Entries and reservations are at most dropped.
StoreShrinks ==
    /\ reserved' \subseteq reserved
    /\ \A i \in Ids : store'[i] \in {store[i], NoCall}

\* Calls go on without a new id, and nobody takes an entry out to prune it.
CallsAdvance ==
    /\ id' = id
    /\ \A c \in Calls :
         /\ pruning'[c] \in {pruning[c], NoCall}
         /\ begun[c] => begun'[c]
         /\ \/ pc'[c] = pc[c]
            \/ /\ pc[c] # "idle" /\ pc'[c] # "idle"
               /\ pc[c] \in Past => pc'[c] \in Past
               /\ pc[c] = "cleanup" => pruning'[c] = NoCall

\* write_stdin goes on or ends; terminate-all has the same entries left, or fewer.
HoldersShrink ==
    /\ \/ writer' = writer
       \/ writer' = NoWriter
       \/ /\ writer.pc # "idle" /\ writer'.pc # "idle"
          /\ writer'.call = writer.call /\ writer'.id = writer.id
    /\ cleaner'.left \subseteq cleaner.left
    /\ cleaner'.pc = "idle" => cleaner'.left = {}

\* What keeps the ids and the owners of the entries.
LEMMA IdFrame ==
    ASSUME TypeOK, IdInv, StoreShrinks, CallsAdvance, HoldersShrink
    PROVE  IdInv'
<1>t. /\ store \in [Ids -> Calls \cup {NoCall}]
      /\ pruning \in [Calls -> Calls \cup {NoCall}]
      /\ cleaner.left \in SUBSET Calls
  BY DEF TypeOK
<1>1. IdsDistinct'
  BY DEF IdInv, IdsDistinct, StoreShrinks, CallsAdvance
<1>2. \A c \in Calls : pc[c] \in Past => pc'[c] \in Past
  BY DEF CallsAdvance
<1>3. \A i \in Ids : store'[i] # NoCall =>
         id'[store'[i]] = i /\ pc'[store'[i]] \in Past /\ begun'[store'[i]]
  BY <1>t, <1>2 DEF IdInv, EntriesOwned, StoreShrinks, CallsAdvance
<1>4. /\ writer'.pc # "idle" => writer'.call \in Calls /\ id'[writer'.call] = writer'.id
                                  /\ pc'[writer'.call] \in Past
      /\ writer'.pc = "idle" => writer' = NoWriter
  <2>1. CASE writer' = writer
    BY <2>1, <1>2 DEF IdInv, EntriesOwned, CallsAdvance
  <2>2. CASE writer' = NoWriter
    BY <2>2 DEF NoWriter
  <2>3. CASE /\ writer.pc # "idle" /\ writer'.pc # "idle"
             /\ writer'.call = writer.call /\ writer'.id = writer.id
    BY <2>3, <1>2 DEF IdInv, EntriesOwned, CallsAdvance
  <2> QED
    BY <2>1, <2>2, <2>3 DEF HoldersShrink
<1>5. \A d \in Calls : pruning'[d] # NoCall =>
         pc'[d] = "cleanup" /\ pc'[pruning'[d]] \in Past
  BY <1>t, <1>2 DEF IdInv, EntriesOwned, CallsAdvance
<1>6. /\ \A c \in cleaner'.left : pc'[c] \in Past
      /\ cleaner'.pc = "idle" => cleaner'.left = {}
  BY <1>t, <1>2 DEF IdInv, EntriesOwned, HoldersShrink
<1> QED
  BY <1>1, <1>3, <1>4, <1>5, <1>6 DEF IdInv, EntriesOwned

\* The call stays where it is, with its tasks and events.
Still(c) ==
    /\ pc'[c] = pc[c] /\ startedAlive'[c] = startedAlive[c] /\ begun'[c] = begun[c]
    /\ watcher'[c] = watcher[c] /\ ends'[c] = ends[c]

\* The call's process is as it was or has stopped.
Calm(c) ==
    /\ os[c] = "none" <=> os'[c] = "none"
    /\ os'[c] = "running" => os[c] = "running" /\ token'[c] = token[c]
    /\ failed'[c] = failed[c] \/ (pc[c] \notin {"idle", "opening"} /\ os'[c] # "running")
    /\ net[c] \in {"none", "denied"} => net'[c] = net[c]
    /\ denial[c] = "off" => denial'[c] = "off"

\* What keeps the facts about a process.
LEMMA ProcessFrame ==
    ASSUME NEW c \in Calls, PlaceOK(c), RunningOK(c), EndsOK(c), Still(c), Calm(c)
    PROVE  PlaceOK(c)' /\ RunningOK(c)' /\ EndsOK(c)'
<1>1. PlaceOK(c)'
  BY DEF PlaceOK, Still, Calm, Past
<1>2. RunningOK(c)'
  BY DEF RunningOK, PlaceOK, Still, Calm
<1>3. EndsOK(c)'
  BY DEF EndsOK, EndToCome, Still, Calm
<1> QED
  BY <1>1, <1>2, <1>3

\* What keeps the order of ages and the bound of the store.
LEMMA BoundFrame ==
    ASSUME TypeOK, BoundInv, StoreShrinks, older' = older, begun' = begun
    PROVE  BoundInv'
<1>1. AgesOrdered'
  BY DEF BoundInv, AgesOrdered
<1>2. Stored' \subseteq Stored
  BY StoreAssumption DEF StoreShrinks, Stored, TypeOK
<1>3. IsFiniteSet(Stored)
  BY StoreAssumption, FS_Subset DEF Stored
<1>4. /\ Cardinality(Stored) \in Nat /\ Cardinality(Stored') \in Nat
      /\ Cardinality(Stored') <= Cardinality(Stored)
  BY <1>2, <1>3, FS_Subset, FS_CardinalityType
<1>5. StoreBounded'
  BY <1>4, StoreAssumption DEF BoundInv, StoreBounded
<1> QED
  BY <1>1, <1>5 DEF BoundInv

\* What keeps the reach of the running processes and the duty of a terminate-all.
LEMMA ReachFrame ==
    ASSUME TypeOK, ReachInv,
           \A c \in Calls : os[c] = "none" <=> os'[c] = "none",
           \A c \in Calls : os'[c] = "running" =>
              /\ os[c] = "running"
              /\ Reachable(c) => Reachable(c)'
              /\ c \in cleaner.left => c \in cleaner'.left,
           cleans' = cleans, abandoned \subseteq abandoned'
    PROVE  ReachInv'
<1>t. cleans.due \in SUBSET Calls
  BY DEF TypeOK
<1>1. AllReachable'
  BY DEF ReachInv, AllReachable
<1>2. DueAreDrained'
  BY <1>t DEF ReachInv, DueAreDrained
<1> QED
  BY <1>1, <1>2 DEF ReachInv

\* An id that is released loses its reservation and its entry; no other entry goes.
LEMMA Removed ==
    ASSUME TypeOK, NEW i \in Ids, RemoveId(i)
    PROVE  /\ StoreShrinks
           /\ reserved' \subseteq Ids /\ store' \in [Ids -> Calls \cup {NoCall}]
           /\ \A c \in Calls : c \in Stored => c \in Stored' \/ store[i] = c
BY DEF TypeOK, RemoveId, StoreShrinks, Stored

\* A stored process is in the store under the id of its call.
LEMMA OwnId ==
    ASSUME TypeOK, IdInv, NEW c \in Calls, id[c] \in Ids, store[id[c]] # NoCall
    PROVE  store[id[c]] = c /\ pc[c] \in Past
<1>1. store[id[c]] \in Calls /\ id[c] # NoId
  BY StoreAssumption DEF TypeOK
<1>2. id[store[id[c]]] = id[c] /\ pc[store[id[c]]] \in Past
  BY DEF IdInv, EntriesOwned
<1> QED
  BY <1>1, <1>2 DEF IdInv, IdsDistinct

\* A call that has started has an id.
LEMMA StartedHasId ==
    ASSUME TypeOK, IdInv, NEW c \in Calls, pc[c] # "idle"
    PROVE  id[c] \in Ids
BY DEF TypeOK, IdInv, IdsDistinct

----------------------------------------------------------------------------
(* exec_command, one lemma for each of its steps. *)

\* A request given up before its process exists drops no entry.
LEMMA RejectRequestStep ==
    ASSUME Inv, NEW c \in Calls, RejectRequest(c)
    PROVE  Inv'
<1>i. TypeOK /\ IdInv /\ ProcessInv /\ ReachInv /\ BoundInv
  BY DEF Inv
<1>a. /\ pc[c] = "opening" /\ pc' = [pc EXCEPT ![c] = "done"]
      /\ Release(id[c]) \/ UNCHANGED <<reserved, store, net>>
      /\ UNCHANGED <<older, callVars, failed, taskVars, writerVars, cleanVars>>
      /\ Terminate({})
  BY DEF RejectRequest
<1>b. id[c] \in Ids
  BY <1>i, <1>a, StartedHasId
<1>c. /\ StoreShrinks /\ reserved' \subseteq Ids /\ store' \in [Ids -> Calls \cup {NoCall}]
      /\ \A d \in Calls : d \in Stored => d \in Stored'
  <2>1. CASE Release(id[c])
    <3>1. store[id[c]] = NoCall
      BY <1>i, <1>a, <1>b, OwnId DEF Past
    <3> QED
      BY <2>1, <3>1, <1>i, <1>b, Removed, StoreAssumption DEF Release
  <2>2. CASE UNCHANGED <<reserved, store, net>>
    BY <2>2, <1>i DEF TypeOK, StoreShrinks, Stored
  <2> QED
    BY <2>1, <2>2, <1>a
<1>d. /\ net' \in [Calls -> {"none", "open", "denied", "closed"}]
      /\ \A d \in Calls : net[d] \in {"none", "denied"} => net'[d] = net[d]
  <2>1. CASE Release(id[c])
    BY <2>1, <1>i, Unregistered DEF Release
  <2>2. CASE UNCHANGED <<reserved, store, net>>
    BY <2>2, <1>i, ProcessTypes
  <2> QED
    BY <2>1, <2>2, <1>a
<1>e. /\ os' \in [Calls -> {"none", "running", "killed", "exited", "lost"}]
      /\ token' \in [Calls -> BOOLEAN]
      /\ \A d \in Calls :
           /\ os[d] = "none" <=> os'[d] = "none"
           /\ os'[d] = "running" => os[d] = "running" /\ token'[d] = token[d]
  BY <1>i, <1>a, Terminated
<1>1. TypeOK'
  BY <1>i, <1>a, <1>c, <1>d, <1>e
     DEF TypeOK, callVars, taskVars, writerVars, cleanVars
<1>2. IdInv'
  <2>1. CallsAdvance
    BY <1>i, <1>a DEF CallsAdvance, callVars, taskVars, TypeOK, Past
  <2>2. HoldersShrink
    BY <1>i, <1>a DEF HoldersShrink, writerVars, cleanVars, IdInv, EntriesOwned
  <2> QED
    BY <2>1, <2>2, <1>i, <1>c, IdFrame
<1>3. ProcessInv'
  <2> SUFFICES ASSUME NEW d \in Calls
               PROVE  PlaceOK(d)' /\ RunningOK(d)' /\ EndsOK(d)'
    BY DEF ProcessInv
  <2>1. PlaceOK(d) /\ RunningOK(d) /\ EndsOK(d)
    BY <1>i DEF ProcessInv
  <2>2. Calm(d)
    BY <1>a, <1>d, <1>e DEF Calm, taskVars
  <2>3. CASE d # c
    <3>1. Still(d)
      BY <2>3, <1>i, <1>a DEF Still, callVars, taskVars, TypeOK
    <3> QED
      BY <3>1, <2>1, <2>2, ProcessFrame
  <2>4. CASE d = c
    <3>1. pc'[c] = "done" /\ os[c] = "none" /\ watcher'[c] = "off" /\ ends'[c] = 0
      BY <2>1, <2>4, <1>i, <1>a
         DEF taskVars, TypeOK, PlaceOK, EndsOK, EndToCome, Before, Past
    <3> QED
      BY <2>4, <3>1, <1>e DEF PlaceOK, RunningOK, EndsOK, EndToCome, Before
  <2> QED
    BY <2>3, <2>4
<1>4. ReachInv'
  <2>1. \A d \in Calls : os'[d] = "running" /\ Reachable(d) => Reachable(d)'
    BY <1>i, <1>a, <1>c, <1>e DEF Reachable, callVars, cleanVars, TypeOK, ProcessInv, PlaceOK
  <2> QED
    BY <2>1, <1>i, <1>a, <1>e, ReachFrame DEF callVars, cleanVars
<1>5. BoundInv'
  BY <1>i, <1>a, <1>c, BoundFrame DEF taskVars
<1> QED
  BY <1>1, <1>2, <1>3, <1>4, <1>5 DEF Inv

\* The release after a failed start is one of the ways to give a request up.
LEMMA OpenFailsStep ==
    ASSUME Inv, NEW c \in Calls, OpenFails(c)
    PROVE  Inv'
BY RejectRequestStep DEF OpenFails, RejectRequest

\* The process starts, or has exited already; nobody else knows of it.
LEMMA OpenSessionStep ==
    ASSUME Inv, NEW c \in Calls, OpenSession(c)
    PROVE  Inv'
<1>i. TypeOK /\ IdInv /\ ProcessInv /\ ReachInv /\ BoundInv
  BY DEF Inv
<1>a. /\ pc[c] = "opening" /\ pc' = [pc EXCEPT ![c] = "begin"]
      /\ UNCHANGED <<storeVars, callVars, failed, begun, watcher, ends, writerVars, cleanVars>>
  BY DEF OpenSession
<1>b. PICK o \in {"running", "exited"} :
         /\ os' = [os EXCEPT ![c] = o] /\ token' = [token EXCEPT ![c] = (o = "exited")]
  BY DEF OpenSession
<1>c. /\ net' \in [Calls -> {"none", "open", "denied", "closed"}]
      /\ denial' \in [Calls -> {"off", "waiting", "done"}]
      /\ \A d \in Calls : d # c => net'[d] = net[d] /\ denial'[d] = denial[d]
  BY <1>i DEF OpenSession, TypeOK
<1>o. /\ os' \in [Calls -> {"none", "running", "killed", "exited", "lost"}]
      /\ token' \in [Calls -> BOOLEAN]
      /\ os'[c] = o /\ token'[c] = (o = "exited")
      /\ \A d \in Calls : d # c => os'[d] = os[d] /\ token'[d] = token[d]
  BY <1>i, <1>b, ProcessTypes
<1>p. /\ pc'[c] = "begin" /\ \A d \in Calls : d # c => pc'[d] = pc[d]
      /\ pc' \in [Calls -> {"idle", "done", "aborted"} \cup InFlight]
  BY <1>i, <1>a DEF TypeOK, InFlight, HasProcess
<1>q. PlaceOK(c) /\ RunningOK(c) /\ EndsOK(c)
  BY <1>i DEF ProcessInv
<1>1. TypeOK'
  BY <1>i, <1>a, <1>c, <1>o, <1>p
     DEF TypeOK, storeVars, callVars, writerVars, cleanVars
<1>s. StoreShrinks
  BY <1>a DEF StoreShrinks, storeVars
<1>2. IdInv'
  <2>1. CallsAdvance
    BY <1>i, <1>a, <1>p DEF CallsAdvance, callVars, TypeOK, Past
  <2>2. HoldersShrink
    BY <1>i, <1>a DEF HoldersShrink, writerVars, cleanVars, IdInv, EntriesOwned
  <2> QED
    BY <2>1, <2>2, <1>i, <1>s, IdFrame
<1>3. ProcessInv'
  <2> SUFFICES ASSUME NEW d \in Calls
               PROVE  PlaceOK(d)' /\ RunningOK(d)' /\ EndsOK(d)'
    BY DEF ProcessInv
  <2>1. PlaceOK(d) /\ RunningOK(d) /\ EndsOK(d)
    BY <1>i DEF ProcessInv
  <2>3. CASE d # c
    <3>1. Still(d) /\ Calm(d)
      BY <2>3, <1>a, <1>c, <1>o, <1>p DEF Still, Calm, callVars
    <3> QED
      BY <3>1, <2>1, ProcessFrame
  <2>4. CASE d = c
    <3>1. watcher'[c] = "off" /\ ends'[c] = 0 /\ ~failed'[c]
      BY <1>a, <1>q DEF PlaceOK, EndsOK, EndToCome, Before, Past
    <3> QED
      BY <2>4, <3>1, <1>o, <1>p DEF PlaceOK, RunningOK, EndsOK, EndToCome, Before
  <2> QED
    BY <2>3, <2>4
<1>4. ReachInv'
  <2>1. Stored' = Stored
    BY <1>a DEF Stored, storeVars
  <2>2. AllReachable'
    BY <2>1, <1>i, <1>a, <1>o, <1>p DEF ReachInv, AllReachable, Reachable, callVars, cleanVars
  <2>3. c \notin cleans.due
    BY <1>i, <1>a, <1>q DEF ReachInv, DueAreDrained, PlaceOK
  <2>4. DueAreDrained'
    BY <2>3, <1>i, <1>a, <1>o DEF ReachInv, DueAreDrained, callVars, cleanVars, TypeOK
  <2> QED
    BY <2>2, <2>4 DEF ReachInv
<1>5. BoundInv'
  BY <1>i, <1>a, <1>s, BoundFrame DEF storeVars
<1> QED
  BY <1>1, <1>2, <1>3, <1>4, <1>5 DEF Inv

\* Marking a process as used now keeps the ages in order.
LEMMA UsedLast ==
    ASSUME TypeOK, AgesOrdered, NEW c \in Calls, UseNow(c),
           \A d \in Calls : begun'[d] => begun[d] \/ d = c
    PROVE  AgesOrdered' /\ older' \in [Calls -> SUBSET Calls]
<1>1. older' \in [Calls -> SUBSET Calls]
  BY DEF UseNow, TypeOK
<1>2. ASSUME NEW S \in SUBSET {d \in Calls : begun'[d]}, S # {}
      PROVE  \E m \in S : \A d \in S \ {m} : m \in older'[d]
  <2>1. CASE S \subseteq {c}
    BY <2>1, <1>2
  <2>2. CASE ~(S \subseteq {c})
    <3>1. S \ {c} \in SUBSET {d \in Calls : begun[d]} /\ S \ {c} # {}
      BY <2>2, <1>2
    <3>2. PICK m \in S \ {c} : \A d \in (S \ {c}) \ {m} : m \in older[d]
      BY <3>1 DEF AgesOrdered
    <3>3. \A d \in S \ {m} : m \in older'[d]
      BY <3>2, <1>2 DEF UseNow, TypeOK
    <3> QED
      BY <3>2, <3>3
  <2> QED
    BY <2>1, <2>2
<1> QED
  BY <1>1, <1>2 DEF AgesOrdered

\* The process is looked at, and only one that has not exited goes on to the store.
LEMMA EmitBeginStep ==
    ASSUME Inv, NEW c \in Calls, EmitBegin(c)
    PROVE  Inv'
<1>i. TypeOK /\ IdInv /\ ProcessInv /\ ReachInv /\ BoundInv
  BY DEF Inv
<1>a. /\ pc[c] = "begin"
      /\ begun' = [begun EXCEPT ![c] = TRUE]
      /\ startedAlive' = [startedAlive EXCEPT ![c] = ~HasExited(c)]
      /\ UseNow(c)
      /\ pc' = [pc EXCEPT ![c] = IF HasExited(c) THEN "collect" ELSE "store"]
      /\ UNCHANGED <<reserved, store, id, pruning, abandoned, os, token, failed, net,
                     denial, watcher, ends, writerVars, cleanVars>>
  BY DEF EmitBegin
<1>b. HasExited(c) \in BOOLEAN
  BY <1>i DEF HasExited, TypeOK
<1>p. /\ pc'[c] = IF HasExited(c) THEN "collect" ELSE "store"
      /\ \A d \in Calls : d # c => pc'[d] = pc[d]
      /\ pc' \in [Calls -> {"idle", "done", "aborted"} \cup InFlight]
  BY <1>i, <1>a DEF TypeOK, InFlight, HasProcess
<1>o. /\ begun' \in [Calls -> BOOLEAN] /\ startedAlive' \in [Calls -> BOOLEAN]
      /\ begun'[c] /\ startedAlive'[c] = ~HasExited(c)
      /\ \A d \in Calls : d # c => begun'[d] = begun[d] /\ startedAlive'[d] = startedAlive[d]
  BY <1>i, <1>a, <1>b DEF TypeOK
<1>u. AgesOrdered' /\ older' \in [Calls -> SUBSET Calls]
  BY <1>i, <1>a, <1>o, UsedLast DEF BoundInv
<1>q. PlaceOK(c) /\ RunningOK(c) /\ EndsOK(c)
  BY <1>i DEF ProcessInv
<1>1. TypeOK'
  BY <1>i, <1>a, <1>o, <1>p, <1>u DEF TypeOK, writerVars, cleanVars
<1>s. StoreShrinks /\ Stored' = Stored
  BY <1>a DEF StoreShrinks, Stored
<1>2. IdInv'
  <2>1. CallsAdvance
    BY <1>i, <1>a, <1>o, <1>p DEF CallsAdvance, Past
  <2>2. HoldersShrink
    BY <1>i, <1>a DEF HoldersShrink, writerVars, cleanVars, IdInv, EntriesOwned
  <2> QED
    BY <2>1, <2>2, <1>i, <1>s, IdFrame
<1>3. ProcessInv'
  <2> SUFFICES ASSUME NEW d \in Calls
               PROVE  PlaceOK(d)' /\ RunningOK(d)' /\ EndsOK(d)'
    BY DEF ProcessInv
  <2>1. PlaceOK(d) /\ RunningOK(d) /\ EndsOK(d)
    BY <1>i DEF ProcessInv
  <2>3. CASE d # c
    <3>1. Still(d) /\ Calm(d)
      BY <2>3, <1>a, <1>o, <1>p DEF Still, Calm
    <3> QED
      BY <3>1, <2>1, ProcessFrame
  <2>4. CASE d = c
    <3>1. watcher'[c] = "off" /\ ends'[c] = 0
      BY <1>a, <1>q DEF PlaceOK, EndsOK, EndToCome, Before, Past
    <3>2. os'[c] = "running" => ~token'[c] /\ ~failed'[c] /\ ~HasExited(c)
      BY <1>a, <1>q DEF RunningOK, HasExited
    <3> QED
      BY <2>4, <3>1, <3>2, <1>o, <1>p DEF PlaceOK, RunningOK, EndsOK, EndToCome, Before
  <2> QED
    BY <2>3, <2>4
<1>4. ReachInv'
  <2>1. os[c] = "running" => pc'[c] = "store"
    BY <1>p, <1>q DEF RunningOK, HasExited
  <2>2. \A d \in Calls : os'[d] = "running" /\ Reachable(d) => Reachable(d)'
    BY <2>1, <1>a, <1>p, <1>s DEF Reachable, cleanVars
  <2> QED
    BY <2>2, <1>i, <1>a, ReachFrame DEF cleanVars
<1>5. BoundInv'
  BY <1>i, <1>s, <1>u DEF BoundInv, StoreBounded
<1> QED
  BY <1>1, <1>2, <1>3, <1>4, <1>5 DEF Inv

\* There is an id that no call has: fewer calls than ids have one already.
LEMMA FreshId ==
    ASSUME TypeOK, IdInv, NEW c \in Calls, pc[c] = "idle"
    PROVE  \E i \in Ids \ reserved : \A d \in Calls : id[d] # i
<1> DEFINE others == Calls \ {c}
           f == [d \in others |-> id[d]]
           taken == {id[d] : d \in others}
<1>1. /\ IsFiniteSet(others) /\ Cardinality(others) = Cardinality(Calls) - 1
      /\ Cardinality(Calls) \in Nat /\ Cardinality(Ids) \in Nat
  BY StoreAssumption, FS_RemoveElement, FS_CardinalityType
<1>2. f \in Surjection(others, taken)
  BY DEF Surjection
<1>3. IsFiniteSet(taken) /\ Cardinality(taken) <= Cardinality(others)
  BY <1>1, <1>2, FS_Surjection
<1>4. Cardinality(taken) \in Nat /\ Cardinality(others) \in Nat
  BY <1>1, <1>3, FS_CardinalityType
<1>5. ~(Ids \subseteq taken)
  <2> SUFFICES ASSUME Ids \subseteq taken
               PROVE  FALSE
    OBVIOUS
  <2>1. Cardinality(Ids) <= Cardinality(taken)
    BY <1>3, FS_Subset
  <2> QED
    BY <2>1, <1>1, <1>3, <1>4, StoreAssumption
<1>6. PICK i \in Ids : i \notin taken
  BY <1>5
<1>7. id[c] = NoId /\ NoId \notin Ids
  BY StoreAssumption DEF IdInv, IdsDistinct
<1>8. \A d \in Calls : id[d] # i
  BY <1>6, <1>7
<1>9. i \notin reserved
  BY <1>8 DEF IdInv, IdsDistinct
<1> QED
  BY <1>6, <1>8, <1>9

\* A call that starts draws an id of its own.
LEMMA AllocateProcessIdStep ==
    ASSUME Inv, NEW c \in Calls, AllocateProcessId(c)
    PROVE  Inv'
<1>i. TypeOK /\ IdInv /\ ProcessInv /\ ReachInv /\ BoundInv
  BY DEF Inv
<1>a. /\ pc[c] = "idle" /\ pc' = [pc EXCEPT ![c] = "opening"]
      /\ UNCHANGED <<store, older, startedAlive, pruning, abandoned, os, token, failed, net,
                     taskVars, writerVars, cleanVars>>
  BY DEF AllocateProcessId
<1> DEFINE drawn == CHOOSE i \in Ids \ reserved : \A d \in Calls : id[d] # i
<1>b. reserved' = reserved \cup {drawn} /\ id' = [id EXCEPT ![c] = drawn]
  BY DEF AllocateProcessId
<1>c. drawn \in Ids \ reserved /\ \A d \in Calls : id[d] # drawn
  BY <1>i, <1>a, FreshId
<1> HIDE DEF drawn
<1>d. /\ id' \in [Calls -> Ids \cup {NoId}]
      /\ id'[c] = drawn /\ \A d \in Calls : d # c => id'[d] = id[d]
  BY <1>i, <1>b, <1>c DEF TypeOK
<1>p. /\ pc'[c] = "opening" /\ \A d \in Calls : d # c => pc'[d] = pc[d]
      /\ pc' \in [Calls -> {"idle", "done", "aborted"} \cup InFlight]
  BY <1>i, <1>a DEF TypeOK, InFlight
<1>1. TypeOK'
  BY <1>i, <1>a, <1>b, <1>c, <1>d, <1>p DEF TypeOK, taskVars, writerVars, cleanVars
<1>2. IdInv'
  <2>1. IdsDistinct'
    <3>0. drawn # NoId
      BY <1>c, StoreAssumption
    <3>1. \A d \in Calls : pc'[d] = "idle" <=> id'[d] = NoId
      BY <3>0, <1>i, <1>d, <1>p DEF IdInv, IdsDistinct
    <3>2. \A d, e \in Calls : id'[d] # NoId /\ id'[d] = id'[e] => d = e
      BY <1>i, <1>c, <1>d DEF IdInv, IdsDistinct
    <3>3. \A i \in reserved' : \E d \in Calls : id'[d] = i
      <4> SUFFICES ASSUME NEW i \in reserved, i # drawn
                   PROVE  \E d \in Calls : id'[d] = i
        BY <1>b, <1>d
      <4>1. PICK d \in Calls : id[d] = i
        BY <1>i DEF IdInv, IdsDistinct
      <4>2. d # c
        BY <4>1, <1>i, <1>a, StoreAssumption DEF IdInv, IdsDistinct, TypeOK
      <4> QED
        BY <4>1, <4>2, <1>d
    <3> QED
      BY <3>1, <3>2, <3>3 DEF IdsDistinct
  <2>t. /\ store \in [Ids -> Calls \cup {NoCall}]
        /\ pruning \in [Calls -> Calls \cup {NoCall}]
        /\ cleaner.left \in SUBSET Calls
    BY <1>i DEF TypeOK
  <2>2. \A d \in Calls : pc[d] \in Past => d # c
    BY <1>a DEF Past
  <2>3. EntriesOwned'
    BY <2>t, <2>2, <1>i, <1>a, <1>d, <1>p
       DEF IdInv, EntriesOwned, taskVars, writerVars, cleanVars
  <2> QED
    BY <2>1, <2>3 DEF IdInv
<1>3. ProcessInv'
  <2> SUFFICES ASSUME NEW d \in Calls
               PROVE  PlaceOK(d)' /\ RunningOK(d)' /\ EndsOK(d)'
    BY DEF ProcessInv
  <2>1. PlaceOK(d) /\ RunningOK(d) /\ EndsOK(d)
    BY <1>i DEF ProcessInv
  <2>3. CASE d # c
    <3>1. Still(d) /\ Calm(d)
      BY <2>3, <1>a, <1>p DEF Still, Calm, taskVars
    <3> QED
      BY <3>1, <2>1, ProcessFrame
  <2>4. CASE d = c
    BY <2>1, <2>4, <1>a, <1>p
       DEF PlaceOK, RunningOK, EndsOK, EndToCome, Before, Past, taskVars
  <2> QED
    BY <2>3, <2>4
<1>4. ReachInv'
  <2>1. Stored' = Stored
    BY <1>a DEF Stored
  <2>2. \A d \in Calls : Reachable(d) => Reachable(d)'
    BY <2>1, <1>a, <1>p DEF Reachable, cleanVars
  <2> QED
    BY <2>2, <1>i, <1>a, ReachFrame DEF cleanVars
<1>5. BoundInv'
  BY <1>i, <1>a DEF BoundInv, AgesOrdered, StoreBounded, Stored, taskVars
<1> QED
  BY <1>1, <1>2, <1>3, <1>4, <1>5 DEF Inv

\* A full store always has an entry to prune, however many are protected: the least
\* recently used one has all the others after it.
LEMMA PruneFinds ==
    ASSUME TypeOK, IdInv, BoundInv
    PROVE  /\ Prune \in Stored \cup {NoCall}
           /\ Cardinality(Stored) >= MaxProcesses => Prune \in Stored
<1>1. Stored \in SUBSET {c \in Calls : begun[c]}
  BY StoreAssumption DEF Stored, IdInv, EntriesOwned
<1>2. IsFiniteSet(Stored) /\ Cardinality(Stored) \in Nat
  BY <1>1, StoreAssumption, FS_Subset, FS_CardinalityType DEF Stored
<1>3. ASSUME NEW S \in SUBSET Stored, S # {}
      PROVE  Oldest(S) \in S /\ \A d \in S \ {Oldest(S)} : Oldest(S) \in older[d]
  <2>1. \E c \in S : \A d \in S \ {c} : c \in older[d]
    BY <1>1, <1>3 DEF BoundInv, AgesOrdered
  <2> QED
    BY <2>1 DEF Oldest
<1> DEFINE unguarded == {c \in Stored :
                           Cardinality({d \in Stored : c \in older[d]}) >= Protected}
           exited == {c \in unguarded : HasExited(c)}
<1>4. ToPrune(Stored) = IF exited # {} THEN Oldest(exited)
                        ELSE IF unguarded # {} THEN Oldest(unguarded) ELSE NoCall
  BY DEF ToPrune
<1>5. unguarded \in SUBSET Stored /\ exited \in SUBSET Stored /\ exited \subseteq unguarded
  OBVIOUS
<1>6. ASSUME Cardinality(Stored) >= MaxProcesses
      PROVE  unguarded # {}
  <2>1. Stored # {}
    BY <1>2, <1>6, StoreAssumption, FS_EmptySet
  <2>2. PICK m \in Stored : \A d \in Stored \ {m} : m \in older[d]
    BY <2>1, <1>3
  <2> DEFINE after == {d \in Stored : m \in older[d]}
  <2>3. IsFiniteSet(after) /\ Cardinality(after) \in Nat
    BY <1>2, FS_Subset, FS_CardinalityType
  <2>4. Stored \ {m} \in SUBSET after
    BY <2>2
  <2>5. /\ IsFiniteSet(Stored \ {m}) /\ Cardinality(Stored \ {m}) \in Nat
        /\ Cardinality(Stored \ {m}) = Cardinality(Stored) - 1
    BY <1>2, <2>2, FS_RemoveElement, FS_CardinalityType
  <2>6. Cardinality(Stored \ {m}) <= Cardinality(after)
    BY <2>3, <2>4, FS_Subset
  <2>7. Cardinality(after) >= Protected
    <3> HIDE DEF after
    <3> QED
      BY <1>2, <1>6, <2>3, <2>5, <2>6, StoreAssumption
  <2> QED
    BY <2>2, <2>7
<1>7. exited # {} => Oldest(exited) \in Stored
  BY <1>3, <1>5
<1>8. unguarded # {} => Oldest(unguarded) \in Stored
  BY <1>3, <1>5
<1> HIDE DEF unguarded, exited
<1>9. MaxProcesses \in Nat
  BY StoreAssumption
<1> QED
  BY <1>2, <1>4, <1>5, <1>6, <1>7, <1>8, <1>9 DEF Prune

\* The new entry replaces the pruned one: the store grows by one at most, to its bound
\* at most.
LEMMA StoredBounded ==
    ASSUME TypeOK, StoreBounded, NEW c \in Calls, NEW p,
           p \in Stored \cup {NoCall},
           Cardinality(Stored) >= MaxProcesses => p \in Stored,
           Stored' \subseteq (Stored \ {p}) \cup {c}
    PROVE  StoreBounded'
<1>1. IsFiniteSet(Stored) /\ Cardinality(Stored) \in Nat /\ Cardinality(Stored) <= MaxProcesses
  BY StoreAssumption, FS_Subset, FS_CardinalityType DEF Stored, StoreBounded
<1>2. /\ IsFiniteSet(Stored \ {p})
      /\ Cardinality(Stored \ {p}) = IF p \in Stored THEN Cardinality(Stored) - 1
                                     ELSE Cardinality(Stored)
  BY <1>1, FS_RemoveElement
<1>3. /\ IsFiniteSet((Stored \ {p}) \cup {c})
      /\ Cardinality((Stored \ {p}) \cup {c}) \in
            {Cardinality(Stored \ {p}), Cardinality(Stored \ {p}) + 1}
  BY <1>2, FS_AddElement
<1>4. /\ Cardinality(Stored') \in Nat
      /\ Cardinality(Stored') <= Cardinality((Stored \ {p}) \cup {c})
  BY <1>3, FS_Subset, FS_CardinalityType
<1>5. /\ Cardinality((Stored \ {p}) \cup {c}) \in Nat /\ Cardinality(Stored \ {p}) \in Nat
      /\ MaxProcesses \in Nat
  BY <1>2, <1>3, FS_CardinalityType, StoreAssumption
<1>6. PICK s \in Nat, m \in Nat, r \in Nat, u \in Nat :
         /\ s = Cardinality(Stored) /\ m = Cardinality(Stored') /\ r = Cardinality(Stored \ {p})
         /\ u = Cardinality((Stored \ {p}) \cup {c})
  BY <1>1, <1>4, <1>5
<1>7. m <= u /\ u \in {r, r + 1} /\ s <= MaxProcesses
      /\ r = (IF p \in Stored THEN s - 1 ELSE s) /\ (s >= MaxProcesses => p \in Stored)
  BY <1>1, <1>2, <1>3, <1>4, <1>6
<1>8. m <= MaxProcesses
  BY <1>7, <1>5
<1> QED
  BY <1>6, <1>8 DEF StoreBounded

\* The call stores its process, and answers for the entry it has taken out.
LEMMA StoreProcessStep ==
    ASSUME Inv, NEW c \in Calls, StoreProcess(c)
    PROVE  Inv'
<1>i. TypeOK /\ IdInv /\ ProcessInv /\ ReachInv /\ BoundInv
  BY DEF Inv
<1> DEFINE p == Prune
           old == {i \in Ids : p # NoCall /\ store[i] = p}
<1>a. /\ pc[c] = "store"
      /\ reserved' = reserved \ old
      /\ store' = [i \in Ids |-> IF i = id[c] THEN c
                                 ELSE IF i \in old THEN NoCall ELSE store[i]]
      /\ pruning' = [pruning EXCEPT ![c] = p]
      /\ IF p = NoCall
         THEN /\ watcher' = [watcher EXCEPT ![c] = "waiting"]
              /\ pc' = [pc EXCEPT ![c] = "collect"]
         ELSE /\ pc' = [pc EXCEPT ![c] = "cleanup"]
              /\ UNCHANGED watcher
      /\ UNCHANGED <<older, id, startedAlive, abandoned, failed, net, denial, begun, ends,
                     writerVars, cleanVars>>
      /\ Terminate({})
  BY DEF StoreProcess
<1>b. /\ p \in Stored \cup {NoCall}
      /\ Cardinality(Stored) >= MaxProcesses => p \in Stored
  BY <1>i, PruneFinds
<1> HIDE DEF p
<1>q. PlaceOK(c) /\ RunningOK(c) /\ EndsOK(c)
  BY <1>i DEF ProcessInv
<1>c. id[c] \in Ids /\ store[id[c]] = NoCall
  BY <1>i, <1>a, StartedHasId, OwnId DEF Past
<1>d. /\ NoCall \notin Calls /\ Stored \subseteq Calls
      /\ store \in [Ids -> Calls \cup {NoCall}]
      /\ pruning \in [Calls -> Calls \cup {NoCall}]
  BY <1>i, StoreAssumption DEF Stored, TypeOK
<1>e. /\ store' \in [Ids -> Calls \cup {NoCall}]
      /\ store'[id[c]] = c
      /\ \A i \in Ids : i # id[c] => store'[i] = IF i \in old THEN NoCall ELSE store[i]
  BY <1>a, <1>c, <1>d
<1>f. /\ c \in Stored'
      /\ \A d \in Stored : d # p => d \in Stored'
      /\ Stored' \subseteq (Stored \ {p}) \cup {c}
  <2>1. c \in Stored'
    BY <1>c, <1>e DEF Stored
  <2>2. \A d \in Stored : d # p => d \in Stored'
    BY <1>c, <1>d, <1>e DEF Stored
  <2>3. Stored' \subseteq (Stored \ {p}) \cup {c}
    BY <1>c, <1>d, <1>e DEF Stored
  <2> QED
    BY <2>1, <2>2, <2>3
<1>g. /\ pruning' \in [Calls -> Calls \cup {NoCall}]
      /\ pruning'[c] = p /\ \A d \in Calls : d # c => pruning'[d] = pruning[d]
  BY <1>a, <1>b, <1>d
<1>p. /\ pc'[c] = IF p = NoCall THEN "collect" ELSE "cleanup"
      /\ \A d \in Calls : d # c => pc'[d] = pc[d] /\ watcher'[d] = watcher[d]
      /\ pc' \in [Calls -> {"idle", "done", "aborted"} \cup InFlight]
      /\ watcher' \in [Calls -> {"off", "waiting", "done"}]
      /\ watcher'[c] = IF p = NoCall THEN "waiting" ELSE watcher[c]
  <2>1. /\ pc \in [Calls -> {"idle", "done", "aborted"} \cup InFlight]
        /\ watcher \in [Calls -> {"off", "waiting", "done"}]
    BY <1>i DEF TypeOK
  <2>2. CASE p = NoCall
    BY <2>1, <2>2, <1>a DEF InFlight, HasProcess
  <2>3. CASE p # NoCall
    BY <2>1, <2>3, <1>a DEF InFlight, HasProcess
  <2> QED
    BY <2>2, <2>3
<1>o. /\ os' \in [Calls -> {"none", "running", "killed", "exited", "lost"}]
      /\ token' \in [Calls -> BOOLEAN]
      /\ \A d \in Calls :
           /\ os[d] = "none" <=> os'[d] = "none"
           /\ os'[d] = "running" => os[d] = "running" /\ token'[d] = token[d]
  BY <1>i, <1>a, Terminated
<1>1. TypeOK'
  BY <1>i, <1>a, <1>e, <1>g, <1>o, <1>p DEF TypeOK, writerVars, cleanVars
<1>2. IdInv'
  <2>1. IdsDistinct'
    BY <1>i, <1>a, <1>p DEF IdInv, IdsDistinct
  <2>2. /\ pc[c] \notin Past /\ pc'[c] \in Past
        /\ \A d \in Calls : pc[d] \in Past => d # c /\ pc'[d] \in Past
    BY <1>a, <1>p DEF Past
  <2>3. \A i \in Ids : store'[i] # NoCall =>
           id'[store'[i]] = i /\ pc'[store'[i]] \in Past /\ begun'[store'[i]]
    <3> SUFFICES ASSUME NEW i \in Ids, store'[i] # NoCall
                 PROVE  id'[store'[i]] = i /\ pc'[store'[i]] \in Past /\ begun'[store'[i]]
      OBVIOUS
    <3>1. CASE i = id[c]
      BY <3>1, <2>2, <1>a, <1>e, <1>q DEF PlaceOK
    <3>2. CASE i # id[c]
      <4>1. store'[i] = store[i] /\ store[i] \in Calls
        BY <3>2, <1>d, <1>e
      <4> QED
        BY <4>1, <2>2, <1>i, <1>a DEF IdInv, EntriesOwned
    <3> QED
      BY <3>1, <3>2
  <2>4. /\ writer'.pc # "idle" => /\ writer'.call \in Calls /\ id'[writer'.call] = writer'.id
                                  /\ pc'[writer'.call] \in Past
        /\ writer'.pc = "idle" => writer' = NoWriter
    BY <2>2, <1>i, <1>a DEF IdInv, EntriesOwned, writerVars
  <2>5. \A d \in Calls : pruning'[d] # NoCall =>
           pc'[d] = "cleanup" /\ pc'[pruning'[d]] \in Past
    <3> SUFFICES ASSUME NEW d \in Calls, pruning'[d] # NoCall
                 PROVE  pc'[d] = "cleanup" /\ pc'[pruning'[d]] \in Past
      OBVIOUS
    <3>1. CASE d = c
      <4>1. p \in Calls /\ pc[p] \in Past
        BY <3>1, <1>b, <1>d, <1>g, <1>i DEF Stored, IdInv, EntriesOwned
      <4> QED
        BY <3>1, <4>1, <2>2, <1>g, <1>p
    <3>2. CASE d # c
      BY <3>2, <2>2, <1>d, <1>g, <1>i, <1>p DEF IdInv, EntriesOwned
    <3> QED
      BY <3>1, <3>2
  <2>6. /\ \A d \in cleaner'.left : pc'[d] \in Past
        /\ cleaner'.pc = "idle" => cleaner'.left = {}
    BY <2>2, <1>i, <1>a DEF IdInv, EntriesOwned, cleanVars, TypeOK
  <2> QED
    BY <2>1, <2>3, <2>4, <2>5, <2>6 DEF IdInv, EntriesOwned
<1>3. ProcessInv'
  <2> SUFFICES ASSUME NEW d \in Calls
               PROVE  PlaceOK(d)' /\ RunningOK(d)' /\ EndsOK(d)'
    BY DEF ProcessInv
  <2>1. PlaceOK(d) /\ RunningOK(d) /\ EndsOK(d)
    BY <1>i DEF ProcessInv
  <2>3. CASE d # c
    <3>1. Still(d) /\ Calm(d)
      BY <2>3, <1>a, <1>o, <1>p DEF Still, Calm
    <3> QED
      BY <3>1, <2>1, ProcessFrame
  <2>4. CASE d = c
    <3>1. watcher[c] = "off" /\ ends'[c] = 0 /\ startedAlive'[c]
      BY <1>a, <1>q DEF PlaceOK, EndsOK, EndToCome, Before, Past
    <3>2. os'[c] = "running" => ~token'[c] /\ ~failed'[c]
      BY <1>a, <1>o, <1>q DEF RunningOK
    <3> QED
      BY <2>4, <3>1, <3>2, <1>p DEF PlaceOK, RunningOK, EndsOK, EndToCome, Before, Past
  <2> QED
    BY <2>3, <2>4
<1>4. ReachInv'
  <2>1. \A d \in Calls : pruning[d] # NoCall => d # c
    BY <1>i, <1>a DEF IdInv, EntriesOwned
  <2>2. \A d \in Calls : Reachable(d) => Reachable(d)'
    <3> SUFFICES ASSUME NEW d \in Calls, Reachable(d)
                 PROVE  Reachable(d)'
      OBVIOUS
    <3>1. CASE d = c
      BY <3>1, <1>f DEF Reachable
    <3>2. CASE d # c /\ pc[d] \in {"begin", "store"}
      BY <3>2, <1>p DEF Reachable
    <3>3. CASE d \in Stored
      BY <3>3, <1>f, <1>g DEF Reachable
    <3>4. CASE \E e \in Calls : pruning[e] = d
      BY <3>4, <2>1, <1>d, <1>g DEF Reachable
    <3>5. CASE d \in cleaner.left \/ d \in abandoned
      BY <3>5, <1>a DEF Reachable, cleanVars
    <3> QED
      BY <3>1, <3>2, <3>3, <3>4, <3>5 DEF Reachable
  <2> QED
    BY <2>2, <1>i, <1>a, <1>o, ReachFrame DEF cleanVars
<1>5. BoundInv'
  <2>1. StoreBounded'
    BY <1>b, <1>f, <1>i, StoredBounded DEF BoundInv
  <2>2. AgesOrdered'
    BY <1>i, <1>a DEF BoundInv, AgesOrdered
  <2> QED
    BY <2>1, <2>2 DEF BoundInv
<1> QED
  BY <1>1, <1>2, <1>3, <1>4, <1>5 DEF Inv

\* The pruned process is terminated before the call forgets it; then the exit watcher
\* of the call's own process starts.
LEMMA CleanupPrunedStep ==
    ASSUME Inv, NEW c \in Calls, CleanupPruned(c)
    PROVE  Inv'
<1>i. TypeOK /\ IdInv /\ ProcessInv /\ ReachInv /\ BoundInv
  BY DEF Inv
<1>a. /\ pc[c] = "cleanup" /\ pc' = [pc EXCEPT ![c] = "collect"]
      /\ Unregister({pruning[c]})
      /\ pruning' = [pruning EXCEPT ![c] = NoCall]
      /\ watcher' = [watcher EXCEPT ![c] = "waiting"]
      /\ UNCHANGED <<storeVars, id, startedAlive, abandoned, failed, denial, begun, ends,
                     writerVars, cleanVars>>
      /\ Terminate({pruning[c]})
  BY DEF CleanupPruned
<1>n. /\ net' \in [Calls -> {"none", "open", "denied", "closed"}]
      /\ \A d \in Calls : net[d] \in {"none", "denied"} => net'[d] = net[d]
  BY <1>i, <1>a, Unregistered
<1>p. /\ pc'[c] = "collect" /\ watcher'[c] = "waiting" /\ pruning'[c] = NoCall
      /\ \A d \in Calls : d # c => pc'[d] = pc[d] /\ watcher'[d] = watcher[d]
                                     /\ pruning'[d] = pruning[d]
      /\ pc' \in [Calls -> {"idle", "done", "aborted"} \cup InFlight]
      /\ watcher' \in [Calls -> {"off", "waiting", "done"}]
      /\ pruning' \in [Calls -> Calls \cup {NoCall}]
  BY <1>i, <1>a DEF TypeOK, InFlight, HasProcess
<1>o. /\ os' \in [Calls -> {"none", "running", "killed", "exited", "lost"}]
      /\ token' \in [Calls -> BOOLEAN]
      /\ \A d \in Calls :
           /\ os[d] = "none" <=> os'[d] = "none"
           /\ os'[d] = "running" => /\ os[d] = "running" /\ token'[d] = token[d]
                                    /\ d # pruning[c]
  BY <1>i, <1>a, Terminated
<1>q. PlaceOK(c) /\ RunningOK(c) /\ EndsOK(c)
  BY <1>i DEF ProcessInv
<1>s. StoreShrinks /\ Stored' = Stored
  BY <1>a DEF StoreShrinks, Stored, storeVars
<1>1. TypeOK'
  BY <1>i, <1>a, <1>n, <1>o, <1>p DEF TypeOK, storeVars, writerVars, cleanVars
<1>2. IdInv'
  <2>1. CallsAdvance
    BY <1>i, <1>a, <1>p DEF CallsAdvance, Past
  <2>2. HoldersShrink
    BY <1>i, <1>a DEF HoldersShrink, writerVars, cleanVars, IdInv, EntriesOwned
  <2> QED
    BY <2>1, <2>2, <1>i, <1>s, IdFrame
<1>3. ProcessInv'
  <2> SUFFICES ASSUME NEW d \in Calls
               PROVE  PlaceOK(d)' /\ RunningOK(d)' /\ EndsOK(d)'
    BY DEF ProcessInv
  <2>1. PlaceOK(d) /\ RunningOK(d) /\ EndsOK(d)
    BY <1>i DEF ProcessInv
  <2>3. CASE d # c
    <3>1. Still(d) /\ Calm(d)
      BY <2>3, <1>a, <1>n, <1>o, <1>p DEF Still, Calm
    <3> QED
      BY <3>1, <2>1, ProcessFrame
  <2>4. CASE d = c
    <3>1. ends'[c] = 0 /\ startedAlive'[c]
      BY <1>a, <1>q DEF PlaceOK, EndsOK, EndToCome, Before, Past
    <3>2. os'[c] = "running" => ~token'[c] /\ ~failed'[c]
      BY <1>a, <1>o, <1>q DEF RunningOK
    <3> QED
      BY <2>4, <3>1, <3>2, <1>p DEF PlaceOK, RunningOK, EndsOK, EndToCome, Before, Past
  <2> QED
    BY <2>3, <2>4
<1>4. ReachInv'
  <2>2. \A d \in Calls : os'[d] = "running" /\ Reachable(d) => Reachable(d)'
    BY <1>a, <1>o, <1>p, <1>s DEF Reachable, cleanVars
  <2> QED
    BY <2>2, <1>i, <1>a, <1>o, ReachFrame DEF cleanVars
<1>5. BoundInv'
  BY <1>i, <1>a, <1>s, BoundFrame DEF storeVars
<1> QED
  BY <1>1, <1>2, <1>3, <1>4, <1>5 DEF Inv

\* The output is collected; a process that still runs is at the end only after a denial.
LEMMA CollectOutputStep ==
    ASSUME Inv, NEW c \in Calls, CollectOutput(c)
    PROVE  Inv'
<1>i. TypeOK /\ IdInv /\ ProcessInv /\ ReachInv /\ BoundInv
  BY DEF Inv
<1>a. /\ pc[c] = "collect"
      /\ pc' = [pc EXCEPT ![c] = IF net[c] = "denied" \/ failed[c] \/ ~startedAlive[c]
                                 THEN "end" ELSE "refresh"]
      /\ UNCHANGED <<storeVars, callVars, os, token, failed, net, taskVars, writerVars,
                     cleanVars>>
  BY DEF CollectOutput
<1>p. /\ pc'[c] = IF net[c] = "denied" \/ failed[c] \/ ~startedAlive[c]
                  THEN "end" ELSE "refresh"
      /\ \A d \in Calls : d # c => pc'[d] = pc[d]
      /\ pc' \in [Calls -> {"idle", "done", "aborted"} \cup InFlight]
  BY <1>i, <1>a DEF TypeOK, InFlight, HasProcess
<1>s. StoreShrinks /\ Stored' = Stored
  BY <1>a DEF StoreShrinks, Stored, storeVars
<1>1. TypeOK'
  BY <1>i, <1>a, <1>p DEF TypeOK, storeVars, callVars, taskVars, writerVars, cleanVars
<1>2. IdInv'
  <2>1. CallsAdvance
    BY <1>i, <1>a, <1>p DEF CallsAdvance, Past, callVars, taskVars
  <2>2. HoldersShrink
    BY <1>i, <1>a DEF HoldersShrink, writerVars, cleanVars, IdInv, EntriesOwned
  <2> QED
    BY <2>1, <2>2, <1>i, <1>s, IdFrame
<1>3. ProcessInv'
  <2> SUFFICES ASSUME NEW d \in Calls
               PROVE  PlaceOK(d)' /\ RunningOK(d)' /\ EndsOK(d)'
    BY DEF ProcessInv
  <2>1. PlaceOK(d) /\ RunningOK(d) /\ EndsOK(d)
    BY <1>i DEF ProcessInv
  <2>3. CASE d # c
    <3>1. Still(d) /\ Calm(d)
      BY <2>3, <1>a, <1>p DEF Still, Calm, callVars, taskVars
    <3> QED
      BY <3>1, <2>1, ProcessFrame
  <2>4. CASE d = c
    <3>1. PlaceOK(c)'
      BY <2>1, <2>4, <1>a, <1>p DEF PlaceOK, Past, callVars, taskVars
    <3>2. RunningOK(c)'
      BY <2>1, <2>4, <1>a, <1>p DEF RunningOK, callVars, taskVars
    <3>3. EndsOK(c)'
      BY <2>1, <2>4, <1>a, <1>p DEF EndsOK, EndToCome, Before, callVars, taskVars
    <3> QED
      BY <2>4, <3>1, <3>2, <3>3
  <2> QED
    BY <2>3, <2>4
<1>4. ReachInv'
  <2>2. \A d \in Calls : Reachable(d) => Reachable(d)'
    BY <1>a, <1>p, <1>s DEF Reachable, callVars, cleanVars
  <2> QED
    BY <2>2, <1>i, <1>a, ReachFrame DEF callVars, cleanVars
<1>5. BoundInv'
  BY <1>i, <1>a, <1>s, BoundFrame DEF storeVars, taskVars
<1> QED
  BY <1>1, <1>2, <1>3, <1>4, <1>5 DEF Inv

\* exec_command sends the End event only of a process that was never stored, which has
\* no exit watcher and does not run.
LEMMA EmitEndStep ==
    ASSUME Inv, NEW c \in Calls, EmitEnd(c)
    PROVE  Inv'
<1>i. TypeOK /\ IdInv /\ ProcessInv /\ ReachInv /\ BoundInv
  BY DEF Inv
<1>a. /\ pc[c] = "end" /\ pc' = [pc EXCEPT ![c] = "release"]
      /\ ends' = [ends EXCEPT ![c] = IF startedAlive[c] THEN ends[c] ELSE ends[c] + 1]
      /\ Unregister({c})
      /\ UNCHANGED <<storeVars, callVars, os, token, failed, denial, begun, watcher,
                     writerVars, cleanVars>>
  BY DEF EmitEnd
<1>n. /\ net' \in [Calls -> {"none", "open", "denied", "closed"}]
      /\ \A d \in Calls : net[d] \in {"none", "denied"} => net'[d] = net[d]
  BY <1>i, <1>a, Unregistered
<1>p. /\ pc'[c] = "release" /\ \A d \in Calls : d # c => pc'[d] = pc[d]
      /\ pc' \in [Calls -> {"idle", "done", "aborted"} \cup InFlight]
  BY <1>i, <1>a DEF TypeOK, InFlight, HasProcess
<1>o. /\ ends' \in [Calls -> Nat]
      /\ ends'[c] = IF startedAlive[c] THEN ends[c] ELSE ends[c] + 1
      /\ \A d \in Calls : d # c => ends'[d] = ends[d]
  BY <1>i, <1>a DEF TypeOK
<1>s. StoreShrinks /\ Stored' = Stored
  BY <1>a DEF StoreShrinks, Stored, storeVars
<1>1. TypeOK'
  BY <1>i, <1>a, <1>n, <1>o, <1>p DEF TypeOK, storeVars, callVars, writerVars, cleanVars
<1>2. IdInv'
  <2>1. CallsAdvance
    BY <1>i, <1>a, <1>p DEF CallsAdvance, Past, callVars
  <2>2. HoldersShrink
    BY <1>i, <1>a DEF HoldersShrink, writerVars, cleanVars, IdInv, EntriesOwned
  <2> QED
    BY <2>1, <2>2, <1>i, <1>s, IdFrame
<1>3. ProcessInv'
  <2> SUFFICES ASSUME NEW d \in Calls
               PROVE  PlaceOK(d)' /\ RunningOK(d)' /\ EndsOK(d)'
    BY DEF ProcessInv
  <2>1. PlaceOK(d) /\ RunningOK(d) /\ EndsOK(d)
    BY <1>i DEF ProcessInv
  <2>3. CASE d # c
    <3>1. Still(d) /\ Calm(d)
      BY <2>3, <1>a, <1>n, <1>o, <1>p DEF Still, Calm, callVars
    <3> QED
      BY <3>1, <2>1, ProcessFrame
  <2>4. CASE d = c
    <3>1. PlaceOK(c)'
      BY <2>1, <2>4, <1>a, <1>p DEF PlaceOK, Past, callVars
    <3>2. RunningOK(c)'
      BY <2>1, <2>4, <1>a, <1>n, <1>p DEF RunningOK, callVars
    <3>3. EndsOK(c)'
      <4>1. CASE startedAlive[c]
        BY <4>1, <2>1, <2>4, <1>a, <1>o, <1>p DEF EndsOK, EndToCome, Before
      <4>2. CASE ~startedAlive[c]
        <5>1. ends[c] = 0 /\ ends'[c] = 1 /\ watcher'[c] = "off" /\ os'[c] # "running"
          BY <4>2, <2>1, <2>4, <1>a, <1>o DEF EndsOK, EndToCome, PlaceOK, RunningOK
        <5> QED
          BY <5>1, <1>p DEF EndsOK, EndToCome, Before
      <4> QED
        BY <4>1, <4>2
    <3> QED
      BY <2>4, <3>1, <3>2, <3>3
  <2> QED
    BY <2>3, <2>4
<1>4. ReachInv'
  <2>2. \A d \in Calls : Reachable(d) => Reachable(d)'
    BY <1>a, <1>p, <1>s DEF Reachable, callVars, cleanVars
  <2> QED
    BY <2>2, <1>i, <1>a, ReachFrame DEF callVars, cleanVars
<1>5. BoundInv'
  BY <1>i, <1>a, <1>s, BoundFrame DEF storeVars
<1> QED
  BY <1>1, <1>2, <1>3, <1>4, <1>5 DEF Inv

\* The call ends and drops its own entry: a process that then still ran was denied its
\* network and is terminated in the same step.
LEMMA ReleaseCallStep ==
    ASSUME Inv, NEW c \in Calls, ReleaseCall(c)
    PROVE  Inv'
<1>i. TypeOK /\ IdInv /\ ProcessInv /\ ReachInv /\ BoundInv
  BY DEF Inv
<1> DEFINE T == IfDenied(c, c)
<1>a. /\ pc[c] = "release" /\ pc' = [pc EXCEPT ![c] = "done"]
      /\ RemoveId(id[c]) /\ Unregister({store[id[c]]})
      /\ Fail(T) /\ Terminate(T)
      /\ UNCHANGED <<older, callVars, taskVars, writerVars, cleanVars>>
  BY DEF ReleaseCall, Release
<1>b. id[c] \in Ids /\ store[id[c]] \in {c, NoCall}
  BY <1>i, <1>a, StartedHasId, OwnId
<1>d. T \subseteq {c} /\ (net[c] = "denied" => c \in T)
  BY DEF IfDenied
<1> HIDE DEF T
<1>n. /\ net' \in [Calls -> {"none", "open", "denied", "closed"}]
      /\ \A d \in Calls : net[d] \in {"none", "denied"} => net'[d] = net[d]
  BY <1>i, <1>a, Unregistered
<1>f. /\ failed' \in [Calls -> BOOLEAN]
      /\ \A d \in Calls : d \notin T => failed'[d] = failed[d]
  BY <1>i, <1>a, Failed
<1>p. /\ pc'[c] = "done" /\ \A d \in Calls : d # c => pc'[d] = pc[d]
      /\ pc' \in [Calls -> {"idle", "done", "aborted"} \cup InFlight]
  BY <1>i, <1>a DEF TypeOK
<1>o. /\ os' \in [Calls -> {"none", "running", "killed", "exited", "lost"}]
      /\ token' \in [Calls -> BOOLEAN]
      /\ \A d \in Calls :
           /\ os[d] = "none" <=> os'[d] = "none"
           /\ os'[d] = "running" => os[d] = "running" /\ token'[d] = token[d] /\ d \notin T
  BY <1>i, <1>a, Terminated
<1>q. PlaceOK(c) /\ RunningOK(c) /\ EndsOK(c)
  BY <1>i DEF ProcessInv
<1>r. os'[c] # "running"
  BY <1>a, <1>d, <1>o, <1>q DEF RunningOK
<1>s. /\ StoreShrinks /\ reserved' \subseteq Ids /\ store' \in [Ids -> Calls \cup {NoCall}]
      /\ \A d \in Calls : d # c /\ d \in Stored => d \in Stored'
  BY <1>i, <1>a, <1>b, Removed, StoreAssumption
<1>1. TypeOK'
  BY <1>i, <1>a, <1>f, <1>n, <1>o, <1>p, <1>s DEF TypeOK, callVars, taskVars, writerVars, cleanVars
<1>2. IdInv'
  <2>1. CallsAdvance
    BY <1>i, <1>a, <1>p DEF CallsAdvance, Past, callVars, taskVars
  <2>2. HoldersShrink
    BY <1>i, <1>a DEF HoldersShrink, writerVars, cleanVars, IdInv, EntriesOwned
  <2> QED
    BY <2>1, <2>2, <1>i, <1>s, IdFrame
<1>3. ProcessInv'
  <2> SUFFICES ASSUME NEW d \in Calls
               PROVE  PlaceOK(d)' /\ RunningOK(d)' /\ EndsOK(d)'
    BY DEF ProcessInv
  <2>1. PlaceOK(d) /\ RunningOK(d) /\ EndsOK(d)
    BY <1>i DEF ProcessInv
  <2>3. CASE d # c
    <3>1. Still(d) /\ Calm(d)
      BY <2>3, <1>a, <1>d, <1>f, <1>n, <1>o, <1>p DEF Still, Calm, callVars, taskVars
    <3> QED
      BY <3>1, <2>1, ProcessFrame
  <2>4. CASE d = c
    <3>1. PlaceOK(c)' /\ RunningOK(c)'
      BY <1>a, <1>p, <1>q, <1>r DEF PlaceOK, RunningOK, Past, callVars, taskVars
    <3>3. EndsOK(c)'
      BY <1>a, <1>p, <1>q, <1>r DEF EndsOK, EndToCome, Before, callVars, taskVars
    <3> QED
      BY <2>4, <3>1, <3>3
  <2> QED
    BY <2>3, <2>4
<1>4. ReachInv'
  <2>2. \A d \in Calls : os'[d] = "running" /\ Reachable(d) => Reachable(d)'
    BY <1>a, <1>p, <1>r, <1>s DEF Reachable, callVars, cleanVars
  <2> QED
    BY <2>2, <1>i, <1>a, <1>o, ReachFrame DEF callVars, cleanVars
<1>5. BoundInv'
  BY <1>i, <1>a, <1>s, BoundFrame DEF taskVars
<1> QED
  BY <1>1, <1>2, <1>3, <1>4, <1>5 DEF Inv

\* The call ends and looks its entry up: it removes only its own, of a process that
\* does not run any more.
LEMMA RefreshCallStep ==
    ASSUME Inv, NEW c \in Calls, RefreshCall(c)
    PROVE  Inv'
<1>i. TypeOK /\ IdInv /\ ProcessInv /\ ReachInv /\ BoundInv
  BY DEF Inv
<1>a. /\ pc[c] = "refresh" /\ pc' = [pc EXCEPT ![c] = "done"]
      /\ UNCHANGED <<older, callVars, taskVars, writerVars, cleanVars>>
  BY DEF RefreshCall
<1>b. id[c] \in Ids /\ store[id[c]] \in {c, NoCall}
  BY <1>i, <1>a, StartedHasId, OwnId
<1>q. PlaceOK(c) /\ RunningOK(c) /\ EndsOK(c)
  BY <1>i DEF ProcessInv
<1>c. /\ StoreShrinks /\ reserved' \subseteq Ids /\ store' \in [Ids -> Calls \cup {NoCall}]
      /\ \A d \in Calls : d \in Stored => d \in Stored' \/ (d = c /\ os[c] # "running")
      /\ net' \in [Calls -> {"none", "open", "denied", "closed"}]
      /\ \A d \in Calls : net[d] \in {"none", "denied"} => net'[d] = net[d]
      /\ failed' \in [Calls -> BOOLEAN]
      /\ \A d \in Calls : failed'[d] = failed[d] \/ (d = c /\ os[c] # "running")
      /\ \E T \in SUBSET Calls : Terminate(T)
  <2>1. CASE store[id[c]] # NoCall /\ HasExited(store[id[c]])
    <3>1. /\ store[id[c]] = c /\ RemoveId(id[c]) /\ Unregister({c})
          /\ Fail(IfDenied(c, c)) /\ Terminate(IfDenied(c, c))
      BY <2>1, <1>b DEF RefreshCall
    <3>2. os[c] # "running"
      BY <2>1, <3>1, <1>q DEF HasExited, RunningOK
    <3>3. IfDenied(c, c) \in SUBSET Calls /\ IfDenied(c, c) \subseteq {c}
      BY DEF IfDenied
    <3> QED
      BY <3>1, <3>2, <3>3, <1>i, <1>b, Removed, Unregistered, Failed
  <2>2. CASE ~(store[id[c]] # NoCall /\ HasExited(store[id[c]]))
    <3>1. UNCHANGED <<reserved, store, failed, net>> /\ Terminate({})
      BY <2>2 DEF RefreshCall
    <3> QED
      BY <3>1, <1>i DEF StoreShrinks, Stored, TypeOK
  <2> QED
    BY <2>1, <2>2
<1>p. /\ pc'[c] = "done" /\ \A d \in Calls : d # c => pc'[d] = pc[d]
      /\ pc' \in [Calls -> {"idle", "done", "aborted"} \cup InFlight]
  BY <1>i, <1>a DEF TypeOK
<1>o. /\ os' \in [Calls -> {"none", "running", "killed", "exited", "lost"}]
      /\ token' \in [Calls -> BOOLEAN]
      /\ \A d \in Calls :
           /\ os[d] = "none" <=> os'[d] = "none"
           /\ os'[d] = "running" => os[d] = "running" /\ token'[d] = token[d]
  BY <1>i, <1>c, Terminated
<1>1. TypeOK'
  BY <1>i, <1>a, <1>c, <1>o, <1>p DEF TypeOK, callVars, taskVars, writerVars, cleanVars
<1>2. IdInv'
  <2>1. CallsAdvance
    BY <1>i, <1>a, <1>p DEF CallsAdvance, Past, callVars, taskVars
  <2>2. HoldersShrink
    BY <1>i, <1>a DEF HoldersShrink, writerVars, cleanVars, IdInv, EntriesOwned
  <2> QED
    BY <2>1, <2>2, <1>i, <1>c, IdFrame
<1>3. ProcessInv'
  <2> SUFFICES ASSUME NEW d \in Calls
               PROVE  PlaceOK(d)' /\ RunningOK(d)' /\ EndsOK(d)'
    BY DEF ProcessInv
  <2>1. PlaceOK(d) /\ RunningOK(d) /\ EndsOK(d)
    BY <1>i DEF ProcessInv
  <2>3. CASE d # c
    <3>1. Still(d) /\ Calm(d)
      BY <2>3, <1>a, <1>c, <1>o, <1>p DEF Still, Calm, callVars, taskVars
    <3> QED
      BY <3>1, <2>1, ProcessFrame
  <2>4. CASE d = c
    <3>1. PlaceOK(c)'
      BY <1>a, <1>p, <1>q DEF PlaceOK, Past, callVars, taskVars
    <3>2. RunningOK(c)'
      BY <1>a, <1>c, <1>o, <1>p, <1>q DEF RunningOK
    <3>3. EndsOK(c)'
      BY <1>a, <1>o, <1>p, <1>q DEF EndsOK, EndToCome, Before, callVars, taskVars
    <3> QED
      BY <2>4, <3>1, <3>2, <3>3
  <2> QED
    BY <2>3, <2>4
<1>4. ReachInv'
  <2>2. \A d \in Calls : os'[d] = "running" /\ Reachable(d) => Reachable(d)'
    BY <1>a, <1>c, <1>o, <1>p DEF Reachable, callVars, cleanVars
  <2> QED
    BY <2>2, <1>i, <1>a, <1>o, ReachFrame DEF callVars, cleanVars
<1>5. BoundInv'
  BY <1>i, <1>a, <1>c, BoundFrame DEF taskVars
<1> QED
  BY <1>1, <1>2, <1>3, <1>4, <1>5 DEF Inv

\* An interrupted call leaves its process running only in the store, with the task that
\* waits for a denial, or with whoever has taken it out; the last Arc stops the others.
LEMMA InterruptStep ==
    ASSUME Inv, NEW c \in Calls, Interrupt(c)
    PROVE  Inv'
<1>i. TypeOK /\ IdInv /\ ProcessInv /\ ReachInv /\ BoundInv
  BY DEF Inv
<1>a. /\ pc[c] \in InFlight /\ pc' = [pc EXCEPT ![c] = "aborted"]
      /\ inputs < MaxInputs /\ inputs' = inputs + 1
      /\ pruning' = [pruning EXCEPT ![c] = NoCall]
      /\ abandoned' = abandoned \cup Abandons(c)
      /\ UNCHANGED <<storeVars, id, startedAlive, failed, net, taskVars, writer, cleanVars>>
      /\ Terminate({})
  BY DEF Interrupt
<1>p. /\ pc'[c] = "aborted" /\ pruning'[c] = NoCall
      /\ \A d \in Calls : d # c => pc'[d] = pc[d] /\ pruning'[d] = pruning[d]
      /\ pc' \in [Calls -> {"idle", "done", "aborted"} \cup InFlight]
      /\ pruning' \in [Calls -> Calls \cup {NoCall}]
  BY <1>i, <1>a DEF TypeOK
<1>b. /\ abandoned' \subseteq Calls /\ abandoned \subseteq abandoned'
      /\ pruning[c] # NoCall => pruning[c] \in abandoned'
      /\ pc[c] \in {"begin", "store"} /\ denial[c] = "waiting" => c \in abandoned'
  BY <1>i, <1>a DEF Abandons, TypeOK
<1>o. /\ os' \in [Calls -> {"none", "running", "killed", "exited", "lost"}]
      /\ token' \in [Calls -> BOOLEAN]
      /\ \A d \in Calls :
           /\ os[d] = "none" <=> os'[d] = "none"
           /\ os'[d] = "running" => os[d] = "running" /\ token'[d] = token[d] /\ Held(d)'
  BY <1>i, <1>a, Terminated
<1>q. PlaceOK(c) /\ RunningOK(c) /\ EndsOK(c)
  BY <1>i DEF ProcessInv
<1>s. StoreShrinks /\ Stored' = Stored
  BY <1>a DEF StoreShrinks, Stored, storeVars
<1>1. TypeOK'
  <2>1. inputs' \in 0..MaxInputs
    BY <1>i, <1>a, StoreAssumption DEF TypeOK
  <2> QED
    BY <2>1, <1>i, <1>a, <1>b, <1>o, <1>p DEF TypeOK, storeVars, taskVars, cleanVars
<1>2. IdInv'
  <2>1. CallsAdvance
    BY <1>i, <1>a, <1>p DEF CallsAdvance, Past, taskVars, InFlight, HasProcess
  <2>2. HoldersShrink
    BY <1>i, <1>a DEF HoldersShrink, cleanVars, IdInv, EntriesOwned
  <2> QED
    BY <2>1, <2>2, <1>i, <1>s, IdFrame
<1>3. ProcessInv'
  <2> SUFFICES ASSUME NEW d \in Calls
               PROVE  PlaceOK(d)' /\ RunningOK(d)' /\ EndsOK(d)'
    BY DEF ProcessInv
  <2>1. PlaceOK(d) /\ RunningOK(d) /\ EndsOK(d)
    BY <1>i DEF ProcessInv
  <2>3. CASE d # c
    <3>1. Still(d) /\ Calm(d)
      BY <2>3, <1>a, <1>o, <1>p DEF Still, Calm, taskVars
    <3> QED
      BY <3>1, <2>1, ProcessFrame
  <2>4. CASE d = c
    <3>1. PlaceOK(c)'
      BY <1>a, <1>p, <1>q DEF PlaceOK, Past, taskVars
    <3>2. RunningOK(c)'
      BY <1>a, <1>o, <1>p, <1>q DEF RunningOK
    <3>3. EndsOK(c)'
      BY <1>a, <1>o, <1>p, <1>q DEF EndsOK, EndToCome, Before, taskVars
    <3> QED
      BY <2>4, <3>1, <3>2, <3>3
  <2> QED
    BY <2>3, <2>4
<1>4. ReachInv'
  <2>1. ASSUME pc[c] \in {"begin", "store"}, os'[c] = "running"
        PROVE  c \in abandoned'
    <3>1. pc[c] \notin Past
      BY <2>1 DEF Past
    <3>2. c \notin Stored'
      BY <3>1, <1>i, <1>s, StoreAssumption DEF Stored, IdInv, EntriesOwned
    <3>3. watcher'[c] = "off"
      BY <3>1, <1>a, <1>q DEF PlaceOK, taskVars
    <3>4. writer'.call # c
      BY <3>1, <1>i, <1>a, StoreAssumption DEF IdInv, EntriesOwned, NoWriter
    <3>5. \A d \in Calls : pruning'[d] # c
      BY <3>1, <1>i, <1>p, StoreAssumption DEF IdInv, EntriesOwned
    <3>6. c \notin cleaner'.left
      BY <3>1, <1>i, <1>a DEF IdInv, EntriesOwned, cleanVars
    <3>7. denial'[c] = "waiting"
      <4>1. Held(c)'
        BY <2>1, <1>o
      <4>2. pc'[c] \notin HasProcess
        BY <1>p DEF HasProcess
      <4> QED
        BY <4>1, <4>2, <3>2, <3>3, <3>4, <3>5, <3>6 DEF Held
    <3> QED
      BY <3>7, <2>1, <1>a, <1>b DEF taskVars
  <2>2. \A d \in Calls : os'[d] = "running" /\ Reachable(d) => Reachable(d)'
    <3> SUFFICES ASSUME NEW d \in Calls, os'[d] = "running", Reachable(d)
                 PROVE  Reachable(d)'
      OBVIOUS
    <3>1. CASE pc[d] \in {"begin", "store"}
      BY <3>1, <2>1, <1>p DEF Reachable
    <3>2. CASE \E e \in Calls : pruning[e] = d
      BY <3>2, <1>b, <1>p, StoreAssumption DEF Reachable
    <3>3. CASE d \in Stored \/ d \in cleaner.left \/ d \in abandoned
      BY <3>3, <1>a, <1>b, <1>s DEF Reachable, cleanVars
    <3> QED
      BY <3>1, <3>2, <3>3 DEF Reachable
  <2> QED
    BY <2>2, <1>i, <1>a, <1>b, <1>o, ReachFrame DEF cleanVars
<1>5. BoundInv'
  BY <1>i, <1>a, <1>s, BoundFrame DEF storeVars, taskVars
<1> QED
  BY <1>1, <1>2, <1>3, <1>4, <1>5 DEF Inv

----------------------------------------------------------------------------
(* The process and its tasks, one lemma for each of their steps. *)

\* What a step of a process or of its tasks leaves alone.
Aside == UNCHANGED <<storeVars, pc, callVars, begun, writerVars, cleanVars>>

\* A step that touches neither the store nor the calls keeps those parts, and the reach
\* of what still runs.
LEMMA AsideFrame ==
    ASSUME TypeOK, IdInv, ReachInv, BoundInv, Aside,
           \A c \in Calls : os[c] = "none" <=> os'[c] = "none",
           \A c \in Calls : os'[c] = "running" => os[c] = "running"
    PROVE  IdInv' /\ ReachInv' /\ BoundInv'
<1>1. StoreShrinks /\ Stored' = Stored
  BY DEF Aside, StoreShrinks, Stored, storeVars
<1>2. CallsAdvance
  BY DEF Aside, CallsAdvance, callVars
<1>3. HoldersShrink
  BY DEF Aside, HoldersShrink, writerVars, cleanVars, IdInv, EntriesOwned
<1>4. \A c \in Calls : Reachable(c) => Reachable(c)'
  BY <1>1 DEF Aside, Reachable, callVars, cleanVars
<1>5. ReachInv'
  BY <1>4, ReachFrame DEF Aside, callVars, cleanVars
<1>6. IdInv'
  BY <1>1, <1>2, <1>3, IdFrame
<1>7. BoundInv'
  BY <1>1, BoundFrame DEF Aside, storeVars
<1> QED
  BY <1>5, <1>6, <1>7

\* The exit of a child stops a process and starts none.
LEMMA ExitStep ==
    ASSUME Inv, NEW c \in Calls, Exit(c)
    PROVE  Inv'
<1>i. TypeOK /\ IdInv /\ ProcessInv /\ ReachInv /\ BoundInv
  BY DEF Inv
<1>a. /\ os[c] \in {"running", "killed"} /\ os' = [os EXCEPT ![c] = "exited"]
      /\ UNCHANGED <<storeVars, pc, callVars, token, failed, net, taskVars, writerVars,
                     cleanVars>>
  BY DEF Exit
<1>o. /\ os' \in [Calls -> {"none", "running", "killed", "exited", "lost"}]
      /\ \A d \in Calls :
           /\ os[d] = "none" <=> os'[d] = "none"
           /\ os'[d] = "running" => os[d] = "running"
  BY <1>i, <1>a, ProcessTypes
<1>1. TypeOK'
  BY <1>i, <1>a, <1>o DEF TypeOK, storeVars, callVars, taskVars, writerVars, cleanVars
<1>2. IdInv' /\ ReachInv' /\ BoundInv'
  <2>1. Aside
    BY <1>a DEF Aside, taskVars
  <2> QED
    BY <2>1, <1>i, <1>o, AsideFrame
<1>3. ProcessInv'
  <2> SUFFICES ASSUME NEW d \in Calls
               PROVE  PlaceOK(d)' /\ RunningOK(d)' /\ EndsOK(d)'
    BY DEF ProcessInv
  <2>1. PlaceOK(d) /\ RunningOK(d) /\ EndsOK(d)
    BY <1>i DEF ProcessInv
  <2>2. Still(d) /\ Calm(d)
    BY <1>a, <1>o DEF Still, Calm, callVars, taskVars
  <2> QED
    BY <2>1, <2>2, ProcessFrame
<1> QED
  BY <1>1, <1>2, <1>3 DEF Inv

\* A process that the exec-server no longer answers for runs no more.
LEMMA LoseProcessStep ==
    ASSUME Inv, NEW c \in Calls, LoseProcess(c)
    PROVE  Inv'
<1>i. TypeOK /\ IdInv /\ ProcessInv /\ ReachInv /\ BoundInv
  BY DEF Inv
<1>a. /\ os[c] = "running" /\ os' = [os EXCEPT ![c] = "lost"]
      /\ token' = [token EXCEPT ![c] = TRUE] /\ failed' = [failed EXCEPT ![c] = TRUE]
      /\ UNCHANGED <<storeVars, pc, callVars, net, taskVars, writerVars, cleanVars>>
  BY DEF LoseProcess
<1>o. /\ os' \in [Calls -> {"none", "running", "killed", "exited", "lost"}]
      /\ token' \in [Calls -> BOOLEAN] /\ failed' \in [Calls -> BOOLEAN]
      /\ os'[c] = "lost"
      /\ \A d \in Calls :
           /\ os[d] = "none" <=> os'[d] = "none"
           /\ os'[d] = "running" => os[d] = "running"
           /\ d # c => token'[d] = token[d] /\ failed'[d] = failed[d]
  BY <1>i, <1>a, ProcessTypes
<1>1. TypeOK'
  BY <1>i, <1>a, <1>o DEF TypeOK, storeVars, callVars, taskVars, writerVars, cleanVars
<1>2. IdInv' /\ ReachInv' /\ BoundInv'
  <2>1. Aside
    BY <1>a DEF Aside, taskVars
  <2> QED
    BY <2>1, <1>i, <1>o, AsideFrame
<1>3. ProcessInv'
  <2> SUFFICES ASSUME NEW d \in Calls
               PROVE  PlaceOK(d)' /\ RunningOK(d)' /\ EndsOK(d)'
    BY DEF ProcessInv
  <2>1. PlaceOK(d) /\ RunningOK(d) /\ EndsOK(d)
    BY <1>i DEF ProcessInv
  <2>2. d = c => pc[d] \notin {"idle", "opening"}
    BY <2>1, <1>a DEF PlaceOK
  <2>3. Still(d) /\ Calm(d)
    BY <2>2, <1>a, <1>o DEF Still, Calm, callVars, taskVars
  <2> QED
    BY <2>1, <2>3, ProcessFrame
<1> QED
  BY <1>1, <1>2, <1>3 DEF Inv

\* The token of a process that has exited is cancelled.
LEMMA ExitSeenStep ==
    ASSUME Inv, NEW c \in Calls, ExitSeen(c)
    PROVE  Inv'
<1>i. TypeOK /\ IdInv /\ ProcessInv /\ ReachInv /\ BoundInv
  BY DEF Inv
<1>a. /\ os[c] = "exited" /\ token' = [token EXCEPT ![c] = TRUE]
      /\ UNCHANGED <<storeVars, pc, callVars, os, failed, net, taskVars, writerVars,
                     cleanVars>>
  BY DEF ExitSeen
<1>o. /\ token' \in [Calls -> BOOLEAN]
      /\ \A d \in Calls : d # c => token'[d] = token[d]
  BY <1>i, <1>a, ProcessTypes
<1>1. TypeOK'
  BY <1>i, <1>a, <1>o DEF TypeOK, storeVars, callVars, taskVars, writerVars, cleanVars
<1>2. IdInv' /\ ReachInv' /\ BoundInv'
  <2>1. Aside
    BY <1>a DEF Aside, taskVars
  <2> QED
    BY <2>1, <1>i, <1>a, AsideFrame
<1>3. ProcessInv'
  <2> SUFFICES ASSUME NEW d \in Calls
               PROVE  PlaceOK(d)' /\ RunningOK(d)' /\ EndsOK(d)'
    BY DEF ProcessInv
  <2>1. PlaceOK(d) /\ RunningOK(d) /\ EndsOK(d)
    BY <1>i DEF ProcessInv
  <2>2. Still(d) /\ Calm(d)
    BY <1>a, <1>o DEF Still, Calm, callVars, taskVars
  <2> QED
    BY <2>1, <2>2, ProcessFrame
<1> QED
  BY <1>1, <1>2, <1>3 DEF Inv

\* A denial is recorded.
LEMMA DenyStep ==
    ASSUME Inv, NEW c \in Calls, Deny(c)
    PROVE  Inv'
<1>i. TypeOK /\ IdInv /\ ProcessInv /\ ReachInv /\ BoundInv
  BY DEF Inv
<1>a. /\ net[c] = "open" /\ net' = [net EXCEPT ![c] = "denied"]
      /\ UNCHANGED <<storeVars, pc, callVars, os, token, failed, taskVars, writerVars,
                     cleanVars>>
  BY DEF Deny
<1>o. /\ net' \in [Calls -> {"none", "open", "denied", "closed"}]
      /\ \A d \in Calls : net[d] \in {"none", "denied"} => net'[d] = net[d]
  BY <1>i, <1>a, ProcessTypes
<1>1. TypeOK'
  BY <1>i, <1>a, <1>o DEF TypeOK, storeVars, callVars, taskVars, writerVars, cleanVars
<1>2. IdInv' /\ ReachInv' /\ BoundInv'
  <2>1. Aside
    BY <1>a DEF Aside, taskVars
  <2> QED
    BY <2>1, <1>i, <1>a, AsideFrame
<1>3. ProcessInv'
  <2> SUFFICES ASSUME NEW d \in Calls
               PROVE  PlaceOK(d)' /\ RunningOK(d)' /\ EndsOK(d)'
    BY DEF ProcessInv
  <2>1. PlaceOK(d) /\ RunningOK(d) /\ EndsOK(d)
    BY <1>i DEF ProcessInv
  <2>2. Still(d) /\ Calm(d)
    BY <1>a, <1>o DEF Still, Calm, callVars, taskVars
  <2> QED
    BY <2>1, <2>2, ProcessFrame
<1> QED
  BY <1>1, <1>2, <1>3 DEF Inv

\* The task that waits for a denial fails and terminates the process, or ends.
LEMMA DenialTaskStep ==
    ASSUME Inv, NEW c \in Calls, DenialTask(c)
    PROVE  Inv'
<1>i. TypeOK /\ IdInv /\ ProcessInv /\ ReachInv /\ BoundInv
  BY DEF Inv
<1> DEFINE T == IfDenied(c, c)
<1>a. /\ denial[c] = "waiting" /\ denial' = [denial EXCEPT ![c] = "done"]
      /\ Fail(T) /\ Terminate(T)
      /\ UNCHANGED <<storeVars, pc, callVars, net, begun, watcher, ends, writerVars, cleanVars>>
  BY DEF DenialTask
<1>d. T \subseteq {c}
  BY DEF IfDenied
<1> HIDE DEF T
<1>f. /\ failed' \in [Calls -> BOOLEAN]
      /\ \A d \in Calls : d \notin T => failed'[d] = failed[d]
  BY <1>i, <1>a, Failed
<1>o. /\ os' \in [Calls -> {"none", "running", "killed", "exited", "lost"}]
      /\ token' \in [Calls -> BOOLEAN]
      /\ \A d \in Calls :
           /\ os[d] = "none" <=> os'[d] = "none"
           /\ os'[d] = "running" => os[d] = "running" /\ token'[d] = token[d] /\ d \notin T
  BY <1>i, <1>a, Terminated
<1>e. /\ denial' \in [Calls -> {"off", "waiting", "done"}]
      /\ \A d \in Calls : denial[d] = "off" => denial'[d] = "off"
  BY <1>i, <1>a DEF TypeOK
<1>1. TypeOK'
  BY <1>i, <1>a, <1>e, <1>f, <1>o DEF TypeOK, storeVars, callVars, writerVars, cleanVars
<1>2. IdInv' /\ ReachInv' /\ BoundInv'
  <2>1. Aside
    BY <1>a DEF Aside
  <2> QED
    BY <2>1, <1>i, <1>o, AsideFrame
<1>3. ProcessInv'
  <2> SUFFICES ASSUME NEW d \in Calls
               PROVE  PlaceOK(d)' /\ RunningOK(d)' /\ EndsOK(d)'
    BY DEF ProcessInv
  <2>1. PlaceOK(d) /\ RunningOK(d) /\ EndsOK(d)
    BY <1>i DEF ProcessInv
  <2>2. Still(d)
    BY <1>a DEF Still, callVars
  <2>3. d \in T => pc[d] \notin {"idle", "opening"}
    BY <2>1, <1>a, <1>d DEF PlaceOK
  <2>4. Calm(d)
    BY <2>3, <1>a, <1>e, <1>f, <1>o DEF Calm
  <2> QED
    BY <2>1, <2>2, <2>4, ProcessFrame
<1> QED
  BY <1>1, <1>2, <1>3 DEF Inv

\* The exit watcher sends the End event of a process that does not run, and nobody has
\* sent it before.
LEMMA ExitWatcherStep ==
    ASSUME Inv, NEW c \in Calls, ExitWatcher(c)
    PROVE  Inv'
<1>i. TypeOK /\ IdInv /\ ProcessInv /\ ReachInv /\ BoundInv
  BY DEF Inv
<1>a. /\ watcher[c] = "waiting" /\ token[c]
      /\ watcher' = [watcher EXCEPT ![c] = "done"]
      /\ ends' = [ends EXCEPT ![c] = ends[c] + 1]
      /\ UNCHANGED <<storeVars, pc, callVars, failed, net, denial, begun, writerVars, cleanVars>>
      /\ Terminate({})
  BY DEF ExitWatcher
<1>o. /\ os' \in [Calls -> {"none", "running", "killed", "exited", "lost"}]
      /\ token' \in [Calls -> BOOLEAN]
      /\ \A d \in Calls :
           /\ os[d] = "none" <=> os'[d] = "none"
           /\ os'[d] = "running" => os[d] = "running" /\ token'[d] = token[d]
  BY <1>i, <1>a, Terminated
<1>e. /\ watcher' \in [Calls -> {"off", "waiting", "done"}] /\ ends' \in [Calls -> Nat]
      /\ watcher'[c] = "done" /\ ends'[c] = ends[c] + 1
      /\ \A d \in Calls : d # c => watcher'[d] = watcher[d] /\ ends'[d] = ends[d]
  BY <1>i, <1>a DEF TypeOK
<1>1. TypeOK'
  BY <1>i, <1>a, <1>e, <1>o DEF TypeOK, storeVars, callVars, writerVars, cleanVars
<1>2. IdInv' /\ ReachInv' /\ BoundInv'
  <2>1. Aside
    BY <1>a DEF Aside
  <2> QED
    BY <2>1, <1>i, <1>o, AsideFrame
<1>3. ProcessInv'
  <2> SUFFICES ASSUME NEW d \in Calls
               PROVE  PlaceOK(d)' /\ RunningOK(d)' /\ EndsOK(d)'
    BY DEF ProcessInv
  <2>1. PlaceOK(d) /\ RunningOK(d) /\ EndsOK(d)
    BY <1>i DEF ProcessInv
  <2>3. CASE d # c
    <3>1. Still(d) /\ Calm(d)
      BY <2>3, <1>a, <1>e, <1>o DEF Still, Calm, callVars
    <3> QED
      BY <3>1, <2>1, ProcessFrame
  <2>4. CASE d = c
    <3>1. ends'[c] = 1 /\ os'[c] # "running"
      BY <2>1, <2>4, <1>a, <1>e, <1>o DEF EndsOK, EndToCome, RunningOK
    <3>2. PlaceOK(c)' /\ RunningOK(c)'
      BY <3>1, <2>1, <2>4, <1>a, <1>e, <1>o DEF PlaceOK, RunningOK, callVars
    <3>3. ~EndToCome(c)'
      BY <2>1, <2>4, <1>a, <1>e DEF PlaceOK, EndToCome, Before, Past, callVars
    <3> QED
      BY <2>4, <3>1, <3>2, <3>3 DEF EndsOK
  <2> QED
    BY <2>3, <2>4
<1> QED
  BY <1>1, <1>2, <1>3 DEF Inv

----------------------------------------------------------------------------
(* write_stdin and terminate_all_processes, one lemma for each of their steps. *)

\* A step that advances no call, removes from the store only processes that do not run,
\* and revives none.
LEMMA HolderFrame ==
    ASSUME Inv, TypeOK', HoldersShrink, StoreShrinks,
           UNCHANGED <<older, pc, callVars, taskVars, cleans>>,
           \A c \in Calls : os'[c] = "running" /\ c \in Stored => c \in Stored',
           \A c \in Calls : os'[c] = "running" /\ c \in cleaner.left => c \in cleaner'.left,
           \A c \in Calls : Calm(c)
    PROVE  Inv'
<1>i. TypeOK /\ IdInv /\ ProcessInv /\ ReachInv /\ BoundInv
  BY DEF Inv
<1>1. IdInv'
  <2>1. CallsAdvance
    BY DEF CallsAdvance, callVars, taskVars
  <2> QED
    BY <2>1, <1>i, IdFrame
<1>2. ProcessInv'
  <2> SUFFICES ASSUME NEW d \in Calls
               PROVE  PlaceOK(d)' /\ RunningOK(d)' /\ EndsOK(d)'
    BY DEF ProcessInv
  <2>1. PlaceOK(d) /\ RunningOK(d) /\ EndsOK(d)
    BY <1>i DEF ProcessInv
  <2>2. Still(d)
    BY DEF Still, callVars, taskVars
  <2> QED
    BY <2>1, <2>2, ProcessFrame
<1>3. ReachInv'
  <2>1. \A d \in Calls : /\ os[d] = "none" <=> os'[d] = "none"
                         /\ os'[d] = "running" => os[d] = "running"
    BY DEF Calm
  <2>2. \A d \in Calls : os'[d] = "running" /\ Reachable(d) => Reachable(d)'
    BY DEF Reachable, callVars
  <2> QED
    BY <2>1, <2>2, <1>i, ReachFrame DEF callVars
<1>4. BoundInv'
  BY <1>i, BoundFrame DEF taskVars
<1> QED
  BY <1>1, <1>2, <1>3, <1>4 DEF Inv

\* write_stdin takes a handle to a stored process, which becomes the last used.
LEMMA WriteStdinStep ==
    ASSUME Inv, NEW i \in Ids, WriteStdin(i)
    PROVE  Inv'
<1>i. TypeOK /\ IdInv /\ ProcessInv /\ ReachInv /\ BoundInv
  BY DEF Inv
<1>a. /\ store[i] # NoCall /\ UseNow(store[i])
      /\ inputs < MaxInputs /\ inputs' = inputs + 1
      /\ UNCHANGED <<reserved, store, pc, callVars, os, token, failed, net, taskVars, cleanVars>>
  BY DEF WriteStdin
<1>b. PICK next \in {"idle", "write", "poll"} :
         writer' = IF next = "idle" THEN NoWriter
                   ELSE [pc |-> next, call |-> store[i], id |-> i]
  BY DEF WriteStdin
<1>c. store[i] \in Calls
  BY <1>i, <1>a DEF TypeOK
<1>u. AgesOrdered' /\ older' \in [Calls -> SUBSET Calls]
  BY <1>i, <1>a, <1>c, UsedLast DEF BoundInv, taskVars
<1>1. TypeOK'
  <2>1. inputs' \in 0..MaxInputs
    BY <1>i, <1>a, StoreAssumption DEF TypeOK
  <2>2. writer' \in [pc : {"idle", "write", "poll", "exited"},
                     call : Calls \cup {NoCall}, id : Ids \cup {NoId}]
    BY <1>b, <1>c DEF NoWriter
  <2> QED
    BY <2>1, <2>2, <1>i, <1>a, <1>u DEF TypeOK, callVars, taskVars, cleanVars
<1>2. IdInv'
  <2>1. IdsDistinct'
    BY <1>i, <1>a DEF IdInv, IdsDistinct, callVars
  <2>2. id[store[i]] = i /\ pc[store[i]] \in Past
    BY <1>i, <1>a DEF IdInv, EntriesOwned
  <2>3. /\ writer'.pc # "idle" => /\ writer'.call \in Calls /\ id[writer'.call] = writer'.id
                                  /\ pc[writer'.call] \in Past
        /\ writer'.pc = "idle" => writer' = NoWriter
    BY <2>2, <1>b, <1>c DEF NoWriter
  <2>4. EntriesOwned'
    BY <2>3, <1>i, <1>a DEF IdInv, EntriesOwned, callVars, taskVars, cleanVars
  <2> QED
    BY <2>1, <2>4 DEF IdInv
<1>3. ProcessInv'
  <2> SUFFICES ASSUME NEW d \in Calls
               PROVE  PlaceOK(d)' /\ RunningOK(d)' /\ EndsOK(d)'
    BY DEF ProcessInv
  <2>1. PlaceOK(d) /\ RunningOK(d) /\ EndsOK(d)
    BY <1>i DEF ProcessInv
  <2>2. Still(d) /\ Calm(d)
    BY <1>a DEF Still, Calm, callVars, taskVars
  <2> QED
    BY <2>1, <2>2, ProcessFrame
<1>4. ReachInv'
  BY <1>i, <1>a DEF ReachInv, AllReachable, DueAreDrained, Reachable, Stored, callVars, cleanVars
<1>5. BoundInv'
  BY <1>i, <1>a, <1>u DEF BoundInv, StoreBounded, Stored
<1> QED
  BY <1>1, <1>2, <1>3, <1>4, <1>5 DEF Inv

\* The write is accepted.
LEMMA WriteAcceptedStep ==
    ASSUME Inv, WriteAccepted
    PROVE  Inv'
<1>i. TypeOK /\ IdInv
  BY DEF Inv
<1>a. /\ writer.pc = "write" /\ writer' = [writer EXCEPT !.pc = "poll"]
      /\ UNCHANGED <<storeVars, pc, callVars, os, token, failed, net, taskVars, inputs,
                     cleanVars>>
  BY DEF WriteAccepted
<1>w. /\ writer' \in [pc : {"idle", "write", "poll", "exited"},
                      call : Calls \cup {NoCall}, id : Ids \cup {NoId}]
      /\ writer'.pc = "poll" /\ writer'.call = writer.call /\ writer'.id = writer.id
  BY <1>i, <1>a DEF TypeOK
<1>1. TypeOK'
  BY <1>i, <1>a, <1>w DEF TypeOK, storeVars, callVars, taskVars, cleanVars
<1>2. HoldersShrink
  BY <1>i, <1>a, <1>w DEF HoldersShrink, cleanVars, IdInv, EntriesOwned
<1>3. StoreShrinks /\ Stored' = Stored
  BY <1>a DEF StoreShrinks, Stored, storeVars
<1>4. \A c \in Calls : Calm(c)
  BY <1>a DEF Calm, taskVars
<1> QED
  BY <1>a, <1>1, <1>2, <1>3, <1>4, HolderFrame DEF storeVars, cleanVars

\* The entry that write_stdin finds again is the one it has the handle of.
LEMMA WriterOwn ==
    ASSUME TypeOK, IdInv, writer.pc # "idle"
    PROVE  /\ writer.call \in Calls /\ writer.id \in Ids
           /\ pc[writer.call] \in Past /\ store[writer.id] \in {writer.call, NoCall}
<1>1. writer.call \in Calls /\ id[writer.call] = writer.id /\ pc[writer.call] \in Past
  BY DEF IdInv, EntriesOwned
<1>2. pc[writer.call] # "idle"
  BY <1>1 DEF Past
<1>3. writer.id \in Ids
  BY <1>1, <1>2, StartedHasId
<1> QED
  BY <1>1, <1>3, OwnId

\* A failed write removes the entry of a process that has exited, or that it terminates.
LEMMA WriteFailsStep ==
    ASSUME Inv, WriteFails
    PROVE  Inv'
<1>i. TypeOK /\ IdInv /\ ProcessInv
  BY DEF Inv
<1>a. /\ writer.pc = "write"
      /\ UNCHANGED <<older, pc, callVars, failed, taskVars, inputs, cleanVars>>
  BY DEF WriteFails
<1>b. /\ writer.call \in Calls /\ writer.id \in Ids /\ pc[writer.call] \in Past
      /\ store[writer.id] \in {writer.call, NoCall}
  BY <1>i, <1>a, WriterOwn
<1>c. /\ StoreShrinks /\ reserved' \subseteq Ids /\ store' \in [Ids -> Calls \cup {NoCall}]
      /\ net' \in [Calls -> {"none", "open", "denied", "closed"}]
      /\ \A d \in Calls : net[d] \in {"none", "denied"} => net'[d] = net[d]
      /\ \/ \E T \in SUBSET Calls :
              /\ Terminate(T)
              /\ \A d \in Calls : d \in Stored => d \in Stored' \/ d \in T \/ os[d] # "running"
         \/ /\ os[writer.call] = "running"
            /\ os' = [os EXCEPT ![writer.call] = "lost"]
            /\ token' = [token EXCEPT ![writer.call] = TRUE]
            /\ \A d \in Calls : d \in Stored => d \in Stored' \/ d = writer.call
      /\ \/ writer' = NoWriter
         \/ writer' = [writer EXCEPT !.pc = "exited"]
  <2> DEFINE e == store[writer.id]
  <2>1. CASE /\ e # NoCall /\ HasExited(e) /\ RemoveId(writer.id)
             /\ writer' = [writer EXCEPT !.pc = "exited"]
             /\ UNCHANGED net /\ Terminate({})
    <3>1. e \in Calls /\ os[e] # "running"
      BY <2>1, <1>b, <1>i DEF HasExited, ProcessInv, RunningOK
    <3> QED
      BY <2>1, <3>1, <1>i, <1>b, Removed, ProcessTypes
  <2>2. CASE /\ Release(writer.id) /\ writer' = NoWriter /\ Terminate({writer.call})
    BY <2>2, <1>i, <1>b, Removed, Unregistered, StoreAssumption DEF Release
  <2>3. CASE /\ writer' = NoWriter /\ UNCHANGED <<reserved, store, net>> /\ Terminate({})
    BY <2>3, <1>i DEF StoreShrinks, Stored, TypeOK
  <2>4. CASE /\ os[writer.call] = "running"
             /\ os' = [os EXCEPT ![writer.call] = "lost"]
             /\ token' = [token EXCEPT ![writer.call] = TRUE]
             /\ UNCHANGED net
             /\ IF e = writer.call
                THEN RemoveId(writer.id) /\ writer' = [writer EXCEPT !.pc = "exited"]
                ELSE UNCHANGED <<reserved, store>> /\ writer' = NoWriter
    <3>1. CASE e = writer.call
      BY <2>4, <3>1, <1>i, <1>b, Removed, ProcessTypes
    <3>2. CASE e # writer.call
      BY <2>4, <3>2, <1>i DEF StoreShrinks, Stored, TypeOK
    <3> QED
      BY <3>1, <3>2
  <2> QED
    BY <2>1, <2>2, <2>3, <2>4 DEF WriteFails
<1>o. /\ os' \in [Calls -> {"none", "running", "killed", "exited", "lost"}]
      /\ token' \in [Calls -> BOOLEAN]
      /\ \A d \in Calls :
           /\ os[d] = "none" <=> os'[d] = "none"
           /\ os'[d] = "running" => os[d] = "running" /\ token'[d] = token[d]
      /\ \A d \in Calls : os'[d] = "running" /\ d \in Stored => d \in Stored'
  <2>1. ASSUME NEW T \in SUBSET Calls, Terminate(T)
        PROVE  /\ os' \in [Calls -> {"none", "running", "killed", "exited", "lost"}]
               /\ token' \in [Calls -> BOOLEAN]
               /\ \A d \in Calls :
                    /\ os[d] = "none" <=> os'[d] = "none"
                    /\ os'[d] = "running" => os[d] = "running" /\ d \notin T /\ token'[d] = token[d]
    BY <2>1, <1>i, Terminated
  <2>2. CASE /\ os[writer.call] = "running"
             /\ os' = [os EXCEPT ![writer.call] = "lost"]
             /\ token' = [token EXCEPT ![writer.call] = TRUE]
             /\ \A d \in Calls : d \in Stored => d \in Stored' \/ d = writer.call
    BY <2>2, <1>b, <1>i, ProcessTypes
  <2> QED
    BY <1>c, <2>1, <2>2
<1>w. /\ writer' \in [pc : {"idle", "write", "poll", "exited"},
                      call : Calls \cup {NoCall}, id : Ids \cup {NoId}]
      /\ \/ writer' = NoWriter
         \/ /\ writer'.pc = "exited" /\ writer'.call = writer.call /\ writer'.id = writer.id
  BY <1>i, <1>c DEF TypeOK, NoWriter
<1>1. TypeOK'
  BY <1>i, <1>a, <1>c, <1>o, <1>w DEF TypeOK, callVars, taskVars, cleanVars
<1>2. HoldersShrink
  BY <1>i, <1>a, <1>w DEF HoldersShrink, cleanVars, IdInv, EntriesOwned
<1>4. \A c \in Calls : Calm(c)
  BY <1>a, <1>c, <1>o DEF Calm, taskVars
<1> QED
  BY <1>a, <1>c, <1>o, <1>1, <1>2, <1>4, HolderFrame DEF cleanVars

\* The poll ends: the entry goes after a denial, a failure or an exit, and a process
\* that was denied its network is terminated.
LEMMA PollReturnsStep ==
    ASSUME Inv, PollReturns
    PROVE  Inv'
<1>i. TypeOK /\ IdInv /\ ProcessInv
  BY DEF Inv
<1> DEFINE c == writer.call
           e == store[writer.id]
           T == IfDenied(c, c)
<1>a. /\ writer.pc \in {"poll", "exited"} /\ writer' = NoWriter
      /\ UNCHANGED <<older, pc, callVars, taskVars, inputs, cleanVars>>
      /\ Fail(T) /\ Terminate(T)
  BY DEF PollReturns
<1>b. /\ c \in Calls /\ writer.id \in Ids /\ pc[c] \in Past /\ e \in {c, NoCall}
  BY <1>i, <1>a, WriterOwn
<1>d. T \in SUBSET Calls /\ T \subseteq {c} /\ (net[c] = "denied" => c \in T)
  BY <1>b DEF IfDenied
<1>q. PlaceOK(c) /\ RunningOK(c) /\ EndsOK(c)
  BY <1>i, <1>b DEF ProcessInv
<1>c. /\ StoreShrinks /\ reserved' \subseteq Ids /\ store' \in [Ids -> Calls \cup {NoCall}]
      /\ net' \in [Calls -> {"none", "open", "denied", "closed"}]
      /\ \A d \in Calls : net[d] \in {"none", "denied"} => net'[d] = net[d]
      /\ \A d \in Calls : d \in Stored => d \in Stored' \/ d \in T \/ os[d] # "running"
  <2>1. CASE net[c] = "denied" \/ failed[c]
    <3>1. Release(writer.id)
      BY <2>1 DEF PollReturns
    <3>2. c \in T \/ os[c] # "running"
      BY <2>1, <1>d, <1>q DEF RunningOK
    <3> HIDE DEF c, e, T
    <3>3. e = store[writer.id]
      BY DEF e
    <3> QED
      BY <3>1, <3>2, <3>3, <1>i, <1>b, Removed, Unregistered, StoreAssumption DEF Release
  <2>2. CASE /\ ~(net[c] = "denied" \/ failed[c])
             /\ ~(writer.pc = "exited" \/ (e # NoCall /\ HasExited(e)))
    <3>1. UNCHANGED <<reserved, store, net>>
      BY <2>2 DEF PollReturns
    <3> QED
      BY <3>1, <1>i DEF StoreShrinks, Stored, TypeOK
  <2>3. CASE /\ ~(net[c] = "denied" \/ failed[c])
             /\ writer.pc = "exited" \/ (e # NoCall /\ HasExited(e))
    <3>1. /\ IF writer.pc = "poll" THEN RemoveId(writer.id) ELSE UNCHANGED <<reserved, store>>
          /\ Unregister({c})
      BY <2>3 DEF PollReturns
    <3>n. /\ net' \in [Calls -> {"none", "open", "denied", "closed"}]
          /\ \A d \in Calls : net[d] \in {"none", "denied"} => net'[d] = net[d]
      BY <3>1, <1>i, Unregistered
    <3>2. CASE writer.pc = "poll"
      <4>1. RemoveId(writer.id) /\ e # NoCall /\ HasExited(e)
        BY <3>1, <3>2, <2>3
      <4>2. e = c /\ os[c] # "running"
        BY <4>1, <1>b, <1>q DEF HasExited, RunningOK
      <4> HIDE DEF c, e, T
      <4>3. e = store[writer.id]
        BY DEF e
      <4> QED
        BY <3>n, <4>1, <4>2, <4>3, <1>i, <1>b, Removed
    <3>3. CASE writer.pc # "poll"
      BY <3>1, <3>3, <3>n, <1>i DEF StoreShrinks, Stored, TypeOK
    <3> QED
      BY <3>2, <3>3
  <2> QED
    BY <2>1, <2>2, <2>3
<1> HIDE DEF c, e, T
<1>f. /\ failed' \in [Calls -> BOOLEAN]
      /\ \A d \in Calls : d \notin T => failed'[d] = failed[d]
  BY <1>i, <1>a, Failed
<1>o. /\ os' \in [Calls -> {"none", "running", "killed", "exited", "lost"}]
      /\ token' \in [Calls -> BOOLEAN]
      /\ \A d \in Calls :
           /\ os[d] = "none" <=> os'[d] = "none"
           /\ os'[d] = "running" => os[d] = "running" /\ token'[d] = token[d] /\ d \notin T
  BY <1>i, <1>a, Terminated
<1>w. writer' \in [pc : {"idle", "write", "poll", "exited"},
                   call : Calls \cup {NoCall}, id : Ids \cup {NoId}]
  BY <1>a DEF NoWriter
<1>1. TypeOK'
  BY <1>i, <1>a, <1>c, <1>f, <1>o, <1>w DEF TypeOK, callVars, taskVars, cleanVars
<1>2. HoldersShrink
  BY <1>i, <1>a DEF HoldersShrink, cleanVars, IdInv, EntriesOwned
<1>3. \A d \in Calls : os'[d] = "running" /\ d \in Stored => d \in Stored'
  BY <1>c, <1>o
<1>4. \A d \in Calls : Calm(d)
  BY <1>a, <1>b, <1>c, <1>d, <1>f, <1>o DEF Calm, taskVars, Past
<1> QED
  BY <1>a, <1>c, <1>1, <1>2, <1>3, <1>4, HolderFrame DEF cleanVars

\* An interrupted write_stdin drops its handle.
LEMMA InterruptWriterStep ==
    ASSUME Inv, InterruptWriter
    PROVE  Inv'
<1>i. TypeOK /\ IdInv
  BY DEF Inv
<1>a. /\ writer' = NoWriter /\ inputs < MaxInputs /\ inputs' = inputs + 1
      /\ UNCHANGED <<storeVars, pc, callVars, failed, net, taskVars, cleanVars>>
      /\ Terminate({})
  BY DEF InterruptWriter
<1>o. /\ os' \in [Calls -> {"none", "running", "killed", "exited", "lost"}]
      /\ token' \in [Calls -> BOOLEAN]
      /\ \A d \in Calls :
           /\ os[d] = "none" <=> os'[d] = "none"
           /\ os'[d] = "running" => os[d] = "running" /\ token'[d] = token[d]
  BY <1>i, <1>a, Terminated
<1>w. /\ writer' \in [pc : {"idle", "write", "poll", "exited"},
                      call : Calls \cup {NoCall}, id : Ids \cup {NoId}]
      /\ inputs' \in 0..MaxInputs
  BY <1>i, <1>a, StoreAssumption DEF NoWriter, TypeOK
<1>1. TypeOK'
  BY <1>i, <1>a, <1>o, <1>w DEF TypeOK, storeVars, callVars, taskVars, cleanVars
<1>2. HoldersShrink
  BY <1>i, <1>a DEF HoldersShrink, cleanVars, IdInv, EntriesOwned
<1>3. StoreShrinks /\ Stored' = Stored
  BY <1>a DEF StoreShrinks, Stored, storeVars
<1>4. \A c \in Calls : Calm(c)
  BY <1>a, <1>o DEF Calm, taskVars
<1> QED
  BY <1>a, <1>1, <1>2, <1>3, <1>4, HolderFrame DEF storeVars, cleanVars

\* The whole store is drained into the hands of terminate-all.  With no call in
\* progress everything that runs was in the store, or had been left behind.
LEMMA TerminateAllStep ==
    ASSUME Inv, TerminateAll
    PROVE  Inv'
<1>i. TypeOK /\ IdInv /\ ProcessInv /\ ReachInv /\ BoundInv
  BY DEF Inv
<1>a. /\ cleaner.pc = "idle" /\ inputs < MaxInputs /\ inputs' = inputs + 1
      /\ cleaner' = [pc |-> "closing", left |-> Stored]
      /\ store' = [i \in Ids |-> NoCall]
      /\ reserved' = {}
      /\ cleans' = [due |-> {c \in Calls : os[c] = "running"}, quiet |-> NoExecInFlight]
      /\ UNCHANGED <<older, pc, callVars, os, token, failed, net, taskVars, writer>>
  BY DEF TerminateAll
<1>b. /\ Stored \subseteq Calls /\ NoCall \notin Calls
      /\ \A c \in Stored : pc[c] \in Past
  BY <1>i, StoreAssumption DEF Stored, IdInv, EntriesOwned
<1>c. cleaner.left = {}
  BY <1>i, <1>a DEF IdInv, EntriesOwned
<1>d. /\ cleaner'.left = Stored /\ cleaner'.pc = "closing"
      /\ cleans'.due = {c \in Calls : os[c] = "running"} /\ cleans'.quiet = NoExecInFlight
  BY <1>a
<1>s. StoreShrinks /\ store' \in [Ids -> Calls \cup {NoCall}] /\ reserved' \subseteq Ids
  BY <1>a DEF StoreShrinks
<1>1. TypeOK'
  <2>1. inputs' \in 0..MaxInputs
    BY <1>i, <1>a, StoreAssumption DEF TypeOK
  <2>2. /\ cleaner' \in [pc : {"idle", "closing"}, left : SUBSET Calls]
        /\ cleans' \in [due : SUBSET Calls, quiet : BOOLEAN]
    BY <1>a, <1>b DEF NoExecInFlight
  <2> QED
    BY <2>1, <2>2, <1>i, <1>a, <1>s DEF TypeOK, callVars, taskVars
<1>2. IdInv'
  <2>1. IdsDistinct'
    BY <1>i, <1>a DEF IdInv, IdsDistinct, callVars
  <2>2. EntriesOwned'
    BY <1>i, <1>a, <1>b, <1>d DEF IdInv, EntriesOwned, callVars, taskVars
  <2> QED
    BY <2>1, <2>2 DEF IdInv
<1>3. ProcessInv'
  <2> SUFFICES ASSUME NEW d \in Calls
               PROVE  PlaceOK(d)' /\ RunningOK(d)' /\ EndsOK(d)'
    BY DEF ProcessInv
  <2>1. PlaceOK(d) /\ RunningOK(d) /\ EndsOK(d)
    BY <1>i DEF ProcessInv
  <2>2. Still(d) /\ Calm(d)
    BY <1>a DEF Still, Calm, callVars, taskVars
  <2> QED
    BY <2>1, <2>2, ProcessFrame
<1>4. ReachInv'
  <2>1. AllReachable'
    BY <1>i, <1>a, <1>c, <1>d DEF ReachInv, AllReachable, Reachable, callVars
  <2>2. ASSUME NEW c \in Calls, os[c] = "running", NoExecInFlight, c \notin abandoned
        PROVE  c \in Stored
    <3>1. \A d \in Calls : pc[d] \notin {"begin", "store", "cleanup"}
      BY <2>2 DEF NoExecInFlight, InFlight, HasProcess
    <3>2. \A d \in Calls : pruning[d] # c
      BY <3>1, <1>i, <1>b DEF IdInv, EntriesOwned
    <3>3. Reachable(c)
      BY <2>2, <1>i DEF ReachInv, AllReachable
    <3> QED
      BY <3>1, <3>2, <3>3, <2>2, <1>c DEF Reachable
  <2>3. DueAreDrained'
    BY <2>2, <1>a, <1>d DEF DueAreDrained, callVars
  <2> QED
    BY <2>1, <2>3 DEF ReachInv
<1>5. BoundInv'
  BY <1>i, <1>a, <1>s, BoundFrame DEF taskVars
<1> QED
  BY <1>1, <1>2, <1>3, <1>4, <1>5 DEF Inv

\* A drained entry is terminated in the step that forgets it.
LEMMA CloseEntryStep ==
    ASSUME Inv, NEW c \in Calls, CloseEntry(c)
    PROVE  Inv'
<1>i. TypeOK /\ IdInv
  BY DEF Inv
<1>a. /\ c \in cleaner.left /\ cleaner' = [cleaner EXCEPT !.left = cleaner.left \ {c}]
      /\ Unregister({c}) /\ Terminate({c})
      /\ UNCHANGED <<storeVars, pc, callVars, failed, taskVars, writerVars, cleans>>
  BY DEF CloseEntry
<1>n. /\ net' \in [Calls -> {"none", "open", "denied", "closed"}]
      /\ \A d \in Calls : net[d] \in {"none", "denied"} => net'[d] = net[d]
  BY <1>i, <1>a, Unregistered
<1>o. /\ os' \in [Calls -> {"none", "running", "killed", "exited", "lost"}]
      /\ token' \in [Calls -> BOOLEAN]
      /\ \A d \in Calls :
           /\ os[d] = "none" <=> os'[d] = "none"
           /\ os'[d] = "running" => os[d] = "running" /\ token'[d] = token[d] /\ d # c
  BY <1>i, <1>a, Terminated
<1>w. /\ cleaner' \in [pc : {"idle", "closing"}, left : SUBSET Calls]
      /\ cleaner'.left = cleaner.left \ {c} /\ cleaner'.pc = cleaner.pc
  BY <1>i, <1>a DEF TypeOK
<1>1. TypeOK'
  BY <1>i, <1>a, <1>n, <1>o, <1>w DEF TypeOK, storeVars, callVars, taskVars, writerVars
<1>2. HoldersShrink
  BY <1>i, <1>a, <1>w DEF HoldersShrink, writerVars, IdInv, EntriesOwned
<1>3. StoreShrinks /\ Stored' = Stored
  BY <1>a DEF StoreShrinks, Stored, storeVars
<1>4. \A d \in Calls : Calm(d)
  BY <1>a, <1>n, <1>o DEF Calm, taskVars
<1>5. \A d \in Calls : os'[d] = "running" /\ d \in cleaner.left => d \in cleaner'.left
  BY <1>o, <1>w
<1> QED
  BY <1>a, <1>1, <1>2, <1>3, <1>4, <1>5, HolderFrame DEF storeVars

\* A terminate-all is over when nothing is left.
LEMMA TerminateAllDoneStep ==
    ASSUME Inv, TerminateAllDone
    PROVE  Inv'
<1>i. TypeOK /\ IdInv
  BY DEF Inv
<1>a. /\ cleaner.left = {} /\ cleaner' = [cleaner EXCEPT !.pc = "idle"]
      /\ UNCHANGED <<storeVars, pc, callVars, os, token, failed, net, taskVars, writerVars,
                     cleans>>
  BY DEF TerminateAllDone
<1>w. /\ cleaner' \in [pc : {"idle", "closing"}, left : SUBSET Calls]
      /\ cleaner'.left = {}
  BY <1>i, <1>a DEF TypeOK
<1>1. TypeOK'
  BY <1>i, <1>a, <1>w DEF TypeOK, storeVars, callVars, taskVars, writerVars
<1>2. HoldersShrink
  BY <1>a, <1>w DEF HoldersShrink, writerVars
<1>3. StoreShrinks /\ Stored' = Stored
  BY <1>a DEF StoreShrinks, Stored, storeVars
<1>4. \A d \in Calls : Calm(d)
  BY <1>a DEF Calm, taskVars
<1> QED
  BY <1>a, <1>1, <1>2, <1>3, <1>4, HolderFrame DEF storeVars

----------------------------------------------------------------------------
(* The theorems. *)

\* With nothing started, the invariant holds.
LEMMA InitInv == Init => Inv
<1> SUFFICES ASSUME Init
             PROVE  Inv
  OBVIOUS
<1>1. TypeOK
  BY StoreAssumption DEF Init, TypeOK, NoWriter
<1>2. Stored = {}
  BY StoreAssumption DEF Init, Stored
<1>3. IdInv
  BY DEF Init, IdInv, IdsDistinct, EntriesOwned, NoWriter
<1>4. ProcessInv
  BY DEF Init, ProcessInv, PlaceOK, RunningOK, EndsOK, EndToCome
<1>5. ReachInv
  BY DEF Init, ReachInv, AllReachable, DueAreDrained
<1>6. BoundInv
  <2>1. {c \in Calls : begun[c]} = {}
    BY DEF Init
  <2>2. AgesOrdered
    BY <2>1 DEF AgesOrdered
  <2>3. StoreBounded
    BY <1>2, StoreAssumption, FS_EmptySet DEF StoreBounded
  <2> QED
    BY <2>2, <2>3 DEF BoundInv
<1> QED
  BY <1>1, <1>3, <1>4, <1>5, <1>6 DEF Inv

\* A stuttering step changes nothing.
LEMMA StutterInv ==
    ASSUME Inv, UNCHANGED vars
    PROVE  Inv'
<1>1. UNCHANGED <<reserved, store, older, pc, id, startedAlive, pruning, abandoned, os, token,
                  failed, net, denial, begun, watcher, ends, writer, inputs, cleaner, cleans>>
  BY DEF vars
<1>2. TypeOK'
  BY <1>1 DEF Inv, TypeOK
<1>3. HoldersShrink
  BY <1>1 DEF HoldersShrink, Inv, IdInv, EntriesOwned
<1>4. StoreShrinks /\ Stored' = Stored
  BY <1>1 DEF StoreShrinks, Stored
<1>5. \A d \in Calls : Calm(d)
  BY <1>1 DEF Calm
<1> QED
  BY <1>1, <1>2, <1>3, <1>4, <1>5, HolderFrame DEF callVars, taskVars

\* Every step keeps the invariant.
LEMMA NextInv ==
    ASSUME Inv, [Next]_vars
    PROVE  Inv'
<1>1. ASSUME NEW c \in Calls, ExecStep(c)
      PROVE  Inv'
  BY <1>1, AllocateProcessIdStep, RejectRequestStep, OpenFailsStep, OpenSessionStep,
     EmitBeginStep, StoreProcessStep, CleanupPrunedStep, CollectOutputStep, EmitEndStep,
     ReleaseCallStep, RefreshCallStep, Zenon
     DEF ExecStep
<1>2. ASSUME NEW c \in Calls,
             \/ Interrupt(c) \/ Exit(c) \/ LoseProcess(c) \/ Deny(c) \/ ProcessStep(c)
             \/ CloseEntry(c)
      PROVE  Inv'
  BY <1>2, InterruptStep, ExitStep, LoseProcessStep, DenyStep, ExitSeenStep, DenialTaskStep, ExitWatcherStep,
     CloseEntryStep, Zenon
     DEF ProcessStep
<1>3. ASSUME NEW i \in Ids, WriteStdin(i)
      PROVE  Inv'
  BY <1>3, WriteStdinStep
<1>4. ASSUME \/ WriteAccepted \/ WriteFails \/ PollReturns \/ InterruptWriter
             \/ TerminateAll \/ TerminateAllDone
      PROVE  Inv'
  BY <1>4, WriteAcceptedStep, WriteFailsStep, PollReturnsStep, InterruptWriterStep,
     TerminateAllStep, TerminateAllDoneStep, Zenon
<1>5. CASE UNCHANGED vars
  BY <1>5, StutterInv
<1> QED
  BY <1>1, <1>2, <1>3, <1>4, <1>5, Zenon DEF Next

\* The inductive invariant holds at every moment.
LEMMA AlwaysInv == Spec => []Inv
<1>1. Inv /\ [Next]_vars => Inv'
  BY NextInv
<1> QED
  BY <1>1, InitInv, PTL DEF Spec

\* The store never grows past its limit, each call finds its own entry or none under
\* its id, a command has at most one End event and none while its process runs, and a
\* terminate-all that found no exec_command in progress leaves nothing running.
THEOREM StoreIsRight == Spec => []StoreInv
<1>1. Inv => StoreInv
  <2> SUFFICES ASSUME Inv
               PROVE  StoreInv
    OBVIOUS
  <2>i. TypeOK /\ IdInv /\ ProcessInv /\ ReachInv /\ BoundInv
    BY DEF Inv
  <2>1. OwnEntry
    <3> SUFFICES ASSUME NEW c \in Calls, pc[c] \in {"cleanup", "collect", "refresh"}
                 PROVE  store[id[c]] \in {c, NoCall}
      BY DEF OwnEntry
    <3>1. id[c] \in Ids
      BY <2>i, StartedHasId
    <3> QED
      BY <3>1, <2>i, OwnId
  <2>2. SingleEnd
    BY <2>i DEF SingleEnd, ProcessInv, EndsOK
  <2>3. CleanStopsAll
    BY <2>i DEF CleanStopsAll, ReachInv, DueAreDrained, IdInv, EntriesOwned
  <2> QED
    BY <2>i, <2>1, <2>2, <2>3 DEF StoreInv, BoundInv
<1> QED
  BY <1>1, AlwaysInv, PTL

\* No process runs out of everybody's reach, but for those an interrupt left behind.
THEOREM NothingOrphaned == Spec => []NoOrphan
<1>1. Inv => NoOrphan
  BY DEF Inv, ReachInv, AllReachable, Reachable, NoOrphan
<1> QED
  BY <1>1, AlwaysInv, PTL

\* An interrupt during the yield wait leaves the process waited for running: its exit
\* watcher, started when it was stored before the wait, still holds it.
THEOREM InterruptsSpareWaiting == Spec => InterruptSparesWaiting
<1>1. ASSUME Inv, [Next]_vars
      PROVE  [\A c \in Calls :
                /\ pc[c] \in {"collect", "end", "release", "refresh"} /\ os[c] = "running"
                /\ Interrupt(c)
                => os'[c] = "running"]_vars
  <2> SUFFICES ASSUME NEW c \in Calls, os[c] = "running", Interrupt(c),
                      pc[c] \in {"collect", "end", "release", "refresh"}
               PROVE  os'[c] = "running"
    OBVIOUS
  <2>1. watcher' = watcher /\ Terminate({})
    BY DEF Interrupt, taskVars
  <2>2. watcher[c] = "waiting"
    BY <1>1 DEF Inv, ProcessInv, RunningOK
  <2>3. Held(c)'
    BY <2>1, <2>2 DEF Held
  <2> QED
    BY <2>1, <2>3 DEF Terminate
<1> QED
  BY <1>1, AlwaysInv, PTL DEF Spec, InterruptSparesWaiting

\* write_stdin works on one process from its lookup to its end: when it looks the id up
\* again, after an await, the store has that process there or nothing.
THEOREM WriterFindsItsOwn ==
    Spec => [](writer.pc # "idle" => store[writer.id] \in {writer.call, NoCall})
<1>1. Inv => (writer.pc # "idle" => store[writer.id] \in {writer.call, NoCall})
  BY WriterOwn DEF Inv
<1> QED
  BY <1>1, AlwaysInv, PTL
=============================================================================
