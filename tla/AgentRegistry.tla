--------------------------- MODULE AgentRegistry ---------------------------
(***************************************************************************)
(* The registry of sub-agents that every agent of one user session shares  *)
(* (codex-rs/core/src/agent/registry.rs).                                   *)
(*                                                                         *)
(* Two pieces of shared state are updated by concurrent callers without a  *)
(* common lock: the map of agents, behind a mutex, and the slot counter,   *)
(* an atomic.  Each action below is one atomic access of the code: one     *)
(* critical section of the mutex or one access of the counter.             *)
(***************************************************************************)
EXTENDS Integers, FiniteSets

CONSTANTS
    Spawners,            \* the tasks that may hold a SpawnReservation
    Threads,             \* ids of spawned agent threads
    RootThreads,         \* ids of root sessions
    Paths,               \* agent paths other than the root
    ROOT,                \* AgentPath::ROOT
    Names,               \* nickname base names
    CandidateLists,      \* the nickname lists of the configured roles
    PreferredNicknames,  \* nicknames that resumed agents bring back
    Messages,            \* last task messages
    MaxThreads,          \* MaxThreads[p] is the max_threads that p passes
    Unlimited,           \* max_threads = None
    None,
    MaxResets,           \* bound on nickname_reset_count
    MaxReleasing         \* bound on the tasks inside release_spawned_thread

Keys == Paths \cup Threads \cup {ROOT}

\* format_agent_nickname is injective on (name, nickname_reset_count), so the
\* pair stands for the formatted nickname.
format_agent_nickname(name, reset_count) == <<name, reset_count>>

Nicknames == Names \X (0 .. MaxResets)

Metadata == [agent_id : Threads \cup RootThreads \cup {None},
             agent_nickname : Nicknames \cup PreferredNicknames \cup {None},
             last_task_message : Messages \cup {None}]

\* The state of a SpawnReservation and of the compare-exchange loop before it.
\*   idle      no reservation
\*   cas       inside try_increment_spawned, having read `observed`
\*   active    the reservation exists (active = true)
\*   dropping  Drop has given the path back, fetch_sub is still to come
Reservations == [stage : {"idle", "cas", "active", "dropping"},
                 observed : Nat,
                 path : Paths \cup {None},
                 nickname : Nicknames \cup PreferredNicknames \cup {None}]

ASSUME ConstantsAssumption ==
    /\ IsFiniteSet(Spawners) /\ Spawners # {}
    /\ IsFiniteSet(Threads) /\ IsFiniteSet(Paths)
    /\ MaxResets \in Nat /\ MaxReleasing \in Nat
    /\ MaxThreads \in [Spawners -> Nat \cup {Unlimited}]
    /\ Unlimited \notin Nat
    /\ CandidateLists \subseteq SUBSET Names \ {{}}

ASSUME DisjointAssumption ==
    /\ Paths \cap Threads = {}
    /\ Threads \cap RootThreads = {}
    /\ ROOT \notin Paths \cup Threads
    /\ None \notin Paths \cup Threads \cup RootThreads \cup Messages
    /\ None \notin Nicknames \cup PreferredNicknames
    /\ None \notin Metadata

VARIABLES
    agent_tree,            \* key -> metadata; None where the map has no entry
    used_agent_nicknames,
    nickname_reset_count,
    total_count,
    reservation,           \* per spawner
    releasing              \* callers of release_spawned_thread that have
                           \* removed a counted agent but not yet decremented

vars == <<agent_tree, used_agent_nicknames, nickname_reset_count, total_count,
          reservation, releasing>>

nicknameVars == <<used_agent_nicknames, nickname_reset_count>>

IdleReservation ==
    [stage |-> "idle", observed |-> 0, path |-> None, nickname |-> None]

Init ==
    /\ agent_tree = [k \in Keys |-> None]
    /\ used_agent_nicknames = {}
    /\ nickname_reset_count = 0
    /\ total_count = 0
    /\ reservation = [p \in Spawners |-> IdleReservation]
    /\ releasing = 0

----------------------------------------------------------------------------
(* Lookups *)

Occupied(k) == agent_tree[k] # None

\* The keys whose metadata carries this thread id.
KeysOf(t) == {k \in Keys : Occupied(k) /\ agent_tree[k].agent_id = t}

agent_id_for_path(path) ==
    IF Occupied(path) THEN agent_tree[path].agent_id ELSE None

\* The keys of live_agents(): entries with a thread id, the root excluded.
live_agents ==
    {k \in Keys \ {ROOT} : Occupied(k) /\ agent_tree[k].agent_id # None}

Active(p) == reservation[p].stage = "active"

----------------------------------------------------------------------------
(* reserve_spawn_slot: the bounded form reads the counter and then loops on *)
(* compare_exchange_weak, which may fail spuriously.                        *)

LoadCount(p) ==
    /\ reservation[p].stage = "idle"
    /\ MaxThreads[p] # Unlimited
    /\ reservation' = [reservation EXCEPT ![p] =
            [IdleReservation EXCEPT !.stage = "cas", !.observed = total_count]]
    /\ UNCHANGED <<agent_tree, nicknameVars, total_count, releasing>>

LimitReached(p) ==
    /\ reservation[p].stage = "cas"
    /\ reservation[p].observed >= MaxThreads[p]
    /\ reservation' = [reservation EXCEPT ![p] = IdleReservation]
    /\ UNCHANGED <<agent_tree, nicknameVars, total_count, releasing>>

\* Mutant: the limit itself is still accepted.
CompareExchangeOffByOne(p) ==
    /\ reservation[p].stage = "cas"
    /\ reservation[p].observed <= MaxThreads[p]
    /\ total_count = reservation[p].observed
    /\ total_count' = total_count + 1
    /\ reservation' = [reservation EXCEPT ![p] =
            [IdleReservation EXCEPT !.stage = "active"]]
    /\ UNCHANGED <<agent_tree, nicknameVars, releasing>>

CompareExchange(p) ==
    /\ reservation[p].stage = "cas"
    /\ reservation[p].observed < MaxThreads[p]
    /\ total_count = reservation[p].observed
    /\ total_count' = total_count + 1
    /\ reservation' = [reservation EXCEPT ![p] =
            [IdleReservation EXCEPT !.stage = "active"]]
    /\ UNCHANGED <<agent_tree, nicknameVars, releasing>>

CompareExchangeFails(p) ==
    /\ reservation[p].stage = "cas"
    /\ reservation[p].observed < MaxThreads[p]
    /\ reservation' = [reservation EXCEPT ![p].observed = total_count]
    /\ UNCHANGED <<agent_tree, nicknameVars, total_count, releasing>>

ReserveUnlimited(p) ==
    /\ reservation[p].stage = "idle"
    /\ MaxThreads[p] = Unlimited
    /\ total_count' = total_count + 1
    /\ reservation' = [reservation EXCEPT ![p].stage = "active"]
    /\ UNCHANGED <<agent_tree, nicknameVars, releasing>>

----------------------------------------------------------------------------
(* What prepare_thread_spawn asks of a reservation.                         *)

\* The placeholder is an entry without a thread id.  When the path exists the
\* caller's `?` drops a reservation that has no path to give back.
reserve_agent_path(p, path) ==
    /\ Active(p)
    /\ reservation[p].path = None
    /\ \/ /\ ~Occupied(path)
          /\ agent_tree' = [agent_tree EXCEPT ![path] =
                [agent_id |-> None, agent_nickname |-> None,
                 last_task_message |-> None]]
          /\ reservation' = [reservation EXCEPT ![p].path = path]
       \/ /\ Occupied(path)
          /\ reservation' = [reservation EXCEPT ![p].stage = "dropping"]
          /\ UNCHANGED agent_tree
    /\ UNCHANGED <<nicknameVars, total_count, releasing>>

Available(names) ==
    {n \in names :
        format_agent_nickname(n, nickname_reset_count) \notin used_agent_nicknames}

TakeNickname(p, nickname, used) ==
    /\ used_agent_nicknames' = used \cup {nickname}
    /\ reservation' = [reservation EXCEPT ![p].nickname = nickname]

\* Mutant: the pool is cleared without advancing the ordinal.
reserve_agent_nickname_same_ordinal(p, names) ==
    /\ Active(p)
    /\ reservation[p].nickname = None
    /\ \/ \E n \in Available(names) :
            TakeNickname(p, format_agent_nickname(n, nickname_reset_count),
                         used_agent_nicknames)
       \/ /\ Available(names) = {}
          /\ \E n \in names :
                TakeNickname(p, format_agent_nickname(n, nickname_reset_count), {})
    /\ UNCHANGED <<agent_tree, nickname_reset_count, total_count, releasing>>

reserve_agent_nickname(p, names) ==
    /\ Active(p)
    /\ reservation[p].nickname = None
    /\ \/ \E n \in Available(names) :
            /\ TakeNickname(p, format_agent_nickname(n, nickname_reset_count),
                            used_agent_nicknames)
            /\ UNCHANGED nickname_reset_count
       \/ /\ Available(names) = {}
          /\ nickname_reset_count < MaxResets
          /\ nickname_reset_count' = nickname_reset_count + 1
          /\ \E n \in names :
                TakeNickname(p, format_agent_nickname(n, nickname_reset_count'), {})
    /\ UNCHANGED <<agent_tree, total_count, releasing>>

\* A resumed agent takes the nickname it had, whether or not it is in use.
reserve_preferred_nickname(p, preferred) ==
    /\ Active(p)
    /\ reservation[p].nickname = None
    /\ TakeNickname(p, preferred, used_agent_nicknames)
    /\ UNCHANGED <<agent_tree, nickname_reset_count, total_count, releasing>>

----------------------------------------------------------------------------
(* The end of a reservation: commit, or Drop while it is still active.      *)

\* The agent is filed under its path, or under its thread id without one.
register_spawned_thread(t, path, nickname) ==
    LET key == IF path # None THEN path ELSE t
    IN  /\ agent_tree' = [agent_tree EXCEPT ![key] =
                [agent_id |-> t, agent_nickname |-> nickname,
                 last_task_message |-> None]]
        /\ used_agent_nicknames' = used_agent_nicknames \cup ({nickname} \ {None})

\* The contract on the caller is that the id is not registered yet.
commit(p, t) ==
    /\ Active(p)
    /\ KeysOf(t) = {}
    /\ register_spawned_thread(t, reservation[p].path, reservation[p].nickname)
    /\ reservation' = [reservation EXCEPT ![p] = IdleReservation]
    /\ UNCHANGED <<nickname_reset_count, total_count, releasing>>

\* Mutant: Drop forgets the reserved path.
DropPathForgotten(p) ==
    /\ Active(p)
    /\ reservation' = [reservation EXCEPT ![p] =
            [IdleReservation EXCEPT !.stage = "dropping"]]
    /\ UNCHANGED <<agent_tree, nicknameVars, total_count, releasing>>

\* Only an entry that has no thread id is removed.
release_reserved_agent_path(path) ==
    agent_tree' =
        IF path # None /\ Occupied(path) /\ agent_tree[path].agent_id = None
        THEN [agent_tree EXCEPT ![path] = None]
        ELSE agent_tree

DropPath(p) ==
    /\ Active(p)
    /\ release_reserved_agent_path(reservation[p].path)
    /\ reservation' = [reservation EXCEPT ![p] =
            [IdleReservation EXCEPT !.stage = "dropping"]]
    /\ UNCHANGED <<nicknameVars, total_count, releasing>>

DropSlot(p) ==
    /\ reservation[p].stage = "dropping"
    /\ total_count' = total_count - 1
    /\ reservation' = [reservation EXCEPT ![p] = IdleReservation]
    /\ UNCHANGED <<agent_tree, nicknameVars, releasing>>

----------------------------------------------------------------------------
(* Operations on registered threads                                        *)

register_root_thread(t) ==
    /\ ~Occupied(ROOT)
    /\ agent_tree' = [agent_tree EXCEPT ![ROOT] =
            [agent_id |-> t, agent_nickname |-> None, last_task_message |-> None]]
    /\ UNCHANGED <<nicknameVars, total_count, reservation, releasing>>

\* Mutant: the root counts as a sub-agent when it is removed.
release_spawned_thread_counts_root(t) ==
    /\ releasing < MaxReleasing
    /\ \E k \in KeysOf(t) : agent_tree' = [agent_tree EXCEPT ![k] = None]
    /\ releasing' = releasing + 1
    /\ UNCHANGED <<nicknameVars, total_count, reservation>>

\* The critical section of release_spawned_thread.  The entry is found by
\* iterating over a hash map, so any entry with this id may be the one.
release_spawned_thread(t) ==
    /\ releasing < MaxReleasing
    /\ \E k \in KeysOf(t) :
          /\ agent_tree' = [agent_tree EXCEPT ![k] = None]
          /\ releasing' = IF k = ROOT THEN releasing ELSE releasing + 1
    /\ UNCHANGED <<nicknameVars, total_count, reservation>>

\* Mutant: the decrement is skipped.
ReleaseSlotSkipped ==
    /\ releasing > 0
    /\ releasing' = releasing - 1
    /\ UNCHANGED <<agent_tree, nicknameVars, total_count, reservation>>

\* The fetch_sub that follows it, outside the lock.
ReleaseSlot ==
    /\ releasing > 0
    /\ releasing' = releasing - 1
    /\ total_count' = total_count - 1
    /\ UNCHANGED <<agent_tree, nicknameVars, reservation>>

update_last_task_message(t, m) ==
    /\ \E k \in KeysOf(t) :
          agent_tree' = [agent_tree EXCEPT ![k].last_task_message = m]
    /\ UNCHANGED <<nicknameVars, total_count, reservation, releasing>>

----------------------------------------------------------------------------
ReserveSpawnSlot(p) ==
    \/ LoadCount(p)
    \/ LimitReached(p)
    \/ CompareExchange(p)
    \/ CompareExchangeFails(p)
    \/ ReserveUnlimited(p)

SpawnerStep(p) ==
    \/ ReserveSpawnSlot(p)
    \/ \E path \in Paths : reserve_agent_path(p, path)
    \/ \E names \in CandidateLists : reserve_agent_nickname(p, names)
    \/ \E preferred \in PreferredNicknames : reserve_preferred_nickname(p, preferred)
    \/ \E t \in Threads : commit(p, t)
    \/ DropPath(p)
    \/ DropSlot(p)

ThreadStep ==
    \/ \E t \in RootThreads : register_root_thread(t)
    \/ \E t \in Threads \cup RootThreads : release_spawned_thread(t)
    \/ \E t \in Threads \cup RootThreads, m \in Messages : update_last_task_message(t, m)
    \/ ReleaseSlot

Next == (\E p \in Spawners : SpawnerStep(p)) \/ ThreadStep

\* A decrement that is due is always executed: nothing awaits between the
\* critical section and the fetch_sub.
Fairness ==
    /\ \A p \in Spawners : WF_vars(DropSlot(p))
    /\ WF_vars(ReleaseSlot)

Spec == Init /\ [][Next]_vars

FairSpec == Spec /\ Fairness

----------------------------------------------------------------------------
(* Properties *)

TypeOK ==
    /\ agent_tree \in [Keys -> Metadata \cup {None}]
    /\ used_agent_nicknames \subseteq Nicknames \cup PreferredNicknames
    /\ nickname_reset_count \in 0 .. MaxResets
    /\ total_count \in Nat
    /\ reservation \in [Spawners -> Reservations]
    /\ releasing \in Nat

HoldsSlot == {p \in Spawners : reservation[p].stage \in {"active", "dropping"}}

\* The slot counter is exactly the registered sub-agents, the reservations in
\* flight and the decrements that are due: no interleaving of the mutex and the
\* atomic loses a slot or frees one twice, and the root is never counted.
SlotAccounting ==
    total_count = Cardinality(live_agents) + Cardinality(HoldsSlot) + releasing

\* The map behind the mutex and the atomic counter beside it agree, and no drop or
\* release takes the counter below zero, where the usize of the code would wrap.
RegistryInv == TypeOK /\ SlotAccounting

\* When every caller passes a limit, the sub-agents alive and the spawns in
\* flight stay within the largest limit passed, whatever the concurrent callers
\* of the compare-exchange loop observed ("it limits: Total number of
\* sub-agents (i.e. threads) per user session").
AgentsWithinLimit ==
    (\A p \in Spawners : MaxThreads[p] # Unlimited) =>
        \E p \in Spawners :
            Cardinality(live_agents) + Cardinality(HoldsSlot) <= MaxThreads[p]

SlotTakenBelowLimit ==
    \A p \in Spawners :
        MaxThreads[p] # Unlimited /\ p \notin HoldsSlot /\ p \in HoldsSlot' =>
            Cardinality(live_agents) + Cardinality(HoldsSlot) < MaxThreads[p]

\* A caller that passes a limit takes a slot only while fewer agents than that
\* are alive or being spawned, even when other callers pass another limit or
\* none at all.
LimitHoldsAtReserve == [][SlotTakenBelowLimit]_vars

ReservedPathKept ==
    \A p \in Spawners : Active(p) /\ reservation[p].path # None =>
        /\ Occupied(reservation[p].path)
        /\ agent_tree[reservation[p].path].agent_id = None

ReservedPathExclusive ==
    \A p, q \in Spawners :
        (/\ Active(p) /\ Active(q)
         /\ reservation[p].path = reservation[q].path
         /\ reservation[p].path # None) => p = q

PlaceholderClaimed ==
    \A k \in Keys : Occupied(k) /\ agent_tree[k].agent_id = None =>
        \E p \in Spawners : Active(p) /\ reservation[p].path = k

\* Every placeholder belongs to exactly one reservation, and every reservation
\* that has a path still finds its placeholder there: no failed spawn leaves a
\* path blocked, and no two agents are being created for one path.
PlaceholdersOwned == ReservedPathKept /\ ReservedPathExclusive /\ PlaceholderClaimed

\* A nickname is shared by two agents, registered or being spawned, only when a
\* resumed agent brought it back: clearing the used set when the pool is
\* exhausted never hands out a nickname that someone still carries.
NicknamesDistinct ==
    LET MayShare(nickname) == nickname \in PreferredNicknames \cup {None}
    IN  /\ \A k, l \in live_agents :
              agent_tree[k].agent_nickname = agent_tree[l].agent_nickname
                  => k = l \/ MayShare(agent_tree[k].agent_nickname)
        /\ \A p, q \in HoldsSlot :
              reservation[p].nickname = reservation[q].nickname
                  => p = q \/ MayShare(reservation[p].nickname)
        /\ \A k \in live_agents, p \in HoldsSlot :
              agent_tree[k].agent_nickname = reservation[p].nickname
                  => MayShare(reservation[p].nickname)

KeptOrReleased ==
    \A k \in Keys :
        Occupied(k) /\ agent_tree[k].agent_id # None =>
            \/ /\ Occupied(k)'
               /\ agent_tree'[k].agent_id = agent_tree[k].agent_id
               /\ agent_tree'[k].agent_nickname = agent_tree[k].agent_nickname
            \/ release_spawned_thread(agent_tree[k].agent_id)

\* A registered agent keeps its key, id and nickname until its own release: a
\* spawn, a failed spawn or a root registration never replaces or removes it.
RegistrationStable == [][KeptOrReleased]_vars

\* Once nobody is spawning, the counter settles at the number of live agents:
\* every slot of a failed spawn or a released agent is usable again.
SlotsReturned ==
    <>[](\A p \in Spawners : ~Active(p))
        => <>[](total_count = Cardinality(live_agents))
=============================================================================
