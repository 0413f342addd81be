---------------------------- MODULE AgentProofs ----------------------------
(***************************************************************************)
(* Theorems about AgentRegistry for any number of spawners, threads, paths *)
(* and names, and any limits; and about AgentControl for any number of     *)
(* calls and agents and any number of faults.                              *)
(***************************************************************************)
EXTENDS AgentRegistry, AgentControl, FiniteSetTheorems, TLAPS

----------------------------------------------------------------------------
(* Type correctness.  DropSlot and ReleaseSlot keep the counter a natural   *)
(* number only because of SlotAccounting, so the counter is first shown to  *)
(* be an integer.                                                           *)

Typed ==
    /\ agent_tree \in [Keys -> Metadata \cup {None}]
    /\ used_agent_nicknames \subseteq Nicknames \cup PreferredNicknames
    /\ nickname_reset_count \in 0 .. MaxResets
    /\ total_count \in Int
    /\ reservation \in [Spawners -> [stage : {"idle", "cas", "active", "dropping"},
                                     observed : Int,
                                     path : Paths \cup {None},
                                     nickname : Nicknames \cup PreferredNicknames \cup {None}]]
    /\ releasing \in Nat

\* The fields of a map entry and of a reservation have their types.
LEMMA FieldTypes ==
    ASSUME Typed
    PROVE  /\ \A k \in Keys : Occupied(k) => agent_tree[k] \in Metadata
           /\ \A p \in Spawners :
                /\ reservation[p].observed \in Int
                /\ reservation[p].path \in Paths \cup {None}
                /\ reservation[p].nickname \in
                        Nicknames \cup PreferredNicknames \cup {None}
BY DEF Typed, Occupied

\* update_last_task_message leaves ids and nicknames alone.
LEMMA MessageKeepsIds ==
    ASSUME Typed, NEW t \in Threads \cup RootThreads, NEW m \in Messages,
           update_last_task_message(t, m)
    PROVE  \A k \in Keys :
              /\ Occupied(k)' <=> Occupied(k)
              /\ Occupied(k) =>
                    /\ agent_tree'[k].agent_id = agent_tree[k].agent_id
                    /\ agent_tree'[k].agent_nickname = agent_tree[k].agent_nickname
<1>1. PICK l \in KeysOf(t) :
        agent_tree' = [agent_tree EXCEPT ![l].last_task_message = m]
  BY DEF update_last_task_message
<1>2. agent_tree[l] \in Metadata /\ l \in Keys
  BY FieldTypes DEF KeysOf
<1>3. [agent_tree[l] EXCEPT !.last_task_message = m] \in Metadata
  BY <1>2 DEF Metadata
<1>4. /\ [agent_tree[l] EXCEPT !.last_task_message = m].agent_id = agent_tree[l].agent_id
      /\ [agent_tree[l] EXCEPT !.last_task_message = m].agent_nickname
            = agent_tree[l].agent_nickname
  BY <1>2 DEF Metadata
<1>5. None \notin Metadata
  BY DisjointAssumption
<1>6. QED BY <1>1, <1>2, <1>3, <1>4, <1>5 DEF Typed, Occupied

\* Every action of the registry preserves the types.
LEMMA TypedStep ==
    ASSUME Typed, [Next]_vars
    PROVE  Typed'
<1> USE ConstantsAssumption
<1>1. ASSUME NEW p \in Spawners, SpawnerStep(p) PROVE Typed'
  <2>1. CASE ReserveSpawnSlot(p)
    <3>1. CASE LoadCount(p)
      BY <3>1 DEF LoadCount, IdleReservation, nicknameVars, Typed
    <3>2. CASE LimitReached(p)
      BY <3>2 DEF LimitReached, IdleReservation, nicknameVars, Typed
    <3>3. CASE CompareExchange(p)
      BY <3>3 DEF CompareExchange, IdleReservation, nicknameVars, Typed
    <3>4. CASE CompareExchangeFails(p)
      BY <3>4 DEF CompareExchangeFails, nicknameVars, Typed
    <3>5. CASE ReserveUnlimited(p)
      BY <3>5 DEF ReserveUnlimited, nicknameVars, Typed
    <3>6. QED BY <2>1, <3>1, <3>2, <3>3, <3>4, <3>5 DEF ReserveSpawnSlot
  <2>2. ASSUME NEW path \in Paths, reserve_agent_path(p, path) PROVE Typed'
    BY <2>2 DEF reserve_agent_path, nicknameVars, Typed, Keys, Metadata
  <2>3. ASSUME NEW names \in CandidateLists, reserve_agent_nickname(p, names)
        PROVE  Typed'
    <3>1. \A n \in names, c \in 0 .. MaxResets :
            format_agent_nickname(n, c) \in Nicknames
      BY DEF format_agent_nickname, Nicknames
    <3>2. PICK n \in names, c \in 0 .. MaxResets :
            /\ reservation' = [reservation EXCEPT
                    ![p].nickname = format_agent_nickname(n, c)]
            /\ used_agent_nicknames' \subseteq
                    used_agent_nicknames \cup {format_agent_nickname(n, c)}
            /\ nickname_reset_count' \in 0 .. MaxResets
      BY <2>3 DEF reserve_agent_nickname, Available, TakeNickname, Typed
    <3>3. QED
      BY <2>3, <3>1, <3>2 DEF reserve_agent_nickname, Typed
  <2>4. ASSUME NEW preferred \in PreferredNicknames,
               reserve_preferred_nickname(p, preferred)
        PROVE  Typed'
    BY <2>4 DEF reserve_preferred_nickname, TakeNickname, Typed
  <2>5. ASSUME NEW t \in Threads, commit(p, t) PROVE Typed'
    BY <2>5 DEF commit, register_spawned_thread, IdleReservation, Typed, Keys, Metadata
  <2>6. CASE DropPath(p)
    BY <2>6 DEF DropPath, release_reserved_agent_path, IdleReservation, nicknameVars, Typed, Keys
  <2>7. CASE DropSlot(p)
    BY <2>7 DEF DropSlot, IdleReservation, nicknameVars, Typed
  <2>8. QED BY <1>1, <2>1, <2>2, <2>3, <2>4, <2>5, <2>6, <2>7 DEF SpawnerStep
<1>2. CASE ThreadStep
  <2>1. ASSUME NEW t \in RootThreads, register_root_thread(t) PROVE Typed'
    BY <2>1 DEF register_root_thread, nicknameVars, Typed, Keys, Metadata
  <2>2. ASSUME NEW t \in Threads \cup RootThreads, release_spawned_thread(t)
        PROVE  Typed'
    BY <2>2 DEF release_spawned_thread, KeysOf, nicknameVars, Typed
  <2>3. ASSUME NEW t \in Threads \cup RootThreads, NEW m \in Messages,
               update_last_task_message(t, m)
        PROVE  Typed'
    <3>1. PICK k \in KeysOf(t) :
            agent_tree' = [agent_tree EXCEPT ![k].last_task_message = m]
      BY <2>3 DEF update_last_task_message
    <3>2. agent_tree[k] \in Metadata /\ k \in Keys
      BY <3>1, FieldTypes DEF KeysOf
    <3>3. [agent_tree[k] EXCEPT !.last_task_message = m] \in Metadata
      BY <3>2 DEF Metadata
    <3>4. agent_tree' \in [Keys -> Metadata \cup {None}]
      BY <3>1, <3>2, <3>3 DEF Typed
    <3>5. QED BY <2>3, <3>4 DEF update_last_task_message, nicknameVars, Typed
  <2>4. CASE ReleaseSlot
    BY <2>4 DEF ReleaseSlot, nicknameVars, Typed
  <2>5. QED BY <1>2, <2>1, <2>2, <2>3, <2>4 DEF ThreadStep
<1>3. CASE UNCHANGED vars
  BY <1>3 DEF vars, Typed
<1>4. QED BY <1>1, <1>2, <1>3 DEF Next

----------------------------------------------------------------------------
(* What each action does to the map and to the reservations, entry by entry. *)

\* The reservations of the other spawners are not touched.
OthersKept(p) == \A q \in Spawners \ {p} : reservation'[q] = reservation[q]

\* The entries at the other keys are not touched.
EntriesKept(k) == \A l \in Keys \ {k} : agent_tree'[l] = agent_tree[l]

\* reserve_spawn_slot touches the caller's reservation and the counter, and
\* takes a slot only from a counter value that is below the caller's limit.
LEMMA SlotEffect ==
    ASSUME Typed, NEW p \in Spawners, ReserveSpawnSlot(p)
    PROVE  /\ agent_tree' = agent_tree
           /\ used_agent_nicknames' = used_agent_nicknames
           /\ nickname_reset_count' = nickname_reset_count
           /\ releasing' = releasing
           /\ OthersKept(p)
           /\ reservation[p].stage \in {"idle", "cas"}
           /\ reservation'[p].path \in {None, reservation[p].path}
           /\ reservation'[p].nickname \in {None, reservation[p].nickname}
           /\ \/ /\ total_count' = total_count
                 /\ reservation'[p].stage \in {"idle", "cas"}
              \/ /\ total_count' = total_count + 1
                 /\ reservation'[p].stage = "active"
                 /\ \/ MaxThreads[p] = Unlimited
                    \/ MaxThreads[p] # Unlimited /\ total_count < MaxThreads[p]
<1> USE DEF OthersKept, nicknameVars, IdleReservation, Typed
<1>0. MaxThreads[p] \in Nat \cup {Unlimited} /\ Unlimited \notin Nat
  BY ConstantsAssumption
<1>1. CASE LoadCount(p)
  BY <1>1 DEF LoadCount
<1>2. CASE LimitReached(p)
  BY <1>2 DEF LimitReached
<1>3. CASE CompareExchange(p)
  BY <1>0, <1>3 DEF CompareExchange
<1>4. CASE CompareExchangeFails(p)
  BY <1>4 DEF CompareExchangeFails
<1>5. CASE ReserveUnlimited(p)
  BY <1>5 DEF ReserveUnlimited
<1>6. QED BY <1>1, <1>2, <1>3, <1>4, <1>5 DEF ReserveSpawnSlot

\* reserve_agent_path writes a placeholder at a free key, or gives up.
LEMMA PathEffect ==
    ASSUME Typed, NEW p \in Spawners, NEW path \in Paths, reserve_agent_path(p, path)
    PROVE  /\ used_agent_nicknames' = used_agent_nicknames
           /\ nickname_reset_count' = nickname_reset_count
           /\ total_count' = total_count /\ releasing' = releasing
           /\ OthersKept(p)
           /\ reservation[p].stage = "active" /\ reservation[p].path = None
           /\ reservation'[p].nickname = reservation[p].nickname
           /\ \/ /\ ~Occupied(path) /\ Occupied(path)'
                 /\ agent_tree'[path].agent_id = None
                 /\ EntriesKept(path)
                 /\ reservation'[p].stage = "active"
                 /\ reservation'[p].path = path
              \/ /\ agent_tree' = agent_tree
                 /\ reservation'[p].stage = "dropping"
                 /\ reservation'[p].path = None
<1> DEFINE e == [agent_id |-> None, agent_nickname |-> None, last_task_message |-> None]
<1>1. e \in Metadata /\ e.agent_id = None /\ e # None
  BY DisjointAssumption DEF Metadata
<1>2. path \in Keys
  BY DEF Keys
<1>3. CASE Occupied(path)
  BY <1>3 DEF reserve_agent_path, OthersKept, nicknameVars, Active, Typed
<1>4. CASE ~Occupied(path)
  <2>1. /\ agent_tree' = [agent_tree EXCEPT ![path] = e]
        /\ reservation' = [reservation EXCEPT ![p].path = path]
    BY <1>4 DEF reserve_agent_path
  <2>2. agent_tree'[path] = e /\ EntriesKept(path)
    BY <1>2, <2>1 DEF EntriesKept, Typed
  <2>3. QED
    BY <1>1, <1>4, <2>1, <2>2
       DEF reserve_agent_path, OthersKept, nicknameVars, Active, Occupied, Typed
<1>5. QED BY <1>3, <1>4

\* reserve_agent_nickname changes one nickname and the used set.
LEMMA NicknameEffect ==
    ASSUME Typed, NEW p \in Spawners,
           \/ \E names \in CandidateLists : reserve_agent_nickname(p, names)
           \/ \E preferred \in PreferredNicknames :
                    reserve_preferred_nickname(p, preferred)
    PROVE  /\ agent_tree' = agent_tree
           /\ total_count' = total_count /\ releasing' = releasing
           /\ OthersKept(p)
           /\ reservation[p].stage = "active"
           /\ reservation'[p].stage = "active"
           /\ reservation'[p].path = reservation[p].path
           /\ \/ /\ reservation'[p].nickname \in PreferredNicknames
                 /\ nickname_reset_count' = nickname_reset_count
                 /\ used_agent_nicknames \subseteq used_agent_nicknames'
              \/ /\ reservation'[p].nickname \in Nicknames
                 /\ reservation'[p].nickname[2] = nickname_reset_count
                 /\ reservation'[p].nickname \notin used_agent_nicknames
                 /\ nickname_reset_count' = nickname_reset_count
                 /\ used_agent_nicknames' =
                        used_agent_nicknames \cup {reservation'[p].nickname}
              \/ /\ reservation'[p].nickname \in Nicknames
                 /\ reservation'[p].nickname[2] = nickname_reset_count + 1
                 /\ nickname_reset_count' = nickname_reset_count + 1
                 /\ used_agent_nicknames' = {reservation'[p].nickname}
<1> USE DEF OthersKept, Active, TakeNickname, Typed
<1>1. ASSUME NEW preferred \in PreferredNicknames,
             reserve_preferred_nickname(p, preferred)
      PROVE  /\ reservation' = [reservation EXCEPT ![p].nickname = preferred]
             /\ used_agent_nicknames \subseteq used_agent_nicknames'
             /\ nickname_reset_count' = nickname_reset_count
             /\ reservation[p].stage = "active"
             /\ agent_tree' = agent_tree
             /\ total_count' = total_count /\ releasing' = releasing
  BY <1>1 DEF reserve_preferred_nickname
<1>2. ASSUME NEW names \in CandidateLists, reserve_agent_nickname(p, names)
      PROVE  /\ reservation[p].stage = "active"
             /\ agent_tree' = agent_tree
             /\ total_count' = total_count /\ releasing' = releasing
             /\ \E n \in Names :
                 \/ /\ format_agent_nickname(n, nickname_reset_count)
                            \notin used_agent_nicknames
                    /\ reservation' = [reservation EXCEPT ![p].nickname =
                            format_agent_nickname(n, nickname_reset_count)]
                    /\ nickname_reset_count' = nickname_reset_count
                    /\ used_agent_nicknames' = used_agent_nicknames \cup
                            {format_agent_nickname(n, nickname_reset_count)}
                 \/ /\ nickname_reset_count + 1 \in 0 .. MaxResets
                    /\ reservation' = [reservation EXCEPT ![p].nickname =
                            format_agent_nickname(n, nickname_reset_count + 1)]
                    /\ nickname_reset_count' = nickname_reset_count + 1
                    /\ used_agent_nicknames' =
                            {format_agent_nickname(n, nickname_reset_count + 1)}
  BY <1>2, ConstantsAssumption DEF reserve_agent_nickname, Available
<1>3. \A n \in Names, c \in 0 .. MaxResets :
        /\ format_agent_nickname(n, c) \in Nicknames
        /\ format_agent_nickname(n, c)[2] = c
  BY DEF format_agent_nickname, Nicknames
<1>4. CASE \E preferred \in PreferredNicknames :
              reserve_preferred_nickname(p, preferred)
  BY <1>1, <1>4
<1>5. CASE \E names \in CandidateLists : reserve_agent_nickname(p, names)
  BY <1>2, <1>3, <1>5
<1>6. QED BY <1>4, <1>5

\* commit turns the caller's placeholder, or the thread's own key, into the
\* agent's entry and ends the reservation.
LEMMA CommitEffect ==
    ASSUME Typed, NEW p \in Spawners, NEW t \in Threads, commit(p, t)
    PROVE  /\ total_count' = total_count /\ releasing' = releasing
           /\ nickname_reset_count' = nickname_reset_count
           /\ used_agent_nicknames' =
                    used_agent_nicknames \cup ({reservation[p].nickname} \ {None})
           /\ OthersKept(p)
           /\ reservation[p].stage = "active"
           /\ reservation'[p] = IdleReservation
           /\ \A k \in Keys : Occupied(k) => agent_tree[k].agent_id # t
           /\ \E key \in Keys \ {ROOT} :
                /\ \/ reservation[p].path # None /\ key = reservation[p].path
                   \/ reservation[p].path = None /\ key = t
                /\ Occupied(key)'
                /\ agent_tree'[key].agent_id = t
                /\ agent_tree'[key].agent_nickname = reservation[p].nickname
                /\ EntriesKept(key)
<1> DEFINE e == [agent_id |-> t, agent_nickname |-> reservation[p].nickname,
                 last_task_message |-> None]
<1>1. PICK key \in Keys \ {ROOT} :
        \/ reservation[p].path # None /\ key = reservation[p].path
        \/ reservation[p].path = None /\ key = t
  BY FieldTypes, DisjointAssumption DEF Keys
<1>2. e \in Metadata /\ e # None
  BY FieldTypes, DisjointAssumption DEF Metadata
<1>3. agent_tree' = [agent_tree EXCEPT ![key] = e]
  BY <1>1 DEF commit, register_spawned_thread
<1>4. agent_tree'[key] = e /\ EntriesKept(key)
  BY <1>1, <1>3 DEF Typed, EntriesKept
<1>5. /\ Occupied(key)'
      /\ agent_tree'[key].agent_id = t
      /\ agent_tree'[key].agent_nickname = reservation[p].nickname
  BY <1>2, <1>4 DEF Occupied
<1>6. \A k \in Keys : Occupied(k) => agent_tree[k].agent_id # t
  BY DEF commit, KeysOf
<1>7. OthersKept(p) /\ reservation'[p] = IdleReservation
  BY DEF commit, OthersKept, Typed
<1>8. QED BY <1>1, <1>4, <1>5, <1>6, <1>7 DEF commit, register_spawned_thread, Active

\* Drop takes the caller's own placeholder away, if it has one.
LEMMA DropPathEffect ==
    ASSUME Typed, NEW p \in Spawners, DropPath(p)
    PROVE  /\ total_count' = total_count /\ releasing' = releasing
           /\ nickname_reset_count' = nickname_reset_count
           /\ used_agent_nicknames' = used_agent_nicknames
           /\ OthersKept(p)
           /\ reservation[p].stage = "active"
           /\ reservation'[p].stage = "dropping"
           /\ reservation'[p].path = None
           /\ reservation'[p].nickname = None
           /\ \/ /\ reservation[p].path \in Keys
                 /\ Occupied(reservation[p].path)
                 /\ agent_tree[reservation[p].path].agent_id = None
                 /\ agent_tree'[reservation[p].path] = None
                 /\ EntriesKept(reservation[p].path)
              \/ /\ \/ reservation[p].path = None
                    \/ ~Occupied(reservation[p].path)
                    \/ agent_tree[reservation[p].path].agent_id # None
                 /\ agent_tree' = agent_tree
<1>1. reservation[p].path \in Paths \cup {None}
  BY FieldTypes
<1>2. /\ OthersKept(p)
      /\ reservation'[p] = [IdleReservation EXCEPT !.stage = "dropping"]
  BY DEF DropPath, OthersKept, Typed
<1>3. /\ reservation'[p].stage = "dropping"
      /\ reservation'[p].path = None
      /\ reservation'[p].nickname = None
  BY <1>2 DEF IdleReservation
<1>4. QED
  BY <1>1, <1>2, <1>3
     DEF DropPath, release_reserved_agent_path, EntriesKept, nicknameVars, Active,
         Occupied, Keys, Typed

\* The second step of Drop gives the slot back.
LEMMA DropSlotEffect ==
    ASSUME Typed, NEW p \in Spawners, DropSlot(p)
    PROVE  /\ agent_tree' = agent_tree
           /\ total_count' = total_count - 1 /\ releasing' = releasing
           /\ nickname_reset_count' = nickname_reset_count
           /\ used_agent_nicknames' = used_agent_nicknames
           /\ OthersKept(p)
           /\ reservation[p].stage = "dropping"
           /\ reservation'[p] = IdleReservation
BY DEF DropSlot, OthersKept, nicknameVars, Typed

\* Registering the root writes only the root's key.
LEMMA RootEffect ==
    ASSUME Typed, NEW t \in RootThreads, register_root_thread(t)
    PROVE  /\ total_count' = total_count /\ releasing' = releasing
           /\ nickname_reset_count' = nickname_reset_count
           /\ used_agent_nicknames' = used_agent_nicknames
           /\ reservation' = reservation
           /\ ~Occupied(ROOT)
           /\ Occupied(ROOT)'
           /\ agent_tree'[ROOT].agent_id = t
           /\ EntriesKept(ROOT)
<1> DEFINE e == [agent_id |-> t, agent_nickname |-> None, last_task_message |-> None]
<1>1. e \in Metadata /\ e.agent_id = t /\ e # None
  BY DisjointAssumption DEF Metadata
<1>2. ROOT \in Keys
  BY DEF Keys
<1>3. agent_tree' = [agent_tree EXCEPT ![ROOT] = e]
  BY DEF register_root_thread
<1>4. agent_tree'[ROOT] = e /\ EntriesKept(ROOT)
  BY <1>2, <1>3 DEF EntriesKept, Typed
<1>5. QED BY <1>1, <1>4 DEF register_root_thread, nicknameVars, Occupied

\* release_spawned_thread frees one key that carried the id.
LEMMA ReleaseEffect ==
    ASSUME Typed, NEW t \in Threads \cup RootThreads, release_spawned_thread(t)
    PROVE  /\ total_count' = total_count
           /\ nickname_reset_count' = nickname_reset_count
           /\ used_agent_nicknames' = used_agent_nicknames
           /\ reservation' = reservation
           /\ \E k \in Keys :
                /\ Occupied(k) /\ agent_tree[k].agent_id = t /\ t # None
                /\ ~Occupied(k)'
                /\ EntriesKept(k)
                /\ \/ k = ROOT /\ releasing' = releasing
                   \/ k # ROOT /\ releasing' = releasing + 1
<1>1. PICK k \in KeysOf(t) :
        /\ agent_tree' = [agent_tree EXCEPT ![k] = None]
        /\ releasing' = IF k = ROOT THEN releasing ELSE releasing + 1
  BY DEF release_spawned_thread
<1>2. k \in Keys /\ Occupied(k) /\ agent_tree[k].agent_id = t /\ t # None
  BY DisjointAssumption DEF KeysOf
<1>3. ~Occupied(k)' /\ EntriesKept(k)
  BY <1>1, <1>2 DEF Occupied, EntriesKept, Typed
<1>4. QED BY <1>1, <1>2, <1>3 DEF release_spawned_thread, nicknameVars
----------------------------------------------------------------------------
(* Who may be at which key.                                                 *)

\* The entry at "thread:{id}" is that thread's, the root's key holds a root,
\* and a spawner without a reservation holds neither path nor nickname.
ThreadKeyed ==
    /\ \A t \in Threads : Occupied(t) => agent_tree[t].agent_id = t
    /\ Occupied(ROOT) => agent_tree[ROOT].agent_id \in RootThreads
    /\ \A p \in Spawners : reservation[p].stage \in {"idle", "cas"}
            => reservation[p].path = None /\ reservation[p].nickname = None

\* Only a commit without a path writes a thread's own key.
LEMMA ThreadKeyedStep ==
    ASSUME Typed, ThreadKeyed, [Next]_vars
    PROVE  ThreadKeyed'
<1> USE DisjointAssumption
<1>1. ASSUME NEW p \in Spawners, SpawnerStep(p) PROVE ThreadKeyed'
  <2>1. CASE ReserveSpawnSlot(p)
    BY <2>1, SlotEffect DEF ThreadKeyed, OthersKept, Occupied
  <2>2. ASSUME NEW path \in Paths, reserve_agent_path(p, path) PROVE ThreadKeyed'
    BY <2>2, PathEffect DEF ThreadKeyed, OthersKept, Occupied, EntriesKept, Keys
  <2>3. CASE \/ \E names \in CandidateLists : reserve_agent_nickname(p, names)
           \/ \E preferred \in PreferredNicknames :
                    reserve_preferred_nickname(p, preferred)
    BY <2>3, NicknameEffect DEF ThreadKeyed, OthersKept, Occupied
  <2>4. ASSUME NEW t \in Threads, commit(p, t) PROVE ThreadKeyed'
    <3>1. PICK key \in Keys \ {ROOT} :
            /\ key \in Paths \/ key = t
            /\ Occupied(key)' /\ agent_tree'[key].agent_id = t
            /\ EntriesKept(key)
      BY <2>4, CommitEffect, FieldTypes
    <3>2. QED
      BY <2>4, <3>1, CommitEffect
         DEF ThreadKeyed, OthersKept, Occupied, EntriesKept, IdleReservation, Keys
  <2>5. CASE DropPath(p)
    BY <2>5, DropPathEffect DEF ThreadKeyed, OthersKept, Occupied, EntriesKept, Keys
  <2>6. CASE DropSlot(p)
    BY <2>6, DropSlotEffect DEF ThreadKeyed, OthersKept, Occupied, IdleReservation
  <2>7. QED BY <1>1, <2>1, <2>2, <2>3, <2>4, <2>5, <2>6 DEF SpawnerStep
<1>2. CASE ThreadStep
  <2>1. ASSUME NEW t \in RootThreads, register_root_thread(t) PROVE ThreadKeyed'
    BY <2>1, RootEffect DEF ThreadKeyed, OthersKept, Occupied, EntriesKept, Keys
  <2>2. ASSUME NEW t \in Threads \cup RootThreads, release_spawned_thread(t)
        PROVE  ThreadKeyed'
    BY <2>2, ReleaseEffect DEF ThreadKeyed, OthersKept, Occupied, EntriesKept, Keys
  <2>3. ASSUME NEW t \in Threads \cup RootThreads, NEW m \in Messages,
               update_last_task_message(t, m)
        PROVE  ThreadKeyed'
    BY <2>3, MessageKeepsIds DEF ThreadKeyed, OthersKept, Occupied, update_last_task_message, nicknameVars, Keys
  <2>4. CASE ReleaseSlot
    BY <2>4 DEF ThreadKeyed, OthersKept, Occupied, ReleaseSlot, nicknameVars
  <2>5. QED BY <1>2, <2>1, <2>2, <2>3, <2>4 DEF ThreadStep
<1>3. CASE UNCHANGED vars
  BY <1>3 DEF vars, ThreadKeyed, OthersKept, Occupied
<1>4. QED BY <1>1, <1>2, <1>3 DEF Next

\* A placeholder is written, replaced and removed by its own reservation only.
LEMMA PlaceholdersStep ==
    ASSUME Typed, ThreadKeyed, PlaceholdersOwned, [Next]_vars
    PROVE  PlaceholdersOwned'
<1> USE DisjointAssumption
<1>1. ASSUME NEW p \in Spawners, SpawnerStep(p) PROVE PlaceholdersOwned'
  <2>1. CASE ReserveSpawnSlot(p)
    BY <2>1, SlotEffect DEF PlaceholdersOwned, ReservedPathKept, ReservedPathExclusive, 
         PlaceholderClaimed, OthersKept, Occupied, Active, ThreadKeyed
  <2>2. ASSUME NEW path \in Paths, reserve_agent_path(p, path) PROVE PlaceholdersOwned'
    <3>1. ReservedPathKept'
      BY <2>2, PathEffect, FieldTypes
         DEF OthersKept, Occupied, Active, PlaceholdersOwned, ReservedPathKept,
             ReservedPathExclusive, EntriesKept, Keys
    <3>2. ReservedPathExclusive'
      <4>1. SUFFICES ASSUME NEW q \in Spawners, NEW r \in Spawners,
                            reservation'[q].stage = "active",
                            reservation'[r].stage = "active",
                            reservation'[q].path = reservation'[r].path,
                            reservation'[q].path # None
                     PROVE  q = r
        BY DEF ReservedPathExclusive, Active
      <4>2. CASE q # p /\ r # p
        <5>1. reservation'[q] = reservation[q] /\ reservation'[r] = reservation[r]
          BY <2>2, <4>2, PathEffect DEF OthersKept
        <5>2. QED BY <4>1, <5>1 DEF PlaceholdersOwned, ReservedPathExclusive, Active
      <4>3. CASE q = p \/ r = p
        BY <2>2, <4>1, <4>3, PathEffect
           DEF OthersKept, PlaceholdersOwned, ReservedPathKept, IdleReservation, Active
      <4>4. QED BY <4>2, <4>3
    <3>3. PlaceholderClaimed'
      BY <2>2, PathEffect, FieldTypes
         DEF OthersKept, Occupied, Active, ThreadKeyed, PlaceholdersOwned,
             ReservedPathExclusive, PlaceholderClaimed, EntriesKept, Keys
    <3>4. QED BY <3>1, <3>2, <3>3 DEF PlaceholdersOwned
  <2>3. CASE \/ \E names \in CandidateLists : reserve_agent_nickname(p, names)
           \/ \E preferred \in PreferredNicknames :
                    reserve_preferred_nickname(p, preferred)
    BY <2>3, NicknameEffect DEF PlaceholdersOwned, ReservedPathKept, ReservedPathExclusive, 
         PlaceholderClaimed, OthersKept, Occupied, Active, ThreadKeyed
  <2>4. ASSUME NEW t \in Threads, commit(p, t) PROVE PlaceholdersOwned'
    <3>1. ReservedPathKept'
      BY <2>4, CommitEffect, FieldTypes
         DEF OthersKept, Occupied, Active, PlaceholdersOwned, ReservedPathKept,
             ReservedPathExclusive, EntriesKept, IdleReservation, Keys
    <3>2. ReservedPathExclusive'
      <4>1. SUFFICES ASSUME NEW q \in Spawners, NEW r \in Spawners,
                            reservation'[q].stage = "active",
                            reservation'[r].stage = "active",
                            reservation'[q].path = reservation'[r].path,
                            reservation'[q].path # None
                     PROVE  q = r
        BY DEF ReservedPathExclusive, Active
      <4>2. CASE q # p /\ r # p
        <5>1. reservation'[q] = reservation[q] /\ reservation'[r] = reservation[r]
          BY <2>4, <4>2, CommitEffect DEF OthersKept
        <5>2. QED BY <4>1, <5>1 DEF PlaceholdersOwned, ReservedPathExclusive, Active
      <4>3. CASE q = p \/ r = p
        BY <2>4, <4>1, <4>3, CommitEffect
           DEF OthersKept, PlaceholdersOwned, ReservedPathKept, IdleReservation, Active
      <4>4. QED BY <4>2, <4>3
    <3>3. PlaceholderClaimed'
      BY <2>4, CommitEffect, FieldTypes
         DEF OthersKept, Occupied, Active, ThreadKeyed, PlaceholdersOwned,
             ReservedPathExclusive, PlaceholderClaimed, EntriesKept, IdleReservation, Keys
    <3>4. QED BY <3>1, <3>2, <3>3 DEF PlaceholdersOwned
  <2>5. CASE DropPath(p)
    <3>1. ReservedPathKept'
      BY <2>5, DropPathEffect, FieldTypes
         DEF OthersKept, Occupied, Active, PlaceholdersOwned, ReservedPathKept,
             ReservedPathExclusive, EntriesKept, Keys
    <3>2. ReservedPathExclusive'
      <4>1. SUFFICES ASSUME NEW q \in Spawners, NEW r \in Spawners,
                            reservation'[q].stage = "active",
                            reservation'[r].stage = "active",
                            reservation'[q].path = reservation'[r].path,
                            reservation'[q].path # None
                     PROVE  q = r
        BY DEF ReservedPathExclusive, Active
      <4>2. CASE q # p /\ r # p
        <5>1. reservation'[q] = reservation[q] /\ reservation'[r] = reservation[r]
          BY <2>5, <4>2, DropPathEffect DEF OthersKept
        <5>2. QED BY <4>1, <5>1 DEF PlaceholdersOwned, ReservedPathExclusive, Active
      <4>3. CASE q = p \/ r = p
        BY <2>5, <4>1, <4>3, DropPathEffect
           DEF OthersKept, PlaceholdersOwned, ReservedPathKept, IdleReservation, Active
      <4>4. QED BY <4>2, <4>3
    <3>3. PlaceholderClaimed'
      BY <2>5, DropPathEffect, FieldTypes
         DEF OthersKept, Occupied, Active, ThreadKeyed, PlaceholdersOwned,
             ReservedPathExclusive, PlaceholderClaimed, EntriesKept, Keys
    <3>4. QED BY <3>1, <3>2, <3>3 DEF PlaceholdersOwned
  <2>6. CASE DropSlot(p)
    BY <2>6, DropSlotEffect DEF PlaceholdersOwned, ReservedPathKept, ReservedPathExclusive, 
         PlaceholderClaimed, OthersKept, Occupied, Active, ThreadKeyed, IdleReservation
  <2>7. QED BY <1>1, <2>1, <2>2, <2>3, <2>4, <2>5, <2>6 DEF SpawnerStep
<1>2. CASE ThreadStep
  <2>1. ASSUME NEW t \in RootThreads, register_root_thread(t) PROVE PlaceholdersOwned'
    <3>1. ReservedPathKept'
      BY <2>1, RootEffect, FieldTypes
         DEF OthersKept, Occupied, Active, PlaceholdersOwned, ReservedPathKept,
             ReservedPathExclusive, EntriesKept, Keys
    <3>2. ReservedPathExclusive'
      BY <2>1, RootEffect, FieldTypes
         DEF OthersKept, Active, PlaceholdersOwned, ReservedPathKept,
             ReservedPathExclusive
    <3>3. PlaceholderClaimed'
      BY <2>1, RootEffect, FieldTypes
         DEF OthersKept, Occupied, Active, ThreadKeyed, PlaceholdersOwned,
             ReservedPathExclusive, PlaceholderClaimed, EntriesKept, Keys
    <3>4. QED BY <3>1, <3>2, <3>3 DEF PlaceholdersOwned
  <2>2. ASSUME NEW t \in Threads \cup RootThreads, release_spawned_thread(t)
        PROVE  PlaceholdersOwned'
    <3>1. ReservedPathKept'
      BY <2>2, ReleaseEffect, FieldTypes
         DEF OthersKept, Occupied, Active, PlaceholdersOwned, ReservedPathKept,
             ReservedPathExclusive, EntriesKept, Keys
    <3>2. ReservedPathExclusive'
      BY <2>2, ReleaseEffect, FieldTypes
         DEF OthersKept, Active, PlaceholdersOwned, ReservedPathKept,
             ReservedPathExclusive
    <3>3. PlaceholderClaimed'
      BY <2>2, ReleaseEffect, FieldTypes
         DEF OthersKept, Occupied, Active, ThreadKeyed, PlaceholdersOwned,
             ReservedPathExclusive, PlaceholderClaimed, EntriesKept, Keys
    <3>4. QED BY <3>1, <3>2, <3>3 DEF PlaceholdersOwned
  <2>3. ASSUME NEW t \in Threads \cup RootThreads, NEW m \in Messages,
               update_last_task_message(t, m)
        PROVE  PlaceholdersOwned'
    <3>1. reservation' = reservation
      BY <2>3 DEF update_last_task_message
    <3>2. \A q \in Spawners : reservation[q].path # None => reservation[q].path \in Keys
      BY FieldTypes DEF Keys
    <3>3. \A k \in Keys :
            /\ agent_tree'[k] # None <=> agent_tree[k] # None
            /\ agent_tree[k] # None => agent_tree'[k].agent_id = agent_tree[k].agent_id
      BY <2>3, MessageKeepsIds DEF Occupied
    <3>4. QED
      BY <3>1, <3>2, <3>3 DEF Occupied, Active, PlaceholdersOwned, ReservedPathKept,
             ReservedPathExclusive, PlaceholderClaimed
  <2>4. CASE ReleaseSlot
    BY <2>4 DEF PlaceholdersOwned, ReservedPathKept, ReservedPathExclusive, 
         PlaceholderClaimed, OthersKept, Occupied, Active, ThreadKeyed, ReleaseSlot, nicknameVars
  <2>5. QED BY <1>2, <2>1, <2>2, <2>3, <2>4 DEF ThreadStep
<1>3. CASE UNCHANGED vars
  BY <1>3 DEF vars, PlaceholdersOwned, ReservedPathKept, ReservedPathExclusive, 
         PlaceholderClaimed, OthersKept, Occupied, Active, ThreadKeyed
<1>4. QED BY <1>1, <1>2, <1>3 DEF Next

----------------------------------------------------------------------------
(* Counting.                                                                *)

\* The registered agents and the reservations are finitely many.
LEMMA CountedFinite ==
    /\ IsFiniteSet(live_agents) /\ IsFiniteSet(HoldsSlot)
    /\ IsFiniteSet(live_agents)' /\ IsFiniteSet(HoldsSlot)'
<1>1. IsFiniteSet(Keys)
  BY ConstantsAssumption, FS_Union, FS_Singleton DEF Keys
<1>2. live_agents \subseteq Keys /\ live_agents' \subseteq Keys
  BY DEF live_agents
<1>3. HoldsSlot \subseteq Spawners /\ HoldsSlot' \subseteq Spawners
  BY DEF HoldsSlot
<1>4. IsFiniteSet(Spawners)
  BY ConstantsAssumption
<1>5. QED BY <1>1, <1>2, <1>3, <1>4, FS_Subset

\* Adding one new element, or removing one, changes a cardinality by one.
LEMMA CardinalityByOne ==
    ASSUME NEW S, NEW x, IsFiniteSet(S)
    PROVE  /\ Cardinality(S) \in Nat
           /\ x \notin S => Cardinality(S \cup {x}) = Cardinality(S) + 1
           /\ x \in S => Cardinality(S \ {x}) = Cardinality(S) - 1
BY FS_CardinalityType, FS_AddElement, FS_RemoveElement

\* Every action changes the counter and the three things it counts together.
LEMMA AccountingStep ==
    ASSUME Typed, ThreadKeyed, PlaceholdersOwned, SlotAccounting, [Next]_vars
    PROVE  SlotAccounting'
<1> USE DisjointAssumption
<1> DEFINE L == Cardinality(live_agents)
           H == Cardinality(HoldsSlot)
<1>0. L \in Nat /\ H \in Nat /\ total_count \in Int /\ releasing \in Nat
  BY CountedFinite, FS_CardinalityType DEF Typed
<1>a. \A p \in Spawners : p \notin HoldsSlot =>
            Cardinality(HoldsSlot \cup {p}) = H + 1
  BY CountedFinite, CardinalityByOne
<1>b. \A p \in Spawners : p \in HoldsSlot =>
            Cardinality(HoldsSlot \ {p}) = H - 1
  BY CountedFinite, CardinalityByOne
<1>c. \A k \in Keys : k \notin live_agents =>
            Cardinality(live_agents \cup {k}) = L + 1
  BY CountedFinite, CardinalityByOne
<1>d. \A k \in Keys : k \in live_agents =>
            Cardinality(live_agents \ {k}) = L - 1
  BY CountedFinite, CardinalityByOne
<1>1. ASSUME NEW p \in Spawners, SpawnerStep(p) PROVE SlotAccounting'
  <2>1. CASE ReserveSpawnSlot(p)
    <3>1. live_agents' = live_agents
      BY <2>1, SlotEffect DEF live_agents, Occupied
    <3>2. \/ total_count' = total_count /\ HoldsSlot' = HoldsSlot
          \/ /\ total_count' = total_count + 1
             /\ p \notin HoldsSlot /\ HoldsSlot' = HoldsSlot \cup {p}
      BY <2>1, SlotEffect DEF HoldsSlot, OthersKept
    <3>3. releasing' = releasing
      BY <2>1, SlotEffect
    <3>4. QED BY <1>0, <1>a, <3>1, <3>2, <3>3 DEF SlotAccounting
  <2>2. ASSUME NEW path \in Paths, reserve_agent_path(p, path) PROVE SlotAccounting'
    <3>1. live_agents' = live_agents
      BY <2>2, PathEffect DEF live_agents, Occupied, EntriesKept, Keys
    <3>2. HoldsSlot' = HoldsSlot
      BY <2>2, PathEffect DEF HoldsSlot, OthersKept
    <3>3. total_count' = total_count /\ releasing' = releasing
      BY <2>2, PathEffect
    <3>4. QED BY <3>1, <3>2, <3>3 DEF SlotAccounting
  <2>3. CASE \/ \E names \in CandidateLists : reserve_agent_nickname(p, names)
             \/ \E preferred \in PreferredNicknames :
                    reserve_preferred_nickname(p, preferred)
    <3>1. live_agents' = live_agents
      BY <2>3, NicknameEffect DEF live_agents, Occupied
    <3>2. HoldsSlot' = HoldsSlot
      BY <2>3, NicknameEffect DEF HoldsSlot, OthersKept
    <3>3. total_count' = total_count /\ releasing' = releasing
      BY <2>3, NicknameEffect
    <3>4. QED BY <3>1, <3>2, <3>3 DEF SlotAccounting
  <2>4. ASSUME NEW t \in Threads, commit(p, t) PROVE SlotAccounting'
    <3>1. PICK key \in Keys \ {ROOT} :
            /\ \/ reservation[p].path # None /\ key = reservation[p].path
               \/ reservation[p].path = None /\ key = t
            /\ Occupied(key)' /\ agent_tree'[key].agent_id = t
            /\ EntriesKept(key)
      BY <2>4, CommitEffect
    <3>2. key \notin live_agents
      <4>1. CASE reservation[p].path # None
        BY <2>4, <3>1, <4>1, CommitEffect
           DEF PlaceholdersOwned, ReservedPathKept, Active, live_agents
      <4>2. CASE reservation[p].path = None
        BY <2>4, <3>1, <4>2, CommitEffect DEF ThreadKeyed, live_agents
      <4>3. QED BY <4>1, <4>2
    <3>3. live_agents' = live_agents \cup {key}
      BY <3>1 DEF live_agents, EntriesKept, Occupied
    <3>4. p \in HoldsSlot /\ HoldsSlot' = HoldsSlot \ {p}
      BY <2>4, CommitEffect DEF HoldsSlot, OthersKept, IdleReservation
    <3>5. total_count' = total_count /\ releasing' = releasing
      BY <2>4, CommitEffect
    <3>6. QED BY <1>0, <1>b, <1>c, <3>2, <3>3, <3>4, <3>5 DEF SlotAccounting
  <2>5. CASE DropPath(p)
    <3>1. live_agents' = live_agents
      BY <2>5, DropPathEffect DEF live_agents, Occupied, EntriesKept
    <3>2. HoldsSlot' = HoldsSlot
      BY <2>5, DropPathEffect DEF HoldsSlot, OthersKept
    <3>3. total_count' = total_count /\ releasing' = releasing
      BY <2>5, DropPathEffect
    <3>4. QED BY <3>1, <3>2, <3>3 DEF SlotAccounting
  <2>6. CASE DropSlot(p)
    <3>1. live_agents' = live_agents
      BY <2>6, DropSlotEffect DEF live_agents, Occupied
    <3>2. p \in HoldsSlot /\ HoldsSlot' = HoldsSlot \ {p}
      BY <2>6, DropSlotEffect DEF HoldsSlot, OthersKept, IdleReservation
    <3>3. total_count' = total_count - 1 /\ releasing' = releasing
      BY <2>6, DropSlotEffect
    <3>4. QED BY <1>0, <1>b, <3>1, <3>2, <3>3 DEF SlotAccounting
  <2>7. QED BY <1>1, <2>1, <2>2, <2>3, <2>4, <2>5, <2>6 DEF SpawnerStep
<1>2. CASE ThreadStep
  <2>1. ASSUME NEW t \in RootThreads, register_root_thread(t) PROVE SlotAccounting'
    <3>1. live_agents' = live_agents
      BY <2>1, RootEffect DEF live_agents, Occupied, EntriesKept
    <3>2. HoldsSlot' = HoldsSlot
      BY <2>1, RootEffect DEF HoldsSlot
    <3>3. QED BY <2>1, <3>1, <3>2, RootEffect DEF SlotAccounting
  <2>2. ASSUME NEW t \in Threads \cup RootThreads, release_spawned_thread(t)
        PROVE  SlotAccounting'
    <3>1. PICK k \in Keys :
            /\ Occupied(k) /\ agent_tree[k].agent_id = t /\ t # None
            /\ ~Occupied(k)'
            /\ EntriesKept(k)
            /\ \/ k = ROOT /\ releasing' = releasing
               \/ k # ROOT /\ releasing' = releasing + 1
      BY <2>2, ReleaseEffect
    <3>2. total_count' = total_count /\ HoldsSlot' = HoldsSlot
      BY <2>2, ReleaseEffect DEF HoldsSlot
    <3>3. CASE k = ROOT
      <4>1. live_agents' = live_agents
        BY <3>1, <3>3 DEF live_agents, EntriesKept, Occupied
      <4>2. QED BY <3>1, <3>2, <3>3, <4>1 DEF SlotAccounting
    <3>4. CASE k # ROOT
      <4>1. k \in live_agents /\ live_agents' = live_agents \ {k}
        BY <3>1, <3>4 DEF live_agents, EntriesKept, Occupied
      <4>2. QED BY <1>0, <1>d, <3>1, <3>2, <3>4, <4>1 DEF SlotAccounting
    <3>5. QED BY <3>3, <3>4
  <2>3. ASSUME NEW t \in Threads \cup RootThreads, NEW m \in Messages,
               update_last_task_message(t, m)
        PROVE  SlotAccounting'
    <3>1. live_agents' = live_agents
      BY <2>3, MessageKeepsIds DEF live_agents
    <3>2. QED BY <2>3, <3>1 DEF update_last_task_message, HoldsSlot, SlotAccounting
  <2>4. CASE ReleaseSlot
    BY <1>0, <2>4 DEF ReleaseSlot, nicknameVars, live_agents, Occupied, HoldsSlot,
                      SlotAccounting
  <2>5. QED BY <1>2, <2>1, <2>2, <2>3, <2>4 DEF ThreadStep
<1>3. CASE UNCHANGED vars
  BY <1>3 DEF vars, live_agents, Occupied, HoldsSlot, SlotAccounting
<1>4. QED BY <1>1, <1>2, <1>3 DEF Next

----------------------------------------------------------------------------
(* Limits.                                                                  *)

\* The counter never passes every limit: it was raised by somebody's
\* compare-exchange, from a value below that caller's limit.
CountWithinLimit ==
    (\A p \in Spawners : MaxThreads[p] # Unlimited) =>
        \E p \in Spawners : total_count <= MaxThreads[p]

\* Only reserve_spawn_slot raises the counter.
LEMMA LimitStep ==
    ASSUME Typed, CountWithinLimit, [Next]_vars
    PROVE  CountWithinLimit'
<1>1. \A p \in Spawners : MaxThreads[p] \in Nat \cup {Unlimited}
  BY ConstantsAssumption
<1>2. total_count \in Int
  BY DEF Typed
<1>3. ASSUME NEW p \in Spawners, ReserveSpawnSlot(p) PROVE CountWithinLimit'
  BY <1>1, <1>2, <1>3, SlotEffect DEF CountWithinLimit
<1>4. CASE \/ total_count' = total_count
           \/ total_count' = total_count - 1
  BY <1>1, <1>2, <1>4 DEF CountWithinLimit
<1>5. ASSUME NEW p \in Spawners, SpawnerStep(p), ~ReserveSpawnSlot(p)
      PROVE  total_count' = total_count \/ total_count' = total_count - 1
  BY <1>5 DEF SpawnerStep, reserve_agent_path, reserve_agent_nickname,
              reserve_preferred_nickname, commit, DropPath, DropSlot
<1>6. CASE ThreadStep
  BY <1>6, <1>4 DEF ThreadStep, register_root_thread, release_spawned_thread,
              update_last_task_message, ReleaseSlot
<1>7. CASE UNCHANGED vars
  BY <1>7, <1>4 DEF vars
<1>8. QED BY <1>3, <1>4, <1>5, <1>6, <1>7 DEF Next

\* A spawner compares with a value the counter has had.
ObservedNat == \A p \in Spawners : reservation[p].observed \in Nat

\* The value is read while the counter is a natural number.
LEMMA ObservedStep ==
    ASSUME Typed, total_count \in Nat, ObservedNat, [Next]_vars
    PROVE  ObservedNat'
<1> USE DEF ObservedNat, Typed, IdleReservation
<1>1. ASSUME NEW p \in Spawners, SpawnerStep(p) PROVE ObservedNat'
  <2>1. CASE ReserveSpawnSlot(p)
    <3>1. CASE LoadCount(p) BY <3>1 DEF LoadCount
    <3>2. CASE LimitReached(p) BY <3>2 DEF LimitReached
    <3>3. CASE CompareExchange(p) BY <3>3 DEF CompareExchange
    <3>4. CASE CompareExchangeFails(p) BY <3>4 DEF CompareExchangeFails
    <3>5. CASE ReserveUnlimited(p) BY <3>5 DEF ReserveUnlimited
    <3>6. QED BY <2>1, <3>1, <3>2, <3>3, <3>4, <3>5 DEF ReserveSpawnSlot
  <2>2. ASSUME NEW path \in Paths, reserve_agent_path(p, path) PROVE ObservedNat'
    BY <2>2 DEF reserve_agent_path
  <2>3. ASSUME NEW names \in CandidateLists, reserve_agent_nickname(p, names)
        PROVE  ObservedNat'
    BY <2>3 DEF reserve_agent_nickname, TakeNickname
  <2>4. ASSUME NEW preferred \in PreferredNicknames,
               reserve_preferred_nickname(p, preferred)
        PROVE  ObservedNat'
    BY <2>4 DEF reserve_preferred_nickname, TakeNickname
  <2>5. ASSUME NEW t \in Threads, commit(p, t) PROVE ObservedNat'
    BY <2>5 DEF commit
  <2>6. CASE DropPath(p)
    BY <2>6 DEF DropPath
  <2>7. CASE DropSlot(p)
    BY <2>7 DEF DropSlot
  <2>8. QED BY <1>1, <2>1, <2>2, <2>3, <2>4, <2>5, <2>6, <2>7 DEF SpawnerStep
<1>2. CASE ThreadStep
  BY <1>2 DEF ThreadStep, register_root_thread, release_spawned_thread,
              update_last_task_message, ReleaseSlot
<1>3. CASE UNCHANGED vars
  BY <1>3 DEF vars
<1>4. QED BY <1>1, <1>2, <1>3 DEF Next

----------------------------------------------------------------------------
(* Nicknames.                                                               *)

\* A nickname that no resumed agent may bring back.
Generated(nickname) == nickname \notin PreferredNicknames \cup {None}

\* A generated nickname carries an ordinal the pool has reached, and it is
\* still marked as used if that ordinal is the current one.
OrdinalReached(nickname) ==
    Generated(nickname) =>
        /\ nickname[2] <= nickname_reset_count
        /\ nickname[2] = nickname_reset_count => nickname \in used_agent_nicknames

OrdinalsReached ==
    /\ \A k \in live_agents : OrdinalReached(agent_tree[k].agent_nickname)
    /\ \A p \in Spawners : OrdinalReached(reservation[p].nickname)

\* No two carriers of a generated nickname carry the same one.
CarriersDistinct ==
    /\ \A k, l \in live_agents :
          (/\ Generated(agent_tree[k].agent_nickname)
           /\ agent_tree[k].agent_nickname = agent_tree[l].agent_nickname) => k = l
    /\ \A p, q \in Spawners :
          (/\ Generated(reservation[p].nickname)
           /\ reservation[p].nickname = reservation[q].nickname) => p = q
    /\ \A k \in live_agents, p \in Spawners :
          Generated(agent_tree[k].agent_nickname)
              => agent_tree[k].agent_nickname # reservation[p].nickname

NicknameInv == OrdinalsReached /\ CarriersDistinct

\* The property follows.
LEMMA NicknameInvImplies ==
    ASSUME NicknameInv
    PROVE  NicknamesDistinct
BY DEF NicknameInv, CarriersDistinct, NicknamesDistinct, HoldsSlot, Generated

\* A step after which nobody carries a nickname it did not carry before, and
\* which unmarks none, preserves the invariant.
LEMMA NicknameQuiet ==
    ASSUME NicknameInv,
           \A k \in live_agents' :
              /\ k \in live_agents
              /\ agent_tree'[k].agent_nickname = agent_tree[k].agent_nickname,
           \A p \in Spawners :
              reservation'[p].nickname \in {None, reservation[p].nickname},
           used_agent_nicknames \subseteq used_agent_nicknames',
           nickname_reset_count' = nickname_reset_count
    PROVE  NicknameInv'
<1>1. OrdinalsReached'
  BY DEF NicknameInv, OrdinalsReached, OrdinalReached, Generated
<1>2. CarriersDistinct'
  BY DEF NicknameInv, CarriersDistinct, Generated
<1>3. QED BY <1>1, <1>2 DEF NicknameInv

\* Only the choice of a nickname and a commit move nicknames.
LEMMA NicknameStep ==
    ASSUME Typed, ThreadKeyed, PlaceholdersOwned, NicknameInv, [Next]_vars
    PROVE  NicknameInv'
<1> USE DisjointAssumption
<1>1. ASSUME NEW p \in Spawners, SpawnerStep(p) PROVE NicknameInv'
  <2>1. CASE ReserveSpawnSlot(p)
    <3>1. \A q \in Spawners :
            reservation'[q].nickname \in {None, reservation[q].nickname}
      BY <2>1, SlotEffect DEF OthersKept
    <3>2. QED
      BY <2>1, <3>1, SlotEffect, NicknameQuiet DEF live_agents, Occupied
  <2>2. ASSUME NEW path \in Paths, reserve_agent_path(p, path) PROVE NicknameInv'
    <3>1. \A k \in live_agents' :
            /\ k \in live_agents
            /\ agent_tree'[k].agent_nickname = agent_tree[k].agent_nickname
      BY <2>2, PathEffect DEF live_agents, Occupied, EntriesKept
    <3>2. \A q \in Spawners :
            reservation'[q].nickname \in {None, reservation[q].nickname}
      BY <2>2, PathEffect DEF OthersKept
    <3>3. QED BY <2>2, <3>1, <3>2, PathEffect, NicknameQuiet
  <2>3. CASE \/ \E names \in CandidateLists : reserve_agent_nickname(p, names)
             \/ \E preferred \in PreferredNicknames :
                    reserve_preferred_nickname(p, preferred)
    <3>0. PICK new : new = reservation'[p].nickname
      OBVIOUS
    <3>1. /\ agent_tree' = agent_tree
          /\ live_agents' = live_agents
          /\ \A q \in Spawners \ {p} : reservation'[q] = reservation[q]
      BY <2>3, NicknameEffect DEF live_agents, Occupied, OthersKept
    <3>2. /\ \A k \in live_agents : OrdinalReached(agent_tree[k].agent_nickname)
          /\ \A q \in Spawners : OrdinalReached(reservation[q].nickname)
      BY DEF NicknameInv, OrdinalsReached
    <3>3. nickname_reset_count \in Int
      BY DEF Typed
    <3>4. \/ /\ new \in PreferredNicknames
             /\ nickname_reset_count' = nickname_reset_count
             /\ used_agent_nicknames \subseteq used_agent_nicknames'
          \/ /\ new[2] = nickname_reset_count
             /\ new \notin used_agent_nicknames
             /\ nickname_reset_count' = nickname_reset_count
             /\ used_agent_nicknames' = used_agent_nicknames \cup {new}
          \/ /\ new[2] = nickname_reset_count + 1
             /\ nickname_reset_count' = nickname_reset_count + 1
             /\ used_agent_nicknames' = {new}
      BY <2>3, <3>0, NicknameEffect
    <3>5. \A c : OrdinalReached(c) /\ Generated(c) /\ Generated(new) => c # new
      BY <3>3, <3>4 DEF OrdinalReached, Generated
    <3>6. \A c : OrdinalReached(c) /\ (Generated(c) => c[2] \in Int) =>
                    OrdinalReached(c)'
      <4> USE DEF OrdinalReached, Generated
      <4>1. CASE nickname_reset_count' = nickname_reset_count
        BY <3>3, <3>4, <4>1
      <4>2. CASE nickname_reset_count' = nickname_reset_count + 1
        BY <3>3, <3>4, <4>2
      <4>3. QED BY <3>4, <4>1, <4>2
    <3>7. OrdinalReached(new)'
      BY <3>3, <3>4 DEF OrdinalReached, Generated
    <3>8. /\ \A k \in live_agents : Generated(agent_tree[k].agent_nickname)
                => agent_tree[k].agent_nickname[2] \in Int
          /\ \A q \in Spawners : Generated(reservation[q].nickname)
                => reservation[q].nickname[2] \in Int
      BY FieldTypes DEF Generated, live_agents, Metadata, Nicknames
    <3>9. OrdinalsReached'
      <4>1. \A k \in live_agents : OrdinalReached(agent_tree[k].agent_nickname)'
        <5>1. ASSUME NEW c, NEW k \in live_agents, c = agent_tree[k].agent_nickname
              PROVE  OrdinalReached(c)'
          BY <3>2, <3>6, <3>8, <5>1
        <5>2. QED BY <3>1, <5>1 DEF OrdinalReached, Generated
      <4>2. \A q \in Spawners : OrdinalReached(reservation[q].nickname)'
        <5>1. ASSUME NEW c, NEW q \in Spawners \ {p}, c = reservation[q].nickname
              PROVE  OrdinalReached(c)'
          BY <3>2, <3>6, <3>8, <5>1
        <5>2. QED BY <3>0, <3>1, <3>7, <5>1 DEF OrdinalReached, Generated
      <4>3. QED BY <3>1, <4>1, <4>2 DEF OrdinalsReached
    <3>10. CarriersDistinct'
      BY <3>0, <3>1, <3>2, <3>5 DEF NicknameInv, CarriersDistinct, Generated
    <3>11. QED BY <3>9, <3>10 DEF NicknameInv
  <2>4. ASSUME NEW t \in Threads, commit(p, t) PROVE NicknameInv'
    <3>1. PICK key \in Keys \ {ROOT} :
            /\ Occupied(key)' /\ agent_tree'[key].agent_id = t
            /\ agent_tree'[key].agent_nickname = reservation[p].nickname
            /\ EntriesKept(key)
      BY <2>4, CommitEffect
    <3>2. \A k \in live_agents' \ {key} :
            k \in live_agents /\ agent_tree'[k] = agent_tree[k]
      BY <3>1 DEF live_agents, EntriesKept, Occupied
    <3>3. /\ \A q \in Spawners \ {p} : reservation'[q] = reservation[q]
          /\ reservation'[p].nickname = None
      BY <2>4, CommitEffect DEF OthersKept, IdleReservation
    <3>4. /\ used_agent_nicknames \subseteq used_agent_nicknames'
          /\ nickname_reset_count' = nickname_reset_count
      BY <2>4, CommitEffect
    <3>5. OrdinalsReached'
      BY <3>1, <3>2, <3>3, <3>4
         DEF NicknameInv, OrdinalsReached, OrdinalReached, Generated
    <3>6. CarriersDistinct'
      BY <3>1, <3>2, <3>3 DEF NicknameInv, CarriersDistinct, Generated
    <3>7. QED BY <3>5, <3>6 DEF NicknameInv
  <2>5. CASE DropPath(p)
    <3>1. \A k \in live_agents' :
            /\ k \in live_agents
            /\ agent_tree'[k].agent_nickname = agent_tree[k].agent_nickname
      BY <2>5, DropPathEffect DEF live_agents, Occupied, EntriesKept
    <3>2. \A q \in Spawners :
            reservation'[q].nickname \in {None, reservation[q].nickname}
      BY <2>5, DropPathEffect DEF OthersKept
    <3>3. QED BY <2>5, <3>1, <3>2, DropPathEffect, NicknameQuiet
  <2>6. CASE DropSlot(p)
    <3>1. \A q \in Spawners :
            reservation'[q].nickname \in {None, reservation[q].nickname}
      BY <2>6, DropSlotEffect DEF OthersKept, IdleReservation
    <3>2. QED
      BY <2>6, <3>1, DropSlotEffect, NicknameQuiet DEF live_agents, Occupied
  <2>7. QED BY <1>1, <2>1, <2>2, <2>3, <2>4, <2>5, <2>6 DEF SpawnerStep
<1>2. CASE ThreadStep
  <2>1. ASSUME NEW t \in RootThreads, register_root_thread(t) PROVE NicknameInv'
    <3>1. \A k \in live_agents' :
            /\ k \in live_agents
            /\ agent_tree'[k].agent_nickname = agent_tree[k].agent_nickname
      BY <2>1, RootEffect DEF live_agents, Occupied, EntriesKept
    <3>2. QED BY <2>1, <3>1, RootEffect, NicknameQuiet
  <2>2. ASSUME NEW t \in Threads \cup RootThreads, release_spawned_thread(t)
        PROVE  NicknameInv'
    <3>1. \A k \in live_agents' :
            /\ k \in live_agents
            /\ agent_tree'[k].agent_nickname = agent_tree[k].agent_nickname
      BY <2>2, ReleaseEffect DEF live_agents, Occupied, EntriesKept
    <3>2. QED BY <2>2, <3>1, ReleaseEffect, NicknameQuiet
  <2>3. ASSUME NEW t \in Threads \cup RootThreads, NEW m \in Messages,
               update_last_task_message(t, m)
        PROVE  NicknameInv'
    <3>1. \A k \in live_agents' :
            /\ k \in live_agents
            /\ agent_tree'[k].agent_nickname = agent_tree[k].agent_nickname
      BY <2>3, MessageKeepsIds DEF live_agents
    <3>2. QED
      BY <2>3, <3>1, NicknameQuiet DEF update_last_task_message, nicknameVars
  <2>4. CASE ReleaseSlot
    BY <2>4, NicknameQuiet DEF ReleaseSlot, nicknameVars, live_agents, Occupied
  <2>5. QED BY <1>2, <2>1, <2>2, <2>3, <2>4 DEF ThreadStep
<1>3. CASE UNCHANGED vars
  BY <1>3, NicknameQuiet DEF vars, live_agents, Occupied
<1>4. QED BY <1>1, <1>2, <1>3 DEF Next

----------------------------------------------------------------------------
(* The theorems.                                                            *)

IInv ==
    /\ Typed
    /\ ThreadKeyed
    /\ PlaceholdersOwned
    /\ SlotAccounting
    /\ CountWithinLimit
    /\ ObservedNat
    /\ NicknameInv

\* The counter is a natural number because of what it counts.
LEMMA CountNat ==
    ASSUME Typed, SlotAccounting
    PROVE  total_count \in Nat
BY CountedFinite, FS_CardinalityType DEF Typed, SlotAccounting

\* The initial registry satisfies the inductive invariant.
LEMMA InitIInv ==
    ASSUME Init
    PROVE  IInv
<1> USE ConstantsAssumption, DisjointAssumption DEF Init
<1>1. Typed
  BY DEF Typed, IdleReservation
<1>2. \A k \in Keys : ~Occupied(k)
  BY DEF Occupied
<1>3. ThreadKeyed /\ ObservedNat
  BY <1>2 DEF ThreadKeyed, ObservedNat, IdleReservation, Keys
<1>4. PlaceholdersOwned
  BY <1>2 DEF PlaceholdersOwned, ReservedPathKept, ReservedPathExclusive,
              PlaceholderClaimed, Active, IdleReservation
<1>5. live_agents = {} /\ HoldsSlot = {}
  BY <1>2 DEF live_agents, HoldsSlot, IdleReservation
<1>6. SlotAccounting
  BY <1>5, FS_EmptySet DEF SlotAccounting
<1>7. CountWithinLimit
  BY DEF CountWithinLimit
<1>8. NicknameInv
  BY <1>5 DEF NicknameInv, OrdinalsReached, OrdinalReached, CarriersDistinct,
              Generated, IdleReservation
<1>9. QED BY <1>1, <1>3, <1>4, <1>6, <1>7, <1>8 DEF IInv

\* The inductive invariant is preserved by every step of the registry.
LEMMA NextIInv ==
    ASSUME IInv, [Next]_vars
    PROVE  IInv'
BY TypedStep, ThreadKeyedStep, PlaceholdersStep, AccountingStep, LimitStep,
   CountNat, ObservedStep, NicknameStep DEF IInv

\* The inductive invariant holds in every reachable state.
THEOREM Invariance == Spec => []IInv
<1>1. Init => IInv
  BY InitIInv
<1>2. IInv /\ [Next]_vars => IInv'
  BY NextIInv
<1>3. QED BY <1>1, <1>2, PTL DEF Spec

\* Type correctness: in particular the slot counter never underflows, however
\* drops and releases interleave.
THEOREM TypeCorrectness == Spec => []TypeOK
<1>1. IInv => TypeOK
  BY CountNat DEF IInv, Typed, ObservedNat, TypeOK, Reservations
<1>2. QED BY <1>1, Invariance, PTL

\* The slot counter accounts exactly for the registered sub-agents, the
\* reservations in flight and the decrements that are due, and is never negative.
THEOREM SlotAccountingHolds == Spec => []RegistryInv
<1>1. IInv => SlotAccounting
  BY DEF IInv
<1>2. TypeOK /\ SlotAccounting => RegistryInv
  BY DEF RegistryInv
<1>3. QED BY <1>1, <1>2, TypeCorrectness, Invariance, PTL

\* With limits everywhere, live and in-flight agents stay within a limit.
THEOREM AgentLimit == Spec => []AgentsWithinLimit
<1>1. ASSUME IInv PROVE AgentsWithinLimit
  <2>1. /\ Cardinality(live_agents) \in Nat
        /\ Cardinality(HoldsSlot) \in Nat
        /\ releasing \in Nat
    BY <1>1, CountedFinite, FS_CardinalityType DEF IInv, Typed
  <2>2. \A p \in Spawners : MaxThreads[p] \in Nat \cup {Unlimited}
    BY ConstantsAssumption
  <2>3. QED
    BY <1>1, <2>1, <2>2
       DEF IInv, SlotAccounting, CountWithinLimit, AgentsWithinLimit
<1>2. QED BY <1>1, Invariance, PTL

\* Placeholders and reservations that hold a path correspond one to one.
THEOREM PathOwnership == Spec => []PlaceholdersOwned
<1>1. IInv => PlaceholdersOwned
  BY DEF IInv
<1>2. QED BY <1>1, Invariance, PTL

\* Generated nicknames are never shared.
THEOREM NicknamesStayDistinct == Spec => []NicknamesDistinct
<1>1. IInv => NicknamesDistinct
  BY NicknameInvImplies DEF IInv
<1>2. QED BY <1>1, Invariance, PTL

\* A limited caller takes a slot only below its limit.
THEOREM LimitAtReserve == Spec => LimitHoldsAtReserve
<1>1. ASSUME IInv, [Next]_vars PROVE [SlotTakenBelowLimit]_vars
  <2>1. SUFFICES ASSUME NEW p \in Spawners, MaxThreads[p] # Unlimited,
                        p \notin HoldsSlot, p \in HoldsSlot'
                 PROVE  Cardinality(live_agents) + Cardinality(HoldsSlot)
                            < MaxThreads[p]
    BY DEF SlotTakenBelowLimit
  <2>2. ReserveSpawnSlot(p)
    <3>1. reservation'[p].stage # reservation[p].stage
      BY <2>1 DEF HoldsSlot
    <3>2. ~ThreadStep /\ ~UNCHANGED vars
      BY <3>1 DEF ThreadStep, register_root_thread, release_spawned_thread,
                  update_last_task_message, ReleaseSlot, vars
    <3>3. PICK q \in Spawners : SpawnerStep(q)
      BY <1>1, <3>2 DEF Next
    <3>4. OthersKept(q)
      BY <1>1, <3>3, SlotEffect, PathEffect, NicknameEffect, CommitEffect,
         DropPathEffect, DropSlotEffect DEF SpawnerStep, IInv
    <3>5. q = p
      BY <3>1, <3>4 DEF OthersKept
    <3>6. ~ReserveSpawnSlot(p) => reservation[p].stage \in {"active", "dropping"}
      BY <3>3, <3>5 DEF SpawnerStep, reserve_agent_path, reserve_agent_nickname,
                  reserve_preferred_nickname, commit, DropPath, DropSlot, Active
    <3>7. QED BY <2>1, <3>6 DEF HoldsSlot
  <2>3. total_count < MaxThreads[p]
    BY <1>1, <2>1, <2>2, SlotEffect DEF HoldsSlot, IInv
  <2>4. /\ Cardinality(live_agents) \in Nat /\ Cardinality(HoldsSlot) \in Nat
        /\ releasing \in Nat /\ MaxThreads[p] \in Nat
    BY <1>1, <2>1, CountedFinite, FS_CardinalityType, ConstantsAssumption
       DEF IInv, Typed
  <2>5. QED BY <1>1, <2>3, <2>4 DEF IInv, SlotAccounting
<1>2. QED BY <1>1, Invariance, PTL DEF Spec, LimitHoldsAtReserve

\* A registered agent stays as it is until its own release.
THEOREM RegistrationStability == Spec => RegistrationStable
<1>1. ASSUME IInv, [Next]_vars PROVE [KeptOrReleased]_vars
  <2> USE DisjointAssumption
  <2>0. Typed /\ ThreadKeyed /\ PlaceholdersOwned
    BY <1>1 DEF IInv
  <2>1. SUFFICES ASSUME NEW k \in Keys, Occupied(k), agent_tree[k].agent_id # None,
                        ~release_spawned_thread(agent_tree[k].agent_id)
                 PROVE  /\ Occupied(k)'
                        /\ agent_tree'[k].agent_id = agent_tree[k].agent_id
                        /\ agent_tree'[k].agent_nickname = agent_tree[k].agent_nickname
    BY DEF KeptOrReleased
  <2>2. SUFFICES ASSUME agent_tree'[k] # agent_tree[k]
                 PROVE  /\ Occupied(k)'
                        /\ agent_tree'[k].agent_id = agent_tree[k].agent_id
                        /\ agent_tree'[k].agent_nickname = agent_tree[k].agent_nickname
    BY <2>1 DEF Occupied
  <2>3. ASSUME NEW p \in Spawners, SpawnerStep(p) PROVE FALSE
    <3>1. CASE \/ ReserveSpawnSlot(p)
               \/ DropSlot(p)
               \/ \E names \in CandidateLists : reserve_agent_nickname(p, names)
               \/ \E preferred \in PreferredNicknames :
                    reserve_preferred_nickname(p, preferred)
      BY <2>0, <2>2, <3>1, SlotEffect, DropSlotEffect, NicknameEffect
    <3>2. ASSUME NEW path \in Paths, reserve_agent_path(p, path) PROVE FALSE
      BY <2>0, <2>1, <2>2, <3>2, PathEffect DEF EntriesKept
    <3>3. ASSUME NEW t \in Threads, commit(p, t) PROVE FALSE
      <4>1. PICK key \in Keys \ {ROOT} :
              /\ \/ reservation[p].path # None /\ key = reservation[p].path
                 \/ reservation[p].path = None /\ key = t
              /\ EntriesKept(key)
        BY <2>0, <3>3, CommitEffect
      <4>2. k = key
        BY <2>2, <4>1 DEF EntriesKept
      <4>3. CASE reservation[p].path # None
        BY <2>0, <2>1, <3>3, <4>1, <4>2, <4>3, CommitEffect
           DEF PlaceholdersOwned, ReservedPathKept, Active
      <4>4. CASE reservation[p].path = None
        BY <2>0, <2>1, <3>3, <4>1, <4>2, <4>4, CommitEffect DEF ThreadKeyed
      <4>5. QED BY <4>3, <4>4
    <3>4. CASE DropPath(p)
      BY <2>0, <2>1, <2>2, <3>4, DropPathEffect DEF EntriesKept
    <3>5. QED BY <2>3, <3>1, <3>2, <3>3, <3>4 DEF SpawnerStep
  <2>4. CASE ThreadStep
    <3>1. ASSUME NEW t \in RootThreads, register_root_thread(t) PROVE FALSE
      BY <2>0, <2>1, <2>2, <3>1, RootEffect DEF EntriesKept
    <3>2. ASSUME NEW t \in Threads \cup RootThreads, release_spawned_thread(t)
          PROVE  FALSE
      <4>1. PICK l \in Keys : agent_tree[l].agent_id = t /\ EntriesKept(l)
        BY <2>0, <3>2, ReleaseEffect
      <4>2. k = l
        BY <2>2, <4>1 DEF EntriesKept
      <4>3. QED BY <2>1, <3>2, <4>1, <4>2
    <3>3. ASSUME NEW t \in Threads \cup RootThreads, NEW m \in Messages,
                 update_last_task_message(t, m)
          PROVE  /\ Occupied(k)'
                 /\ agent_tree'[k].agent_id = agent_tree[k].agent_id
                 /\ agent_tree'[k].agent_nickname = agent_tree[k].agent_nickname
      BY <2>0, <2>1, <3>3, MessageKeepsIds
    <3>4. CASE ReleaseSlot
      BY <2>2, <3>4 DEF ReleaseSlot
    <3>5. QED BY <2>4, <3>1, <3>2, <3>3, <3>4 DEF ThreadStep
  <2>5. CASE UNCHANGED vars
    BY <2>2, <2>5 DEF vars
  <2>6. QED BY <1>1, <2>3, <2>4, <2>5 DEF Next
<1>2. QED BY <1>1, Invariance, PTL DEF Spec, RegistrationStable
----------------------------------------------------------------------------
(* AgentControl.  What a call knows is old: the agents it names have been   *)
(* loaded before, so a thread that is spawned under a fresh id is new to    *)
(* every other call and to every store.                                     *)

Old == {t \in Agents : instances[t] # 0}

SpawnPlaces == {"spawn.thread", "spawn.commit", "spawn.edge"}

InputPlaces == {"input", "died.remove", "died.release"}

ResumePlaces == {"resume.reserve", "resume.lookup", "resume.thread", "resume.lifecycle",
                 "resume.edge", "resume.check", "resume.next"}

StopPlaces == {"stop.flush", "stop.send", "stop.wait", "stop.remove", "stop.release",
               "stop.next", "closed"}

ClosePlaces == {"close.edge", "close.snapshot"} \cup StopPlaces

CallRecords == [tool : {"none", "spawn", "input", "resume", "close"}, at : Places,
    owner : Instances \cup {RootSession}, by : Agents \cup {Root},
    target : Agents \cup {Root}, top : BOOLEAN, waits : 0 .. MaxInstances,
    known : BOOLEAN, failed : BOOLEAN, queue : Seq(Agents),
    todo : SUBSET Agents, seen : SUBSET (Agents \X (0 .. MaxInstances))]

\* The thread map: a thread is loaded, or its loop runs, only in an instance it had.
ThreadsOK ==
    /\ loaded \in [Agents -> 0 .. MaxInstances]
    /\ instances \in [Agents -> 0 .. MaxInstances]
    /\ parent \in [Agents -> Agents \cup {Root}]
    /\ alive \subseteq Instances /\ stopping \subseteq Instances
    /\ \A t \in Agents : loaded[t] <= instances[t]
    /\ \A i \in alive : i[2] <= instances[i[1]]

\* The registry.  That the counter is not negative needs the accounting.
RegistryOK ==
    /\ registered \subseteq Old
    /\ slot_count \in Int /\ slot_count <= max_threads

\* The spawn edges.
EdgesOK ==
    /\ edge \in [Agents -> [parent : Agents \cup {Root}, status : {"none", "Open", "Closed"}]]
    /\ \A t \in Agents : edge[t].status # "none" => t \in Old

BoundsOK == made \in 0 .. MaxCalls /\ faults \in 0 .. MaxFaults

CallsTyped == call \in [Calls -> CallRecords]

\* The place of a call tells which tool it is of.
FitsAt(tool, at) ==
    /\ at = "idle" => tool = "none"
    /\ at \in SpawnPlaces => tool = "spawn"
    /\ at \in InputPlaces => tool \in {"spawn", "input"}
    /\ at \in ResumePlaces => tool = "resume"
    /\ at \in ClosePlaces => tool = "close"

ToolFits(c) == FitsAt(call[c].tool, call[c].at)

\* The agents and instances a call knows have been there.
CallOld(c) ==
    /\ call[c].at \notin {"idle", "spawn.thread"} => call[c].target \in Agents
    /\ call[c].target \in Old \cup {Root}
    /\ call[c].todo \subseteq Old
    /\ \A i \in call[c].seen : i[2] <= instances[i[1]]

\* Call d has nothing to do with the agent t that another call just spawned.
Stranger(d, t) ==
    /\ call[d].tool = "spawn" => call[d].target # t
    /\ call[d].tool = "resume" => call[d].target # t /\ t \notin call[d].todo

\* Between the start of a thread and the commit of its reservation only the
\* thread map has it.
SpawnedIsNew(c) ==
    At(c, "spawn.commit") =>
        /\ call[c].target \notin registered
        /\ edge[call[c].target].status = "none"
        /\ \A d \in Calls \ {c} : Stranger(d, call[c].target)

\* The inductive invariant of agent control, whichever tools overlap.
ControlBase ==
    /\ ThreadsOK /\ RegistryOK /\ EdgesOK /\ BoundsOK
    /\ CallsTyped
    /\ \A c \in Calls : ToolFits(c) /\ CallOld(c) /\ SpawnedIsNew(c)
    /\ Slack >= 0

\* A call of an agent, wherever it is.
ControlStep(c) == Start(c) \/ Step(c) \/ Interrupted(c) \/ OwnerEnded(c)

\* No instance is ever taken back.
InstancesGrow ==
    \A t \in Agents : instances[t] <= instances'[t]

\* Only call c moves.
OnlyMoves(c) ==
    /\ CallsTyped'
    /\ \A d \in Calls \ {c} : call'[d] = call[d]

\* Call c moves, and is well-formed afterwards.
CallMoves(c) ==
    /\ OnlyMoves(c)
    /\ ToolFits(c)' /\ CallOld(c)'

\* A call has fresh data before it starts.
LEMMA IdleTyped == Idle \in CallRecords
<1>1. <<>> \in Seq(Agents)
  OBVIOUS
<1>2. 0 \in 0 .. MaxInstances
  BY ControlAssumption
<1>3. /\ NoThread \in Agents \cup {Root} /\ Root \in Agents \cup {Root}
      /\ {} \in SUBSET Agents /\ {} \in SUBSET (Agents \X (0 .. MaxInstances))
  BY DEF NoThread
<1>4. "idle" \in Places /\ FALSE \in BOOLEAN /\ RootSession \in Instances \cup {RootSession}
  BY DEF Places
<1> QED
  BY <1>1, <1>2, <1>3, <1>4 DEF Idle, CallRecords

\* A call that is replaced by a record.
LEMMA CallEffect ==
    ASSUME NEW c \in Calls, CallsTyped, NEW r \in CallRecords,
           call' = [call EXCEPT ![c] = r]
    PROVE  /\ CallsTyped' /\ call'[c] = r
           /\ \A d \in Calls \ {c} : call'[d] = call[d]
BY DEF CallsTyped

\* A call that only goes on to another place.
LEMMA GotoEffect ==
    ASSUME NEW c \in Calls, CallsTyped, NEW at \in Places, Goto(c, at)
    PROVE  /\ CallsTyped'
           /\ \A d \in Calls \ {c} : call'[d] = call[d]
           /\ call'[c] = [call[c] EXCEPT !.at = at] /\ call'[c].at = at
           /\ call'[c].tool = call[c].tool /\ call'[c].by = call[c].by
           /\ call'[c].target = call[c].target /\ call'[c].top = call[c].top
           /\ call'[c].waits = call[c].waits /\ call'[c].failed = call[c].failed
           /\ call'[c].todo = call[c].todo /\ call'[c].seen = call[c].seen
<1>1. call[c] \in CallRecords
  BY DEF CallsTyped
<1> DEFINE r == [call[c] EXCEPT !.at = at]
<1>2. r \in CallRecords
  BY <1>1 DEF CallRecords
<1>3. call' = [call EXCEPT ![c] = r]
  BY DEF Goto
<1>4. /\ CallsTyped' /\ call'[c] = r
      /\ \A d \in Calls \ {c} : call'[d] = call[d]
  BY <1>2, <1>3, CallEffect
<1>5. /\ r.at = at /\ r.tool = call[c].tool /\ r.by = call[c].by /\ r.target = call[c].target
      /\ r.top = call[c].top /\ r.waits = call[c].waits /\ r.failed = call[c].failed
      /\ r.todo = call[c].todo /\ r.seen = call[c].seen
  BY <1>1 DEF CallRecords
<1> QED
  BY <1>4, <1>5

\* A call that ends.
LEMMA DoneEffect ==
    ASSUME NEW c \in Calls, CallsTyped, Done(c)
    PROVE  /\ CallsTyped' /\ call'[c] = Idle
           /\ \A d \in Calls \ {c} : call'[d] = call[d]
           /\ call'[c].at = "idle" /\ call'[c].tool = "none"
           /\ call'[c].target = Root /\ ~call'[c].top /\ ~call'[c].failed
           /\ call'[c].todo = {} /\ call'[c].seen = {}
<1>1. /\ CallsTyped' /\ call'[c] = Idle
      /\ \A d \in Calls \ {c} : call'[d] = call[d]
  BY IdleTyped, CallEffect DEF Done
<1> QED
  BY <1>1 DEF Idle, NoThread

\* What was old stays old.
LEMMA OldGrows ==
    ASSUME ThreadsOK, ThreadsOK', InstancesGrow
    PROVE  /\ Old \subseteq Old'
           /\ CallsTyped => \A c \in Calls : CallOld(c) =>
                  \A i \in call[c].seen : i[2] <= instances'[i[1]]
<1>1. \A t \in Agents : /\ instances[t] \in Nat /\ instances'[t] \in Nat
                        /\ instances[t] <= instances'[t]
  BY ControlAssumption DEF ThreadsOK, InstancesGrow
<1>2. Old \subseteq Old'
  BY <1>1 DEF Old
<1>3. ASSUME NEW c \in Calls, CallsTyped, CallOld(c), NEW i \in call[c].seen
      PROVE  i[2] <= instances'[i[1]]
  <2>1. call[c].seen \subseteq Agents \X (0 .. MaxInstances)
    BY <1>3 DEF CallsTyped, CallRecords
  <2>2. i[1] \in Agents /\ i[2] \in Nat
    BY <1>3, <2>1, ControlAssumption
  <2>3. i[2] <= instances[i[1]]
    BY <1>3 DEF CallOld
  <2> QED
    BY <2>2, <2>3, <1>1
<1> QED
  BY <1>2, <1>3

\* A call that goes on, or ends, is as well-formed as before.
LEMMA GotoMoves ==
    ASSUME NEW c \in Calls, CallsTyped, CallOld(c), NEW at \in Places, Goto(c, at),
           FitsAt(call[c].tool, at), call[c].target \in Agents \/ at = "spawn.thread",
           ThreadsOK, ThreadsOK', InstancesGrow
    PROVE  CallMoves(c)
<1>0. /\ CallsTyped'
      /\ \A d \in Calls \ {c} : call'[d] = call[d]
      /\ call'[c].at = at /\ call'[c].tool = call[c].tool
      /\ call'[c].target = call[c].target
      /\ call'[c].todo = call[c].todo /\ call'[c].seen = call[c].seen
  BY GotoEffect
<1>1. ToolFits(c)'
  BY <1>0 DEF ToolFits
<1>2. /\ Old \subseteq Old'
      /\ \A i \in call[c].seen : i[2] <= instances'[i[1]]
  BY OldGrows
<1>3. CallOld(c)'
  BY <1>0, <1>2 DEF CallOld
<1> QED
  BY <1>0, <1>1, <1>3 DEF CallMoves, OnlyMoves

\* A call that ends is idle, and only that call moves.
LEMMA DoneMoves ==
    ASSUME NEW c \in Calls, CallsTyped, Done(c)
    PROVE  CallMoves(c)
<1>0. /\ CallsTyped'
      /\ \A d \in Calls \ {c} : call'[d] = call[d]
      /\ call'[c].at = "idle" /\ call'[c].tool = "none"
      /\ call'[c].target = Root /\ call'[c].todo = {} /\ call'[c].seen = {}
  BY DoneEffect
<1> QED
  BY <1>0 DEF CallMoves, OnlyMoves, ToolFits, FitsAt, CallOld, SpawnPlaces, InputPlaces, ResumePlaces,
      ClosePlaces, StopPlaces

\* The steps of a call that change the thread map.
ThreadOutcome(c) ==
    \/ UNCHANGED threadVars
    \/ SpawnThread(c) \/ ResumeThread(c)
    \/ ResumeLookup(c) \/ DiedRemove(c) \/ StopRemove(c)
    \/ StopSend(c)

\* Every step of a call does one of these to the threads.
LEMMA ThreadOutcomes ==
    ASSUME NEW c \in Calls, ControlStep(c)
    PROVE  ThreadOutcome(c)
<1>1. CASE SpawnReserve(c) \/ InputStart(c) \/ ResumeStart(c) \/ CloseStart(c)
  BY <1>1 DEF ThreadOutcome, SpawnReserve, InputStart, ResumeStart, CloseStart
<1>2. CASE SpawnThread(c) \/ SpawnThreadFails(c) \/ SpawnCommit(c) \/ SpawnEdge(c)
  BY <1>2 DEF ThreadOutcome, SpawnThreadFails, SpawnCommit, SpawnEdge
<1>3. CASE SendInput(c) \/ SendInputDied(c) \/ DiedRemove(c) \/ DiedRelease(c)
  BY <1>3 DEF ThreadOutcome, SendInput, SendInputDied, DiedRelease
<1>4. CASE ResumeReserve(c) \/ ResumeLimitReached(c) \/ ResumeLookup(c) \/ ResumeThread(c)
        \/ ResumeThreadFails(c)
  BY <1>4 DEF ThreadOutcome, ResumeReserve, ResumeLimitReached, ResumeThreadFails
<1>5. CASE ResumeCommit(c) \/ ResumeEdge(c) \/ ResumeCheck(c) \/ ResumeListChildren(c) \/
        ResumeChild(c) \/ ResumeReturn(c)
  BY <1>5 DEF ThreadOutcome, ResumeCommit, ResumeEdge, ResumeCheck, ResumeListChildren,
      ResumeChild, ResumeReturn
<1>6. CASE CloseEdge(c) \/ CloseEdgeFails(c) \/ CloseSnapshot(c) \/ StopFlush(c) \/
        StopFlushFails(c) \/ StopSend(c)
  BY <1>6 DEF ThreadOutcome, CloseEdge, CloseEdgeFails, CloseSnapshot, StopFlush,
      StopFlushFails
<1>7. CASE StopWait(c) \/ StopRemove(c) \/ StopRelease(c) \/ StopNext(c) \/ CloseReturn(c)
        \/ CloseReturned(c)
  BY <1>7 DEF ThreadOutcome, StopWait, StopRelease, StopNext, CloseReturn, CloseReturned
<1>8. CASE Interrupted(c) \/ OwnerEnded(c)
  BY <1>8 DEF ThreadOutcome, Interrupted, OwnerEnded, Abort
<1> QED
  BY <1>1, <1>2, <1>3, <1>4, <1>5, <1>6, <1>7, <1>8 DEF ControlStep, Start, Step

\* The steps of a call that change the edges.
EdgeOutcome(c) ==
    \/ UNCHANGED edge
    \/ SpawnEdge(c) \/ ResumeEdge(c)
    \/ CloseEdge(c)

\* Every step of a call does one of these to the spawn edges.
LEMMA EdgeOutcomes ==
    ASSUME NEW c \in Calls, ControlStep(c)
    PROVE  EdgeOutcome(c)
<1>1. CASE SpawnReserve(c) \/ InputStart(c) \/ ResumeStart(c) \/ CloseStart(c)
  BY <1>1 DEF EdgeOutcome, SpawnReserve, InputStart, ResumeStart, CloseStart
<1>2. CASE SpawnThread(c) \/ SpawnThreadFails(c) \/ SpawnCommit(c) \/ SpawnEdge(c)
  BY <1>2 DEF EdgeOutcome, SpawnThread, SpawnThreadFails, SpawnCommit
<1>3. CASE SendInput(c) \/ SendInputDied(c) \/ DiedRemove(c) \/ DiedRelease(c)
  BY <1>3 DEF EdgeOutcome, SendInput, SendInputDied, DiedRemove, DiedRelease
<1>4. CASE ResumeReserve(c) \/ ResumeLimitReached(c) \/ ResumeLookup(c) \/ ResumeThread(c)
        \/ ResumeThreadFails(c)
  BY <1>4 DEF EdgeOutcome, ResumeReserve, ResumeLimitReached, ResumeLookup, ResumeThread,
      ResumeThreadFails
<1>5. CASE ResumeCommit(c) \/ ResumeEdge(c) \/ ResumeCheck(c) \/ ResumeListChildren(c) \/
        ResumeChild(c) \/ ResumeReturn(c)
  BY <1>5 DEF EdgeOutcome, ResumeCommit, ResumeCheck, ResumeListChildren, ResumeChild,
      ResumeReturn
<1>6. CASE CloseEdge(c) \/ CloseEdgeFails(c) \/ CloseSnapshot(c) \/ StopFlush(c) \/
        StopFlushFails(c) \/ StopSend(c)
  BY <1>6 DEF EdgeOutcome, CloseEdgeFails, CloseSnapshot, StopFlush, StopFlushFails,
      StopSend
<1>7. CASE StopWait(c) \/ StopRemove(c) \/ StopRelease(c) \/ StopNext(c) \/ CloseReturn(c)
        \/ CloseReturned(c)
  BY <1>7 DEF EdgeOutcome, StopWait, StopRemove, StopRelease, StopNext, CloseReturn,
      CloseReturned
<1>8. CASE Interrupted(c) \/ OwnerEnded(c)
  BY <1>8 DEF EdgeOutcome, Interrupted, OwnerEnded, Abort
<1> QED
  BY <1>1, <1>2, <1>3, <1>4, <1>5, <1>6, <1>7, <1>8 DEF ControlStep, Start, Step

\* The steps of a call that change the registry.
RegistryOutcome(c) ==
    \/ UNCHANGED registryVars
    \/ SpawnReserve(c) \/ ResumeReserve(c)
    \/ SpawnCommit(c) \/ ResumeCommit(c)
    \/ DiedRelease(c) \/ StopRelease(c)
    \/ SpawnThreadFails(c) \/ ResumeThreadFails(c)
    \/ Abort(c) /\ Holding(c)

\* Every step of a call does one of these to the registry.
LEMMA RegistryOutcomes ==
    ASSUME NEW c \in Calls, ControlStep(c)
    PROVE  RegistryOutcome(c)
<1>1. CASE SpawnReserve(c) \/ InputStart(c) \/ ResumeStart(c) \/ CloseStart(c)
  BY <1>1 DEF RegistryOutcome, InputStart, ResumeStart, CloseStart
<1>2. CASE SpawnThread(c) \/ SpawnThreadFails(c) \/ SpawnCommit(c) \/ SpawnEdge(c)
  BY <1>2 DEF RegistryOutcome, SpawnThread, SpawnEdge
<1>3. CASE SendInput(c) \/ SendInputDied(c) \/ DiedRemove(c) \/ DiedRelease(c)
  BY <1>3 DEF RegistryOutcome, SendInput, SendInputDied, DiedRemove
<1>4. CASE ResumeReserve(c) \/ ResumeLimitReached(c) \/ ResumeLookup(c) \/ ResumeThread(c)
        \/ ResumeThreadFails(c)
  BY <1>4 DEF RegistryOutcome, ResumeLimitReached, ResumeLookup, ResumeThread
<1>5. CASE ResumeCommit(c) \/ ResumeEdge(c) \/ ResumeCheck(c) \/ ResumeListChildren(c) \/
        ResumeChild(c) \/ ResumeReturn(c)
  BY <1>5 DEF RegistryOutcome, ResumeEdge, ResumeCheck, ResumeListChildren, ResumeChild,
      ResumeReturn
<1>6. CASE CloseEdge(c) \/ CloseEdgeFails(c) \/ CloseSnapshot(c) \/ StopFlush(c) \/
        StopFlushFails(c) \/ StopSend(c)
  BY <1>6 DEF RegistryOutcome, CloseEdge, CloseEdgeFails, CloseSnapshot, StopFlush,
      StopFlushFails, StopSend
<1>7. CASE StopWait(c) \/ StopRemove(c) \/ StopRelease(c) \/ StopNext(c) \/ CloseReturn(c)
        \/ CloseReturned(c)
  BY <1>7 DEF RegistryOutcome, StopWait, StopRemove, StopNext, CloseReturn, CloseReturned
<1>8. CASE Interrupted(c) \/ OwnerEnded(c)
  BY <1>8 DEF RegistryOutcome, Interrupted, OwnerEnded, Abort
<1> QED
  BY <1>1, <1>2, <1>3, <1>4, <1>5, <1>6, <1>7, <1>8 DEF ControlStep, Start, Step

\* The agent a call is at.
LEMMA TargetOf ==
    ASSUME NEW c \in Calls, CallOld(c), call[c].at \notin {"idle", "spawn.thread"},
           ControlAssumption
    PROVE  call[c].target \in Agents /\ call[c].target \in Old
BY DEF CallOld, Old

\* A thread is loaded under its next instance.
LEMMA LoadKeeps ==
    ASSUME ThreadsOK, NEW t \in Agents, NEW by \in Agents \cup {Root}, Load(t, by)
    PROVE  ThreadsOK' /\ InstancesGrow /\ t \in Old'
<1> DEFINE n == instances[t] + 1
<1>0. /\ instances[t] \in Nat /\ MaxInstances \in Nat
      /\ n \in 1 .. MaxInstances /\ n # 0
  BY ControlAssumption DEF ThreadsOK, Load
<1>1. /\ instances' \in [Agents -> 0 .. MaxInstances]
      /\ loaded' \in [Agents -> 0 .. MaxInstances]
      /\ parent' \in [Agents -> Agents \cup {Root}]
      /\ instances'[t] = n /\ loaded'[t] = n
      /\ \A u \in Agents \ {t} : instances'[u] = instances[u] /\ loaded'[u] = loaded[u]
  BY <1>0 DEF ThreadsOK, Load
<1>2. alive' = alive \cup {<<t, n>>} /\ stopping' = stopping
  BY DEF Load
<1>3. <<t, n>> \in Instances
  BY <1>0 DEF Instances
<1>4. alive' \subseteq Instances /\ stopping' \subseteq Instances
  BY <1>2, <1>3 DEF ThreadsOK
<1>5. InstancesGrow
  BY <1>0, <1>1, ControlAssumption DEF InstancesGrow, ThreadsOK
<1>6. \A u \in Agents : loaded'[u] <= instances'[u]
  BY <1>0, <1>1 DEF ThreadsOK
<1>7. ASSUME NEW i \in alive'
      PROVE  i[2] <= instances'[i[1]]
  <2>1. CASE i = <<t, n>>
    BY <2>1, <1>0, <1>1
  <2>2. CASE i # <<t, n>>
    <3>1. i \in alive /\ i[1] \in Agents /\ i[2] \in Nat
      BY <2>2, <1>2, ControlAssumption DEF ThreadsOK, Instances
    <3>2. i[2] <= instances[i[1]] /\ instances[i[1]] \in Nat
      BY <3>1, ControlAssumption DEF ThreadsOK
    <3>3. instances[i[1]] <= instances'[i[1]] /\ instances'[i[1]] \in Nat
      BY <3>1, <1>1, <1>5, ControlAssumption DEF InstancesGrow
    <3> QED
      BY <3>1, <3>2, <3>3
  <2> QED
    BY <2>1, <2>2
<1> QED
  BY <1>0, <1>1, <1>4, <1>5, <1>6, <1>7 DEF ThreadsOK, Old

\* A thread leaves the map; its instances are not touched.
LEMMA RemoveKeeps ==
    ASSUME ThreadsOK, NEW t \in Agents, remove_thread(t)
    PROVE  /\ ThreadsOK' /\ InstancesGrow /\ instances' = instances
           /\ alive' = alive /\ stopping' = stopping
           /\ loaded'[t] = 0
           /\ \A u \in Agents \ {t} : loaded'[u] = loaded[u]
<1>0. \A u \in Agents : instances[u] \in Nat
  BY ControlAssumption DEF ThreadsOK
<1>1. /\ loaded' \in [Agents -> 0 .. MaxInstances]
      /\ parent' \in [Agents -> Agents \cup {Root}]
      /\ loaded'[t] = 0
      /\ \A u \in Agents \ {t} : loaded'[u] = loaded[u]
  BY ControlAssumption DEF ThreadsOK, remove_thread
<1>2. instances' = instances /\ alive' = alive /\ stopping' = stopping
  BY DEF remove_thread
<1>3. \A u \in Agents : loaded'[u] <= instances'[u]
  BY <1>0, <1>1, <1>2 DEF ThreadsOK
<1>4. InstancesGrow
  BY <1>0, <1>2 DEF InstancesGrow
<1> QED
  BY <1>1, <1>2, <1>3, <1>4 DEF ThreadsOK

\* Every step leaves the thread map in order.
LEMMA ThreadsStep ==
    ASSUME NEW c \in Calls, ControlBase, ControlStep(c)
    PROVE  ThreadsOK' /\ InstancesGrow
<1>i. ThreadsOK /\ CallsTyped /\ CallOld(c)
  BY DEF ControlBase
<1>r. call[c].by \in Agents \cup {Root}
  BY <1>i DEF CallsTyped, CallRecords
<1>u. ASSUME instances' = instances
      PROVE  InstancesGrow
  <2>1. \A u \in Agents : instances[u] \in Nat
    BY <1>i, ControlAssumption DEF ThreadsOK
  <2> QED
    BY <1>u, <2>1 DEF InstancesGrow
<1>1. CASE UNCHANGED threadVars
  BY <1>1, <1>i, <1>u DEF threadVars, ThreadsOK
<1>2. CASE SpawnThread(c)
  <2>1. PICK t \in Fresh : Load(t, call[c].by)
    BY <1>2 DEF SpawnThread
  <2> QED
    BY <2>1, <1>i, <1>r, LoadKeeps DEF Fresh
<1>3. CASE ResumeThread(c)
  <2>1. Load(call[c].target, call[c].by) /\ call[c].at = "resume.thread"
    BY <1>3 DEF ResumeThread, Ready, At
  <2>2. call[c].target \in Agents
    BY <2>1, <1>i, ControlAssumption, TargetOf
  <2> QED
    BY <2>1, <2>2, <1>i, <1>r, LoadKeeps
<1>4. CASE ResumeLookup(c) \/ DiedRemove(c) \/ StopRemove(c)
  <2>1. /\ call[c].at \in {"resume.lookup", "died.remove", "stop.remove"}
        /\ remove_thread(call[c].target) \/ UNCHANGED threadVars
    BY <1>4 DEF ResumeLookup, DiedRemove, StopRemove, Ready, At
  <2>2. call[c].target \in Agents
    BY <2>1, <1>i, ControlAssumption, TargetOf
  <2> QED
    BY <2>1, <2>2, <1>i, <1>1, RemoveKeeps
<1>5. CASE StopSend(c)
  <2>1. /\ UNCHANGED <<loaded, parent, instances, alive>>
        /\ call[c].at = "stop.send"
        /\ \/ stopping' = stopping
           \/ stopping' = stopping \cup {<<call[c].target, loaded[call[c].target]>>}
              /\ Running(call[c].target)
    BY <1>5 DEF StopSend, Ready, At
  <2>2. call[c].target \in Agents
    BY <2>1, <1>i, ControlAssumption, TargetOf
  <2>3. stopping' \subseteq Instances
    BY <2>1, <2>2, <1>i DEF Running, ThreadsOK
  <2> QED
    BY <2>1, <2>3, <1>i, <1>u DEF ThreadsOK
<1> QED
  BY <1>1, <1>2, <1>3, <1>4, <1>5, ThreadOutcomes DEF ThreadOutcome

\* The registry and the edges name only agents that were loaded.
LEMMA RegistryStep ==
    ASSUME NEW c \in Calls, ControlBase, ControlStep(c), ThreadsOK', InstancesGrow
    PROVE  RegistryOK'
<1>i. ThreadsOK /\ RegistryOK /\ CallsTyped /\ CallOld(c)
  BY DEF ControlBase
<1>o. Old \subseteq Old'
  BY <1>i, OldGrows
<1>m. max_threads \in Nat
  BY ControlAssumption
<1>1. CASE UNCHANGED registryVars
  BY <1>1, <1>i, <1>o DEF registryVars, RegistryOK
<1>2. CASE SpawnReserve(c) \/ ResumeReserve(c)
  <2>1. reserve_spawn_slot
    BY <1>2 DEF SpawnReserve, ResumeReserve
  <2> QED
    BY <2>1, <1>i, <1>o, <1>m DEF reserve_spawn_slot, RegistryOK
<1>3. CASE SpawnCommit(c) \/ ResumeCommit(c)
  <2>1. call[c].at \in {"spawn.commit", "resume.lifecycle"} /\ commit_agent(call[c].target)
    BY <1>3 DEF SpawnCommit, ResumeCommit, Ready, At
  <2>2. call[c].target \in Old
    BY <2>1, <1>i, ControlAssumption, TargetOf
  <2> QED
    BY <2>1, <2>2, <1>i, <1>o DEF commit_agent, RegistryOK
<1>4. CASE DiedRelease(c) \/ StopRelease(c)
  BY <1>4, <1>i, <1>o, <1>m DEF DiedRelease, StopRelease, release_agent, RegistryOK
<1>5. CASE SpawnThreadFails(c) \/ ResumeThreadFails(c) \/ (Abort(c) /\ Holding(c))
  <2>1. drop_reservation
    BY <1>5 DEF SpawnThreadFails, ResumeThreadFails, Abort
  <2> QED
    BY <2>1, <1>i, <1>o, <1>m DEF drop_reservation, RegistryOK
<1> QED
  BY <1>1, <1>2, <1>3, <1>4, <1>5, RegistryOutcomes DEF RegistryOutcome

\* The spawn edges name threads that were loaded once.
LEMMA EdgesStep ==
    ASSUME NEW c \in Calls, ControlBase, ControlStep(c), ThreadsOK', InstancesGrow
    PROVE  EdgesOK'
<1>i. ThreadsOK /\ EdgesOK /\ CallsTyped /\ CallOld(c)
  BY DEF ControlBase
<1>o. Old \subseteq Old'
  BY <1>i, OldGrows
<1>r. call[c].by \in Agents \cup {Root}
  BY <1>i DEF CallsTyped, CallRecords
<1>1. CASE UNCHANGED edge
  BY <1>1, <1>i, <1>o DEF EdgesOK
<1>2. CASE SpawnEdge(c) \/ ResumeEdge(c)
  <2>1. /\ call[c].at \in {"spawn.edge", "resume.edge"}
        /\ upsert_edge(call[c].target, call[c].by)
    BY <1>2 DEF SpawnEdge, ResumeEdge, Ready, At
  <2>2. call[c].target \in Agents /\ call[c].target \in Old
    BY <2>1, <1>i, ControlAssumption, TargetOf
  <2> QED
    BY <2>1, <2>2, <1>1, <1>i, <1>o, <1>r DEF upsert_edge, EdgesOK
<1>3. CASE CloseEdge(c)
  <2>1. call[c].at = "close.edge" /\ (SetClosed(call[c].target) \/ UNCHANGED edge)
    BY <1>3 DEF CloseEdge, Ready, At
  <2>2. call[c].target \in Agents
    BY <2>1, <1>i, ControlAssumption, TargetOf
  <2> QED
    BY <2>1, <2>2, <1>1, <1>i, <1>o DEF SetClosed, EdgesOK
<1> QED
  BY <1>1, <1>2, <1>3, EdgeOutcomes DEF EdgeOutcome

\* The bounds count calls and faults.
BoundOutcome ==
    /\ made' = made \/ (made < MaxCalls /\ made' = made + 1)
    /\ faults' = faults \/ Fault

\* Every step of a call counts as a call, as a fault or as neither.
LEMMA BoundOutcomes ==
    ASSUME NEW c \in Calls, ControlStep(c)
    PROVE  BoundOutcome
<1>1. CASE SpawnReserve(c) \/ InputStart(c) \/ ResumeStart(c) \/ CloseStart(c)
  BY <1>1 DEF BoundOutcome, MayStart, SpawnReserve, InputStart, ResumeStart, CloseStart, boundVars
<1>2. CASE SpawnThread(c) \/ SpawnThreadFails(c) \/ SpawnCommit(c) \/ SpawnEdge(c)
  BY <1>2 DEF BoundOutcome, upsert_edge, SpawnThread, SpawnThreadFails, SpawnCommit, SpawnEdge,
      boundVars
<1>3. CASE SendInput(c) \/ SendInputDied(c) \/ DiedRemove(c) \/ DiedRelease(c)
  BY <1>3 DEF BoundOutcome, SendInput, SendInputDied, DiedRemove, DiedRelease, boundVars
<1>4. CASE ResumeReserve(c) \/ ResumeLimitReached(c) \/ ResumeLookup(c) \/ ResumeThread(c)
        \/ ResumeThreadFails(c)
  BY <1>4 DEF BoundOutcome, ResumeReserve, ResumeLimitReached, ResumeLookup, ResumeThread,
      ResumeThreadFails, boundVars
<1>5. CASE ResumeCommit(c) \/ ResumeEdge(c) \/ ResumeCheck(c) \/ ResumeListChildren(c) \/
        ResumeChild(c) \/ ResumeReturn(c)
  BY <1>5 DEF BoundOutcome, upsert_edge, ResumeCommit, ResumeEdge, ResumeCheck, ResumeListChildren,
      ResumeChild, ResumeReturn, boundVars
<1>6. CASE CloseEdge(c) \/ CloseEdgeFails(c) \/ CloseSnapshot(c) \/ StopFlush(c) \/
        StopFlushFails(c) \/ StopSend(c)
  BY <1>6 DEF BoundOutcome, CloseEdge, CloseEdgeFails, CloseSnapshot, StopFlush,
      StopFlushFails, StopSend, boundVars
<1>7. CASE StopWait(c) \/ StopRemove(c) \/ StopRelease(c) \/ StopNext(c) \/ CloseReturn(c)
        \/ CloseReturned(c)
  BY <1>7 DEF BoundOutcome, StopWait, StopRemove, StopRelease, StopNext, CloseReturn,
      CloseReturned, boundVars
<1>8. CASE Interrupted(c) \/ OwnerEnded(c)
  BY <1>8 DEF BoundOutcome, Interrupted, OwnerEnded, boundVars, Abort
<1> QED
  BY <1>1, <1>2, <1>3, <1>4, <1>5, <1>6, <1>7, <1>8 DEF ControlStep, Start, Step

\* The bounds are kept.
LEMMA BoundsStep ==
    ASSUME BoundsOK, BoundOutcome
    PROVE  BoundsOK'
BY ControlAssumption DEF BoundsOK, BoundOutcome, Fault

\* The place, tool and agents of call c after the step.
NowAt(c, tool, at, target, todo) ==
    /\ call'[c].tool = tool /\ call'[c].at = at
    /\ call'[c].target = target /\ call'[c].todo = todo

\* The fields that only a resume or a close uses, after the step.
NowHas(c, top, failed, waits, seen) ==
    /\ call'[c].top = top /\ call'[c].failed = failed
    /\ call'[c].waits = waits /\ call'[c].seen = seen

\* The sessions that may make a call.
LEMMA CallersTyped ==
    ASSUME ThreadsOK, NEW o \in Callers
    PROVE  o \in Instances \cup {RootSession} /\ o[1] \in Agents \cup {Root}
BY DEF ThreadsOK, Callers, Instances, RootSession

\* The effects on the calls, of the actions that do more than go on or end.
LEMMA SpawnReserveEffect ==
    ASSUME NEW c \in Calls, ThreadsOK, CallsTyped, SpawnReserve(c)
    PROVE  OnlyMoves(c) /\ NowAt(c, "spawn", "spawn.thread", Root, {})
           /\ NowHas(c, FALSE, FALSE, 0, {})
<1>1. PICK o \in Callers : call' = [call EXCEPT ![c] =
          [Idle EXCEPT !.tool = "spawn", !.at = "spawn.thread", !.owner = o, !.by = o[1]]]
  BY DEF SpawnReserve
<1> DEFINE r == [Idle EXCEPT !.tool = "spawn", !.at = "spawn.thread", !.owner = o, !.by = o[1]]
<1>2. r \in CallRecords
  BY IdleTyped, CallersTyped DEF CallRecords, Places
<1>3. /\ CallsTyped' /\ call'[c] = r
      /\ \A d \in Calls \ {c} : call'[d] = call[d]
  BY <1>1, <1>2, CallEffect
<1>4. /\ r.tool = "spawn" /\ r.at = "spawn.thread" /\ r.target = Root /\ r.todo = {}
      /\ r.top = FALSE /\ r.failed = FALSE /\ r.waits = 0 /\ r.seen = {}
  BY DEF Idle, NoThread
<1> QED
  BY <1>3, <1>4 DEF OnlyMoves, NowAt, NowHas

\* send_input starts at its agent.
LEMMA InputStartEffect ==
    ASSUME NEW c \in Calls, ThreadsOK, CallsTyped, InputStart(c)
    PROVE  OnlyMoves(c) /\ NowHas(c, FALSE, FALSE, 0, {})
           /\ \E t \in Old : Known(t) /\ NowAt(c, "input", "input", t, {})
<1>1. PICK o \in Callers, t \in Agents :
          /\ Known(t)
          /\ call' = [call EXCEPT ![c] =
                [Idle EXCEPT !.tool = "input", !.at = "input", !.owner = o, !.target = t]]
  BY DEF InputStart
<1> DEFINE r == [Idle EXCEPT !.tool = "input", !.at = "input", !.owner = o, !.target = t]
<1>2. r \in CallRecords
  BY IdleTyped, CallersTyped DEF CallRecords, Places
<1>3. /\ CallsTyped' /\ call'[c] = r
      /\ \A d \in Calls \ {c} : call'[d] = call[d]
  BY <1>1, <1>2, CallEffect
<1>4. /\ r.tool = "input" /\ r.at = "input" /\ r.target = t /\ r.todo = {}
      /\ r.top = FALSE /\ r.failed = FALSE /\ r.waits = 0 /\ r.seen = {}
  BY DEF Idle
<1>5. t \in Old
  BY <1>1 DEF Known, Old
<1> QED
  BY <1>1, <1>3, <1>4, <1>5 DEF OnlyMoves, NowAt, NowHas

\* resume_agent starts with the reservation for the agent it names.
LEMMA ResumeStartEffect ==
    ASSUME NEW c \in Calls, ThreadsOK, CallsTyped, ResumeStart(c)
    PROVE  OnlyMoves(c) /\ NowHas(c, TRUE, FALSE, 0, {})
           /\ \E t \in Old : Known(t) /\ NowAt(c, "resume", "resume.reserve", t, {})
<1>1. PICK o \in Callers, t \in Agents :
          /\ Known(t)
          /\ call' = [call EXCEPT ![c] = [Idle EXCEPT !.tool = "resume",
                !.at = "resume.reserve", !.owner = o, !.by = o[1], !.target = t, !.top = TRUE]]
  BY DEF ResumeStart
<1> DEFINE r == [Idle EXCEPT !.tool = "resume",
                !.at = "resume.reserve", !.owner = o, !.by = o[1], !.target = t, !.top = TRUE]
<1>2. r \in CallRecords
  BY IdleTyped, CallersTyped DEF CallRecords, Places
<1>3. /\ CallsTyped' /\ call'[c] = r
      /\ \A d \in Calls \ {c} : call'[d] = call[d]
  BY <1>1, <1>2, CallEffect
<1>4. /\ r.tool = "resume" /\ r.at = "resume.reserve" /\ r.target = t /\ r.todo = {}
      /\ r.top = TRUE /\ r.failed = FALSE /\ r.waits = 0 /\ r.seen = {}
  BY DEF Idle
<1>5. t \in Old
  BY <1>1 DEF Known, Old
<1> QED
  BY <1>1, <1>3, <1>4, <1>5 DEF OnlyMoves, NowAt, NowHas

\* close_agent starts with the edge of the agent it names.
LEMMA CloseStartEffect ==
    ASSUME NEW c \in Calls, ThreadsOK, CallsTyped, CloseStart(c)
    PROVE  OnlyMoves(c) /\ NowHas(c, TRUE, FALSE, 0, {})
           /\ \E t \in Old : Known(t) /\ NowAt(c, "close", "close.edge", t, {})
<1>1. PICK o \in Callers, t \in Agents :
          /\ Known(t)
          /\ loaded[t] # 0 \/ t \in registered
          /\ call' = [call EXCEPT ![c] = [Idle EXCEPT !.tool = "close", !.at = "close.edge",
                !.owner = o, !.target = t, !.top = TRUE, !.known = t \in registered]]
  BY Zenon DEF CloseStart
<1> DEFINE k == t \in registered
<1> DEFINE r == [Idle EXCEPT !.tool = "close", !.at = "close.edge",
                !.owner = o, !.target = t, !.top = TRUE, !.known = k]
<1>2. r \in CallRecords
  <2>1. k \in BOOLEAN
    OBVIOUS
  <2> HIDE DEF k
  <2>2. Idle \in CallRecords /\ o \in Instances \cup {RootSession} /\ t \in Agents \cup {Root}
    BY IdleTyped, CallersTyped
  <2>3. "close.edge" \in Places
    BY DEF Places
  <2> QED
    BY <2>1, <2>2, <2>3 DEF CallRecords
<1>3. /\ CallsTyped' /\ call'[c] = r
      /\ \A d \in Calls \ {c} : call'[d] = call[d]
  BY <1>1, <1>2, CallEffect
<1>4. /\ r.tool = "close" /\ r.at = "close.edge" /\ r.target = t /\ r.todo = {}
      /\ r.top = TRUE /\ r.failed = FALSE /\ r.waits = 0 /\ r.seen = {}
  BY DEF Idle
<1>5. t \in Old
  BY <1>1 DEF Known, Old
<1> QED
  BY <1>1, <1>3, <1>4, <1>5 DEF OnlyMoves, NowAt, NowHas

\* A spawn goes on with the new thread it has loaded.
LEMMA SpawnThreadEffect ==
    ASSUME NEW c \in Calls, ThreadsOK, CallsTyped, ToolFits(c), SpawnThread(c)
    PROVE  /\ OnlyMoves(c) /\ call[c].at = "spawn.thread"
           /\ \E t \in Fresh : /\ NowAt(c, "spawn", "spawn.commit", t, call[c].todo)
                               /\ Load(t, call[c].by)
           /\ call'[c].seen = call[c].seen
<1>1. PICK t \in Fresh :
          /\ Load(t, call[c].by)
          /\ call' = [call EXCEPT ![c].at = "spawn.commit", ![c].target = t]
  BY DEF SpawnThread
<1>2. call[c] \in CallRecords /\ call[c].at = "spawn.thread" /\ call[c].tool = "spawn"
  BY DEF CallsTyped, SpawnThread, Ready, At, ToolFits, FitsAt, SpawnPlaces
<1> DEFINE r == [call[c] EXCEPT !.at = "spawn.commit", !.target = t]
<1>3. r \in CallRecords
  BY <1>2 DEF CallRecords, Places, Fresh
<1>4. call' = [call EXCEPT ![c] = r]
  BY <1>1 DEF CallsTyped
<1>5. /\ CallsTyped' /\ call'[c] = r
      /\ \A d \in Calls \ {c} : call'[d] = call[d]
  BY <1>3, <1>4, CallEffect
<1>6. /\ r.tool = "spawn" /\ r.at = "spawn.commit" /\ r.target = t
      /\ r.todo = call[c].todo /\ r.seen = call[c].seen
  BY <1>2 DEF CallRecords
<1> QED
  BY <1>1, <1>2, <1>5, <1>6 DEF OnlyMoves, NowAt

\* The target's failure ends a resume, a descendant's does not.
LEMMA ResumeFailedEffect ==
    ASSUME NEW c \in Calls, CallsTyped, call[c].tool = "resume", ResumeFailed(c)
    PROVE  /\ OnlyMoves(c)
           /\ \/ call'[c] = Idle
              \/ /\ ~call[c].top
                 /\ NowAt(c, "resume", "resume.next", call[c].target, call[c].todo)
                 /\ NowHas(c, FALSE, call[c].failed, call[c].waits, call[c].seen)
<1>1. call[c] \in CallRecords
  BY DEF CallsTyped
<1>2. CASE call[c].top
  BY <1>2, IdleTyped, CallEffect DEF ResumeFailed, OnlyMoves
<1>3. CASE ~call[c].top
  <2> DEFINE r == [call[c] EXCEPT !.at = "resume.next"]
  <2>1. call' = [call EXCEPT ![c] = r] /\ r \in CallRecords
    BY <1>1, <1>3 DEF ResumeFailed, CallRecords, Places
  <2>2. /\ CallsTyped' /\ call'[c] = r
        /\ \A d \in Calls \ {c} : call'[d] = call[d]
    BY <2>1, CallEffect
  <2>3. /\ r.tool = "resume" /\ r.at = "resume.next" /\ r.target = call[c].target
        /\ r.todo = call[c].todo /\ r.top = FALSE /\ r.failed = call[c].failed
        /\ r.waits = call[c].waits /\ r.seen = call[c].seen
    BY <1>1, <1>3 DEF CallRecords
  <2> QED
    BY <1>3, <2>2, <2>3 DEF OnlyMoves, NowAt, NowHas
<1> QED
  BY <1>2, <1>3

\* After the edge, the target is checked and a descendant is done.
LEMMA ResumeEdgeEffect ==
    ASSUME NEW c \in Calls, CallsTyped, ToolFits(c), CallOld(c), ResumeEdge(c)
    PROVE  /\ OnlyMoves(c) /\ call[c].at = "resume.edge"
           /\ NowAt(c, "resume", IF call[c].top THEN "resume.check" ELSE "resume.next",
                    call[c].target, call[c].todo)
           /\ NowHas(c, call[c].top, call[c].failed, call[c].waits, call[c].seen)
<1>1. /\ call[c] \in CallRecords /\ call[c].at = "resume.edge" /\ call[c].tool = "resume"
  BY DEF CallsTyped, ResumeEdge, Ready, At, ToolFits, FitsAt, ResumePlaces
<1>2. call[c].target \in Agents
  BY <1>1, ControlAssumption, TargetOf
<1> DEFINE p == IF call[c].top THEN "resume.check" ELSE "resume.next"
           q == Append(call[c].queue, call[c].target)
           r == [call[c] EXCEPT !.at = p, !.queue = q]
<1>3. p \in Places /\ q \in Seq(Agents)
  BY <1>1, <1>2 DEF CallRecords, Places
<1>4. call' = [call EXCEPT ![c] = r]
  BY DEF ResumeEdge, CallsTyped
<1> HIDE DEF p, q
<1>5. r \in CallRecords
  BY <1>1, <1>3 DEF CallRecords
<1>6. /\ CallsTyped' /\ call'[c] = r
      /\ \A d \in Calls \ {c} : call'[d] = call[d]
  BY <1>4, <1>5, CallEffect
<1>7. /\ r.tool = "resume" /\ r.at = p /\ r.target = call[c].target
      /\ r.todo = call[c].todo /\ r.top = call[c].top /\ r.failed = call[c].failed
      /\ r.waits = call[c].waits /\ r.seen = call[c].seen
  BY <1>1 DEF CallRecords
<1> QED
  BY <1>1, <1>6, <1>7 DEF OnlyMoves, NowAt, NowHas, p

\* A resume ends here, or goes on to the descendants.
LEMMA ResumeCheckEffect ==
    ASSUME NEW c \in Calls, CallsTyped, ToolFits(c), ResumeCheck(c)
    PROVE  /\ OnlyMoves(c) /\ call[c].at = "resume.check"
           /\ \/ call'[c] = Idle
              \/ /\ NowAt(c, "resume", "resume.next", call[c].target, call[c].todo)
                 /\ NowHas(c, FALSE, call[c].failed, call[c].waits, call[c].seen)
<1>1. /\ call[c] \in CallRecords /\ call[c].at = "resume.check" /\ call[c].tool = "resume"
  BY DEF CallsTyped, ResumeCheck, Ready, At, ToolFits, FitsAt, ResumePlaces
<1>2. CASE Done(c)
  BY <1>1, <1>2, DoneEffect DEF OnlyMoves
<1> DEFINE r == [call[c] EXCEPT !.at = "resume.next", !.top = FALSE]
<1>3. CASE call' = [call EXCEPT ![c].at = "resume.next", ![c].top = FALSE]
  <2>0. call' = [call EXCEPT ![c] = r]
    BY <1>3 DEF CallsTyped
  <2>1. call' = [call EXCEPT ![c] = r] /\ r \in CallRecords
    <3>1. "resume.next" \in Places
      BY DEF Places
    <3> QED
      BY <1>1, <2>0, <3>1 DEF CallRecords
  <2>2. /\ CallsTyped' /\ call'[c] = r
        /\ \A d \in Calls \ {c} : call'[d] = call[d]
    BY <2>1, CallEffect
  <2>3. /\ r.tool = "resume" /\ r.at = "resume.next" /\ r.target = call[c].target
        /\ r.todo = call[c].todo /\ r.top = FALSE /\ r.failed = call[c].failed
        /\ r.waits = call[c].waits /\ r.seen = call[c].seen
    BY <1>1 DEF CallRecords
  <2> QED
    BY <1>1, <2>2, <2>3 DEF OnlyMoves, NowAt, NowHas
<1> QED
  BY <1>2, <1>3 DEF ResumeCheck

\* The agents a resume goes on to have open edges.
LEMMA ResumeListChildrenEffect ==
    ASSUME NEW c \in Calls, CallsTyped, ToolFits(c), ResumeListChildren(c)
    PROVE  /\ OnlyMoves(c) /\ call[c].at = "resume.next"
           /\ \E S : /\ \A t \in S : t \in Agents /\ edge[t].status = "Open"
                     /\ NowAt(c, "resume", "resume.next", call[c].target, S)
           /\ NowHas(c, call[c].top, call[c].failed, call[c].waits, call[c].seen)
<1>1. /\ call[c] \in CallRecords /\ call[c].at = "resume.next" /\ call[c].tool = "resume"
      /\ call[c].queue # <<>>
  BY DEF CallsTyped, ResumeListChildren, Ready, At, ToolFits, FitsAt, ResumePlaces
<1>s. PICK S \in {OpenChildren(Head(call[c].queue)), {}} :
        call' = [call EXCEPT ![c].todo = S, ![c].by = Head(call[c].queue), ![c].queue = Tail(@)]
  BY DEF ResumeListChildren
<1> DEFINE h == Head(call[c].queue)
           q == Tail(call[c].queue)
           r == [call[c] EXCEPT !.todo = S, !.by = h, !.queue = q]
<1>2. h \in Agents /\ q \in Seq(Agents) /\ S \in SUBSET Agents
  BY <1>1, <1>s DEF CallRecords, OpenChildren
<1>3. \A t \in S : t \in Agents /\ edge[t].status = "Open"
  BY <1>s DEF OpenChildren
<1>4. call' = [call EXCEPT ![c] = r]
  BY <1>s DEF CallsTyped
<1> HIDE DEF h, q
<1>5. r \in CallRecords
  BY <1>1, <1>2 DEF CallRecords
<1>6. /\ CallsTyped' /\ call'[c] = r
      /\ \A d \in Calls \ {c} : call'[d] = call[d]
  BY <1>4, <1>5, CallEffect
<1>7. /\ r.tool = "resume" /\ r.at = "resume.next" /\ r.target = call[c].target
      /\ r.todo = S /\ r.top = call[c].top /\ r.failed = call[c].failed
      /\ r.waits = call[c].waits /\ r.seen = call[c].seen
  BY <1>1 DEF CallRecords
<1> QED
  BY <1>1, <1>3, <1>6, <1>7 DEF OnlyMoves, NowAt, NowHas

\* A resume takes one of the children it has listed.
LEMMA ResumeChildEffect ==
    ASSUME NEW c \in Calls, CallsTyped, ToolFits(c), ResumeChild(c)
    PROVE  /\ OnlyMoves(c) /\ call[c].at = "resume.next"
           /\ \E t \in call[c].todo, at \in {"resume.next", "resume.reserve"} :
                 NowAt(c, "resume", at, t, call[c].todo \ {t})
           /\ NowHas(c, call[c].top, call[c].failed, call[c].waits, call[c].seen)
<1>1. /\ call[c] \in CallRecords /\ call[c].at = "resume.next" /\ call[c].tool = "resume"
  BY DEF CallsTyped, ResumeChild, Ready, At, ToolFits, FitsAt, ResumePlaces
<1>2. PICK t \in call[c].todo :
          call' = [call EXCEPT ![c].todo = @ \ {t}, ![c].target = t,
                ![c].queue = IF loaded[t] # 0 THEN Append(@, t) ELSE @,
                ![c].at = IF loaded[t] # 0 THEN "resume.next" ELSE "resume.reserve"]
  BY DEF ResumeChild
<1> DEFINE S == call[c].todo \ {t}
           q == IF loaded[t] # 0 THEN Append(call[c].queue, t) ELSE call[c].queue
           p == IF loaded[t] # 0 THEN "resume.next" ELSE "resume.reserve"
           r == [call[c] EXCEPT !.todo = S, !.target = t, !.queue = q, !.at = p]
<1>3. call[c].todo \in SUBSET Agents /\ t \in Agents
  BY <1>1 DEF CallRecords
<1>4. q \in Seq(Agents) /\ p \in {"resume.next", "resume.reserve"} /\ p \in Places
  BY <1>1, <1>3 DEF CallRecords, Places
<1>5. call' = [call EXCEPT ![c] = r]
  BY <1>2 DEF CallsTyped
<1> HIDE DEF q, p
<1>6. r \in CallRecords
  BY <1>1, <1>3, <1>4 DEF CallRecords
<1>7. /\ CallsTyped' /\ call'[c] = r
      /\ \A d \in Calls \ {c} : call'[d] = call[d]
  BY <1>5, <1>6, CallEffect
<1>8. /\ r.tool = "resume" /\ r.at = p /\ r.target = t
      /\ r.todo = S /\ r.top = call[c].top /\ r.failed = call[c].failed
      /\ r.waits = call[c].waits /\ r.seen = call[c].seen
  BY <1>1 DEF CallRecords
<1> QED
  BY <1>1, <1>4, <1>7, <1>8 DEF OnlyMoves, NowAt, NowHas

\* Only loaded threads are descendants.
LEMMA DescendantsLoaded ==
    ASSUME NEW t \in Agents, NEW u \in live_thread_spawn_descendants(t)
    PROVE  u \in Agents /\ loaded[u] # 0
<1> DEFINE D == {v \in Agents : loaded[v] # 0}
<1>1. LiveChildren({t} \cup D) \subseteq D
  BY DEF LiveChildren
<1>2. D \in SUBSET Agents
  OBVIOUS
<1> QED
  BY <1>1, <1>2 DEF live_thread_spawn_descendants

\* The instances a close will stop.
Snapshot(t) == {<<u, loaded[u]>> : u \in live_thread_spawn_descendants(t) \cup {t}}

\* A close stops its target first and has the descendants still to do.
LEMMA CloseSnapshotEffect ==
    ASSUME NEW c \in Calls, ThreadsOK, CallsTyped, ToolFits(c), CallOld(c), CloseSnapshot(c)
    PROVE  /\ OnlyMoves(c) /\ call[c].at = "close.snapshot"
           /\ NowAt(c, "close", "stop.flush", call[c].target,
                    live_thread_spawn_descendants(call[c].target))
           /\ NowHas(c, call[c].top, call[c].failed, call[c].waits, Snapshot(call[c].target))
<1>1. call[c] \in CallRecords /\ call[c].at = "close.snapshot" /\ call[c].tool = "close"
  BY DEF CallsTyped, CloseSnapshot, Ready, At, ToolFits, FitsAt, ClosePlaces
<1>2. call[c].target \in Agents
  BY <1>1, ControlAssumption, TargetOf
<1> DEFINE S == live_thread_spawn_descendants(call[c].target)
           P == Snapshot(call[c].target)
           r == [call[c] EXCEPT !.at = "stop.flush", !.todo = S, !.seen = P]
<1>3. S \in SUBSET Agents
  BY <1>2, DescendantsLoaded
<1>4. P \in SUBSET (Agents \X (0 .. MaxInstances))
  BY <1>2, <1>3 DEF Snapshot, ThreadsOK
<1>5. call' = [call EXCEPT ![c] = r]
  BY DEF CloseSnapshot, CallsTyped, Snapshot
<1> HIDE DEF S, P
<1>6. r \in CallRecords
  BY <1>1, <1>3, <1>4 DEF CallRecords, Places
<1>7. /\ CallsTyped' /\ call'[c] = r
      /\ \A d \in Calls \ {c} : call'[d] = call[d]
  BY <1>5, <1>6, CallEffect
<1>8. /\ r.tool = "close" /\ r.at = "stop.flush" /\ r.target = call[c].target
      /\ r.todo = S /\ r.top = call[c].top /\ r.failed = call[c].failed
      /\ r.waits = call[c].waits /\ r.seen = P
  BY <1>1 DEF CallRecords
<1> QED
  BY <1>1, <1>7, <1>8 DEF OnlyMoves, NowAt, NowHas, S, P

\* A close waits for the instance it found.
LEMMA StopFlushEffect ==
    ASSUME NEW c \in Calls, ThreadsOK, CallsTyped, ToolFits(c), CallOld(c), StopFlush(c)
    PROVE  /\ OnlyMoves(c) /\ call[c].at = "stop.flush"
           /\ NowAt(c, "close", "stop.send", call[c].target, call[c].todo)
           /\ NowHas(c, call[c].top, call[c].failed, loaded[call[c].target], call[c].seen)
<1>1. call[c] \in CallRecords /\ call[c].at = "stop.flush" /\ call[c].tool = "close"
  BY DEF CallsTyped, StopFlush, Ready, At, ToolFits, FitsAt, ClosePlaces, StopPlaces
<1>2. call[c].target \in Agents
  BY <1>1, ControlAssumption, TargetOf
<1> DEFINE n == loaded[call[c].target]
           p == "stop.send"
           r == [call[c] EXCEPT !.waits = n, !.at = p]
<1>3. n \in 0 .. MaxInstances /\ p \in Places
  BY <1>2 DEF ThreadsOK, Places
<1>4. call' = [call EXCEPT ![c] = r]
  BY DEF StopFlush, CallsTyped
<1> HIDE DEF n, p
<1>5. r \in CallRecords
  BY <1>1, <1>3 DEF CallRecords
<1>6. /\ CallsTyped' /\ call'[c] = r
      /\ \A d \in Calls \ {c} : call'[d] = call[d]
  BY <1>4, <1>5, CallEffect
<1>7. /\ r.tool = "close" /\ r.at = p /\ r.target = call[c].target
      /\ r.todo = call[c].todo /\ r.top = call[c].top /\ r.failed = call[c].failed
      /\ r.waits = n /\ r.seen = call[c].seen
  BY <1>1 DEF CallRecords
<1> QED
  BY <1>1, <1>6, <1>7 DEF OnlyMoves, NowAt, NowHas, n, p

\* A descendant's failure ends a close, the root's is kept.
LEMMA StopFlushFailsEffect ==
    ASSUME NEW c \in Calls, CallsTyped, ToolFits(c), StopFlushFails(c)
    PROVE  /\ OnlyMoves(c) /\ call[c].at = "stop.flush"
           /\ \/ call'[c] = Idle
              \/ /\ NowAt(c, "close", "stop.next", call[c].target, call[c].todo)
                 /\ NowHas(c, FALSE, TRUE, call[c].waits, call[c].seen)
<1>1. call[c] \in CallRecords /\ call[c].at = "stop.flush" /\ call[c].tool = "close"
  BY DEF CallsTyped, StopFlushFails, Ready, At, ToolFits, FitsAt, ClosePlaces, StopPlaces
<1>2. CASE Done(c)
  BY <1>1, <1>2, DoneEffect DEF OnlyMoves
<1> DEFINE r == [call[c] EXCEPT !.at = "stop.next", !.failed = TRUE, !.top = FALSE]
<1>3. CASE call' = [call EXCEPT ![c].at = "stop.next", ![c].failed = TRUE, ![c].top = FALSE]
  <2>0. call' = [call EXCEPT ![c] = r]
    BY <1>3 DEF CallsTyped
  <2>1. call' = [call EXCEPT ![c] = r] /\ r \in CallRecords
    <3>1. "stop.next" \in Places
      BY DEF Places
    <3> QED
      BY <1>1, <2>0, <3>1 DEF CallRecords
  <2>2. /\ CallsTyped' /\ call'[c] = r
        /\ \A d \in Calls \ {c} : call'[d] = call[d]
    BY <2>1, CallEffect
  <2>3. /\ r.tool = "close" /\ r.at = "stop.next" /\ r.target = call[c].target
        /\ r.todo = call[c].todo /\ r.top = FALSE /\ r.failed = TRUE
        /\ r.waits = call[c].waits /\ r.seen = call[c].seen
    BY <1>1 DEF CallRecords
  <2> QED
    BY <1>1, <2>2, <2>3 DEF OnlyMoves, NowAt, NowHas
<1> QED
  BY <1>2, <1>3 DEF StopFlushFails

\* One agent is stopped.
LEMMA StopReleaseEffect ==
    ASSUME NEW c \in Calls, CallsTyped, ToolFits(c), StopRelease(c)
    PROVE  /\ OnlyMoves(c) /\ call[c].at = "stop.release"
           /\ NowAt(c, "close", "stop.next", call[c].target, call[c].todo)
           /\ NowHas(c, FALSE, call[c].failed, 0, call[c].seen)
<1>1. call[c] \in CallRecords /\ call[c].at = "stop.release" /\ call[c].tool = "close"
  BY DEF CallsTyped, StopRelease, Ready, At, ToolFits, FitsAt, ClosePlaces, StopPlaces
<1> DEFINE r == [call[c] EXCEPT !.at = "stop.next", !.top = FALSE, !.waits = 0]
<1>2. call' = [call EXCEPT ![c] = r]
  BY DEF StopRelease, CallsTyped
<1>n. r \in CallRecords
  <2>1. 0 \in 0 .. MaxInstances
    BY ControlAssumption
  <2> QED
    BY <1>1, <2>1 DEF CallRecords, Places
<1>3. /\ CallsTyped' /\ call'[c] = r
      /\ \A d \in Calls \ {c} : call'[d] = call[d]
  BY <1>2, <1>n, CallEffect
<1>4. /\ r.tool = "close" /\ r.at = "stop.next" /\ r.target = call[c].target
      /\ r.todo = call[c].todo /\ r.top = FALSE /\ r.failed = call[c].failed
      /\ r.waits = 0 /\ r.seen = call[c].seen
  BY <1>1 DEF CallRecords
<1> QED
  BY <1>1, <1>3, <1>4 DEF OnlyMoves, NowAt, NowHas

\* A close takes one of the agents it has still to stop.
LEMMA StopNextEffect ==
    ASSUME NEW c \in Calls, CallsTyped, ToolFits(c), StopNext(c)
    PROVE  /\ OnlyMoves(c) /\ call[c].at = "stop.next"
           /\ \E t \in call[c].todo : NowAt(c, "close", "stop.flush", t, call[c].todo \ {t})
           /\ NowHas(c, call[c].top, call[c].failed, call[c].waits, call[c].seen)
<1>1. call[c] \in CallRecords /\ call[c].at = "stop.next" /\ call[c].tool = "close"
  BY DEF CallsTyped, StopNext, Ready, At, ToolFits, FitsAt, ClosePlaces, StopPlaces
<1>2. PICK t \in call[c].todo :
          call' = [call EXCEPT ![c].at = "stop.flush", ![c].target = t, ![c].todo = @ \ {t}]
  BY DEF StopNext
<1> DEFINE S == call[c].todo \ {t}
           r == [call[c] EXCEPT !.at = "stop.flush", !.target = t, !.todo = S]
<1>3. call[c].todo \in SUBSET Agents /\ t \in Agents
  BY <1>1 DEF CallRecords
<1>4. call' = [call EXCEPT ![c] = r] /\ r \in CallRecords
  BY <1>1, <1>2, <1>3 DEF CallsTyped, CallRecords, Places
<1>5. /\ CallsTyped' /\ call'[c] = r
      /\ \A d \in Calls \ {c} : call'[d] = call[d]
  BY <1>4, CallEffect
<1>6. /\ r.tool = "close" /\ r.at = "stop.flush" /\ r.target = t
      /\ r.todo = S /\ r.top = call[c].top /\ r.failed = call[c].failed
      /\ r.waits = call[c].waits /\ r.seen = call[c].seen
  BY <1>1 DEF CallRecords
<1> QED
  BY <1>1, <1>5, <1>6 DEF OnlyMoves, NowAt, NowHas

\* A call is well-formed after a step if its new fields are.
LEMMA NowMoves ==
    ASSUME NEW c \in Calls, OnlyMoves(c),
           NEW tool, NEW at, NEW t, NEW S, NowAt(c, tool, at, t, S), FitsAt(tool, at),
           t \in Old' \cup {Root}, t \in Agents \/ at = "spawn.thread",
           S \subseteq Old', \A i \in call'[c].seen : i[2] <= instances'[i[1]]
    PROVE  CallMoves(c)
BY DEF NowAt, CallMoves, ToolFits, CallOld

\* Each step moves one call, and leaves it well-formed.
LEMMA CallStep ==
    ASSUME NEW c \in Calls, ControlBase, ControlStep(c), ThreadsOK', InstancesGrow
    PROVE  CallMoves(c)
<1>i. ThreadsOK /\ EdgesOK /\ CallsTyped /\ ToolFits(c) /\ CallOld(c)
  BY DEF ControlBase
<1>o. /\ Old \subseteq Old' /\ Old' \subseteq Agents
      /\ \A i \in call[c].seen : i[2] <= instances'[i[1]]
  BY <1>i, OldGrows DEF Old
<1>t. /\ call[c].target \in Old' \cup {Root} /\ call[c].todo \subseteq Old'
      /\ call[c].at \notin {"idle", "spawn.thread"} => call[c].target \in Agents
  BY <1>i, <1>o DEF CallOld
<1>g. ASSUME NEW at \in Places \ {"idle", "spawn.thread"}, Goto(c, at),
             FitsAt(call[c].tool, at), call[c].at \notin {"idle", "spawn.thread"}
      PROVE  CallMoves(c)
  BY <1>g, <1>i, <1>t, GotoMoves
<1>d. ASSUME Done(c)
      PROVE  CallMoves(c)
  BY <1>d, <1>i, DoneMoves
<1>e. ASSUME call'[c] = Idle, OnlyMoves(c)
      PROVE  CallMoves(c)
  BY <1>e DEF CallMoves, Idle, NoThread, ToolFits, FitsAt, CallOld, SpawnPlaces, InputPlaces,
      ResumePlaces, ClosePlaces, StopPlaces
<1> USE DEF Ready, At
<1>1. CASE SendInput(c) \/ DiedRelease(c) \/ SpawnThreadFails(c) \/ ResumeReturn(c)
        \/ CloseReturned(c) \/ Interrupted(c) \/ OwnerEnded(c)
  BY <1>1, <1>d DEF SendInput, DiedRelease, SpawnThreadFails, ResumeReturn, CloseReturned,
      Interrupted, OwnerEnded, Abort
<1>2. CASE SendInputDied(c) \/ DiedRemove(c) \/ SpawnCommit(c) \/ SpawnEdge(c)
  <2>1. \/ call[c].at = "input" /\ Goto(c, "died.remove")
        \/ call[c].at = "died.remove" /\ Goto(c, "died.release")
        \/ call[c].at = "spawn.commit" /\ Goto(c, "spawn.edge")
        \/ call[c].at = "spawn.edge" /\ Goto(c, "input")
    BY <1>2 DEF SendInputDied, DiedRemove, SpawnCommit, SpawnEdge
  <2> QED
    BY <2>1, <1>g, <1>i DEF ToolFits, FitsAt, Places, SpawnPlaces, InputPlaces, ResumePlaces,
        ClosePlaces, StopPlaces
<1>3. CASE ResumeReserve(c) \/ ResumeLookup(c) \/ ResumeThread(c) \/ ResumeCommit(c)
  <2>1. \/ call[c].at = "resume.reserve" /\ Goto(c, "resume.lookup")
        \/ call[c].at = "resume.lookup" /\ Goto(c, "resume.lifecycle")
        \/ call[c].at = "resume.lookup" /\ Goto(c, "resume.thread")
        \/ call[c].at = "resume.thread" /\ Goto(c, "resume.lifecycle")
        \/ call[c].at = "resume.lifecycle" /\ Goto(c, "resume.edge")
    BY <1>3 DEF ResumeReserve, ResumeLookup, ResumeThread, ResumeCommit
  <2> QED
    BY <2>1, <1>g, <1>i DEF ToolFits, FitsAt, Places, SpawnPlaces, InputPlaces, ResumePlaces,
        ClosePlaces, StopPlaces
<1>4. CASE CloseEdge(c) \/ CloseEdgeFails(c) \/ StopSend(c) \/ StopWait(c) \/ StopRemove(c)
        \/ CloseReturn(c)
  <2>1. \/ Done(c)
        \/ call[c].at = "close.edge" /\ Goto(c, "close.snapshot")
        \/ call[c].at = "stop.send" /\ Goto(c, "stop.wait")
        \/ call[c].at = "stop.wait" /\ Goto(c, "stop.remove")
        \/ call[c].at = "stop.remove" /\ Goto(c, "stop.release")
        \/ call[c].at = "stop.next" /\ Goto(c, "closed")
    BY <1>4 DEF CloseEdge, CloseEdgeFails, StopSend, StopWait, StopRemove, CloseReturn
  <2> QED
    BY <2>1, <1>d, <1>g, <1>i DEF ToolFits, FitsAt, Places, SpawnPlaces, InputPlaces,
        ResumePlaces, ClosePlaces, StopPlaces
<1>5. CASE SpawnReserve(c) \/ SpawnThread(c)
  <2>1. CASE SpawnReserve(c)
    <3>1. /\ OnlyMoves(c) /\ NowAt(c, "spawn", "spawn.thread", Root, {})
          /\ NowHas(c, FALSE, FALSE, 0, {})
      BY <2>1, <1>i, SpawnReserveEffect
    <3> QED
      BY <3>1, NowMoves DEF NowHas, FitsAt, SpawnPlaces, InputPlaces, ResumePlaces,
          ClosePlaces, StopPlaces
  <2>2. CASE SpawnThread(c)
    <3>1. PICK t \in Fresh : /\ NowAt(c, "spawn", "spawn.commit", t, call[c].todo)
                             /\ Load(t, call[c].by)
      BY <2>2, <1>i, SpawnThreadEffect
    <3>2. OnlyMoves(c) /\ call'[c].seen = call[c].seen
      BY <2>2, <1>i, SpawnThreadEffect
    <3>3. call[c].by \in Agents \cup {Root} /\ t \in Agents
      BY <1>i DEF CallsTyped, CallRecords, Fresh
    <3>4. t \in Old'
      BY <3>1, <3>3, <1>i, LoadKeeps
    <3>5. FitsAt("spawn", "spawn.commit")
      BY DEF FitsAt, SpawnPlaces, InputPlaces, ResumePlaces, ClosePlaces, StopPlaces
    <3> QED
      BY <3>1, <3>2, <3>3, <3>4, <3>5, <1>o, <1>t, NowMoves
  <2> QED
    BY <1>5, <2>1, <2>2
<1>6. CASE InputStart(c) \/ ResumeStart(c) \/ CloseStart(c)
  <2>1. /\ OnlyMoves(c) /\ call'[c].seen = {}
        /\ \E t \in Old : \/ NowAt(c, "input", "input", t, {})
                          \/ NowAt(c, "resume", "resume.reserve", t, {})
                          \/ NowAt(c, "close", "close.edge", t, {})
    BY <1>6, <1>i, InputStartEffect, ResumeStartEffect, CloseStartEffect DEF NowHas
  <2>2. /\ FitsAt("input", "input") /\ FitsAt("resume", "resume.reserve")
        /\ FitsAt("close", "close.edge")
    BY DEF FitsAt, SpawnPlaces, InputPlaces, ResumePlaces, ClosePlaces, StopPlaces
  <2> QED
    BY <2>1, <2>2, <1>o, NowMoves
<1>f. /\ FitsAt("resume", "resume.next") /\ FitsAt("resume", "resume.check")
      /\ FitsAt("resume", "resume.reserve") /\ FitsAt("close", "stop.flush")
      /\ FitsAt("close", "stop.send") /\ FitsAt("close", "stop.remove")
      /\ FitsAt("close", "stop.next")
  BY DEF FitsAt, SpawnPlaces, InputPlaces, ResumePlaces, ClosePlaces, StopPlaces
<1>7. CASE ResumeLimitReached(c) \/ ResumeThreadFails(c)
  <2>1. /\ call[c].at \in {"resume.reserve", "resume.thread"} /\ ResumeFailed(c)
    BY <1>7 DEF ResumeLimitReached, ResumeThreadFails
  <2>2. call[c].tool = "resume"
    BY <2>1, <1>i DEF ToolFits, FitsAt, ResumePlaces
  <2>3. /\ OnlyMoves(c)
        /\ \/ call'[c] = Idle
           \/ /\ NowAt(c, "resume", "resume.next", call[c].target, call[c].todo)
              /\ call'[c].seen = call[c].seen
    BY <2>1, <2>2, <1>i, ResumeFailedEffect DEF NowHas
  <2> QED
    BY <2>1, <2>3, <1>e, <1>f, <1>o, <1>t, NowMoves
<1>8. CASE ResumeEdge(c) \/ ResumeCheck(c)
  <2>1. /\ OnlyMoves(c) /\ call[c].at \in {"resume.edge", "resume.check"}
        /\ \/ call'[c] = Idle
           \/ /\ \E at \in {"resume.next", "resume.check"} :
                    NowAt(c, "resume", at, call[c].target, call[c].todo)
              /\ call'[c].seen = call[c].seen
    BY <1>8, <1>i, ResumeEdgeEffect, ResumeCheckEffect DEF NowHas
  <2> QED
    BY <2>1, <1>e, <1>f, <1>o, <1>t, NowMoves
<1>9. CASE ResumeListChildren(c) \/ ResumeChild(c)
  <2>1. CASE ResumeListChildren(c)
    <3>1. PICK S : /\ \A t \in S : t \in Agents /\ edge[t].status = "Open"
                   /\ NowAt(c, "resume", "resume.next", call[c].target, S)
      BY <2>1, <1>i, ResumeListChildrenEffect
    <3>2. OnlyMoves(c) /\ call[c].at = "resume.next" /\ call'[c].seen = call[c].seen
      BY <2>1, <1>i, ResumeListChildrenEffect DEF NowHas
    <3>3. S \subseteq Old'
      BY <3>1, <1>i, <1>o DEF EdgesOK
    <3> QED
      BY <3>1, <3>2, <3>3, <1>f, <1>o, <1>t, NowMoves
  <2>2. CASE ResumeChild(c)
    <3>1. /\ OnlyMoves(c) /\ call'[c].seen = call[c].seen
          /\ \E t \in call[c].todo, at \in {"resume.next", "resume.reserve"} :
                NowAt(c, "resume", at, t, call[c].todo \ {t})
      BY <2>2, <1>i, ResumeChildEffect DEF NowHas
    <3> QED
      BY <3>1, <1>f, <1>o, <1>t, NowMoves
  <2> QED
    BY <1>9, <2>1, <2>2
<1>10. CASE CloseSnapshot(c)
  <2> DEFINE S == live_thread_spawn_descendants(call[c].target)
  <2>1. /\ OnlyMoves(c) /\ call[c].at = "close.snapshot"
        /\ NowAt(c, "close", "stop.flush", call[c].target, S)
        /\ call'[c].seen = Snapshot(call[c].target)
    BY <1>10, <1>i, CloseSnapshotEffect DEF NowHas
  <2>2. call[c].target \in Agents
    BY <2>1, <1>t
  <2>3. \A u \in S : u \in Agents /\ loaded[u] # 0
    BY <2>2, DescendantsLoaded
  <2>4. \A u \in Agents : /\ loaded[u] \in Nat /\ instances[u] \in Nat /\ instances'[u] \in Nat
                          /\ loaded[u] <= instances[u] /\ instances[u] <= instances'[u]
    BY <1>i, ControlAssumption DEF ThreadsOK, InstancesGrow
  <2>5. S \subseteq Old'
    BY <2>3, <2>4, <1>o DEF Old
  <2>6. \A i \in call'[c].seen : i[2] <= instances'[i[1]]
    <3>1. \A u \in S \cup {call[c].target} : loaded[u] <= instances'[u]
      BY <2>2, <2>3, <2>4
    <3> QED
      BY <2>1, <3>1 DEF Snapshot
  <2> QED
    BY <2>1, <2>2, <2>5, <2>6, <1>f, <1>t, NowMoves
<1>11. CASE StopFlush(c) \/ StopFlushFails(c) \/ StopRelease(c)
  <2>1. /\ OnlyMoves(c) /\ call[c].at \in {"stop.flush", "stop.release"}
        /\ \/ call'[c] = Idle
           \/ /\ \E at \in {"stop.remove", "stop.send", "stop.next"} :
                    NowAt(c, "close", at, call[c].target, call[c].todo)
              /\ call'[c].seen = call[c].seen
    BY <1>11, <1>i, StopFlushEffect, StopFlushFailsEffect, StopReleaseEffect DEF NowHas
  <2> QED
    BY <2>1, <1>e, <1>f, <1>o, <1>t, NowMoves
<1>12. CASE StopNext(c)
  <2>1. /\ OnlyMoves(c) /\ call'[c].seen = call[c].seen
        /\ \E t \in call[c].todo : NowAt(c, "close", "stop.flush", t, call[c].todo \ {t})
    BY <1>12, <1>i, StopNextEffect DEF NowHas
  <2> QED
    BY <2>1, <1>f, <1>o, <1>t, NowMoves
<1> QED
  BY <1>1, <1>2, <1>3, <1>4, <1>5, <1>6, <1>7, <1>8, <1>9, <1>10, <1>11, <1>12
     DEF ControlStep, Start, Step

\* Only a new thread brings a call to its commit, and no step makes a call know the
\* agent t that another call is about to commit.
LEMMA StrangerStep ==
    ASSUME NEW c \in Calls, ControlBase, ControlStep(c)
    PROVE  /\ SpawnThread(c) \/ call'[c].at # "spawn.commit"
           /\ \A e \in Calls \ {c} : At(e, "spawn.commit") => Stranger(c, call[e].target)'
<1>i. ThreadsOK /\ EdgesOK /\ CallsTyped /\ ToolFits(c) /\ CallOld(c)
  BY DEF ControlBase
<1> DEFINE New(t) ==
        \E e \in Calls \ {c} : At(e, "spawn.commit") /\ call[e].target = t
           MovesTo(tool, target, todo) ==
             /\ call'[c].tool = tool /\ call'[c].at # "spawn.commit"
             /\ call'[c].target = target /\ call'[c].todo = todo
           Goal == /\ SpawnThread(c) \/ call'[c].at # "spawn.commit"
                   /\ \A t : New(t) =>
                         /\ call'[c].tool = "spawn" => call'[c].target # t
                         /\ call'[c].tool = "resume" =>
                               call'[c].target # t /\ t \notin call'[c].todo
<1>n. ASSUME NEW t, New(t)
      PROVE  /\ t \in Old /\ t # Root /\ edge[t].status = "none" /\ Stranger(c, t)
             /\ ~Known(t)
  <2>1. PICK e \in Calls \ {c} : At(e, "spawn.commit") /\ call[e].target = t
    BY <1>n
  <2>2. /\ SpawnedIsNew(e) /\ CallOld(e) /\ ToolFits(e)
    BY DEF ControlBase
  <2>3. call[e].at = "spawn.commit" /\ call[e].tool = "spawn"
    BY <2>1, <2>2 DEF At, ToolFits, FitsAt, SpawnPlaces
  <2>4. t \in Agents /\ t \in Old
    BY <2>1, <2>2, <2>3, ControlAssumption, TargetOf
  <2> QED
    BY <2>1, <2>2, <2>3, <2>4, ControlAssumption DEF SpawnedIsNew, Known
<1>k. ASSUME MovesTo(call[c].tool, call[c].target, call[c].todo)
      PROVE  Goal
  BY <1>k, <1>n DEF Stranger
<1>v. ASSUME call'[c].tool \notin {"spawn", "resume"}, call'[c].at # "spawn.commit"
      PROVE  Goal
  BY <1>v DEF Stranger
<1>d. ASSUME call'[c] = Idle
      PROVE  Goal
  BY <1>d, <1>v DEF Idle
<1>g. ASSUME NEW at \in Places \ {"spawn.commit"}, Goto(c, at)
      PROVE  Goal
  <2>0. at \in Places /\ at # "spawn.commit"
    OBVIOUS
  <2>1. /\ call'[c].at = at /\ call'[c].tool = call[c].tool
        /\ call'[c].target = call[c].target /\ call'[c].todo = call[c].todo
    BY <2>0, <1>g, <1>i, GotoEffect
  <2> QED
    BY <2>0, <2>1, <1>k
<1>s. SUFFICES Goal
  <2>1. OnlyMoves(c)
    <3>1. ThreadsOK' /\ InstancesGrow
      BY ThreadsStep
    <3> QED
      BY <3>1, CallStep DEF CallMoves
  <2>2. ASSUME NEW e \in Calls \ {c}, At(e, "spawn.commit"), Goal
        PROVE  Stranger(c, call[e].target)'
    <3>1. New(call[e].target) /\ call'[e] = call[e]
      BY <2>1, <2>2 DEF OnlyMoves
    <3>2. Stranger(c, call[e].target)' <=>
            /\ call'[c].tool = "spawn" => call'[c].target # call[e].target
            /\ call'[c].tool = "resume" =>
                  call'[c].target # call[e].target /\ call[e].target \notin call'[c].todo
      BY <3>1 DEF Stranger
    <3> QED
      BY <3>1, <3>2, <2>2
  <2> QED
    BY <2>2
<1> HIDE DEF MovesTo, Goal, New
<1> USE DEF Ready, At
<1>1. CASE SendInput(c) \/ DiedRelease(c) \/ SpawnThreadFails(c) \/ ResumeReturn(c)
        \/ CloseReturned(c) \/ Interrupted(c) \/ OwnerEnded(c)
  <2>1. Done(c)
    BY <1>1 DEF SendInput, DiedRelease, SpawnThreadFails, ResumeReturn, CloseReturned,
        Interrupted, OwnerEnded, Abort
  <2> QED
    BY <2>1, <1>d, <1>i, DoneEffect
<1>2. CASE SendInputDied(c) \/ DiedRemove(c) \/ SpawnCommit(c) \/ SpawnEdge(c)
  <2>1. \E at \in {"died.remove", "died.release", "spawn.edge", "input"} : Goto(c, at)
    BY <1>2 DEF SendInputDied, DiedRemove, SpawnCommit, SpawnEdge
  <2> QED
    BY <2>1, <1>g DEF Places
<1>3. CASE ResumeReserve(c) \/ ResumeLookup(c) \/ ResumeThread(c) \/ ResumeCommit(c)
  <2>1. \E at \in {"resume.lookup", "resume.lifecycle", "resume.thread", "resume.edge"} :
           Goto(c, at)
    BY <1>3 DEF ResumeReserve, ResumeLookup, ResumeThread, ResumeCommit
  <2> QED
    BY <2>1, <1>g DEF Places
<1>4. CASE CloseEdge(c) \/ CloseEdgeFails(c) \/ StopSend(c) \/ StopWait(c) \/ StopRemove(c)
        \/ CloseReturn(c)
  <2>1. \/ Done(c)
        \/ \E at \in {"close.snapshot", "stop.wait", "stop.remove", "stop.release", "closed"} :
              Goto(c, at)
    BY <1>4 DEF CloseEdge, CloseEdgeFails, StopSend, StopWait, StopRemove, CloseReturn
  <2> QED
    BY <2>1, <1>d, <1>g, <1>i, DoneEffect DEF Places
<1>5. CASE SpawnReserve(c)
  <2>1. call'[c].tool = "spawn" /\ call'[c].at = "spawn.thread" /\ call'[c].target = Root
    BY <1>5, <1>i, SpawnReserveEffect DEF NowAt
  <2> QED
    BY <2>1, <1>n DEF Stranger, Goal
<1>6. CASE SpawnThread(c)
  <2>1. PICK u \in Fresh : call'[c].target = u /\ call'[c].tool = "spawn"
    BY <1>6, <1>i, SpawnThreadEffect DEF NowAt
  <2>2. u \notin Old
    BY DEF Fresh, Old
  <2> QED
    BY <2>1, <2>2, <1>6, <1>n DEF Stranger, Goal
<1>7. CASE InputStart(c) \/ CloseStart(c) \/ CloseSnapshot(c) \/ StopFlush(c)
        \/ StopFlushFails(c) \/ StopRelease(c) \/ StopNext(c)
  <2>1. \/ call'[c] = Idle
        \/ call'[c].tool \in {"input", "close"} /\ call'[c].at # "spawn.commit"
    BY <1>7, <1>i, InputStartEffect, CloseStartEffect, CloseSnapshotEffect, StopFlushEffect,
       StopFlushFailsEffect, StopReleaseEffect, StopNextEffect DEF NowAt
  <2> QED
    BY <2>1, <1>d, <1>v
<1>8. CASE ResumeStart(c)
  <2>1. PICK u \in Old : Known(u) /\ NowAt(c, "resume", "resume.reserve", u, {})
    BY <1>8, <1>i, ResumeStartEffect
  <2> QED
    BY <2>1, <1>n DEF Stranger, Goal, NowAt
<1>9. CASE ResumeLimitReached(c) \/ ResumeThreadFails(c) \/ ResumeEdge(c) \/ ResumeCheck(c)
  <2>1. /\ call[c].at \in ResumePlaces
        /\ ResumeFailed(c) \/ ResumeEdge(c) \/ ResumeCheck(c)
    BY <1>9 DEF ResumeLimitReached, ResumeThreadFails, ResumeEdge, ResumeCheck, ResumePlaces
  <2>2. call[c].tool = "resume"
    BY <2>1, <1>i DEF ToolFits, FitsAt
  <2>3. call'[c] = Idle \/ MovesTo("resume", call[c].target, call[c].todo)
    BY <2>1, <2>2, <1>i, ResumeFailedEffect, ResumeEdgeEffect, ResumeCheckEffect
       DEF NowAt, MovesTo
  <2> QED
    BY <2>2, <2>3, <1>d, <1>k
<1>10. CASE ResumeListChildren(c)
  <2>1. PICK S : /\ \A t \in S : t \in Agents /\ edge[t].status = "Open"
                 /\ NowAt(c, "resume", "resume.next", call[c].target, S)
    BY <1>10, <1>i, ResumeListChildrenEffect
  <2>2. call[c].tool = "resume"
    BY <1>10, <1>i DEF ResumeListChildren, ToolFits, FitsAt, ResumePlaces
  <2> QED
    BY <2>1, <2>2, <1>n DEF Stranger, Goal, NowAt
<1>11. CASE ResumeChild(c)
  <2>1. PICK u \in call[c].todo, at \in {"resume.next", "resume.reserve"} :
           NowAt(c, "resume", at, u, call[c].todo \ {u})
    BY <1>11, <1>i, ResumeChildEffect
  <2>2. call[c].tool = "resume"
    BY <1>11, <1>i DEF ResumeChild, ToolFits, FitsAt, ResumePlaces
  <2> QED
    BY <2>1, <2>2, <1>n DEF Stranger, Goal, NowAt
<1> QED
  BY <1>1, <1>2, <1>3, <1>4, <1>5, <1>6, <1>7, <1>8, <1>9, <1>10, <1>11
     DEF ControlStep, Start, Step

\* A spawned thread is new to all stores until it is committed.
LEMMA SpawnedStep ==
    ASSUME NEW c \in Calls, ControlBase, ControlStep(c), NEW e \in Calls
    PROVE  SpawnedIsNew(e)'
<1>i. ThreadsOK /\ RegistryOK /\ EdgesOK /\ CallsTyped /\ ToolFits(c) /\ CallOld(c)
  BY DEF ControlBase
<1>m. OnlyMoves(c)
  BY ThreadsStep, CallStep DEF CallMoves
<1>s. /\ SpawnThread(c) \/ call'[c].at # "spawn.commit"
      /\ \A f \in Calls \ {c} : At(f, "spawn.commit") => Stranger(c, call[f].target)'
  BY StrangerStep
<1>1. CASE e = c
  <2> SUFFICES ASSUME call'[c].at = "spawn.commit"
               PROVE  SpawnedIsNew(c)'
    BY <1>1 DEF SpawnedIsNew, At
  <2>1. SpawnThread(c)
    BY <1>s
  <2>2. PICK t \in Fresh : call'[c].target = t
    BY <2>1, <1>i, SpawnThreadEffect DEF NowAt
  <2>3. t \in Agents /\ t \notin Old
    BY DEF Fresh, Old
  <2>4. registered' = registered /\ edge' = edge
    BY <2>1 DEF SpawnThread, registryVars
  <2>5. t \notin registered' /\ edge'[t].status = "none"
    BY <2>3, <2>4, <1>i DEF RegistryOK, EdgesOK
  <2>6. ASSUME NEW d \in Calls \ {c}
        PROVE  call'[d].target # t /\ t \notin call'[d].todo
    <3>1. call'[d] = call[d] /\ CallOld(d)
      BY <1>m DEF OnlyMoves, ControlBase
    <3> QED
      BY <3>1, <2>3, ControlAssumption DEF CallOld
  <2> QED
    BY <2>2, <2>5, <2>6 DEF SpawnedIsNew, Stranger
<1>2. CASE e # c
  <2> SUFFICES ASSUME call'[e].at = "spawn.commit"
               PROVE  SpawnedIsNew(e)'
    BY DEF SpawnedIsNew, At
  <2> DEFINE t == call[e].target
  <2>1. call'[e] = call[e] /\ call[e].at = "spawn.commit" /\ call'[e].target = t
    BY <1>2, <1>m DEF OnlyMoves
  <2>2. /\ t \notin registered /\ edge[t].status = "none" /\ Stranger(c, t)
        /\ \A d \in Calls \ {e} : Stranger(d, t)
    BY <2>1, <1>2 DEF ControlBase, SpawnedIsNew, At
  <2>3. t \in Agents /\ t \in Old
    BY <2>1, ControlAssumption, TargetOf DEF ControlBase
  <2>4. t \notin registered'
    <3>1. CASE UNCHANGED registryVars
      BY <3>1, <2>2 DEF registryVars
    <3>2. CASE SpawnCommit(c) \/ ResumeCommit(c)
      <4>1. call[c].at \in {"spawn.commit", "resume.lifecycle"} /\ commit_agent(call[c].target)
        BY <3>2 DEF SpawnCommit, ResumeCommit, Ready, At
      <4>2. call[c].tool \in {"spawn", "resume"}
        BY <4>1, <1>i DEF ToolFits, FitsAt, SpawnPlaces, ResumePlaces
      <4> QED
        BY <4>1, <4>2, <2>2 DEF commit_agent, Stranger
    <3>3. CASE SpawnReserve(c) \/ ResumeReserve(c) \/ DiedRelease(c) \/ StopRelease(c)
            \/ SpawnThreadFails(c) \/ ResumeThreadFails(c) \/ (Abort(c) /\ Holding(c))
      <4>1. registered' \subseteq registered
        BY <3>3 DEF SpawnReserve, ResumeReserve, DiedRelease, StopRelease, SpawnThreadFails,
            ResumeThreadFails, Abort, reserve_spawn_slot, drop_reservation, release_agent
      <4> QED
        BY <4>1, <2>2
    <3> QED
      BY <3>1, <3>2, <3>3, RegistryOutcomes DEF RegistryOutcome
  <2>5. edge'[t].status = "none"
    <3>1. CASE UNCHANGED edge
      BY <3>1, <2>2
    <3>2. CASE SpawnEdge(c) \/ ResumeEdge(c)
      <4>1. /\ call[c].at \in {"spawn.edge", "resume.edge"}
            /\ upsert_edge(call[c].target, call[c].by)
        BY <3>2 DEF SpawnEdge, ResumeEdge, Ready, At
      <4>2. call[c].tool \in {"spawn", "resume"}
        BY <4>1, <1>i DEF ToolFits, FitsAt, SpawnPlaces, ResumePlaces
      <4>3. call[c].target # t
        BY <4>2, <2>2 DEF Stranger
      <4> QED
        BY <4>1, <4>3, <2>2, <2>3, <1>i DEF upsert_edge, EdgesOK
    <3>3. CASE CloseEdge(c)
      <4>1. SetClosed(call[c].target) \/ edge' = edge
        BY <3>3 DEF CloseEdge
      <4> QED
        BY <4>1, <2>2, <2>3, <1>i DEF SetClosed, EdgesOK
    <3> QED
      BY <3>1, <3>2, <3>3, EdgeOutcomes DEF EdgeOutcome
  <2>6. ASSUME NEW d \in Calls \ {e}
        PROVE  Stranger(d, call[e].target)'
    <3>1. CASE d = c
      BY <3>1, <1>s, <1>2, <2>1 DEF At
    <3>2. CASE d # c
      <4>1. call'[d] = call[d]
        BY <3>2, <1>m DEF OnlyMoves
      <4> QED
        BY <4>1, <2>1, <2>2 DEF Stranger
    <3> QED
      BY <3>1, <3>2
  <2> QED
    BY <2>1, <2>4, <2>5, <2>6 DEF SpawnedIsNew
<1> QED
  BY <1>1, <1>2

\* What a step does to the counter, the registered agents and the reservation of
\* the call.
Accounts(c) ==
    \/ UNCHANGED registryVars /\ (Holding(c)' <=> Holding(c))
    \/ reserve_spawn_slot /\ ~Holding(c) /\ Holding(c)'
    \/ drop_reservation /\ Holding(c) /\ ~Holding(c)'
    \/ release_agent(call[c].target) /\ ~Holding(c) /\ ~Holding(c)'
    \/ /\ commit_agent(call[c].target) /\ Holding(c) /\ ~Holding(c)'
       /\ call[c].at \in {"spawn.commit", "resume.lifecycle"}

\* Every step of a call accounts for its slots in one of these ways.
LEMMA AccountsStep ==
    ASSUME NEW c \in Calls, ControlBase, ControlStep(c)
    PROVE  Accounts(c)
<1>i. ThreadsOK /\ CallsTyped /\ ToolFits(c) /\ CallOld(c)
  BY DEF ControlBase
<1>d. ASSUME call'[c] = Idle
      PROVE  ~Holding(c)'
  BY <1>d DEF Idle, Holding
<1>e. ASSUME Done(c)
      PROVE  ~Holding(c)'
  BY <1>d, <1>e, <1>i, DoneEffect
<1>g. ASSUME NEW at \in Places, Goto(c, at)
      PROVE  call'[c].at = at
  BY <1>g, <1>i, GotoEffect
<1> USE DEF Ready, At
<1>1. CASE SendInput(c) \/ ResumeReturn(c) \/ CloseReturned(c)
  <2>1. Done(c) /\ UNCHANGED registryVars /\ call[c].at \in {"input", "resume.next", "closed"}
    BY <1>1 DEF SendInput, ResumeReturn, CloseReturned
  <2> QED
    BY <2>1, <1>e DEF Accounts, Holding
<1>2. CASE DiedRelease(c)
  <2>1. Done(c) /\ release_agent(call[c].target) /\ call[c].at = "died.release"
    BY <1>2 DEF DiedRelease
  <2> QED
    BY <2>1, <1>e DEF Accounts, Holding
<1>3. CASE SpawnThreadFails(c) \/ Interrupted(c) \/ OwnerEnded(c)
  <2>1. /\ Done(c)
        /\ \/ drop_reservation /\ Holding(c)
           \/ UNCHANGED registryVars /\ ~Holding(c)
    BY <1>3 DEF SpawnThreadFails, Interrupted, OwnerEnded, Abort, Holding
  <2> QED
    BY <2>1, <1>e DEF Accounts
<1>4. CASE SendInputDied(c) \/ DiedRemove(c) \/ SpawnEdge(c) \/ StopSend(c) \/ StopWait(c)
        \/ StopRemove(c) \/ CloseEdge(c)
  <2>1. /\ UNCHANGED registryVars
        /\ call[c].at \in {"input", "died.remove", "spawn.edge", "stop.send", "stop.wait",
                           "stop.remove", "close.edge"}
        /\ \E at \in {"died.remove", "died.release", "input", "stop.wait", "stop.remove",
                      "stop.release", "close.snapshot"} : Goto(c, at)
    BY <1>4 DEF SendInputDied, DiedRemove, SpawnEdge, StopSend, StopWait, StopRemove, CloseEdge
  <2> QED
    BY <2>1, <1>g DEF Accounts, Holding, Places
<1>5. CASE CloseEdgeFails(c) \/ CloseReturn(c)
  <2>1. /\ UNCHANGED registryVars
        /\ call[c].at \in {"close.edge", "stop.next"}
        /\ Done(c) \/ \E at \in {"close.snapshot", "closed"} : Goto(c, at)
    BY <1>5 DEF CloseEdgeFails, CloseReturn
  <2> QED
    BY <2>1, <1>e, <1>g DEF Accounts, Holding, Places
<1>6. CASE SpawnCommit(c) \/ ResumeCommit(c)
  <2>1. /\ commit_agent(call[c].target)
        /\ call[c].at \in {"spawn.commit", "resume.lifecycle"}
        /\ \E at \in {"spawn.edge", "resume.edge"} : Goto(c, at)
    BY <1>6 DEF SpawnCommit, ResumeCommit
  <2> QED
    BY <2>1, <1>g DEF Accounts, Holding, Places
<1>7. CASE ResumeReserve(c)
  <2>1. reserve_spawn_slot /\ call[c].at = "resume.reserve" /\ Goto(c, "resume.lookup")
    BY <1>7 DEF ResumeReserve
  <2> QED
    BY <2>1, <1>g DEF Accounts, Holding, Places
<1>8. CASE ResumeLookup(c) \/ ResumeThread(c)
  <2>1. /\ UNCHANGED registryVars
        /\ call[c].at \in {"resume.lookup", "resume.thread"}
        /\ \E at \in {"resume.lifecycle", "resume.thread"} : Goto(c, at)
    BY <1>8 DEF ResumeLookup, ResumeThread
  <2> QED
    BY <2>1, <1>g DEF Accounts, Holding, Places
<1>9. CASE SpawnReserve(c)
  <2>1. reserve_spawn_slot /\ call[c].at = "idle"
    BY <1>9 DEF SpawnReserve, MayStart
  <2>2. call'[c].at = "spawn.thread"
    BY <1>9, <1>i, SpawnReserveEffect DEF NowAt
  <2> QED
    BY <2>1, <2>2 DEF Accounts, Holding
<1>10. CASE SpawnThread(c)
  <2>1. call[c].at = "spawn.thread" /\ call'[c].at = "spawn.commit"
    BY <1>10, <1>i, SpawnThreadEffect DEF NowAt
  <2>2. UNCHANGED registryVars
    BY <1>10 DEF SpawnThread
  <2> QED
    BY <2>1, <2>2 DEF Accounts, Holding
<1>11. CASE InputStart(c) \/ ResumeStart(c) \/ CloseStart(c)
  <2>1. UNCHANGED registryVars /\ call[c].at = "idle"
    BY <1>11 DEF InputStart, ResumeStart, CloseStart, MayStart
  <2>2. call'[c].at \in {"input", "resume.reserve", "close.edge"}
    BY <1>11, <1>i, InputStartEffect, ResumeStartEffect, CloseStartEffect DEF NowAt
  <2> QED
    BY <2>1, <2>2 DEF Accounts, Holding
<1>12. CASE ResumeLimitReached(c) \/ ResumeThreadFails(c)
  <2>1. /\ ResumeFailed(c)
        /\ \/ call[c].at = "resume.reserve" /\ UNCHANGED registryVars
           \/ call[c].at = "resume.thread" /\ drop_reservation
    BY <1>12 DEF ResumeLimitReached, ResumeThreadFails
  <2>2. call[c].tool = "resume"
    BY <2>1, <1>i DEF ToolFits, FitsAt, ResumePlaces
  <2>3. call'[c] = Idle \/ call'[c].at = "resume.next"
    BY <2>1, <2>2, <1>i, ResumeFailedEffect DEF NowAt
  <2>4. ~Holding(c)'
    BY <2>3, <1>d DEF Holding
  <2> QED
    BY <2>1, <2>4 DEF Accounts, Holding
<1>13. CASE ResumeEdge(c) \/ ResumeCheck(c) \/ ResumeListChildren(c) \/ ResumeChild(c)
  <2>1. /\ UNCHANGED registryVars
        /\ call[c].at \in {"resume.edge", "resume.check", "resume.next"}
    BY <1>13 DEF ResumeEdge, ResumeCheck, ResumeListChildren, ResumeChild
  <2>2. \/ call'[c] = Idle
        \/ call'[c].at \in {"resume.check", "resume.next", "resume.reserve"}
    BY <1>13, <1>i, ResumeEdgeEffect, ResumeCheckEffect, ResumeListChildrenEffect,
       ResumeChildEffect DEF NowAt
  <2>3. ~Holding(c)'
    BY <2>2, <1>d DEF Holding
  <2> QED
    BY <2>1, <2>3 DEF Accounts, Holding
<1>14. CASE CloseSnapshot(c) \/ StopFlush(c) \/ StopFlushFails(c) \/ StopNext(c)
  <2>1. /\ UNCHANGED registryVars
        /\ call[c].at \in {"close.snapshot", "stop.flush", "stop.next"}
    BY <1>14 DEF CloseSnapshot, StopFlush, StopFlushFails, StopNext
  <2>2. \/ call'[c] = Idle
        \/ call'[c].at \in {"stop.flush", "stop.remove", "stop.send", "stop.next"}
    BY <1>14, <1>i, CloseSnapshotEffect, StopFlushEffect, StopFlushFailsEffect,
       StopNextEffect DEF NowAt
  <2>3. ~Holding(c)'
    BY <2>2, <1>d DEF Holding
  <2> QED
    BY <2>1, <2>3 DEF Accounts, Holding
<1>15. CASE StopRelease(c)
  <2>1. release_agent(call[c].target)
    BY <1>15 DEF StopRelease
  <2>2. call[c].at = "stop.release" /\ call'[c].at = "stop.next"
    BY <1>15, <1>i, StopReleaseEffect DEF NowAt
  <2> QED
    BY <2>1, <2>2 DEF Accounts, Holding
<1> QED
  BY <1>1, <1>2, <1>3, <1>4, <1>5, <1>6, <1>7, <1>8, <1>9, <1>10, <1>11, <1>12, <1>13,
     <1>14, <1>15 DEF ControlStep, Start, Step

\* The things counted are finitely many.
LEMMA CountsNat ==
    ASSUME RegistryOK
    PROVE  /\ IsFiniteSet(registered) /\ IsFiniteSet(Held)
           /\ Cardinality(registered) \in Nat /\ Cardinality(Held) \in Nat
           /\ Slack \in Int
<1>1. registered \subseteq Agents /\ Held \subseteq Calls
  BY DEF RegistryOK, Old, Held
<1>2. IsFiniteSet(registered) /\ IsFiniteSet(Held)
  BY <1>1, FS_Subset, ControlAssumption
<1>3. Cardinality(registered) \in Nat /\ Cardinality(Held) \in Nat
  BY <1>2, FS_CardinalityType
<1> QED
  BY <1>2, <1>3 DEF RegistryOK, Slack

\* Slots are conserved, but for a resume that commits over a registered agent.
LEMMA SlackStep ==
    ASSUME NEW c \in Calls, ControlBase, ControlStep(c)
    PROVE  /\ Slack' \in Int
           /\ \/ Slack' = Slack
              \/ /\ Slack' = Slack + 1
                 /\ At(c, "resume.lifecycle") /\ call[c].target \in registered
<1>i. RegistryOK /\ CallsTyped /\ ToolFits(c) /\ CallOld(c) /\ SpawnedIsNew(c)
  BY DEF ControlBase
<1>m. OnlyMoves(c)
  BY ThreadsStep, CallStep DEF CallMoves
<1>h. Held' \ {c} = Held \ {c}
  BY <1>m DEF Held, Holding, OnlyMoves
<1>f. IsFiniteSet(registered) /\ IsFiniteSet(Held)
  BY <1>i, CountsNat
<1> DEFINE t == call[c].target
<1>1. PICK R \in Nat, H \in Nat :
        /\ R = Cardinality(registered) /\ H = Cardinality(Held)
        /\ c \notin Held => Cardinality(Held \cup {c}) = H + 1
        /\ c \in Held => Cardinality(Held \ {c}) = H - 1
        /\ t \notin registered => Cardinality(registered \cup {t}) = R + 1
        /\ t \in registered => Cardinality(registered \ {t}) = R - 1
  <2>1. /\ Cardinality(Held) \in Nat
        /\ c \notin Held => Cardinality(Held \cup {c}) = Cardinality(Held) + 1
        /\ c \in Held => Cardinality(Held \ {c}) = Cardinality(Held) - 1
    BY <1>f, CardinalityByOne
  <2>2. /\ Cardinality(registered) \in Nat
        /\ t \notin registered => Cardinality(registered \cup {t}) = Cardinality(registered) + 1
        /\ t \in registered => Cardinality(registered \ {t}) = Cardinality(registered) - 1
    BY <1>f, CardinalityByOne
  <2> QED
    BY <2>1, <2>2
<1>2. slot_count \in Int /\ Slack = slot_count - R - H
  BY <1>i, <1>1 DEF RegistryOK, Slack
<1>3. CASE UNCHANGED registryVars /\ (Holding(c)' <=> Holding(c))
  <2>1. Held' = Held
    BY <1>3, <1>h DEF Held
  <2> QED
    BY <2>1, <1>3, <1>1, <1>2 DEF registryVars, Slack
<1>4. CASE reserve_spawn_slot /\ ~Holding(c) /\ Holding(c)'
  <2>1. Held' = Held \cup {c} /\ c \notin Held
    BY <1>4, <1>h DEF Held
  <2>2. Slack' = (slot_count + 1) - R - (H + 1)
    BY <2>1, <1>4, <1>1 DEF reserve_spawn_slot, Slack
  <2> QED
    BY <2>2, <1>2
<1>5. CASE drop_reservation /\ Holding(c) /\ ~Holding(c)'
  <2>1. Held' = Held \ {c} /\ c \in Held
    BY <1>5, <1>h DEF Held
  <2>2. Slack' = (slot_count - 1) - R - (H - 1)
    BY <2>1, <1>5, <1>1 DEF drop_reservation, Slack
  <2> QED
    BY <2>2, <1>2
<1>6. CASE release_agent(call[c].target) /\ ~Holding(c) /\ ~Holding(c)'
  <2>1. Held' = Held
    BY <1>6, <1>h DEF Held
  <2>2. CASE t \in registered
    <3>1. Slack' = (slot_count - 1) - (R - 1) - H
      BY <2>1, <2>2, <1>6, <1>1 DEF release_agent, Slack
    <3> QED
      BY <3>1, <1>2
  <2>3. CASE t \notin registered
    <3>1. registered' = registered /\ slot_count' = slot_count
      BY <2>3, <1>6 DEF release_agent
    <3> QED
      BY <2>1, <3>1, <1>1, <1>2 DEF Slack
  <2> QED
    BY <2>2, <2>3
<1>7. CASE /\ commit_agent(call[c].target) /\ Holding(c) /\ ~Holding(c)'
           /\ call[c].at \in {"spawn.commit", "resume.lifecycle"}
  <2>1. Held' = Held \ {c} /\ c \in Held
    BY <1>7, <1>h DEF Held
  <2>2. CASE t \in registered
    <3>1. registered' = registered /\ slot_count' = slot_count
      BY <2>2, <1>7 DEF commit_agent
    <3>2. Slack' = slot_count - R - (H - 1)
      BY <2>1, <3>1, <1>1 DEF Slack
    <3>3. call[c].at = "resume.lifecycle"
      BY <2>2, <1>7, <1>i DEF SpawnedIsNew, At
    <3> QED
      BY <2>2, <3>2, <3>3, <1>2 DEF At
  <2>3. CASE t \notin registered
    <3>1. Slack' = slot_count - (R + 1) - (H - 1)
      BY <2>1, <2>3, <1>7, <1>1 DEF commit_agent, Slack
    <3> QED
      BY <3>1, <1>2
  <2> QED
    BY <2>2, <2>3
<1> QED
  BY <1>3, <1>4, <1>5, <1>6, <1>7, AccountsStep DEF Accounts

\* ControlBase is inductive.
LEMMA ControlBaseInit ==
    ASSUME ControlInit
    PROVE  ControlBase
<1> USE ControlAssumption DEF ControlInit
<1>1. ThreadsOK
  BY DEF ThreadsOK
<1>2. RegistryOK /\ BoundsOK
  BY DEF RegistryOK, BoundsOK
<1>3. EdgesOK
  BY DEF EdgesOK, NoEdge
<1>4. CallsTyped
  BY IdleTyped DEF CallsTyped
<1>5. ASSUME NEW c \in Calls
      PROVE  ToolFits(c) /\ CallOld(c) /\ SpawnedIsNew(c)
  <2>1. call[c] = Idle
    OBVIOUS
  <2> QED
    BY <2>1 DEF Idle, NoThread, ToolFits, FitsAt, CallOld, SpawnedIsNew, At, SpawnPlaces,
        InputPlaces, ResumePlaces, ClosePlaces, StopPlaces
<1>6. Slack >= 0
  <2>1. Held = {}
    BY DEF Held, Holding, Idle
  <2> QED
    BY <2>1, FS_EmptySet DEF Slack
<1> QED
  BY <1>1, <1>2, <1>3, <1>4, <1>5, <1>6 DEF ControlBase

\* It is kept by every step.
LEMMA ControlBaseStep ==
    ASSUME ControlBase, [ControlNext]_controlVars
    PROVE  ControlBase'
<1>1. CASE UNCHANGED controlVars
  <2>1. ThreadsOK' /\ RegistryOK' /\ EdgesOK' /\ BoundsOK' /\ CallsTyped'
    BY <1>1 DEF controlVars, ControlBase, ThreadsOK, RegistryOK, EdgesOK, BoundsOK, CallsTyped, Old
  <2>2. \A c \in Calls : ToolFits(c)' /\ CallOld(c)' /\ SpawnedIsNew(c)'
    BY <1>1 DEF controlVars, ControlBase, ToolFits, CallOld, SpawnedIsNew, Stranger, At, Old
  <2>3. Slack' = Slack
    BY <1>1 DEF controlVars, Slack, Held, Holding
  <2> QED
    BY <2>1, <2>2, <2>3 DEF ControlBase
<1>2. ASSUME NEW c \in Calls, ControlStep(c)
      PROVE  ControlBase'
  <2>1. ThreadsOK' /\ InstancesGrow
    BY <1>2, ThreadsStep
  <2>2. RegistryOK' /\ EdgesOK' /\ BoundsOK'
    BY <1>2, <2>1, RegistryStep, EdgesStep, BoundOutcomes, BoundsStep DEF ControlBase
  <2>3. CallMoves(c)
    BY <1>2, <2>1, CallStep
  <2>4. ASSUME NEW d \in Calls
        PROVE  ToolFits(d)' /\ CallOld(d)'
    <3>1. CASE d = c
      BY <3>1, <2>3 DEF CallMoves
    <3>2. CASE d # c
      <4>1. call'[d] = call[d] /\ ToolFits(d) /\ CallOld(d) /\ CallsTyped /\ ThreadsOK
        BY <3>2, <2>3 DEF CallMoves, OnlyMoves, ControlBase
      <4>2. /\ Old \subseteq Old'
            /\ \A i \in call[d].seen : i[2] <= instances'[i[1]]
        BY <4>1, <2>1, OldGrows
      <4> QED
        BY <4>1, <4>2 DEF ToolFits, CallOld
    <3> QED
      BY <3>1, <3>2
  <2>5. \A d \in Calls : SpawnedIsNew(d)'
    BY <1>2, SpawnedStep
  <2>6. Slack' >= 0
    <3>1. Slack >= 0 /\ Slack \in Int
      BY CountsNat DEF ControlBase
    <3>2. Slack' \in Int /\ (Slack' = Slack \/ Slack' = Slack + 1)
      BY <1>2, SlackStep
    <3> QED
      BY <3>1, <3>2
  <2>7. CallsTyped'
    BY <2>3 DEF CallMoves, OnlyMoves
  <2> QED
    BY <2>1, <2>2, <2>4, <2>5, <2>6, <2>7 DEF ControlBase
<1>3. ASSUME NEW i \in Instances, SessionEnds(i) \/ SessionDies(i)
      PROVE  ControlBase'
  <2>1. /\ UNCHANGED <<loaded, parent, instances, registered, slot_count, edge, call, made>>
        /\ alive' = alive \ {i} /\ stopping' \subseteq stopping
        /\ faults' = faults \/ Fault
    BY <1>3 DEF SessionEnds, SessionDies, registryVars, boundVars
  <2>2. ThreadsOK' /\ RegistryOK' /\ EdgesOK' /\ CallsTyped'
    BY <2>1 DEF ControlBase, ThreadsOK, RegistryOK, EdgesOK, CallsTyped, Old
  <2>3. BoundsOK'
    BY <2>1, ControlAssumption DEF ControlBase, BoundsOK, Fault
  <2>4. \A c \in Calls : ToolFits(c)' /\ CallOld(c)' /\ SpawnedIsNew(c)'
    BY <2>1 DEF ControlBase, ToolFits, CallOld, SpawnedIsNew, Stranger, At, Old
  <2>5. Slack' = Slack
    BY <2>1 DEF Slack, Held, Holding
  <2> QED
    BY <2>2, <2>3, <2>4, <2>5 DEF ControlBase
<1> QED
  BY <1>1, <1>2, <1>3 DEF ControlNext, ControlStep

\* It holds in every reachable state, whatever overlaps.
LEMMA AlwaysControlBase == ControlSpec => []ControlBase
<1> QED
  BY ControlBaseInit, ControlBaseStep, PTL DEF ControlSpec

\* It says that no slot too few is counted, and so the counter is a natural number.
LEMMA BaseImplies ==
    ASSUME ControlBase
    PROVE  ControlTypeOK /\ SlotsNeverUndercounted
<1>1. /\ ThreadsOK /\ RegistryOK /\ EdgesOK /\ BoundsOK /\ CallsTyped /\ Slack >= 0
      /\ \A c \in Calls : CallOld(c)
  BY DEF ControlBase
<1>2. registered \subseteq Agents
  BY <1>1 DEF RegistryOK, Old
<1>3. Cardinality(registered) \in Nat /\ Cardinality(Held) \in Nat
  BY <1>1, CountsNat
<1>4. SlotsNeverUndercounted /\ slot_count \in 0 .. max_threads
  BY <1>1, <1>3, ControlAssumption DEF RegistryOK, Slack, SlotsNeverUndercounted
<1>5. call \in [Calls -> CallRecords]
  BY <1>1 DEF CallsTyped
<1>6. \A c \in Calls : call[c].at \notin {"idle", "spawn.thread"} => call[c].target \in Agents
  BY <1>1 DEF CallOld
<1>7. ControlTypeOK
  BY <1>1, <1>2, <1>4, <1>5, <1>6
     DEF ControlTypeOK, ThreadsOK, EdgesOK, BoundsOK, CallRecords
<1> QED
  BY <1>4, <1>7

\* Whichever tools overlap, and however calls fail or are interrupted, the counter of
\* slots never falls below the registered agents and the reservations.
THEOREM SlotsAreCounted == ControlSpec => [](ControlTypeOK /\ SlotsNeverUndercounted)
BY AlwaysControlBase, BaseImplies, PTL

\* Only a resume that commits its reservation over an entry that is still registered
\* loses a slot; no spawn, no failure, no interrupt and no two concurrent closes do.
THEOREM OnlyResumesLoseSlots == ControlSpec => SlotsLostOnlyByResume
<1> DEFINE A == Slack' > Slack =>
                  \E c \in Calls : At(c, "resume.lifecycle") /\ call[c].target \in registered
<1>1. ASSUME ControlBase, [ControlNext]_controlVars
      PROVE  A
  <2>0. Slack \in Int
    BY <1>1, CountsNat DEF ControlBase
  <2>1. ASSUME NEW c \in Calls, ControlStep(c)
        PROVE  A
    BY <1>1, <2>0, <2>1, SlackStep
  <2>2. ASSUME call' = call, registered' = registered, slot_count' = slot_count
        PROVE  A
    <3>1. Slack' = Slack
      BY <2>2 DEF Slack, Held, Holding
    <3> QED
      BY <2>0, <3>1
  <2>3. \/ \E c \in Calls : ControlStep(c)
        \/ call' = call /\ registered' = registered /\ slot_count' = slot_count
    BY <1>1 DEF ControlNext, ControlStep, controlVars, SessionEnds, SessionDies, registryVars
  <2> QED
    BY <2>1, <2>2, <2>3
<1> QED
  BY <1>1, AlwaysControlBase, PTL DEF ControlSpec, SlotsLostOnlyByResume

----------------------------------------------------------------------------
(* Closed agents.  While no close runs beside a resume, the edges that a    *)
(* resume goes along stay open until it has loaded their agents.            *)

\* No call of one of the tools is in flight beside a resume.
ResumeApart(tools) ==
    \A c, d \in Calls : call[c].tool = "resume" => call[d].tool \notin tools

\* The tool of a call changes only when it starts or ends.
LEMMA ToolStep ==
    ASSUME NEW c \in Calls, ControlBase, ControlStep(c)
    PROVE  \/ call'[c].tool \in {"none", call[c].tool}
           \/ MayStart(c, call'[c].tool)
<1>i. ThreadsOK /\ CallsTyped /\ ToolFits(c) /\ CallOld(c)
  BY DEF ControlBase
<1>d. ASSUME call'[c] = Idle
      PROVE  call'[c].tool = "none"
  BY <1>d DEF Idle
<1>g. ASSUME NEW at \in Places, Goto(c, at)
      PROVE  call'[c].tool = call[c].tool
  BY <1>g, <1>i, GotoEffect
<1> USE DEF Ready, At
<1>1. CASE SendInput(c) \/ DiedRelease(c) \/ SpawnThreadFails(c) \/ ResumeReturn(c)
        \/ CloseReturned(c) \/ Interrupted(c) \/ OwnerEnded(c)
  <2>1. Done(c)
    BY <1>1 DEF SendInput, DiedRelease, SpawnThreadFails, ResumeReturn, CloseReturned,
        Interrupted, OwnerEnded, Abort
  <2> QED
    BY <2>1, <1>i, DoneEffect
<1>2. CASE SendInputDied(c) \/ DiedRemove(c) \/ SpawnCommit(c) \/ SpawnEdge(c)
  <2>1. \E at \in {"died.remove", "died.release", "spawn.edge", "input"} : Goto(c, at)
    BY <1>2 DEF SendInputDied, DiedRemove, SpawnCommit, SpawnEdge
  <2> QED
    BY <2>1, <1>g DEF Places
<1>3. CASE ResumeReserve(c) \/ ResumeLookup(c) \/ ResumeThread(c) \/ ResumeCommit(c)
  <2>1. \E at \in {"resume.lookup", "resume.lifecycle", "resume.thread", "resume.edge"} :
           Goto(c, at)
    BY <1>3 DEF ResumeReserve, ResumeLookup, ResumeThread, ResumeCommit
  <2> QED
    BY <2>1, <1>g DEF Places
<1>4. CASE CloseEdge(c) \/ CloseEdgeFails(c) \/ StopSend(c) \/ StopWait(c) \/ StopRemove(c)
        \/ CloseReturn(c)
  <2>1. \/ Done(c)
        \/ \E at \in {"close.snapshot", "stop.wait", "stop.remove", "stop.release", "closed"} :
              Goto(c, at)
    BY <1>4 DEF CloseEdge, CloseEdgeFails, StopSend, StopWait, StopRemove, CloseReturn
  <2> QED
    BY <2>1, <1>g, <1>i, DoneEffect DEF Places
<1>5. CASE SpawnReserve(c) \/ InputStart(c) \/ ResumeStart(c) \/ CloseStart(c)
  <2>1. \E tool \in {"spawn", "input", "resume", "close"} :
           MayStart(c, tool) /\ call'[c].tool = tool
    BY <1>5, <1>i, SpawnReserveEffect, InputStartEffect, ResumeStartEffect, CloseStartEffect
       DEF NowAt, SpawnReserve, InputStart, ResumeStart, CloseStart
  <2> QED
    BY <2>1
<1>6. CASE SpawnThread(c)
  <2>1. call[c].at = "spawn.thread" /\ call'[c].tool = "spawn"
    BY <1>6, <1>i, SpawnThreadEffect DEF NowAt
  <2> QED
    BY <2>1, <1>i DEF ToolFits, FitsAt, SpawnPlaces
<1>7. CASE ResumeLimitReached(c) \/ ResumeThreadFails(c) \/ ResumeEdge(c) \/ ResumeCheck(c)
        \/ ResumeListChildren(c) \/ ResumeChild(c)
  <2>1. /\ call[c].at \in ResumePlaces
        /\ ResumeFailed(c) \/ ResumeEdge(c) \/ ResumeCheck(c) \/ ResumeListChildren(c)
             \/ ResumeChild(c)
    BY <1>7 DEF ResumeLimitReached, ResumeThreadFails, ResumeEdge, ResumeCheck,
        ResumeListChildren, ResumeChild, ResumePlaces
  <2>2. call[c].tool = "resume"
    BY <2>1, <1>i DEF ToolFits, FitsAt
  <2>3. call'[c] = Idle \/ call'[c].tool = "resume"
    BY <2>1, <2>2, <1>i, ResumeFailedEffect, ResumeEdgeEffect, ResumeCheckEffect,
       ResumeListChildrenEffect, ResumeChildEffect DEF NowAt
  <2> QED
    BY <2>2, <2>3, <1>d
<1>8. CASE CloseSnapshot(c) \/ StopFlush(c) \/ StopFlushFails(c) \/ StopRelease(c)
        \/ StopNext(c)
  <2>1. call[c].at \in ClosePlaces
    BY <1>8 DEF CloseSnapshot, StopFlush, StopFlushFails, StopRelease, StopNext, ClosePlaces,
        StopPlaces
  <2>2. call[c].tool = "close"
    BY <2>1, <1>i DEF ToolFits, FitsAt
  <2>3. call'[c] = Idle \/ call'[c].tool = "close"
    BY <1>8, <1>i, CloseSnapshotEffect, StopFlushEffect, StopFlushFailsEffect,
       StopReleaseEffect, StopNextEffect DEF NowAt
  <2> QED
    BY <2>2, <2>3, <1>d
<1> QED
  BY <1>1, <1>2, <1>3, <1>4, <1>5, <1>6, <1>7, <1>8 DEF ControlStep, Start, Step

\* A step of a call, or one of a session, which moves no call.
LEMMA ControlNextCases ==
    ASSUME [ControlNext]_controlVars
    PROVE  \/ \E c \in Calls : ControlStep(c)
           \/ /\ UNCHANGED <<loaded, instances, registered, slot_count, edge, call>>
              /\ alive' \subseteq alive
BY DEF ControlNext, ControlStep, controlVars, SessionEnds, SessionDies, registryVars

\* What may not overlap with a resume does not.
LEMMA ApartStep ==
    ASSUME NEW tools \in SUBSET {"spawn", "input", "close"},
           \A x \in tools : {"resume", x} \notin Overlap,
           ControlBase, ResumeApart(tools), [ControlNext]_controlVars
    PROVE  ResumeApart(tools)'
<1>1. ASSUME NEW c \in Calls, ControlStep(c)
      PROVE  ResumeApart(tools)'
  <2>1. OnlyMoves(c)
    BY <1>1, ThreadsStep, CallStep DEF CallMoves
  <2>2. \A d \in Calls \ {c} : call'[d].tool = call[d].tool
    BY <2>1 DEF OnlyMoves
  <2>3. CASE call'[c].tool \in {"none", call[c].tool}
    BY <2>2, <2>3 DEF ResumeApart
  <2>4. CASE MayStart(c, call'[c].tool)
    <3>1. \A d \in Calls \ {c} : call[d].tool # "none" => {call[d].tool, call'[c].tool} \in Overlap
      BY <2>4 DEF MayStart, ControlBase, ToolFits, FitsAt, At
    <3>2. ASSUME NEW d \in Calls \ {c}
          PROVE  /\ call'[c].tool = "resume" => call[d].tool \notin tools
                 /\ call[d].tool = "resume" => call'[c].tool \notin tools
      <4>1. \A x \in tools : {x, "resume"} = {"resume", x} /\ x # "none"
        OBVIOUS
      <4> QED
        BY <3>1, <4>1
    <3>3. "resume" \notin tools
      OBVIOUS
    <3> QED
      BY <2>2, <3>2, <3>3 DEF ResumeApart
  <2> QED
    BY <1>1, <2>3, <2>4, ToolStep
<1>2. CASE call' = call
  BY <1>2 DEF ResumeApart
<1> QED
  BY <1>1, <1>2, ControlNextCases

\* A resume that has resumed its target goes on along open edges only.
AlongOpen(c) ==
    call[c].tool = "resume" =>
        /\ call[c].top => call[c].todo = {} /\ call[c].at # "resume.next"
        /\ ~call[c].top =>
              /\ \A t \in call[c].todo : edge[t].status = "Open"
              /\ call[c].at \in {"resume.reserve", "resume.lookup", "resume.thread"} =>
                    edge[call[c].target].status = "Open"

\* An open edge stays open, unless a close closes it.
LEMMA OpenStays ==
    ASSUME NEW c \in Calls, ControlBase, ControlStep(c), call[c].tool # "close"
    PROVE  \A t \in Agents : edge[t].status = "Open" => edge'[t].status = "Open"
<1>i. EdgesOK /\ CallsTyped /\ ToolFits(c) /\ CallOld(c)
  BY DEF ControlBase
<1>1. CASE UNCHANGED edge
  BY <1>1
<1>2. CASE SpawnEdge(c) \/ ResumeEdge(c)
  <2>1. upsert_edge(call[c].target, call[c].by)
    BY <1>2 DEF SpawnEdge, ResumeEdge
  <2> QED
    BY <2>1, <1>1, <1>i DEF upsert_edge, EdgesOK
<1>3. CASE CloseEdge(c)
  BY <1>3, <1>i DEF CloseEdge, Ready, At, ToolFits, FitsAt, ClosePlaces
<1> QED
  BY <1>1, <1>2, <1>3, EdgeOutcomes DEF EdgeOutcome

\* A step of the resume itself.
LEMMA AlongOpenOwn ==
    ASSUME NEW c \in Calls, ControlBase, AlongOpen(c), ControlStep(c)
    PROVE  AlongOpen(c)'
<1>i. /\ ThreadsOK /\ EdgesOK /\ CallsTyped /\ ToolFits(c) /\ CallOld(c)
      /\ call[c].todo \subseteq Agents /\ call[c].top \in BOOLEAN
  BY DEF ControlBase, CallsTyped, CallRecords
<1>v. ASSUME call'[c].tool # "resume"
      PROVE  AlongOpen(c)'
  BY <1>v DEF AlongOpen
<1>d. ASSUME call'[c] = Idle
      PROVE  AlongOpen(c)'
  BY <1>d, <1>v DEF Idle
<1>e. ASSUME Done(c)
      PROVE  AlongOpen(c)'
  BY <1>d, <1>e, <1>i, DoneEffect
<1>o. ASSUME call[c].tool = "resume"
      PROVE  \A t \in Agents : edge[t].status = "Open" => edge'[t].status = "Open"
  BY <1>o, OpenStays
<1> USE DEF Ready, At
<1>1. CASE call[c].at \notin {"idle"} \cup ResumePlaces
  <2>1. call[c].tool # "resume"
    BY <1>1, <1>i DEF ToolFits, FitsAt, SpawnPlaces, InputPlaces, ClosePlaces, StopPlaces,
        ResumePlaces, ControlBase, CallsTyped, CallRecords, Places
  <2>2. call'[c].tool \in {"none", call[c].tool}
    BY <1>1, ToolStep DEF MayStart
  <2> QED
    BY <2>1, <2>2, <1>v
<1>2. CASE call[c].at = "idle"
  <2>1. Start(c)
    BY <1>2 DEF ControlStep, Step, SpawnThread, SpawnThreadFails, SpawnCommit, SpawnEdge,
        SendInput, SendInputDied, DiedRemove, DiedRelease, ResumeReserve, ResumeLimitReached,
        ResumeLookup, ResumeThread, ResumeThreadFails, ResumeCommit, ResumeEdge, ResumeCheck,
        ResumeListChildren, ResumeChild, ResumeReturn, CloseEdge, CloseEdgeFails,
        CloseSnapshot, StopFlush, StopFlushFails, StopSend, StopWait, StopRemove,
        StopRelease, StopNext, CloseReturn, CloseReturned, Interrupted, OwnerEnded, Abort
  <2>2. CASE ResumeStart(c)
    <3>1. call'[c].top = TRUE /\ call'[c].todo = {} /\ call'[c].at = "resume.reserve"
      BY <2>2, <1>i, ResumeStartEffect DEF NowAt, NowHas
    <3> QED
      BY <3>1 DEF AlongOpen
  <2>3. CASE SpawnReserve(c) \/ InputStart(c) \/ CloseStart(c)
    <3>1. call'[c].tool # "resume"
      BY <2>3, <1>i, SpawnReserveEffect, InputStartEffect, CloseStartEffect DEF NowAt
    <3> QED
      BY <3>1, <1>v
  <2> QED
    BY <2>1, <2>2, <2>3 DEF Start
<1>3. CASE call[c].at \in ResumePlaces
  <2>0. call[c].tool = "resume"
    BY <1>3, <1>i DEF ToolFits, FitsAt
  <2>o. \A t \in Agents : edge[t].status = "Open" => edge'[t].status = "Open"
    BY <2>0, <1>o
  <2>t. call[c].target \in Agents
    BY <1>3, <1>i, ControlAssumption, TargetOf DEF ResumePlaces
  <2>1. CASE ResumeReserve(c) \/ ResumeLookup(c) \/ ResumeThread(c) \/ ResumeCommit(c)
    <3>1. \/ call[c].at = "resume.reserve" /\ Goto(c, "resume.lookup")
          \/ call[c].at = "resume.lookup" /\ Goto(c, "resume.lifecycle")
          \/ call[c].at = "resume.lookup" /\ Goto(c, "resume.thread")
          \/ call[c].at = "resume.thread" /\ Goto(c, "resume.lifecycle")
          \/ call[c].at = "resume.lifecycle" /\ Goto(c, "resume.edge")
      BY <2>1 DEF ResumeReserve, ResumeLookup, ResumeThread, ResumeCommit
    <3>2. PICK at \in {"resume.lookup", "resume.thread", "resume.lifecycle", "resume.edge"} :
            /\ Goto(c, at)
            /\ at \in {"resume.lookup", "resume.thread"} =>
                  call[c].at \in {"resume.reserve", "resume.lookup"}
      BY <3>1
    <3>3. at \in Places /\ at # "resume.next" /\ at # "resume.reserve"
      BY DEF Places
    <3>4. /\ call'[c].at = at /\ call'[c].target = call[c].target
          /\ call'[c].top = call[c].top /\ call'[c].todo = call[c].todo
      BY <3>2, <3>3, <1>i, GotoEffect
    <3> QED
      BY <3>2, <3>3, <3>4, <2>0, <2>o, <2>t, <1>i DEF AlongOpen
  <2>2. CASE ResumeLimitReached(c) \/ ResumeThreadFails(c)
    <3>1. ResumeFailed(c)
      BY <2>2 DEF ResumeLimitReached, ResumeThreadFails
    <3>2. \/ call'[c] = Idle
          \/ /\ ~call[c].top
             /\ NowAt(c, "resume", "resume.next", call[c].target, call[c].todo)
             /\ NowHas(c, FALSE, call[c].failed, call[c].waits, call[c].seen)
      BY <3>1, <2>0, <1>i, ResumeFailedEffect
    <3> QED
      BY <3>2, <2>0, <2>o, <1>i, <1>d DEF AlongOpen, NowAt, NowHas
  <2>3. CASE ResumeEdge(c)
    <3>1. /\ call'[c].at = (IF call[c].top THEN "resume.check" ELSE "resume.next")
          /\ call'[c].todo = call[c].todo /\ call'[c].top = call[c].top
      BY <2>3, <1>i, ResumeEdgeEffect DEF NowAt, NowHas
    <3> QED
      BY <3>1, <2>0, <2>o, <1>i DEF AlongOpen
  <2>4. CASE ResumeCheck(c)
    <3>1. \/ call'[c] = Idle
          \/ /\ call'[c].at = "resume.next" /\ call'[c].todo = call[c].todo
             /\ call'[c].top = FALSE
      BY <2>4, <1>i, ResumeCheckEffect DEF NowAt, NowHas
    <3> QED
      BY <3>1, <2>0, <2>o, <1>i, <1>d DEF AlongOpen
  <2>5. CASE ResumeListChildren(c)
    <3>1. PICK S : /\ \A t \in S : t \in Agents /\ edge[t].status = "Open"
                   /\ NowAt(c, "resume", "resume.next", call[c].target, S)
      BY <2>5, <1>i, ResumeListChildrenEffect
    <3>2. call[c].at = "resume.next" /\ call'[c].top = call[c].top
      BY <2>5, <1>i, ResumeListChildrenEffect DEF NowHas
    <3> QED
      BY <3>1, <3>2, <2>0, <2>o, <1>i DEF AlongOpen, NowAt
  <2>6. CASE ResumeChild(c)
    <3>1. PICK t \in call[c].todo, at \in {"resume.next", "resume.reserve"} :
             NowAt(c, "resume", at, t, call[c].todo \ {t})
      BY <2>6, <1>i, ResumeChildEffect
    <3>2. call[c].at = "resume.next" /\ call'[c].top = call[c].top
      BY <2>6, <1>i, ResumeChildEffect DEF NowHas
    <3>3. ~call[c].top /\ edge[t].status = "Open" /\ t \in Agents
      BY <3>2, <2>0, <1>i DEF AlongOpen
    <3> QED
      BY <3>1, <3>2, <3>3, <2>0, <2>o, <1>i DEF AlongOpen, NowAt
  <2>7. CASE ResumeReturn(c) \/ Interrupted(c) \/ OwnerEnded(c)
    <3>1. Done(c)
      BY <2>7 DEF ResumeReturn, Interrupted, OwnerEnded, Abort
    <3> QED
      BY <3>1, <1>e
  <2> QED
    BY <1>3, <2>1, <2>2, <2>3, <2>4, <2>5, <2>6, <2>7
       DEF ControlStep, Start, Step, ResumePlaces, MayStart, SpawnReserve, InputStart,
        ResumeStart, CloseStart, SpawnThread, SpawnThreadFails, SpawnCommit, SpawnEdge,
        SendInput, SendInputDied, DiedRemove, DiedRelease, CloseEdge, CloseEdgeFails,
        CloseSnapshot, StopFlush, StopFlushFails, StopSend, StopWait, StopRemove,
        StopRelease, StopNext, CloseReturn, CloseReturned
<1> QED
  BY <1>1, <1>2, <1>3

\* What a resume relies on while no close runs beside it.
ResumeInv ==
    /\ ResumeApart({"close"})
    /\ \A c \in Calls : AlongOpen(c)

\* It holds initially, when every call is idle.
LEMMA ResumeInvInit ==
    ASSUME ControlInit
    PROVE  ResumeInv
BY DEF ControlInit, ResumeInv, ResumeApart, AlongOpen, Idle

\* It is kept by every step.
LEMMA ResumeInvStep ==
    ASSUME {"resume", "close"} \notin Overlap, ControlBase, ResumeInv,
           [ControlNext]_controlVars
    PROVE  ResumeInv'
<1>1. ResumeApart({"close"})'
  BY ApartStep DEF ResumeInv
<1>2. ASSUME NEW c \in Calls, ControlStep(c), NEW d \in Calls
      PROVE  AlongOpen(d)'
  <2>1. CASE d = c
    BY <1>2, <2>1, AlongOpenOwn DEF ResumeInv
  <2>2. CASE d # c
    <3>1. call'[d] = call[d]
      BY <1>2, <2>2, ThreadsStep, CallStep DEF CallMoves, OnlyMoves
    <3>2. CASE call[d].tool = "resume"
      <4>1. \A t \in Agents : edge[t].status = "Open" => edge'[t].status = "Open"
        BY <1>2, <3>2, OpenStays DEF ResumeInv, ResumeApart
      <4>2. /\ call[d].todo \subseteq Agents
            /\ call[d].at \in {"resume.reserve", "resume.lookup", "resume.thread"} =>
                  call[d].target \in Agents
        BY DEF ControlBase, CallsTyped, CallRecords, CallOld
      <4> QED
        BY <3>1, <4>1, <4>2 DEF ResumeInv, AlongOpen
    <3>3. CASE call[d].tool # "resume"
      BY <3>1, <3>3 DEF AlongOpen
    <3> QED
      BY <3>2, <3>3
  <2> QED
    BY <2>1, <2>2
<1>3. CASE UNCHANGED <<edge, call>>
  BY <1>1, <1>3 DEF ResumeInv, AlongOpen
<1> QED
  BY <1>1, <1>2, <1>3, ControlNextCases DEF ResumeInv

\* Only a spawn of a new thread and a resume of its target load a thread.
LEMMA WhatLoads ==
    ASSUME NEW c \in Calls, ControlBase, ControlStep(c), NEW t \in Agents,
           loaded[t] = 0, loaded'[t] # 0
    PROVE  \/ t \notin Old
           \/ call[c].at = "resume.thread" /\ call[c].target = t
<1>i. ThreadsOK /\ CallsTyped /\ ToolFits(c) /\ CallOld(c)
  BY DEF ControlBase
<1>1. CASE UNCHANGED threadVars \/ StopSend(c)
  BY <1>1 DEF threadVars, StopSend
<1>2. CASE SpawnThread(c)
  <2>1. PICK u \in Fresh : Load(u, call[c].by)
    BY <1>2 DEF SpawnThread
  <2>2. loaded' = [loaded EXCEPT ![u] = instances[u] + 1] /\ u \notin Old
    BY <2>1 DEF Load, Fresh, Old
  <2> QED
    BY <2>2, <1>i DEF ThreadsOK
<1>3. CASE ResumeThread(c)
  <2>1. /\ call[c].at = "resume.thread"
        /\ loaded' = [loaded EXCEPT ![call[c].target] = instances[call[c].target] + 1]
    BY <1>3 DEF ResumeThread, Ready, At, Load
  <2> QED
    BY <2>1, <1>i DEF ThreadsOK
<1>4. CASE ResumeLookup(c) \/ DiedRemove(c) \/ StopRemove(c)
  <2>1. loaded' = loaded \/ loaded' = [loaded EXCEPT ![call[c].target] = 0]
    BY <1>4 DEF ResumeLookup, DiedRemove, StopRemove, threadVars, remove_thread
  <2> QED
    BY <2>1, <1>i DEF ThreadsOK
<1> QED
  BY <1>1, <1>2, <1>3, <1>4, ThreadOutcomes DEF ThreadOutcome

\* While no close runs beside a resume, a closed agent is loaded again only by a
\* resume that names it, however resumes, spawns and inputs overlap or fail.
THEOREM ClosedAgentsStayClosed ==
    {"resume", "close"} \notin Overlap => (ControlSpec => ClosedStaysClosed)
<1> SUFFICES ASSUME {"resume", "close"} \notin Overlap
             PROVE  ControlSpec => ClosedStaysClosed
  OBVIOUS
<1> DEFINE A == \A t \in Agents :
                  (loaded[t] = 0 /\ loaded'[t] # 0 /\ edge[t].status = "Closed") =>
                      \E c \in Calls : call[c].target = t /\ call[c].top
<1>1. ControlInit => ControlBase /\ ResumeInv
  BY ControlBaseInit, ResumeInvInit
<1>2. ControlBase /\ ResumeInv /\ [ControlNext]_controlVars => ControlBase' /\ ResumeInv'
  BY ControlBaseStep, ResumeInvStep
<1>3. ControlBase /\ ResumeInv /\ [ControlNext]_controlVars => A
  <2> SUFFICES ASSUME ControlBase, ResumeInv, [ControlNext]_controlVars, NEW t \in Agents,
                      loaded[t] = 0, loaded'[t] # 0, edge[t].status = "Closed"
               PROVE  \E c \in Calls : call[c].target = t /\ call[c].top
    OBVIOUS
  <2>1. PICK c \in Calls : ControlStep(c)
    BY ControlNextCases
  <2>2. t \in Old
    BY DEF ControlBase, EdgesOK
  <2>3. call[c].at = "resume.thread" /\ call[c].target = t
    BY <2>1, <2>2, WhatLoads
  <2>4. call[c].tool = "resume"
    BY <2>3 DEF ControlBase, ToolFits, FitsAt, ResumePlaces
  <2> QED
    BY <2>3, <2>4 DEF ResumeInv, AlongOpen
<1> QED
  BY <1>1, <1>2, <1>3, PTL DEF ControlSpec, ClosedStaysClosed

----------------------------------------------------------------------------
(* Closing.  While no resume runs beside it, an instance that a close has *)
(* yet to stop stays loaded until this close, or another, has seen it end.  *)

\* The close c will still stop instance i, or is waiting for it.
StillToStop(c, i) ==
    /\ loaded[i[1]] = i[2]
    /\ \/ i[1] \in call[c].todo
       \/ i[1] = call[c].target /\ call[c].at = "stop.flush"
       \/ /\ i[1] = call[c].target /\ i[2] = call[c].waits
          /\ call[c].at \in {"stop.send", "stop.wait"}

\* What a call knows about the sessions it stops.
CloseOK(c) ==
    /\ call[c].at \in {"died.remove", "stop.remove"} => ~Running(call[c].target)
    /\ call[c].at \in {"stop.send", "stop.wait"} =>
          loaded[call[c].target] \in {0, call[c].waits}
    /\ call[c].at = "closed" => ~call[c].failed /\ call[c].todo = {}
    /\ call[c].at \in StopPlaces /\ ~call[c].failed =>
          \A i \in call[c].seen \cap alive : StillToStop(c, i)

\* The places at which CloseOK says something.
StoppingPlaces == {"died.remove"} \cup StopPlaces

\* No agent is loaded again, and no running one is taken out of the thread map.
Settles ==
    /\ \A t \in Old : loaded'[t] \in {loaded[t], 0}
    /\ \A i \in alive' : i[1] \in Old => i \in alive
    /\ \A i \in alive : loaded[i[1]] = i[2] => loaded'[i[1]] = i[2]

\* An instance is a pair, and its thread was loaded.
LEMMA InstanceOf ==
    ASSUME ThreadsOK, NEW i \in alive
    PROVE  i = <<i[1], i[2]>> /\ i[1] \in Agents /\ i[1] \in Old /\ i[2] # 0
<1>1. i = <<i[1], i[2]>> /\ i[1] \in Agents /\ i[2] \in 1 .. MaxInstances
  BY DEF ThreadsOK, Instances
<1>2. i[2] <= instances[i[1]] /\ instances[i[1]] \in Nat
  BY <1>1, ControlAssumption DEF ThreadsOK
<1> QED
  BY <1>1, <1>2, ControlAssumption DEF Old

\* Outside resumes, the thread map settles.
LEMMA SettlesStep ==
    ASSUME NEW c \in Calls, ControlBase, CloseOK(c), call[c].tool # "resume", ControlStep(c)
    PROVE  Settles
<1>i. ThreadsOK /\ CallsTyped /\ ToolFits(c) /\ CallOld(c)
  BY DEF ControlBase
<1>o. Old \subseteq Agents
  BY DEF Old
<1>1. CASE UNCHANGED threadVars \/ StopSend(c)
  BY <1>1 DEF threadVars, StopSend, Settles
<1>2. CASE SpawnThread(c)
  <2>1. PICK u \in Fresh : Load(u, call[c].by)
    BY <1>2 DEF SpawnThread
  <2>2. /\ loaded' = [loaded EXCEPT ![u] = instances[u] + 1] /\ u \notin Old
        /\ alive' = alive \cup {<<u, instances[u] + 1>>}
    BY <2>1 DEF Load, Fresh, Old
  <2>3. \A t \in Old : loaded'[t] = loaded[t]
    BY <2>2, <1>i, <1>o DEF ThreadsOK
  <2>4. \A i \in alive' : i[1] \in Old => i \in alive
    BY <2>2
  <2>5. \A i \in alive : i[1] \in Old
    BY <1>i, InstanceOf
  <2> QED
    BY <2>3, <2>4, <2>5 DEF Settles
<1>3. CASE ResumeThread(c) \/ ResumeLookup(c)
  BY <1>3, <1>i DEF ResumeThread, ResumeLookup, Ready, At, ToolFits, FitsAt, ResumePlaces
<1>4. CASE DiedRemove(c) \/ StopRemove(c)
  <2>1. call[c].at \in {"died.remove", "stop.remove"} /\ remove_thread(call[c].target)
    BY <1>4 DEF DiedRemove, StopRemove, Ready, At
  <2>2. call[c].target \in Agents
    BY <2>1, <1>i, ControlAssumption, TargetOf
  <2>3. ~Running(call[c].target)
    BY <2>1 DEF CloseOK
  <2>4. /\ alive' = alive /\ loaded'[call[c].target] = 0
        /\ \A u \in Agents \ {call[c].target} : loaded'[u] = loaded[u]
    BY <2>1, <2>2, <1>i, RemoveKeeps
  <2>5. ASSUME NEW i \in alive, loaded[i[1]] = i[2]
        PROVE  loaded'[i[1]] = i[2]
    <3>1. i = <<i[1], i[2]>> /\ i[1] \in Agents /\ i[2] # 0
      BY <1>i, InstanceOf
    <3>2. i[1] # call[c].target
      BY <2>3, <2>5, <3>1 DEF Running
    <3> QED
      BY <2>4, <2>5, <3>1, <3>2
  <2> QED
    BY <2>4, <2>5, <1>o DEF Settles
<1> QED
  BY <1>1, <1>2, <1>3, <1>4, ThreadOutcomes DEF ThreadOutcome

\* What a call knows about the sessions it stops is not disturbed by others.
LEMMA CloseFrame ==
    ASSUME NEW d \in Calls, ControlBase, ThreadsOK', Settles, CloseOK(d), call'[d] = call[d]
    PROVE  CloseOK(d)'
<1>i. ThreadsOK /\ CallsTyped /\ CallOld(d)
  BY DEF ControlBase
<1> DEFINE t == call[d].target
<1>t. call[d].at \in StoppingPlaces => t \in Old
  BY <1>i, ControlAssumption, TargetOf DEF StoppingPlaces, StopPlaces
<1>1. ASSUME call[d].at \in {"died.remove", "stop.remove"}
      PROVE  ~Running(t)'
  <2>1. ~Running(t) /\ t \in Old
    BY <1>1, <1>t DEF CloseOK, StoppingPlaces, StopPlaces
  <2> SUFFICES ASSUME loaded'[t] # 0, <<t, loaded'[t]>> \in alive'
               PROVE  FALSE
    BY DEF Running
  <2>2. loaded'[t] = loaded[t]
    BY <2>1 DEF Settles
  <2>3. <<t, loaded[t]>> \in alive
    BY <2>1, <2>2 DEF Settles
  <2> QED
    BY <2>1, <2>2, <2>3 DEF Running
<1>2. ASSUME call[d].at \in {"stop.send", "stop.wait"}
      PROVE  loaded'[t] \in {0, call[d].waits}
  BY <1>2, <1>t DEF CloseOK, Settles, StoppingPlaces, StopPlaces
<1>3. ASSUME call[d].at \in StopPlaces, ~call[d].failed, NEW i \in call[d].seen, i \in alive'
      PROVE  StillToStop(d, i)'
  <2>1. i[1] \in Agents /\ i[2] # 0 /\ i[2] \in Nat
    BY <1>3, ControlAssumption DEF ThreadsOK, Instances
  <2>2. i[2] <= instances[i[1]] /\ instances[i[1]] \in Nat
    BY <2>1, <1>i, ControlAssumption DEF CallOld, ThreadsOK
  <2>3. i[1] \in Old
    BY <2>1, <2>2 DEF Old
  <2>4. i \in alive
    BY <1>3, <2>3 DEF Settles
  <2>5. StillToStop(d, i)
    BY <1>3, <2>4 DEF CloseOK
  <2>6. loaded'[i[1]] = i[2]
    BY <2>4, <2>5 DEF Settles, StillToStop
  <2> QED
    BY <2>5, <2>6 DEF StillToStop
<1> QED
  BY <1>1, <1>2, <1>3 DEF CloseOK, Running

\* The steps of a call that take it to a place at which CloseOK says something.
LEMMA StoppingSteps ==
    ASSUME NEW c \in Calls, ControlBase, ControlStep(c), call'[c].at \in StoppingPlaces
    PROVE  \/ SendInputDied(c) \/ CloseSnapshot(c) \/ StopFlush(c) \/ StopFlushFails(c)
           \/ StopSend(c) \/ StopWait(c) \/ StopRemove(c) \/ StopRelease(c) \/ StopNext(c)
           \/ CloseReturn(c)
<1>i. ThreadsOK /\ CallsTyped /\ ToolFits(c) /\ CallOld(c)
  BY DEF ControlBase
<1>d. call'[c] # Idle
  BY DEF Idle, StoppingPlaces, StopPlaces
<1>e. ~Done(c)
  BY <1>d, <1>i, DoneEffect
<1>g. ASSUME NEW at \in Places \ StoppingPlaces
      PROVE  ~Goto(c, at)
  <2>1. at \in Places /\ at \notin StoppingPlaces
    OBVIOUS
  <2> QED
    BY <2>1, <1>i, GotoEffect
<1>r. ASSUME call'[c].tool = "resume" \/ call'[c].at \in {"spawn.thread", "spawn.commit",
                 "input", "close.edge"}
      PROVE  FALSE
  <2>1. ToolFits(c)'
    BY ThreadsStep, CallStep DEF CallMoves
  <2> QED
    BY <1>r, <2>1 DEF ToolFits, FitsAt, StoppingPlaces, InputPlaces, ClosePlaces, StopPlaces
<1> USE DEF Ready, At
<1>1. ~SendInput(c) /\ ~DiedRelease(c) /\ ~SpawnThreadFails(c) /\ ~ResumeReturn(c)
      /\ ~CloseReturned(c) /\ ~Interrupted(c) /\ ~OwnerEnded(c)
  BY <1>e DEF SendInput, DiedRelease, SpawnThreadFails, ResumeReturn, CloseReturned,
      Interrupted, OwnerEnded, Abort
<1>2. ~DiedRemove(c) /\ ~SpawnCommit(c) /\ ~SpawnEdge(c) /\ ~CloseEdge(c) /\ ~CloseEdgeFails(c)
  <2>1. \A at \in {"died.release", "spawn.edge", "input", "close.snapshot"} : ~Goto(c, at)
    BY <1>g DEF Places, StoppingPlaces, StopPlaces
  <2> QED
    BY <2>1, <1>e DEF DiedRemove, SpawnCommit, SpawnEdge, CloseEdge, CloseEdgeFails
<1>3. ~ResumeReserve(c) /\ ~ResumeLookup(c) /\ ~ResumeThread(c) /\ ~ResumeCommit(c)
  <2>1. \A at \in {"resume.lookup", "resume.lifecycle", "resume.thread", "resume.edge"} :
           ~Goto(c, at)
    BY <1>g DEF Places, StoppingPlaces, StopPlaces
  <2> QED
    BY <2>1 DEF ResumeReserve, ResumeLookup, ResumeThread, ResumeCommit
<1>4. ~SpawnReserve(c) /\ ~SpawnThread(c) /\ ~InputStart(c) /\ ~ResumeStart(c) /\ ~CloseStart(c)
  BY <1>i, <1>r, SpawnReserveEffect, SpawnThreadEffect, InputStartEffect, ResumeStartEffect,
     CloseStartEffect DEF NowAt
<1>5. ~ResumeLimitReached(c) /\ ~ResumeThreadFails(c)
  <2> SUFFICES ASSUME ResumeFailed(c), call[c].at \in {"resume.reserve", "resume.thread"}
               PROVE  FALSE
    BY DEF ResumeLimitReached, ResumeThreadFails
  <2>1. call[c].tool = "resume"
    BY <1>i DEF ToolFits, FitsAt, ResumePlaces
  <2> QED
    BY <2>1, <1>i, <1>d, <1>r, ResumeFailedEffect DEF NowAt
<1>6. ~ResumeEdge(c) /\ ~ResumeCheck(c) /\ ~ResumeListChildren(c) /\ ~ResumeChild(c)
  BY <1>i, <1>d, <1>r, ResumeEdgeEffect, ResumeCheckEffect, ResumeListChildrenEffect,
     ResumeChildEffect DEF NowAt
<1> QED
  BY <1>1, <1>2, <1>3, <1>4, <1>5, <1>6 DEF ControlStep, Start, Step

\* A step of the call that stops.
LEMMA CloseOwn ==
    ASSUME NEW c \in Calls, ControlBase, ControlStep(c), CloseOK(c)
    PROVE  CloseOK(c)'
<1>i. ThreadsOK /\ CallsTyped /\ ToolFits(c) /\ CallOld(c)
  BY DEF ControlBase
<1> DEFINE t == call[c].target
<1> USE DEF Ready, At
<1>0. CASE call'[c].at \notin StoppingPlaces
  BY <1>0 DEF CloseOK, StoppingPlaces, StopPlaces
<1>1. CASE SendInputDied(c)
  <2>1. /\ Goto(c, "died.remove") /\ ~Running(t) /\ loaded' = loaded /\ alive' = alive
    BY <1>1 DEF SendInputDied, threadVars
  <2>2. call'[c].at = "died.remove" /\ call'[c].target = t
    BY <2>1, <1>i, GotoEffect DEF Places
  <2> QED
    BY <2>1, <2>2 DEF CloseOK, Running, StopPlaces
<1>2. CASE CloseSnapshot(c)
  <2>1. loaded' = loaded /\ alive' = alive
    BY <1>2 DEF CloseSnapshot, threadVars
  <2>2. /\ call'[c].at = "stop.flush" /\ call'[c].target = t
        /\ call'[c].todo = live_thread_spawn_descendants(t)
        /\ call'[c].seen = Snapshot(t)
    BY <1>2, <1>i, CloseSnapshotEffect DEF NowAt, NowHas
  <2>3. ASSUME NEW i \in call'[c].seen
        PROVE  StillToStop(c, i)'
    <3>1. PICK u \in live_thread_spawn_descendants(t) \cup {t} : i = <<u, loaded[u]>>
      BY <2>2, <2>3 DEF Snapshot
    <3> QED
      BY <2>1, <2>2, <3>1 DEF StillToStop
  <2> QED
    BY <2>2, <2>3 DEF CloseOK, StopPlaces
<1>3. CASE StopFlush(c)
  <2>1. loaded' = loaded /\ alive' = alive
    BY <1>3 DEF StopFlush, threadVars
  <2>2. /\ call[c].at = "stop.flush"
        /\ call'[c].at = "stop.send"
        /\ call'[c].target = t /\ call'[c].todo = call[c].todo
        /\ call'[c].failed = call[c].failed
        /\ call'[c].waits = loaded[t] /\ call'[c].seen = call[c].seen
    BY <1>3, <1>i, StopFlushEffect DEF NowAt, NowHas
  <2>3. ASSUME ~call[c].failed, NEW i \in call[c].seen \cap alive
        PROVE  StillToStop(c, i)'
    <3>1. StillToStop(c, i)
      BY <2>2, <2>3 DEF CloseOK, StopPlaces
    <3>2. i[2] # 0
      BY <1>i, InstanceOf
    <3> QED
      BY <2>1, <2>2, <3>1, <3>2 DEF StillToStop
  <2> QED
    BY <2>1, <2>2, <2>3 DEF CloseOK, Running
<1>4. CASE StopFlushFails(c)
  <2>1. \/ call'[c] = Idle
        \/ call'[c].at = "stop.next" /\ call'[c].failed = TRUE
    BY <1>4, <1>i, StopFlushFailsEffect DEF NowAt, NowHas
  <2> QED
    BY <2>1 DEF CloseOK, Idle, StopPlaces
<1>5. CASE StopSend(c)
  <2>1. loaded' = loaded /\ alive' = alive /\ Goto(c, "stop.wait") /\ call[c].at = "stop.send"
    BY <1>5 DEF StopSend
  <2>2. /\ call'[c].at = "stop.wait" /\ call'[c].target = t /\ call'[c].todo = call[c].todo
        /\ call'[c].waits = call[c].waits /\ call'[c].seen = call[c].seen
        /\ call'[c].failed = call[c].failed
    BY <2>1, <1>i, GotoEffect DEF Places
  <2>3. ASSUME ~call[c].failed, NEW i \in call[c].seen \cap alive
        PROVE  StillToStop(c, i)'
    <3>1. StillToStop(c, i)
      BY <2>1, <2>3 DEF CloseOK, StopPlaces
    <3> QED
      BY <2>1, <2>2, <3>1 DEF StillToStop
  <2> QED
    BY <2>1, <2>2, <2>3 DEF CloseOK, Running
<1>6. CASE StopWait(c)
  <2>1. /\ loaded' = loaded /\ alive' = alive /\ Goto(c, "stop.remove")
        /\ call[c].at = "stop.wait" /\ <<t, call[c].waits>> \notin alive
    BY <1>6 DEF StopWait, threadVars
  <2>2. /\ call'[c].at = "stop.remove" /\ call'[c].target = t /\ call'[c].todo = call[c].todo
        /\ call'[c].seen = call[c].seen /\ call'[c].failed = call[c].failed
    BY <2>1, <1>i, GotoEffect DEF Places
  <2>3. ASSUME ~call[c].failed, NEW i \in call[c].seen \cap alive
        PROVE  StillToStop(c, i)'
    <3>1. StillToStop(c, i)
      BY <2>1, <2>3 DEF CloseOK, StopPlaces
    <3>2. i = <<i[1], i[2]>>
      BY <1>i, InstanceOf
    <3>3. i[1] \in call[c].todo
      BY <2>1, <3>1, <3>2 DEF StillToStop
    <3> QED
      BY <2>1, <2>2, <3>1, <3>3 DEF StillToStop
  <2>4. ~Running(t)'
    <3>1. loaded[t] \in {0, call[c].waits}
      BY <2>1 DEF CloseOK
    <3>2. loaded[t] = 0 \/ <<t, loaded[t]>> \notin alive
      BY <2>1, <3>1
    <3>3. loaded'[t] = 0 \/ <<t, loaded'[t]>> \notin alive'
      BY <2>1, <3>2
    <3> QED
      BY <2>2, <3>3 DEF Running
  <2> QED
    BY <2>1, <2>2, <2>3, <2>4 DEF CloseOK, Running
<1>7. CASE StopRemove(c)
  <2>1. call[c].at = "stop.remove" /\ Goto(c, "stop.release")
    BY <1>7 DEF StopRemove
  <2>2. /\ call'[c].at = "stop.release" /\ call'[c].todo = call[c].todo
        /\ call'[c].seen = call[c].seen /\ call'[c].failed = call[c].failed
    BY <2>1, <1>i, GotoEffect DEF Places
  <2>3. Settles
    BY <2>1, <1>i, SettlesStep DEF ToolFits, FitsAt, ClosePlaces, StopPlaces
  <2>4. alive' = alive
    BY <1>7 DEF StopRemove, remove_thread
  <2>5. ASSUME ~call[c].failed, NEW i \in call[c].seen \cap alive
        PROVE  StillToStop(c, i)'
    <3>1. StillToStop(c, i)
      BY <2>1, <2>5 DEF CloseOK, StopPlaces
    <3> QED
      BY <2>1, <2>2, <2>3, <3>1 DEF StillToStop, Settles
  <2> QED
    BY <2>2, <2>4, <2>5 DEF CloseOK
<1>8. CASE StopRelease(c)
  <2>1. loaded' = loaded /\ alive' = alive
    BY <1>8 DEF StopRelease, threadVars
  <2>2. /\ call[c].at = "stop.release" /\ call'[c].at = "stop.next"
        /\ call'[c].todo = call[c].todo /\ call'[c].failed = call[c].failed
        /\ call'[c].seen = call[c].seen
    BY <1>8, <1>i, StopReleaseEffect DEF NowAt, NowHas
  <2>3. ASSUME ~call[c].failed, NEW i \in call[c].seen \cap alive
        PROVE  StillToStop(c, i)'
    <3>1. StillToStop(c, i)
      BY <2>2, <2>3 DEF CloseOK, StopPlaces
    <3> QED
      BY <2>1, <2>2, <3>1 DEF StillToStop
  <2> QED
    BY <2>1, <2>2, <2>3 DEF CloseOK
<1>9. CASE StopNext(c)
  <2>1. loaded' = loaded /\ alive' = alive
    BY <1>9 DEF StopNext, threadVars
  <2>2. PICK u \in call[c].todo : NowAt(c, "close", "stop.flush", u, call[c].todo \ {u})
    BY <1>9, <1>i, StopNextEffect
  <2>3. /\ call[c].at = "stop.next" /\ call'[c].failed = call[c].failed
        /\ call'[c].seen = call[c].seen
    BY <1>9, <1>i, StopNextEffect DEF NowHas
  <2>4. ASSUME ~call[c].failed, NEW i \in call[c].seen \cap alive
        PROVE  StillToStop(c, i)'
    <3>1. StillToStop(c, i)
      BY <2>3, <2>4 DEF CloseOK, StopPlaces
    <3> QED
      BY <2>1, <2>2, <2>3, <3>1 DEF StillToStop, NowAt
  <2> QED
    BY <2>1, <2>2, <2>3, <2>4 DEF CloseOK, NowAt
<1>10. CASE CloseReturn(c)
  <2>1. /\ loaded' = loaded /\ alive' = alive /\ call[c].at = "stop.next" /\ call[c].todo = {}
        /\ Done(c) \/ (~call[c].failed /\ Goto(c, "closed"))
    BY <1>10 DEF CloseReturn, threadVars
  <2>2. CASE Done(c)
    BY <2>2, <1>0, <1>i, DoneEffect DEF StoppingPlaces, StopPlaces
  <2>3. CASE ~call[c].failed /\ Goto(c, "closed")
    <3>1. /\ call'[c].at = "closed" /\ call'[c].todo = {} /\ ~call'[c].failed
          /\ call'[c].seen = call[c].seen
      BY <2>1, <2>3, <1>i, GotoEffect DEF Places
    <3>2. ASSUME NEW i \in call[c].seen \cap alive
          PROVE  FALSE
      BY <2>1, <2>3 DEF CloseOK, StillToStop, StopPlaces
    <3> QED
      BY <2>1, <3>1, <3>2 DEF CloseOK
  <2> QED
    BY <2>1, <2>2, <2>3
<1> QED
  BY <1>0, <1>1, <1>2, <1>3, <1>4, <1>5, <1>6, <1>7, <1>8, <1>9, <1>10, StoppingSteps

\* What closes rely on while no resume runs beside them.
CloseInv ==
    /\ ResumeApart({"spawn", "input", "close"})
    /\ \A c \in Calls : CloseOK(c)

\* It holds initially, when every call is idle.
LEMMA CloseInvInit ==
    ASSUME ControlInit
    PROVE  CloseInv
BY DEF ControlInit, CloseInv, ResumeApart, CloseOK, StopPlaces, Idle

\* It is kept by every step, of a call or of a session that ends.
LEMMA CloseInvStep ==
    ASSUME \A x \in {"spawn", "input", "close"} : {"resume", x} \notin Overlap,
           ControlBase, CloseInv, [ControlNext]_controlVars
    PROVE  CloseInv'
<1>1. ResumeApart({"spawn", "input", "close"})'
  BY ApartStep DEF CloseInv
<1>t. ThreadsOK'
  BY ControlBaseStep DEF ControlBase
<1>2. ASSUME NEW c \in Calls, ControlStep(c), NEW d \in Calls
      PROVE  CloseOK(d)'
  <2>1. CASE d = c
    BY <1>2, <2>1, CloseOwn DEF CloseInv
  <2>2. CASE d # c
    <3>1. call'[d] = call[d]
      BY <1>2, <2>2, ThreadsStep, CallStep DEF CallMoves, OnlyMoves
    <3>2. CASE call[d].at \notin StoppingPlaces
      BY <3>1, <3>2 DEF CloseOK, StoppingPlaces, StopPlaces
    <3>3. CASE call[d].at \in StoppingPlaces
      <4>1. call[d].tool \in {"spawn", "input", "close"}
        BY <3>3 DEF ControlBase, ToolFits, FitsAt, StoppingPlaces, InputPlaces, ClosePlaces,
            StopPlaces
      <4>2. call[c].tool # "resume"
        BY <4>1 DEF CloseInv, ResumeApart
      <4>3. Settles
        BY <1>2, <4>2, SettlesStep DEF CloseInv
      <4> QED
        BY <1>t, <3>1, <4>3, CloseFrame DEF CloseInv
    <3> QED
      BY <3>2, <3>3
  <2> QED
    BY <2>1, <2>2
<1>3. CASE UNCHANGED <<loaded, call>> /\ alive' \subseteq alive
  <2>1. Settles
    BY <1>3 DEF Settles
  <2> QED
    BY <1>1, <1>3, <1>t, <2>1, CloseFrame DEF CloseInv
<1> QED
  BY <1>1, <1>2, <1>3, ControlNextCases DEF CloseInv

\* A close that returns Ok has nothing left to stop.
LEMMA CloseInvImplies ==
    ASSUME CloseInv
    PROVE  CloseStopsSnapshot
<1> SUFFICES ASSUME NEW c \in Calls, call[c].at = "closed", NEW i \in call[c].seen \cap alive
             PROVE  FALSE
  BY DEF CloseStopsSnapshot, At
<1>1. CloseOK(c)
  BY DEF CloseInv
<1>2. call[c].todo = {} /\ StillToStop(c, i)
  BY <1>1 DEF CloseOK, StopPlaces
<1> QED
  BY <1>2 DEF StillToStop

\* The stores of agent control stay on the safe side of each other, however
\* spawns, inputs and closes overlap, fail and are interrupted, provided that no
\* resume runs beside them: handle_resume_agent may load an agent again that a
\* concurrent close has already stopped and will not look at again.
THEOREM ControlIsSafe ==
    (\A x \in {"spawn", "input", "close"} : {"resume", x} \notin Overlap) =>
        (ControlSpec => []ControlInv)
<1> SUFFICES ASSUME \A x \in {"spawn", "input", "close"} : {"resume", x} \notin Overlap
             PROVE  ControlSpec => []ControlInv
  OBVIOUS
<1>1. ControlInit => CloseInv
  BY CloseInvInit
<1>2. ControlBase /\ CloseInv /\ [ControlNext]_controlVars => CloseInv'
  BY CloseInvStep
<1>3. ControlBase /\ CloseInv => ControlInv
  BY BaseImplies, CloseInvImplies DEF ControlInv
<1> QED
  BY <1>1, <1>2, <1>3, AlwaysControlBase, PTL DEF ControlSpec
=============================================================================
