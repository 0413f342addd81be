------------------------- MODULE SessionTurnProofs -------------------------
(***************************************************************************)
(* TurnInv, InputConserved and SteerRecordedBeforeComplete for any number  *)
(* of operations, turns and turn states, in sessions in which one actor at *)
(* a time starts turns.                                                    *)
(***************************************************************************)
EXTENDS SessionTurn, FiniteSetTheorems, TLAPS

----------------------------------------------------------------------------
(* The sessions that the theorems are about. *)

\* A client's session: turns are started, steered, replaced and interrupted.
ClientKinds == {"user", "spawn", "interrupt", "steer"}
\* A session that is talked to and gets mail, but is not interrupted.
ChatKinds == {"user", "mail", "steer"}
\* A sub-agent's session: every turn is started for mail or by try_start_turn_if_idle.
AgentKinds == {"mail", "trigger", "try_start", "steer"}

\* No goal, and no session in which user input and trigger mail meet, or mail and interrupts.
OneStarter ==
    /\ MaxGoals = 0
    /\ \A session \in Sessions : \E K \in {ClientKinds, ChatKinds, AgentKinds} :
          \A o \in session : OpKind[o] \in K

\* The operations sent so far are of these kinds.
SentOnly(K) == \A o \in Ops \ ops : OpKind[o] \in K

SessionKnown == SentOnly(ClientKinds) \/ SentOnly(ChatKinds) \/ SentOnly(AgentKinds)

\* Only the submission loop starts turns ...
LoopStarts == SentOnly(ClientKinds \cup ChatKinds)
\* ... or whoever reserved the active turn does.
ReserverStarts == SentOnly(AgentKinds)

----------------------------------------------------------------------------
(* The inductive invariant. *)

Starting == {"start.take", "start.drain", "start.state", "start.extend", "start.spawn"}
Pending == {"pending.check", "pending.reserve"}
Aborting == {"abort.cancel", "abort.wait", "abort.event", "abort.clear"}
Holding == {"try.recheck", "try.recheck2", "try.yield", "try.confirm", "try.extend"}
Finishing == {"finish.record", "finish.event", "finish.clear"}

LoopPlaces == {"idle", "abort.take"} \cup Starting \cup Pending \cup Aborting
TurnPlaces == {"unborn", "over", "goal.read"} \cup Body \cup Finishing \cup Pending \cup Starting
OpPlaces == {"idle", "try.reserve"} \cup Holding \cup Pending \cup Starting

\* Only mail is in the mailbox.
MailboxSent == \A o \in mailbox : o \notin ops /\ OpKind[o] \in {"mail", "trigger"}

\* Where an actor can be, and where it goes from there.
PlaceOK(a) ==
    /\ a = LOOP =>
         /\ fr[a].at \in LoopPlaces
         /\ fr[a].at # "idle" => fr[a].ret = "idle"
    /\ a \in Turns =>
         /\ fr[a].at \in TurnPlaces
         /\ fr[a].at \in Pending \cup Starting => fr[a].ret = "goal.read"
    /\ a \in Ops =>
         /\ fr[a].at \in OpPlaces
         /\ fr[a].at \in Pending \cup Starting => fr[a].ret = "idle"
         /\ fr[a].at # "idle" => a \notin ops /\ OpKind[a] = "try_start"

ItemPlaces == {"start.drain", "start.state", "start.extend", "turn.drain", "turn.record",
               "try.reserve"} \cup Holding
StatePlaces == {"start.extend"} \cup Holding \cup Aborting \cup Finishing
InputPlaces == {"abort.take"} \cup Aborting \cup Starting

\* The locals that matter at a place are set there, and no others.
LocalsOK(a) ==
    /\ fr[a].items # {} => fr[a].at \in ItemPlaces
    /\ fr[a].at \in {"try.reserve"} \cup Holding => fr[a].items = {a}
    /\ fr[a].ts # None <=> fr[a].at \in StatePlaces
    /\ fr[a].turn # None <=> fr[a].at \in Aborting
    /\ fr[a].input # {} =>
         /\ fr[a].at \in InputPlaces /\ fr[a].kind = "Regular"
         /\ fr[a].at \in Starting \/ fr[a].reason # "Interrupted"
    /\ ~fr[a].permit

\* Who starts turns depends on what the session was sent.
LoopOnly(a) ==
    LoopStarts => /\ a # LOOP => fr[a].at \notin Starting \cup Try
                  /\ fr[a].at # "pending.reserve"
ReserversOnly(a) ==
    ReserverStarts => fr[a].at \notin {"abort.take"} \cup Aborting

FrameOK(a) == PlaceOK(a) /\ LocalsOK(a) /\ LoopOnly(a) /\ ReserversOnly(a)

\* Who is about to start a turn, or holds the turn state of a reserved active turn.
Owns(a) ==
    \/ fr[a].at \in Starting
    \/ fr[a].ts # None /\ Reserved(fr[a].ts)

OneOwner == \A a, b \in Actors : Owns(a) /\ Owns(b) => a = b
StatesApart ==
    /\ \A a, b \in Actors : fr[a].ts # None /\ fr[a].ts = fr[b].ts => a = b
    /\ HasTask => \A a \in Actors : fr[a].ts # active.ts
ReservedIsOwned == active # None /\ ~HasTask => \E a \in Actors : Owns(a)

\* What an actor may rely on where it starts or finishes a turn.
StartOK(a) ==
    /\ fr[a].at \in Starting => ~HasTask
    /\ fr[a].at \in {"start.extend"} \cup Holding => Reserved(fr[a].ts)
    /\ fr[a].at = "start.spawn" => active # None
    /\ fr[a].at \in {"start.take", "start.drain", "start.state"} =>
         /\ LoopStarts => active = None
         /\ ReserverStarts => active # None
    /\ fr[a].at \in Finishing /\ ReserverStarts => Reserved(fr[a].ts)

OwnInv == OneOwner /\ StatesApart /\ ReservedIsOwned /\ \A a \in Actors : StartOK(a)

\* The loop has taken turn t away and stops its runner.
Stops(t) == fr[LOOP].at \in {"abort.cancel", "abort.wait"} /\ fr[LOOP].turn = t

\* What the loop relies on while it aborts.
AbortOK ==
    /\ fr[LOOP].at \in Aborting =>
         /\ active = None /\ fr[LOOP].turn \in Turns /\ ~SentOnly(ChatKinds)
         /\ "TurnComplete" \notin turn[fr[LOOP].turn].events
         /\ fr[fr[LOOP].turn].at \in Body \cup {"over"}
         /\ fr[LOOP].at \in {"abort.event", "abort.clear"} => fr[fr[LOOP].turn].at = "over"
    /\ fr[LOOP].at = "abort.take" /\ SentOnly(ChatKinds) => ~HasTask

\* The runner of a turn.
RunnerOK(t) ==
    /\ fr[t].at \in Body => TaskIs(t) \/ Stops(t)
    /\ TaskIs(t) => fr[t].at \in Body /\ ~turn[t].cancelled
    /\ fr[t].at \in Body \cup {"unborn"} => turn[t].events \cap {"TurnComplete", "TurnAborted"} = {}
    /\ fr[t].at \in Finishing => "TurnAborted" \notin turn[t].events
    /\ ~({"TurnComplete", "TurnAborted"} \subseteq turn[t].events)
    /\ fr[t].at = "turn.drain" /\ TaskIs(t) => turn_state[active.ts].phase = "CurrentTurn"

TurnsInv == AbortOK /\ \A t \in Turns : RunnerOK(t)

\* The inductive invariant.
Inv ==
    /\ TypeOK /\ SessionKnown /\ MailboxSent
    /\ \A a \in Actors : FrameOK(a)
    /\ OwnInv /\ TurnsInv

----------------------------------------------------------------------------
(* What a step does to the frames, the turn states and the turns. *)

AllPlaces == Body \cup Finish \cup Call \cup Try \cup {"idle", "unborn", "over"}
FrameRecords ==
    [at : AllPlaces, items : SUBSET (Items \cup {GOAL}), ts : States \cup {None},
     turn : Turns \cup {None}, kind : {"Regular", "Other", "Shell"}, input : SUBSET Items,
     ret : {"idle", "goal.read", "over", None},
     reason : {"Replaced", "Interrupted", None}, permit : BOOLEAN]
StateRecords == [pending : SUBSET (Items \cup {GOAL}), phase : {"CurrentTurn", "NextTurn"}]
TurnRecords ==
    [kind : {"Regular", "Other", "Shell", None}, input : SUBSET Items, cancelled : BOOLEAN,
     events : SUBSET {"TurnStarted", "TurnComplete", "TurnAborted"},
     follow_up : BOOLEAN, rounds : 0 .. MaxRounds]

FramesTyped == fr \in [Actors -> FrameRecords]
StatesTyped == turn_state \in [States -> StateRecords]
TurnsTyped == turn \in [Turns -> TurnRecords]
ActiveTyped == active \in [task : Turns \cup {None}, ts : States] \cup {None}
RestTyped ==
    /\ mailbox \subseteq Items /\ history \subseteq Items /\ discarded \subseteq Items
    /\ ops \subseteq Ops
    /\ reply \in [Ops -> Turns \cup {Rejected, None}]
    /\ goal_active \in BOOLEAN /\ goal_turns \in 0 .. MaxGoals

\* TypeOK, variable by variable.
LEMMA TypeParts ==
    TypeOK <=> FramesTyped /\ StatesTyped /\ TurnsTyped /\ ActiveTyped /\ RestTyped
BY DEF TypeOK, FramesTyped, StatesTyped, TurnsTyped, ActiveTyped, RestTyped, FrameRecords,
       StateRecords, TurnRecords, AllPlaces

\* Only the frame of actor a changes.
Moves(a) == \A b \in Actors \ {a} : fr'[b] = fr[b]

\* The locals that a step inside a call leaves alone.
KeepsCall(a) ==
    /\ fr'[a].turn = fr[a].turn /\ fr'[a].kind = fr[a].kind /\ fr'[a].input = fr[a].input
    /\ fr'[a].ret = fr[a].ret /\ fr'[a].reason = fr[a].reason /\ fr'[a].permit = fr[a].permit

\* The frame of an actor is replaced.
LEMMA FrameMove ==
    ASSUME FramesTyped, NEW a \in Actors, NEW r \in FrameRecords, GotoWith(a, r)
    PROVE  FramesTyped' /\ Moves(a) /\ fr'[a] = r
BY DEF FramesTyped, Moves, GotoWith

\* An actor goes on to another place.
LEMMA GotoMove ==
    ASSUME FramesTyped, NEW a \in Actors, NEW p \in AllPlaces, Goto(a, p)
    PROVE  /\ FramesTyped' /\ Moves(a) /\ KeepsCall(a) /\ fr'[a].at = p
           /\ fr'[a].items = fr[a].items /\ fr'[a].ts = fr[a].ts
<1> DEFINE r == [fr[a] EXCEPT !.at = p]
<1>1. fr[a] \in FrameRecords
  BY DEF FramesTyped
<1>2. r \in FrameRecords
  BY <1>1 DEF FrameRecords
<1>3. GotoWith(a, r)
  BY DEF Goto, GotoWith, FramesTyped
<1>4. /\ r.at = p /\ r.items = fr[a].items /\ r.ts = fr[a].ts /\ r.turn = fr[a].turn
      /\ r.kind = fr[a].kind /\ r.input = fr[a].input /\ r.ret = fr[a].ret
      /\ r.reason = fr[a].reason /\ r.permit = fr[a].permit
  BY <1>1 DEF FrameRecords
<1> QED
  BY <1>2, <1>3, <1>4, FrameMove DEF KeepsCall

\* ... with other items,
LEMMA ItemsMove ==
    ASSUME FramesTyped, NEW a \in Actors, NEW p \in AllPlaces,
           NEW X \in SUBSET (Items \cup {GOAL}),
           fr' = [fr EXCEPT ![a].items = X, ![a].at = p]
    PROVE  /\ FramesTyped' /\ Moves(a) /\ KeepsCall(a) /\ fr'[a].at = p
           /\ fr'[a].items = X /\ fr'[a].ts = fr[a].ts
<1> DEFINE r == [fr[a] EXCEPT !.items = X, !.at = p]
<1>1. fr[a] \in FrameRecords
  BY DEF FramesTyped
<1>2. r \in FrameRecords
  BY <1>1 DEF FrameRecords
<1>3. GotoWith(a, r)
  BY DEF GotoWith, FramesTyped
<1>4. /\ r.at = p /\ r.items = X /\ r.ts = fr[a].ts /\ r.turn = fr[a].turn
      /\ r.kind = fr[a].kind /\ r.input = fr[a].input /\ r.ret = fr[a].ret
      /\ r.reason = fr[a].reason /\ r.permit = fr[a].permit
  BY <1>1 DEF FrameRecords
<1> QED
  BY <1>2, <1>3, <1>4, FrameMove DEF KeepsCall

\* a holds turn state s and goes on to p.
TakesState(a, s, p) == fr' = [fr EXCEPT ![a].ts = s, ![a].at = p]
StateTaken(a, s, p) ==
    /\ FramesTyped' /\ Moves(a) /\ KeepsCall(a) /\ fr'[a].at = p
    /\ fr'[a].items = fr[a].items /\ fr'[a].ts = s

\* ... with a turn state,
LEMMA StateMove ==
    ASSUME FramesTyped, NEW a \in Actors, NEW p \in AllPlaces, NEW s \in States \cup {None},
           TakesState(a, s, p)
    PROVE  StateTaken(a, s, p)
<1> DEFINE r == [fr[a] EXCEPT !.ts = s, !.at = p]
<1>1. fr[a] \in FrameRecords
  BY DEF FramesTyped
<1>2. r \in FrameRecords
  BY <1>1 DEF FrameRecords
<1>3. GotoWith(a, r)
  BY DEF GotoWith, FramesTyped, TakesState
<1>4. /\ r.at = p /\ r.items = fr[a].items /\ r.ts = s /\ r.turn = fr[a].turn
      /\ r.kind = fr[a].kind /\ r.input = fr[a].input /\ r.ret = fr[a].ret
      /\ r.reason = fr[a].reason /\ r.permit = fr[a].permit
  BY <1>1 DEF FrameRecords
<1> QED
  BY <1>2, <1>3, <1>4, FrameMove DEF KeepsCall, StateTaken

\* ... or with an empty frame but for its place and return.
LEMMA FreshMove ==
    ASSUME FramesTyped, NEW a \in Actors, NEW p \in AllPlaces,
           NEW q \in {"idle", "goal.read", "over", None},
           GotoWith(a, [Frame(p) EXCEPT !.ret = q]) \/ (q = None /\ GotoWith(a, Frame(p)))
    PROVE  /\ FramesTyped' /\ Moves(a) /\ fr'[a].at = p /\ fr'[a].ret = q
           /\ fr'[a].items = {} /\ fr'[a].ts = None /\ fr'[a].turn = None
           /\ fr'[a].input = {} /\ ~fr'[a].permit
<1>1. Frame(p) \in FrameRecords
  BY DEF FrameRecords, Frame
<1>2. CASE GotoWith(a, [Frame(p) EXCEPT !.ret = q])
  <2> DEFINE r == [Frame(p) EXCEPT !.ret = q]
  <2>1. r \in FrameRecords
    BY <1>1 DEF FrameRecords
  <2>2. /\ r.at = p /\ r.ret = q /\ r.items = {} /\ r.ts = None /\ r.turn = None
        /\ r.input = {} /\ r.permit = FALSE
    BY DEF Frame
  <2> QED
    BY <1>2, <2>1, <2>2, FrameMove
<1>3. CASE q = None /\ GotoWith(a, Frame(p))
  <2> DEFINE r == Frame(p)
  <2>1. /\ r.at = p /\ r.ret = None /\ r.items = {} /\ r.ts = None /\ r.turn = None
        /\ r.input = {} /\ r.permit = FALSE
    BY DEF Frame
  <2> QED
    BY <1>1, <1>3, <2>1, FrameMove
<1> QED
  BY <1>2, <1>3

\* The places of the actors that the steps lead to.
LEMMA PlacesKnown ==
    /\ LoopPlaces \subseteq AllPlaces /\ TurnPlaces \subseteq AllPlaces
    /\ OpPlaces \subseteq AllPlaces
BY DEF LoopPlaces, TurnPlaces, OpPlaces, AllPlaces, Body, Finish, Call, Try, Starting, Pending,
       Aborting, Holding, Finishing

\* Only turn state s changes.
StateIs(s, pending, phase) ==
    /\ StatesTyped'
    /\ turn_state'[s].pending = pending /\ turn_state'[s].phase = phase
    /\ \A r \in States \ {s} : turn_state'[r] = turn_state[r]

\* A turn state is replaced.
LEMMA StateChange ==
    ASSUME StatesTyped, NEW s \in States, NEW r \in StateRecords,
           turn_state' = [turn_state EXCEPT ![s] = r]
    PROVE  StateIs(s, r.pending, r.phase)
BY DEF StatesTyped, StateIs

\* The pending input of a turn state changes.
LEMMA PendingChange ==
    ASSUME StatesTyped, NEW s \in States, NEW X \in SUBSET (Items \cup {GOAL}),
           turn_state' = [turn_state EXCEPT ![s].pending = X]
    PROVE  StateIs(s, X, turn_state[s].phase)
<1> DEFINE r == [turn_state[s] EXCEPT !.pending = X]
<1>1. turn_state[s] \in StateRecords
  BY DEF StatesTyped
<1>2. r \in StateRecords /\ r.pending = X /\ r.phase = turn_state[s].phase
  BY <1>1 DEF StateRecords
<1>3. turn_state' = [turn_state EXCEPT ![s] = r]
  BY DEF StatesTyped
<1> QED
  BY <1>2, <1>3, StateChange

\* Its phase changes.
LEMMA PhaseChange ==
    ASSUME StatesTyped, NEW s \in States, NEW p \in {"CurrentTurn", "NextTurn"},
           turn_state' = [turn_state EXCEPT ![s].phase = p]
    PROVE  StateIs(s, turn_state[s].pending, p)
<1> DEFINE r == [turn_state[s] EXCEPT !.phase = p]
<1>1. turn_state[s] \in StateRecords
  BY DEF StatesTyped
<1>2. r \in StateRecords /\ r.pending = turn_state[s].pending /\ r.phase = p
  BY <1>1 DEF StateRecords
<1>3. turn_state' = [turn_state EXCEPT ![s] = r]
  BY DEF StatesTyped
<1> QED
  BY <1>2, <1>3, StateChange

\* Input is added.
LEMMA ExtendChange ==
    ASSUME StatesTyped, NEW s \in States, NEW X \in SUBSET (Items \cup {GOAL}), Extend(s, X)
    PROVE  StateIs(s, turn_state[s].pending \cup X, turn_state[s].phase)
<1>1. turn_state[s].pending \cup X \in SUBSET (Items \cup {GOAL})
  BY DEF StatesTyped, StateRecords
<1>2. turn_state' = [turn_state EXCEPT ![s].pending = turn_state[s].pending \cup X]
  BY DEF Extend, StatesTyped
<1> QED
  BY <1>1, <1>2, PendingChange

\* A new turn state is empty.
LEMMA NewChange ==
    ASSUME StatesTyped, NEW s \in States, turn_state' = [turn_state EXCEPT ![s] = NewState]
    PROVE  StateIs(s, {}, "CurrentTurn")
<1>1. /\ NewState \in StateRecords /\ NewState.pending = {}
      /\ NewState.phase = "CurrentTurn"
  BY DEF NewState, StateRecords
<1> QED
  BY <1>1, StateChange

\* Turn t is what it was in all that the other parts depend on.
OnlyTurn(t) ==
    /\ TurnsTyped' /\ \A u \in Turns \ {t} : turn'[u] = turn[u]

\* A turn is replaced.
LEMMA TurnChange ==
    ASSUME TurnsTyped, NEW t \in Turns, NEW r \in TurnRecords, turn' = [turn EXCEPT ![t] = r]
    PROVE  OnlyTurn(t) /\ turn'[t] = r
BY DEF TurnsTyped, OnlyTurn

----------------------------------------------------------------------------
(* What keeps the parts of the invariant. *)

\* Operations are sent, never taken back.
LEMMA SentGrows ==
    ASSUME ops' \subseteq ops
    PROVE  \A K : SentOnly(K)' => SentOnly(K)
BY DEF SentOnly

\* The modes of a session.
LEMMA Modes ==
    /\ SentOnly(ClientKinds) => LoopStarts
    /\ SentOnly(ChatKinds) => LoopStarts
    /\ SentOnly(AgentKinds) => ReserverStarts
BY DEF SentOnly, LoopStarts, ReserverStarts

\* An actor is the loop, an operation or a turn, and only one of them.
LEMMA ActorSorts ==
    /\ \A a \in Actors : a = LOOP \/ a \in Ops \/ a \in Turns
    /\ \A a \in Turns : a # LOOP /\ a \notin Ops /\ a \in Actors /\ a # None
    /\ \A a \in Ops : a # LOOP /\ a \notin Turns /\ a \in Actors
    /\ LOOP \in Actors
BY ConstantsAssumption DEF Actors

\* Frames of actors that do not move.
LEMMA FramesKept ==
    ASSUME \A a \in Actors : FrameOK(a), ops' \subseteq ops,
           NEW a \in Actors, Moves(a), FrameOK(a)'
    PROVE  \A b \in Actors : FrameOK(b)'
<1> SUFFICES ASSUME NEW b \in Actors, b # a
             PROVE  FrameOK(b)'
  OBVIOUS
<1>1. fr'[b] = fr[b] /\ FrameOK(b)
  BY DEF Moves
<1>2. LoopStarts' => LoopStarts
  BY SentGrows DEF LoopStarts
<1>3. ReserverStarts' => ReserverStarts
  BY SentGrows DEF ReserverStarts
<1>4. PlaceOK(b)' /\ LocalsOK(b)'
  BY <1>1 DEF FrameOK, PlaceOK, LocalsOK
<1> QED
  BY <1>1, <1>2, <1>3, <1>4 DEF FrameOK, LoopOnly, ReserversOnly

\* Actor a takes up no turn state that another one holds.
TakesOwn(a) == fr'[a].ts # None => \A b \in Actors \ {a} : fr[b].ts # fr'[a].ts

\* A turn state is held by one actor, whatever becomes of the active turn.
LEMMA ApartKept ==
    ASSUME StatesApart, NEW a \in Actors, Moves(a), TakesOwn(a)
    PROVE  \A b, c \in Actors : fr'[b].ts # None /\ fr'[b].ts = fr'[c].ts => b = c
<1> SUFFICES ASSUME NEW b \in Actors, NEW c \in Actors, fr'[b].ts # None, fr'[b].ts = fr'[c].ts, b # c
             PROVE  FALSE
  OBVIOUS
<1>1. CASE b = a
  BY <1>1 DEF TakesOwn, Moves
<1>2. CASE c = a
  BY <1>2 DEF TakesOwn, Moves
<1>3. CASE b # a /\ c # a
  BY <1>3 DEF StatesApart, Moves
<1> QED
  BY <1>1, <1>2, <1>3

\* The turn state that an actor has is its own.
LEMMA OwnState ==
    ASSUME StatesApart, NEW a \in Actors, fr'[a].ts \in {fr[a].ts, None}
    PROVE  TakesOwn(a)
BY DEF TakesOwn, StatesApart

\* Nobody's claim on the active turn changes.
LEMMA OwnKept ==
    ASSUME OwnInv, ActiveTyped, ops' \subseteq ops, active' = active, NEW a \in Actors, Moves(a),
           TakesOwn(a), HasTask => fr'[a].ts \in {fr[a].ts, None},
           Owns(a)' <=> Owns(a), StartOK(a)'
    PROVE  OwnInv'
<1>1. \A b \in Actors : Owns(b)' <=> Owns(b)
  BY DEF Owns, Moves, Reserved
<1>2. \A b \in Actors \ {a} : fr'[b].ts = fr[b].ts
  BY DEF Moves
<1>3. LoopStarts' => LoopStarts
  BY SentGrows DEF LoopStarts
<1>4. ReserverStarts' => ReserverStarts
  BY SentGrows DEF ReserverStarts
<1>5. HasTask' <=> HasTask
  BY DEF HasTask
<1>6. OneOwner' /\ ReservedIsOwned'
  BY <1>1, <1>5 DEF OwnInv, OneOwner, ReservedIsOwned
<1>7. HasTask' => \A b \in Actors : fr'[b].ts # active'.ts
  <2> SUFFICES ASSUME HasTask', NEW b \in Actors
               PROVE  fr'[b].ts # active'.ts
    OBVIOUS
  <2>1. HasTask /\ fr[b].ts # active.ts /\ active.ts # None
    BY <1>5, ConstantsAssumption DEF OwnInv, StatesApart, HasTask, ActiveTyped
  <2> QED
    BY <1>2, <2>1
<1>8. StatesApart'
  BY <1>7, ApartKept DEF OwnInv, StatesApart
<1>9. ASSUME NEW b \in Actors, b # a
      PROVE  StartOK(b)'
  BY <1>3, <1>4, <1>5, <1>9 DEF OwnInv, StartOK, Moves, Reserved
<1> QED
  BY <1>6, <1>8, <1>9 DEF OwnInv

\* Nobody but a relies on the active turn, and it is given up.
LEMMA OwnDrops ==
    ASSUME OwnInv, ops' \subseteq ops, active' = None, NEW a \in Actors, Moves(a), TakesOwn(a),
           \A b \in Actors \ {a} : fr[b].at \notin Starting \cup Holding,
           \A b \in Actors \ {a} : fr[b].at \in Finishing => ~ReserverStarts,
           StartOK(a)'
    PROVE  OwnInv'
<1>1. ~HasTask' /\ \A s : ~Reserved(s)'
  BY DEF HasTask, Reserved
<1>2. \A b \in Actors \ {a} : fr'[b] = fr[b] /\ ~Owns(b)'
  BY <1>1 DEF Owns, Moves
<1>3. OneOwner' /\ ReservedIsOwned'
  BY <1>2 DEF OneOwner, ReservedIsOwned
<1>4. StatesApart'
  BY <1>1, ApartKept DEF OwnInv, StatesApart
<1>5. ReserverStarts' => ReserverStarts
  BY SentGrows DEF ReserverStarts
<1>6. ASSUME NEW b \in Actors, b # a
      PROVE  StartOK(b)'
  BY <1>2, <1>5, <1>6 DEF StartOK, Starting
<1> QED
  BY <1>3, <1>4, <1>6 DEF OwnInv

\* The active turn has no task from now on, and a owns it.
LEMMA OwnGains ==
    ASSUME OwnInv, ops' \subseteq ops, active = None \/ HasTask, active' # None, ~HasTask',
           NEW a \in Actors, Moves(a), TakesOwn(a), Owns(a)',
           \A b \in Actors \ {a} : fr[b].at \notin Starting /\ fr[b].ts # active'.ts,
           \A b \in Actors \ {a} : fr[b].at \in Finishing => ~ReserverStarts,
           StartOK(a)'
    PROVE  OwnInv'
<1>1. \A s : ~Reserved(s)
  BY DEF HasTask, Reserved
<1>2. \A b \in Actors \ {a} : fr'[b] = fr[b] /\ ~Owns(b)' /\ fr[b].at \notin Holding
  BY <1>1 DEF Owns, Moves, Reserved, OwnInv, StartOK
<1>3. OneOwner' /\ ReservedIsOwned'
  BY <1>2 DEF OneOwner, ReservedIsOwned
<1>4. StatesApart'
  BY ApartKept DEF OwnInv, StatesApart
<1>5. ReserverStarts' => ReserverStarts
  BY SentGrows DEF ReserverStarts
<1>6. ASSUME NEW b \in Actors, b # a
      PROVE  StartOK(b)'
  BY <1>2, <1>5, <1>6 DEF StartOK, Starting
<1> QED
  BY <1>3, <1>4, <1>6 DEF OwnInv

\* Where an actor does not run a turn, ends none and stops none.
Aside == Body \cup {"abort.cancel", "abort.wait", "unborn", "over"}
Apart == Body \cup Finishing \cup Aborting \cup {"unborn", "abort.take"}

\* No phase changes, unless the turn is open again.
PhasesKept == \A s \in States : turn_state'[s].phase \in {turn_state[s].phase, "CurrentTurn"}

\* No task comes or goes.
TasksKept ==
    \/ active' = active
    \/ ~HasTask /\ ~HasTask' /\ (fr'[LOOP].at \in Aborting => active' = None)

\* An actor that runs no turn and aborts none moves.
LEMMA TurnsKept ==
    ASSUME TurnsInv, ActiveTyped, ops' \subseteq ops, TasksKept, turn' = turn, PhasesKept,
           NEW a \in Actors, Moves(a), fr[a].at \notin Aside,
           \/ fr'[a].at \notin Apart
           \/ fr'[a].at = "abort.take" /\ active' = active /\ (~HasTask \/ ~SentOnly(ChatKinds)')
    PROVE  TurnsInv'
<1>0. \A K : SentOnly(K)' => SentOnly(K)
  BY SentGrows
<1>1. \A t \in Turns : fr'[t].at \in Body \cup Finishing \cup {"unborn"} => fr'[t] = fr[t]
  BY ActorSorts DEF Moves, Body, Finishing, Apart
<1>2. \A t \in Turns : fr[t].at \in Body \cup {"unborn", "over"} => fr'[t] = fr[t]
  BY ActorSorts DEF Moves, Aside
<1>3. fr[LOOP].at \in {"abort.cancel", "abort.wait"} => fr'[LOOP] = fr[LOOP]
  BY ActorSorts DEF Moves, Aside
<1>4. fr'[LOOP].at \in Aborting => fr'[LOOP] = fr[LOOP]
  BY ActorSorts DEF Moves, Apart, Aborting
<1>5. \A t \in Turns : TaskIs(t)' <=> TaskIs(t)
  BY ActorSorts DEF TasksKept, TaskIs, HasTask
<1>6. AbortOK'
  <2>1. CASE fr'[LOOP].at \in Aborting
    <3>1. fr'[LOOP] = fr[LOOP] /\ fr[LOOP].at \in Aborting
      BY <1>4, <2>1
    <3>2. fr[LOOP].turn \in Turns /\ fr'[fr[LOOP].turn] = fr[fr[LOOP].turn]
      BY <1>2, <3>1 DEF TurnsInv, AbortOK
    <3>3. active' = None
      BY <2>1, <3>1 DEF TasksKept, TurnsInv, AbortOK
    <3> QED
      BY <1>0, <3>1, <3>2, <3>3 DEF TurnsInv, AbortOK, Aborting
  <2>2. CASE fr'[LOOP].at = "abort.take"
    <3>1. CASE a = LOOP
      BY <2>2, <3>1 DEF AbortOK, HasTask, Aborting, Apart
    <3>2. CASE a # LOOP
      <4>1. fr'[LOOP] = fr[LOOP]
        BY <3>2, ActorSorts DEF Moves
      <4>2. HasTask' => HasTask
        BY DEF TasksKept, HasTask
      <4> QED
        BY <1>0, <2>2, <4>1, <4>2 DEF TurnsInv, AbortOK, Aborting
    <3> QED
      BY <3>1, <3>2
  <2> QED
    BY <2>1, <2>2 DEF AbortOK
<1>7. ASSUME NEW t \in Turns
      PROVE  RunnerOK(t)'
  <2>1. RunnerOK(t) /\ (TaskIs(t)' <=> TaskIs(t)) /\ turn'[t] = turn[t]
    BY <1>5 DEF TurnsInv
  <2>2. fr'[t].at \in Body => TaskIs(t)' \/ Stops(t)'
    <3>1. CASE fr'[t].at \in Body
      <4>1. TaskIs(t) \/ Stops(t)
        BY <1>1, <2>1, <3>1 DEF RunnerOK
      <4>2. Stops(t) => Stops(t)'
        BY <1>3 DEF Stops
      <4> QED
        BY <2>1, <4>1, <4>2
    <3> QED
      BY <3>1
  <2>3. TaskIs(t)' => fr'[t].at \in Body /\ ~turn'[t].cancelled
    BY <1>2, <2>1 DEF RunnerOK
  <2>4. /\ fr'[t].at \in Body \cup {"unborn"} =>
             turn'[t].events \cap {"TurnComplete", "TurnAborted"} = {}
        /\ fr'[t].at \in Finishing => "TurnAborted" \notin turn'[t].events
        /\ ~({"TurnComplete", "TurnAborted"} \subseteq turn'[t].events)
    BY <1>1, <2>1 DEF RunnerOK
  <2>5. fr'[t].at = "turn.drain" /\ TaskIs(t)' => turn_state'[active'.ts].phase = "CurrentTurn"
    <3>1. CASE fr'[t].at = "turn.drain" /\ TaskIs(t)'
      <4>1. active' = active
        BY <2>1, <3>1, ActorSorts DEF TasksKept, TaskIs, HasTask
      <4>2. turn_state[active.ts].phase = "CurrentTurn" /\ active.ts \in States
        BY <1>1, <2>1, <3>1 DEF RunnerOK, Body, TaskIs, ActiveTyped
      <4> QED
        BY <4>1, <4>2 DEF PhasesKept
    <3> QED
      BY <3>1
  <2> QED
    BY <2>2, <2>3, <2>4, <2>5 DEF RunnerOK
<1> QED
  BY <1>6, <1>7 DEF TurnsInv

\* A step of actor a within a call.
InCall(a) ==
    /\ ops' = ops /\ mailbox' \subseteq mailbox /\ Moves(a)
    /\ FramesTyped' /\ StatesTyped' /\ TurnsTyped' /\ ActiveTyped' /\ RestTyped'

\* What such a step has to keep.
LEMMA CallKeeps ==
    ASSUME Inv, NEW a \in Actors, InCall(a), FrameOK(a)', OwnInv', TurnsInv'
    PROVE  Inv'
<1>1. TypeOK'
  BY DEF InCall, TypeOK, FramesTyped, StatesTyped, TurnsTyped, ActiveTyped,
       RestTyped, FrameRecords, StateRecords, TurnRecords, AllPlaces
<1>2. SessionKnown' /\ MailboxSent'
  BY DEF Inv, InCall, SessionKnown, SentOnly, MailboxSent
<1>3. \A b \in Actors : FrameOK(b)'
  <2>1. Moves(a) /\ ops' \subseteq ops /\ \A b \in Actors : FrameOK(b)
    BY DEF InCall, Inv
  <2> QED
    BY <2>1, FramesKept
<1> QED
  BY <1>1, <1>2, <1>3 DEF Inv

\* A step that leaves the active turn, the turns and everybody's claims alone.
LEMMA QuietKeeps ==
    ASSUME Inv, NEW a \in Actors, InCall(a), active' = active, turn' = turn, PhasesKept,
           fr'[a].ts \in {fr[a].ts, None}, Owns(a)' <=> Owns(a), StartOK(a)', FrameOK(a)',
           fr[a].at \notin Aside, fr'[a].at \notin Apart
    PROVE  Inv'
<1>1. OwnInv /\ TurnsInv /\ ActiveTyped /\ ops' \subseteq ops /\ Moves(a) /\ StatesApart /\ TasksKept
  BY TypeParts DEF Inv, InCall, OwnInv, TasksKept
<1>2. TakesOwn(a)
  BY <1>1, OwnState
<1>3. OwnInv'
  BY <1>1, <1>2, OwnKept
<1>4. TurnsInv'
  BY <1>1, TurnsKept
<1> QED
  BY <1>3, <1>4, CallKeeps

----------------------------------------------------------------------------
(* The runner of a turn. *)

\* A step of the runner inside RegularTask::run, or its end.
BodyMoves(t) ==
    /\ active' = active /\ UNCHANGED <<clientVars, goalVars>> /\ mailbox' \subseteq mailbox
    /\ FramesTyped' /\ StatesTyped' /\ OnlyTurn(t) /\ RestTyped'
    /\ Moves(t) /\ KeepsCall(t) /\ fr'[t].ts = fr[t].ts
    /\ fr[t].at \in Body /\ fr'[t].at \in Body \cup {"over"}
    /\ fr'[t].at = "over" => ~TaskIs(t)
    /\ fr'[t].items # {} => fr'[t].at \in {"turn.drain", "turn.record"}
    /\ turn'[t].cancelled = turn[t].cancelled
    /\ turn'[t].events \subseteq turn[t].events \cup {"TurnStarted"}
    /\ fr'[t].at = "turn.drain" /\ TaskIs(t) => turn_state'[active.ts].phase = "CurrentTurn"

\* A running turn whose task is taken away is the one that the loop stops.
LEMMA BodyTask ==
    ASSUME TurnsInv, NEW t \in Turns, fr[t].at \in Body, HasTask
    PROVE  TaskIs(t)
<1>1. RunnerOK(t) /\ AbortOK
  BY DEF TurnsInv
<1>2. ~Stops(t)
  BY <1>1 DEF AbortOK, Stops, Aborting, HasTask
<1> QED
  BY <1>1, <1>2 DEF RunnerOK

\* Such a step keeps the invariant.
LEMMA BodyKeeps ==
    ASSUME Inv, NEW t \in Turns, BodyMoves(t)
    PROVE  Inv'
<1>1. /\ TypeOK /\ SessionKnown /\ MailboxSent /\ OwnInv /\ TurnsInv
      /\ \A a \in Actors : FrameOK(a)
  BY DEF Inv
<1>2. t \in Actors /\ t # LOOP /\ t \notin Ops
  BY ActorSorts
<1>3. ops' = ops
  BY DEF BodyMoves, clientVars
<1>4. TypeOK'
  <2>1. ActiveTyped'
    BY <1>1, TypeParts DEF BodyMoves, ActiveTyped
  <2>2. FramesTyped' /\ StatesTyped' /\ TurnsTyped' /\ RestTyped'
    BY DEF BodyMoves, OnlyTurn
  <2> QED
    BY <2>1, <2>2, TypeParts DEF TypeOK, FramesTyped, StatesTyped, TurnsTyped, ActiveTyped,
       RestTyped, FrameRecords, StateRecords, TurnRecords, AllPlaces
<1>5. SessionKnown' /\ MailboxSent'
  BY <1>1, <1>3 DEF SessionKnown, SentOnly, MailboxSent, BodyMoves
<1>6. \A a \in Actors : FrameOK(a)'
  <2>1. /\ fr[t].ts = None /\ fr[t].turn = None /\ fr[t].input = {} /\ ~fr[t].permit
    BY <1>1, <1>2 DEF FrameOK, LocalsOK, BodyMoves, Body, StatePlaces, Aborting, InputPlaces,
        Starting, Holding, Finishing
  <2>2. /\ fr'[t].ts = None /\ fr'[t].turn = None /\ fr'[t].input = {} /\ ~fr'[t].permit
    BY <2>1 DEF BodyMoves, KeepsCall
  <2>3. /\ fr'[t].at \in TurnPlaces
        /\ fr'[t].at \notin Pending \cup Starting \cup Try \cup StatePlaces \cup Aborting
             \cup {"abort.take", "try.reserve"} \cup Holding
    BY DEF BodyMoves, Body, TurnPlaces, Pending, Starting, Try, StatePlaces, Aborting, Holding,
        Finishing
  <2>4. PlaceOK(t)'
    BY <1>2, <2>3 DEF PlaceOK
  <2>5. LocalsOK(t)'
    BY <2>2, <2>3 DEF LocalsOK, BodyMoves, ItemPlaces
  <2>6. LoopOnly(t)' /\ ReserversOnly(t)'
    BY <2>3 DEF LoopOnly, ReserversOnly, Pending
  <2>7. FrameOK(t)'
    BY <2>4, <2>5, <2>6 DEF FrameOK
  <2>8. Moves(t)
    BY DEF BodyMoves
  <2> QED
    BY <1>1, <1>2, <1>3, <2>7, <2>8, FramesKept
<1>7. OwnInv'
  <2>1. /\ fr[t].at \notin Starting
        /\ fr'[t].at \notin Starting \cup Holding \cup Finishing
    BY DEF BodyMoves, Body, Starting, Holding, Finishing
  <2>2. StartOK(t)'
    BY <2>1 DEF StartOK, Starting
  <2>3. active' = active /\ Moves(t) /\ fr'[t].ts = fr[t].ts
    BY DEF BodyMoves
  <2>4. Owns(t)' <=> Owns(t)
    BY <2>1, <2>3 DEF Owns, Reserved
  <2>5. TakesOwn(t)
    BY <1>1, <1>2, <2>3, OwnState DEF OwnInv
  <2> QED
    BY <1>1, <1>2, <1>3, <2>2, <2>3, <2>4, <2>5, OwnKept, TypeParts
<1>8. AbortOK'
  <2>1. fr'[LOOP] = fr[LOOP]
    BY <1>2, ActorSorts DEF BodyMoves, Moves
  <2>2. AbortOK
    BY <1>1 DEF TurnsInv
  <2>3. CASE fr[LOOP].at \in Aborting
    <3> DEFINE u == fr[LOOP].turn
    <3>1. u \in Turns /\ u \in Actors
      BY <2>2, <2>3, ActorSorts DEF AbortOK
    <3>2. CASE u = t
      BY <1>3, <2>1, <2>2, <2>3, <3>1, <3>2 DEF AbortOK, BodyMoves, SentOnly, Body, Aborting
    <3>3. CASE u # t
      <4>1. fr'[u] = fr[u] /\ turn'[u] = turn[u]
        BY <3>1, <3>3 DEF BodyMoves, Moves, OnlyTurn
      <4> QED
        BY <1>3, <2>1, <2>2, <2>3, <3>1, <4>1 DEF AbortOK, BodyMoves, SentOnly, Aborting
    <3> QED
      BY <3>2, <3>3
  <2>4. CASE fr[LOOP].at \notin Aborting
    BY <1>3, <2>1, <2>2, <2>4 DEF AbortOK, BodyMoves, SentOnly, HasTask
  <2> QED
    BY <2>3, <2>4
<1>9. ASSUME NEW u \in Turns
      PROVE  RunnerOK(u)'
  <2>1. fr'[LOOP] = fr[LOOP] /\ RunnerOK(u)
    BY <1>1, <1>2, ActorSorts DEF BodyMoves, Moves, TurnsInv
  <2>2. (TaskIs(u)' <=> TaskIs(u)) /\ (Stops(u)' <=> Stops(u))
    BY <2>1 DEF TaskIs, Stops, BodyMoves
  <2>3. CASE u = t
    <3>1. turn'[t].events \subseteq turn[t].events \cup {"TurnStarted"}
      BY DEF BodyMoves
    <3>2. turn[t].events \cap {"TurnComplete", "TurnAborted"} = {}
      BY <2>1, <2>3 DEF RunnerOK, BodyMoves
    <3>3. turn'[t].events \cap {"TurnComplete", "TurnAborted"} = {}
      BY <3>1, <3>2
    <3>4. fr'[t].at \in Body => TaskIs(t)' \/ Stops(t)'
      BY <2>1, <2>2, <2>3 DEF RunnerOK, BodyMoves
    <3>5. TaskIs(t)' => fr'[t].at \in Body /\ ~turn'[t].cancelled
      BY <2>1, <2>2, <2>3 DEF RunnerOK, BodyMoves
    <3>6. fr'[t].at = "turn.drain" /\ TaskIs(t)' => turn_state'[active'.ts].phase = "CurrentTurn"
      BY <2>2, <2>3 DEF BodyMoves
    <3> QED
      BY <2>3, <3>3, <3>4, <3>5, <3>6 DEF RunnerOK
  <2>4. CASE u # t
    <3>1. fr'[u] = fr[u] /\ turn'[u] = turn[u]
      BY <2>4, ActorSorts DEF BodyMoves, Moves, OnlyTurn
    <3>2. ~TaskIs(u)
      <4> SUFFICES ASSUME TaskIs(u)
                   PROVE  FALSE
        OBVIOUS
      <4>1. HasTask
        BY ActorSorts DEF TaskIs, HasTask
      <4>2. TaskIs(t)
        BY <1>1, <4>1, BodyTask DEF BodyMoves
      <4> QED
        BY <2>4, <4>2 DEF TaskIs
    <3> QED
      BY <2>1, <2>2, <3>1, <3>2 DEF RunnerOK
  <2> QED
    BY <2>3, <2>4
<1> QED
  BY <1>4, <1>5, <1>6, <1>7, <1>8, <1>9 DEF Inv, TurnsInv

\* What run_hooks_and_record_inputs does.
Recorded(t, items, go, stop) ==
    /\ FramesTyped' /\ Moves(t) /\ KeepsCall(t) /\ fr'[t].at \in {go, stop}
    /\ fr'[t].items = {} /\ fr'[t].ts = fr[t].ts
    /\ OnlyTurn(t) /\ turn'[t].kind = turn[t].kind /\ turn'[t].input = {}
    /\ turn'[t].cancelled = turn[t].cancelled /\ turn'[t].events = turn[t].events
    /\ \E blocked \in SUBSET (items \cap Items) :
          /\ history' = history \cup ((items \cap Items) \ blocked)
          /\ discarded' = discarded \cup blocked

\* run_hooks_and_record_inputs
LEMMA RecordEffect ==
    ASSUME FramesTyped, TurnsTyped, NEW t \in Turns, NEW items, items \subseteq Items \cup {GOAL},
           NEW go \in AllPlaces, NEW stop \in AllPlaces, RecordInputs(t, items, go, stop)
    PROVE  Recorded(t, items, go, stop)
<1>1. PICK blocked \in SUBSET (items \cap UserItems) :
        /\ blocked # {} => Round(t)
        /\ history' = history \cup ((items \cap Items) \ blocked)
        /\ discarded' = discarded \cup blocked
        /\ turn' = [turn EXCEPT ![t].input = {},
                                ![t].rounds = IF blocked = {} THEN @ ELSE @ + 1]
        /\ fr' = [fr EXCEPT ![t].items = {},
                 ![t].at = IF blocked # {} /\ items \cap UserItems = blocked
                           THEN stop ELSE go]
  BY DEF RecordInputs
<1>2. t \in Actors
  BY ActorSorts
<1> DEFINE p == IF blocked # {} /\ items \cap UserItems = blocked THEN stop ELSE go
           n == IF blocked = {} THEN turn[t].rounds ELSE turn[t].rounds + 1
           r == [turn[t] EXCEPT !.input = {}, !.rounds = n]
<1>3. p \in AllPlaces /\ p \in {go, stop}
  OBVIOUS
<1>4. turn[t] \in TurnRecords
  BY DEF TurnsTyped
<1>5. n \in 0 .. MaxRounds
  BY <1>1, <1>4, ConstantsAssumption DEF Round, TurnRecords
<1>6. turn' = [turn EXCEPT ![t] = r]
  BY <1>1 DEF TurnsTyped
<1>7. fr' = [fr EXCEPT ![t].items = {}, ![t].at = p]
  BY <1>1
<1> HIDE DEF p, n
<1>8. r \in TurnRecords
  BY <1>4, <1>5 DEF TurnRecords
<1>9. /\ r.kind = turn[t].kind /\ r.input = {} /\ r.cancelled = turn[t].cancelled
      /\ r.events = turn[t].events
  BY <1>4 DEF TurnRecords
<1>10. OnlyTurn(t) /\ turn'[t] = r
  BY <1>6, <1>8, TurnChange
<1>11. {} \in SUBSET (Items \cup {GOAL}) /\ blocked \in SUBSET (items \cap Items)
  BY DEF UserItems
<1>12. /\ FramesTyped' /\ Moves(t) /\ KeepsCall(t) /\ fr'[t].at = p
       /\ fr'[t].items = {} /\ fr'[t].ts = fr[t].ts
  BY <1>2, <1>3, <1>7, <1>11, ItemsMove
<1>13. /\ turn'[t].kind = turn[t].kind /\ turn'[t].input = {}
       /\ turn'[t].cancelled = turn[t].cancelled /\ turn'[t].events = turn[t].events
  BY <1>9, <1>10
<1>14. \E b \in SUBSET (items \cap Items) :
         /\ history' = history \cup ((items \cap Items) \ b)
         /\ discarded' = discarded \cup b
  BY <1>1, <1>11
<1> QED
  BY <1>3, <1>10, <1>12, <1>13, <1>14 DEF Recorded

\* get_pending_input, the first part.
LEMMA TakeEffect ==
    ASSUME FramesTyped, StatesTyped, ActiveTyped, NEW a \in Actors, NEW drain \in AllPlaces,
           NEW done \in AllPlaces, TakePending(a, drain, done)
    PROVE  /\ FramesTyped' /\ Moves(a) /\ KeepsCall(a) /\ fr'[a].at \in {drain, done}
           /\ fr'[a].at = (IF accepts_mailbox_delivery THEN drain ELSE done)
           /\ fr'[a].items = (IF active = None THEN {} ELSE turn_state[active.ts].pending)
           /\ fr'[a].ts = fr[a].ts /\ StatesTyped'
           /\ \A s \in States : turn_state'[s].phase = turn_state[s].phase
           /\ \A s \in States : turn_state'[s].pending =
                 IF active # None /\ s = active.ts THEN {} ELSE turn_state[s].pending
<1> DEFINE X == IF active = None THEN {} ELSE turn_state[active.ts].pending
           p == IF accepts_mailbox_delivery THEN drain ELSE done
<1>1. active # None => active.ts \in States
  BY DEF ActiveTyped
<1>2. X \in SUBSET (Items \cup {GOAL}) /\ p \in AllPlaces
  BY <1>1 DEF StatesTyped, StateRecords
<1>3. fr' = [fr EXCEPT ![a].items = X, ![a].at = p]
  BY DEF TakePending
<1> HIDE DEF X, p
<1>4. /\ FramesTyped' /\ Moves(a) /\ KeepsCall(a) /\ fr'[a].at = p
      /\ fr'[a].items = X /\ fr'[a].ts = fr[a].ts
  BY <1>2, <1>3, ItemsMove
<1>5. /\ StatesTyped' /\ \A s \in States : turn_state'[s].phase = turn_state[s].phase
      /\ \A s \in States : turn_state'[s].pending =
            IF active # None /\ s = active.ts THEN {} ELSE turn_state[s].pending
  <2>1. CASE active = None
    BY <2>1 DEF TakePending, StatesTyped
  <2>2. CASE active # None
    <3>1. turn_state' = [turn_state EXCEPT ![active.ts].pending = {}]
      BY <2>2 DEF TakePending
    <3>2. StateIs(active.ts, {}, turn_state[active.ts].phase)
      BY <1>1, <2>2, <3>1, PendingChange
    <3> QED
      BY <2>2, <3>2 DEF StateIs
  <2> QED
    BY <2>1, <2>2
<1> QED
  BY <1>4, <1>5 DEF X, p

\* ... and the second.
LEMMA DrainEffect ==
    ASSUME FramesTyped, RestTyped, NEW a \in Actors, NEW done \in AllPlaces,
           DrainMailbox(a, done)
    PROVE  /\ FramesTyped' /\ Moves(a) /\ KeepsCall(a) /\ fr'[a].at = done
           /\ fr'[a].items = fr[a].items \cup mailbox /\ fr'[a].ts = fr[a].ts
<1> DEFINE X == fr[a].items \cup mailbox
<1>1. X \in SUBSET (Items \cup {GOAL})
  BY DEF FramesTyped, FrameRecords, RestTyped
<1>2. fr' = [fr EXCEPT ![a].items = X, ![a].at = done]
  BY DEF DrainMailbox, FramesTyped
<1> QED
  BY <1>1, <1>2, ItemsMove

\* The types before a step, and the locals of a running turn.
LEMMA BodyStart ==
    ASSUME Inv, NEW t \in Turns, fr[t].at \in Body
    PROVE  /\ FramesTyped /\ StatesTyped /\ TurnsTyped /\ ActiveTyped /\ RestTyped
           /\ t \in Actors /\ turn[t] \in TurnRecords
           /\ fr[t].items # {} => fr[t].at \in {"turn.drain", "turn.record"}
           /\ fr[t].items \in SUBSET (Items \cup {GOAL})
           /\ TaskIs(t) => active.ts \in States
<1>1. FramesTyped /\ StatesTyped /\ TurnsTyped /\ ActiveTyped /\ RestTyped
  BY TypeParts DEF Inv
<1>2. t \in Actors /\ turn[t] \in TurnRecords
  BY <1>1, ActorSorts DEF TurnsTyped
<1>3. LocalsOK(t)
  BY <1>2 DEF Inv, FrameOK
<1>4. fr[t].items # {} => fr[t].at \in {"turn.drain", "turn.record"}
  BY <1>3 DEF LocalsOK, ItemPlaces, Holding, Body
<1>5. fr[t].items \in SUBSET (Items \cup {GOAL})
  BY <1>1, <1>2 DEF FramesTyped, FrameRecords
<1>6. TaskIs(t) => active.ts \in States
  BY <1>1 DEF TaskIs, ActiveTyped
<1> QED
  BY <1>1, <1>2, <1>4, <1>5, <1>6

\* The places of a running turn.
LEMMA BodyPlaces ==
    /\ Body \subseteq AllPlaces /\ Finishing \subseteq AllPlaces /\ "over" \in AllPlaces
    /\ "turn.drain" \in Body /\ "turn.record" \in Body /\ "turn.input" \in Body
    /\ "run.end" \in Body /\ "run.loop" \in Body /\ "run.begin" \in Body
    /\ "turn.take" \in Body /\ "turn.sample" \in Body /\ "turn.post" \in Body
    /\ "finish.take" \in Body
BY DEF Body, Finishing, AllPlaces, Finish

\* A step that only moves on and counts.
LEMMA GotoBody ==
    ASSUME Inv, NEW t \in Turns, fr[t].at \in Body, fr[t].items = {},
           NEW p \in Body \cup {"over"}, Goto(t, p), p # "turn.drain", p = "over" => ~TaskIs(t),
           UNCHANGED <<active, mailbox, clientVars, goalVars>>, StatesTyped', OnlyTurn(t), RestTyped',
           turn'[t].cancelled = turn[t].cancelled,
           turn'[t].events \subseteq turn[t].events \cup {"TurnStarted"}
    PROVE  BodyMoves(t)
<1>1. FramesTyped /\ t \in Actors /\ p \in AllPlaces
  BY BodyStart, BodyPlaces
<1>2. /\ FramesTyped' /\ Moves(t) /\ KeepsCall(t) /\ fr'[t].at = p
      /\ fr'[t].items = fr[t].items /\ fr'[t].ts = fr[t].ts
  BY <1>1, GotoMove
<1> QED
  BY <1>2 DEF BodyMoves

\* A runner reports the start of its turn.
LEMMA RunBeginMoves ==
    ASSUME Inv, NEW t \in Turns, RunBegin(t)
    PROVE  BodyMoves(t)
<1>1. fr[t].at = "run.begin" /\ fr[t].at \in Body
  BY DEF RunBegin, At, Body
<1>2. /\ FramesTyped /\ StatesTyped /\ TurnsTyped /\ ActiveTyped /\ RestTyped
      /\ t \in Actors /\ turn[t] \in TurnRecords /\ fr[t].items = {}
  BY <1>1, BodyStart
<1>3. UNCHANGED <<active, turn_state, mailbox, history, clientVars, goalVars>>
  BY DEF RunBegin
<1>4. StatesTyped' /\ UNCHANGED <<active, mailbox, clientVars, goalVars>>
  BY <1>2, <1>3 DEF StatesTyped
<1>5. CASE turn[t].kind # "Regular" /\ Goto(t, "run.end") /\ UNCHANGED <<turn, discarded>>
  <2>1. RestTyped' /\ OnlyTurn(t) /\ turn'[t] = turn[t]
    BY <1>2, <1>3, <1>5 DEF RestTyped, clientVars, goalVars, OnlyTurn, TurnsTyped
  <2> QED
    BY <1>1, <1>2, <1>4, <1>5, <2>1, GotoBody, BodyPlaces
<1>6. CASE /\ turn' = [turn EXCEPT ![t].events = @ \cup {"TurnStarted"}]
           /\ Goto(t, "turn.input") /\ UNCHANGED discarded
  <2> DEFINE r == [turn[t] EXCEPT !.events = turn[t].events \cup {"TurnStarted"}]
  <2>1. turn' = [turn EXCEPT ![t] = r]
    BY <1>2, <1>6 DEF TurnsTyped
  <2>2. r \in TurnRecords /\ r.cancelled = turn[t].cancelled
        /\ r.events = turn[t].events \cup {"TurnStarted"}
    BY <1>2 DEF TurnRecords
  <2>3. OnlyTurn(t) /\ turn'[t] = r
    BY <1>2, <2>1, <2>2, TurnChange
  <2>4. RestTyped'
    BY <1>2, <1>3, <1>6 DEF RestTyped, clientVars, goalVars
  <2> QED
    BY <1>1, <1>2, <1>4, <1>6, <2>2, <2>3, <2>4, GotoBody, BodyPlaces
<1>7. CASE /\ turn' = [turn EXCEPT ![t].events = @ \cup {"TurnStarted"}, ![t].input = {}]
           /\ discarded' = discarded \cup turn[t].input /\ Goto(t, "run.end")
  <2> DEFINE r == [turn[t] EXCEPT !.events = turn[t].events \cup {"TurnStarted"}, !.input = {}]
  <2>1. turn' = [turn EXCEPT ![t] = r]
    BY <1>2, <1>7 DEF TurnsTyped
  <2>2. r \in TurnRecords /\ r.cancelled = turn[t].cancelled
        /\ r.events = turn[t].events \cup {"TurnStarted"}
    BY <1>2 DEF TurnRecords
  <2>3. OnlyTurn(t) /\ turn'[t] = r
    BY <1>2, <2>1, <2>2, TurnChange
  <2>4. turn[t].input \subseteq Items
    BY <1>2 DEF TurnRecords
  <2>5. RestTyped'
    BY <1>2, <1>3, <1>7, <2>4 DEF RestTyped, clientVars, goalVars
  <2> QED
    BY <1>1, <1>2, <1>4, <1>7, <2>2, <2>3, <2>5, GotoBody, BodyPlaces
<1> QED
  BY <1>5, <1>6, <1>7 DEF RunBegin

\* Recording inputs while the turn runs.
LEMMA RecordMoves ==
    ASSUME Inv, NEW t \in Turns, fr[t].at \in Body, NEW items \in SUBSET (Items \cup {GOAL}),
           NEW go \in Body \ {"turn.drain"}, NEW stop \in Body \ {"turn.drain"},
           RecordInputs(t, items, go, stop),
           UNCHANGED <<active, turn_state, mailbox, clientVars, goalVars>>
    PROVE  BodyMoves(t)
<1>1. /\ FramesTyped /\ StatesTyped /\ TurnsTyped /\ RestTyped
      /\ go \in AllPlaces /\ stop \in AllPlaces
  BY BodyStart, BodyPlaces
<1>2. Recorded(t, items, go, stop)
  BY <1>1, RecordEffect
<1>3. RestTyped'
  BY <1>1, <1>2 DEF Recorded, RestTyped, clientVars, goalVars
<1>4. StatesTyped' /\ mailbox' \subseteq mailbox
  BY <1>1 DEF StatesTyped
<1>5. fr'[t].at \in Body \ {"turn.drain", "over"}
  BY <1>1, <1>2 DEF Recorded, Body
<1> QED
  BY <1>2, <1>3, <1>4, <1>5 DEF Recorded, BodyMoves

\* A runner records the input the turn was started with.
LEMMA TurnInputMoves ==
    ASSUME Inv, NEW t \in Turns, TurnInput(t)
    PROVE  BodyMoves(t)
<1>1. fr[t].at = "turn.input" /\ fr[t].at \in Body
  BY DEF TurnInput, At, Body
<1>2. /\ FramesTyped /\ StatesTyped /\ TurnsTyped /\ ActiveTyped /\ RestTyped
      /\ t \in Actors /\ turn[t] \in TurnRecords /\ fr[t].items = {}
  BY <1>1, BodyStart
<1>3. UNCHANGED <<active, turn_state, mailbox, clientVars, goalVars>>
  BY DEF TurnInput
<1>4. turn[t].input \in SUBSET Items
  BY <1>2 DEF TurnRecords
<1>5. CASE RecordInputs(t, turn[t].input,
             IF turn[t].input = {} THEN "turn.take" ELSE "turn.sample", "run.loop")
  <2> DEFINE go == IF turn[t].input = {} THEN "turn.take" ELSE "turn.sample"
  <2>1. go \in Body \ {"turn.drain"} /\ turn[t].input \in SUBSET (Items \cup {GOAL})
    BY <1>4 DEF Body
  <2>2. RecordInputs(t, turn[t].input, go, "run.loop")
    BY <1>5
  <2> HIDE DEF go
  <2> QED
    BY <1>1, <1>3, <2>1, <2>2, RecordMoves DEF Body
<1>6. CASE /\ Round(t) /\ discarded' = discarded \cup turn[t].input
           /\ turn' = [turn EXCEPT ![t].input = {}, ![t].rounds = @ + 1]
           /\ Goto(t, "run.loop") /\ UNCHANGED history
  <2> DEFINE r == [turn[t] EXCEPT !.input = {}, !.rounds = turn[t].rounds + 1]
  <2>1. turn' = [turn EXCEPT ![t] = r]
    BY <1>2, <1>6 DEF TurnsTyped
  <2> HIDE DEF r
  <2>a. turn[t].rounds + 1 \in 0 .. MaxRounds
    BY <1>2, <1>6, ConstantsAssumption DEF TurnRecords, Round
  <2>2. r \in TurnRecords /\ r.cancelled = turn[t].cancelled /\ r.events = turn[t].events
    BY <1>2, <2>a DEF TurnRecords, r
  <2>3. OnlyTurn(t) /\ turn'[t] = r
    BY <1>2, <2>1, <2>2, TurnChange
  <2>4. RestTyped'
    BY <1>2, <1>3, <1>4, <1>6 DEF RestTyped, clientVars, goalVars
  <2>5. StatesTyped' /\ UNCHANGED <<active, mailbox, clientVars, goalVars>>
    BY <1>2, <1>3 DEF StatesTyped
  <2> QED
    BY <1>1, <1>2, <1>6, <2>2, <2>3, <2>4, <2>5, GotoBody, BodyPlaces
<1> QED
  BY <1>5, <1>6 DEF TurnInput

\* A runner records the items it has taken.
LEMMA TurnRecordMoves ==
    ASSUME Inv, NEW t \in Turns, TurnRecord(t)
    PROVE  BodyMoves(t)
<1>1. /\ fr[t].at \in Body /\ "turn.sample" \in Body \ {"turn.drain"}
      /\ "run.loop" \in Body \ {"turn.drain"}
  BY DEF TurnRecord, At, Body
<1>2. fr[t].items \in SUBSET (Items \cup {GOAL})
  BY <1>1, BodyStart
<1> QED
  BY <1>1, <1>2, RecordMoves DEF TurnRecord

\* A runner takes the pending input of the active turn.
LEMMA TurnTakeMoves ==
    ASSUME Inv, NEW t \in Turns, TurnTake(t)
    PROVE  BodyMoves(t)
<1>1. fr[t].at \in Body /\ TakePending(t, "turn.drain", "turn.record")
  BY DEF TurnTake, At, Body
<1>2. /\ FramesTyped /\ StatesTyped /\ TurnsTyped /\ ActiveTyped /\ RestTyped
      /\ t \in Actors /\ "turn.drain" \in AllPlaces /\ "turn.record" \in AllPlaces
  BY <1>1, BodyStart, BodyPlaces
<1>3. /\ FramesTyped' /\ Moves(t) /\ KeepsCall(t) /\ fr'[t].at \in {"turn.drain", "turn.record"}
      /\ fr'[t].at = (IF accepts_mailbox_delivery THEN "turn.drain" ELSE "turn.record")
      /\ fr'[t].ts = fr[t].ts /\ StatesTyped'
      /\ \A s \in States : turn_state'[s].phase = turn_state[s].phase
  BY <1>1, <1>2, TakeEffect
<1>4. UNCHANGED <<active, mailbox, turn, recordVars, clientVars, goalVars>>
  BY <1>1 DEF TakePending
<1>5. RestTyped' /\ OnlyTurn(t) /\ turn'[t] = turn[t]
  BY <1>2, <1>4 DEF RestTyped, recordVars, clientVars, goalVars, OnlyTurn, TurnsTyped
<1>6. fr'[t].at = "turn.drain" /\ TaskIs(t) => turn_state'[active.ts].phase = "CurrentTurn"
  BY <1>2, <1>3 DEF TaskIs, accepts_mailbox_delivery, ActiveTyped
<1> QED
  BY <1>1, <1>3, <1>4, <1>5, <1>6, BodyPlaces DEF BodyMoves

\* A runner adds the mailbox to what it has taken.
LEMMA TurnDrainMoves ==
    ASSUME Inv, NEW t \in Turns, TurnDrain(t)
    PROVE  BodyMoves(t)
<1>1. fr[t].at \in Body /\ DrainMailbox(t, "turn.record")
  BY DEF TurnDrain, At, Body
<1>2. /\ FramesTyped /\ StatesTyped /\ TurnsTyped /\ RestTyped
      /\ t \in Actors /\ "turn.record" \in AllPlaces
  BY <1>1, BodyStart, BodyPlaces
<1>3. /\ FramesTyped' /\ Moves(t) /\ KeepsCall(t) /\ fr'[t].at = "turn.record"
      /\ fr'[t].ts = fr[t].ts
  BY <1>1, <1>2, DrainEffect
<1>4. UNCHANGED <<active, turn_state, turn, recordVars, clientVars, goalVars>> /\ mailbox' = {}
  BY <1>1 DEF DrainMailbox
<1>5. RestTyped' /\ StatesTyped' /\ OnlyTurn(t) /\ turn'[t] = turn[t]
  BY <1>2, <1>4 DEF RestTyped, recordVars, clientVars, goalVars, OnlyTurn, TurnsTyped, StatesTyped
<1> QED
  BY <1>1, <1>3, <1>4, <1>5, BodyPlaces DEF BodyMoves

\* The counters of a turn change.
LEMMA CountChange ==
    ASSUME TurnsTyped, NEW t \in Turns, NEW f \in BOOLEAN, NEW n \in 0 .. MaxRounds,
           turn' = [turn EXCEPT ![t].follow_up = f, ![t].rounds = n]
    PROVE  /\ OnlyTurn(t) /\ turn'[t].kind = turn[t].kind /\ turn'[t].input = turn[t].input
           /\ turn'[t].cancelled = turn[t].cancelled /\ turn'[t].events = turn[t].events
<1> DEFINE r == [turn[t] EXCEPT !.follow_up = f, !.rounds = n]
<1>1. turn[t] \in TurnRecords
  BY DEF TurnsTyped
<1>2. r \in TurnRecords
  BY <1>1 DEF TurnRecords
<1>3. /\ r.kind = turn[t].kind /\ r.input = turn[t].input
      /\ r.cancelled = turn[t].cancelled /\ r.events = turn[t].events
  BY <1>1 DEF TurnRecords
<1>4. turn' = [turn EXCEPT ![t] = r]
  BY DEF TurnsTyped
<1>5. OnlyTurn(t) /\ turn'[t] = r
  BY <1>2, <1>4, TurnChange
<1> QED
  BY <1>3, <1>5

\* One more round.
LEMMA RoundChange ==
    ASSUME TurnsTyped, NEW t \in Turns, Round(t), turn' = [turn EXCEPT ![t].rounds = @ + 1]
    PROVE  /\ OnlyTurn(t) /\ turn'[t].kind = turn[t].kind /\ turn'[t].input = turn[t].input
           /\ turn'[t].cancelled = turn[t].cancelled /\ turn'[t].events = turn[t].events
<1> DEFINE f == turn[t].follow_up
           n == turn[t].rounds + 1
<1>1. f \in BOOLEAN /\ turn[t].rounds \in 0 .. MaxRounds /\ turn[t] \in TurnRecords
  BY DEF TurnsTyped, TurnRecords
<1>2. n \in 0 .. MaxRounds
  BY <1>1, ConstantsAssumption DEF Round
<1> HIDE DEF n
<1>3. [turn[t] EXCEPT !.rounds = n] = [turn[t] EXCEPT !.follow_up = f, !.rounds = n]
  BY <1>1 DEF TurnRecords
<1>4. turn' = [turn EXCEPT ![t] = [turn[t] EXCEPT !.rounds = n]]
  BY DEF TurnsTyped, n
<1>5. turn' = [turn EXCEPT ![t].follow_up = f, ![t].rounds = n]
  BY <1>3, <1>4 DEF TurnsTyped
<1> QED
  BY <1>1, <1>2, <1>5, CountChange

\* A phase is set, or nothing changes.
LEMMA PhaseEffect ==
    ASSUME StatesTyped, ActiveTyped, NEW t \in Turns, NEW p \in {"CurrentTurn", "NextTurn"},
           SetPhase(t, p) \/ UNCHANGED turn_state
    PROVE  /\ StatesTyped'
           /\ \A s \in States : turn_state'[s].pending = turn_state[s].pending
<1>1. CASE UNCHANGED turn_state
  BY <1>1 DEF StatesTyped
<1>2. CASE SetPhase(t, p) /\ ~TaskIs(t)
  BY <1>2 DEF SetPhase, StatesTyped
<1>3. CASE SetPhase(t, p) /\ TaskIs(t)
  <2>1. active.ts \in States /\ turn_state' = [turn_state EXCEPT ![active.ts].phase = p]
    BY <1>3 DEF SetPhase, TaskIs, ActiveTyped
  <2>2. StateIs(active.ts, turn_state[active.ts].pending, p)
    BY <2>1, PhaseChange
  <2> QED
    BY <2>2 DEF StateIs
<1> QED
  BY <1>1, <1>2, <1>3

\* The sampling request is answered.
LEMMA SampleMoves ==
    ASSUME Inv, NEW t \in Turns, SampleToolCall(t) \/ SampleAnswer(t)
    PROVE  /\ BodyMoves(t) /\ turn'[t].input = turn[t].input /\ turn'[t].kind = turn[t].kind
           /\ \A s \in States : turn_state'[s].pending = turn_state[s].pending
<1>1. fr[t].at = "turn.sample" /\ fr[t].at \in Body /\ Goto(t, "turn.post")
  BY DEF SampleToolCall, SampleAnswer, At, Body
<1>2. /\ FramesTyped /\ StatesTyped /\ TurnsTyped /\ ActiveTyped /\ RestTyped
      /\ t \in Actors /\ turn[t] \in TurnRecords /\ fr[t].items = {}
  BY <1>1, BodyStart
<1>3. UNCHANGED <<active, mailbox, recordVars, clientVars, goalVars>>
  BY DEF SampleToolCall, SampleAnswer
<1>4. RestTyped' /\ UNCHANGED <<active, mailbox, clientVars, goalVars>>
  BY <1>2, <1>3 DEF RestTyped, recordVars, clientVars, goalVars
<1>5. /\ StatesTyped' /\ \A s \in States : turn_state'[s].pending = turn_state[s].pending
  <2>1. CASE SampleToolCall(t)
    BY <1>2, <2>1, PhaseEffect DEF SampleToolCall, accept_mailbox_delivery_for_current_turn
  <2>2. CASE SampleAnswer(t)
    BY <1>2, <2>2, PhaseEffect DEF SampleAnswer, defer_mailbox_delivery_to_next_turn
  <2> QED
    BY <2>1, <2>2
<1>6. /\ OnlyTurn(t) /\ turn'[t].kind = turn[t].kind /\ turn'[t].input = turn[t].input
      /\ turn'[t].cancelled = turn[t].cancelled /\ turn'[t].events = turn[t].events
  <2> DEFINE n == turn[t].rounds
             m == turn[t].rounds + 1
  <2>1. CASE SampleToolCall(t)
    <3>1. m \in 0 .. MaxRounds
      BY <1>2, <2>1, ConstantsAssumption DEF SampleToolCall, Round, TurnRecords
    <3>2. turn' = [turn EXCEPT ![t].follow_up = TRUE, ![t].rounds = m]
      BY <1>2, <2>1 DEF SampleToolCall, TurnsTyped, TurnRecords
    <3> HIDE DEF m
    <3> QED
      BY <1>2, <3>1, <3>2, CountChange
  <2>2. CASE SampleAnswer(t)
    <3>1. n \in 0 .. MaxRounds
      BY <1>2 DEF TurnRecords
    <3>2. [turn[t] EXCEPT !.follow_up = FALSE] = [turn[t] EXCEPT !.follow_up = FALSE, !.rounds = n]
      BY <1>2 DEF TurnRecords
    <3>3. turn' = [turn EXCEPT ![t] = [turn[t] EXCEPT !.follow_up = FALSE]]
      BY <1>2, <2>2 DEF SampleAnswer, TurnsTyped
    <3>4. turn' = [turn EXCEPT ![t].follow_up = FALSE, ![t].rounds = n]
      BY <1>2, <3>2, <3>3 DEF TurnsTyped
    <3> QED
      BY <1>2, <3>1, <3>4, CountChange
  <2> QED
    BY <2>1, <2>2
<1>7. BodyMoves(t)
  BY <1>1, <1>2, <1>4, <1>5, <1>6, GotoBody, BodyPlaces
<1> QED
  BY <1>5, <1>6, <1>7

\* A step that changes nothing but the runner's place and its rounds.
PassOn(t) ==
    /\ fr[t].at \in {"turn.sample", "turn.post", "run.loop", "run.end"}
    /\ \E p \in {"turn.take", "turn.sample", "turn.input", "run.loop", "run.end", "finish.take", "over"} :
          Goto(t, p) /\ (p = "over" => turn[t].cancelled)
    /\ UNCHANGED <<active, turn_state, mailbox, recordVars, clientVars, goalVars>>
    /\ OnlyTurn(t) /\ turn'[t].kind = turn[t].kind /\ turn'[t].input = turn[t].input
    /\ turn'[t].cancelled = turn[t].cancelled /\ turn'[t].events = turn[t].events

\* A runner goes on without changing anything it shares.
LEMMA PassOnMoves ==
    ASSUME Inv, NEW t \in Turns, PassOn(t)
    PROVE  BodyMoves(t)
<1>1. fr[t].at \in Body /\ fr[t].at \notin {"turn.drain", "turn.record"}
  BY DEF PassOn, Body
<1>2. /\ FramesTyped /\ StatesTyped /\ TurnsTyped /\ ActiveTyped /\ RestTyped
      /\ t \in Actors /\ turn[t] \in TurnRecords /\ fr[t].items = {}
  BY <1>1, BodyStart
<1>3. PICK p \in {"turn.take", "turn.sample", "turn.input", "run.loop", "run.end", "finish.take", "over"} :
        Goto(t, p) /\ (p = "over" => turn[t].cancelled)
  BY DEF PassOn
<1>4. p \in Body \cup {"over"} /\ p # "turn.drain"
  BY DEF Body
<1>5. p = "over" => ~TaskIs(t)
  BY <1>3 DEF Inv, TurnsInv, RunnerOK
<1>6. RestTyped' /\ StatesTyped' /\ UNCHANGED <<active, mailbox, clientVars, goalVars>>
  BY <1>2 DEF PassOn, RestTyped, StatesTyped, recordVars, clientVars, goalVars
<1>7. OnlyTurn(t) /\ turn'[t].cancelled = turn[t].cancelled /\ turn'[t].events = turn[t].events
  BY DEF PassOn
<1> QED
  BY <1>1, <1>2, <1>3, <1>4, <1>5, <1>6, <1>7, GotoBody

\* The steps of that sort.
LEMMA PassOnSteps ==
    ASSUME Inv, NEW t \in Turns, SampleFails(t) \/ TurnPost(t) \/ RunLoop(t) \/ RunEnd(t)
    PROVE  PassOn(t)
<1>1. fr[t].at \in {"turn.sample", "turn.post", "run.loop", "run.end"}
  BY DEF SampleFails, TurnPost, RunLoop, RunEnd, At
<1>2. TurnsTyped /\ turn[t] \in TurnRecords
  BY <1>1, BodyStart DEF Body
<1>3. UNCHANGED <<active, turn_state, mailbox, recordVars, clientVars, goalVars>>
  BY DEF SampleFails, TurnPost, RunLoop, RunEnd
<1>4. ASSUME turn' = turn
      PROVE  /\ OnlyTurn(t) /\ turn'[t].kind = turn[t].kind /\ turn'[t].input = turn[t].input
             /\ turn'[t].cancelled = turn[t].cancelled /\ turn'[t].events = turn[t].events
  BY <1>2, <1>4 DEF OnlyTurn, TurnsTyped
<1>5. CASE SampleFails(t)
  <2>1. CASE UNCHANGED turn
    BY <1>1, <1>3, <1>4, <1>5, <2>1 DEF SampleFails, PassOn
  <2>2. CASE Round(t) /\ turn' = [turn EXCEPT ![t].rounds = @ + 1]
    BY <1>1, <1>2, <1>3, <1>5, <2>2, RoundChange DEF SampleFails, PassOn
  <2> QED
    BY <1>5, <2>1, <2>2 DEF SampleFails
<1>6. CASE TurnPost(t)
  <2>1. \E p \in {"turn.take", "turn.sample", "run.loop"} : Goto(t, p)
    BY <1>6 DEF TurnPost
  <2>2. (Round(t) /\ turn' = [turn EXCEPT ![t].rounds = @ + 1]) \/ turn' = turn
    BY <1>6 DEF TurnPost
  <2>3. CASE turn' = turn
    BY <1>1, <1>3, <1>4, <2>1, <2>3 DEF PassOn
  <2>4. CASE Round(t) /\ turn' = [turn EXCEPT ![t].rounds = @ + 1]
    BY <1>1, <1>2, <1>3, <2>1, <2>4, RoundChange DEF PassOn
  <2> QED
    BY <2>2, <2>3, <2>4
<1>7. CASE RunLoop(t)
  BY <1>1, <1>3, <1>4, <1>7 DEF RunLoop, PassOn
<1>8. CASE RunEnd(t)
  <2>1. turn' = [turn EXCEPT ![t].follow_up = FALSE, ![t].rounds = 0]
    <3>1. turn' = [turn EXCEPT ![t] = [turn[t] EXCEPT !.rounds = 0, !.follow_up = FALSE]]
      BY <1>2, <1>8 DEF RunEnd, TurnsTyped
    <3>2. [turn[t] EXCEPT !.rounds = 0, !.follow_up = FALSE] = [turn[t] EXCEPT !.follow_up = FALSE, !.rounds = 0]
      BY <1>2 DEF TurnRecords
    <3> QED
      BY <1>2, <3>1, <3>2 DEF TurnsTyped
  <2>2. 0 \in 0 .. MaxRounds
    BY ConstantsAssumption
  <2>3. /\ OnlyTurn(t) /\ turn'[t].kind = turn[t].kind /\ turn'[t].input = turn[t].input
        /\ turn'[t].cancelled = turn[t].cancelled /\ turn'[t].events = turn[t].events
    BY <1>2, <2>1, <2>2, CountChange
  <2> QED
    BY <1>1, <1>3, <1>8, <2>3 DEF RunEnd, PassOn
<1> QED
  BY <1>5, <1>6, <1>7, <1>8

\* The runner finds that its task has been taken away.
LEMMA NotMineMoves ==
    ASSUME Inv, NEW t \in Turns, FinishTake(t), ~HasTask
    PROVE  BodyMoves(t)
<1>1. fr[t].at = "finish.take" /\ fr[t].at \in Body /\ Goto(t, "over")
  BY DEF FinishTake, At, Body
<1>2. /\ FramesTyped /\ StatesTyped /\ TurnsTyped /\ ActiveTyped /\ RestTyped
      /\ t \in Actors /\ turn[t] \in TurnRecords /\ fr[t].items = {}
  BY <1>1, BodyStart
<1>3. UNCHANGED <<active, turn_state, mailbox, turn, recordVars, clientVars, goalVars>>
  BY DEF FinishTake
<1>4. /\ RestTyped' /\ StatesTyped' /\ UNCHANGED <<active, mailbox, clientVars, goalVars>>
      /\ OnlyTurn(t) /\ turn'[t] = turn[t]
  BY <1>2, <1>3 DEF RestTyped, StatesTyped, recordVars, clientVars, goalVars, OnlyTurn, TurnsTyped
<1>5. ~TaskIs(t)
  BY ActorSorts DEF TaskIs, HasTask
<1> QED
  BY <1>1, <1>2, <1>4, <1>5, GotoBody

\* The runner of a turn keeps the invariant until on_task_finished takes the task.
BodyStep(t) ==
    \/ RunBegin(t) \/ TurnInput(t) \/ TurnTake(t) \/ TurnDrain(t) \/ TurnRecord(t)
    \/ SampleToolCall(t) \/ SampleAnswer(t) \/ SampleFails(t) \/ TurnPost(t)
    \/ RunLoop(t) \/ RunEnd(t) \/ (FinishTake(t) /\ ~HasTask)

\* Every step of a runner before it finishes is such a move.
LEMMA BodySteps ==
    ASSUME Inv, NEW t \in Turns, BodyStep(t)
    PROVE  BodyMoves(t)
BY RunBeginMoves, TurnInputMoves, TurnTakeMoves, TurnDrainMoves, TurnRecordMoves, SampleMoves,
   PassOnSteps, PassOnMoves, NotMineMoves DEF BodyStep

----------------------------------------------------------------------------
(* start_task and maybe_start_turn_for_pending_work. *)

\* What holds of an actor before its step.
LEMMA CallStart ==
    ASSUME Inv, NEW a \in Actors
    PROVE  /\ FramesTyped /\ StatesTyped /\ TurnsTyped /\ ActiveTyped /\ RestTyped
           /\ fr[a] \in FrameRecords
           /\ PlaceOK(a) /\ LocalsOK(a) /\ LoopOnly(a) /\ ReserversOnly(a) /\ StartOK(a)
           /\ LoopStarts \/ ReserverStarts
           /\ active # None => active.ts \in States /\ active.ts # None
<1>1. FramesTyped /\ StatesTyped /\ TurnsTyped /\ ActiveTyped /\ RestTyped
  BY TypeParts DEF Inv
<1>2. PlaceOK(a) /\ LocalsOK(a) /\ LoopOnly(a) /\ ReserversOnly(a) /\ StartOK(a)
  BY DEF Inv, FrameOK, OwnInv
<1>3. LoopStarts \/ ReserverStarts
  BY Modes DEF Inv, SessionKnown
<1>4. active # None => active.ts \in States /\ active.ts # None
  BY <1>1, ConstantsAssumption DEF ActiveTyped
<1> QED
  BY <1>1, <1>2, <1>3, <1>4 DEF FramesTyped

\* A step from one section of start_task to the next.
LEMMA StartingFrame ==
    ASSUME Inv, NEW a \in Actors, fr[a].at \in Starting, fr'[a].at \in Starting \ {"start.take"},
           ops' = ops, KeepsCall(a), fr'[a].items # {} => fr'[a].at # "start.spawn",
           fr'[a].ts # None <=> fr'[a].at = "start.extend"
    PROVE  FrameOK(a)'
<1>1. PlaceOK(a) /\ LocalsOK(a) /\ LoopOnly(a) /\ ReserversOnly(a)
  BY CallStart
<1>2. PlaceOK(a)'
  BY <1>1 DEF PlaceOK, KeepsCall, LoopPlaces, TurnPlaces, OpPlaces, Starting
<1>3. fr'[a].items # {} => fr'[a].at \in ItemPlaces
  BY DEF ItemPlaces, Starting
<1>4. /\ fr'[a].at \notin {"try.reserve"} \cup Holding
      /\ fr'[a].ts # None <=> fr'[a].at \in StatePlaces
      /\ fr'[a].at \notin Aborting
  BY DEF Starting, Holding, StatePlaces, Aborting, Finishing
<1>5. /\ fr'[a].turn = None /\ ~fr'[a].permit
      /\ fr'[a].input # {} =>
           fr'[a].at \in InputPlaces /\ fr'[a].kind = "Regular"
  BY <1>1 DEF LocalsOK, KeepsCall, Starting, Aborting, InputPlaces
<1>6. LocalsOK(a)'
  BY <1>3, <1>4, <1>5 DEF LocalsOK
<1>7. LoopOnly(a)' /\ ReserversOnly(a)'
  BY <1>1 DEF LoopOnly, ReserversOnly, LoopStarts, ReserverStarts, SentOnly, Starting, Aborting, Try
<1> QED
  BY <1>2, <1>6, <1>7 DEF FrameOK

\* The sections of start_task are neither beside nor among the runners.
LEMMA StartingPlaces ==
    /\ Starting \cap Aside = {} /\ Starting \cap Apart = {}
    /\ Pending \cap Aside = {} /\ Pending \cap Apart = {}
    /\ Starting \subseteq AllPlaces /\ Pending \subseteq AllPlaces
    /\ {"idle", "over", "goal.read"} \cap Apart = {}
    /\ {"idle", "over", "goal.read"} \subseteq AllPlaces
BY DEF Starting, Pending, Aside, Apart, Body, Finishing, Aborting, AllPlaces, Call, Finish

\* start_task takes the pending input of the turn that was reserved for it.
LEMMA StartTakeKeeps ==
    ASSUME Inv, NEW a \in Actors, StartTake(a)
    PROVE  Inv'
<1>1. fr[a].at = "start.take" /\ TakePending(a, "start.drain", "start.state")
  BY DEF StartTake, At
<1>2. /\ FramesTyped /\ StatesTyped /\ TurnsTyped /\ ActiveTyped /\ RestTyped
      /\ LocalsOK(a) /\ StartOK(a)
  BY CallStart
<1>3. /\ FramesTyped' /\ Moves(a) /\ KeepsCall(a) /\ fr'[a].at \in {"start.drain", "start.state"}
      /\ fr'[a].ts = fr[a].ts /\ StatesTyped'
      /\ \A s \in States : turn_state'[s].phase = turn_state[s].phase
  <2>1. "start.drain" \in AllPlaces /\ "start.state" \in AllPlaces
    BY StartingPlaces DEF Starting
  <2> QED
    BY <1>1, <1>2, <2>1, TakeEffect
<1>4. UNCHANGED <<active, mailbox, turn, recordVars, clientVars, goalVars>>
  BY <1>1 DEF TakePending
<1>5. /\ InCall(a) /\ ops' = ops /\ PhasesKept
  BY <1>2, <1>3, <1>4 DEF InCall, RestTyped, TurnsTyped, ActiveTyped, recordVars, clientVars, goalVars,
      PhasesKept
<1>6. fr[a].at \in Starting /\ fr'[a].at \in Starting \ {"start.take", "start.spawn", "start.extend"}
  BY <1>1, <1>3 DEF Starting
<1>7. fr[a].ts = None
  BY <1>1, <1>2 DEF LocalsOK, StatePlaces, Holding, Aborting, Finishing
<1>8. FrameOK(a)'
  BY <1>3, <1>5, <1>6, <1>7, StartingFrame
<1>9. Owns(a)' <=> Owns(a)
  BY <1>6 DEF Owns
<1>10. StartOK(a)'
  BY <1>1, <1>2, <1>3, <1>4, <1>5, <1>6 DEF StartOK, HasTask, LoopStarts, ReserverStarts, SentOnly,
     Starting, Holding, Finishing
<1> QED
  BY <1>3, <1>4, <1>5, <1>6, <1>8, <1>9, <1>10, QuietKeeps, StartingPlaces

\* start_task adds the mailbox.
LEMMA StartDrainKeeps ==
    ASSUME Inv, NEW a \in Actors, StartDrain(a)
    PROVE  Inv'
<1>1. fr[a].at = "start.drain" /\ DrainMailbox(a, "start.state")
  BY DEF StartDrain, At
<1>2. /\ FramesTyped /\ StatesTyped /\ TurnsTyped /\ ActiveTyped /\ RestTyped
      /\ LocalsOK(a) /\ StartOK(a)
  BY CallStart
<1>3. /\ FramesTyped' /\ Moves(a) /\ KeepsCall(a) /\ fr'[a].at = "start.state"
      /\ fr'[a].ts = fr[a].ts
  <2>1. "start.state" \in AllPlaces
    BY StartingPlaces DEF Starting
  <2> QED
    BY <1>1, <1>2, <2>1, DrainEffect
<1>4. UNCHANGED <<active, turn_state, turn, recordVars, clientVars, goalVars>> /\ mailbox' = {}
  BY <1>1 DEF DrainMailbox
<1>5. /\ InCall(a) /\ ops' = ops /\ PhasesKept
  BY <1>2, <1>3, <1>4 DEF InCall, RestTyped, TurnsTyped, StatesTyped, ActiveTyped, recordVars,
      clientVars, goalVars, PhasesKept
<1>6. fr[a].at \in Starting /\ fr'[a].at \in Starting \ {"start.take", "start.spawn", "start.extend"}
  BY <1>1, <1>3 DEF Starting
<1>7. fr[a].ts = None
  BY <1>1, <1>2 DEF LocalsOK, StatePlaces, Holding, Aborting, Finishing
<1>8. FrameOK(a)'
  BY <1>3, <1>5, <1>6, <1>7, StartingFrame
<1>9. Owns(a)' <=> Owns(a)
  BY <1>6 DEF Owns
<1>10. StartOK(a)'
  BY <1>1, <1>2, <1>3, <1>4, <1>5, <1>6 DEF StartOK, HasTask, LoopStarts, ReserverStarts, SentOnly,
     Starting, Holding, Finishing
<1> QED
  BY <1>3, <1>4, <1>5, <1>6, <1>8, <1>9, <1>10, QuietKeeps, StartingPlaces

\* start_task puts what it has taken into the turn state it holds ...
LEMMA StartExtendMoves ==
    ASSUME Inv, NEW a \in Actors, StartExtend(a)
    PROVE  /\ fr[a].at = "start.extend" /\ fr[a].ts \in States
           /\ fr[a].items \in SUBSET (Items \cup {GOAL})
           /\ FramesTyped' /\ Moves(a) /\ KeepsCall(a) /\ fr'[a].at = "start.spawn"
           /\ fr'[a].items = {} /\ fr'[a].ts = None
           /\ StateIs(fr[a].ts, turn_state[fr[a].ts].pending \cup fr[a].items, turn_state[fr[a].ts].phase)
<1>1. fr[a].at = "start.extend"
  BY DEF StartExtend, At
<1>2. /\ FramesTyped /\ StatesTyped /\ TurnsTyped /\ ActiveTyped /\ RestTyped
      /\ LocalsOK(a) /\ StartOK(a) /\ fr[a] \in FrameRecords
  BY CallStart
<1>3. fr[a].ts \in States /\ fr[a].items \in SUBSET (Items \cup {GOAL})
  BY <1>1, <1>2 DEF LocalsOK, StatePlaces, FrameRecords
<1>4. /\ FramesTyped' /\ Moves(a) /\ KeepsCall(a) /\ fr'[a].at = "start.spawn"
      /\ fr'[a].items = {} /\ fr'[a].ts = None
  <2> DEFINE r == [fr[a] EXCEPT !.items = {}, !.ts = None, !.at = "start.spawn"]
  <2>1. "start.spawn" \in AllPlaces
    BY StartingPlaces DEF Starting
  <2>2. r \in FrameRecords
    BY <1>2, <2>1 DEF FrameRecords
  <2>3. /\ r.at = "start.spawn" /\ r.items = {} /\ r.ts = None /\ r.turn = fr[a].turn
        /\ r.kind = fr[a].kind /\ r.input = fr[a].input /\ r.ret = fr[a].ret
        /\ r.reason = fr[a].reason /\ r.permit = fr[a].permit
    BY <1>2 DEF FrameRecords
  <2>4. GotoWith(a, r)
    BY <1>2 DEF StartExtend, GotoWith, FramesTyped
  <2> QED
    BY <1>2, <2>2, <2>3, <2>4, FrameMove DEF KeepsCall
<1>5. StateIs(fr[a].ts, turn_state[fr[a].ts].pending \cup fr[a].items, turn_state[fr[a].ts].phase)
  BY <1>2, <1>3, ExtendChange DEF StartExtend
<1> QED
  BY <1>1, <1>3, <1>4, <1>5

\* ... and lets go of it.
LEMMA StartExtendKeeps ==
    ASSUME Inv, NEW a \in Actors, StartExtend(a)
    PROVE  Inv'
<1>1. fr[a].at = "start.extend" /\ fr[a].ts \in States
  BY StartExtendMoves
<1>2. /\ FramesTyped /\ StatesTyped /\ TurnsTyped /\ ActiveTyped /\ RestTyped
      /\ LocalsOK(a) /\ StartOK(a) /\ fr[a] \in FrameRecords
  BY CallStart
<1>3. fr[a].ts \in States /\ fr[a].items \in SUBSET (Items \cup {GOAL})
  BY StartExtendMoves
<1>4. /\ FramesTyped' /\ Moves(a) /\ KeepsCall(a) /\ fr'[a].at = "start.spawn"
      /\ fr'[a].items = {} /\ fr'[a].ts = None
  BY StartExtendMoves
<1>5. StateIs(fr[a].ts, turn_state[fr[a].ts].pending \cup fr[a].items, turn_state[fr[a].ts].phase)
  BY StartExtendMoves
<1>6. UNCHANGED <<active, mailbox, turn, recordVars, clientVars, goalVars>>
  BY DEF StartExtend
<1>7. StatesTyped' /\ PhasesKept
  BY <1>3, <1>5 DEF StateIs, PhasesKept
<1>8. /\ InCall(a) /\ ops' = ops
  BY <1>2, <1>4, <1>6, <1>7 DEF InCall, RestTyped, TurnsTyped, ActiveTyped, recordVars,
      clientVars, goalVars
<1>9. fr[a].at \in Starting /\ fr'[a].at \in Starting \ {"start.take"}
  BY <1>1, <1>4 DEF Starting
<1>10. FrameOK(a)'
  BY <1>4, <1>8, <1>9, StartingFrame
<1>11. Owns(a)' <=> Owns(a)
  BY <1>9 DEF Owns
<1>12. StartOK(a)'
  BY <1>1, <1>2, <1>4, <1>6, <1>9 DEF StartOK, HasTask, Reserved, Starting, Holding, Finishing
<1> QED
  BY <1>4, <1>6, <1>7, <1>8, <1>9, <1>10, <1>11, <1>12, QuietKeeps, StartingPlaces

\* A new active turn.
LEMMA ReserveEffect ==
    ASSUME StatesTyped, NEW s \in States, Reserve(s)
    PROVE  /\ StateIs(s, {}, "CurrentTurn") /\ StatesTyped' /\ PhasesKept /\ ActiveTyped'
           /\ active' # None /\ ~HasTask' /\ Reserved(s)' /\ active'.ts = s
           /\ \A b \in Actors : fr[b].ts # s
<1>1. active' = [task |-> None, ts |-> s] /\ turn_state' = [turn_state EXCEPT ![s] = NewState]
  BY DEF Reserve
<1>2. StateIs(s, {}, "CurrentTurn")
  BY <1>1, NewChange
<1>3. ActiveTyped' /\ active' # None
  BY <1>1, ConstantsAssumption DEF ActiveTyped
<1>4. ~HasTask' /\ Reserved(s)' /\ active'.ts = s
  BY <1>1, <1>3 DEF HasTask, Reserved
<1>5. \A b \in Actors : fr[b].ts # s
  BY DEF Reserve, Allocates, Referenced
<1> QED
  BY <1>2, <1>3, <1>4, <1>5 DEF StateIs, PhasesKept

\* Who may reserve: the loop as it starts a turn, or anybody where whoever reserves starts.
LEMMA ReserveKeeps ==
    ASSUME Inv, NEW a \in Actors, NEW s \in States, active = None, Reserve(s), InCall(a),
           turn' = turn, fr'[a].ts \in {s, None}, FrameOK(a)', StartOK(a)', Owns(a)',
           fr[a].at \notin Aside, fr'[a].at \notin Apart, fr[a].at \in Starting \/ ~LoopStarts
    PROVE  Inv'
<1>1. OwnInv /\ TurnsInv /\ ActiveTyped /\ ops' \subseteq ops /\ Moves(a) /\ StatesTyped
  BY TypeParts DEF Inv, InCall
<1>2. /\ PhasesKept /\ active' # None /\ ~HasTask' /\ active'.ts = s
      /\ \A b \in Actors : fr[b].ts # s
  BY <1>1, ReserveEffect
<1>3. ~HasTask /\ \A r : ~Reserved(r)
  BY DEF HasTask, Reserved
<1>4. TakesOwn(a)
  BY <1>2 DEF TakesOwn
<1>5. \A b \in Actors \ {a} : fr[b].at \notin Starting
  <2>1. CASE fr[a].at \in Starting
    BY <1>1, <2>1 DEF OwnInv, OneOwner, Owns
  <2>2. CASE ~LoopStarts
    <3>1. ReserverStarts
      BY <2>2, CallStart
    <3> QED
      BY <1>1, <1>3, <3>1 DEF OwnInv, StartOK, Starting
  <2> QED
    BY <2>1, <2>2
<1>6. \A b \in Actors \ {a} : fr[b].at \in Finishing => ~ReserverStarts
  BY <1>1, <1>3 DEF OwnInv, StartOK
<1>7. OwnInv'
  BY <1>1, <1>2, <1>4, <1>5, <1>6, OwnGains
<1>8. fr'[LOOP].at \notin Aborting
  <2>1. CASE a = LOOP
    BY <2>1 DEF Apart
  <2>2. CASE a # LOOP
    <3>1. fr'[LOOP] = fr[LOOP]
      BY <1>1, <2>2, ActorSorts DEF Moves
    <3>2. CASE ~LoopStarts
      BY <3>1, <3>2, CallStart, ActorSorts DEF ReserversOnly
    <3>3. CASE fr[a].at \in Starting /\ LoopStarts
      BY <2>2, <3>3, CallStart DEF LoopOnly
    <3> QED
      BY <3>2, <3>3
  <2> QED
    BY <2>1, <2>2
<1>9. TasksKept
  BY <1>2, <1>3, <1>8 DEF TasksKept
<1>10. TurnsInv'
  BY <1>1, <1>2, <1>9, TurnsKept
<1> QED
  BY <1>7, <1>10, CallKeeps

\* start_task finds the turn that was reserved, or makes one.
LEMMA StartStateKeeps ==
    ASSUME Inv, NEW a \in Actors, StartState(a)
    PROVE  Inv'
<1>1. fr[a].at = "start.state"
  BY DEF StartState, At
<1>2. /\ FramesTyped /\ StatesTyped /\ TurnsTyped /\ ActiveTyped /\ RestTyped
      /\ LocalsOK(a) /\ StartOK(a) /\ (active # None => active.ts \in States /\ active.ts # None)
  BY CallStart
<1>3. UNCHANGED <<mailbox, turn, recordVars, clientVars, goalVars>>
  BY DEF StartState
<1>4. /\ fr[a].at \in Starting /\ "start.extend" \in Starting \ {"start.take"} /\ Owns(a)
      /\ "start.extend" \in AllPlaces
  BY <1>1, StartingPlaces DEF Starting, Owns
<1>5. ASSUME NEW s \in States, fr' = [fr EXCEPT ![a].ts = s, ![a].at = "start.extend"]
      PROVE  /\ FramesTyped' /\ Moves(a) /\ KeepsCall(a) /\ fr'[a].at = "start.extend"
             /\ fr'[a].items = fr[a].items /\ fr'[a].ts = s /\ FrameOK(a)' /\ Owns(a)'
             /\ TurnsTyped' /\ RestTyped' /\ ops' = ops /\ mailbox' = mailbox
  <2>1. /\ FramesTyped' /\ Moves(a) /\ KeepsCall(a) /\ fr'[a].at = "start.extend"
        /\ fr'[a].items = fr[a].items /\ fr'[a].ts = s
    <3>1. TakesState(a, s, "start.extend") /\ s \in States \cup {None}
      BY <1>5 DEF TakesState
    <3>2. StateTaken(a, s, "start.extend")
      BY <1>2, <1>4, <3>1, StateMove
    <3> QED
      BY <3>2 DEF StateTaken
  <2>2. /\ TurnsTyped' /\ RestTyped' /\ ops' = ops /\ mailbox' = mailbox
    BY <1>2, <1>3 DEF TurnsTyped, RestTyped, recordVars, clientVars, goalVars
  <2>3. s # None
    BY ConstantsAssumption
  <2>4. FrameOK(a)'
    BY <1>4, <2>1, <2>2, <2>3, StartingFrame
  <2>5. Owns(a)'
    BY <1>4, <2>1 DEF Owns
  <2> QED
    BY <2>1, <2>2, <2>4, <2>5
<1>6. CASE /\ active # None /\ UNCHANGED <<active, turn_state>>
           /\ fr' = [fr EXCEPT ![a].ts = active.ts, ![a].at = "start.extend"]
  <2> DEFINE s == active.ts
  <2>1. s \in States /\ s # None
    BY <1>2, <1>6
  <2> HIDE DEF s
  <2>2. /\ FramesTyped' /\ Moves(a) /\ fr'[a].at = "start.extend"
        /\ fr'[a].ts = s /\ FrameOK(a)' /\ Owns(a)'
        /\ TurnsTyped' /\ RestTyped' /\ ops' = ops /\ mailbox' = mailbox
    BY <1>5, <1>6, <2>1 DEF s
  <2>3. ~HasTask /\ Reserved(s)
    BY <1>2, <1>4, <1>6 DEF StartOK, HasTask, Reserved, s
  <2>4. TakesOwn(a)
    <3> SUFFICES ASSUME NEW b \in Actors \ {a}, fr[b].ts = s
                 PROVE  FALSE
      BY <2>2 DEF TakesOwn
    <3>1. Owns(b)
      BY <2>1, <2>3 DEF Owns
    <3> QED
      BY <1>4, <3>1 DEF Inv, OwnInv, OneOwner
  <2>5. StartOK(a)'
    BY <1>6, <2>2, <2>3 DEF StartOK, HasTask, Reserved, Finishing
  <2>6. InCall(a) /\ PhasesKept /\ TasksKept /\ ops' \subseteq ops
    BY <1>2, <1>6, <2>2 DEF InCall, PhasesKept, TasksKept, StatesTyped, ActiveTyped
  <2>7. OwnInv /\ TurnsInv
    BY DEF Inv
  <2>8. OwnInv'
    BY <1>2, <1>4, <1>6, <2>2, <2>3, <2>4, <2>5, <2>6, <2>7, OwnKept
  <2>9. TurnsInv'
    BY <1>2, <1>3, <1>4, <2>2, <2>6, <2>7, TurnsKept, StartingPlaces
  <2> QED
    BY <2>2, <2>6, <2>8, <2>9, CallKeeps
<1>7. CASE /\ active = None
           /\ \E s \in States :
                /\ Reserve(s)
                /\ fr' = [fr EXCEPT ![a].ts = s, ![a].at = "start.extend"]
  <2>1. PICK s \in States :
                /\ Reserve(s)
                /\ fr' = [fr EXCEPT ![a].ts = s, ![a].at = "start.extend"]
    BY <1>7
  <2>2. /\ FramesTyped' /\ Moves(a) /\ fr'[a].at = "start.extend"
        /\ fr'[a].ts = s /\ FrameOK(a)' /\ Owns(a)'
        /\ TurnsTyped' /\ RestTyped' /\ ops' = ops /\ mailbox' = mailbox
    BY <1>5, <2>1
  <2>3. StatesTyped' /\ ActiveTyped' /\ ~HasTask' /\ Reserved(s)'
    BY <1>2, <2>1, ReserveEffect
  <2>4. InCall(a)
    BY <2>2, <2>3 DEF InCall
  <2>5. StartOK(a)'
    BY <2>2, <2>3 DEF StartOK, Finishing
  <2> QED
    BY <1>3, <1>4, <1>7, <2>1, <2>2, <2>4, <2>5, ReserveKeeps, StartingPlaces
<1> QED
  BY <1>6, <1>7 DEF StartState

\* An actor that has come back from a call.
LEMMA RestFrame ==
    ASSUME NEW a \in Actors, fr'[a].at \in {"idle", "goal.read", "over"},
           a \in Turns <=> fr'[a].at # "idle",
           fr'[a].items = {}, fr'[a].ts = None, fr'[a].turn = None, fr'[a].input = {}, ~fr'[a].permit
    PROVE  FrameOK(a)' /\ StartOK(a)' /\ ~Owns(a)' /\ fr'[a].at \notin Apart
<1>1. fr'[a].at \notin Starting \cup Pending \cup Aborting \cup Holding \cup Finishing \cup Try
                       \cup {"abort.take", "try.reserve"}
  BY DEF Starting, Pending, Aborting, Holding, Finishing, Try
<1>2. PlaceOK(a)'
  BY <1>1, ActorSorts DEF PlaceOK, LoopPlaces, TurnPlaces, OpPlaces
<1>3. LocalsOK(a)'
  BY <1>1 DEF LocalsOK, StatePlaces
<1>4. LoopOnly(a)' /\ ReserversOnly(a)'
  BY <1>1 DEF LoopOnly, ReserversOnly, Pending
<1>5. StartOK(a)' /\ ~Owns(a)'
  BY <1>1 DEF StartOK, Owns, Starting
<1> QED
  BY <1>2, <1>3, <1>4, <1>5, StartingPlaces DEF FrameOK

\* An actor at the beginning of start_task or of the check for pending work.
LEMMA CallFrame ==
    ASSUME NEW a \in Actors, fr'[a].at \in {"pending.check", "start.take"},
           fr'[a].ret = IF a \in Turns THEN "goal.read" ELSE "idle",
           a \in Ops => a \notin ops' /\ OpKind[a] = "try_start",
           LoopStarts' => a = LOOP \/ fr'[a].at = "pending.check",
           fr'[a].items = {}, fr'[a].ts = None, fr'[a].turn = None, ~fr'[a].permit,
           fr'[a].input # {} => fr'[a].at = "start.take" /\ fr'[a].kind = "Regular"
    PROVE  FrameOK(a)' /\ fr'[a].at \notin Apart
<1>1. /\ fr'[a].at \in Starting \cup Pending
      /\ fr'[a].at \notin Aborting \cup Holding \cup Finishing \cup Try
                       \cup {"abort.take", "try.reserve", "pending.reserve", "start.extend"}
  BY DEF Starting, Pending, Aborting, Holding, Finishing, Try
<1>2. PlaceOK(a)'
  BY <1>1, ActorSorts DEF PlaceOK, LoopPlaces, TurnPlaces, OpPlaces
<1>3. LocalsOK(a)'
  BY <1>1 DEF LocalsOK, StatePlaces, InputPlaces, Starting
<1>4. LoopOnly(a)' /\ ReserversOnly(a)'
  BY <1>1 DEF LoopOnly, ReserversOnly, Starting
<1> QED
  BY <1>1, <1>2, <1>3, <1>4, StartingPlaces DEF FrameOK

\* What the checks for pending work keep.
LEMMA PendingStart ==
    ASSUME Inv, NEW a \in Actors, fr[a].at \in Pending
    PROVE  /\ fr[a].ret = (IF a \in Turns THEN "goal.read" ELSE "idle")
           /\ fr[a].ts = None /\ ~Owns(a) /\ fr[a].turn = None /\ fr[a].items = {}
           /\ fr[a].input = {} /\ ~fr[a].permit /\ fr[a].at \notin Aside
           /\ a \in Ops => a \notin ops /\ OpKind[a] = "try_start"
<1>1. PlaceOK(a) /\ LocalsOK(a)
  BY CallStart
<1>2. fr[a].at \notin StatePlaces \cup Aborting \cup ItemPlaces \cup InputPlaces \cup Starting
                       \cup {"idle"}
  BY DEF Pending, StatePlaces, Aborting, ItemPlaces, InputPlaces, Starting, Holding, Finishing
<1> QED
  BY <1>1, <1>2, StartingPlaces, ActorSorts DEF PlaceOK, LocalsOK, Owns

\* maybe_start_turn_for_pending_work returns without starting a turn.
LEMMA PendingReturns ==
    ASSUME Inv, NEW a \in Actors, fr[a].at \in Pending, Return(a),
           UNCHANGED <<active, turn_state, mailbox, turn, recordVars, clientVars, goalVars>>
    PROVE  Inv'
<1>1. /\ FramesTyped /\ StatesTyped /\ TurnsTyped /\ ActiveTyped /\ RestTyped
  BY CallStart
<1>2. /\ fr[a].ret = (IF a \in Turns THEN "goal.read" ELSE "idle")
      /\ fr[a].ts = None /\ ~Owns(a) /\ fr[a].at \notin Aside
  BY PendingStart
<1>3. fr[a].ret \in AllPlaces
  BY <1>2, StartingPlaces
<1>4. /\ FramesTyped' /\ Moves(a) /\ fr'[a].at = fr[a].ret
      /\ fr'[a].items = {} /\ fr'[a].ts = None /\ fr'[a].turn = None
      /\ fr'[a].input = {} /\ ~fr'[a].permit
  BY <1>1, <1>3, FreshMove DEF Return
<1>5. FrameOK(a)' /\ StartOK(a)' /\ ~Owns(a)' /\ fr'[a].at \notin Apart
  BY <1>2, <1>4, RestFrame
<1>6. InCall(a) /\ PhasesKept
  BY <1>1, <1>4 DEF InCall, PhasesKept, StatesTyped, TurnsTyped, ActiveTyped, RestTyped,
     recordVars, clientVars, goalVars
<1> QED
  BY <1>2, <1>4, <1>5, <1>6, QuietKeeps

\* The look at the mailbox for work that starts a turn.
LEMMA PendingCheckKeeps ==
    ASSUME Inv, NEW a \in Actors, PendingCheck(a)
    PROVE  Inv'
<1>1. /\ fr[a].at = "pending.check" /\ fr[a].at \in Pending
      /\ UNCHANGED <<active, turn_state, mailbox, turn, recordVars, clientVars, goalVars>>
  BY DEF PendingCheck, At, Pending
<1>2. CASE ~has_trigger_turn_mailbox_items
  BY <1>1, <1>2, PendingReturns DEF PendingCheck
<1>3. CASE has_trigger_turn_mailbox_items
  <2>1. /\ FramesTyped /\ StatesTyped /\ TurnsTyped /\ ActiveTyped /\ RestTyped
        /\ PlaceOK(a) /\ LocalsOK(a)
    BY CallStart
  <2>2. /\ fr[a].ts = None /\ ~Owns(a) /\ fr[a].turn = None /\ fr[a].items = {}
        /\ fr[a].input = {} /\ ~fr[a].permit /\ fr[a].at \notin Aside
    BY <1>1, PendingStart
  <2>3. "pending.reserve" \in Pending /\ "pending.reserve" \in AllPlaces
    BY StartingPlaces DEF Pending
  <2>4. /\ FramesTyped' /\ Moves(a) /\ KeepsCall(a) /\ fr'[a].at = "pending.reserve"
        /\ fr'[a].items = {} /\ fr'[a].ts = None
    BY <1>1, <1>3, <2>1, <2>2, <2>3, GotoMove DEF PendingCheck
  <2>5. ~LoopStarts
    BY <1>3 DEF has_trigger_turn_mailbox_items, TriggerMail, Inv, MailboxSent, LoopStarts, SentOnly,
       ClientKinds, ChatKinds
  <2>6. InCall(a) /\ PhasesKept
    BY <1>1, <2>1, <2>4 DEF InCall, PhasesKept, StatesTyped, TurnsTyped, ActiveTyped, RestTyped,
       recordVars, clientVars, goalVars
  <2>7. fr'[a].at \notin Starting \cup Holding \cup Finishing \cup Aborting \cup StatePlaces \cup Try
                  \cup {"idle", "abort.take", "try.reserve"}
    BY <2>4 DEF Starting, Holding, Finishing, Aborting, StatePlaces, Try
  <2>8. PlaceOK(a)'
    BY <1>1, <2>1, <2>3, <2>4, <2>6 DEF PlaceOK, KeepsCall, InCall, LoopPlaces, TurnPlaces, OpPlaces
  <2>9. LocalsOK(a)'
    BY <2>2, <2>4, <2>7 DEF LocalsOK, KeepsCall
  <2>10. LoopOnly(a)' /\ ReserversOnly(a)'
    BY <2>5, <2>6, <2>7 DEF LoopOnly, ReserversOnly, InCall, LoopStarts, SentOnly
  <2>11. FrameOK(a)' /\ StartOK(a)' /\ ~Owns(a)'
    BY <2>4, <2>7, <2>8, <2>9, <2>10 DEF FrameOK, StartOK, Owns, Starting
  <2>12. fr'[a].at \notin Apart
    BY <2>3, <2>4, StartingPlaces
  <2> QED
    BY <1>1, <2>2, <2>4, <2>6, <2>11, <2>12, QuietKeeps
<1> QED
  BY <1>2, <1>3

\* The active turn is reserved for that work.
LEMMA PendingReserveKeeps ==
    ASSUME Inv, NEW a \in Actors, PendingReserve(a)
    PROVE  Inv'
<1>1. fr[a].at = "pending.reserve" /\ fr[a].at \in Pending
  BY DEF PendingReserve, At, Pending
<1>2. UNCHANGED <<mailbox, turn, recordVars, clientVars, goalVars>>
  BY DEF PendingReserve
<1>3. CASE active # None /\ Return(a) /\ UNCHANGED <<active, turn_state>>
  BY <1>1, <1>2, <1>3, PendingReturns
<1>4. CASE /\ active = None /\ \E s \in States : Reserve(s)
           /\ GotoWith(a, [Frame("start.take") EXCEPT !.ret = fr[a].ret])
  <2>1. PICK s \in States : Reserve(s)
    BY <1>4
  <2>2. /\ FramesTyped /\ StatesTyped /\ TurnsTyped /\ ActiveTyped /\ RestTyped
        /\ LoopOnly(a)
    BY CallStart
  <2>3. /\ fr[a].ret = (IF a \in Turns THEN "goal.read" ELSE "idle")
        /\ fr[a].ts = None /\ fr[a].at \notin Aside
        /\ a \in Ops => a \notin ops /\ OpKind[a] = "try_start"
    BY <1>1, PendingStart
  <2>4. /\ "start.take" \in AllPlaces /\ "start.take" \in Starting
        /\ fr[a].ret \in {"idle", "goal.read", "over", None}
    BY <2>3, StartingPlaces DEF Starting
  <2>5. /\ FramesTyped' /\ Moves(a) /\ fr'[a].at = "start.take" /\ fr'[a].ret = fr[a].ret
        /\ fr'[a].items = {} /\ fr'[a].ts = None /\ fr'[a].turn = None
        /\ fr'[a].input = {} /\ ~fr'[a].permit
    BY <1>4, <2>2, <2>4, FreshMove
  <2>6. StatesTyped' /\ ActiveTyped' /\ ~HasTask' /\ active' # None
    BY <2>1, <2>2, ReserveEffect
  <2>7. InCall(a) /\ ops' = ops
    BY <1>2, <2>2, <2>5, <2>6 DEF InCall, TurnsTyped, RestTyped, recordVars, clientVars, goalVars
  <2>8. ~LoopStarts
    BY <1>1, <2>2 DEF LoopOnly
  <2>9. ~LoopStarts'
    BY <2>7, <2>8 DEF LoopStarts, SentOnly
  <2>10. FrameOK(a)' /\ fr'[a].at \notin Apart
    BY <2>3, <2>5, <2>7, <2>9, CallFrame
  <2>11. StartOK(a)' /\ Owns(a)'
    BY <2>4, <2>5, <2>6, <2>9 DEF StartOK, Owns, Holding, Finishing
  <2> QED
    BY <1>2, <1>4, <2>1, <2>3, <2>5, <2>7, <2>8, <2>10, <2>11, ReserveKeeps
<1> QED
  BY <1>3, <1>4 DEF PendingReserve

\* The frame of an actor that does not move.
LEMMA FrameKept ==
    ASSUME ops' \subseteq ops, NEW b \in Actors, FrameOK(b), fr'[b] = fr[b]
    PROVE  FrameOK(b)'
<1>1. LoopStarts' => LoopStarts
  BY SentGrows DEF LoopStarts
<1>2. ReserverStarts' => ReserverStarts
  BY SentGrows DEF ReserverStarts
<1>3. PlaceOK(b)' /\ LocalsOK(b)'
  BY DEF FrameOK, PlaceOK, LocalsOK
<1> QED
  BY <1>1, <1>2, <1>3 DEF FrameOK, LoopOnly, ReserversOnly

\* What StartSpawn does: the active turn is there and gets a task, and a new runner begins.
Spawns(a, t) ==
    /\ t # a /\ fr[t].at = "unborn" /\ fr'[t] = Frame("run.begin") /\ fr'[a] = Frame(fr[a].ret)
    /\ \A b \in Actors \ {a, t} : fr'[b] = fr[b]
    /\ OnlyTurn(t) /\ turn'[t] = NewTurn(a) /\ turn'[t].kind = fr[a].kind
    /\ turn'[t].input = fr[a].input /\ ~turn'[t].cancelled /\ turn'[t].events = {}
    /\ active # None /\ ~HasTask /\ HasTask' /\ TaskIs(t)' /\ active'.ts = active.ts
    /\ FramesTyped' /\ ActiveTyped'

\* start_task spawns a runner that did not exist before.
LEMMA SpawnEffect ==
    ASSUME Inv, NEW a \in Actors, StartSpawn(a)
    PROVE  \E t \in Turns : Spawns(a, t)
<1>1. fr[a].at = "start.spawn" /\ fr[a].at \in Starting
  BY DEF StartSpawn, At, Starting
<1>2. /\ FramesTyped /\ TurnsTyped /\ ActiveTyped
      /\ fr[a] \in FrameRecords /\ StartOK(a) /\ PlaceOK(a)
      /\ (active # None => active.ts \in States)
  BY CallStart
<1>3. active # None /\ ~HasTask
  BY <1>1, <1>2 DEF StartOK
<1>4. PICK t \in Turns :
        /\ At(t, "unborn")
        /\ turn' = [turn EXCEPT ![t] = NewTurn(a)]
        /\ fr' = [b \in Actors |->
                    CASE b = t -> Frame("run.begin")
                      [] b = a -> Frame(fr[a].ret)
                      [] b \in {u \in Turns : TaskIs(u)} -> Frame("over")
                      [] OTHER -> fr[b]]
        /\ active' = [active EXCEPT !.task = t]
  BY <1>3 DEF StartSpawn
<1>5. t # a /\ fr[t].at = "unborn" /\ t \in Actors /\ t # None
  BY <1>1, <1>4, ActorSorts DEF At
<1>6. \A u \in Turns : ~TaskIs(u)
  BY <1>3, ActorSorts DEF TaskIs, HasTask
<1>7. /\ fr'[t] = Frame("run.begin") /\ fr'[a] = Frame(fr[a].ret)
      /\ \A b \in Actors \ {a, t} : fr'[b] = fr[b]
  BY <1>4, <1>5, <1>6
<1>8. fr[a].ret \in AllPlaces
  BY <1>1, <1>2, ActorSorts, StartingPlaces DEF PlaceOK, Starting
<1>9. Frame("run.begin") \in FrameRecords /\ Frame(fr[a].ret) \in FrameRecords
  BY <1>8, BodyPlaces DEF Frame, FrameRecords
<1>10. FramesTyped'
  <2>1. fr' = [b \in Actors |-> fr'[b]]
    BY <1>4
  <2>2. \A b \in Actors : fr'[b] \in FrameRecords
    BY <1>2, <1>7, <1>9 DEF FramesTyped
  <2> QED
    BY <2>1, <2>2 DEF FramesTyped
<1>11. /\ NewTurn(a) \in TurnRecords /\ NewTurn(a).kind = fr[a].kind
       /\ NewTurn(a).input = fr[a].input /\ NewTurn(a).cancelled = FALSE /\ NewTurn(a).events = {}
  <2>1. fr[a].kind \in {"Regular", "Other", "Shell"} /\ fr[a].input \in SUBSET Items
    BY <1>2 DEF FrameRecords
  <2>2. 0 \in 0 .. MaxRounds
    BY ConstantsAssumption
  <2> QED
    BY <2>1, <2>2 DEF NewTurn, Unborn, TurnRecords
<1>12. OnlyTurn(t) /\ turn'[t] = NewTurn(a)
  BY <1>2, <1>4, <1>11, TurnChange
<1>13. /\ HasTask' /\ TaskIs(t)' /\ active'.ts = active.ts /\ ActiveTyped'
  <2>1. active \in [task : Turns \cup {None}, ts : States]
    BY <1>2, <1>3 DEF ActiveTyped
  <2>2. active' \in [task : Turns \cup {None}, ts : States] /\ active'.task = t /\ active'.ts = active.ts
    BY <1>4, <2>1
  <2>3. active' # None
    BY <2>2, ConstantsAssumption
  <2> QED
    BY <1>5, <2>2, <2>3 DEF HasTask, TaskIs, ActiveTyped
<1> QED
  BY <1>3, <1>5, <1>7, <1>10, <1>11, <1>12, <1>13 DEF Spawns

\* start_task puts the task into the active turn, which has none.
LEMMA StartSpawnKeeps ==
    ASSUME Inv, NEW a \in Actors, StartSpawn(a)
    PROVE  Inv'
<1>1. fr[a].at = "start.spawn" /\ fr[a].at \in Starting
  BY DEF StartSpawn, At, Starting
<1>2. PICK t \in Turns : Spawns(a, t)
  BY SpawnEffect
<1>3. /\ StatesTyped /\ RestTyped /\ StartOK(a) /\ PlaceOK(a) /\ LocalsOK(a) /\ OwnInv /\ TurnsInv
      /\ t \in Actors /\ t # LOOP /\ t \notin Ops
  BY CallStart, ActorSorts DEF Inv
<1>4. UNCHANGED <<turn_state, mailbox, recordVars, clientVars, goalVars>>
  BY <1>2 DEF StartSpawn, Spawns
<1>5. /\ StatesTyped' /\ RestTyped' /\ ops' = ops /\ mailbox' = mailbox
  BY <1>3, <1>4 DEF StatesTyped, RestTyped, recordVars, clientVars, goalVars
<1>6. TypeOK'
  BY <1>2, <1>5 DEF Spawns, OnlyTurn, TypeOK, FramesTyped, StatesTyped, TurnsTyped, ActiveTyped,
       RestTyped, FrameRecords, StateRecords, TurnRecords, AllPlaces
<1>7. SessionKnown' /\ MailboxSent'
  BY <1>5 DEF Inv, SessionKnown, SentOnly, MailboxSent
<1>8. fr[a].ret = (IF a \in Turns THEN "goal.read" ELSE "idle")
  BY <1>1, <1>3, ActorSorts DEF PlaceOK, Starting
<1>9. /\ fr'[a].at = fr[a].ret /\ fr'[a].items = {} /\ fr'[a].ts = None /\ fr'[a].turn = None
      /\ fr'[a].input = {} /\ ~fr'[a].permit
  BY <1>2 DEF Spawns, Frame
<1>10. FrameOK(a)' /\ StartOK(a)' /\ ~Owns(a)' /\ fr'[a].at \notin Apart
  BY <1>8, <1>9, RestFrame
<1>11. /\ fr'[t].at = "run.begin" /\ fr'[t].items = {} /\ fr'[t].ts = None /\ fr'[t].turn = None
       /\ fr'[t].input = {} /\ ~fr'[t].permit
  BY <1>2 DEF Spawns, Frame
<1>12. fr'[t].at \notin Starting \cup Pending \cup Aborting \cup Holding \cup Finishing \cup Try
                       \cup {"abort.take", "try.reserve"}
  BY <1>11 DEF Starting, Pending, Aborting, Holding, Finishing, Try
<1>13. FrameOK(t)' /\ StartOK(t)' /\ ~Owns(t)'
  <2>1. PlaceOK(t)'
    BY <1>3, <1>11, <1>12 DEF PlaceOK, TurnPlaces, Body
  <2>2. LocalsOK(t)'
    BY <1>11, <1>12 DEF LocalsOK, StatePlaces
  <2>3. LoopOnly(t)' /\ ReserversOnly(t)'
    BY <1>12 DEF LoopOnly, ReserversOnly, Pending
  <2> QED
    BY <1>11, <1>12, <2>1, <2>2, <2>3 DEF FrameOK, StartOK, Owns, Starting
<1>14. \A b \in Actors : FrameOK(b)'
  <2> SUFFICES ASSUME NEW b \in Actors \ {a, t}
               PROVE  FrameOK(b)'
    BY <1>10, <1>13
  <2>1. fr'[b] = fr[b] /\ FrameOK(b)
    BY <1>2 DEF Spawns, Inv
  <2> QED
    BY <1>5, <2>1, FrameKept
<1>15. \A b \in Actors \ {a} : ~Owns(b)
  BY <1>1, <1>3 DEF OwnInv, OneOwner, Owns
<1>16. \A s : ~Reserved(s)'
  BY <1>2 DEF Spawns, HasTask, Reserved
<1>17. ASSUME NEW b \in Actors \ {a, t}
       PROVE  /\ fr'[b] = fr[b] /\ ~Owns(b)' /\ StartOK(b)'
              /\ fr[b].ts # None => fr[b].ts # active.ts
  <2>1. fr'[b] = fr[b] /\ fr[b].at \notin Starting /\ StartOK(b)
    BY <1>2, <1>3, <1>15 DEF Spawns, Owns, OwnInv
  <2>2. \A s : fr[b].ts # None => ~Reserved(fr[b].ts)
    BY <1>15 DEF Owns
  <2>3. LocalsOK(b)
    BY CallStart
  <2>4. fr[b].at \notin Holding /\ (fr[b].at \in Finishing => ~ReserverStarts)
    BY <2>1, <2>2, <2>3 DEF StartOK, LocalsOK, StatePlaces
  <2>5. StartOK(b)'
    BY <1>5, <2>1, <2>4 DEF StartOK, Starting, ReserverStarts, SentOnly
  <2>6. fr[b].ts # None => fr[b].ts # active.ts
    BY <1>2, <2>2 DEF Spawns, HasTask, Reserved
  <2> QED
    BY <1>16, <2>1, <2>5, <2>6 DEF Owns
<1>18. OwnInv'
  <2>1. OneOwner'
    BY <1>10, <1>13, <1>17 DEF OneOwner
  <2>2. ReservedIsOwned'
    BY <1>2 DEF Spawns, ReservedIsOwned
  <2>3. \A b, c \in Actors : fr'[b].ts # None /\ fr'[b].ts = fr'[c].ts => b = c
    BY <1>3, <1>9, <1>11, <1>17 DEF OwnInv, StatesApart
  <2>4. active'.ts # None /\ active'.ts = active.ts
    BY <1>2, CallStart DEF Spawns
  <2>5. \A b \in Actors : fr'[b].ts # active'.ts
    BY <1>9, <1>11, <1>17, <2>4
  <2>6. StatesApart'
    BY <2>3, <2>5 DEF StatesApart
  <2>7. \A b \in Actors : StartOK(b)'
    BY <1>10, <1>13, <1>17
  <2> QED
    BY <2>1, <2>2, <2>6, <2>7 DEF OwnInv
<1>19. fr[LOOP].at \notin Aborting
  BY <1>2, <1>3 DEF Spawns, TurnsInv, AbortOK
<1>20. fr'[LOOP].at \notin Aborting \cup {"abort.take"}
  <2>1. CASE a = LOOP
    BY <1>10, <2>1 DEF Apart
  <2>2. CASE a # LOOP
    <3>1. fr'[LOOP] = fr[LOOP]
      BY <1>3, <1>17, <2>2, ActorSorts
    <3>2. ~LoopStarts
      BY <1>1, <2>2, CallStart DEF LoopOnly
    <3>3. fr[LOOP].at # "abort.take"
      BY <3>2, CallStart, ActorSorts DEF ReserversOnly
    <3> QED
      BY <1>19, <3>1, <3>3
  <2> QED
    BY <2>1, <2>2
<1>21. AbortOK'
  BY <1>20 DEF AbortOK
<1>22. RunnerOK(t)'
  <2>1. TaskIs(t)' /\ ~turn'[t].cancelled /\ turn'[t].events = {}
    BY <1>2 DEF Spawns
  <2> QED
    BY <1>11, <2>1 DEF RunnerOK, Body
<1>23. ASSUME NEW u \in Turns \ {t}
       PROVE  RunnerOK(u)'
  <2>1. RunnerOK(u) /\ turn'[u] = turn[u] /\ u \in Actors
    BY <1>2, <1>3, ActorSorts DEF TurnsInv, Spawns, OnlyTurn
  <2>2. ~TaskIs(u)' /\ ~TaskIs(u)
    BY <1>2, ActorSorts DEF Spawns, TaskIs, HasTask
  <2>3. ~Stops(u)
    BY <1>19 DEF Stops, Aborting
  <2>4. fr[u].at \notin Body
    BY <2>1, <2>2, <2>3 DEF RunnerOK
  <2>5. CASE u = a
    <3>1. fr'[u].at \notin Body \cup {"unborn"} \cup Finishing
      BY <1>10, <2>5 DEF Apart
    <3> QED
      BY <2>1, <2>2, <3>1 DEF RunnerOK
  <2>6. CASE u # a
    <3>1. fr'[u] = fr[u]
      BY <1>17, <2>1, <2>6
    <3> QED
      BY <2>1, <2>2, <2>4, <3>1 DEF RunnerOK
  <2> QED
    BY <2>5, <2>6
<1>24. TurnsInv'
  BY <1>21, <1>22, <1>23 DEF TurnsInv
<1> QED
  BY <1>6, <1>7, <1>14, <1>18, <1>24 DEF Inv

----------------------------------------------------------------------------
(* abort_all_tasks. *)

\* Only the loop aborts, and nobody else starts a turn then.
LEMMA AbortStart ==
    ASSUME Inv, NEW a \in Actors, fr[a].at \in {"abort.take", "abort_if.take"} \cup Aborting
    PROVE  /\ a = LOOP /\ fr[a].at # "abort_if.take" /\ fr[a].ret = "idle"
           /\ ~ReserverStarts /\ LoopStarts
           /\ \A b \in Actors \ {LOOP} : fr[b].at \notin Starting \cup Holding
           /\ fr[a].items = {} /\ ~fr[a].permit
           /\ fr[a].input # {} => fr[a].kind = "Regular" /\ fr[a].reason # "Interrupted"
<1>1. PlaceOK(a) /\ LocalsOK(a) /\ ReserversOnly(a) /\ (LoopStarts \/ ReserverStarts)
  BY CallStart
<1>2. a = LOOP /\ fr[a].at # "abort_if.take" /\ fr[a].ret = "idle"
  BY <1>1, ActorSorts DEF PlaceOK, LoopPlaces, TurnPlaces, OpPlaces, Aborting, Starting, Pending,
     Holding, Finishing, Body
<1>3. ~ReserverStarts /\ LoopStarts
  BY <1>1, <1>2 DEF ReserversOnly
<1>4. \A b \in Actors \ {LOOP} : fr[b].at \notin Starting \cup Holding
  BY <1>3, CallStart DEF LoopOnly, Try, Holding
<1>5. fr[a].at \notin ItemPlaces \cup Starting
  BY <1>2 DEF ItemPlaces, Aborting, Holding, Starting
<1>6. /\ fr[a].items = {} /\ ~fr[a].permit
      /\ fr[a].input # {} => fr[a].kind = "Regular" /\ fr[a].reason # "Interrupted"
  BY <1>1, <1>5 DEF LocalsOK
<1> QED
  BY <1>2, <1>3, <1>4, <1>6

\* The loop goes on after an abort.
LEMMA AfterAbortMove ==
    ASSUME Inv, fr[LOOP].at \in {"abort.take"} \cup Aborting, ops' = ops,
           GotoWith(LOOP, AfterAbort(LOOP)), active' = None
    PROVE  /\ FramesTyped' /\ Moves(LOOP) /\ fr'[LOOP].at \in {"start.take", "pending.check"}
           /\ fr'[LOOP].items = {} /\ fr'[LOOP].ts = None /\ fr'[LOOP].turn = None
           /\ fr'[LOOP].input = fr[LOOP].input
           /\ FrameOK(LOOP)' /\ StartOK(LOOP)' /\ fr'[LOOP].at \notin Apart
<1>1. /\ LOOP \in Actors /\ LOOP \notin Turns /\ LOOP \notin Ops
  BY ActorSorts
<1>2. /\ fr[LOOP].ret = "idle" /\ ~ReserverStarts
      /\ fr[LOOP].input # {} => fr[LOOP].kind = "Regular" /\ fr[LOOP].reason # "Interrupted"
  BY <1>1, AbortStart
<1>3. FramesTyped /\ fr[LOOP] \in FrameRecords
  BY <1>1, CallStart
<1>4. /\ Frame("start.take") \in FrameRecords /\ Frame("pending.check") \in FrameRecords
  BY StartingPlaces DEF Frame, FrameRecords, Starting, Pending
<1> DEFINE r == AfterAbort(LOOP)
<1>5. /\ r \in FrameRecords /\ r.at \in {"start.take", "pending.check"} /\ r.ret = "idle"
      /\ r.items = {} /\ r.ts = None /\ r.turn = None /\ r.permit = FALSE
      /\ r.input = fr[LOOP].input
      /\ r.input # {} => r.at = "start.take" /\ r.kind = "Regular"
  <2>1. CASE fr[LOOP].reason = "Interrupted"
    <3>1. r = [Frame("pending.check") EXCEPT !.ret = "idle"]
      BY <1>2, <2>1 DEF AfterAbort
    <3>2. r \in FrameRecords
      BY <1>4, <3>1 DEF FrameRecords
    <3> QED
      BY <1>2, <2>1, <3>1, <3>2 DEF Frame
  <2>2. CASE fr[LOOP].reason # "Interrupted"
    <3>1. r = [Frame("start.take") EXCEPT !.ret = "idle", !.kind = fr[LOOP].kind,
                                          !.input = fr[LOOP].input]
      BY <1>2, <2>2 DEF AfterAbort
    <3>2. fr[LOOP].kind \in {"Regular", "Other", "Shell"} /\ fr[LOOP].input \in SUBSET Items
      BY <1>3 DEF FrameRecords
    <3>3. r \in FrameRecords
      BY <1>4, <3>1, <3>2 DEF FrameRecords
    <3> QED
      BY <1>2, <3>1, <3>3 DEF Frame
  <2> QED
    BY <2>1, <2>2
<1> HIDE DEF r
<1>6. FramesTyped' /\ Moves(LOOP) /\ fr'[LOOP] = r
  BY <1>1, <1>3, <1>5, FrameMove DEF r
<1>7. FrameOK(LOOP)' /\ fr'[LOOP].at \notin Apart
  BY <1>1, <1>5, <1>6, CallFrame
<1>8. ~ReserverStarts'
  BY <1>2 DEF ReserverStarts, SentOnly
<1>9. StartOK(LOOP)'
  BY <1>5, <1>6, <1>8 DEF StartOK, HasTask, Holding, Finishing
<1> QED
  BY <1>5, <1>6, <1>7, <1>9

\* The loop is done with an abort, or finds nothing to abort.
LEMMA AbortEnds ==
    ASSUME Inv, fr[LOOP].at \in {"abort.take", "abort.clear"}, active' = None, ~HasTask,
           ops' = ops, mailbox' = mailbox, turn' = turn, RestTyped', StatesTyped', PhasesKept,
           FramesTyped', Moves(LOOP), fr'[LOOP].ts = None, FrameOK(LOOP)', StartOK(LOOP)',
           fr'[LOOP].at \notin Apart
    PROVE  Inv'
<1>1. LOOP \in Actors /\ fr[LOOP].at \in {"abort.take"} \cup Aborting /\ fr[LOOP].at \notin Aside
  BY ActorSorts DEF Aborting, Aside, Body
<1>2. /\ ~ReserverStarts /\ \A b \in Actors \ {LOOP} : fr[b].at \notin Starting \cup Holding
  BY <1>1, AbortStart
<1>3. OwnInv /\ TurnsInv /\ ActiveTyped /\ TurnsTyped
  BY TypeParts DEF Inv
<1>4. TakesOwn(LOOP) /\ ops' \subseteq ops
  BY DEF TakesOwn
<1>5. OwnInv'
  BY <1>1, <1>2, <1>3, <1>4, OwnDrops
<1>6. TasksKept
  BY DEF TasksKept, HasTask
<1>7. TurnsInv'
  BY <1>1, <1>3, <1>4, <1>6, TurnsKept
<1>8. InCall(LOOP)
  BY <1>3 DEF InCall, ActiveTyped, TurnsTyped
<1> QED
  BY <1>1, <1>5, <1>7, <1>8, CallKeeps

\* An abort takes the active turn away.
LEMMA AbortTakeKeeps ==
    ASSUME Inv, NEW a \in Actors, AbortTake(a)
    PROVE  Inv'
<1>1. /\ fr[a].at = "abort.take" /\ active' = None
      /\ UNCHANGED <<turn_state, mailbox, turn, recordVars, clientVars, goalVars>>
  BY DEF AbortTake, At
<1>2. /\ a = LOOP /\ fr[a].ret = "idle" /\ ~ReserverStarts
      /\ \A b \in Actors \ {LOOP} : fr[b].at \notin Starting \cup Holding
      /\ fr[a].items = {} /\ ~fr[a].permit
      /\ fr[a].input # {} => fr[a].kind = "Regular" /\ fr[a].reason # "Interrupted"
  BY <1>1, AbortStart
<1>3. /\ FramesTyped /\ StatesTyped /\ TurnsTyped /\ ActiveTyped /\ RestTyped
      /\ fr[a] \in FrameRecords /\ LocalsOK(a) /\ PlaceOK(a) /\ LoopOnly(a)
      /\ (active # None => active.ts \in States /\ active.ts # None)
  BY CallStart
<1>4. StatesTyped' /\ TurnsTyped' /\ RestTyped' /\ ActiveTyped' /\ PhasesKept /\ ops' = ops /\ mailbox' = mailbox /\ turn' = turn
  BY <1>1, <1>3 DEF StatesTyped, TurnsTyped, RestTyped, ActiveTyped, PhasesKept, recordVars,
     clientVars, goalVars
<1>5. CASE /\ HasTask
           /\ fr' = [fr EXCEPT ![a].turn = active.task, ![a].ts = active.ts, ![a].at = "abort.cancel"]
  <2> DEFINE r == [fr[a] EXCEPT !.turn = active.task, !.ts = active.ts, !.at = "abort.cancel"]
  <2>1. active.task \in Turns /\ active.ts \in States /\ active.ts # None /\ active.task # None
    BY <1>3, <1>5 DEF HasTask, ActiveTyped
  <2>2. r \in FrameRecords
    BY <1>3, <2>1 DEF FrameRecords, AllPlaces, Call
  <2>3. /\ r.at = "abort.cancel" /\ r.items = fr[a].items /\ r.ts = active.ts
        /\ r.turn = active.task /\ r.kind = fr[a].kind /\ r.input = fr[a].input
        /\ r.ret = fr[a].ret /\ r.reason = fr[a].reason /\ r.permit = fr[a].permit
    BY <1>3 DEF FrameRecords
  <2>4. GotoWith(a, r)
    BY <1>3, <1>5 DEF GotoWith, FramesTyped
  <2>5. FramesTyped' /\ Moves(a) /\ fr'[a] = r
    BY <1>3, <2>2, <2>4, FrameMove
  <2> HIDE DEF r
  <2>6. /\ r.at \in Aborting /\ r.at \in StatePlaces /\ r.at \in InputPlaces /\ r.at \in LoopPlaces
        /\ r.at \notin Starting \cup Holding \cup Finishing \cup {"idle", "try.reserve"}
    BY <2>3 DEF Aborting, StatePlaces, InputPlaces, LoopPlaces, Starting, Holding, Finishing
  <2>7. PlaceOK(a)'
    BY <1>2, <2>3, <2>5, <2>6, ActorSorts DEF PlaceOK
  <2>8. LocalsOK(a)'
    BY <1>2, <2>1, <2>3, <2>5, <2>6 DEF LocalsOK
  <2>9. LoopOnly(a)' /\ ReserversOnly(a)'
    BY <1>2, <1>4, <2>3, <2>5 DEF LoopOnly, ReserversOnly, ReserverStarts, SentOnly
  <2>10. FrameOK(a)' /\ StartOK(a)'
    BY <2>5, <2>6, <2>7, <2>8, <2>9 DEF FrameOK, StartOK, Starting
  <2>11. OwnInv /\ TurnsInv /\ AbortOK /\ ops' \subseteq ops
    BY <1>4 DEF Inv, TurnsInv
  <2>12. TakesOwn(a)
    BY <1>5, <2>3, <2>5, <2>11 DEF TakesOwn, OwnInv, StatesApart
  <2>13. OwnInv'
    BY <1>1, <1>2, <2>5, <2>10, <2>11, <2>12, OwnDrops
  <2>14. RunnerOK(active.task) /\ TaskIs(active.task)
    BY <1>5, <2>1, <2>11 DEF TurnsInv, HasTask, TaskIs
  <2>15. \A t \in Turns : fr'[t] = fr[t]
    BY <1>2, <2>5, ActorSorts DEF Moves
  <2>16. ~SentOnly(ChatKinds)'
    BY <1>1, <1>2, <1>4, <1>5, <2>11 DEF AbortOK, SentOnly
  <2>17. AbortOK'
    <3>1. /\ "TurnComplete" \notin turn[active.task].events /\ fr[active.task].at \in Body
      BY <2>14 DEF RunnerOK
    <3>2. /\ fr'[LOOP].at = "abort.cancel" /\ fr'[LOOP].turn = active.task
      BY <1>2, <2>3, <2>5
    <3> QED
      BY <1>1, <1>4, <2>1, <2>15, <2>16, <3>1, <3>2 DEF AbortOK
  <2>18. ASSUME NEW t \in Turns
         PROVE  RunnerOK(t)'
    <3>1. RunnerOK(t) /\ fr'[t] = fr[t] /\ turn'[t] = turn[t] /\ ~TaskIs(t)'
      BY <1>1, <1>4, <2>11, <2>15 DEF TurnsInv, TaskIs
    <3>2. ~Stops(t)
      BY <1>1, <1>2 DEF Stops
    <3>3. fr[t].at \in Body => Stops(t)'
      BY <1>2, <2>3, <2>5, <3>1, <3>2 DEF RunnerOK, Stops, TaskIs
    <3> QED
      BY <3>1, <3>3 DEF RunnerOK
  <2>19. TurnsInv'
    BY <2>17, <2>18 DEF TurnsInv
  <2>20. InCall(a)
    BY <1>4, <2>5 DEF InCall
  <2> QED
    BY <2>10, <2>13, <2>19, <2>20, CallKeeps
<1>6. CASE ~HasTask /\ fr[a].reason = "Interrupted" /\ Return(a)
  <2>1. "idle" \in AllPlaces
    BY StartingPlaces
  <2>2. /\ FramesTyped' /\ Moves(a) /\ fr'[a].at = "idle"
        /\ fr'[a].items = {} /\ fr'[a].ts = None /\ fr'[a].turn = None
        /\ fr'[a].input = {} /\ ~fr'[a].permit
    BY <1>2, <1>3, <1>6, <2>1, FreshMove DEF Return
  <2>3. FrameOK(a)' /\ StartOK(a)' /\ fr'[a].at \notin Apart
    BY <1>2, <2>2, RestFrame, ActorSorts
  <2> QED
    BY <1>1, <1>2, <1>4, <1>6, <2>2, <2>3, AbortEnds
<1>7. CASE ~HasTask /\ GotoWith(a, AfterAbort(a))
  <2>1. /\ FramesTyped' /\ Moves(LOOP) /\ fr'[LOOP].ts = None
        /\ FrameOK(LOOP)' /\ StartOK(LOOP)' /\ fr'[LOOP].at \notin Apart
    BY <1>1, <1>2, <1>4, <1>7, AfterAbortMove
  <2> QED
    BY <1>1, <1>2, <1>4, <1>7, <2>1, AbortEnds
<1> QED
  BY <1>5, <1>6, <1>7 DEF AbortTake

\* An abort drops the pending input and goes on to start the turn it was called for.
LEMMA AbortClearKeeps ==
    ASSUME Inv, NEW a \in Actors, AbortClear(a)
    PROVE  Inv'
<1>1. /\ fr[a].at = "abort.clear" /\ fr[a].at \in Aborting /\ GotoWith(a, AfterAbort(a))
      /\ UNCHANGED <<active, mailbox, turn, history, clientVars, goalVars>>
  BY DEF AbortClear, At, Aborting
<1>2. a = LOOP
  BY <1>1, AbortStart
<1>3. /\ FramesTyped /\ StatesTyped /\ TurnsTyped /\ ActiveTyped /\ RestTyped
      /\ fr[a] \in FrameRecords /\ LocalsOK(a)
  BY CallStart
<1>4. active = None /\ ~HasTask
  BY <1>1, <1>2 DEF Inv, TurnsInv, AbortOK, HasTask
<1>5. fr[a].ts \in States
  BY <1>1, <1>3 DEF LocalsOK, StatePlaces, FrameRecords
<1>6. StateIs(fr[a].ts, {}, turn_state[fr[a].ts].phase)
  BY <1>3, <1>5, PendingChange DEF AbortClear
<1>7. StatesTyped' /\ PhasesKept
  BY <1>5, <1>6 DEF StateIs, PhasesKept
<1>8. RestTyped' /\ ops' = ops /\ mailbox' = mailbox /\ turn' = turn
  BY <1>1, <1>3 DEF RestTyped, AbortClear, clientVars, goalVars
<1>9. /\ FramesTyped' /\ Moves(LOOP) /\ fr'[LOOP].ts = None
      /\ FrameOK(LOOP)' /\ StartOK(LOOP)' /\ fr'[LOOP].at \notin Apart
  BY <1>1, <1>2, <1>4, <1>8, AfterAbortMove
<1> QED
  BY <1>1, <1>2, <1>4, <1>7, <1>8, <1>9, AbortEnds

\* The loop goes on with the abort of turn t.
AbortMoves(t) ==
    /\ fr[LOOP].at \in {"abort.cancel", "abort.wait", "abort.event"} /\ fr[LOOP].turn = t
    /\ \/ /\ fr[LOOP].at = "abort.cancel" /\ fr'[LOOP].at = "abort.wait"
          /\ fr'[t] = fr[t] /\ turn'[t].events = turn[t].events
       \/ /\ fr[LOOP].at = "abort.wait" /\ fr'[LOOP].at = "abort.event"
          /\ (fr'[t] = Frame("over") \/ (fr'[t] = fr[t] /\ fr[t].at = "over"))
          /\ turn'[t].events = turn[t].events
       \/ /\ fr[LOOP].at = "abort.event" /\ fr'[LOOP].at = "abort.clear"
          /\ fr'[t] = fr[t] /\ turn'[t].events = turn[t].events \cup {"TurnAborted"}
    /\ KeepsCall(LOOP) /\ fr'[LOOP].items = fr[LOOP].items /\ fr'[LOOP].ts = fr[LOOP].ts
    /\ \A b \in Actors \ {LOOP, t} : fr'[b] = fr[b]
    /\ OnlyTurn(t) /\ FramesTyped' /\ RestTyped'
    /\ active' = active /\ turn_state' = turn_state /\ mailbox' = mailbox /\ ops' = ops

\* An abort between taking the turn and clearing it.
LEMMA AbortMovesKeep ==
    ASSUME Inv, NEW t \in Turns, AbortMoves(t)
    PROVE  Inv'
<1>1. /\ LOOP \in Actors /\ LOOP \notin Turns /\ LOOP \notin Ops /\ t \in Actors /\ t # LOOP /\ t \notin Ops
  BY ActorSorts
<1>2. /\ StatesTyped /\ ActiveTyped /\ PlaceOK(LOOP) /\ LocalsOK(LOOP) /\ LoopOnly(LOOP)
      /\ LocalsOK(t) /\ OwnInv /\ TurnsInv /\ AbortOK /\ RunnerOK(t) /\ fr[LOOP].at \in Aborting
  BY <1>1, CallStart DEF Inv, TurnsInv, AbortMoves, Aborting
<1>3. /\ active = None /\ ~HasTask /\ active' = None /\ ~HasTask'
      /\ \A s : ~Reserved(s) /\ ~Reserved(s)'
  BY <1>2 DEF AbortOK, AbortMoves, HasTask, Reserved
<1>4. TypeOK'
  BY <1>2 DEF AbortMoves, OnlyTurn, TypeOK, FramesTyped, StatesTyped, TurnsTyped, ActiveTyped,
       RestTyped, FrameRecords, StateRecords, TurnRecords, AllPlaces
<1>5. SessionKnown' /\ MailboxSent'
  BY DEF Inv, AbortMoves, SessionKnown, SentOnly, MailboxSent
<1>6. /\ ~ReserverStarts /\ LoopStarts /\ ~ReserverStarts'
      /\ \A b \in Actors \ {LOOP} : fr[b].at \notin Starting \cup Holding
  BY <1>1, <1>2, AbortStart DEF AbortMoves, ReserverStarts, SentOnly
<1>7. /\ fr'[LOOP].at \in Aborting
      /\ fr'[LOOP].at \notin Starting \cup Holding \cup Finishing \cup {"idle", "try.reserve", "pending.reserve"}
      /\ fr[LOOP].at \notin Starting
  BY DEF AbortMoves, Aborting, Starting, Holding, Finishing
<1>8. FrameOK(LOOP)'
  <2>1. PlaceOK(LOOP)'
    BY <1>1, <1>2, <1>7 DEF PlaceOK, AbortMoves, KeepsCall, LoopPlaces, Aborting
  <2>2. LocalsOK(LOOP)'
    BY <1>2, <1>7 DEF LocalsOK, AbortMoves, KeepsCall, ItemPlaces, StatePlaces, InputPlaces,
       Aborting, Starting, Holding
  <2>3. LoopOnly(LOOP)' /\ ReserversOnly(LOOP)'
    BY <1>6, <1>7 DEF LoopOnly, ReserversOnly
  <2> QED
    BY <2>1, <2>2, <2>3 DEF FrameOK
<1>9. fr[t].at \in Body \cup {"over"} /\ fr'[t].at \in Body \cup {"over"} /\ fr'[t].ts = None
      /\ fr[t].ts = None
  <2>1. fr[t].at \in Body \cup {"over"}
    BY <1>2 DEF AbortOK, AbortMoves
  <2>2. fr[t].ts = None
    BY <1>2, <2>1 DEF LocalsOK, StatePlaces, Body, Holding, Aborting, Finishing
  <2> QED
    BY <2>1, <2>2 DEF AbortMoves, Frame
<1>10. FrameOK(t)'
  <2>1. CASE fr'[t] = fr[t]
    BY <1>1, <2>1, FrameKept DEF Inv, AbortMoves
  <2>2. CASE fr'[t] = Frame("over")
    BY <1>1, <2>2, RestFrame DEF Frame
  <2> QED
    BY <2>1, <2>2 DEF AbortMoves
<1>11. \A b \in Actors : FrameOK(b)'
  BY <1>8, <1>10, FrameKept DEF Inv, AbortMoves
<1>12. OwnInv'
  <2>1. \A b \in Actors : fr'[b].ts = fr[b].ts
    BY <1>1, <1>9 DEF AbortMoves
  <2>2. \A b \in Actors : fr'[b].at \notin Starting \cup Holding
    BY <1>1, <1>6, <1>7, <1>9 DEF AbortMoves, Body, Starting, Holding
  <2>3. \A b \in Actors : ~Owns(b)' /\ StartOK(b)'
    BY <1>3, <1>6, <2>2 DEF Owns, StartOK, Starting
  <2>4. StatesApart'
    BY <1>2, <1>3, <2>1 DEF OwnInv, StatesApart
  <2> QED
    BY <1>3, <2>3, <2>4 DEF OwnInv, OneOwner, ReservedIsOwned
<1>13. AbortOK'
  <2>1. fr'[LOOP].turn = t /\ ~SentOnly(ChatKinds)' /\ "TurnComplete" \notin turn'[t].events
    BY <1>2 DEF AbortOK, AbortMoves, KeepsCall, SentOnly
  <2>2. fr'[LOOP].at \in {"abort.event", "abort.clear"} => fr'[t].at = "over"
    BY <1>2 DEF AbortOK, AbortMoves, Frame
  <2> QED
    BY <1>3, <1>7, <1>9, <2>1, <2>2 DEF AbortOK, Aborting
<1>14. ASSUME NEW u \in Turns
       PROVE  RunnerOK(u)'
  <2>1. RunnerOK(u) /\ u \in Actors /\ u # LOOP /\ ~TaskIs(u) /\ ~TaskIs(u)'
    BY <1>2, <1>3, ActorSorts DEF TurnsInv, TaskIs
  <2>2. CASE u = t
    <3>1. fr'[t].at \in Body => fr[LOOP].at = "abort.cancel" /\ fr'[t] = fr[t]
      <4>1. fr[LOOP].at = "abort.event" => fr[t].at = "over"
        BY <1>2 DEF AbortOK, AbortMoves
      <4> QED
        BY <4>1 DEF AbortMoves, Frame, Body
    <3>2. fr'[t].at \in Body => Stops(t)'
      BY <3>1 DEF AbortMoves, Stops, KeepsCall
    <3>3. fr'[t].at \in Body \cup {"unborn"} =>
            turn'[t].events \cap {"TurnComplete", "TurnAborted"} = {}
      BY <1>2, <1>9, <3>1 DEF RunnerOK, AbortMoves, Body
    <3>4. fr'[t].at \notin Finishing
      BY <1>9 DEF Finishing, Body
    <3>5. ~({"TurnComplete", "TurnAborted"} \subseteq turn'[t].events)
      BY <1>2 DEF AbortOK, AbortMoves
    <3> QED
      BY <2>1, <2>2, <3>2, <3>3, <3>4, <3>5 DEF RunnerOK
  <2>3. CASE u # t
    <3>1. fr'[u] = fr[u] /\ turn'[u] = turn[u]
      BY <2>1, <2>3 DEF AbortMoves, OnlyTurn
    <3>2. ~Stops(u)
      BY <2>3 DEF Stops, AbortMoves
    <3> QED
      BY <2>1, <3>1, <3>2 DEF RunnerOK
  <2> QED
    BY <2>2, <2>3
<1> QED
  BY <1>4, <1>5, <1>11, <1>12, <1>13, <1>14 DEF Inv, TurnsInv

\* The three steps of that sort.
LEMMA AbortSteps ==
    ASSUME Inv, NEW a \in Actors, AbortCancel(a) \/ AbortWait(a) \/ AbortEvent(a)
    PROVE  a = LOOP /\ \E t \in Turns : AbortMoves(t)
<1>1. fr[a].at \in {"abort.cancel", "abort.wait", "abort.event"} /\ fr[a].at \in Aborting
  BY DEF AbortCancel, AbortWait, AbortEvent, At, Aborting
<1>2. a = LOOP
  BY <1>1, AbortStart
<1>3. /\ FramesTyped /\ StatesTyped /\ TurnsTyped /\ ActiveTyped /\ RestTyped /\ AbortOK
      /\ fr[a] \in FrameRecords
  BY CallStart DEF Inv, TurnsInv
<1> DEFINE t == fr[a].turn
<1>4. t \in Turns /\ fr[a].turn = t
  BY <1>1, <1>2, <1>3 DEF AbortOK
<1>5. t \in Actors /\ t # a /\ turn[t] \in TurnRecords
  BY <1>2, <1>3, <1>4, ActorSorts DEF TurnsTyped
<1>6. {"abort.wait", "abort.event", "abort.clear"} \subseteq AllPlaces
  BY DEF AllPlaces, Call
<1>7. UNCHANGED <<active, turn_state, mailbox, history, clientVars, goalVars>>
  BY DEF AbortCancel, AbortWait, AbortEvent, recordVars
<1>8. active' = active /\ turn_state' = turn_state /\ mailbox' = mailbox /\ ops' = ops
  BY <1>7 DEF clientVars
<1> HIDE DEF t
<1>9. ASSUME UNCHANGED discarded
      PROVE  RestTyped'
  BY <1>3, <1>7, <1>9 DEF RestTyped, clientVars, goalVars
<1>10. ASSUME NEW p \in {"abort.wait", "abort.event", "abort.clear"}, Goto(a, p)
       PROVE  /\ FramesTyped' /\ KeepsCall(LOOP) /\ fr'[LOOP].at = p
              /\ fr'[LOOP].items = fr[LOOP].items /\ fr'[LOOP].ts = fr[LOOP].ts
              /\ \A b \in Actors \ {LOOP} : fr'[b] = fr[b]
  BY <1>2, <1>3, <1>6, <1>10, GotoMove DEF Moves
<1>11. CASE AbortCancel(a)
  <2> DEFINE r == [turn[t] EXCEPT !.cancelled = TRUE]
  <2>1. r \in TurnRecords /\ r.events = turn[t].events
    BY <1>5 DEF TurnRecords
  <2>2. turn' = [turn EXCEPT ![t] = r]
    BY <1>3, <1>4, <1>11 DEF AbortCancel, TurnsTyped
  <2>3. OnlyTurn(t) /\ turn'[t] = r
    BY <1>3, <1>4, <2>1, <2>2, TurnChange
  <2>4. /\ Goto(a, "abort.wait") /\ fr[a].at = "abort.cancel" /\ UNCHANGED discarded
    BY <1>11 DEF AbortCancel, At, recordVars
  <2>5. /\ FramesTyped' /\ KeepsCall(LOOP) /\ fr'[LOOP].at = "abort.wait"
        /\ fr'[LOOP].items = fr[LOOP].items /\ fr'[LOOP].ts = fr[LOOP].ts
        /\ \A b \in Actors \ {LOOP} : fr'[b] = fr[b]
    BY <1>10, <2>4
  <2>6. AbortMoves(t)
    BY <1>1, <1>2, <1>4, <1>5, <1>8, <1>9, <2>1, <2>3, <2>4, <2>5 DEF AbortMoves
  <2> QED
    BY <1>2, <1>4, <2>6
<1>12. CASE AbortEvent(a)
  <2> DEFINE r == [turn[t] EXCEPT !.events = turn[t].events \cup {"TurnAborted"}]
  <2>1. r \in TurnRecords /\ r.events = turn[t].events \cup {"TurnAborted"}
    BY <1>5 DEF TurnRecords
  <2>2. turn' = [turn EXCEPT ![t] = r]
    BY <1>3, <1>4, <1>12 DEF AbortEvent, TurnsTyped
  <2>3. OnlyTurn(t) /\ turn'[t] = r
    BY <1>3, <1>4, <2>1, <2>2, TurnChange
  <2>4. /\ Goto(a, "abort.clear") /\ fr[a].at = "abort.event" /\ UNCHANGED discarded
    BY <1>12 DEF AbortEvent, At, recordVars
  <2>5. /\ FramesTyped' /\ KeepsCall(LOOP) /\ fr'[LOOP].at = "abort.clear"
        /\ fr'[LOOP].items = fr[LOOP].items /\ fr'[LOOP].ts = fr[LOOP].ts
        /\ \A b \in Actors \ {LOOP} : fr'[b] = fr[b]
    BY <1>10, <2>4
  <2>6. AbortMoves(t)
    BY <1>1, <1>2, <1>4, <1>5, <1>8, <1>9, <2>1, <2>3, <2>4, <2>5 DEF AbortMoves
  <2> QED
    BY <1>2, <1>4, <2>6
<1>13. CASE AbortWait(a)
  <2>0. fr[a].at = "abort.wait"
    BY <1>13 DEF AbortWait, At
  <2>1. CASE fr[t].at = "over"
    <3>1. Goto(a, "abort.event") /\ UNCHANGED <<discarded, turn>>
      BY <1>4, <1>13, <2>1 DEF AbortWait, At
    <3>2. OnlyTurn(t) /\ turn'[t] = turn[t] /\ UNCHANGED discarded
      BY <1>3, <3>1 DEF OnlyTurn, TurnsTyped
    <3>3. /\ FramesTyped' /\ KeepsCall(LOOP) /\ fr'[LOOP].at = "abort.event"
          /\ fr'[LOOP].items = fr[LOOP].items /\ fr'[LOOP].ts = fr[LOOP].ts
          /\ \A b \in Actors \ {LOOP} : fr'[b] = fr[b]
      BY <1>10, <3>1
    <3>4. AbortMoves(t)
      BY <1>1, <1>2, <1>4, <1>5, <1>8, <1>9, <2>0, <2>1, <3>2, <3>3 DEF AbortMoves
    <3> QED
      BY <1>2, <1>4, <3>4
  <2>2. CASE fr[t].at # "over"
    <3>1. /\ fr' = [fr EXCEPT ![t] = Frame("over"), ![a].at = "abort.event"]
          /\ discarded' = discarded \cup (Items \cap (fr[t].items \cup turn[t].input))
          /\ turn' = [turn EXCEPT ![t].input = {}]
      BY <1>4, <1>13, <2>2 DEF AbortWait, At
    <3> DEFINE r == [turn[t] EXCEPT !.input = {}]
               f == [fr[a] EXCEPT !.at = "abort.event"]
    <3>2. r \in TurnRecords /\ r.events = turn[t].events
      BY <1>5 DEF TurnRecords
    <3>3. turn' = [turn EXCEPT ![t] = r]
      BY <1>3, <3>1 DEF TurnsTyped
    <3>4. OnlyTurn(t) /\ turn'[t] = r
      BY <1>3, <1>4, <3>2, <3>3, TurnChange
    <3>5. f \in FrameRecords /\ Frame("over") \in FrameRecords
      BY <1>3, <1>6, BodyPlaces DEF FrameRecords, Frame
    <3>6. /\ f.at = "abort.event" /\ f.items = fr[a].items /\ f.ts = fr[a].ts /\ f.turn = fr[a].turn
          /\ f.kind = fr[a].kind /\ f.input = fr[a].input /\ f.ret = fr[a].ret
          /\ f.reason = fr[a].reason /\ f.permit = fr[a].permit
      BY <1>3 DEF FrameRecords
    <3> DEFINE g == [fr EXCEPT ![t] = Frame("over")]
    <3>7. g \in [Actors -> FrameRecords] /\ g[a] = fr[a] /\ g[t] = Frame("over")
          /\ \A b \in Actors \ {t} : g[b] = fr[b]
      BY <1>3, <1>5, <3>5 DEF FramesTyped
    <3>8. fr' = [g EXCEPT ![a] = f]
      BY <1>3, <1>5, <3>1, <3>7 DEF FramesTyped
    <3> HIDE DEF g, f, r
    <3>9. /\ FramesTyped' /\ fr'[a] = f /\ fr'[t] = Frame("over")
          /\ \A b \in Actors \ {a, t} : fr'[b] = fr[b]
      BY <1>5, <3>5, <3>7, <3>8 DEF FramesTyped
    <3>10. RestTyped'
      BY <1>3, <1>7, <3>1 DEF RestTyped, clientVars, goalVars
    <3>11. KeepsCall(LOOP)
      BY <1>2, <3>6, <3>9 DEF KeepsCall
    <3>12. AbortMoves(t)
      BY <1>1, <1>2, <1>4, <1>5, <1>8, <2>0, <3>2, <3>4, <3>6, <3>9, <3>10, <3>11 DEF AbortMoves
    <3> QED
      BY <1>2, <1>4, <3>12
  <2> QED
    BY <2>1, <2>2
<1> QED
  BY <1>11, <1>12, <1>13

----------------------------------------------------------------------------
(* on_task_finished, and what follows it. *)

\* on_task_finished takes its own task out of the active turn.
LEMMA FinishTakeKeeps ==
    ASSUME Inv, NEW t \in Turns, FinishTake(t), HasTask
    PROVE  Inv'
<1>1. /\ fr[t].at = "finish.take" /\ fr[t].at \in Body
      /\ active' = [active EXCEPT !.task = None]
      /\ fr' = [fr EXCEPT ![t].ts = active.ts, ![t].at = "finish.record"]
      /\ UNCHANGED <<turn_state, mailbox, turn, recordVars, clientVars, goalVars>>
  BY DEF FinishTake, At, Body
<1>2. t \in Actors /\ t # LOOP /\ t \notin Ops
  BY ActorSorts
<1>3. /\ FramesTyped /\ StatesTyped /\ TurnsTyped /\ ActiveTyped /\ RestTyped
      /\ LocalsOK(t) /\ OwnInv /\ TurnsInv /\ AbortOK /\ RunnerOK(t)
  BY <1>2, CallStart DEF Inv, TurnsInv
<1>4. TaskIs(t)
  BY <1>1, <1>3, BodyTask
<1>5. /\ active'.task = None /\ active'.ts = active.ts /\ active' # None /\ ActiveTyped'
      /\ active.ts \in States
  <2>1. active \in [task : Turns \cup {None}, ts : States]
    BY <1>3 DEF ActiveTyped, HasTask
  <2>2. active' \in [task : Turns \cup {None}, ts : States] /\ active'.task = None /\ active'.ts = active.ts
    BY <1>1, <2>1
  <2> QED
    BY <2>1, <2>2, ConstantsAssumption DEF ActiveTyped
<1>6. ~HasTask' /\ Reserved(active.ts)' /\ \A s : ~Reserved(s)
  BY <1>5 DEF HasTask, Reserved
<1>7. active.ts # None
  BY <1>5, ConstantsAssumption
<1>8. /\ FramesTyped' /\ Moves(t) /\ KeepsCall(t) /\ fr'[t].at = "finish.record"
      /\ fr'[t].items = fr[t].items /\ fr'[t].ts = active.ts
  <2> DEFINE s == active.ts
  <2>1. s \in States \cup {None} /\ "finish.record" \in AllPlaces
    BY <1>5, BodyPlaces DEF Finishing
  <2>2. TakesState(t, s, "finish.record")
    BY <1>1 DEF TakesState
  <2> HIDE DEF s
  <2>3. StateTaken(t, s, "finish.record")
    BY <1>2, <1>3, <2>1, <2>2, StateMove
  <2> QED
    BY <2>3 DEF s, StateTaken
<1>9. InCall(t) /\ ops' = ops /\ turn' = turn /\ ops' \subseteq ops
  BY <1>1, <1>3, <1>5, <1>8 DEF InCall, StatesTyped, TurnsTyped, RestTyped, recordVars, clientVars,
     goalVars
<1>10. /\ fr'[t].at \in Finishing
       /\ fr'[t].at \notin Starting \cup Pending \cup Aborting \cup Holding \cup Try \cup Body
                       \cup {"abort.take", "try.reserve", "unborn"}
  BY <1>8 DEF Starting, Pending, Aborting, Holding, Finishing, Try, Body
<1>11. FrameOK(t)'
  <2>1. PlaceOK(t)'
    BY <1>2, <1>10 DEF PlaceOK, TurnPlaces
  <2>2. /\ fr[t].turn = None /\ fr[t].items = {} /\ fr[t].input = {} /\ ~fr[t].permit
    BY <1>1, <1>3 DEF LocalsOK, Aborting, ItemPlaces, InputPlaces, Starting, Holding
  <2>3. LocalsOK(t)'
    BY <1>7, <1>8, <1>10, <2>2 DEF LocalsOK, KeepsCall, StatePlaces
  <2>4. LoopOnly(t)' /\ ReserversOnly(t)'
    BY <1>10 DEF LoopOnly, ReserversOnly, Pending
  <2> QED
    BY <2>1, <2>3, <2>4 DEF FrameOK
<1>12. StartOK(t)' /\ Owns(t)'
  BY <1>5, <1>7, <1>8, <1>10 DEF StartOK, Owns, Starting, Reserved
<1>13. TakesOwn(t)
  BY <1>3, <1>8 DEF TakesOwn, OwnInv, StatesApart
<1>14. \A b \in Actors \ {t} : fr[b].at \notin Starting /\ fr[b].ts # active'.ts
  BY <1>3, <1>5 DEF OwnInv, StartOK, StatesApart
<1>15. \A b \in Actors \ {t} : fr[b].at \in Finishing => ~ReserverStarts
  BY <1>3, <1>6 DEF OwnInv, StartOK
<1>16. OwnInv'
  BY <1>2, <1>3, <1>5, <1>6, <1>8, <1>9, <1>12, <1>13, <1>14, <1>15, OwnGains
<1>17. fr'[LOOP] = fr[LOOP] /\ fr[LOOP].at \notin Aborting
  BY <1>2, <1>3, <1>8, ActorSorts DEF Moves, AbortOK, HasTask
<1>18. AbortOK'
  BY <1>6, <1>17 DEF AbortOK
<1>19. ASSUME NEW u \in Turns
       PROVE  RunnerOK(u)'
  <2>1. RunnerOK(u) /\ turn'[u] = turn[u] /\ u # None /\ u \in Actors
    BY <1>3, <1>9, ActorSorts DEF TurnsInv
  <2>2. ~TaskIs(u)' /\ ~Stops(u)
    BY <1>5, <1>17, <2>1 DEF TaskIs, Stops, Aborting
  <2>3. CASE u = t
    <3>1. turn[t].events \cap {"TurnComplete", "TurnAborted"} = {}
      BY <1>1, <1>3 DEF RunnerOK
    <3> QED
      BY <1>10, <2>1, <2>2, <2>3, <3>1 DEF RunnerOK, Body
  <2>4. CASE u # t
    <3>1. fr'[u] = fr[u] /\ ~TaskIs(u)
      BY <1>4, <1>8, <2>1, <2>4 DEF Moves, TaskIs
    <3> QED
      BY <2>1, <2>2, <3>1 DEF RunnerOK
  <2> QED
    BY <2>3, <2>4
<1>20. TurnsInv'
  BY <1>18, <1>19 DEF TurnsInv
<1> QED
  BY <1>2, <1>9, <1>11, <1>16, <1>20, CallKeeps

\* The runner goes on to finish its turn.
FinishMoves(t) ==
    /\ fr[t].at \in Finishing /\ fr'[t].at \in Finishing /\ Moves(t) /\ KeepsCall(t)
    /\ fr'[t].ts = fr[t].ts /\ fr'[t].items = {}
    /\ OnlyTurn(t) /\ turn'[t].events \subseteq turn[t].events \cup {"TurnComplete"}
    /\ FramesTyped' /\ StatesTyped' /\ RestTyped' /\ PhasesKept
    /\ active' = active /\ ops' = ops /\ mailbox' = mailbox

\* on_task_finished between taking its task and clearing the active turn.
LEMMA FinishMovesKeep ==
    ASSUME Inv, NEW t \in Turns, FinishMoves(t)
    PROVE  Inv'
<1>1. t \in Actors /\ t # LOOP /\ t \notin Ops
  BY ActorSorts
<1>2. /\ ActiveTyped /\ LocalsOK(t) /\ OwnInv /\ TurnsInv /\ AbortOK /\ RunnerOK(t) /\ StartOK(t)
  BY <1>1, CallStart DEF Inv, TurnsInv
<1>3. InCall(t) /\ ops' = ops /\ ops' \subseteq ops
  BY <1>2 DEF InCall, FinishMoves, OnlyTurn, ActiveTyped
<1>4. /\ fr'[t].at \in Finishing
      /\ fr'[t].at \notin Starting \cup Pending \cup Aborting \cup Holding \cup Try \cup Body
                      \cup {"abort.take", "try.reserve", "unborn"}
      /\ fr[t].at \notin Starting \cup Aborting \cup Body \cup {"over"} \cup InputPlaces
  BY DEF FinishMoves, Starting, Pending, Aborting, Holding, Finishing, Try, Body, InputPlaces
<1>5. FrameOK(t)'
  <2>1. PlaceOK(t)'
    BY <1>1, <1>4 DEF PlaceOK, TurnPlaces
  <2>2. /\ fr[t].turn = None /\ fr[t].ts # None /\ fr[t].input = {} /\ ~fr[t].permit
    BY <1>2, <1>4 DEF LocalsOK, StatePlaces, FinishMoves
  <2>3. LocalsOK(t)'
    BY <1>4, <2>2 DEF LocalsOK, KeepsCall, StatePlaces, FinishMoves
  <2>4. LoopOnly(t)' /\ ReserversOnly(t)'
    BY <1>4 DEF LoopOnly, ReserversOnly, Pending
  <2> QED
    BY <2>1, <2>3, <2>4 DEF FrameOK
<1>6. StartOK(t)'
  BY <1>2, <1>3, <1>4 DEF StartOK, FinishMoves, Reserved, Starting, ReserverStarts, SentOnly
<1>7. Owns(t)' <=> Owns(t)
  BY <1>4 DEF Owns, FinishMoves, Reserved
<1>8. TakesOwn(t)
  BY <1>1, <1>2, OwnState DEF OwnInv, FinishMoves
<1>9. OwnInv'
  BY <1>1, <1>2, <1>3, <1>6, <1>7, <1>8, OwnKept DEF FinishMoves
<1>10. fr'[LOOP] = fr[LOOP]
  BY <1>1, ActorSorts DEF FinishMoves, Moves
<1>11. AbortOK'
  <2>1. CASE fr[LOOP].at \in Aborting
    <3> DEFINE u == fr[LOOP].turn
    <3>1. u \in Turns /\ u \in Actors /\ u # t
      BY <1>2, <1>4, <2>1, ActorSorts DEF AbortOK
    <3>2. fr'[u] = fr[u] /\ turn'[u] = turn[u]
      BY <3>1 DEF FinishMoves, Moves, OnlyTurn
    <3> QED
      BY <1>2, <1>3, <1>10, <2>1, <3>1, <3>2 DEF AbortOK, FinishMoves, SentOnly, Aborting
  <2>2. CASE fr[LOOP].at \notin Aborting
    BY <1>2, <1>3, <1>10, <2>2 DEF AbortOK, FinishMoves, SentOnly, HasTask
  <2> QED
    BY <2>1, <2>2
<1>12. ASSUME NEW u \in Turns
       PROVE  RunnerOK(u)'
  <2>1. /\ RunnerOK(u) /\ u \in Actors /\ (TaskIs(u)' <=> TaskIs(u)) /\ (Stops(u)' <=> Stops(u))
    BY <1>2, <1>10, ActorSorts DEF TurnsInv, TaskIs, Stops, FinishMoves
  <2>2. CASE u = t
    <3>1. ~TaskIs(t) /\ "TurnAborted" \notin turn[t].events
      BY <1>2, <1>4 DEF RunnerOK, FinishMoves
    <3>2. "TurnAborted" \notin turn'[t].events
      BY <3>1 DEF FinishMoves
    <3> QED
      BY <1>4, <2>1, <2>2, <3>1, <3>2 DEF RunnerOK, Body
  <2>3. CASE u # t
    <3>1. fr'[u] = fr[u] /\ turn'[u] = turn[u]
      BY <2>1, <2>3 DEF FinishMoves, Moves, OnlyTurn
    <3>2. TaskIs(u) => active.ts \in States
      BY <1>2 DEF TaskIs, ActiveTyped
    <3>3. fr'[u].at = "turn.drain" /\ TaskIs(u)' => turn_state'[active'.ts].phase = "CurrentTurn"
      BY <2>1, <3>1, <3>2 DEF RunnerOK, FinishMoves, PhasesKept
    <3> QED
      BY <2>1, <3>1, <3>3 DEF RunnerOK
  <2> QED
    BY <2>2, <2>3
<1>13. TurnsInv'
  BY <1>11, <1>12 DEF TurnsInv
<1> QED
  BY <1>1, <1>3, <1>5, <1>9, <1>13, CallKeeps

\* The locals of a turn that is being finished.
LEMMA FinishStart ==
    ASSUME Inv, NEW t \in Turns, fr[t].at \in Finishing
    PROVE  /\ FramesTyped /\ StatesTyped /\ TurnsTyped /\ ActiveTyped /\ RestTyped
           /\ t \in Actors /\ t # LOOP /\ t \notin Ops /\ turn[t] \in TurnRecords /\ fr[t] \in FrameRecords
           /\ fr[t].ts \in States /\ fr[t].ts # None /\ fr[t].items = {} /\ fr[t].turn = None
           /\ fr[t].input = {} /\ ~fr[t].permit
           /\ turn_state[fr[t].ts].pending \in SUBSET (Items \cup {GOAL})
           /\ fr[t].at \notin Aside /\ fr[t].at \notin Starting
<1>1. t \in Actors /\ t # LOOP /\ t \notin Ops
  BY ActorSorts
<1>2. /\ FramesTyped /\ StatesTyped /\ TurnsTyped /\ ActiveTyped /\ RestTyped
      /\ fr[t] \in FrameRecords /\ LocalsOK(t)
  BY <1>1, CallStart
<1>3. /\ fr[t].at \notin Aborting \cup ItemPlaces \cup InputPlaces \cup Starting \cup Aside
      /\ fr[t].at \in StatePlaces
  BY DEF Finishing, Aborting, ItemPlaces, InputPlaces, Starting, Holding, StatePlaces, Aside, Body
<1>4. /\ fr[t].ts # None /\ fr[t].items = {} /\ fr[t].turn = None /\ fr[t].input = {} /\ ~fr[t].permit
  BY <1>2, <1>3 DEF LocalsOK
<1>5. fr[t].ts \in States
  BY <1>2, <1>4 DEF FrameRecords
<1>6. turn_state[fr[t].ts].pending \in SUBSET (Items \cup {GOAL}) /\ turn[t] \in TurnRecords
  BY <1>2, <1>5 DEF StatesTyped, StateRecords, TurnsTyped
<1> QED
  BY <1>1, <1>2, <1>3, <1>4, <1>5, <1>6

\* on_task_finished records the input that was left.
LEMMA FinishRecordMoves ==
    ASSUME Inv, NEW t \in Turns, FinishRecord(t)
    PROVE  /\ FinishMoves(t)
           /\ Recorded(t, turn_state[fr[t].ts].pending, "finish.event", "finish.event")
           /\ StateIs(fr[t].ts, {}, turn_state[fr[t].ts].phase)
<1>1. /\ fr[t].at = "finish.record" /\ fr[t].at \in Finishing
      /\ RecordInputs(t, turn_state[fr[t].ts].pending, "finish.event", "finish.event")
      /\ turn_state' = [turn_state EXCEPT ![fr[t].ts].pending = {}]
      /\ UNCHANGED <<active, mailbox, clientVars, goalVars>>
  BY DEF FinishRecord, At, Finishing
<1>2. /\ FramesTyped /\ StatesTyped /\ TurnsTyped /\ RestTyped /\ fr[t].ts \in States
      /\ turn_state[fr[t].ts].pending \in SUBSET (Items \cup {GOAL})
  BY <1>1, FinishStart
<1>3. "finish.event" \in AllPlaces /\ "finish.event" \in Finishing
  BY BodyPlaces DEF Finishing
<1>4. Recorded(t, turn_state[fr[t].ts].pending, "finish.event", "finish.event")
  <2> DEFINE X == turn_state[fr[t].ts].pending
             p == "finish.event"
  <2>1. X \subseteq Items \cup {GOAL} /\ p \in AllPlaces /\ RecordInputs(t, X, p, p)
    BY <1>1, <1>2, <1>3
  <2> HIDE DEF X, p
  <2>2. Recorded(t, X, p, p)
    BY <1>2, <2>1, RecordEffect
  <2> QED
    BY <2>2 DEF X, p
<1>5. StateIs(fr[t].ts, {}, turn_state[fr[t].ts].phase)
  BY <1>1, <1>2, PendingChange
<1>6. StatesTyped' /\ PhasesKept
  BY <1>2, <1>5 DEF StateIs, PhasesKept
<1>7. RestTyped'
  BY <1>1, <1>2, <1>4 DEF Recorded, RestTyped, clientVars, goalVars
<1>8. FinishMoves(t)
  BY <1>1, <1>3, <1>4, <1>6, <1>7 DEF Recorded, FinishMoves, clientVars
<1> QED
  BY <1>4, <1>5, <1>8

\* on_task_finished reports the turn as complete.
LEMMA FinishEventMoves ==
    ASSUME Inv, NEW t \in Turns, FinishEvent(t)
    PROVE  /\ FinishMoves(t) /\ turn_state' = turn_state /\ history' = history /\ discarded' = discarded
           /\ turn'[t].input = turn[t].input /\ turn'[t].kind = turn[t].kind
           /\ fr'[t].at = "finish.clear" /\ reply' = reply
<1>1. /\ fr[t].at = "finish.event" /\ fr[t].at \in Finishing
      /\ turn' = [turn EXCEPT ![t].events = @ \cup {"TurnComplete"}, ![t].rounds = 0]
      /\ Goto(t, "finish.clear")
      /\ UNCHANGED <<active, turn_state, mailbox, recordVars, clientVars, goalVars>>
  BY DEF FinishEvent, At, Finishing
<1>2. /\ FramesTyped /\ StatesTyped /\ TurnsTyped /\ RestTyped /\ fr[t].items = {}
      /\ t \in Actors /\ turn[t] \in TurnRecords
  BY <1>1, FinishStart
<1>3. "finish.clear" \in AllPlaces /\ "finish.clear" \in Finishing
  BY BodyPlaces DEF Finishing
<1>4. /\ FramesTyped' /\ Moves(t) /\ KeepsCall(t) /\ fr'[t].at = "finish.clear"
      /\ fr'[t].items = fr[t].items /\ fr'[t].ts = fr[t].ts
  BY <1>1, <1>2, <1>3, GotoMove
<1> DEFINE r == [turn[t] EXCEPT !.events = turn[t].events \cup {"TurnComplete"}, !.rounds = 0]
<1>5. 0 \in 0 .. MaxRounds
  BY ConstantsAssumption
<1>6. /\ r \in TurnRecords /\ r.events = turn[t].events \cup {"TurnComplete"}
      /\ r.input = turn[t].input /\ r.kind = turn[t].kind
  BY <1>2, <1>5 DEF TurnRecords
<1>7. turn' = [turn EXCEPT ![t] = r]
  BY <1>1, <1>2 DEF TurnsTyped
<1>8. OnlyTurn(t) /\ turn'[t] = r
  BY <1>2, <1>6, <1>7, TurnChange
<1>9. RestTyped' /\ StatesTyped' /\ PhasesKept
  BY <1>1, <1>2 DEF RestTyped, StatesTyped, PhasesKept, recordVars, clientVars, goalVars
<1>10. FinishMoves(t)
  BY <1>1, <1>2, <1>3, <1>4, <1>6, <1>8, <1>9 DEF FinishMoves, clientVars
<1> QED
  BY <1>1, <1>4, <1>6, <1>8, <1>10 DEF recordVars, clientVars

\* on_task_finished clears the active turn, if nobody put a task into it.
LEMMA FinishClearKeeps ==
    ASSUME Inv, NEW t \in Turns, FinishClear(t)
    PROVE  Inv'
<1>1. /\ fr[t].at = "finish.clear" /\ fr[t].at \in Finishing
      /\ UNCHANGED <<turn_state, mailbox, turn, recordVars, clientVars, goalVars>>
  BY DEF FinishClear, At, Finishing
<1>2. /\ FramesTyped /\ StatesTyped /\ TurnsTyped /\ ActiveTyped /\ RestTyped
      /\ t \in Actors /\ t # LOOP /\ t \notin Ops /\ fr[t].ts # None
      /\ fr[t].at \notin Aside /\ fr[t].at \notin Starting
  BY <1>1, FinishStart
<1>3. /\ StatesTyped' /\ TurnsTyped' /\ RestTyped' /\ PhasesKept /\ ops' = ops /\ mailbox' = mailbox
      /\ turn' = turn
  BY <1>1, <1>2 DEF StatesTyped, TurnsTyped, RestTyped, PhasesKept, recordVars, clientVars, goalVars
<1>4. CASE /\ Reserved(fr[t].ts) /\ active' = None
           /\ GotoWith(t, [Frame("pending.check") EXCEPT !.ret = "goal.read"])
  <2>1. "pending.check" \in AllPlaces /\ "pending.check" \in Pending
    BY StartingPlaces DEF Pending
  <2>2. /\ FramesTyped' /\ Moves(t) /\ fr'[t].at = "pending.check" /\ fr'[t].ret = "goal.read"
        /\ fr'[t].items = {} /\ fr'[t].ts = None /\ fr'[t].turn = None
        /\ fr'[t].input = {} /\ ~fr'[t].permit
    BY <1>2, <1>4, <2>1, FreshMove
  <2>3. FrameOK(t)' /\ fr'[t].at \notin Apart
    BY <1>2, <2>2, CallFrame
  <2>4. StartOK(t)'
    BY <2>2 DEF StartOK, Starting, Holding, Finishing
  <2>5. OwnInv /\ TurnsInv /\ ops' \subseteq ops /\ ~HasTask
    BY <1>3, <1>4 DEF Inv, Reserved, HasTask
  <2>6. Owns(t)
    BY <1>2, <1>4 DEF Owns
  <2>7. \A b \in Actors \ {t} : ~Owns(b)
    BY <1>2, <2>5, <2>6 DEF OwnInv, OneOwner
  <2>8. \A b \in Actors \ {t} : fr[b].at \in StatePlaces => ~Reserved(fr[b].ts)
    BY <2>7, CallStart DEF Owns, LocalsOK
  <2>9. \A b \in Actors \ {t} : fr[b].at \notin Starting \cup Holding
    BY <2>5, <2>7, <2>8 DEF Owns, OwnInv, StartOK, StatePlaces
  <2>10. \A b \in Actors \ {t} : fr[b].at \in Finishing => ~ReserverStarts
    BY <2>5, <2>8 DEF OwnInv, StartOK, StatePlaces
  <2>11. TakesOwn(t)
    BY <2>2 DEF TakesOwn
  <2>12. OwnInv'
    BY <1>2, <1>4, <2>2, <2>4, <2>5, <2>9, <2>10, <2>11, OwnDrops
  <2>13. TasksKept
    BY <1>4, <2>5 DEF TasksKept, HasTask
  <2>14. TurnsInv'
    BY <1>2, <1>3, <2>2, <2>3, <2>5, <2>13, TurnsKept
  <2>15. InCall(t)
    BY <1>3, <1>4, <2>2 DEF InCall, ActiveTyped
  <2> QED
    BY <1>2, <2>3, <2>12, <2>14, <2>15, CallKeeps
<1>5. CASE ~Reserved(fr[t].ts) /\ GotoWith(t, Frame("over")) /\ UNCHANGED active
  <2>1. /\ FramesTyped' /\ Moves(t) /\ fr'[t].at = "over"
        /\ fr'[t].items = {} /\ fr'[t].ts = None /\ fr'[t].turn = None
        /\ fr'[t].input = {} /\ ~fr'[t].permit
    BY <1>2, <1>5, FreshMove, BodyPlaces
  <2>2. FrameOK(t)' /\ StartOK(t)' /\ ~Owns(t)' /\ fr'[t].at \notin Apart
    BY <1>2, <2>1, RestFrame
  <2>3. ~Owns(t)
    BY <1>2, <1>5 DEF Owns
  <2>4. InCall(t)
    BY <1>2, <1>3, <1>5, <2>1 DEF InCall, ActiveTyped
  <2> QED
    BY <1>2, <1>3, <1>5, <2>1, <2>2, <2>3, <2>4, QuietKeeps
<1> QED
  BY <1>4, <1>5 DEF FinishClear

\* No goal is active.
LEMMA GoalReadKeeps ==
    ASSUME Inv, OneStarter, NEW t \in Turns, GoalRead(t)
    PROVE  Inv'
<1>1. /\ fr[t].at = "goal.read"
      /\ UNCHANGED <<active, turn_state, mailbox, turn, recordVars, clientVars, goalVars>>
  BY DEF GoalRead, At
<1>2. t \in Actors
  BY ActorSorts
<1>3. /\ FramesTyped /\ StatesTyped /\ TurnsTyped /\ ActiveTyped /\ RestTyped /\ LocalsOK(t)
  BY <1>2, CallStart
<1>4. GotoWith(t, Frame("over"))
  BY <1>3 DEF GoalRead, RestTyped, OneStarter
<1>5. /\ FramesTyped' /\ Moves(t) /\ fr'[t].at = "over"
      /\ fr'[t].items = {} /\ fr'[t].ts = None /\ fr'[t].turn = None
      /\ fr'[t].input = {} /\ ~fr'[t].permit
  BY <1>2, <1>3, <1>4, FreshMove, BodyPlaces
<1>6. FrameOK(t)' /\ StartOK(t)' /\ ~Owns(t)' /\ fr'[t].at \notin Apart
  BY <1>2, <1>5, RestFrame
<1>7. fr[t].at \notin Aside \cup Starting \cup StatePlaces
  BY <1>1 DEF Aside, Body, Starting, StatePlaces, Holding, Aborting, Finishing
<1>8. ~Owns(t)
  BY <1>3, <1>7 DEF Owns, LocalsOK
<1>9. InCall(t) /\ PhasesKept
  BY <1>1, <1>3, <1>5 DEF InCall, PhasesKept, StatesTyped, TurnsTyped, ActiveTyped, RestTyped,
     recordVars, clientVars, goalVars
<1> QED
  BY <1>1, <1>2, <1>5, <1>6, <1>7, <1>8, <1>9, QuietKeeps

----------------------------------------------------------------------------
(* What the session is sent. *)

\* An operation is sent to a session of one of the three sorts.
LEMMA SendEffect ==
    ASSUME Inv, OneStarter, NEW o \in Ops, NEW k, Sends(o, k)
    PROVE  /\ ops' \subseteq ops /\ o \in ops /\ o \notin ops' /\ OpKind[o] = k
           /\ ops' = ops \ {o} /\ ops' \in SUBSET Ops
           /\ SessionKnown' /\ k \in ClientKinds \cup ChatKinds \cup AgentKinds
           /\ \A K : SentOnly(K)' => k \in K
<1>1. /\ ops' \subseteq ops /\ o \in ops /\ o \notin ops' /\ OpKind[o] = k /\ ops' = ops \ {o}
  BY DEF Sends
<1>2. ops \subseteq Ops
  BY TypeParts DEF Inv, RestTyped
<1>3. Ops \ ops' = (Ops \ ops) \cup {o}
  BY <1>1, <1>2
<1>4. PICK session \in Sessions : Ops \ ops' \subseteq session
  BY <1>3 DEF Sends
<1>5. PICK K \in {ClientKinds, ChatKinds, AgentKinds} : \A p \in session : OpKind[p] \in K
  BY DEF OneStarter
<1>6. SentOnly(K)'
  BY <1>4, <1>5 DEF SentOnly
<1>7. SessionKnown'
  BY <1>5, <1>6 DEF SessionKnown
<1>8. \A J : SentOnly(J)' => k \in J
  BY <1>1 DEF SentOnly
<1>9. k \in ClientKinds \cup ChatKinds \cup AgentKinds
  BY <1>5, <1>6, <1>8
<1> QED
  BY <1>1, <1>2, <1>7, <1>8, <1>9

\* A step of actor a that sends something.
Sending(a) ==
    /\ ops' \subseteq ops /\ SessionKnown' /\ MailboxSent' /\ Moves(a)
    /\ FramesTyped' /\ StatesTyped' /\ TurnsTyped' /\ ActiveTyped' /\ RestTyped'

\* What such a step has to keep.
LEMMA SendingKeeps ==
    ASSUME Inv, NEW a \in Actors, Sending(a), FrameOK(a)', OwnInv', TurnsInv'
    PROVE  Inv'
<1>1. TypeOK'
  BY DEF Sending, TypeOK, FramesTyped, StatesTyped, TurnsTyped, ActiveTyped,
       RestTyped, FrameRecords, StateRecords, TurnRecords, AllPlaces
<1>2. \A b \in Actors : FrameOK(b)'
  <2>1. Moves(a) /\ ops' \subseteq ops /\ \A b \in Actors : FrameOK(b)
    BY DEF Sending, Inv
  <2> QED
    BY <2>1, FramesKept
<1> QED
  BY <1>1, <1>2 DEF Inv, Sending

\* Nobody moves.
LEMMA StillKeeps ==
    ASSUME Inv, Sending(LOOP), fr' = fr, active' = active, turn' = turn, PhasesKept
    PROVE  Inv'
<1>1. /\ OwnInv /\ TurnsInv /\ ActiveTyped /\ AbortOK /\ ops' \subseteq ops /\ Moves(LOOP)
      /\ LOOP \in Actors /\ FrameOK(LOOP) /\ StartOK(LOOP)
  BY TypeParts, ActorSorts DEF Inv, TurnsInv, Sending, OwnInv
<1>2. FrameOK(LOOP)'
  BY <1>1, FrameKept
<1>3. \A K : SentOnly(K)' => SentOnly(K)
  BY <1>1, SentGrows
<1>4. StartOK(LOOP)'
  BY <1>1, <1>3 DEF StartOK, HasTask, Reserved, LoopStarts, ReserverStarts
<1>5. TakesOwn(LOOP) /\ (Owns(LOOP)' <=> Owns(LOOP))
  BY <1>1, OwnState DEF OwnInv, Owns, Reserved
<1>6. OwnInv'
  BY <1>1, <1>4, <1>5, OwnKept
<1>7. AbortOK'
  BY <1>1, <1>3 DEF AbortOK, HasTask
<1>8. ASSUME NEW t \in Turns
      PROVE  RunnerOK(t)'
  <2>1. /\ RunnerOK(t) /\ (TaskIs(t)' <=> TaskIs(t)) /\ (Stops(t)' <=> Stops(t))
        /\ (TaskIs(t) => active.ts \in States)
    BY <1>1 DEF TurnsInv, TaskIs, Stops, ActiveTyped
  <2>2. fr'[t].at = "turn.drain" /\ TaskIs(t)' => turn_state'[active'.ts].phase = "CurrentTurn"
    BY <2>1 DEF RunnerOK, PhasesKept
  <2> QED
    BY <2>1, <2>2 DEF RunnerOK
<1> QED
  BY <1>1, <1>2, <1>6, <1>7, <1>8, SendingKeeps DEF TurnsInv

\* An idle actor is given something to do.
LEMMA WakeKeeps ==
    ASSUME Inv, NEW a \in Actors, Sending(a), active' = active, turn' = turn, turn_state' = turn_state,
           fr[a].at = "idle", fr'[a].ts = None, fr'[a].at \notin Starting \cup Holding \cup Finishing,
           FrameOK(a)',
           \/ fr'[a].at \notin Apart
           \/ fr'[a].at = "abort.take" /\ (~HasTask \/ ~SentOnly(ChatKinds)')
    PROVE  Inv'
<1>1. OwnInv /\ TurnsInv /\ ActiveTyped /\ ops' \subseteq ops /\ Moves(a) /\ LocalsOK(a)
  BY CallStart DEF Inv, Sending
<1>2. fr[a].at \notin Starting \cup StatePlaces \cup Aside
  BY DEF Starting, StatePlaces, Aside, Body, Holding, Aborting, Finishing
<1>3. ~Owns(a) /\ ~Owns(a)' /\ StartOK(a)'
  BY <1>1, <1>2 DEF Owns, StartOK, LocalsOK, Starting
<1>4. TakesOwn(a) /\ PhasesKept /\ TasksKept
  BY DEF TakesOwn, PhasesKept, TasksKept
<1>5. OwnInv'
  BY <1>1, <1>3, <1>4, OwnKept
<1>6. TurnsInv'
  BY <1>1, <1>2, <1>4, TurnsKept
<1> QED
  BY <1>5, <1>6, SendingKeeps

\* The places at which an operation leaves the loop.
LEMMA WakePlaces ==
    /\ "abort.take" \in AllPlaces /\ "try.reserve" \in AllPlaces /\ "pending.check" \in AllPlaces
    /\ Holding \subseteq AllPlaces
BY DEF AllPlaces, Call, Try, Holding

\* The loop begins to abort.
LEMMA AbortWakes ==
    ASSUME Inv, OneStarter, NEW o \in Ops, NEW k \in {"user", "spawn", "interrupt"}, Receives(o, k),
           NEW r \in FrameRecords, GotoWith(LOOP, r),
           r.at = "abort.take", r.ret = "idle", r.items = {}, r.ts = None, r.turn = None, ~r.permit,
           r.input # {} => r.kind = "Regular" /\ r.reason # "Interrupted", k = "user" => ~HasTask,
           UNCHANGED <<active, turn_state, mailbox, recordVars, reply, turn, goalVars>>
    PROVE  Inv'
<1>1. /\ ops' \subseteq ops /\ ops' \in SUBSET Ops /\ SessionKnown' /\ \A K : SentOnly(K)' => k \in K
  BY SendEffect DEF Receives
<1>2. LOOP \in Actors /\ LOOP \notin Turns /\ LOOP \notin Ops
  BY ActorSorts
<1>3. FramesTyped /\ StatesTyped /\ TurnsTyped /\ ActiveTyped /\ RestTyped
  BY <1>2, CallStart
<1>4. FramesTyped' /\ Moves(LOOP) /\ fr'[LOOP] = r
  BY <1>2, <1>3, FrameMove
<1>5. MailboxSent'
  BY <1>1 DEF Inv, MailboxSent
<1>6. Sending(LOOP)
  BY <1>1, <1>3, <1>4, <1>5 DEF Sending, StatesTyped, TurnsTyped, ActiveTyped, RestTyped, recordVars,
     goalVars
<1>7. ~ReserverStarts' /\ (k # "user" => ~SentOnly(ChatKinds)')
  BY <1>1 DEF ReserverStarts, AgentKinds, ChatKinds
<1>8. /\ fr'[LOOP].at \in LoopPlaces /\ fr'[LOOP].at \in InputPlaces
      /\ fr'[LOOP].at \notin Starting \cup Holding \cup Finishing \cup Aborting \cup StatePlaces
                        \cup {"try.reserve", "pending.reserve"}
  BY <1>4 DEF LoopPlaces, InputPlaces, Starting, Holding, Finishing, Aborting, StatePlaces
<1>9. FrameOK(LOOP)'
  <2>1. PlaceOK(LOOP)'
    BY <1>2, <1>4, <1>8 DEF PlaceOK
  <2>2. LocalsOK(LOOP)'
    BY <1>4, <1>8 DEF LocalsOK
  <2>3. LoopOnly(LOOP)' /\ ReserversOnly(LOOP)'
    BY <1>7, <1>8 DEF LoopOnly, ReserversOnly
  <2> QED
    BY <2>1, <2>2, <2>3 DEF FrameOK
<1>10. fr[LOOP].at = "idle"
  BY DEF Receives, At
<1> QED
  BY <1>2, <1>4, <1>6, <1>7, <1>8, <1>9, <1>10, WakeKeeps

\* A steer, or a refusal.
LEMMA SteerKeeps ==
    ASSUME Inv, OneStarter, NEW o \in Ops, NEW k, Sends(o, k),
           OpKind[o] \in {"user", "steer"},
           (Steerable /\ SteerInto(o)) \/ (Reject(o) /\ UNCHANGED turn_state),
           UNCHANGED <<active, mailbox, recordVars, turn, fr, goalVars>>
    PROVE  Inv' /\ PhasesKept
<1>1. /\ ops' \subseteq ops /\ ops' \in SUBSET Ops /\ SessionKnown'
  BY SendEffect
<1>2. LOOP \in Actors
  BY ActorSorts
<1>3. /\ FramesTyped /\ StatesTyped /\ TurnsTyped /\ ActiveTyped /\ RestTyped
      /\ active # None => active.ts \in States
  BY <1>2, CallStart
<1>4. o \in Items
  BY DEF Items
<1>5. StatesTyped' /\ PhasesKept /\ reply' \in [Ops -> Turns \cup {Rejected, None}]
  <2>1. CASE Steerable /\ SteerInto(o)
    <3>1. active.ts \in States /\ active.task \in Turns
      BY <1>3, <2>1 DEF Steerable, HasTask, ActiveTyped
    <3> DEFINE r == [pending |-> turn_state[active.ts].pending \cup {o}, phase |-> "CurrentTurn"]
    <3>2. r \in StateRecords /\ r.phase = "CurrentTurn"
      BY <1>3, <1>4, <3>1 DEF StatesTyped, StateRecords
    <3>3. turn_state' = [turn_state EXCEPT ![active.ts] = r]
      BY <1>3, <2>1 DEF SteerInto, StatesTyped
    <3> HIDE DEF r
    <3>4. StateIs(active.ts, r.pending, r.phase)
      BY <1>3, <3>1, <3>2, <3>3, StateChange
    <3>5. reply' \in [Ops -> Turns \cup {Rejected, None}]
      BY <1>3, <2>1, <3>1 DEF SteerInto, RestTyped
    <3> QED
      BY <3>1, <3>2, <3>4, <3>5 DEF StateIs, PhasesKept
  <2>2. CASE Reject(o) /\ UNCHANGED turn_state
    BY <1>3, <2>2 DEF Reject, StatesTyped, PhasesKept, RestTyped
  <2> QED
    BY <2>1, <2>2
<1>6. Sending(LOOP)
  BY <1>1, <1>3, <1>5 DEF Sending, Inv, MailboxSent, Moves, FramesTyped, TurnsTyped, ActiveTyped,
     RestTyped, recordVars, goalVars
<1> QED
  BY <1>5, <1>6, StillKeeps

\* User input steers the running turn, is rejected, or starts a turn.
LEMMA UserInputKeeps ==
    ASSUME Inv, OneStarter, NEW o \in Ops, UserInput(o)
    PROVE  Inv'
<1>1. /\ Receives(o, "user") /\ Sends(o, "user")
      /\ UNCHANGED <<active, mailbox, recordVars, turn, goalVars>>
  BY DEF UserInput, Receives
<1>2. OpKind[o] = "user"
  BY <1>1 DEF Sends
<1>3. CASE ((Steerable /\ SteerInto(o)) \/ (Reject(o) /\ UNCHANGED turn_state)) /\ UNCHANGED fr
  BY <1>1, <1>2, <1>3, SteerKeeps
<1>4. CASE /\ ~HasTask
           /\ GotoWith(LOOP, [Frame("abort.take") EXCEPT
                !.reason = "Replaced", !.input = {o}, !.ret = "idle"])
           /\ UNCHANGED <<turn_state, reply>>
  <2> DEFINE r == [Frame("abort.take") EXCEPT !.reason = "Replaced", !.input = {o}, !.ret = "idle"]
  <2>1. {o} \in SUBSET Items
    BY <1>2 DEF Items
  <2>2. Frame("abort.take") \in FrameRecords
    BY WakePlaces DEF Frame, FrameRecords
  <2>3. r \in FrameRecords
    BY <2>1, <2>2 DEF FrameRecords
  <2>4. /\ r.at = "abort.take" /\ r.ret = "idle" /\ r.items = {} /\ r.ts = None /\ r.turn = None
        /\ r.permit = FALSE /\ r.kind = "Regular" /\ r.reason = "Replaced"
    BY DEF Frame
  <2>5. GotoWith(LOOP, r)
    BY <1>4
  <2> HIDE DEF r
  <2>6. UNCHANGED <<active, turn_state, mailbox, recordVars, reply, turn, goalVars>>
    BY <1>1, <1>4
  <2> QED
    BY <1>1, <1>4, <2>3, <2>4, <2>5, <2>6, AbortWakes
<1> QED
  BY <1>3, <1>4 DEF UserInput

\* A review or compaction replaces the running turn, an interrupt stops it.
LEMMA ReplaceKeeps ==
    ASSUME Inv, OneStarter, NEW o \in Ops, SpawnOther(o) \/ Interrupt(o)
    PROVE  Inv'
<1>1. Frame("abort.take") \in FrameRecords
  BY WakePlaces DEF Frame, FrameRecords
<1>2. CASE SpawnOther(o)
  <2>0. PICK kind \in {"Other", "Shell"} : GotoWith(LOOP, [Frame("abort.take") EXCEPT
             !.reason = "Replaced", !.kind = kind, !.ret = "idle"])
     BY <1>2 DEF SpawnOther
  <2> DEFINE r == [Frame("abort.take") EXCEPT !.reason = "Replaced", !.kind = kind, !.ret = "idle"]
  <2>1. r \in FrameRecords
    BY <1>1 DEF FrameRecords
  <2>2. /\ r.at = "abort.take" /\ r.ret = "idle" /\ r.items = {} /\ r.ts = None /\ r.turn = None
        /\ r.permit = FALSE /\ r.input = {}
    BY DEF Frame
  <2>3. /\ GotoWith(LOOP, r) /\ Receives(o, "spawn")
        /\ UNCHANGED <<active, turn_state, mailbox, recordVars, reply, turn, goalVars>>
    BY <1>2, <2>0 DEF SpawnOther
  <2> HIDE DEF r
  <2> QED
    BY <2>1, <2>2, <2>3, AbortWakes
<1>3. CASE Interrupt(o)
  <2> DEFINE r == [Frame("abort.take") EXCEPT !.reason = "Interrupted", !.ret = "idle"]
  <2>1. r \in FrameRecords
    BY <1>1 DEF FrameRecords
  <2>2. /\ r.at = "abort.take" /\ r.ret = "idle" /\ r.items = {} /\ r.ts = None /\ r.turn = None
        /\ r.permit = FALSE /\ r.input = {}
    BY DEF Frame
  <2>3. /\ GotoWith(LOOP, r) /\ Receives(o, "interrupt")
        /\ UNCHANGED <<active, turn_state, mailbox, recordVars, reply, turn, goalVars>>
    BY <1>3 DEF Interrupt
  <2> HIDE DEF r
  <2> QED
    BY <2>1, <2>2, <2>3, AbortWakes
<1> QED
  BY <1>2, <1>3

\* Mail arrives.
LEMMA MailArrives ==
    ASSUME Inv, OneStarter, NEW o \in Ops, NEW k \in {"mail", "trigger"}, Sends(o, k),
           mailbox' = mailbox \cup {o}
    PROVE  /\ ops' \subseteq ops /\ ops' \in SUBSET Ops /\ SessionKnown' /\ MailboxSent'
           /\ mailbox' \subseteq Items
<1>1. /\ ops' \subseteq ops /\ ops' \in SUBSET Ops /\ SessionKnown' /\ o \notin ops' /\ OpKind[o] = k
  BY SendEffect
<1>2. MailboxSent /\ mailbox \subseteq Items
  BY TypeParts DEF Inv, RestTyped
<1>3. o \in Items
  BY <1>1 DEF Items
<1> QED
  BY <1>1, <1>2, <1>3 DEF MailboxSent

\* Mail comes in.
LEMMA MailKeeps ==
    ASSUME Inv, OneStarter, NEW o \in Ops, QueueMail(o) \/ TriggerTurnMail(o)
    PROVE  Inv'
<1>1. LOOP \in Actors /\ LOOP \notin Turns /\ LOOP \notin Ops
  BY ActorSorts
<1>2. FramesTyped /\ StatesTyped /\ TurnsTyped /\ ActiveTyped /\ RestTyped
  BY <1>1, CallStart
<1>3. CASE QueueMail(o)
  <2>1. /\ ops' \subseteq ops /\ ops' \in SUBSET Ops /\ SessionKnown' /\ MailboxSent'
        /\ mailbox' \subseteq Items
    BY <1>3, MailArrives DEF QueueMail, Receives
  <2>2. UNCHANGED <<active, turn_state, recordVars, reply, turn, fr, goalVars>>
    BY <1>3 DEF QueueMail
  <2>3. Sending(LOOP) /\ PhasesKept
    BY <1>2, <2>1, <2>2 DEF Sending, Moves, PhasesKept, FramesTyped, StatesTyped, TurnsTyped, ActiveTyped,
     RestTyped, recordVars, goalVars
  <2> QED
    BY <2>2, <2>3, StillKeeps
<1>4. CASE TriggerTurnMail(o)
  <2>1. /\ ops' \subseteq ops /\ ops' \in SUBSET Ops /\ SessionKnown' /\ MailboxSent'
        /\ mailbox' \subseteq Items
    BY <1>4, MailArrives DEF TriggerTurnMail, Receives
  <2>2. /\ UNCHANGED <<active, turn_state, recordVars, reply, turn, goalVars>>
        /\ GotoWith(LOOP, [Frame("pending.check") EXCEPT !.ret = "idle"]) /\ fr[LOOP].at = "idle"
    BY <1>4 DEF TriggerTurnMail, Receives, At
  <2>3. /\ FramesTyped' /\ Moves(LOOP) /\ fr'[LOOP].at = "pending.check" /\ fr'[LOOP].ret = "idle"
        /\ fr'[LOOP].items = {} /\ fr'[LOOP].ts = None /\ fr'[LOOP].turn = None
        /\ fr'[LOOP].input = {} /\ ~fr'[LOOP].permit
    BY <1>1, <1>2, <2>2, WakePlaces, FreshMove
  <2>4. FrameOK(LOOP)' /\ fr'[LOOP].at \notin Apart
    BY <1>1, <2>3, CallFrame
  <2>5. Sending(LOOP)
    BY <1>2, <2>1, <2>2, <2>3 DEF Sending, StatesTyped, TurnsTyped, ActiveTyped,
     RestTyped, recordVars, goalVars
  <2>6. fr'[LOOP].at \notin Starting \cup Holding \cup Finishing
    BY <2>3 DEF Starting, Holding, Finishing
  <2> QED
    BY <1>1, <2>2, <2>3, <2>4, <2>5, <2>6, WakeKeeps
<1> QED
  BY <1>3, <1>4

\* A caller steers the running turn.
LEMMA SteerOpKeeps ==
    ASSUME Inv, OneStarter, NEW o \in Ops, Steer(o)
    PROVE  Inv'
<1>1. Sends(o, "steer") /\ OpKind[o] = "steer"
  BY DEF Steer, Sends
<1> QED
  BY <1>1, SteerKeeps DEF Steer

\* Kinds that no such session is sent.
LEMMA OtherKinds ==
    ASSUME Inv, OneStarter, NEW o \in Ops
    PROVE  ~Inject(o) /\ ~GuardianAborts(o) /\ ~StopGoal(o)
<1>1. \A k : Sends(o, k) => k \in ClientKinds \cup ChatKinds \cup AgentKinds
  BY SendEffect
<1>2. \A k \in {"inject", "abort_turn", "goal_stop"} : ~Sends(o, k)
  BY <1>1 DEF ClientKinds, ChatKinds, AgentKinds
<1> QED
  BY <1>2 DEF Inject, GuardianAborts, StopGoal

----------------------------------------------------------------------------
(* try_start_turn_if_idle. *)

\* Where a caller of try_start_turn_if_idle is, and what it has.
LEMMA TryStarted ==
    ASSUME Inv, NEW o \in Ops, fr[o].at \in {"try.reserve"} \cup Holding
    PROVE  /\ FramesTyped /\ StatesTyped /\ TurnsTyped /\ ActiveTyped /\ RestTyped
           /\ o \in Actors /\ o # LOOP /\ o \notin Turns /\ o \notin ops /\ OpKind[o] = "try_start"
           /\ o \in Items /\ ~LoopStarts /\ fr[o].items = {o} /\ fr[o].input = {} /\ fr[o].turn = None
           /\ ~fr[o].permit /\ fr[o].at \notin Aside /\ fr[o].at \notin Starting
           /\ fr[o].at = "try.reserve" => fr[o].ts = None /\ ~Owns(o)
           /\ fr[o].at \in Holding =>
                 Reserved(fr[o].ts) /\ fr[o].ts \in States /\ fr[o].ts # None /\ Owns(o) /\ ~HasTask
<1>1. o \in Actors /\ o # LOOP /\ o \notin Turns
  BY ActorSorts
<1>2. /\ FramesTyped /\ StatesTyped /\ TurnsTyped /\ ActiveTyped /\ RestTyped
      /\ fr[o] \in FrameRecords /\ PlaceOK(o) /\ LocalsOK(o) /\ LoopOnly(o) /\ StartOK(o)
  BY <1>1, CallStart
<1>3. fr[o].at \notin Aside \cup Starting \cup Aborting \cup InputPlaces \cup {"idle"} /\ fr[o].at \in Try
  BY DEF Holding, Aside, Body, Starting, Aborting, InputPlaces, Try
<1>4. o \notin ops /\ OpKind[o] = "try_start" /\ o \in Items
  BY <1>2, <1>3 DEF PlaceOK, Items
<1>5. ~LoopStarts /\ fr[o].items = {o} /\ fr[o].input = {} /\ fr[o].turn = None /\ ~fr[o].permit
  BY <1>1, <1>2, <1>3 DEF LoopOnly, LocalsOK
<1>6. fr[o].at = "try.reserve" => fr[o].ts = None /\ ~Owns(o)
  BY <1>2 DEF LocalsOK, StatePlaces, Holding, Aborting, Finishing, Owns, Starting
<1>7. fr[o].at \in Holding =>
         Reserved(fr[o].ts) /\ fr[o].ts \in States /\ fr[o].ts # None /\ Owns(o) /\ ~HasTask
  BY <1>2 DEF LocalsOK, StatePlaces, StartOK, Owns, FrameRecords, Reserved, HasTask
<1> QED
  BY <1>1, <1>2, <1>3, <1>4, <1>5, <1>6, <1>7

\* A caller that goes on holds its item and, once it has reserved, the turn state.
LEMMA HoldingFrame ==
    ASSUME NEW o \in Ops, o \notin ops', OpKind[o] = "try_start", ~LoopStarts',
           fr'[o].at \in {"try.reserve"} \cup Holding, fr'[o].items = {o}, fr'[o].input = {},
           fr'[o].turn = None, ~fr'[o].permit, fr'[o].ts # None <=> fr'[o].at \in Holding
    PROVE  FrameOK(o)' /\ fr'[o].at \notin Apart
<1>1. /\ fr'[o].at \in OpPlaces /\ fr'[o].at \in ItemPlaces
      /\ fr'[o].at \notin Starting \cup Pending \cup Aborting \cup {"abort.take"} \cup Apart
      /\ fr'[o].at \in StatePlaces <=> fr'[o].at \in Holding
  BY DEF OpPlaces, ItemPlaces, StatePlaces, Starting, Pending, Aborting, Holding, Apart, Body, Finishing
<1>2. PlaceOK(o)' /\ LocalsOK(o)'
  BY <1>1, ActorSorts DEF PlaceOK, LocalsOK
<1>3. LoopOnly(o)' /\ ReserversOnly(o)'
  BY <1>1 DEF LoopOnly, ReserversOnly
<1> QED
  BY <1>1, <1>2, <1>3 DEF FrameOK

\* try_start_turn_if_idle looks at the mailbox.
LEMMA TryStartKeeps ==
    ASSUME Inv, OneStarter, NEW o \in Ops, TryStart(o)
    PROVE  Inv'
<1>1. /\ Sends(o, "try_start") /\ UNCHANGED <<active, turn_state, mailbox, recordVars, turn, goalVars>>
  BY DEF TryStart
<1>2. /\ ops' \subseteq ops /\ ops' \in SUBSET Ops /\ SessionKnown' /\ o \in ops /\ o \notin ops'
      /\ OpKind[o] = "try_start" /\ \A K : SentOnly(K)' => "try_start" \in K
  BY <1>1, SendEffect
<1>3. o \in Actors /\ LOOP \in Actors
  BY ActorSorts
<1>4. /\ FramesTyped /\ StatesTyped /\ TurnsTyped /\ ActiveTyped /\ RestTyped /\ PlaceOK(o)
  BY <1>3, CallStart
<1>5. MailboxSent'
  BY <1>1, <1>2 DEF Inv, MailboxSent
<1>6. StatesTyped' /\ TurnsTyped' /\ ActiveTyped' /\ PhasesKept
  BY <1>1, <1>4 DEF StatesTyped, TurnsTyped, ActiveTyped, PhasesKept
<1>7. CASE Reject(o) /\ UNCHANGED fr
  <2>1. RestTyped' /\ FramesTyped'
    BY <1>1, <1>2, <1>4, <1>7 DEF RestTyped, FramesTyped, Reject, recordVars, goalVars
  <2>2. Sending(LOOP)
    BY <1>2, <1>5, <1>6, <1>7, <2>1 DEF Sending, Moves
  <2> QED
    BY <1>1, <1>6, <1>7, <2>2, StillKeeps
<1>8. CASE GotoWith(o, [Frame("try.reserve") EXCEPT !.items = {o}]) /\ UNCHANGED reply
  <2> DEFINE r == [Frame("try.reserve") EXCEPT !.items = {o}]
  <2>1. {o} \in SUBSET (Items \cup {GOAL})
    BY <1>2 DEF Items
  <2>2. Frame("try.reserve") \in FrameRecords
    BY WakePlaces DEF Frame, FrameRecords
  <2>3. r \in FrameRecords
    BY <2>1, <2>2 DEF FrameRecords
  <2>4. /\ r.at = "try.reserve" /\ r.items = {o} /\ r.ts = None /\ r.turn = None /\ r.input = {}
        /\ r.permit = FALSE
    BY DEF Frame
  <2>5. GotoWith(o, r)
    BY <1>8
  <2> HIDE DEF r
  <2>6. FramesTyped' /\ Moves(o) /\ fr'[o] = r
    BY <1>3, <1>4, <2>3, <2>5, FrameMove
  <2>7. RestTyped'
    BY <1>1, <1>2, <1>4, <1>8 DEF RestTyped, recordVars, goalVars
  <2>8. Sending(o)
    BY <1>2, <1>5, <1>6, <2>6, <2>7 DEF Sending
  <2>9. ~LoopStarts'
    BY <1>2 DEF LoopStarts, ClientKinds, ChatKinds
  <2>10. fr'[o].at \notin Starting \cup Holding \cup Finishing
    BY <2>4, <2>6 DEF Starting, Holding, Finishing
  <2>11. FrameOK(o)' /\ fr'[o].at \notin Apart
    BY <1>2, <2>4, <2>6, <2>9, <2>10, HoldingFrame
  <2>12. fr[o].at = "idle"
    BY <1>2, <1>4 DEF PlaceOK
  <2> QED
    BY <1>1, <1>3, <2>4, <2>6, <2>8, <2>10, <2>11, <2>12, WakeKeeps
<1> QED
  BY <1>7, <1>8 DEF TryStart

\* try_start_turn_if_idle reserves the active turn.
LEMMA TryReserveKeeps ==
    ASSUME Inv, NEW o \in Ops, TryReserve(o)
    PROVE  Inv'
<1>1. fr[o].at = "try.reserve" /\ UNCHANGED <<mailbox, recordVars, ops, turn, goalVars>>
  BY DEF TryReserve, At
<1>2. /\ FramesTyped /\ StatesTyped /\ TurnsTyped /\ ActiveTyped /\ RestTyped
      /\ o \in Actors /\ o \notin Turns /\ o \notin ops /\ OpKind[o] = "try_start"
      /\ ~LoopStarts /\ fr[o].items = {o} /\ fr[o].input = {} /\ fr[o].turn = None
      /\ ~fr[o].permit /\ fr[o].at \notin Aside /\ fr[o].ts = None /\ ~Owns(o)
  BY <1>1, TryStarted
<1>3. CASE Reject(o) /\ GotoWith(o, Frame("idle")) /\ UNCHANGED <<active, turn_state>>
  <2>1. /\ FramesTyped' /\ Moves(o) /\ fr'[o].at = "idle"
        /\ fr'[o].items = {} /\ fr'[o].ts = None /\ fr'[o].turn = None
        /\ fr'[o].input = {} /\ ~fr'[o].permit
    BY <1>2, <1>3, FreshMove, StartingPlaces
  <2>2. FrameOK(o)' /\ StartOK(o)' /\ ~Owns(o)' /\ fr'[o].at \notin Apart
    BY <1>2, <2>1, RestFrame
  <2>3. InCall(o) /\ PhasesKept
    BY <1>1, <1>2, <1>3, <2>1 DEF InCall, PhasesKept, StatesTyped, TurnsTyped, ActiveTyped, RestTyped,
       Reject, recordVars, goalVars
  <2> QED
    BY <1>1, <1>2, <1>3, <2>1, <2>2, <2>3, QuietKeeps
<1>4. CASE /\ active = None /\ UNCHANGED reply
           /\ \E s \in States :
                /\ Reserve(s)
                /\ fr' = [fr EXCEPT ![o].ts = s, ![o].at = "try.recheck"]
  <2>1. PICK s \in States : Reserve(s) /\ fr' = [fr EXCEPT ![o].ts = s, ![o].at = "try.recheck"]
    BY <1>4
  <2>2. "try.recheck" \in Holding /\ "try.recheck" \in AllPlaces /\ s \in States \cup {None}
    BY WakePlaces DEF Holding
  <2>3. /\ FramesTyped' /\ Moves(o) /\ KeepsCall(o) /\ fr'[o].at = "try.recheck"
        /\ fr'[o].items = fr[o].items /\ fr'[o].ts = s
    <3>1. TakesState(o, s, "try.recheck")
      BY <2>1 DEF TakesState
    <3>2. StateTaken(o, s, "try.recheck")
      BY <1>2, <2>2, <3>1, StateMove
    <3> QED
      BY <3>2 DEF StateTaken
  <2>4. StatesTyped' /\ ActiveTyped' /\ ~HasTask' /\ Reserved(s)' /\ s # None
    BY <1>2, <2>1, ReserveEffect, ConstantsAssumption
  <2>5. InCall(o)
    BY <1>1, <1>2, <1>4, <2>3, <2>4 DEF InCall, TurnsTyped, RestTyped, recordVars, goalVars
  <2>6. ~LoopStarts'
    BY <1>1, <1>2 DEF LoopStarts, SentOnly
  <2>7. FrameOK(o)' /\ fr'[o].at \notin Apart
    BY <1>1, <1>2, <2>2, <2>3, <2>4, <2>6, HoldingFrame DEF KeepsCall
  <2>8. StartOK(o)' /\ Owns(o)'
    BY <2>3, <2>4 DEF StartOK, Owns, Starting, Finishing
  <2> QED
    BY <1>1, <1>2, <1>4, <2>1, <2>3, <2>5, <2>7, <2>8, ReserveKeeps
<1> QED
  BY <1>3, <1>4 DEF TryReserve

\* A caller goes on while it holds the active turn.
LEMMA HoldingKeeps ==
    ASSUME Inv, NEW o \in Ops, fr[o].at \in Holding, NEW p \in Holding, Goto(o, p),
           UNCHANGED <<active, turn_state, mailbox, recordVars, clientVars, turn, goalVars>>
    PROVE  Inv'
<1>1. /\ FramesTyped /\ StatesTyped /\ TurnsTyped /\ ActiveTyped /\ RestTyped
      /\ o \in Actors /\ o \notin ops /\ OpKind[o] = "try_start"
      /\ ~LoopStarts /\ fr[o].items = {o} /\ fr[o].input = {} /\ fr[o].turn = None
      /\ ~fr[o].permit /\ fr[o].at \notin Aside
      /\ Reserved(fr[o].ts) /\ fr[o].ts # None /\ Owns(o)
  BY TryStarted
<1>2. p \in AllPlaces
  BY WakePlaces
<1>3. /\ FramesTyped' /\ Moves(o) /\ KeepsCall(o) /\ fr'[o].at = p
      /\ fr'[o].items = fr[o].items /\ fr'[o].ts = fr[o].ts
  BY <1>1, <1>2, GotoMove
<1>4. InCall(o) /\ PhasesKept
  BY <1>1, <1>3 DEF InCall, PhasesKept, StatesTyped, TurnsTyped, ActiveTyped, RestTyped,
     recordVars, clientVars, goalVars
<1>5. ~LoopStarts' /\ o \notin ops'
  BY <1>1, <1>4 DEF InCall, LoopStarts, SentOnly
<1>6. FrameOK(o)' /\ fr'[o].at \notin Apart
  BY <1>1, <1>3, <1>5, HoldingFrame DEF KeepsCall
<1>7. StartOK(o)' /\ Owns(o)'
  BY <1>1, <1>3 DEF StartOK, Owns, Reserved, Holding, Starting, Finishing
<1> QED
  BY <1>1, <1>3, <1>4, <1>6, <1>7, QuietKeeps

\* try_start_turn_if_idle looks at the mailbox again.
LEMMA TryRecheckKeeps ==
    ASSUME Inv, NEW o \in Ops, TryRecheck(o)
    PROVE  Inv'
<1>1. fr[o].at \in Holding /\ UNCHANGED <<active, turn_state, mailbox, recordVars, clientVars, turn, goalVars>>
  BY DEF TryRecheck, At, Holding
<1>2. \E p \in Holding : Goto(o, p)
  BY DEF TryRecheck, Holding
<1> QED
  BY <1>1, <1>2, HoldingKeeps

\* try_start_turn_if_idle finds its reservation untouched.
LEMMA TryConfirmKeeps ==
    ASSUME Inv, NEW o \in Ops, TryConfirm(o)
    PROVE  Inv'
<1>1. /\ fr[o].at \in Holding /\ "try.extend" \in Holding
      /\ UNCHANGED <<active, turn_state, mailbox, recordVars, ops, turn, goalVars>>
  BY DEF TryConfirm, At, Holding
<1>2. Reserved(fr[o].ts)
  BY <1>1, TryStarted
<1>3. Goto(o, "try.extend") /\ UNCHANGED reply
  BY <1>2 DEF TryConfirm
<1>4. UNCHANGED <<active, turn_state, mailbox, recordVars, clientVars, turn, goalVars>>
  BY <1>1, <1>3 DEF clientVars
<1> QED
  BY <1>1, <1>3, <1>4, HoldingKeeps

\* try_start_turn_if_idle gives its reservation up to trigger mail.
LEMMA TryYieldKeeps ==
    ASSUME Inv, NEW o \in Ops, TryYield(o)
    PROVE  Inv'
<1>1. /\ fr[o].at \in Holding /\ UNCHANGED <<turn_state, mailbox, recordVars, ops, turn, goalVars>>
      /\ Reject(o) /\ GotoWith(o, [Frame("pending.check") EXCEPT !.ret = "idle"])
  BY DEF TryYield, At, Holding
<1>2. /\ FramesTyped /\ StatesTyped /\ TurnsTyped /\ ActiveTyped /\ RestTyped
      /\ o \in Actors /\ o \notin Turns /\ o \notin ops /\ OpKind[o] = "try_start"
      /\ ~LoopStarts /\ fr[o].at \notin Aside
      /\ Reserved(fr[o].ts) /\ Owns(o) /\ ~HasTask
  BY <1>1, TryStarted
<1>3. active' = None
  BY <1>2 DEF TryYield
<1>4. /\ FramesTyped' /\ Moves(o) /\ fr'[o].at = "pending.check" /\ fr'[o].ret = "idle"
      /\ fr'[o].items = {} /\ fr'[o].ts = None /\ fr'[o].turn = None
      /\ fr'[o].input = {} /\ ~fr'[o].permit
  BY <1>1, <1>2, WakePlaces, FreshMove
<1>5. FrameOK(o)' /\ fr'[o].at \notin Apart
  BY <1>1, <1>2, <1>4, CallFrame
<1>6. StartOK(o)'
  BY <1>4 DEF StartOK, Starting, Holding, Finishing
<1>7. OwnInv /\ TurnsInv /\ ops' \subseteq ops
  BY <1>1 DEF Inv
<1>8. \A b \in Actors \ {o} : ~Owns(b)
  BY <1>2, <1>7 DEF OwnInv, OneOwner
<1>9. \A b \in Actors \ {o} : fr[b].at \in StatePlaces => ~Reserved(fr[b].ts)
  BY <1>8, CallStart DEF Owns, LocalsOK
<1>10. \A b \in Actors \ {o} : fr[b].at \notin Starting \cup Holding
  BY <1>7, <1>8, <1>9 DEF Owns, OwnInv, StartOK, StatePlaces
<1>11. \A b \in Actors \ {o} : fr[b].at \in Finishing => ~ReserverStarts
  BY <1>7, <1>9 DEF OwnInv, StartOK, StatePlaces
<1>12. TakesOwn(o)
  BY <1>4 DEF TakesOwn
<1>13. OwnInv'
  BY <1>2, <1>3, <1>4, <1>6, <1>7, <1>10, <1>11, <1>12, OwnDrops
<1>14. TasksKept
  BY <1>2, <1>3 DEF TasksKept, HasTask
<1>15. InCall(o) /\ PhasesKept /\ turn' = turn
  BY <1>1, <1>2, <1>3, <1>4 DEF InCall, PhasesKept, StatesTyped, TurnsTyped, ActiveTyped, RestTyped,
     Reject, recordVars, goalVars
<1>16. TurnsInv'
  BY <1>2, <1>4, <1>5, <1>7, <1>14, <1>15, TurnsKept
<1> QED
  BY <1>2, <1>5, <1>13, <1>15, <1>16, CallKeeps

\* try_start_turn_if_idle puts its item into the reserved turn.
LEMMA TryExtendKeeps ==
    ASSUME Inv, NEW o \in Ops, TryExtend(o)
    PROVE  Inv'
<1>1. /\ fr[o].at \in Holding /\ Extend(fr[o].ts, {o})
      /\ GotoWith(o, [Frame("start.take") EXCEPT !.ret = "idle"])
      /\ UNCHANGED <<active, mailbox, recordVars, clientVars, turn, goalVars>>
  BY DEF TryExtend, At, Holding
<1>2. /\ FramesTyped /\ StatesTyped /\ TurnsTyped /\ ActiveTyped /\ RestTyped
      /\ o \in Actors /\ o \notin Turns /\ o \notin ops /\ OpKind[o] = "try_start" /\ o \in Items
      /\ ~LoopStarts /\ fr[o].at \notin Aside
      /\ Reserved(fr[o].ts) /\ fr[o].ts \in States /\ Owns(o) /\ ~HasTask
  BY <1>1, TryStarted
<1>3. "start.take" \in Starting /\ "start.take" \in AllPlaces
  BY StartingPlaces DEF Starting
<1>4. /\ FramesTyped' /\ Moves(o) /\ fr'[o].at = "start.take" /\ fr'[o].ret = "idle"
      /\ fr'[o].items = {} /\ fr'[o].ts = None /\ fr'[o].turn = None
      /\ fr'[o].input = {} /\ ~fr'[o].permit
  BY <1>1, <1>2, <1>3, FreshMove
<1>5. {o} \in SUBSET (Items \cup {GOAL})
  BY <1>2
<1>6. StateIs(fr[o].ts, turn_state[fr[o].ts].pending \cup {o}, turn_state[fr[o].ts].phase)
  BY <1>1, <1>2, <1>5, ExtendChange
<1>7. StatesTyped' /\ PhasesKept
  BY <1>2, <1>6 DEF StateIs, PhasesKept
<1>8. InCall(o) /\ turn' = turn /\ ops' = ops
  BY <1>1, <1>2, <1>4, <1>7 DEF InCall, TurnsTyped, ActiveTyped, RestTyped, recordVars, clientVars,
     goalVars
<1>9. ~LoopStarts'
  BY <1>2, <1>8 DEF LoopStarts, SentOnly
<1>10. FrameOK(o)' /\ fr'[o].at \notin Apart
  BY <1>2, <1>4, <1>8, <1>9, CallFrame
<1>11. StartOK(o)' /\ Owns(o)'
  BY <1>1, <1>2, <1>3, <1>4, <1>9 DEF StartOK, Owns, Reserved, HasTask, Holding, Finishing
<1> QED
  BY <1>1, <1>2, <1>4, <1>7, <1>8, <1>10, <1>11, QuietKeeps

----------------------------------------------------------------------------
(* The invariant. *)

\* The invariant holds at the start.
LEMMA InitInv == Init => Inv
<1> SUFFICES ASSUME Init
             PROVE  Inv
  OBVIOUS
<1>1. \A a \in Actors : fr[a] = Frame(IF a \in Turns THEN "unborn" ELSE "idle")
  BY DEF Init
<1>a. \A p : /\ Frame(p).at = p /\ Frame(p).items = {} /\ Frame(p).ts = None
            /\ Frame(p).turn = None /\ Frame(p).input = {} /\ Frame(p).permit = FALSE
  BY DEF Frame
<1>2. \A a \in Actors : /\ fr[a].at = (IF a \in Turns THEN "unborn" ELSE "idle")
                        /\ fr[a].items = {} /\ fr[a].ts = None /\ fr[a].turn = None
                        /\ fr[a].input = {} /\ fr[a].permit = FALSE
  BY <1>1, <1>a
<1>3. FramesTyped
  <2>1. Frame("unborn") \in FrameRecords /\ Frame("idle") \in FrameRecords
    BY DEF Frame, FrameRecords, AllPlaces
  <2> QED
    BY <2>1 DEF Init, FramesTyped
<1>4. StatesTyped
  BY DEF Init, StatesTyped, StateRecords, NewState
<1>5. TurnsTyped
  <2>1. 0 \in 0 .. MaxRounds
    BY ConstantsAssumption
  <2>2. Unborn \in TurnRecords
    BY <2>1 DEF Unborn, TurnRecords
  <2> QED
    BY <2>2 DEF Init, TurnsTyped
<1>6. ActiveTyped
  BY DEF Init, ActiveTyped
<1>7. RestTyped
  BY ConstantsAssumption DEF Init, RestTyped
<1>8. TypeOK
  BY <1>3, <1>4, <1>5, <1>6, <1>7, TypeParts
<1>9. SessionKnown /\ MailboxSent
  BY DEF Init, SessionKnown, SentOnly, MailboxSent
<1>10. ASSUME NEW a \in Actors
       PROVE  FrameOK(a) /\ StartOK(a) /\ ~Owns(a)
  <2>1. fr[a].at \notin Starting \cup Pending \cup Aborting \cup Holding \cup Finishing \cup Try
                       \cup {"abort.take", "try.reserve"}
    BY <1>2 DEF Starting, Pending, Aborting, Holding, Finishing, Try
  <2>2. PlaceOK(a)
    BY <1>2, <2>1, ActorSorts DEF PlaceOK, LoopPlaces, TurnPlaces, OpPlaces
  <2>3. LocalsOK(a)
    BY <1>2, <2>1 DEF LocalsOK, StatePlaces
  <2>4. LoopOnly(a) /\ ReserversOnly(a)
    BY <2>1 DEF LoopOnly, ReserversOnly, Pending
  <2>5. StartOK(a) /\ ~Owns(a)
    BY <1>2, <2>1 DEF StartOK, Owns, Starting
  <2> QED
    BY <2>2, <2>3, <2>4, <2>5 DEF FrameOK
<1>11. OwnInv
  BY <1>2, <1>10 DEF Init, OwnInv, OneOwner, StatesApart, ReservedIsOwned, HasTask
<1>12. TurnsInv
  <2>1. fr[LOOP].at = "idle"
    BY <1>2, ActorSorts
  <2>2. AbortOK
    BY <2>1 DEF AbortOK, Aborting
  <2>3. ASSUME NEW t \in Turns
        PROVE  RunnerOK(t)
    <3>1. fr[t].at = "unborn" /\ turn[t].events = {} /\ active = None
      BY <1>2, ActorSorts DEF Init, Unborn
    <3> QED
      BY <3>1 DEF RunnerOK, TaskIs, Body, Finishing
  <2> QED
    BY <2>2, <2>3 DEF TurnsInv
<1> QED
  BY <1>8, <1>9, <1>10, <1>11, <1>12 DEF Inv

\* No actor is at a place of the goal continuation, or aborts the turn it was denied something in.
LEMMA OtherPlaces ==
    ASSUME Inv
    PROVE  /\ \A a \in Actors : ~AbortIfActive(a)
           /\ \A t \in Turns : /\ ~GoalCandidate(t) /\ ~GoalReserve(t) /\ ~GoalReread(t)
                               /\ ~GoalConfirm(t) /\ ~GoalClear(t)
<1>1. \A a \in Actors : fr[a].at # "abort_if.take"
  BY AbortStart
<1>2. \A t \in Turns : fr[t].at \notin {"goal.candidate", "goal.reserve", "goal.reread",
                                        "goal.confirm", "goal.clear"}
  BY CallStart, ActorSorts DEF PlaceOK, TurnPlaces, Body, Finishing, Pending, Starting
<1> QED
  BY <1>1, <1>2 DEF AbortIfActive, GoalCandidate, GoalReserve, GoalReread, GoalConfirm, GoalClear, At

\* Every step keeps it.
LEMMA NextInv ==
    ASSUME OneStarter, Inv, [Next]_vars
    PROVE  Inv'
<1>1. ASSUME NEW a \in Actors, CallStep(a)
      PROVE  Inv'
  <2>1. CASE StartTask(a)
    BY <2>1, StartTakeKeeps, StartDrainKeeps, StartStateKeeps, StartExtendKeeps, StartSpawnKeeps
       DEF StartTask
  <2>2. CASE maybe_start_turn_for_pending_work(a)
    BY <2>2, PendingCheckKeeps, PendingReserveKeeps DEF maybe_start_turn_for_pending_work
  <2>3. CASE abort_all_tasks(a)
    BY <2>3, AbortTakeKeeps, AbortSteps, AbortMovesKeep, AbortClearKeeps DEF abort_all_tasks
  <2> QED
    BY <1>1, <2>1, <2>2, <2>3, OtherPlaces DEF CallStep
<1>2. ASSUME NEW t \in Turns, RunnerStep(t)
      PROVE  Inv'
  <2>1. CASE BodyStep(t)
    BY <2>1, BodySteps, BodyKeeps
  <2>2. CASE FinishTake(t) /\ HasTask
    BY <2>2, FinishTakeKeeps
  <2>3. CASE FinishRecord(t) \/ FinishEvent(t)
    BY <2>3, FinishRecordMoves, FinishEventMoves, FinishMovesKeep
  <2>4. CASE FinishClear(t) \/ GoalRead(t)
    BY <2>4, FinishClearKeeps, GoalReadKeeps
  <2> QED
    BY <1>2, <2>1, <2>2, <2>3, <2>4, OtherPlaces
       DEF RunnerStep, BodyStep, on_task_finished, GoalContinuation
<1>3. ASSUME NEW o \in Ops, ClientStep(o)
      PROVE  Inv'
  <2>1. CASE try_start_turn_if_idle(o)
    BY <2>1, TryStartKeeps, TryReserveKeeps, TryRecheckKeeps, TryYieldKeeps, TryConfirmKeeps,
       TryExtendKeeps DEF try_start_turn_if_idle
  <2> QED
    BY <1>3, <2>1, UserInputKeeps, ReplaceKeeps, MailKeeps, SteerOpKeeps, OtherKinds DEF ClientStep
<1>4. CASE UNCHANGED vars
  BY <1>4 DEF vars, Inv, TypeOK, SessionKnown, SentOnly, MailboxSent, FrameOK, PlaceOK, LocalsOK,
     LoopOnly, ReserversOnly, LoopStarts, ReserverStarts, OwnInv, OneOwner, Owns, Reserved, StatesApart, ReservedIsOwned, StartOK,
     TurnsInv, AbortOK, RunnerOK, HasTask, TaskIs, Stops
<1> QED
  BY <1>1, <1>2, <1>3, <1>4 DEF Next

\* It implies TurnInv.
LEMMA InvTurn ==
    ASSUME Inv
    PROVE  TurnInv
<1>1. LOOP \in Actors /\ OwnInv /\ TurnsInv /\ AbortOK
  BY ActorSorts DEF Inv, TurnsInv
<1>2. StartFindsNoTask
  BY <1>1 DEF StartFindsNoTask, OwnInv, StartOK, Starting
<1>3. OneTurnRuns
  <2> SUFFICES ASSUME NEW t \in Turns, NEW u \in Turns, fr[t].at \in Body, fr[u].at \in Body
               PROVE  t = u
    BY DEF OneTurnRuns
  <2>1. (TaskIs(t) \/ Stops(t)) /\ (TaskIs(u) \/ Stops(u))
    BY <1>1 DEF TurnsInv, RunnerOK
  <2>2. \A w \in Turns : Stops(w) => active = None
    BY <1>1 DEF AbortOK, Stops, Aborting
  <2> QED
    BY <2>1, <2>2 DEF TaskIs, Stops
<1>4. FinishesOwnTask
  BY <1>1, BodyTask DEF FinishesOwnTask, At, Body
<1>5. OneTerminalEvent
  BY <1>1 DEF OneTerminalEvent, TurnsInv, RunnerOK
<1>6. AnsweredTurnTakesNoMail
  <2> SUFFICES ASSUME NEW t \in Turns, fr[t].at = "turn.drain", mailbox # {}
               PROVE  /\ TaskIs(t) => turn_state[active.ts].phase = "CurrentTurn"
                      /\ \A a \in Actors : fr[a].turn = t /\ fr[a].ts # None =>
                            turn_state[fr[a].ts].phase = "CurrentTurn"
    BY DEF AnsweredTurnTakesNoMail, At
  <2>1. TaskIs(t) => turn_state[active.ts].phase = "CurrentTurn"
    BY <1>1 DEF TurnsInv, RunnerOK
  <2>2. ASSUME NEW a \in Actors, fr[a].turn = t
        PROVE  FALSE
    <3>1. fr[a].at \in Aborting
      BY <2>2, CallStart, ActorSorts DEF LocalsOK
    <3>2. a = LOOP /\ ~ReserverStarts
      BY <3>1, AbortStart
    <3>3. SentOnly(ClientKinds)
      BY <1>1, <3>1, <3>2 DEF Inv, SessionKnown, AbortOK, ReserverStarts
    <3>4. PICK o \in mailbox : TRUE
      OBVIOUS
    <3>5. o \in Ops \ ops /\ OpKind[o] \in {"mail", "trigger"}
      BY TypeParts DEF Inv, MailboxSent, RestTyped, Items
    <3> QED
      BY <3>3, <3>5 DEF SentOnly, ClientKinds
  <2> QED
    BY <2>1, <2>2
<1> QED
  BY <1>2, <1>3, <1>4, <1>5, <1>6 DEF TurnInv, Inv

\* In the sessions that OneStarter admits, with any number of operations, turns and turn states: a
\* start finds no task, one runner works on the conversation, a runner finishes its own task, no
\* turn is reported as complete and as aborted, and a turn that has answered takes no mail.
THEOREM TurnsAreKeptApart == OneStarter => (Spec => []TurnInv)
<1> SUFFICES ASSUME OneStarter
             PROVE  Spec => []TurnInv
  OBVIOUS
<1>1. Init => Inv
  BY InitInv
<1>2. Inv /\ [Next]_vars => Inv'
  BY NextInv
<1>3. Inv => TurnInv
  BY InvTurn
<1> QED
  BY <1>1, <1>2, <1>3, PTL DEF Spec

----------------------------------------------------------------------------
(* Input: where an item is, and that it is in one place only. *)

\* Item o is in a turn state that somebody can still read.
Waits(o, s) == Referenced(s) /\ o \in turn_state[s].pending

\* Item o is at home x of sort k and nowhere else; an item that was not sent is nowhere.
IsAt(o, k, x) ==
    /\ o \in ops <=> k = "unsent"
    /\ o \in mailbox <=> k = "mailbox"
    /\ o \in history <=> k = "history"
    /\ o \in discarded <=> k = "discarded"
    /\ reply[o] = Rejected <=> k = "sender"
    /\ \A s \in States : Waits(o, s) <=> k = "pending" /\ x = s
    /\ \A t \in Turns : o \in turn[t].input <=> k = "input" /\ x = t
    /\ \A a \in Actors : o \in fr[a].items <=> k = "taken" /\ x = a
    /\ \A a \in Actors : o \in fr[a].input <=> k = "carried" /\ x = a

Sorts == {"unsent", "mailbox", "history", "discarded", "sender", "pending", "input", "taken", "carried"}
HomeOK(k, x) ==
    /\ k = "pending" => x \in States
    /\ k = "input" => x \in Turns
    /\ k \in {"taken", "carried"} => x \in Actors
ItemOK(o) ==
    \E k \in Sorts : \E x \in States \cup Actors : HomeOK(k, x) /\ IsAt(o, k, x)

\* Turn state s is that of turn t, which runs, is being aborted or has just finished.
HeldFor(s, t) ==
    \/ TaskIs(t) /\ active.ts = s
    \/ fr[LOOP].at \in Aborting /\ fr[LOOP].turn = t /\ fr[LOOP].ts = s
    \/ fr[t].at = "finish.record" /\ "TurnComplete" \notin turn[t].events /\ fr[t].ts = s

\* An item that turn t accepted is recorded, in its runner's hands or in its turn state.
Accounted(o, t) ==
    \/ o \in history \cup discarded
    \/ fr[t].at \in Body /\ o \in fr[t].items
    \/ \E s \in States : HeldFor(s, t) /\ o \in turn_state[s].pending
SteerOK(o) ==
    /\ o \in ops => reply[o] = None
    /\ reply[o] \in Turns => Accounted(o, reply[o])

\* Nothing waits in a turn state that its holder will not read again, ...
EmptyOK(a) ==
    fr[a].at \in Holding \cup {"finish.event", "finish.clear"} =>
        turn_state[fr[a].ts].pending = {}
\* ... and a turn keeps the input it was started with until it is recorded.
InputOK(t) ==
    turn[t].input # {} => fr[t].at \in {"run.begin", "turn.input"} /\ turn[t].kind = "Regular"

ItemInv ==
    /\ \A a \in Actors : EmptyOK(a)
    /\ \A t \in Turns : InputOK(t)
    /\ \A o \in Items : ItemOK(o) /\ SteerOK(o)

\* Nothing that IsAt says of item o changes.
Same(o) ==
    /\ o \in ops' <=> o \in ops
    /\ o \in mailbox' <=> o \in mailbox
    /\ o \in history' <=> o \in history
    /\ o \in discarded' <=> o \in discarded
    /\ reply'[o] = Rejected <=> reply[o] = Rejected
    /\ \A s \in States : Waits(o, s)' <=> Waits(o, s)
    /\ \A t \in Turns : o \in turn'[t].input <=> o \in turn[t].input
    /\ \A a \in Actors : o \in fr'[a].items <=> o \in fr[a].items
    /\ \A a \in Actors : o \in fr'[a].input <=> o \in fr[a].input

\* An item stays where it is.
LEMMA SameKeeps ==
    ASSUME NEW o, ItemOK(o), Same(o)
    PROVE  ItemOK(o)'
<1>1. PICK k \in Sorts, x \in States \cup Actors : HomeOK(k, x) /\ IsAt(o, k, x)
  BY DEF ItemOK
<1>2. IsAt(o, k, x)'
  BY <1>1 DEF IsAt, Same
<1> QED
  BY <1>1, <1>2 DEF ItemOK, HomeOK

\* An item is somewhere.
LEMMA MovedTo ==
    ASSUME NEW o, NEW k \in Sorts, NEW x \in States \cup Actors, HomeOK(k, x), IsAt(o, k, x)'
    PROVE  ItemOK(o)'
BY DEF ItemOK, HomeOK

\* A turn state keeps what waits in it, or nothing waits in it before and after the step.
SameState(s) ==
    \/ turn_state'[s].pending = turn_state[s].pending /\ (Referenced(s)' <=> Referenced(s))
    \/ (~Referenced(s) \/ turn_state[s].pending = {}) /\ turn_state'[s].pending = {}

\* What the actors in a turn refer to does not change.
LEMMA SameRefs ==
    ASSUME NEW a \in Actors, Moves(a), fr'[a].ts = fr[a].ts,
           active' = active \/ (active # None /\ active' # None /\ active'.ts = active.ts),
           \A s \in States : turn_state'[s].pending = turn_state[s].pending
    PROVE  \A s \in States : SameState(s)
<1>1. \A b \in Actors : fr'[b].ts = fr[b].ts
  BY DEF Moves
<1> QED
  BY <1>1 DEF SameState, Referenced

\* The holders of turn states that do not move still find them empty.
LEMMA EmptyKept ==
    ASSUME Inv, ItemInv, NEW a \in Actors, Moves(a), EmptyOK(a)',
           \A s \in States : \/ turn_state'[s].pending \subseteq turn_state[s].pending
                             \/ \A b \in Actors \ {a} : fr[b].ts # s
    PROVE  \A b \in Actors : EmptyOK(b)'
<1> SUFFICES ASSUME NEW b \in Actors, b # a, fr'[b].at \in Holding \cup {"finish.event", "finish.clear"}
             PROVE  turn_state'[fr'[b].ts].pending = {}
  BY DEF EmptyOK
<1>1. fr'[b] = fr[b]
  BY DEF Moves
<1>2. fr[b].ts \in States
  <2>1. LocalsOK(b) /\ fr[b] \in FrameRecords /\ fr[b].at \in StatePlaces
    BY <1>1, CallStart DEF StatePlaces, Finishing
  <2> QED
    BY <2>1 DEF LocalsOK, FrameRecords
<1>3. turn_state[fr[b].ts].pending = {}
  BY <1>1 DEF ItemInv, EmptyOK
<1> QED
  BY <1>1, <1>2, <1>3

\* Turns that do not move keep their input.
LEMMA InputKept ==
    ASSUME ItemInv, NEW a \in Actors, Moves(a), a \in Turns => InputOK(a)',
           \A t \in Turns \ {a} : turn'[t].input = turn[t].input /\ turn'[t].kind = turn[t].kind
    PROVE  \A t \in Turns : InputOK(t)'
<1> SUFFICES ASSUME NEW t \in Turns, t # a
             PROVE  InputOK(t)'
  OBVIOUS
<1>1. fr'[t] = fr[t] /\ InputOK(t) /\ turn'[t].input = turn[t].input /\ turn'[t].kind = turn[t].kind
  BY ActorSorts DEF Moves, ItemInv
<1> QED
  BY <1>1 DEF InputOK

\* Turn states stay those of their turns.
HeldKept ==
    \A t \in Turns, s \in States : HeldFor(s, t) =>
        HeldFor(s, t)' /\ turn_state[s].pending \subseteq turn_state'[s].pending
HandsKept ==
    \A t \in Turns : fr[t].at \in Body /\ fr[t].items # {} =>
        fr'[t].at \in Body /\ fr[t].items \subseteq fr'[t].items

\* What was accepted is recorded, with the items of X, or passes into the hands of its turn's
\* runner, or stays.
Passes(X) ==
    /\ X \cap Items \subseteq history' \cup discarded'
    /\ \A u \in Turns, s \in States : HeldFor(s, u) =>
         \/ turn_state[s].pending \cap Items \subseteq X
         \/ HeldFor(s, u)' /\ turn_state[s].pending \subseteq turn_state'[s].pending
         \/ fr'[u].at \in Body /\ turn_state[s].pending \subseteq fr'[u].items
    /\ \A u \in Turns : fr[u].at \in Body /\ fr[u].items # {} =>
         \/ fr[u].items \cap Items \subseteq X
         \/ fr'[u].at \in Body /\ fr[u].items \subseteq fr'[u].items

\* So it stays accounted for.
LEMMA SteerPasses ==
    ASSUME ItemInv, UNCHANGED clientVars, history \subseteq history', discarded \subseteq discarded',
           NEW X, Passes(X)
    PROVE  \A o \in Items : SteerOK(o)'
<1> SUFFICES ASSUME NEW o \in Items
             PROVE  SteerOK(o)'
  OBVIOUS
<1>1. reply' = reply /\ ops' = ops /\ SteerOK(o)
  BY DEF clientVars, ItemInv
<1>2. ASSUME reply[o] \in Turns
      PROVE  Accounted(o, reply[o])'
  <2>1. Accounted(o, reply[o])
    BY <1>1, <1>2 DEF SteerOK
  <2>2. CASE o \in history \cup discarded \cup X
    BY <1>1, <2>2 DEF Accounted, Passes
  <2>3. CASE fr[reply[o]].at \in Body /\ o \in fr[reply[o]].items /\ o \notin X
    BY <1>1, <1>2, <2>3 DEF Accounted, Passes
  <2>4. CASE o \notin X /\ \E s \in States : HeldFor(s, reply[o]) /\ o \in turn_state[s].pending
    BY <1>1, <1>2, <2>4 DEF Accounted, Passes
  <2> QED
    BY <2>1, <2>2, <2>3, <2>4 DEF Accounted
<1> QED
  BY <1>1, <1>2 DEF SteerOK

\* What was accepted stays accounted for where it is.
LEMMA SteerKept ==
    ASSUME ItemInv, UNCHANGED clientVars, history \subseteq history', discarded \subseteq discarded',
           HeldKept, HandsKept
    PROVE  \A o \in Items : SteerOK(o)'
<1>1. Passes({})
  BY DEF HeldKept, HandsKept, Passes
<1> QED
  BY <1>1, SteerPasses

\* No step but its own takes a turn state from its turn.
LEMMA HeldStays ==
    ASSUME Inv, NEW a \in Actors, Moves(a), HasTask => active' = active,
           a = LOOP /\ fr[a].at \in Aborting =>
               fr'[a].at \in Aborting /\ fr'[a].turn = fr[a].turn /\ fr'[a].ts = fr[a].ts,
           a \in Turns => fr[a].at # "finish.record",
           \A t \in Turns : fr[t].at = "finish.record" /\ "TurnComplete" \in turn'[t].events =>
               "TurnComplete" \in turn[t].events
    PROVE  \A t \in Turns, s \in States : HeldFor(s, t) => HeldFor(s, t)'
<1> SUFFICES ASSUME NEW t \in Turns, NEW s \in States, HeldFor(s, t)
             PROVE  HeldFor(s, t)'
  OBVIOUS
<1>1. LOOP \in Actors /\ t \in Actors
  BY ActorSorts
<1>2. CASE TaskIs(t) /\ active.ts = s
  BY <1>1, <1>2, ActorSorts DEF HeldFor, TaskIs, HasTask
<1>3. CASE fr[LOOP].at \in Aborting /\ fr[LOOP].turn = t /\ fr[LOOP].ts = s
  <2>1. fr'[LOOP].at \in Aborting /\ fr'[LOOP].turn = t /\ fr'[LOOP].ts = s
    BY <1>1, <1>3 DEF Moves
  <2> QED
    BY <2>1 DEF HeldFor
<1>4. CASE fr[t].at = "finish.record" /\ "TurnComplete" \notin turn[t].events /\ fr[t].ts = s
  <2>1. fr'[t] = fr[t]
    BY <1>1, <1>4 DEF Moves
  <2> QED
    BY <1>4, <2>1 DEF HeldFor
<1> QED
  BY <1>2, <1>3, <1>4 DEF HeldFor

\* A step that moves no item.
Quiet(a) ==
    /\ Moves(a) /\ UNCHANGED <<mailbox, recordVars, clientVars>>
    /\ fr'[a].items = fr[a].items /\ fr'[a].input = fr[a].input
    /\ \A t \in Turns : turn'[t].input = turn[t].input /\ turn'[t].kind = turn[t].kind
    /\ \A s \in States : SameState(s)

\* An item stays where it is in such a step.
LEMMA QuietSame ==
    ASSUME NEW a \in Actors, Quiet(a), NEW o
    PROVE  Same(o)
<1>1. \A b \in Actors : fr'[b].items = fr[b].items /\ fr'[b].input = fr[b].input
  BY DEF Quiet, Moves
<1>2. \A s \in States : Waits(o, s)' <=> Waits(o, s)
  BY DEF Quiet, SameState, Waits
<1> QED
  BY <1>1, <1>2 DEF Quiet, Same, recordVars, clientVars

\* It keeps the invariant.
LEMMA QuietItems ==
    ASSUME Inv, ItemInv, NEW a \in Actors, Quiet(a), HeldKept, EmptyOK(a)',
           a \in Turns => InputOK(a)',
           a \in Turns /\ fr[a].at \in Body => fr'[a].at \in Body \/ fr[a].items = {},
           \A s \in States : turn_state'[s].pending \subseteq turn_state[s].pending
    PROVE  ItemInv'
<1>1. \A b \in Actors : EmptyOK(b)'
  BY EmptyKept DEF Quiet
<1>2. \A t \in Turns : InputOK(t)'
  BY InputKept DEF Quiet
<1>3. HandsKept
  BY ActorSorts DEF Quiet, Moves, HandsKept
<1>4. \A o \in Items : SteerOK(o)'
  BY <1>3, SteerKept DEF Quiet, recordVars
<1>5. \A o \in Items : ItemOK(o)'
  BY QuietSame, SameKeeps DEF ItemInv
<1> QED
  BY <1>1, <1>2, <1>4, <1>5 DEF ItemInv

----------------------------------------------------------------------------
(* Items and the runner of a turn. *)

\* A runner's step keeps the turn states with their turns.
LEMMA BodyHeld ==
    ASSUME Inv, NEW t \in Turns, BodyMoves(t)
    PROVE  \A u \in Turns, s \in States : HeldFor(s, u) => HeldFor(s, u)'
<1>1. t \in Actors /\ t # LOOP /\ Moves(t) /\ active' = active /\ fr[t].at # "finish.record"
  BY ActorSorts DEF BodyMoves, Body
<1>2. \A u \in Turns : fr[u].at = "finish.record" => turn'[u].events = turn[u].events
  BY <1>1 DEF BodyMoves, OnlyTurn
<1> QED
  BY <1>1, <1>2, HeldStays

\* A runner is at none of the places that EmptyOK speaks of.
LEMMA BodyEmpty ==
    ASSUME NEW t \in Turns, BodyMoves(t)
    PROVE  EmptyOK(t)'
BY DEF BodyMoves, EmptyOK, Body, Holding

\* A runner goes on and moves no item.
LEMMA BodyQuiet ==
    ASSUME Inv, ItemInv, NEW t \in Turns, BodyMoves(t), UNCHANGED <<mailbox, recordVars>>,
           fr'[t].items = fr[t].items, fr'[t].at \in Body \/ fr[t].items = {},
           turn'[t].input = turn[t].input, turn'[t].kind = turn[t].kind,
           \A s \in States : turn_state'[s].pending = turn_state[s].pending,
           turn[t].input = {} \/ (fr'[t].at = "turn.input" /\ turn[t].kind = "Regular")
    PROVE  ItemInv'
<1>1. t \in Actors /\ Moves(t) /\ active' = active /\ KeepsCall(t) /\ fr'[t].ts = fr[t].ts
  BY ActorSorts DEF BodyMoves
<1>2. Quiet(t)
  <2>1. \A u \in Turns : turn'[u].input = turn[u].input /\ turn'[u].kind = turn[u].kind
    BY DEF BodyMoves, OnlyTurn
  <2>2. \A s \in States : SameState(s)
    BY <1>1, SameRefs
  <2> QED
    BY <1>1, <2>1, <2>2 DEF Quiet, KeepsCall, BodyMoves
<1>3. HeldKept
  BY BodyHeld DEF HeldKept
<1>4. EmptyOK(t)' /\ InputOK(t)'
  BY BodyEmpty DEF InputOK
<1> QED
  BY <1>1, <1>2, <1>3, <1>4, QuietItems

\* Runner t records the items of X, or drops those that a hook blocked, an error or an abort.
Records(t, X) ==
    /\ Moves(t) /\ fr'[t].items = {} /\ fr'[t].input = fr[t].input /\ fr'[t].ts = fr[t].ts
    /\ OnlyTurn(t) /\ turn'[t].input = {}
    /\ \E blocked \in SUBSET (X \cap Items) :
          /\ history' = history \cup ((X \cap Items) \ blocked)
          /\ discarded' = discarded \cup blocked

\* run_hooks_and_record_inputs does.
LEMMA RecordedRecords ==
    ASSUME NEW t \in Turns, NEW X, NEW go, NEW stop, Recorded(t, X, go, stop)
    PROVE  Records(t, X)
BY DEF Recorded, Records, KeepsCall

\* What a runner records leaves the place it was taken from.
LEMMA RecordItems ==
    ASSUME Inv, ItemInv, NEW t \in Turns, NEW X, Records(t, X),
           UNCHANGED <<active, mailbox, clientVars>>, turn[t].input \cup fr[t].items \subseteq X,
           \A s \in States : \/ turn_state'[s].pending = turn_state[s].pending
                             \/ turn_state[s].pending \subseteq X /\ turn_state'[s].pending = {},
           \A o \in X \cap Items : \/ o \in turn[t].input \cup fr[t].items
                                   \/ \E s \in States : Waits(o, s) /\ turn_state'[s].pending = {}
    PROVE  \A o \in Items : ItemOK(o)'
<1> SUFFICES ASSUME NEW o \in Items
             PROVE  ItemOK(o)'
  OBVIOUS
<1>1. PICK k \in Sorts, x \in States \cup Actors : HomeOK(k, x) /\ IsAt(o, k, x)
  BY DEF ItemInv, ItemOK
<1>2. t \in Actors /\ LOOP \in Actors
  BY ActorSorts
<1>3. /\ \A s \in States : Referenced(s)' <=> Referenced(s)
      /\ \A a \in Actors : fr'[a].input = fr[a].input
      /\ \A a \in Actors \ {t} : fr'[a].items = fr[a].items
      /\ fr'[t].items = {} /\ turn'[t].input = {}
      /\ \A u \in Turns \ {t} : turn'[u].input = turn[u].input
  <2>1. \A b \in Actors : fr'[b].ts = fr[b].ts
    BY DEF Records, Moves
  <2> QED
    BY <2>1 DEF Records, Moves, OnlyTurn, Referenced
<1>4. PICK blocked \in SUBSET (X \cap Items) :
         history' = history \cup ((X \cap Items) \ blocked) /\ discarded' = discarded \cup blocked
  BY DEF Records
<1>5. CASE o \notin X
  <2>1. \A s \in States : Waits(o, s)' <=> Waits(o, s)
    BY <1>3, <1>5 DEF Waits
  <2>2. Same(o)
    BY <1>3, <1>4, <1>5, <2>1 DEF Same, clientVars
  <2> QED
    BY <2>2, SameKeeps DEF ItemInv
<1>6. CASE o \in X
  <2>1. k \in {"input", "taken", "pending"} /\ (k \in {"input", "taken"} => x = t)
    BY <1>1, <1>2, <1>6 DEF IsAt
  <2>2. \A s \in States : ~Waits(o, s)'
    <3>1. k = "pending" => turn_state'[x].pending = {}
      BY <1>1, <1>2, <1>6 DEF IsAt
    <3> QED
      BY <1>1, <1>3, <2>1, <3>1 DEF IsAt, Waits
  <2>3. /\ \A u \in Turns : o \notin turn'[u].input
        /\ \A a \in Actors : o \notin fr'[a].items /\ o \notin fr'[a].input
    BY <1>1, <1>3, <2>1 DEF IsAt
  <2>4. o \notin ops' /\ o \notin mailbox' /\ reply'[o] # Rejected /\ o \notin history /\ o \notin discarded
    BY <1>1, <2>1 DEF IsAt, clientVars
  <2>5. IsAt(o, IF o \in blocked THEN "discarded" ELSE "history", LOOP)'
    BY <1>4, <1>6, <2>2, <2>3, <2>4 DEF IsAt
  <2>6. PICK l \in {"history", "discarded"} : IsAt(o, l, LOOP)'
    BY <2>5
  <2>7. l \in Sorts /\ LOOP \in States \cup Actors /\ HomeOK(l, LOOP)
    BY <1>2 DEF Sorts, HomeOK
  <2> QED
    BY <2>6, <2>7, MovedTo
<1> QED
  BY <1>5, <1>6

\* A runner records what it has taken or what its turn was started with.
LEMMA BodyRecords ==
    ASSUME Inv, ItemInv, NEW t \in Turns, BodyMoves(t), Records(t, turn[t].input \cup fr[t].items),
           UNCHANGED <<mailbox, turn_state>>
    PROVE  ItemInv'
<1> DEFINE X == turn[t].input \cup fr[t].items
<1>1. t \in Actors /\ Moves(t) /\ active' = active /\ UNCHANGED clientVars
  BY ActorSorts DEF BodyMoves
<1>2. \A o \in Items : ItemOK(o)'
  BY <1>1, RecordItems
<1>3. \A b \in Actors : EmptyOK(b)'
  BY <1>1, BodyEmpty, EmptyKept
<1>4. \A u \in Turns : InputOK(u)'
  <2>1. InputOK(t)'
    BY DEF Records, InputOK
  <2>2. \A u \in Turns \ {t} : turn'[u].input = turn[u].input /\ turn'[u].kind = turn[u].kind
    BY DEF BodyMoves, OnlyTurn
  <2> QED
    BY <1>1, <2>1, <2>2, InputKept
<1>5. history \subseteq history' /\ discarded \subseteq discarded' /\ X \cap Items \subseteq history' \cup discarded'
  BY DEF Records
<1>6. Passes(X)
  <2>1. \A u \in Turns, s \in States : HeldFor(s, u) =>
           HeldFor(s, u)' /\ turn_state[s].pending \subseteq turn_state'[s].pending
    BY BodyHeld
  <2>2. \A u \in Turns : fr[u].at \in Body /\ fr[u].items # {} =>
           \/ fr[u].items \cap Items \subseteq X
           \/ fr'[u].at \in Body /\ fr[u].items \subseteq fr'[u].items
    BY <1>1, ActorSorts DEF Moves
  <2> QED
    BY <1>5, <2>1, <2>2 DEF Passes
<1>7. \A o \in Items : SteerOK(o)'
  BY <1>1, <1>5, <1>6, SteerPasses
<1> QED
  BY <1>2, <1>3, <1>4, <1>7 DEF ItemInv

\* A runner before it finishes: its input, if any, is at the places that InputOK names.
LEMMA RunnerInput ==
    ASSUME Inv, ItemInv, NEW t \in Turns, fr[t].at \in Body
    PROVE  /\ t \in Actors /\ FramesTyped /\ TurnsTyped
           /\ fr[t].items # {} => fr[t].at \in {"turn.drain", "turn.record"}
           /\ turn[t].input # {} => fr[t].at \in {"run.begin", "turn.input"} /\ turn[t].kind = "Regular"
           /\ turn[t] \in TurnRecords /\ fr[t] \in FrameRecords
BY BodyStart DEF ItemInv, InputOK, FramesTyped

\* A runner drops the input its turn was started with.
LEMMA InputDropped ==
    ASSUME Inv, ItemInv, NEW t \in Turns, BodyMoves(t), fr[t].at \in {"run.begin", "turn.input"},
           fr'[t].items = {}, turn'[t].input = {}, history' = history,
           discarded' = discarded \cup turn[t].input, UNCHANGED <<mailbox, turn_state>>
    PROVE  ItemInv'
<1> DEFINE X == turn[t].input \cup fr[t].items
<1>1. fr[t].at \in Body /\ fr[t].items = {} /\ turn[t].input \subseteq Items
  BY BodyStart DEF BodyMoves, TurnRecords
<1>2. turn[t].input \in SUBSET (X \cap Items) /\ (X \cap Items) \ turn[t].input = {}
  BY <1>1
<1>3. Records(t, X)
  BY <1>1, <1>2 DEF Records, BodyMoves, KeepsCall
<1> QED
  BY <1>3, BodyRecords

\* The start of a turn.
LEMMA RunBeginItems ==
    ASSUME Inv, ItemInv, NEW t \in Turns, RunBegin(t)
    PROVE  ItemInv'
<1>1. /\ BodyMoves(t) /\ fr[t].at = "run.begin" /\ UNCHANGED <<turn_state, mailbox, history>>
      /\ fr[t].at \in Body
  BY RunBeginMoves DEF RunBegin, At, BodyMoves
<1>2. /\ t \in Actors /\ FramesTyped /\ TurnsTyped /\ fr[t].items = {} /\ turn[t] \in TurnRecords
      /\ turn[t].input # {} => turn[t].kind = "Regular"
  BY <1>1, RunnerInput
<1>3. ASSUME NEW p \in Body, Goto(t, p)
      PROVE  fr'[t].items = {} /\ fr'[t].at = p
  BY <1>2, <1>3, GotoMove, BodyPlaces
<1>4. "run.end" \in Body /\ "turn.input" \in Body
  BY BodyPlaces
<1>5. CASE turn[t].kind # "Regular" /\ Goto(t, "run.end") /\ UNCHANGED <<turn, discarded>>
  BY <1>1, <1>2, <1>3, <1>4, <1>5, BodyQuiet DEF recordVars
<1>6. CASE /\ turn[t].kind = "Regular" /\ Goto(t, "turn.input") /\ UNCHANGED discarded
           /\ turn' = [turn EXCEPT ![t].events = @ \cup {"TurnStarted"}]
  <2>1. turn'[t].input = turn[t].input /\ turn'[t].kind = turn[t].kind
    BY <1>2, <1>6 DEF TurnsTyped, TurnRecords
  <2> QED
    BY <1>1, <1>2, <1>3, <1>4, <1>6, <2>1, BodyQuiet DEF recordVars
<1>7. CASE /\ turn' = [turn EXCEPT ![t].events = @ \cup {"TurnStarted"}, ![t].input = {}]
           /\ discarded' = discarded \cup turn[t].input /\ Goto(t, "run.end")
  <2>1. turn'[t].input = {}
    BY <1>2, <1>7 DEF TurnsTyped, TurnRecords
  <2> QED
    BY <1>1, <1>2, <1>3, <1>4, <1>7, <2>1, InputDropped
<1> QED
  BY <1>5, <1>6, <1>7 DEF RunBegin

\* The input that the turn was started with.
LEMMA TurnInputItems ==
    ASSUME Inv, ItemInv, NEW t \in Turns, TurnInput(t)
    PROVE  ItemInv'
<1>1. /\ BodyMoves(t) /\ fr[t].at = "turn.input" /\ UNCHANGED <<turn_state, mailbox>>
      /\ fr[t].at \in Body
  BY TurnInputMoves DEF TurnInput, At, BodyMoves
<1>2. /\ t \in Actors /\ FramesTyped /\ TurnsTyped /\ fr[t].items = {} /\ turn[t] \in TurnRecords
  BY <1>1, RunnerInput
<1>3. CASE RecordInputs(t, turn[t].input,
                        IF turn[t].input = {} THEN "turn.take" ELSE "turn.sample", "run.loop")
  <2>1. PICK go \in AllPlaces : RecordInputs(t, turn[t].input, go, "run.loop")
    BY <1>3, BodyPlaces
  <2>2. "run.loop" \in AllPlaces /\ turn[t].input \subseteq Items \cup {GOAL}
    BY <1>2, BodyPlaces DEF TurnRecords
  <2>3. Records(t, turn[t].input)
    BY <1>2, <2>1, <2>2, RecordEffect, RecordedRecords
  <2>4. turn[t].input \cup fr[t].items = turn[t].input
    BY <1>2
  <2> QED
    BY <1>1, <2>3, <2>4, BodyRecords
<1>4. CASE /\ discarded' = discarded \cup turn[t].input
           /\ turn' = [turn EXCEPT ![t].input = {}, ![t].rounds = @ + 1]
           /\ Goto(t, "run.loop") /\ UNCHANGED history
  <2>1. turn'[t].input = {}
    BY <1>2, <1>4 DEF TurnsTyped, TurnRecords
  <2>2. fr'[t].items = {}
    BY <1>2, <1>4, GotoMove, BodyPlaces
  <2> QED
    BY <1>1, <1>4, <2>1, <2>2, InputDropped
<1> QED
  BY <1>3, <1>4 DEF TurnInput

\* What was taken is recorded.
LEMMA TurnRecordItems ==
    ASSUME Inv, ItemInv, NEW t \in Turns, TurnRecord(t)
    PROVE  ItemInv'
<1>1. /\ BodyMoves(t) /\ fr[t].at = "turn.record" /\ UNCHANGED <<turn_state, mailbox>>
      /\ fr[t].at \in Body /\ RecordInputs(t, fr[t].items, "turn.sample", "run.loop")
  BY TurnRecordMoves DEF TurnRecord, At, BodyMoves
<1>2. /\ t \in Actors /\ FramesTyped /\ TurnsTyped /\ turn[t].input = {} /\ fr[t] \in FrameRecords
  BY <1>1, RunnerInput
<1>3. "turn.sample" \in AllPlaces /\ "run.loop" \in AllPlaces /\ fr[t].items \subseteq Items \cup {GOAL}
  BY <1>2, BodyPlaces DEF FrameRecords
<1>4. Records(t, fr[t].items)
  BY <1>1, <1>2, <1>3, RecordEffect, RecordedRecords
<1>5. turn[t].input \cup fr[t].items = fr[t].items
  BY <1>2
<1> QED
  BY <1>1, <1>4, <1>5, BodyRecords

\* A runner that samples, decides how to go on, or finds that its task was taken away.
LEMMA PassOnItems ==
    ASSUME Inv, ItemInv, NEW t \in Turns,
           \/ SampleToolCall(t) \/ SampleAnswer(t) \/ SampleFails(t) \/ TurnPost(t)
           \/ RunLoop(t) \/ RunEnd(t) \/ (FinishTake(t) /\ ~HasTask)
    PROVE  ItemInv'
<1>1. CASE SampleToolCall(t) \/ SampleAnswer(t)
  <2>1. /\ BodyMoves(t) /\ turn'[t].input = turn[t].input /\ turn'[t].kind = turn[t].kind
        /\ \A s \in States : turn_state'[s].pending = turn_state[s].pending
    BY <1>1, SampleMoves
  <2>2. /\ fr[t].at = "turn.sample" /\ fr[t].at \in Body /\ UNCHANGED <<mailbox, recordVars>>
        /\ Goto(t, "turn.post")
    BY <1>1, <2>1 DEF SampleToolCall, SampleAnswer, At, BodyMoves
  <2>3. t \in Actors /\ FramesTyped /\ fr[t].items = {} /\ turn[t].input = {}
    BY <2>2, RunnerInput
  <2>4. fr'[t].items = {}
    BY <2>2, <2>3, GotoMove, BodyPlaces
  <2> QED
    BY <2>1, <2>2, <2>3, <2>4, BodyQuiet
<1>2. CASE SampleFails(t) \/ TurnPost(t) \/ RunLoop(t) \/ RunEnd(t)
  <2>1. PassOn(t)
    BY <1>2, PassOnSteps
  <2>2. BodyMoves(t) /\ fr[t].at \in Body /\ fr[t].at \in {"turn.sample", "turn.post", "run.loop", "run.end"}
    BY <2>1, PassOnMoves DEF PassOn, BodyMoves
  <2>3. t \in Actors /\ FramesTyped /\ fr[t].items = {} /\ turn[t].input = {}
    BY <2>2, RunnerInput
  <2>4. PICK p \in AllPlaces : Goto(t, p)
    BY <2>1, BodyPlaces DEF PassOn
  <2>5. fr'[t].items = {}
    BY <2>3, <2>4, GotoMove
  <2> QED
    BY <2>1, <2>2, <2>3, <2>5, BodyQuiet DEF PassOn
<1>3. CASE FinishTake(t) /\ ~HasTask
  <2>1. /\ BodyMoves(t) /\ fr[t].at = "finish.take" /\ fr[t].at \in Body /\ Goto(t, "over")
        /\ UNCHANGED <<turn_state, mailbox, turn, recordVars>>
    BY <1>3, NotMineMoves DEF FinishTake, At, BodyMoves
  <2>2. t \in Actors /\ FramesTyped /\ fr[t].items = {} /\ turn[t].input = {}
    BY <2>1, RunnerInput
  <2>3. fr'[t].items = {}
    BY <2>1, <2>2, GotoMove, BodyPlaces
  <2> QED
    BY <2>1, <2>2, <2>3, BodyQuiet
<1> QED
  BY <1>1, <1>2, <1>3

\* A runner or start_task empties the mailbox into its hands.
LEMMA DrainItems ==
    ASSUME Inv, ItemInv, NEW a \in Actors, Moves(a), fr'[a].ts = fr[a].ts,
           fr'[a].input = fr[a].input, fr'[a].items = fr[a].items \cup mailbox, mailbox' = {},
           UNCHANGED <<active, turn_state, turn, recordVars, clientVars>>
    PROVE  \A o \in Items : ItemOK(o)'
<1> SUFFICES ASSUME NEW o \in Items
             PROVE  ItemOK(o)'
  OBVIOUS
<1>1. PICK k \in Sorts, x \in States \cup Actors : HomeOK(k, x) /\ IsAt(o, k, x)
  BY DEF ItemInv, ItemOK
<1>2. \A s \in States : Waits(o, s)' <=> Waits(o, s)
  <2>1. \A b \in Actors : fr'[b].ts = fr[b].ts
    BY DEF Moves
  <2> QED
    BY <2>1 DEF Waits, Referenced
<1>3. \A b \in Actors \ {a} : fr'[b].items = fr[b].items /\ fr'[b].input = fr[b].input
  BY DEF Moves
<1>4. CASE o \notin mailbox
  <2>1. Same(o)
    BY <1>2, <1>3, <1>4 DEF Same, recordVars, clientVars
  <2> QED
    BY <2>1, SameKeeps DEF ItemInv
<1>5. CASE o \in mailbox
  <2>1. IsAt(o, "taken", a)'
    BY <1>1, <1>2, <1>3, <1>5 DEF IsAt, recordVars, clientVars
  <2>2. "taken" \in Sorts /\ a \in States \cup Actors /\ HomeOK("taken", a)
    BY DEF Sorts, HomeOK
  <2> QED
    BY <2>1, <2>2, MovedTo
<1> QED
  BY <1>4, <1>5

\* A runner or start_task takes the pending input of the active turn into its hands.
LEMMA TakeItems ==
    ASSUME Inv, ItemInv, NEW a \in Actors, Moves(a), fr'[a].ts = fr[a].ts,
           fr'[a].input = fr[a].input, fr[a].items = {}, active # None, active.ts \in States,
           fr'[a].items = turn_state[active.ts].pending,
           \A s \in States : turn_state'[s].pending =
               IF s = active.ts THEN {} ELSE turn_state[s].pending,
           UNCHANGED <<active, mailbox, turn, recordVars, clientVars>>
    PROVE  \A o \in Items : ItemOK(o)'
<1> SUFFICES ASSUME NEW o \in Items
             PROVE  ItemOK(o)'
  OBVIOUS
<1>1. PICK k \in Sorts, x \in States \cup Actors : HomeOK(k, x) /\ IsAt(o, k, x)
  BY DEF ItemInv, ItemOK
<1>2. \A s \in States : Referenced(s)' <=> Referenced(s)
  <2>1. \A b \in Actors : fr'[b].ts = fr[b].ts
    BY DEF Moves
  <2> QED
    BY <2>1 DEF Referenced
<1>3. \A b \in Actors \ {a} : fr'[b].items = fr[b].items /\ fr'[b].input = fr[b].input
  BY DEF Moves
<1>4. CASE o \notin turn_state[active.ts].pending
  <2>1. \A s \in States : Waits(o, s)' <=> Waits(o, s)
    BY <1>2, <1>4 DEF Waits
  <2>2. Same(o)
    BY <1>3, <1>4, <2>1 DEF Same, recordVars, clientVars
  <2> QED
    BY <2>2, SameKeeps DEF ItemInv
<1>5. CASE o \in turn_state[active.ts].pending
  <2>1. Waits(o, active.ts)
    BY <1>5 DEF Waits, Referenced
  <2>2. k = "pending" /\ x = active.ts
    BY <1>1, <2>1 DEF IsAt
  <2>3. \A s \in States : ~Waits(o, s)'
    BY <1>1, <1>2, <2>2 DEF IsAt, Waits
  <2>4. IsAt(o, "taken", a)'
    BY <1>1, <1>3, <1>5, <2>2, <2>3 DEF IsAt, recordVars, clientVars
  <2>5. "taken" \in Sorts /\ a \in States \cup Actors /\ HomeOK("taken", a)
    BY DEF Sorts, HomeOK
  <2> QED
    BY <2>4, <2>5, MovedTo
<1> QED
  BY <1>4, <1>5

\* The runner takes what waits in its turn, ...
LEMMA TurnTakeItems ==
    ASSUME Inv, ItemInv, NEW t \in Turns, TurnTake(t)
    PROVE  ItemInv'
<1>1. /\ BodyMoves(t) /\ fr[t].at = "turn.take" /\ fr[t].at \in Body
      /\ TakePending(t, "turn.drain", "turn.record")
      /\ UNCHANGED <<active, mailbox, turn, recordVars, clientVars>>
  BY TurnTakeMoves DEF TurnTake, TakePending, At, BodyMoves
<1>2. /\ t \in Actors /\ FramesTyped /\ StatesTyped /\ ActiveTyped /\ fr[t].items = {}
      /\ turn[t].input = {}
      /\ TaskIs(t) => active.ts \in States
  BY <1>1, RunnerInput, BodyStart
<1>3. /\ Moves(t) /\ KeepsCall(t) /\ fr'[t].at \in {"turn.drain", "turn.record"}
      /\ fr'[t].items = (IF active = None THEN {} ELSE turn_state[active.ts].pending)
      /\ fr'[t].ts = fr[t].ts
      /\ \A s \in States : turn_state'[s].pending =
            IF active # None /\ s = active.ts THEN {} ELSE turn_state[s].pending
  BY <1>1, <1>2, TakeEffect, BodyPlaces
<1>4. CASE active = None
  BY <1>1, <1>2, <1>3, <1>4, BodyQuiet, BodyPlaces
<1>5. CASE active # None
  <2>1. TaskIs(t)
    <3>1. TurnsInv /\ RunnerOK(t) /\ AbortOK
      BY DEF Inv, TurnsInv
    <3> QED
      BY <1>1, <1>5, <3>1 DEF RunnerOK, AbortOK, Stops, Aborting
  <2>2. \A o \in Items : ItemOK(o)'
    BY <1>1, <1>2, <1>3, <1>5, <2>1, TakeItems DEF KeepsCall
  <2>3. \A b \in Actors : EmptyOK(b)'
    BY <1>1, <1>2, <1>3, BodyEmpty, EmptyKept
  <2>4. \A u \in Turns : InputOK(u)'
    <3>1. InputOK(t)'
      BY <1>1, <1>2 DEF InputOK
    <3> QED
      BY <1>1, <1>2, <1>3, <3>1, InputKept
  <2>5. Passes({})
    <3>1. \A u \in Turns, s \in States : HeldFor(s, u) => HeldFor(s, u)'
      BY <1>1, BodyHeld
    <3>2. ASSUME NEW u \in Turns, HeldFor(active.ts, u)
          PROVE  u = t
      <4>1. AbortOK /\ StatesApart /\ u \in Actors
        BY ActorSorts DEF Inv, TurnsInv, OwnInv
      <4>2. HasTask
        BY <2>1, ActorSorts DEF TaskIs, HasTask
      <4> QED
        BY <1>5, <2>1, <3>2, <4>1, <4>2 DEF HeldFor, TaskIs, AbortOK, StatesApart
    <3>3. fr'[t].at \in Body /\ turn_state[active.ts].pending \subseteq fr'[t].items
      BY <1>3, <1>5, BodyPlaces
    <3>4. \A u \in Turns, s \in States : HeldFor(s, u) =>
             \/ HeldFor(s, u)' /\ turn_state[s].pending \subseteq turn_state'[s].pending
             \/ fr'[u].at \in Body /\ turn_state[s].pending \subseteq fr'[u].items
      BY <1>3, <3>1, <3>2, <3>3
    <3>5. \A u \in Turns : fr[u].at \in Body /\ fr[u].items # {} =>
             fr'[u].at \in Body /\ fr[u].items \subseteq fr'[u].items
      BY <1>2, <1>3, ActorSorts DEF Moves
    <3> QED
      BY <3>4, <3>5 DEF Passes
  <2>6. \A o \in Items : SteerOK(o)'
    BY <1>1, <2>5, SteerPasses DEF recordVars
  <2> QED
    BY <2>2, <2>3, <2>4, <2>6 DEF ItemInv
<1> QED
  BY <1>4, <1>5

\* ... and the mail after that.
LEMMA TurnDrainItems ==
    ASSUME Inv, ItemInv, NEW t \in Turns, TurnDrain(t)
    PROVE  ItemInv'
<1>1. /\ BodyMoves(t) /\ fr[t].at = "turn.drain" /\ fr[t].at \in Body
      /\ DrainMailbox(t, "turn.record") /\ mailbox' = {}
      /\ UNCHANGED <<active, turn_state, turn, recordVars, clientVars>>
  BY TurnDrainMoves DEF TurnDrain, DrainMailbox, At, BodyMoves
<1>2. t \in Actors /\ FramesTyped /\ RestTyped /\ turn[t].input = {}
  BY <1>1, RunnerInput, BodyStart
<1>3. /\ Moves(t) /\ KeepsCall(t) /\ fr'[t].at = "turn.record"
      /\ fr'[t].items = fr[t].items \cup mailbox /\ fr'[t].ts = fr[t].ts
  BY <1>1, <1>2, DrainEffect, BodyPlaces
<1>4. \A o \in Items : ItemOK(o)'
  BY <1>1, <1>2, <1>3, DrainItems DEF KeepsCall
<1>5. \A b \in Actors : EmptyOK(b)'
  BY <1>1, <1>2, <1>3, BodyEmpty, EmptyKept
<1>6. \A u \in Turns : InputOK(u)'
  <2>1. InputOK(t)'
    BY <1>1, <1>2 DEF InputOK
  <2> QED
    BY <1>1, <1>2, <1>3, <2>1, InputKept
<1>7. HeldKept
  BY <1>1, BodyHeld DEF HeldKept
<1>8. HandsKept
  BY <1>3, ActorSorts, BodyPlaces DEF Moves, HandsKept
<1>9. \A o \in Items : SteerOK(o)'
  BY <1>1, <1>7, <1>8, SteerKept DEF recordVars
<1> QED
  BY <1>4, <1>5, <1>6, <1>9 DEF ItemInv

----------------------------------------------------------------------------
(* Items and start_task. *)

\* A caller that is no runner changes no turn.
LEMMA CallerItems ==
    ASSUME Inv, ItemInv, NEW a \in Actors, Moves(a), UNCHANGED <<turn, recordVars, clientVars>>,
           fr[a].at \notin Body, HeldKept, EmptyOK(a)',
           \A s \in States : \/ turn_state'[s].pending \subseteq turn_state[s].pending
                             \/ \A b \in Actors \ {a} : fr[b].ts # s,
           \A o \in Items : ItemOK(o)'
    PROVE  ItemInv'
<1>1. \A b \in Actors : EmptyOK(b)'
  BY EmptyKept
<1>2. \A t \in Turns : InputOK(t)'
  <2>1. a \in Turns => InputOK(a)'
    BY DEF ItemInv, InputOK, Body
  <2> QED
    BY <2>1, InputKept
<1>3. HandsKept
  BY ActorSorts DEF Moves, HandsKept
<1>4. \A o \in Items : SteerOK(o)'
  BY <1>3, SteerKept DEF recordVars
<1> QED
  BY <1>1, <1>2, <1>4 DEF ItemInv

\* While an actor starts a turn the active turn is no other turn's.
LEMMA StarterAlone ==
    ASSUME Inv, NEW a \in Actors, fr[a].at \in Starting
    PROVE  /\ active # None => \A u \in Turns : ~HeldFor(active.ts, u)
           /\ fr[a].at \notin Body /\ fr[a].at \notin Aborting /\ fr[a].at # "finish.record"
           /\ ~HasTask
<1>1. OwnInv /\ AbortOK /\ StartOK(a) /\ Owns(a)
  BY DEF Inv, TurnsInv, OwnInv, Owns
<1>2. fr[a].at \notin Body /\ fr[a].at \notin Aborting /\ fr[a].at # "finish.record" /\ ~HasTask
  BY <1>1 DEF Starting, Body, Aborting, StartOK
<1>3. ASSUME active # None, NEW u \in Turns, HeldFor(active.ts, u)
      PROVE  FALSE
  <2>1. u \in Actors /\ u # None
    BY ActorSorts
  <2>2. ~TaskIs(u)
    BY <1>2, <2>1 DEF TaskIs, HasTask
  <2>3. fr[LOOP].at \notin Aborting
    BY <1>1, <1>3 DEF AbortOK
  <2>4. fr[u].at = "finish.record" /\ fr[u].ts = active.ts
    BY <1>3, <2>2, <2>3 DEF HeldFor
  <2>5. active.ts # None
    BY <1>3, CallStart
  <2>6. Owns(u)
    BY <1>2, <1>3, <2>4, <2>5 DEF Owns, Reserved, HasTask
  <2>7. u = a
    BY <1>1, <2>1, <2>6 DEF OwnInv, OneOwner
  <2> QED
    BY <1>2, <2>4, <2>7
<1> QED
  BY <1>2, <1>3

\* Its steps take no turn state from its turn.
LEMMA StarterHeld ==
    ASSUME Inv, NEW a \in Actors, fr[a].at \in Starting, Moves(a), turn' = turn
    PROVE  \A u \in Turns, s \in States : HeldFor(s, u) => HeldFor(s, u)'
<1>1. fr[a].at \notin Aborting /\ fr[a].at # "finish.record" /\ ~HasTask
  BY StarterAlone
<1> QED
  BY <1>1, HeldStays

\* It is at none of the places that EmptyOK speaks of.
LEMMA StarterEmpty ==
    ASSUME NEW a \in Actors, fr'[a].at \in Starting \cup Pending \cup {"idle", "goal.read", "over"}
    PROVE  EmptyOK(a)'
BY DEF EmptyOK, Starting, Pending, Holding

\* start_task takes the pending input, ...
LEMMA StartTakeItems ==
    ASSUME Inv, ItemInv, NEW a \in Actors, StartTake(a)
    PROVE  ItemInv'
<1>1. /\ fr[a].at = "start.take" /\ fr[a].at \in Starting
      /\ TakePending(a, "start.drain", "start.state")
      /\ UNCHANGED <<active, mailbox, turn, recordVars, clientVars>>
  BY DEF StartTake, TakePending, At, Starting
<1>2. /\ FramesTyped /\ StatesTyped /\ ActiveTyped /\ LocalsOK(a)
      /\ active # None => active.ts \in States
  BY CallStart
<1>3. fr[a].items = {}
  BY <1>1, <1>2 DEF LocalsOK, ItemPlaces, Holding
<1>4. "start.drain" \in AllPlaces /\ "start.state" \in AllPlaces /\ {"start.drain", "start.state"} \subseteq Starting
  BY StartingPlaces DEF Starting
<1>5. /\ Moves(a) /\ KeepsCall(a) /\ fr'[a].at \in {"start.drain", "start.state"}
      /\ fr'[a].items = (IF active = None THEN {} ELSE turn_state[active.ts].pending)
      /\ fr'[a].ts = fr[a].ts
      /\ \A s \in States : turn_state'[s].pending =
            IF active # None /\ s = active.ts THEN {} ELSE turn_state[s].pending
  BY <1>1, <1>2, <1>4, TakeEffect
<1>6. /\ \A u \in Turns, s \in States : HeldFor(s, u) => HeldFor(s, u)'
      /\ active # None => \A u \in Turns : ~HeldFor(active.ts, u)
      /\ fr[a].at \notin Body
  BY <1>1, <1>5, StarterHeld, StarterAlone
<1>7. HeldKept
  BY <1>5, <1>6 DEF HeldKept
<1>8. EmptyOK(a)'
  BY <1>4, <1>5, StarterEmpty
<1>9. \A o \in Items : ItemOK(o)'
  <2>1. CASE active # None
    BY <1>1, <1>2, <1>3, <1>5, <2>1, TakeItems DEF KeepsCall
  <2>2. CASE active = None
    <3>1. \A s \in States : SameState(s)
      BY <1>1, <1>5, <2>2, SameRefs
    <3>2. Quiet(a)
      BY <1>1, <1>3, <1>5, <2>2, <3>1 DEF Quiet, KeepsCall
    <3> QED
      BY <3>2, QuietSame, SameKeeps DEF ItemInv
  <2> QED
    BY <2>1, <2>2
<1> QED
  BY <1>1, <1>5, <1>6, <1>7, <1>8, <1>9, CallerItems

\* ... then the mail, ...
LEMMA StartDrainItems ==
    ASSUME Inv, ItemInv, NEW a \in Actors, StartDrain(a)
    PROVE  ItemInv'
<1>1. /\ fr[a].at = "start.drain" /\ fr[a].at \in Starting
      /\ DrainMailbox(a, "start.state") /\ mailbox' = {}
      /\ UNCHANGED <<active, turn_state, turn, recordVars, clientVars>>
  BY DEF StartDrain, DrainMailbox, At, Starting
<1>2. FramesTyped /\ RestTyped
  BY CallStart
<1>3. "start.state" \in AllPlaces /\ "start.state" \in Starting
  BY StartingPlaces DEF Starting
<1>4. /\ Moves(a) /\ KeepsCall(a) /\ fr'[a].at = "start.state"
      /\ fr'[a].items = fr[a].items \cup mailbox /\ fr'[a].ts = fr[a].ts
  BY <1>1, <1>2, <1>3, DrainEffect
<1>5. HeldKept /\ fr[a].at \notin Body
  BY <1>1, <1>4, StarterHeld, StarterAlone DEF HeldKept
<1>6. EmptyOK(a)'
  BY <1>3, <1>4, StarterEmpty
<1>7. \A o \in Items : ItemOK(o)'
  BY <1>1, <1>4, DrainItems DEF KeepsCall
<1> QED
  BY <1>1, <1>4, <1>5, <1>6, <1>7, CallerItems

\* An actor reserves the idle session.
LEMMA ReserveSame ==
    ASSUME Inv, NEW a \in Actors, NEW s \in States, active = None, Reserve(s), Moves(a),
           fr[a].ts = None, fr'[a].ts \in {s, None}
    PROVE  /\ \A r \in States : SameState(r)
           /\ \A r \in States : turn_state'[r].pending \subseteq turn_state[r].pending
           /\ \A u \in Turns : ~HeldFor(s, u)
           /\ \A r \in States \ {s} : turn_state'[r] = turn_state[r]
<1>1. StatesTyped /\ FramesTyped /\ None \notin States
  BY CallStart, ConstantsAssumption
<1>2. /\ StateIs(s, {}, "CurrentTurn") /\ active' # None /\ active'.ts = s
      /\ \A b \in Actors : fr[b].ts # s
  BY <1>1, ReserveEffect
<1>3. turn_state'[s].pending = {} /\ \A r \in States \ {s} : turn_state'[r] = turn_state[r]
  BY <1>2 DEF StateIs
<1>4. ~Referenced(s) /\ \A r \in States \ {s} : Referenced(r)' <=> Referenced(r)
  BY <1>1, <1>2 DEF Referenced, Moves
<1>5. \A u \in Turns : ~HeldFor(s, u)
  BY <1>2, ActorSorts DEF HeldFor, TaskIs
<1> QED
  BY <1>3, <1>4, <1>5 DEF SameState

\* ... gets hold of the turn state, ...
LEMMA StartStateItems ==
    ASSUME Inv, ItemInv, NEW a \in Actors, StartState(a)
    PROVE  ItemInv'
<1>1. /\ fr[a].at = "start.state" /\ fr[a].at \in Starting
      /\ UNCHANGED <<mailbox, turn, recordVars, clientVars>>
  BY DEF StartState, At, Starting
<1>2. /\ FramesTyped /\ StatesTyped /\ LocalsOK(a)
      /\ active # None => active.ts \in States
  BY CallStart
<1>3. fr[a].ts = None
  BY <1>1, <1>2 DEF LocalsOK, StatePlaces, Holding, Aborting, Finishing
<1>4. "start.extend" \in AllPlaces /\ "start.extend" \in Starting
  BY StartingPlaces DEF Starting
<1>5. ASSUME NEW s \in States, StateTaken(a, s, "start.extend"), \A r \in States : SameState(r),
             \A r \in States : turn_state'[r].pending \subseteq turn_state[r].pending,
             \A u \in Turns, r \in States : HeldFor(r, u) => turn_state'[r] = turn_state[r]
      PROVE  ItemInv'
  <2>1. Moves(a) /\ KeepsCall(a) /\ fr'[a].items = fr[a].items /\ fr'[a].at = "start.extend"
    BY <1>5 DEF StateTaken
  <2>2. HeldKept /\ fr[a].at \notin Body
    BY <1>1, <1>5, <2>1, StarterHeld, StarterAlone DEF HeldKept
  <2>3. EmptyOK(a)'
    BY <1>4, <2>1, StarterEmpty
  <2>4. Quiet(a)
    BY <1>1, <1>5, <2>1 DEF Quiet, KeepsCall
  <2>5. \A o \in Items : ItemOK(o)'
    BY <2>4, QuietSame, SameKeeps DEF ItemInv
  <2> QED
    BY <1>1, <1>5, <2>1, <2>2, <2>3, <2>5, CallerItems
<1>6. CASE active # None /\ TakesState(a, active.ts, "start.extend") /\ UNCHANGED <<active, turn_state>>
  <2>1. StateTaken(a, active.ts, "start.extend") /\ active.ts \in States
    BY <1>2, <1>4, <1>6, StateMove
  <2>2. \A r \in States : Referenced(r)' <=> Referenced(r)
    <3>1. Moves(a) /\ fr'[a].ts = active.ts
      BY <2>1 DEF StateTaken
    <3>2. None \notin States
      BY ConstantsAssumption
    <3> QED
      BY <1>3, <1>6, <3>1, <3>2 DEF Referenced, Moves
  <2>3. \A r \in States : SameState(r)
    BY <1>6, <2>2 DEF SameState
  <2> QED
    BY <1>5, <1>6, <2>1, <2>3
<1>7. CASE active = None /\ \E s \in States : Reserve(s) /\ TakesState(a, s, "start.extend")
  <2>1. PICK s \in States : Reserve(s) /\ TakesState(a, s, "start.extend")
    BY <1>7
  <2>2. StateTaken(a, s, "start.extend")
    BY <1>2, <1>4, <2>1, StateMove
  <2>3. Moves(a) /\ fr'[a].ts = s
    BY <2>2 DEF StateTaken
  <2>4. /\ \A r \in States : SameState(r)
        /\ \A r \in States : turn_state'[r].pending \subseteq turn_state[r].pending
        /\ \A u \in Turns : ~HeldFor(s, u)
        /\ \A r \in States \ {s} : turn_state'[r] = turn_state[r]
    BY <1>3, <1>7, <2>1, <2>3, ReserveSame
  <2> QED
    BY <1>5, <2>2, <2>4
<1> QED
  BY <1>6, <1>7 DEF StartState, TakesState

\* What an actor has in its hands goes into the turn state of the active turn.
LEMMA ExtendItems ==
    ASSUME Inv, ItemInv, NEW a \in Actors, Moves(a), fr[a].ts \in States, Reserved(fr[a].ts),
           fr'[a].items = {}, fr'[a].ts = None, fr'[a].input = fr[a].input,
           StateIs(fr[a].ts, turn_state[fr[a].ts].pending \cup fr[a].items, turn_state[fr[a].ts].phase),
           UNCHANGED <<active, mailbox, turn, recordVars, clientVars>>
    PROVE  /\ \A o \in Items : ItemOK(o)'
           /\ \A s \in States : turn_state[s].pending \subseteq turn_state'[s].pending
           /\ \A s \in States : \/ turn_state'[s].pending \subseteq turn_state[s].pending
                                \/ \A b \in Actors \ {a} : fr[b].ts # s
<1>0. PICK s \in States : s = fr[a].ts
  OBVIOUS
<1>1. /\ turn_state'[s].pending = turn_state[s].pending \cup fr[a].items
      /\ \A r \in States \ {s} : turn_state'[r] = turn_state[r]
  BY <1>0 DEF StateIs
<1>2. s # None /\ None \notin States /\ Reserved(s)
  BY <1>0, ConstantsAssumption
<1>3. \A b \in Actors \ {a} : fr[b].ts # s
  <2>1. StatesApart
    BY DEF Inv, OwnInv
  <2> QED
    BY <1>0, <1>2, <2>1 DEF StatesApart
<1>4. /\ \A r \in States : Referenced(r)' <=> Referenced(r)
      /\ Referenced(s)
  BY <1>0, <1>2 DEF Referenced, Reserved, Moves
<1>5. \A b \in Actors \ {a} : fr'[b].items = fr[b].items /\ fr'[b].input = fr[b].input
  BY DEF Moves
<1>6. ASSUME NEW o \in Items
      PROVE  ItemOK(o)'
  <2>1. PICK k \in Sorts, x \in States \cup Actors : HomeOK(k, x) /\ IsAt(o, k, x)
    BY DEF ItemInv, ItemOK
  <2>2. CASE o \notin fr[a].items
    <3>1. \A r \in States : Waits(o, r)' <=> Waits(o, r)
      BY <1>1, <1>4, <2>2 DEF Waits
    <3>2. Same(o)
      BY <1>5, <2>2, <3>1 DEF Same, recordVars, clientVars
    <3> QED
      BY <3>2, SameKeeps DEF ItemInv
  <2>3. CASE o \in fr[a].items
    <3>1. k = "taken" /\ x = a
      BY <2>1, <2>3 DEF IsAt
    <3>2. \A r \in States : Waits(o, r)' <=> r = s
      BY <1>1, <1>4, <2>1, <2>3, <3>1 DEF IsAt, Waits
    <3>3. IsAt(o, "pending", s)'
      BY <1>5, <2>1, <3>1, <3>2 DEF IsAt, recordVars, clientVars
    <3>4. "pending" \in Sorts /\ s \in States \cup Actors /\ HomeOK("pending", s)
      BY DEF Sorts, HomeOK
    <3> QED
      BY <3>3, <3>4, MovedTo
  <2> QED
    BY <2>2, <2>3
<1> QED
  BY <1>0, <1>1, <1>3, <1>6

\* ... puts what it took into it, ...
LEMMA StartExtendItems ==
    ASSUME Inv, ItemInv, NEW a \in Actors, StartExtend(a)
    PROVE  ItemInv'
<1>1. /\ fr[a].at = "start.extend" /\ fr[a].at \in Starting
      /\ UNCHANGED <<active, mailbox, turn, recordVars, clientVars>>
  BY DEF StartExtend, At, Starting
<1>2. /\ fr[a].ts \in States /\ Moves(a) /\ KeepsCall(a) /\ fr'[a].at = "start.spawn"
      /\ fr'[a].items = {} /\ fr'[a].ts = None
      /\ StateIs(fr[a].ts, turn_state[fr[a].ts].pending \cup fr[a].items, turn_state[fr[a].ts].phase)
  BY StartExtendMoves
<1>3. Reserved(fr[a].ts)
  BY <1>1, CallStart DEF StartOK
<1>4. /\ \A o \in Items : ItemOK(o)'
      /\ \A s \in States : turn_state[s].pending \subseteq turn_state'[s].pending
      /\ \A s \in States : \/ turn_state'[s].pending \subseteq turn_state[s].pending
                           \/ \A b \in Actors \ {a} : fr[b].ts # s
  BY <1>1, <1>2, <1>3, ExtendItems DEF KeepsCall
<1>5. HeldKept /\ fr[a].at \notin Body
  BY <1>1, <1>2, <1>4, StarterHeld, StarterAlone DEF HeldKept
<1>6. EmptyOK(a)'
  BY <1>2, StarterEmpty DEF Starting
<1> QED
  BY <1>1, <1>2, <1>4, <1>5, <1>6, CallerItems

\* ... and spawns the runner, with the input that the turn is started with.
LEMMA StartSpawnItems ==
    ASSUME Inv, ItemInv, NEW a \in Actors, StartSpawn(a)
    PROVE  ItemInv'
<1>1. fr[a].at = "start.spawn" /\ fr[a].at \in Starting
  BY DEF StartSpawn, At, Starting
<1>2. PICK t \in Turns : Spawns(a, t)
  BY SpawnEffect
<1>3. UNCHANGED <<turn_state, mailbox, recordVars, clientVars>>
  BY <1>2 DEF StartSpawn, Spawns
<1>4. /\ t \in Actors /\ t # a /\ t # LOOP /\ fr[t].at = "unborn" /\ LocalsOK(a) /\ LocalsOK(t) /\ PlaceOK(a)
      /\ fr[a] \in FrameRecords
  BY <1>2, CallStart, ActorSorts DEF Spawns
<1>5. /\ fr[a].items = {} /\ fr[a].ts = None /\ (fr[a].input # {} => fr[a].kind = "Regular")
      /\ fr[t].items = {} /\ fr[t].ts = None /\ fr[t].input = {}
  BY <1>1, <1>4 DEF LocalsOK, ItemPlaces, StatePlaces, InputPlaces, Holding, Aborting, Finishing, Starting
<1>6. /\ fr'[a].items = {} /\ fr'[a].ts = None /\ fr'[a].input = {} /\ fr'[a].at = fr[a].ret
      /\ fr'[t].items = {} /\ fr'[t].ts = None /\ fr'[t].input = {} /\ fr'[t].at = "run.begin"
      /\ \A b \in Actors \ {a, t} : fr'[b] = fr[b]
  BY <1>2 DEF Spawns, Frame
<1>7. turn[t].input = {}
  BY <1>4 DEF ItemInv, InputOK
<1>8. /\ turn'[t].input = fr[a].input /\ turn'[t].kind = fr[a].kind
      /\ \A u \in Turns \ {t} : turn'[u] = turn[u]
      /\ active # None /\ active' # None /\ active'.ts = active.ts /\ ~HasTask
  BY <1>2 DEF Spawns, OnlyTurn, TaskIs
<1>9. fr'[a].at \in {"goal.read", "idle"}
  BY <1>1, <1>4, <1>6, ActorSorts DEF PlaceOK, Starting
<1>10. \A b \in Actors : EmptyOK(b)'
  <2>1. EmptyOK(a)' /\ EmptyOK(t)'
    BY <1>6, <1>9 DEF EmptyOK, Holding
  <2>2. \A b \in Actors \ {a, t} : EmptyOK(b)'
    BY <1>3, <1>6 DEF EmptyOK, ItemInv
  <2> QED
    BY <2>1, <2>2
<1>11. \A u \in Turns : InputOK(u)'
  <2>1. InputOK(t)'
    BY <1>5, <1>6, <1>8 DEF InputOK
  <2>2. a \in Turns => InputOK(a)'
    BY <1>1, <1>4, <1>8 DEF InputOK, ItemInv
  <2>3. \A u \in Turns \ {a, t} : InputOK(u)'
    BY <1>6, <1>8, ActorSorts DEF InputOK, ItemInv
  <2> QED
    BY <2>1, <2>2, <2>3
<1>12. HeldKept
  <2> SUFFICES ASSUME NEW u \in Turns, NEW s \in States, HeldFor(s, u)
               PROVE  HeldFor(s, u)'
    BY <1>3 DEF HeldKept
  <2>1. ~TaskIs(u)
    BY <1>8, ActorSorts DEF TaskIs, HasTask
  <2>2. fr[LOOP].at \notin Aborting
    BY <1>8 DEF Inv, TurnsInv, AbortOK
  <2>3. fr[u].at = "finish.record" /\ "TurnComplete" \notin turn[u].events /\ fr[u].ts = s
    BY <2>1, <2>2 DEF HeldFor
  <2>4. u # a /\ u # t /\ u \in Actors
    BY <1>1, <1>4, <2>3, ActorSorts
  <2>5. fr'[u] = fr[u] /\ turn'[u] = turn[u]
    BY <1>6, <1>8, <2>4
  <2> QED
    BY <2>3, <2>5 DEF HeldFor
<1>13. HandsKept
  <2> SUFFICES ASSUME NEW u \in Turns, fr[u].at \in Body, fr[u].items # {}
               PROVE  fr'[u] = fr[u]
    BY DEF HandsKept
  <2> QED
    BY <1>5, <1>6, ActorSorts
<1>14. \A o \in Items : SteerOK(o)'
  BY <1>3, <1>12, <1>13, SteerKept DEF recordVars
<1>15. ASSUME NEW o \in Items
       PROVE  ItemOK(o)'
  <2>1. PICK k \in Sorts, x \in States \cup Actors : HomeOK(k, x) /\ IsAt(o, k, x)
    BY DEF ItemInv, ItemOK
  <2>2. \A s \in States : Waits(o, s)' <=> Waits(o, s)
    <3>1. \A b \in Actors : fr'[b].ts = fr[b].ts
      BY <1>5, <1>6
    <3> QED
      BY <1>3, <1>8, <3>1 DEF Waits, Referenced
  <2>3. \A b \in Actors : fr'[b].items = fr[b].items
    BY <1>5, <1>6
  <2>4. \A b \in Actors \ {a} : fr'[b].input = fr[b].input
    BY <1>5, <1>6
  <2>5. CASE o \notin fr[a].input
    <3>1. \A u \in Turns : o \in turn'[u].input <=> o \in turn[u].input
      BY <1>7, <1>8, <2>5
    <3>2. Same(o)
      BY <1>3, <1>6, <2>2, <2>3, <2>4, <2>5, <3>1 DEF Same, recordVars, clientVars
    <3> QED
      BY <3>2, SameKeeps DEF ItemInv
  <2>6. CASE o \in fr[a].input
    <3>1. k = "carried" /\ x = a
      BY <2>1, <2>6 DEF IsAt
    <3>2. \A u \in Turns : o \in turn'[u].input <=> u = t
      BY <1>8, <2>1, <2>6, <3>1 DEF IsAt
    <3>3. \A b \in Actors : o \notin fr'[b].input
      BY <1>6, <2>1, <2>4, <3>1 DEF IsAt
    <3>4. IsAt(o, "input", t)'
      BY <1>3, <2>1, <2>2, <2>3, <3>1, <3>2, <3>3 DEF IsAt, recordVars, clientVars
    <3>5. "input" \in Sorts /\ t \in States \cup Actors /\ HomeOK("input", t)
      BY <1>4 DEF Sorts, HomeOK
    <3> QED
      BY <3>4, <3>5, MovedTo
  <2> QED
    BY <2>5, <2>6
<1> QED
  BY <1>10, <1>11, <1>14, <1>15 DEF ItemInv

----------------------------------------------------------------------------
(* Items, the look for pending work and on_task_finished. *)

\* An actor with nothing in its hands goes on, and may reserve the idle session.
LEMMA EmptyHanded ==
    ASSUME Inv, ItemInv, NEW a \in Actors, Moves(a),
           fr[a].at \notin Body, fr[a].at \notin Aborting, fr[a].at # "finish.record",
           fr[a].items = {}, fr[a].input = {}, fr[a].ts = None,
           fr'[a].items = {}, fr'[a].input = {}, fr'[a].ts = None, EmptyOK(a)',
           UNCHANGED <<mailbox, turn, recordVars, clientVars>>,
           UNCHANGED <<active, turn_state>> \/ (active = None /\ \E s \in States : Reserve(s))
    PROVE  ItemInv'
<1>1. /\ \A s \in States : SameState(s)
      /\ \A s \in States : turn_state'[s].pending \subseteq turn_state[s].pending
      /\ \A u \in Turns, s \in States : HeldFor(s, u) => turn_state'[s] = turn_state[s]
  <2>1. CASE UNCHANGED <<active, turn_state>>
    BY <2>1, SameRefs
  <2>2. CASE active = None /\ \E s \in States : Reserve(s)
    <3>1. PICK s \in States : Reserve(s)
      BY <2>2
    <3> QED
      BY <2>2, <3>1, ReserveSame
  <2> QED
    BY <2>1, <2>2
<1>2. Quiet(a)
  BY <1>1 DEF Quiet
<1>3. HasTask => active' = active
  BY DEF HasTask
<1>4. HeldKept
  BY <1>1, <1>3, HeldStays DEF HeldKept
<1>5. \A o \in Items : ItemOK(o)'
  BY <1>2, QuietSame, SameKeeps DEF ItemInv
<1> QED
  BY <1>1, <1>4, <1>5, CallerItems

\* maybe_start_turn_for_pending_work
LEMMA PendingItems ==
    ASSUME Inv, ItemInv, NEW a \in Actors, PendingCheck(a) \/ PendingReserve(a)
    PROVE  ItemInv'
<1>1. /\ fr[a].at \in Pending /\ UNCHANGED <<mailbox, turn, recordVars, clientVars>>
      /\ UNCHANGED <<active, turn_state>> \/ (active = None /\ \E s \in States : Reserve(s))
  BY DEF PendingCheck, PendingReserve, At, Pending
<1>2. FramesTyped
  BY CallStart
<1>3. /\ fr[a].ret = (IF a \in Turns THEN "goal.read" ELSE "idle")
      /\ fr[a].ts = None /\ fr[a].items = {} /\ fr[a].input = {}
  BY <1>1, PendingStart
<1>4. /\ fr[a].ret \in AllPlaces /\ fr[a].ret \in {"idle", "goal.read"}
      /\ "pending.reserve" \in AllPlaces /\ "start.take" \in AllPlaces
      /\ "pending.reserve" \in Pending /\ "start.take" \in Starting
  BY <1>3, StartingPlaces DEF Pending, Starting
<1>5. /\ Moves(a) /\ fr'[a].items = {} /\ fr'[a].input = {} /\ fr'[a].ts = None
      /\ fr'[a].at \in Starting \cup Pending \cup {"idle", "goal.read", "over"}
  <2>1. CASE Return(a)
    BY <1>2, <1>4, <2>1, FreshMove DEF Return
  <2>2. CASE Goto(a, "pending.reserve")
    BY <1>2, <1>3, <1>4, <2>2, GotoMove DEF KeepsCall
  <2>3. CASE GotoWith(a, [Frame("start.take") EXCEPT !.ret = fr[a].ret])
    BY <1>2, <1>4, <2>3, FreshMove
  <2> QED
    BY <2>1, <2>2, <2>3 DEF PendingCheck, PendingReserve
<1>6. EmptyOK(a)'
  BY <1>5, StarterEmpty
<1>7. fr[a].at \notin Body /\ fr[a].at \notin Aborting /\ fr[a].at # "finish.record"
  BY <1>1 DEF Pending, Body, Aborting
<1> QED
  BY <1>1, <1>3, <1>5, <1>6, <1>7, EmptyHanded

\* The runner of a finished turn finds no goal.
LEMMA GoalReadItems ==
    ASSUME Inv, ItemInv, OneStarter, NEW t \in Turns, GoalRead(t)
    PROVE  ItemInv'
<1>1. /\ fr[t].at = "goal.read" /\ t \in Actors
      /\ UNCHANGED <<active, turn_state, mailbox, turn, recordVars, clientVars>>
  BY ActorSorts DEF GoalRead, At
<1>2. FramesTyped /\ RestTyped /\ LocalsOK(t)
  BY <1>1, CallStart
<1>3. GotoWith(t, Frame("over"))
  BY <1>2 DEF GoalRead, RestTyped, OneStarter
<1>4. /\ Moves(t) /\ fr'[t].at = "over"
      /\ fr'[t].items = {} /\ fr'[t].ts = None /\ fr'[t].input = {}
  BY <1>1, <1>2, <1>3, FreshMove, BodyPlaces
<1>5. fr[t].at \notin Body /\ fr[t].at \notin ItemPlaces /\ fr[t].at \notin StatePlaces /\ fr[t].at \notin InputPlaces
  BY <1>1 DEF Body, ItemPlaces, StatePlaces, InputPlaces, Holding, Aborting, Finishing, Starting
<1>6. fr[t].items = {} /\ fr[t].ts = None /\ fr[t].input = {} /\ fr[t].at \notin Aborting
  BY <1>2, <1>5 DEF LocalsOK, StatePlaces
<1>7. EmptyOK(t)'
  BY <1>1, <1>4, StarterEmpty
<1> QED
  BY <1>1, <1>4, <1>5, <1>6, <1>7, EmptyHanded

\* on_task_finished takes its task: the turn state is that of a turn that has just finished.
LEMMA FinishTakeItems ==
    ASSUME Inv, ItemInv, NEW t \in Turns, FinishTake(t), HasTask
    PROVE  ItemInv'
<1>1. /\ fr[t].at = "finish.take" /\ fr[t].at \in Body
      /\ active' = [active EXCEPT !.task = None]
      /\ fr' = [fr EXCEPT ![t].ts = active.ts, ![t].at = "finish.record"]
      /\ UNCHANGED <<turn_state, mailbox, turn, recordVars, clientVars>>
  BY DEF FinishTake, At, Body
<1>2. t \in Actors /\ t # LOOP
  BY ActorSorts
<1>3. /\ FramesTyped /\ ActiveTyped /\ LocalsOK(t) /\ TurnsInv /\ AbortOK /\ RunnerOK(t)
      /\ fr[t].items = {} /\ turn[t].input = {}
  BY <1>1, <1>2, CallStart, RunnerInput DEF Inv, TurnsInv
<1>4. TaskIs(t) /\ "TurnComplete" \notin turn[t].events
  BY <1>1, <1>3, BodyTask DEF RunnerOK
<1>5. active # None /\ active' # None /\ active'.ts = active.ts /\ active.ts \in States
  <2>1. active \in [task : Turns \cup {None}, ts : States]
    BY <1>3 DEF ActiveTyped, HasTask
  <2>2. active' \in [task : Turns \cup {None}, ts : States] /\ active'.ts = active.ts
    BY <1>1, <2>1
  <2> QED
    BY <2>1, <2>2, ConstantsAssumption
<1>6. /\ Moves(t) /\ KeepsCall(t) /\ fr'[t].at = "finish.record"
      /\ fr'[t].items = fr[t].items /\ fr'[t].ts = active.ts
  <2>1. active.ts \in States \cup {None} /\ "finish.record" \in AllPlaces
    BY <1>5, BodyPlaces DEF Finishing
  <2>2. TakesState(t, active.ts, "finish.record")
    BY <1>1 DEF TakesState
  <2>3. StateTaken(t, active.ts, "finish.record")
    BY <1>2, <1>3, <2>1, <2>2, StateMove
  <2> QED
    BY <2>3 DEF StateTaken
<1>7. fr[t].ts = None
  BY <1>1, <1>3 DEF LocalsOK, StatePlaces, Holding, Aborting, Finishing
<1>8. \A s \in States : SameState(s)
  <2>1. \A s \in States : Referenced(s)' <=> Referenced(s)
    <3>1. None \notin States
      BY ConstantsAssumption
    <3> QED
      BY <1>5, <1>6, <1>7, <3>1 DEF Referenced, Moves
  <2> QED
    BY <1>1, <2>1 DEF SameState
<1>9. Quiet(t)
  BY <1>1, <1>6, <1>8 DEF Quiet, KeepsCall
<1>10. HeldKept
  <2> SUFFICES ASSUME NEW u \in Turns, NEW s \in States, HeldFor(s, u)
               PROVE  HeldFor(s, u)'
    BY <1>1 DEF HeldKept
  <2>1. fr[LOOP].at \notin Aborting
    BY <1>3, <1>5 DEF AbortOK
  <2>2. CASE u = t
    <3>1. s = active.ts
      BY <1>1, <2>1, <2>2 DEF HeldFor
    <3> QED
      BY <1>1, <1>4, <1>6, <2>2, <3>1 DEF HeldFor
  <2>3. CASE u # t
    <3>1. ~TaskIs(u)
      BY <1>4, <2>3 DEF TaskIs
    <3>2. fr[u].at = "finish.record" /\ "TurnComplete" \notin turn[u].events /\ fr[u].ts = s
      BY <2>1, <3>1 DEF HeldFor
    <3>3. fr'[u] = fr[u] /\ turn'[u] = turn[u]
      BY <1>1, <1>6, <2>3, ActorSorts DEF Moves
    <3> QED
      BY <3>2, <3>3 DEF HeldFor
  <2> QED
    BY <2>2, <2>3
<1>11. EmptyOK(t)' /\ InputOK(t)'
  BY <1>1, <1>3, <1>6 DEF EmptyOK, InputOK, Holding
<1> QED
  BY <1>1, <1>2, <1>3, <1>9, <1>10, <1>11, QuietItems

\* on_task_finished records what was still pending in its turn.
LEMMA FinishRecordItems ==
    ASSUME Inv, ItemInv, NEW t \in Turns, FinishRecord(t)
    PROVE  ItemInv'
<1>1. /\ fr[t].at = "finish.record" /\ fr[t].at \in Finishing /\ UNCHANGED <<active, mailbox, clientVars>>
  BY DEF FinishRecord, At, Finishing
<1>2. PICK s \in States : s = fr[t].ts
  BY <1>1, FinishStart
<1>3. PICK X : X = turn_state[s].pending
  OBVIOUS
<1>4. /\ FinishMoves(t) /\ Recorded(t, X, "finish.event", "finish.event")
      /\ StateIs(s, {}, turn_state[s].phase)
  BY <1>2, <1>3, FinishRecordMoves
<1>5. /\ t \in Actors /\ t # LOOP /\ fr[t].items = {} /\ s # None /\ Moves(t)
      /\ fr'[t].at = "finish.event" /\ fr'[t].ts = s /\ OnlyTurn(t)
      /\ turn'[t].input = {} /\ turn'[t].events = turn[t].events
  BY <1>1, <1>2, <1>4, FinishStart DEF FinishMoves, Recorded
<1>6. turn_state'[s].pending = {} /\ \A r \in States \ {s} : turn_state'[r] = turn_state[r]
  BY <1>4 DEF StateIs
<1>7. Records(t, X)
  BY <1>4, RecordedRecords
<1>8. turn[t].input = {}
  BY <1>1 DEF ItemInv, InputOK
<1>9. \A o \in X : Waits(o, s)
  BY <1>2, <1>3, <1>5 DEF Waits, Referenced
<1>10. \A o \in Items : ItemOK(o)'
  BY <1>1, <1>3, <1>5, <1>6, <1>7, <1>8, <1>9, RecordItems
<1>11. \A b \in Actors : EmptyOK(b)'
  <2>1. EmptyOK(t)'
    BY <1>5, <1>6 DEF EmptyOK
  <2>2. \A r \in States : turn_state'[r].pending \subseteq turn_state[r].pending
    BY <1>6
  <2> QED
    BY <1>5, <2>1, <2>2, EmptyKept
<1>12. \A u \in Turns : InputOK(u)'
  <2>1. InputOK(t)'
    BY <1>5 DEF InputOK
  <2> QED
    BY <1>5, <2>1, InputKept DEF OnlyTurn
<1>13. history \subseteq history' /\ discarded \subseteq discarded' /\ X \cap Items \subseteq history' \cup discarded'
  BY <1>7 DEF Records
<1>14. Passes(X)
  <2>1. ASSUME NEW u \in Turns, NEW r \in States, HeldFor(r, u), r # s
        PROVE  HeldFor(r, u)' /\ turn_state[r].pending \subseteq turn_state'[r].pending
    <3>1. CASE u = t
      <4>1. fr'[LOOP] = fr[LOOP] /\ active' = active
        BY <1>1, <1>5, ActorSorts DEF Moves
      <4> QED
        BY <1>1, <1>2, <1>6, <2>1, <3>1, <4>1 DEF HeldFor, TaskIs
    <3>2. CASE u # t
      <4>1. fr'[LOOP] = fr[LOOP] /\ active' = active /\ fr'[u] = fr[u] /\ turn'[u] = turn[u]
        BY <1>1, <1>5, <3>2, ActorSorts DEF Moves, OnlyTurn
      <4> QED
        BY <1>6, <2>1, <4>1 DEF HeldFor, TaskIs
    <3> QED
      BY <3>1, <3>2
  <2>2. \A u \in Turns : fr[u].at \in Body /\ fr[u].items # {} =>
           fr'[u].at \in Body /\ fr[u].items \subseteq fr'[u].items
    BY <1>5, ActorSorts DEF Moves
  <2> QED
    BY <1>3, <1>13, <2>1, <2>2 DEF Passes
<1>15. \A o \in Items : SteerOK(o)'
  BY <1>1, <1>13, <1>14, SteerPasses
<1> QED
  BY <1>10, <1>11, <1>12, <1>15 DEF ItemInv

\* An actor lets go of a turn state in which nothing waits, with the active turn or without.
LEMMA LetGo ==
    ASSUME NEW a \in Actors, Moves(a), fr[a].ts \in States, turn_state[fr[a].ts].pending = {},
           fr'[a].ts = None, turn_state' = turn_state,
           active' = active \/ (Reserved(fr[a].ts) /\ active' = None)
    PROVE  \A s \in States : SameState(s)
<1> SUFFICES ASSUME NEW s \in States, s # fr[a].ts
             PROVE  Referenced(s)' <=> Referenced(s)
  BY DEF SameState
<1>1. None \notin States
  BY ConstantsAssumption
<1> QED
  BY <1>1 DEF Referenced, Reserved, Moves

\* on_task_finished reports the turn ...
LEMMA FinishEventItems ==
    ASSUME Inv, ItemInv, NEW t \in Turns, FinishEvent(t)
    PROVE  ItemInv'
<1>1. /\ fr[t].at = "finish.event" /\ fr[t].at \in Finishing
      /\ UNCHANGED <<active, turn_state, mailbox, recordVars, clientVars>>
  BY DEF FinishEvent, At, Finishing
<1>2. /\ FinishMoves(t) /\ fr'[t].at = "finish.clear"
      /\ turn'[t].input = turn[t].input /\ turn'[t].kind = turn[t].kind
  BY FinishEventMoves
<1>3. /\ t \in Actors /\ t # LOOP /\ fr[t].items = {} /\ Moves(t) /\ KeepsCall(t) /\ OnlyTurn(t)
      /\ fr'[t].items = {} /\ fr'[t].ts = fr[t].ts
  BY <1>1, <1>2, FinishStart DEF FinishMoves
<1>4. \A u \in Turns \ {t} : turn'[u] = turn[u]
  BY <1>3 DEF OnlyTurn
<1>5. \A s \in States : SameState(s)
  BY <1>1, <1>3, SameRefs
<1>6. Quiet(t)
  BY <1>1, <1>2, <1>3, <1>4, <1>5 DEF Quiet, KeepsCall
<1>7. HeldKept
  <2>1. \A u \in Turns : fr[u].at = "finish.record" => turn'[u] = turn[u]
    BY <1>1, <1>4
  <2> QED
    BY <1>1, <1>3, <2>1, HeldStays DEF HeldKept
<1>8. EmptyOK(t)' /\ InputOK(t)'
  BY <1>1, <1>2, <1>3 DEF EmptyOK, InputOK, ItemInv
<1>9. fr[t].at \notin Body
  BY <1>1 DEF Body
<1> QED
  BY <1>1, <1>3, <1>6, <1>7, <1>8, <1>9, QuietItems

\* ... and clears the active turn if it is still its own.
LEMMA FinishClearItems ==
    ASSUME Inv, ItemInv, NEW t \in Turns, FinishClear(t)
    PROVE  ItemInv'
<1>1. /\ fr[t].at = "finish.clear" /\ fr[t].at \in Finishing
      /\ UNCHANGED <<turn_state, mailbox, turn, recordVars, clientVars>>
      /\ active' = active \/ (Reserved(fr[t].ts) /\ active' = None)
  BY DEF FinishClear, At, Finishing
<1>2. /\ FramesTyped /\ t \in Actors /\ t # LOOP /\ fr[t].items = {} /\ fr[t].input = {}
      /\ fr[t].ts \in States
  BY <1>1, FinishStart
<1>3. "pending.check" \in AllPlaces /\ "pending.check" \in Pending /\ "over" \in AllPlaces
  BY StartingPlaces DEF Pending
<1>4. /\ Moves(t) /\ fr'[t].items = {} /\ fr'[t].ts = None /\ fr'[t].input = {}
      /\ fr'[t].at \in {"pending.check", "over"}
  <2>1. CASE GotoWith(t, [Frame("pending.check") EXCEPT !.ret = "goal.read"])
    BY <1>2, <1>3, <2>1, FreshMove
  <2>2. CASE GotoWith(t, Frame("over"))
    BY <1>2, <1>3, <2>2, FreshMove
  <2> QED
    BY <2>1, <2>2 DEF FinishClear
<1>5. turn_state[fr[t].ts].pending = {}
  BY <1>1, <1>2 DEF ItemInv, EmptyOK
<1>6. \A s \in States : SameState(s)
  BY <1>1, <1>2, <1>4, <1>5, LetGo
<1>7. Quiet(t)
  BY <1>1, <1>2, <1>4, <1>6 DEF Quiet
<1>8. HeldKept
  <2>1. HasTask => active' = active
    BY <1>1 DEF HasTask, Reserved
  <2> QED
    BY <1>1, <1>2, <1>4, <2>1, HeldStays DEF HeldKept
<1>9. EmptyOK(t)'
  BY <1>2, <1>3, <1>4, StarterEmpty
<1>10. \A o \in Items : ItemOK(o)'
  BY <1>2, <1>7, QuietSame, SameKeeps DEF ItemInv
<1>11. fr[t].at \notin Body
  BY <1>1 DEF Body
<1> QED
  BY <1>1, <1>2, <1>4, <1>8, <1>9, <1>10, <1>11, CallerItems

----------------------------------------------------------------------------
(* Items and abort_all_tasks. *)

\* An abort takes the active turn away, and with it the turn state of its task.
LEMMA AbortTakeItems ==
    ASSUME Inv, ItemInv, NEW a \in Actors, AbortTake(a)
    PROVE  ItemInv'
<1>1. /\ fr[a].at = "abort.take" /\ active' = None
      /\ UNCHANGED <<turn_state, mailbox, turn, recordVars, clientVars>>
  BY DEF AbortTake, At
<1>2. /\ a = LOOP /\ fr[a].ret = "idle" /\ fr[a].items = {}
      /\ \A b \in Actors \ {LOOP} : fr[b].at \notin Starting
      /\ fr[a].input # {} => fr[a].reason # "Interrupted"
  BY <1>1, AbortStart
<1>3. /\ FramesTyped /\ ActiveTyped /\ OwnInv
      /\ fr[a] \in FrameRecords /\ LocalsOK(a)
      /\ (active # None => active.ts \in States /\ active.ts # None)
  BY CallStart DEF Inv
<1>4. fr[a].ts = None /\ fr[a].at \notin Starting /\ fr[a].at \notin Aborting /\ fr[a].at \notin Body
  BY <1>1, <1>3 DEF LocalsOK, StatePlaces, Starting, Holding, Aborting, Finishing, Body
<1>5. None \notin States /\ LOOP \notin Turns
  BY ConstantsAssumption
<1>6. ASSUME Moves(a), fr'[a].items = {}, fr'[a].input = fr[a].input, HeldKept,
             fr'[a].at \in Aborting \cup {"start.take", "pending.check", "idle"},
             \A s \in States : Referenced(s)' <=> Referenced(s)
      PROVE  ItemInv'
  <2>1. \A s \in States : SameState(s)
    BY <1>1, <1>6 DEF SameState
  <2>2. Quiet(a)
    BY <1>1, <1>2, <1>6, <2>1 DEF Quiet
  <2>3. \A o \in Items : ItemOK(o)'
    BY <2>2, QuietSame, SameKeeps DEF ItemInv
  <2>4. EmptyOK(a)'
    BY <1>6 DEF EmptyOK, Aborting, Holding
  <2> QED
    BY <1>1, <1>4, <1>6, <2>3, <2>4, CallerItems
<1>7. CASE /\ HasTask
           /\ fr' = [fr EXCEPT ![a].turn = active.task, ![a].ts = active.ts, ![a].at = "abort.cancel"]
  <2> DEFINE r == [fr[a] EXCEPT !.turn = active.task, !.ts = active.ts, !.at = "abort.cancel"]
  <2>1. active.task \in Turns /\ active.ts \in States
    BY <1>3, <1>7 DEF HasTask, ActiveTyped
  <2>2. r \in FrameRecords
    BY <1>3, <2>1 DEF FrameRecords, AllPlaces, Call
  <2>3. /\ r.at = "abort.cancel" /\ r.items = fr[a].items /\ r.ts = active.ts
        /\ r.turn = active.task /\ r.input = fr[a].input
    BY <1>3 DEF FrameRecords
  <2>4. GotoWith(a, r)
    BY <1>3, <1>7 DEF GotoWith, FramesTyped
  <2>5. Moves(a) /\ fr'[a] = r
    BY <1>3, <2>2, <2>4, FrameMove
  <2> HIDE DEF r
  <2>6. \A s \in States : Referenced(s)' <=> Referenced(s)
    BY <1>1, <1>4, <1>5, <1>7, <2>3, <2>5 DEF Referenced, Moves, HasTask
  <2>7. HeldKept
    <3> SUFFICES ASSUME NEW u \in Turns, NEW s \in States, HeldFor(s, u)
                 PROVE  HeldFor(s, u)'
      BY <1>1 DEF HeldKept
    <3>1. CASE TaskIs(u) /\ active.ts = s
      <4>1. fr'[LOOP].at \in Aborting /\ fr'[LOOP].turn = u /\ fr'[LOOP].ts = s
        BY <1>2, <2>3, <2>5, <3>1 DEF TaskIs, Aborting
      <4> QED
        BY <4>1 DEF HeldFor
    <3>2. CASE fr[u].at = "finish.record" /\ "TurnComplete" \notin turn[u].events /\ fr[u].ts = s
      <4>1. fr'[u] = fr[u] /\ turn'[u] = turn[u]
        BY <1>1, <1>2, <1>5, <2>5, ActorSorts DEF Moves
      <4> QED
        BY <3>2, <4>1 DEF HeldFor
    <3> QED
      BY <1>2, <1>4, <3>1, <3>2 DEF HeldFor
  <2>8. fr'[a].at \in Aborting
    BY <2>3, <2>5 DEF Aborting
  <2> QED
    BY <1>2, <1>6, <2>3, <2>5, <2>6, <2>7, <2>8
<1>8. CASE ~HasTask /\ ((fr[a].reason = "Interrupted" /\ Return(a)) \/ GotoWith(a, AfterAbort(a)))
  <2>1. /\ Moves(a) /\ fr'[a].items = {} /\ fr'[a].input = fr[a].input /\ fr'[a].ts = None
        /\ fr'[a].at \in {"start.take", "pending.check", "idle"}
    <3>1. CASE fr[a].reason = "Interrupted" /\ Return(a)
      <4>1. "idle" \in AllPlaces
        BY StartingPlaces
      <4> QED
        BY <1>2, <1>3, <3>1, <4>1, FreshMove DEF Return
    <3>2. CASE GotoWith(a, AfterAbort(a))
      <4>1. ops' = ops
        BY <1>1 DEF clientVars
      <4> QED
        BY <1>1, <1>2, <3>2, <4>1, AfterAbortMove
    <3> QED
      BY <1>8, <3>1, <3>2
  <2>2. \A s \in States : Referenced(s)' <=> Referenced(s)
    <3>1. ASSUME active # None
          PROVE  \E b \in Actors \ {a} : fr[b].ts = active.ts
      <4>1. PICK b \in Actors : Owns(b)
        BY <1>3, <1>8, <3>1 DEF OwnInv, ReservedIsOwned
      <4>2. fr[b].ts # None /\ Reserved(fr[b].ts)
        BY <1>2, <1>4, <4>1 DEF Owns
      <4> QED
        BY <1>4, <4>2 DEF Reserved
    <3> QED
      BY <1>1, <1>4, <1>5, <2>1, <3>1 DEF Referenced, Moves
  <2>3. HeldKept
    BY <1>1, <1>4, <1>5, <1>2, <1>8, <2>1, HeldStays DEF HeldKept
  <2> QED
    BY <1>6, <2>1, <2>2, <2>3
<1> QED
  BY <1>7, <1>8 DEF AbortTake

\* An abort clears the pending input of the turn it took away.
LEMMA AbortClearItems ==
    ASSUME Inv, ItemInv, NEW a \in Actors, AbortClear(a)
    PROVE  ItemInv'
<1>1. /\ fr[a].at = "abort.clear" /\ fr[a].at \in Aborting /\ GotoWith(a, AfterAbort(a))
      /\ UNCHANGED <<active, mailbox, turn, history, clientVars>>
  BY DEF AbortClear, At, Aborting
<1>2. a = LOOP /\ fr[a].items = {} /\ LOOP \notin Turns /\ None \notin States
  BY <1>1, AbortStart, ConstantsAssumption
<1>3. /\ FramesTyped /\ StatesTyped /\ fr[a] \in FrameRecords /\ LocalsOK(a) /\ AbortOK
  BY CallStart DEF Inv, TurnsInv
<1>4. active = None /\ active' = None /\ ops' = ops
  BY <1>1, <1>2, <1>3 DEF AbortOK, clientVars
<1>5. PICK s \in States : s = fr[a].ts
  BY <1>1, <1>3 DEF LocalsOK, StatePlaces, FrameRecords
<1>6. PICK X : X = turn_state[s].pending
  OBVIOUS
<1>7. StateIs(s, {}, turn_state[s].phase)
  BY <1>3, <1>5, PendingChange DEF AbortClear
<1>8. turn_state'[s].pending = {} /\ \A r \in States \ {s} : turn_state'[r] = turn_state[r]
  BY <1>7 DEF StateIs
<1>9. discarded' = discarded \cup (X \cap Items)
  BY <1>5, <1>6 DEF AbortClear
<1>10. /\ Moves(a) /\ fr'[a].at \in {"start.take", "pending.check"}
       /\ fr'[a].items = {} /\ fr'[a].ts = None /\ fr'[a].input = fr[a].input
  BY <1>1, <1>2, <1>4, AfterAbortMove
<1>11. \A o \in X : Waits(o, s)
  BY <1>5, <1>6 DEF Waits, Referenced
<1>12. \A r \in States \ {s} : Referenced(r)' <=> Referenced(r)
  BY <1>2, <1>4, <1>5, <1>10 DEF Referenced, Moves
<1>13. \A b \in Actors : fr'[b].items = fr[b].items /\ fr'[b].input = fr[b].input
  BY <1>2, <1>10 DEF Moves
<1>14. ASSUME NEW o \in Items
       PROVE  ItemOK(o)'
  <2>1. PICK k \in Sorts, x \in States \cup Actors : HomeOK(k, x) /\ IsAt(o, k, x)
    BY DEF ItemInv, ItemOK
  <2>2. CASE o \notin X
    <3>1. \A r \in States : Waits(o, r)' <=> Waits(o, r)
      BY <1>6, <1>8, <1>12, <2>2 DEF Waits
    <3>2. Same(o)
      BY <1>1, <1>9, <1>13, <2>2, <3>1 DEF Same, clientVars
    <3> QED
      BY <3>2, SameKeeps DEF ItemInv
  <2>3. CASE o \in X
    <3>1. k = "pending" /\ x = s
      BY <1>11, <2>1, <2>3 DEF IsAt
    <3>2. \A r \in States : ~Waits(o, r)'
      BY <1>8, <1>12, <2>1, <3>1 DEF IsAt, Waits
    <3>3. IsAt(o, "discarded", LOOP)'
      BY <1>1, <1>9, <1>13, <2>1, <2>3, <3>1, <3>2 DEF IsAt, clientVars
    <3>4. "discarded" \in Sorts /\ LOOP \in States \cup Actors /\ HomeOK("discarded", LOOP)
      BY ActorSorts DEF Sorts, HomeOK
    <3> QED
      BY <3>3, <3>4, MovedTo
  <2> QED
    BY <2>2, <2>3
<1>15. \A b \in Actors : EmptyOK(b)'
  <2>1. EmptyOK(a)'
    BY <1>10, StarterEmpty DEF Starting, Pending
  <2>2. \A r \in States : turn_state'[r].pending \subseteq turn_state[r].pending
    BY <1>8
  <2> QED
    BY <1>10, <2>1, <2>2, EmptyKept
<1>16. \A u \in Turns : InputOK(u)'
  BY <1>1, <1>2, <1>10, InputKept
<1>17. Passes(X)
  <2>1. ASSUME NEW u \in Turns, NEW r \in States, HeldFor(r, u), r # s
        PROVE  HeldFor(r, u)' /\ turn_state[r].pending \subseteq turn_state'[r].pending
    <3>1. fr[u].at = "finish.record" /\ "TurnComplete" \notin turn[u].events /\ fr[u].ts = r
      BY <1>2, <1>4, <1>5, <2>1 DEF HeldFor, TaskIs
    <3>2. fr'[u] = fr[u] /\ turn'[u] = turn[u]
      BY <1>1, <1>2, <1>10, ActorSorts DEF Moves
    <3> QED
      BY <1>8, <2>1, <3>1, <3>2 DEF HeldFor
  <2>2. \A u \in Turns : fr'[u] = fr[u]
    BY <1>2, <1>10, ActorSorts DEF Moves
  <2> QED
    BY <1>6, <1>9, <2>1, <2>2 DEF Passes
<1>18. \A o \in Items : SteerOK(o)'
  BY <1>1, <1>9, <1>17, SteerPasses
<1> QED
  BY <1>14, <1>15, <1>16, <1>18 DEF ItemInv

\* An abort stops the runner of the turn: what it has in its hands is dropped.
LEMMA AbortStops ==
    ASSUME Inv, ItemInv, NEW t \in Turns, AbortMoves(t), fr'[t] = Frame("over"), fr[t].at # "over",
           discarded' = discarded \cup (Items \cap (fr[t].items \cup turn[t].input)),
           turn'[t].input = {}, UNCHANGED <<history, clientVars>>
    PROVE  ItemInv'
<1>1. PICK X : X = fr[t].items \cup turn[t].input
  OBVIOUS
<1>2. /\ t \in Actors /\ t # LOOP /\ LOOP \in Actors
  BY ActorSorts
<1>3. /\ fr[LOOP].at \in Aborting /\ fr'[LOOP].at \in Aborting /\ fr[LOOP].turn = t
      /\ fr'[LOOP].turn = fr[LOOP].turn /\ fr'[LOOP].items = fr[LOOP].items
      /\ fr'[LOOP].ts = fr[LOOP].ts /\ fr'[LOOP].input = fr[LOOP].input
      /\ \A b \in Actors \ {LOOP, t} : fr'[b] = fr[b]
      /\ \A u \in Turns \ {t} : turn'[u] = turn[u]
      /\ UNCHANGED <<active, turn_state, mailbox>>
  BY DEF AbortMoves, KeepsCall, OnlyTurn, Aborting
<1>4. fr[t].at \in Body /\ LocalsOK(t) /\ active = None
  BY <1>2, <1>3, CallStart DEF Inv, TurnsInv, AbortOK
<1>5. fr[t].ts = None /\ fr[t].input = {} /\ fr[t].at # "finish.record"
  BY <1>4 DEF LocalsOK, StatePlaces, InputPlaces, Body, Holding, Aborting, Finishing, Starting
<1>6. fr'[t].at = "over" /\ fr'[t].items = {} /\ fr'[t].ts = None /\ fr'[t].input = {}
  BY DEF Frame
<1>7. /\ \A b \in Actors : fr'[b].ts = fr[b].ts /\ fr'[b].input = fr[b].input
      /\ \A b \in Actors \ {t} : fr'[b].items = fr[b].items
  BY <1>3, <1>5, <1>6
<1>8. \A s \in States : Referenced(s)' <=> Referenced(s)
  BY <1>3, <1>7 DEF Referenced
<1>9. ASSUME NEW o \in Items
      PROVE  ItemOK(o)'
  <2>1. PICK k \in Sorts, x \in States \cup Actors : HomeOK(k, x) /\ IsAt(o, k, x)
    BY DEF ItemInv, ItemOK
  <2>2. \A s \in States : Waits(o, s)' <=> Waits(o, s)
    BY <1>3, <1>8 DEF Waits
  <2>3. CASE o \notin X
    <3>1. Same(o)
      BY <1>1, <1>3, <1>6, <1>7, <2>2, <2>3 DEF Same, clientVars
    <3> QED
      BY <3>1, SameKeeps DEF ItemInv
  <2>4. CASE o \in X
    <3>1. k \in {"taken", "input"} /\ x = t
      BY <1>1, <1>2, <2>1, <2>4 DEF IsAt
    <3>2. /\ \A u \in Turns : o \notin turn'[u].input
          /\ \A b \in Actors : o \notin fr'[b].items /\ o \notin fr'[b].input
      BY <1>3, <1>6, <1>7, <2>1, <3>1 DEF IsAt
    <3>3. IsAt(o, "discarded", LOOP)'
      BY <1>1, <1>3, <2>1, <2>2, <2>4, <3>1, <3>2 DEF IsAt, clientVars
    <3>4. "discarded" \in Sorts /\ LOOP \in States \cup Actors /\ HomeOK("discarded", LOOP)
      BY <1>2 DEF Sorts, HomeOK
    <3> QED
      BY <3>3, <3>4, MovedTo
  <2> QED
    BY <2>3, <2>4
<1>10. \A b \in Actors : EmptyOK(b)'
  <2>1. EmptyOK(t)' /\ EmptyOK(LOOP)'
    BY <1>3, <1>6 DEF EmptyOK, Holding, Aborting
  <2>2. \A b \in Actors \ {LOOP, t} : EmptyOK(b)'
    BY <1>3 DEF EmptyOK, ItemInv
  <2> QED
    BY <2>1, <2>2
<1>11. \A u \in Turns : InputOK(u)'
  <2>1. InputOK(t)'
    BY DEF InputOK
  <2>2. \A u \in Turns \ {t} : InputOK(u)'
    BY <1>3, ActorSorts DEF InputOK, ItemInv
  <2> QED
    BY <2>1, <2>2
<1>12. Passes(X)
  <2>1. ASSUME NEW u \in Turns, NEW s \in States, HeldFor(s, u)
        PROVE  HeldFor(s, u)'
    <3>1. CASE fr[LOOP].turn = u /\ fr[LOOP].ts = s
      BY <1>3, <3>1 DEF HeldFor
    <3>2. CASE fr[u].at = "finish.record" /\ "TurnComplete" \notin turn[u].events /\ fr[u].ts = s
      <4>1. fr'[u] = fr[u] /\ turn'[u] = turn[u]
        BY <1>3, <1>5, <3>2, ActorSorts
      <4> QED
        BY <3>2, <4>1 DEF HeldFor
    <3> QED
      BY <1>4, <2>1, <3>1, <3>2 DEF HeldFor, TaskIs
  <2>2. \A u \in Turns : u # t => fr'[u] = fr[u]
    BY <1>3, ActorSorts
  <2> QED
    BY <1>1, <1>3, <2>1, <2>2 DEF Passes
<1>13. \A o \in Items : SteerOK(o)'
  BY <1>12, SteerPasses
<1> QED
  BY <1>9, <1>10, <1>11, <1>13 DEF ItemInv

\* An abort cancels the turn, waits for its runner and reports it.
LEMMA AbortStepItems ==
    ASSUME Inv, ItemInv, NEW a \in Actors, AbortCancel(a) \/ AbortWait(a) \/ AbortEvent(a)
    PROVE  ItemInv'
<1>1. PICK t \in Turns : AbortMoves(t)
  BY AbortSteps
<1>2. /\ a = LOOP /\ LOOP \notin Turns /\ fr[LOOP].turn = t
      /\ TurnsTyped /\ turn[t] \in TurnRecords /\ AbortOK
      /\ UNCHANGED <<active, turn_state, mailbox, history, clientVars>>
  BY <1>1, AbortSteps, CallStart, ActorSorts
     DEF AbortMoves, TurnsTyped, Inv, TurnsInv, AbortCancel, AbortWait, AbortEvent, recordVars
<1>3. CASE /\ fr[t].at # "over" /\ fr'[t] = Frame("over")
           /\ discarded' = discarded \cup (Items \cap (fr[t].items \cup turn[t].input))
           /\ turn' = [turn EXCEPT ![t].input = {}]
  <2>1. turn'[t].input = {}
    BY <1>2, <1>3 DEF TurnsTyped, TurnRecords
  <2> QED
    BY <1>1, <1>2, <1>3, <2>1, AbortStops
<1>4. CASE /\ fr'[t] = fr[t] /\ discarded' = discarded
           /\ turn'[t].input = turn[t].input /\ turn'[t].kind = turn[t].kind
  <2>1. /\ Moves(a) /\ fr[LOOP].at \in Aborting /\ fr'[LOOP].at \in Aborting /\ KeepsCall(a)
        /\ fr'[a].items = fr[a].items /\ fr'[a].ts = fr[a].ts
        /\ \A u \in Turns \ {t} : turn'[u] = turn[u]
    BY <1>1, <1>2, <1>4 DEF AbortMoves, Moves, OnlyTurn, Aborting
  <2>2. \A s \in States : SameState(s)
    BY <1>2, <2>1, SameRefs
  <2>3. Quiet(a)
    BY <1>2, <1>4, <2>1, <2>2 DEF Quiet, KeepsCall, recordVars
  <2>4. HeldKept
    <3>1. fr[t].at # "finish.record"
      BY <1>2, <2>1 DEF AbortOK, Body
    <3> QED
      BY <1>2, <2>1, <3>1, HeldStays DEF HeldKept, KeepsCall
  <2>5. EmptyOK(a)'
    BY <1>2, <2>1 DEF EmptyOK, Holding, Aborting
  <2> QED
    BY <1>2, <2>3, <2>4, <2>5, QuietItems
<1>5. CASE AbortCancel(a)
  <2>1. fr'[t] = fr[t] /\ turn' = [turn EXCEPT ![t].cancelled = TRUE] /\ discarded' = discarded
    BY <1>1, <1>2, <1>5 DEF AbortMoves, AbortCancel, At, recordVars
  <2>2. turn'[t].input = turn[t].input /\ turn'[t].kind = turn[t].kind
    BY <1>2, <2>1 DEF TurnsTyped, TurnRecords
  <2> QED
    BY <1>4, <2>1, <2>2
<1>6. CASE AbortEvent(a)
  <2>1. /\ fr'[t] = fr[t] /\ turn' = [turn EXCEPT ![t].events = @ \cup {"TurnAborted"}]
        /\ discarded' = discarded
    BY <1>1, <1>2, <1>6 DEF AbortMoves, AbortEvent, At, recordVars
  <2>2. turn'[t].input = turn[t].input /\ turn'[t].kind = turn[t].kind
    BY <1>2, <2>1 DEF TurnsTyped, TurnRecords
  <2> QED
    BY <1>4, <2>1, <2>2
<1>7. CASE AbortWait(a)
  <2>1. CASE fr[t].at = "over"
    <3>1. Goto(a, "abort.event") /\ UNCHANGED <<discarded, turn>>
      BY <1>2, <1>7, <2>1 DEF AbortWait, At
    <3>2. Moves(a)
      <4>1. FramesTyped /\ "abort.event" \in AllPlaces
        BY CallStart DEF AllPlaces, Call
      <4> QED
        BY <3>1, <4>1, GotoMove
    <3>3. fr'[t] = fr[t]
      BY <1>2, <3>2, ActorSorts DEF Moves
    <3> QED
      BY <1>4, <3>1, <3>3
  <2>2. CASE fr[t].at # "over"
    <3>1. /\ discarded' = discarded \cup (Items \cap (fr[t].items \cup turn[t].input))
          /\ turn' = [turn EXCEPT ![t].input = {}]
      BY <1>2, <1>7, <2>2 DEF AbortWait, At
    <3>2. fr'[t] = Frame("over")
      BY <1>1, <1>2, <1>7, <2>2 DEF AbortMoves, AbortWait, At
    <3> QED
      BY <1>3, <2>2, <3>1, <3>2
  <2> QED
    BY <2>1, <2>2
<1> QED
  BY <1>5, <1>6, <1>7

----------------------------------------------------------------------------
(* Items and what clients send. *)

\* An item of another operation stays where it is.
LEMMA OtherSame ==
    ASSUME NEW a \in Actors, Moves(a), NEW o, o \in ops' <=> o \in ops, o \in mailbox' <=> o \in mailbox,
           UNCHANGED <<recordVars, turn>>, reply'[o] = reply[o],
           o \in fr'[a].items <=> o \in fr[a].items, o \in fr'[a].input <=> o \in fr[a].input,
           \A s \in States : Waits(o, s)' <=> Waits(o, s)
    PROVE  Same(o)
<1>1. \A b \in Actors : (o \in fr'[b].items <=> o \in fr[b].items) /\ (o \in fr'[b].input <=> o \in fr[b].input)
  BY DEF Moves
<1> QED
  BY <1>1 DEF Same, recordVars

\* It stays accounted for.
LEMMA OtherSteer ==
    ASSUME NEW o \in Items, SteerOK(o), HeldKept, HandsKept, reply'[o] = reply[o], o \in ops' => o \in ops,
           history \subseteq history', discarded \subseteq discarded'
    PROVE  SteerOK(o)'
<1>1. ASSUME reply[o] \in Turns
      PROVE  Accounted(o, reply[o])'
  <2>1. Accounted(o, reply[o])
    BY <1>1 DEF SteerOK
  <2>2. CASE o \in history \cup discarded
    BY <2>2 DEF Accounted
  <2>3. CASE fr[reply[o]].at \in Body /\ o \in fr[reply[o]].items
    BY <1>1, <2>3 DEF Accounted, HandsKept
  <2>4. CASE \E s \in States : HeldFor(s, reply[o]) /\ o \in turn_state[s].pending
    BY <1>1, <2>4 DEF Accounted, HeldKept
  <2> QED
    BY <2>1, <2>2, <2>3, <2>4 DEF Accounted
<1> QED
  BY <1>1 DEF SteerOK

\* An item that was not sent is nowhere.
LEMMA Unsent ==
    ASSUME Inv, ItemInv, NEW o \in Items, o \in ops
    PROVE  IsAt(o, "unsent", LOOP) /\ reply[o] = None
<1>1. PICK k \in Sorts, x \in States \cup Actors : HomeOK(k, x) /\ IsAt(o, k, x)
  BY DEF ItemInv, ItemOK
<1>2. k = "unsent"
  BY <1>1 DEF IsAt
<1> QED
  BY <1>1, <1>2 DEF IsAt, ItemInv, SteerOK

\* Operation o is sent, and actor a, which was idle, may go on with it.
SendsItem(o, a) ==
    /\ o \in ops /\ ops' = ops \ {o} /\ Moves(a) /\ a \notin Turns
    /\ fr'[a] = fr[a] \/ fr[a].at = "idle"
    /\ fr'[a].ts = fr[a].ts
    /\ UNCHANGED <<active, recordVars, turn>>
    /\ mailbox' \ {o} = mailbox \ {o}
    /\ \A p \in Items \ {o} : reply'[p] = reply[p]
    /\ fr'[a].items \ {o} = fr[a].items \ {o} /\ fr'[a].input \ {o} = fr[a].input \ {o}
    /\ \A s \in States : /\ turn_state'[s].pending \ {o} = turn_state[s].pending \ {o}
                         /\ turn_state[s].pending \subseteq turn_state'[s].pending

\* What such a step keeps, if it has a place for the item that is sent.
LEMMA SendItems ==
    ASSUME Inv, ItemInv, NEW o \in Ops, NEW a \in Actors, SendsItem(o, a), EmptyOK(a)',
           \A s \in States : \/ turn_state'[s].pending \subseteq turn_state[s].pending
                             \/ \A b \in Actors \ {a} : fr[b].ts # s,
           o \in Items => ItemOK(o)' /\ SteerOK(o)'
    PROVE  ItemInv'
<1>1. Moves(a) /\ a \notin Turns /\ UNCHANGED <<active, turn, recordVars>>
  BY DEF SendsItem
<1>2. \A b \in Actors : EmptyOK(b)'
  BY <1>1, EmptyKept
<1>3. \A t \in Turns : InputOK(t)'
  BY <1>1, InputKept
<1>4. HeldKept
  <2>1. /\ \A s \in States : turn_state[s].pending \subseteq turn_state'[s].pending
        /\ a = LOOP /\ fr[a].at \in Aborting => fr'[a] = fr[a]
    BY DEF SendsItem, Aborting
  <2> QED
    BY <1>1, <2>1, HeldStays DEF HeldKept
<1>5. HandsKept
  BY <1>1, ActorSorts DEF Moves, HandsKept
<1>6. ASSUME NEW p \in Items \ {o}
      PROVE  ItemOK(p)' /\ SteerOK(p)'
  <2>1. /\ p \in ops' <=> p \in ops
        /\ p \in mailbox' <=> p \in mailbox
        /\ reply'[p] = reply[p] /\ (p \in fr'[a].items <=> p \in fr[a].items)
        /\ p \in fr'[a].input <=> p \in fr[a].input
        /\ \A s \in States : p \in turn_state'[s].pending <=> p \in turn_state[s].pending
    BY DEF SendsItem
  <2>2. \A s \in States : Referenced(s)' <=> Referenced(s)
    <3>1. \A b \in Actors : fr'[b].ts = fr[b].ts
      BY DEF SendsItem, Moves
    <3> QED
      BY <1>1, <3>1 DEF Referenced
  <2>3. \A s \in States : Waits(p, s)' <=> Waits(p, s)
    BY <2>1, <2>2 DEF Waits
  <2>4. Same(p)
    BY <1>1, <2>1, <2>3, OtherSame
  <2>5. ItemOK(p)'
    BY <2>4, SameKeeps DEF ItemInv
  <2>6. SteerOK(p)'
    BY <1>1, <1>4, <1>5, <2>1, OtherSteer DEF ItemInv, recordVars
  <2> QED
    BY <2>5, <2>6
<1> QED
  BY <1>2, <1>3, <1>6 DEF ItemInv

\* The loop is never at a place that EmptyOK speaks of.
LEMMA LoopEmpty ==
    ASSUME fr'[LOOP].at \in LoopPlaces
    PROVE  EmptyOK(LOOP)'
BY DEF EmptyOK, LoopPlaces, Starting, Pending, Aborting, Holding

\* Input that is not taken goes back to its sender.
LEMMA RejectSent ==
    ASSUME Inv, ItemInv, NEW o \in Items, o \in ops, ops' = ops \ {o}, Reject(o), fr' = fr,
           UNCHANGED <<active, turn_state, mailbox, recordVars, turn>>
    PROVE  ItemInv'
<1>1. o \in Ops /\ LOOP \in Actors /\ LOOP \notin Turns /\ RestTyped /\ PlaceOK(LOOP)
  BY CallStart, ActorSorts DEF Items
<1>2. reply'[o] = Rejected /\ \A p \in Items \ {o} : reply'[p] = reply[p]
  BY <1>1 DEF Reject, RestTyped, Items
<1>3. SendsItem(o, LOOP)
  BY <1>1, <1>2 DEF SendsItem, Moves
<1>4. EmptyOK(LOOP)'
  BY <1>1, LoopEmpty DEF PlaceOK
<1>5. IsAt(o, "unsent", LOOP)
  BY Unsent
<1>6. IsAt(o, "sender", LOOP)'
  <2>1. \A s \in States : ~Waits(o, s)'
    BY <1>5 DEF IsAt, Waits, Referenced
  <2> QED
    BY <1>2, <1>5, <2>1 DEF IsAt, recordVars
<1>7. "sender" \in Sorts /\ LOOP \in States \cup Actors /\ HomeOK("sender", LOOP)
  BY <1>1 DEF Sorts, HomeOK
<1>8. ItemOK(o)'
  BY <1>6, <1>7, MovedTo
<1>9. SteerOK(o)'
  BY <1>2, ConstantsAssumption DEF SteerOK
<1> QED
  BY <1>1, <1>3, <1>4, <1>8, <1>9, SendItems

\* Input that is steered into the running turn waits in its turn state.
LEMMA SteerSent ==
    ASSUME Inv, ItemInv, NEW o \in Items, o \in ops, ops' = ops \ {o}, Steerable, SteerInto(o), fr' = fr,
           UNCHANGED <<active, mailbox, recordVars, turn>>
    PROVE  ItemInv'
<1>1. /\ o \in Ops /\ LOOP \in Actors /\ LOOP \notin Turns /\ RestTyped /\ PlaceOK(LOOP)
      /\ StatesTyped /\ ActiveTyped
  BY CallStart, ActorSorts DEF Items
<1>2. PICK s \in States, t \in Turns : active.ts = s /\ active.task = t
  BY <1>1 DEF Steerable, HasTask, ActiveTyped
<1>3. reply'[o] = t /\ \A p \in Items \ {o} : reply'[p] = reply[p]
  BY <1>1, <1>2 DEF SteerInto, RestTyped, Items
<1>4. turn_state'[s].pending = turn_state[s].pending \cup {o} /\ \A r \in States \ {s} : turn_state'[r] = turn_state[r]
  BY <1>1, <1>2 DEF SteerInto, StatesTyped
<1>5. SendsItem(o, LOOP)
  BY <1>1, <1>3, <1>4 DEF SendsItem, Moves
<1>6. EmptyOK(LOOP)'
  BY <1>1, LoopEmpty DEF PlaceOK
<1>7. IsAt(o, "unsent", LOOP)
  BY Unsent
<1>8. TaskIs(t)' /\ active'.ts = s
  BY <1>2 DEF Steerable, HasTask, TaskIs
<1>9. IsAt(o, "pending", s)'
  <2>1. \A r \in States : Waits(o, r)' <=> r = s
    <3>1. Referenced(s)'
      BY <1>8 DEF Referenced, TaskIs
    <3>2. \A r \in States : Referenced(r)' <=> Referenced(r)
      BY DEF Referenced
    <3> QED
      BY <1>4, <1>7, <3>1, <3>2 DEF IsAt, Waits
  <2>2. reply'[o] # Rejected
    BY <1>3, ConstantsAssumption
  <2> QED
    BY <1>7, <2>1, <2>2 DEF IsAt, recordVars
<1>10. "pending" \in Sorts /\ s \in States \cup Actors /\ HomeOK("pending", s)
  BY DEF Sorts, HomeOK
<1>11. ItemOK(o)'
  BY <1>9, <1>10, MovedTo
<1>12. SteerOK(o)'
  <2>1. Accounted(o, t)'
    BY <1>4, <1>8 DEF Accounted, HeldFor
  <2> QED
    BY <1>3, <2>1 DEF SteerOK
<1>13. \A b \in Actors : fr[b].ts # s
  BY <1>2 DEF Inv, OwnInv, StatesApart, Steerable
<1> QED
  BY <1>1, <1>4, <1>5, <1>6, <1>11, <1>12, <1>13, SendItems

\* The item of an operation, if it has one, goes into the mailbox or with the actor that wakes up.
LEMMA WakeSent ==
    ASSUME Inv, ItemInv, NEW o \in Ops, o \in ops, ops' = ops \ {o},
           NEW a \in Actors, a \notin Turns, fr[a].at = "idle", Moves(a), fr'[a].ts = None, EmptyOK(a)',
           NEW k \in {"mailbox", "taken", "carried", "none"}, k = "none" => o \notin Items,
           mailbox' = (IF k = "mailbox" THEN mailbox \cup {o} ELSE mailbox),
           fr'[a].items = (IF k = "taken" THEN {o} ELSE {}),
           fr'[a].input = (IF k = "carried" THEN {o} ELSE {}),
           UNCHANGED <<active, turn_state, recordVars, reply, turn>>
    PROVE  ItemInv'
<1>1. LocalsOK(a)
  BY CallStart
<1>2. fr[a].items = {} /\ fr[a].ts = None /\ fr[a].input = {}
  BY <1>1 DEF LocalsOK, ItemPlaces, StatePlaces, InputPlaces, Holding, Aborting, Finishing, Starting
<1>3. SendsItem(o, a)
  BY <1>2 DEF SendsItem
<1>4. ASSUME o \in Items
      PROVE  ItemOK(o)' /\ SteerOK(o)'
  <2>1. IsAt(o, "unsent", LOOP) /\ reply[o] = None
    BY <1>4, Unsent
  <2>2. \A s \in States : ~Waits(o, s)'
    <3>1. \A b \in Actors : fr'[b].ts = fr[b].ts
      BY <1>2 DEF Moves
    <3> QED
      BY <2>1, <3>1 DEF IsAt, Waits, Referenced
  <2>3. \A b \in Actors : /\ o \in fr'[b].items <=> k = "taken" /\ b = a
                          /\ o \in fr'[b].input <=> k = "carried" /\ b = a
    BY <2>1 DEF IsAt, Moves
  <2>4. o \notin ops' /\ (o \in mailbox' <=> k = "mailbox") /\ k # "none"
    BY <1>4, <2>1 DEF IsAt
  <2>5. IsAt(o, k, a)'
    BY <2>1, <2>2, <2>3, <2>4 DEF IsAt, recordVars
  <2>6. k \in Sorts /\ a \in States \cup Actors /\ HomeOK(k, a)
    BY <2>4 DEF Sorts, HomeOK
  <2>7. None \notin Turns
    BY ActorSorts
  <2> QED
    BY <2>1, <2>4, <2>5, <2>6, <2>7, MovedTo DEF SteerOK
<1> QED
  BY <1>3, <1>4, SendItems

\* User input steers the running turn, is rejected, or starts a turn.
LEMMA UserInputItems ==
    ASSUME Inv, ItemInv, OneStarter, NEW o \in Ops, UserInput(o)
    PROVE  ItemInv'
<1>1. /\ Sends(o, "user") /\ fr[LOOP].at = "idle"
      /\ UNCHANGED <<active, mailbox, recordVars, turn>>
  BY DEF UserInput, Receives, At
<1>2. o \in ops /\ ops' = ops \ {o} /\ OpKind[o] = "user" /\ o \in Items
  BY <1>1, SendEffect DEF Items
<1>3. CASE Steerable /\ SteerInto(o) /\ UNCHANGED fr
  BY <1>1, <1>2, <1>3, SteerSent
<1>4. CASE Reject(o) /\ UNCHANGED <<turn_state, fr>>
  BY <1>1, <1>2, <1>4, RejectSent
<1>5. CASE /\ GotoWith(LOOP, [Frame("abort.take") EXCEPT
                !.reason = "Replaced", !.input = {o}, !.ret = "idle"])
           /\ UNCHANGED <<turn_state, reply>>
  <2> DEFINE r == [Frame("abort.take") EXCEPT !.reason = "Replaced", !.input = {o}, !.ret = "idle"]
  <2>1. {o} \in SUBSET Items
    BY <1>2
  <2>2. Frame("abort.take") \in FrameRecords
    BY WakePlaces DEF Frame, FrameRecords
  <2>3. r \in FrameRecords
    BY <2>1, <2>2 DEF FrameRecords
  <2>4. r.at = "abort.take" /\ r.items = {} /\ r.ts = None /\ r.input = {o}
    BY DEF Frame
  <2>5. GotoWith(LOOP, r)
    BY <1>5
  <2> HIDE DEF r
  <2>6. LOOP \in Actors /\ LOOP \notin Turns /\ FramesTyped
    BY CallStart, ActorSorts
  <2>7. Moves(LOOP) /\ fr'[LOOP] = r
    BY <2>3, <2>5, <2>6, FrameMove
  <2>8. EmptyOK(LOOP)'
    BY <2>4, <2>7, LoopEmpty DEF LoopPlaces
  <2>9. "carried" \in {"mailbox", "taken", "carried", "none"}
    OBVIOUS
  <2> QED
    BY <1>1, <1>2, <1>5, <2>4, <2>6, <2>7, <2>8, <2>9, WakeSent
<1> QED
  BY <1>3, <1>4, <1>5 DEF UserInput

\* A review, a compaction or an interrupt carries no item.
LEMMA ReplaceItems ==
    ASSUME Inv, ItemInv, OneStarter, NEW o \in Ops, SpawnOther(o) \/ Interrupt(o)
    PROVE  ItemInv'
<1>1. PICK k \in {"spawn", "interrupt"} : Receives(o, k)
  BY DEF SpawnOther, Interrupt
<1>2. /\ Sends(o, k) /\ fr[LOOP].at = "idle"
      /\ UNCHANGED <<active, turn_state, mailbox, recordVars, reply, turn>>
  BY <1>1 DEF SpawnOther, Interrupt, Receives, At
<1>3. o \in ops /\ ops' = ops \ {o} /\ OpKind[o] = k /\ o \notin Items
  BY <1>2, SendEffect DEF Items
<1>4. LOOP \in Actors /\ LOOP \notin Turns /\ FramesTyped
  BY CallStart, ActorSorts
<1>5. Frame("abort.take") \in FrameRecords
  BY WakePlaces DEF Frame, FrameRecords
<1>6. PICK r \in FrameRecords :
         GotoWith(LOOP, r) /\ r.at = "abort.take" /\ r.items = {} /\ r.ts = None /\ r.input = {}
  <2>1. CASE SpawnOther(o)
    <3>0. PICK kind \in {"Other", "Shell"} : GotoWith(LOOP, [Frame("abort.take") EXCEPT
               !.reason = "Replaced", !.kind = kind, !.ret = "idle"])
       BY <2>1 DEF SpawnOther
    <3> DEFINE r == [Frame("abort.take") EXCEPT !.reason = "Replaced", !.kind = kind, !.ret = "idle"]
    <3>1. r \in FrameRecords
      BY <1>5 DEF FrameRecords
    <3>2. r.at = "abort.take" /\ r.items = {} /\ r.ts = None /\ r.input = {}
      BY DEF Frame
    <3>3. GotoWith(LOOP, r)
      BY <3>0
    <3> HIDE DEF r
    <3> QED
      BY <3>1, <3>2, <3>3
  <2>2. CASE Interrupt(o)
    <3> DEFINE r == [Frame("abort.take") EXCEPT !.reason = "Interrupted", !.ret = "idle"]
    <3>1. r \in FrameRecords
      BY <1>5 DEF FrameRecords
    <3>2. r.at = "abort.take" /\ r.items = {} /\ r.ts = None /\ r.input = {}
      BY DEF Frame
    <3>3. GotoWith(LOOP, r)
      BY <2>2 DEF Interrupt
    <3> HIDE DEF r
    <3> QED
      BY <3>1, <3>2, <3>3
  <2> QED
    BY <2>1, <2>2
<1>7. Moves(LOOP) /\ fr'[LOOP] = r
  BY <1>4, <1>6, FrameMove
<1>8. EmptyOK(LOOP)'
  BY <1>6, <1>7, LoopEmpty DEF LoopPlaces
<1>9. "none" \in {"mailbox", "taken", "carried", "none"}
  OBVIOUS
<1> QED
  BY <1>2, <1>3, <1>4, <1>6, <1>7, <1>8, <1>9, WakeSent

\* Mail goes into the mailbox.
LEMMA MailItems ==
    ASSUME Inv, ItemInv, OneStarter, NEW o \in Ops, QueueMail(o) \/ TriggerTurnMail(o)
    PROVE  ItemInv'
<1>1. PICK k \in {"mail", "trigger"} : Receives(o, k)
  BY DEF QueueMail, TriggerTurnMail
<1>2. /\ Sends(o, k) /\ fr[LOOP].at = "idle" /\ mailbox' = mailbox \cup {o}
      /\ UNCHANGED <<active, turn_state, recordVars, reply, turn>>
  BY <1>1 DEF QueueMail, TriggerTurnMail, Receives, At
<1>3. o \in ops /\ ops' = ops \ {o}
  BY <1>2, SendEffect
<1>4. LOOP \in Actors /\ LOOP \notin Turns /\ FramesTyped /\ LocalsOK(LOOP)
  BY CallStart, ActorSorts
<1>5. fr[LOOP].items = {} /\ fr[LOOP].ts = None /\ fr[LOOP].input = {}
  BY <1>2, <1>4 DEF LocalsOK, ItemPlaces, StatePlaces, InputPlaces, Holding, Aborting, Finishing, Starting
<1>6. /\ Moves(LOOP) /\ fr'[LOOP].at \in {"idle", "pending.check"}
      /\ fr'[LOOP].items = {} /\ fr'[LOOP].ts = None /\ fr'[LOOP].input = {}
  <2>1. CASE UNCHANGED fr
    BY <1>2, <1>5, <2>1 DEF Moves
  <2>2. CASE GotoWith(LOOP, [Frame("pending.check") EXCEPT !.ret = "idle"])
    BY <1>4, <2>2, WakePlaces, FreshMove
  <2> QED
    BY <2>1, <2>2 DEF QueueMail, TriggerTurnMail
<1>7. EmptyOK(LOOP)'
  BY <1>6, LoopEmpty DEF LoopPlaces, Pending
<1>8. "mailbox" \in {"mailbox", "taken", "carried", "none"}
  OBVIOUS
<1> QED
  BY <1>2, <1>3, <1>4, <1>6, <1>7, <1>8, WakeSent

\* A caller steers the running turn.
LEMMA SteerOpItems ==
    ASSUME Inv, ItemInv, OneStarter, NEW o \in Ops, Steer(o)
    PROVE  ItemInv'
<1>1. Sends(o, "steer") /\ UNCHANGED <<active, mailbox, recordVars, turn, fr>>
  BY DEF Steer
<1>2. o \in ops /\ ops' = ops \ {o} /\ OpKind[o] = "steer" /\ o \in Items
  BY <1>1, SendEffect DEF Items
<1> QED
  BY <1>1, <1>2, SteerSent, RejectSent DEF Steer

\* try_start_turn_if_idle is called.
LEMMA TryStartItems ==
    ASSUME Inv, ItemInv, OneStarter, NEW o \in Ops, TryStart(o)
    PROVE  ItemInv'
<1>1. Sends(o, "try_start") /\ UNCHANGED <<active, turn_state, mailbox, recordVars, turn>>
  BY DEF TryStart
<1>2. o \in ops /\ ops' = ops \ {o} /\ OpKind[o] = "try_start" /\ o \in Items
  BY <1>1, SendEffect DEF Items
<1>3. CASE Reject(o) /\ UNCHANGED fr
  BY <1>1, <1>2, <1>3, RejectSent
<1>4. CASE GotoWith(o, [Frame("try.reserve") EXCEPT !.items = {o}]) /\ UNCHANGED reply
  <2> DEFINE r == [Frame("try.reserve") EXCEPT !.items = {o}]
  <2>1. {o} \in SUBSET (Items \cup {GOAL})
    BY <1>2
  <2>2. Frame("try.reserve") \in FrameRecords
    BY WakePlaces DEF Frame, FrameRecords
  <2>3. r \in FrameRecords
    BY <2>1, <2>2 DEF FrameRecords
  <2>4. r.at = "try.reserve" /\ r.items = {o} /\ r.ts = None /\ r.input = {}
    BY DEF Frame
  <2>5. GotoWith(o, r)
    BY <1>4
  <2> HIDE DEF r
  <2>6. o \in Actors /\ o \notin Turns /\ FramesTyped /\ PlaceOK(o)
    BY CallStart, ActorSorts
  <2>7. Moves(o) /\ fr'[o] = r
    BY <2>3, <2>5, <2>6, FrameMove
  <2>8. EmptyOK(o)'
    BY <2>4, <2>7 DEF EmptyOK, Holding
  <2>9. fr[o].at = "idle"
    BY <1>2, <2>6 DEF PlaceOK
  <2>10. "taken" \in {"mailbox", "taken", "carried", "none"}
    OBVIOUS
  <2> QED
    BY <1>1, <1>2, <1>4, <2>4, <2>6, <2>7, <2>8, <2>9, <2>10, WakeSent
<1> QED
  BY <1>3, <1>4 DEF TryStart

----------------------------------------------------------------------------
(* Items and try_start_turn_if_idle. *)

\* A caller goes on with its item, and holds an empty turn state if it holds one.
LEMMA HoldingItems ==
    ASSUME Inv, ItemInv, NEW o \in Ops, fr[o].at \in {"try.reserve"} \cup Holding, Moves(o), KeepsCall(o),
           fr'[o].items = fr[o].items, EmptyOK(o)', \A s \in States : SameState(s),
           \A s \in States : turn_state'[s].pending \subseteq turn_state[s].pending,
           \A u \in Turns, s \in States : HeldFor(s, u) => turn_state'[s] = turn_state[s],
           HasTask => active' = active, UNCHANGED <<mailbox, recordVars, clientVars, turn>>
    PROVE  ItemInv'
<1>1. o \in Actors /\ o # LOOP /\ o \notin Turns
  BY ActorSorts
<1>2. Quiet(o)
  BY DEF Quiet, KeepsCall
<1>3. HeldKept
  BY <1>1, HeldStays DEF HeldKept
<1> QED
  BY <1>1, <1>2, <1>3, QuietItems

\* A caller gets its item back.
LEMMA GivesBack ==
    ASSUME Inv, ItemInv, NEW o \in Ops, fr[o].at \in {"try.reserve"} \cup Holding, Moves(o),
           fr'[o].items = {}, fr'[o].input = {}, EmptyOK(o)', Reject(o), \A s \in States : SameState(s),
           HasTask => active' = active, UNCHANGED <<turn_state, mailbox, recordVars, ops, turn>>
    PROVE  ItemInv'
<1>1. /\ o \in Actors /\ o # LOOP /\ o \notin Turns /\ o \in Items /\ o \notin ops
      /\ fr[o].items = {o} /\ fr[o].input = {} /\ RestTyped
  BY TryStarted
<1>2. reply'[o] = Rejected /\ \A p \in Items \ {o} : reply'[p] = reply[p]
  BY <1>1 DEF Reject, RestTyped, Items
<1>3. \A b \in Actors : EmptyOK(b)'
  BY <1>1, EmptyKept
<1>4. \A t \in Turns : InputOK(t)'
  BY <1>1, InputKept
<1>5. HeldKept
  BY <1>1, HeldStays DEF HeldKept
<1>6. HandsKept
  BY <1>1, ActorSorts DEF Moves, HandsKept
<1>7. \A p \in Items, s \in States : Waits(p, s)' <=> Waits(p, s)
  BY DEF SameState, Waits
<1>8. ASSUME NEW p \in Items \ {o}
      PROVE  ItemOK(p)' /\ SteerOK(p)'
  <2>1. Same(p)
    BY <1>1, <1>2, <1>7, OtherSame
  <2>2. SteerOK(p)'
    BY <1>2, <1>5, <1>6, OtherSteer DEF ItemInv, recordVars
  <2> QED
    BY <2>1, <2>2, SameKeeps DEF ItemInv
<1>9. ItemOK(o)' /\ SteerOK(o)'
  <2>1. PICK k \in Sorts, x \in States \cup Actors : HomeOK(k, x) /\ IsAt(o, k, x)
    BY <1>1 DEF ItemInv, ItemOK
  <2>2. k = "taken" /\ x = o
    BY <1>1, <2>1 DEF IsAt
  <2>3. \A b \in Actors : o \notin fr'[b].items /\ o \notin fr'[b].input
    BY <2>1, <2>2 DEF IsAt, Moves
  <2>4. IsAt(o, "sender", LOOP)'
    BY <1>1, <1>2, <1>7, <2>1, <2>2, <2>3 DEF IsAt, recordVars
  <2>5. "sender" \in Sorts /\ LOOP \in States \cup Actors /\ HomeOK("sender", LOOP)
    BY ActorSorts DEF Sorts, HomeOK
  <2>6. ItemOK(o)'
    BY <2>4, <2>5, MovedTo
  <2> QED
    BY <1>1, <1>2, <2>6, ConstantsAssumption DEF SteerOK
<1> QED
  BY <1>3, <1>4, <1>8, <1>9 DEF ItemInv

\* try_start_turn_if_idle finds the session busy, or reserves it.
LEMMA TryReserveItems ==
    ASSUME Inv, ItemInv, NEW o \in Ops, TryReserve(o)
    PROVE  ItemInv'
<1>1. fr[o].at = "try.reserve" /\ UNCHANGED <<mailbox, recordVars, ops, turn>>
  BY DEF TryReserve, At
<1>2. FramesTyped /\ StatesTyped /\ o \in Actors /\ fr[o].ts = None
  BY <1>1, TryStarted
<1>3. CASE Reject(o) /\ GotoWith(o, Frame("idle")) /\ UNCHANGED <<active, turn_state>>
  <2>1. /\ Moves(o) /\ fr'[o].at = "idle" /\ fr'[o].items = {} /\ fr'[o].ts = None /\ fr'[o].input = {}
    BY <1>2, <1>3, FreshMove, StartingPlaces
  <2>2. EmptyOK(o)'
    BY <1>2, <2>1, StarterEmpty
  <2>3. \A s \in States : SameState(s)
    BY <1>2, <1>3, <2>1, SameRefs
  <2> QED
    BY <1>1, <1>3, <2>1, <2>2, <2>3, GivesBack
<1>4. CASE /\ active = None /\ UNCHANGED reply
           /\ \E s \in States : Reserve(s) /\ TakesState(o, s, "try.recheck")
  <2>1. PICK s \in States : Reserve(s) /\ TakesState(o, s, "try.recheck")
    BY <1>4
  <2>2. "try.recheck" \in AllPlaces
    BY WakePlaces DEF Holding
  <2>3. StateTaken(o, s, "try.recheck")
    BY <1>2, <2>1, <2>2, StateMove
  <2>4. /\ Moves(o) /\ KeepsCall(o) /\ fr'[o].at = "try.recheck"
        /\ fr'[o].items = fr[o].items /\ fr'[o].ts = s
    BY <2>3 DEF StateTaken
  <2>5. /\ \A r \in States : SameState(r)
        /\ \A r \in States : turn_state'[r].pending \subseteq turn_state[r].pending
        /\ \A u \in Turns : ~HeldFor(s, u)
        /\ \A r \in States \ {s} : turn_state'[r] = turn_state[r]
    BY <1>2, <1>4, <2>1, <2>4, ReserveSame
  <2>6. EmptyOK(o)'
    <3>1. StateIs(s, {}, "CurrentTurn")
      BY <1>2, <2>1, ReserveEffect
    <3> QED
      BY <2>4, <3>1 DEF StateIs, EmptyOK
  <2>7. HasTask => active' = active
    BY <1>4 DEF HasTask
  <2>8. UNCHANGED <<mailbox, recordVars, clientVars, turn>>
    BY <1>1, <1>4 DEF clientVars
  <2> QED
    BY <1>1, <2>4, <2>5, <2>6, <2>7, <2>8, HoldingItems
<1> QED
  BY <1>3, <1>4 DEF TryReserve, TakesState

\* It looks at the mailbox again and finds its reservation untouched.
LEMMA TryGoOnItems ==
    ASSUME Inv, ItemInv, NEW o \in Ops, TryRecheck(o) \/ TryConfirm(o)
    PROVE  ItemInv'
<1>1. fr[o].at \in Holding /\ UNCHANGED <<active, turn_state, mailbox, recordVars, ops, turn>>
  BY DEF TryRecheck, TryConfirm, At, Holding, clientVars
<1>2. FramesTyped /\ o \in Actors /\ fr[o].ts \in States /\ Reserved(fr[o].ts)
  BY <1>1, TryStarted
<1>3. PICK p \in Holding : Goto(o, p) /\ UNCHANGED reply
  BY <1>2 DEF TryRecheck, TryConfirm, Holding, clientVars
<1>4. p \in AllPlaces
  BY WakePlaces
<1>5. /\ Moves(o) /\ KeepsCall(o) /\ fr'[o].at = p
      /\ fr'[o].items = fr[o].items /\ fr'[o].ts = fr[o].ts
  BY <1>2, <1>3, <1>4, GotoMove
<1>6. EmptyOK(o)'
  BY <1>1, <1>2, <1>5 DEF EmptyOK, ItemInv
<1>7. \A s \in States : SameState(s)
  BY <1>1, <1>2, <1>5, SameRefs
<1>8. UNCHANGED <<mailbox, recordVars, clientVars, turn>>
  BY <1>1, <1>3 DEF clientVars
<1> QED
  BY <1>1, <1>5, <1>6, <1>7, <1>8, HoldingItems

\* It gives its reservation up to trigger mail.
LEMMA TryYieldItems ==
    ASSUME Inv, ItemInv, NEW o \in Ops, TryYield(o)
    PROVE  ItemInv'
<1>1. /\ fr[o].at \in Holding /\ UNCHANGED <<turn_state, mailbox, recordVars, ops, turn>>
      /\ Reject(o) /\ GotoWith(o, [Frame("pending.check") EXCEPT !.ret = "idle"])
  BY DEF TryYield, At, Holding
<1>2. FramesTyped /\ o \in Actors /\ Reserved(fr[o].ts) /\ fr[o].ts \in States /\ ~HasTask
  BY <1>1, TryStarted
<1>3. active' = None
  BY <1>2 DEF TryYield
<1>4. /\ Moves(o) /\ fr'[o].at = "pending.check"
      /\ fr'[o].items = {} /\ fr'[o].ts = None /\ fr'[o].input = {}
  BY <1>1, <1>2, WakePlaces, FreshMove
<1>5. turn_state[fr[o].ts].pending = {}
  BY <1>1, <1>2 DEF ItemInv, EmptyOK
<1>6. \A s \in States : SameState(s)
  BY <1>1, <1>2, <1>3, <1>4, <1>5, LetGo
<1>7. EmptyOK(o)'
  BY <1>2, <1>4, StarterEmpty DEF Pending
<1> QED
  BY <1>1, <1>2, <1>4, <1>6, <1>7, GivesBack

\* It puts its item into the reserved turn.
LEMMA TryExtendItems ==
    ASSUME Inv, ItemInv, NEW o \in Ops, TryExtend(o)
    PROVE  ItemInv'
<1>1. /\ fr[o].at \in Holding /\ Extend(fr[o].ts, {o})
      /\ GotoWith(o, [Frame("start.take") EXCEPT !.ret = "idle"])
      /\ UNCHANGED <<active, mailbox, recordVars, clientVars, turn>>
  BY DEF TryExtend, At, Holding
<1>2. /\ FramesTyped /\ StatesTyped /\ o \in Actors /\ o # LOOP /\ o \notin Turns /\ o \in Items
      /\ Reserved(fr[o].ts) /\ fr[o].ts \in States /\ fr[o].items = {o} /\ fr[o].input = {}
  BY <1>1, TryStarted
<1>3. "start.take" \in Starting /\ "start.take" \in AllPlaces
  BY StartingPlaces DEF Starting
<1>4. /\ Moves(o) /\ fr'[o].at = "start.take" /\ fr'[o].items = {} /\ fr'[o].ts = None /\ fr'[o].input = {}
  BY <1>1, <1>2, <1>3, FreshMove
<1>5. {o} \in SUBSET (Items \cup {GOAL})
  BY <1>2
<1>6. StateIs(fr[o].ts, turn_state[fr[o].ts].pending \cup fr[o].items, turn_state[fr[o].ts].phase)
  BY <1>1, <1>2, <1>5, ExtendChange
<1>7. /\ \A p \in Items : ItemOK(p)'
      /\ \A s \in States : turn_state[s].pending \subseteq turn_state'[s].pending
      /\ \A s \in States : \/ turn_state'[s].pending \subseteq turn_state[s].pending
                           \/ \A b \in Actors \ {o} : fr[b].ts # s
  BY <1>1, <1>2, <1>4, <1>6, ExtendItems
<1>8. HeldKept
  BY <1>1, <1>2, <1>4, <1>7, HeldStays DEF HeldKept
<1>9. EmptyOK(o)'
  BY <1>2, <1>3, <1>4, StarterEmpty
<1>10. fr[o].at \notin Body
  BY <1>1 DEF Holding, Body
<1> QED
  BY <1>1, <1>2, <1>4, <1>7, <1>8, <1>9, <1>10, CallerItems

----------------------------------------------------------------------------
(* The invariant of the items. *)

\* It holds at the start: nothing was sent.
LEMMA InitItems == Init => ItemInv
<1> SUFFICES ASSUME Init
             PROVE  ItemInv
  OBVIOUS
<1>1. \A p : Frame(p).at = p /\ Frame(p).items = {} /\ Frame(p).input = {} /\ Frame(p).ts = None
  BY DEF Frame
<1>2. \A a \in Actors : /\ fr[a].at \in {"unborn", "idle"}
                        /\ fr[a].items = {} /\ fr[a].input = {} /\ fr[a].ts = None
  BY <1>1 DEF Init
<1>3. \A t \in Turns : turn[t].input = {}
  BY DEF Init, Unborn
<1>4. \A a \in Actors : EmptyOK(a)
  BY <1>2 DEF EmptyOK, Holding
<1>5. \A t \in Turns : InputOK(t)
  BY <1>3 DEF InputOK
<1>6. ASSUME NEW o \in Items
      PROVE  ItemOK(o) /\ SteerOK(o)
  <2>1. o \in ops /\ reply[o] = None /\ None \notin Turns /\ None # Rejected
    BY ActorSorts, ConstantsAssumption DEF Init, Items
  <2>2. \A s \in States : turn_state[s].pending = {}
    BY DEF Init, NewState
  <2>3. mailbox = {} /\ history = {} /\ discarded = {}
    BY DEF Init
  <2>4. IsAt(o, "unsent", LOOP)
    BY <1>2, <1>3, <2>1, <2>2, <2>3 DEF IsAt, Waits
  <2>5. "unsent" \in Sorts /\ LOOP \in States \cup Actors /\ HomeOK("unsent", LOOP)
    BY ActorSorts DEF Sorts, HomeOK
  <2> QED
    BY <2>1, <2>4, <2>5 DEF ItemOK, SteerOK
<1> QED
  BY <1>4, <1>5, <1>6 DEF ItemInv

\* Every step keeps it.
LEMMA NextItems ==
    ASSUME OneStarter, Inv, ItemInv, [Next]_vars
    PROVE  ItemInv'
<1>1. ASSUME NEW a \in Actors, CallStep(a)
      PROVE  ItemInv'
  <2>1. CASE StartTask(a)
    BY <2>1, StartTakeItems, StartDrainItems, StartStateItems, StartExtendItems, StartSpawnItems
       DEF StartTask
  <2>2. CASE maybe_start_turn_for_pending_work(a)
    BY <2>2, PendingItems DEF maybe_start_turn_for_pending_work
  <2>3. CASE abort_all_tasks(a)
    BY <2>3, AbortTakeItems, AbortStepItems, AbortClearItems DEF abort_all_tasks
  <2> QED
    BY <1>1, <2>1, <2>2, <2>3, OtherPlaces DEF CallStep
<1>2. ASSUME NEW t \in Turns, RunnerStep(t)
      PROVE  ItemInv'
  <2>1. CASE RunBegin(t) \/ TurnInput(t) \/ TurnTake(t) \/ TurnDrain(t) \/ TurnRecord(t)
    BY <2>1, RunBeginItems, TurnInputItems, TurnTakeItems, TurnDrainItems, TurnRecordItems
  <2>2. CASE \/ SampleToolCall(t) \/ SampleAnswer(t) \/ SampleFails(t) \/ TurnPost(t)
             \/ RunLoop(t) \/ RunEnd(t) \/ (FinishTake(t) /\ ~HasTask)
    BY <2>2, PassOnItems
  <2>3. CASE FinishTake(t) /\ HasTask
    BY <2>3, FinishTakeItems
  <2>4. CASE FinishRecord(t) \/ FinishEvent(t) \/ FinishClear(t) \/ GoalRead(t)
    BY <2>4, FinishRecordItems, FinishEventItems, FinishClearItems, GoalReadItems
  <2> QED
    BY <1>2, <2>1, <2>2, <2>3, <2>4, OtherPlaces
       DEF RunnerStep, on_task_finished, GoalContinuation
<1>3. ASSUME NEW o \in Ops, ClientStep(o)
      PROVE  ItemInv'
  <2>1. CASE try_start_turn_if_idle(o)
    BY <2>1, TryStartItems, TryReserveItems, TryGoOnItems, TryYieldItems, TryExtendItems
       DEF try_start_turn_if_idle
  <2> QED
    BY <1>3, <2>1, UserInputItems, ReplaceItems, MailItems, SteerOpItems, OtherKinds DEF ClientStep
<1>4. CASE UNCHANGED vars
  BY <1>4 DEF vars, ItemInv, EmptyOK, InputOK, ItemOK, SteerOK, IsAt, Waits, Referenced, Accounted,
     HeldFor, TaskIs, HomeOK
<1> QED
  BY <1>1, <1>2, <1>3, <1>4 DEF Next

\* An item that was sent is in one place.
LEMMA ItemsConserved ==
    ASSUME ItemInv
    PROVE  InputConserved
<1> SUFFICES ASSUME NEW o \in Items \ ops
             PROVE  Cardinality(Places(o)) = 1
  BY DEF InputConserved
<1>1. PICK k \in Sorts, x \in States \cup Actors : HomeOK(k, x) /\ IsAt(o, k, x)
  BY DEF ItemInv, ItemOK
<1>2. k # "unsent"
  BY <1>1 DEF IsAt
<1> DEFINE PM == {<<"mailbox", o>> : y \in mailbox \cap {o}}
           PH == {<<"history", o>> : y \in history \cap {o}}
           PD == {<<"discarded", o>> : y \in discarded \cap {o}}
           PR == {<<"sender", o>> : y \in {r \in {reply[o]} : r = Rejected}}
           PP == {<<"pending", s>> : s \in {r \in States : Referenced(r) /\ o \in turn_state[r].pending}}
           PI == {<<"input", t>> : t \in {u \in Turns : o \in turn[u].input}}
           PL == {<<"local", a>> : a \in {b \in Actors : o \in fr[b].items \cup fr[b].input}}
<1>3. PM = (IF k = "mailbox" THEN {<<"mailbox", o>>} ELSE {})
  BY <1>1 DEF IsAt
<1>4. PH = (IF k = "history" THEN {<<"history", o>>} ELSE {})
  BY <1>1 DEF IsAt
<1>5. PD = (IF k = "discarded" THEN {<<"discarded", o>>} ELSE {})
  BY <1>1 DEF IsAt
<1>6. PR = (IF k = "sender" THEN {<<"sender", o>>} ELSE {})
  BY <1>1 DEF IsAt
<1>7. PP = (IF k = "pending" THEN {<<"pending", x>>} ELSE {})
  <2>1. {r \in States : Referenced(r) /\ o \in turn_state[r].pending} = IF k = "pending" THEN {x} ELSE {}
    BY <1>1 DEF IsAt, Waits, HomeOK
  <2> QED
    BY <2>1
<1>8. PI = (IF k = "input" THEN {<<"input", x>>} ELSE {})
  <2>1. {u \in Turns : o \in turn[u].input} = IF k = "input" THEN {x} ELSE {}
    BY <1>1 DEF IsAt, HomeOK
  <2> QED
    BY <2>1
<1>9. PL = (IF k \in {"taken", "carried"} THEN {<<"local", x>>} ELSE {})
  <2>1. {b \in Actors : o \in fr[b].items \cup fr[b].input} = IF k \in {"taken", "carried"} THEN {x} ELSE {}
    BY <1>1 DEF IsAt, HomeOK
  <2> QED
    BY <2>1
<1>10. Places(o) = PM \cup PH \cup PD \cup PR \cup PP \cup PI \cup PL
  BY DEF Places
<1> HIDE DEF PM, PH, PD, PR, PP, PI, PL
<1>11. \E z : Places(o) = {z}
  <2>1. ASSUME k = "mailbox"
       PROVE  Places(o) = {<<"mailbox", o>>}
    BY <2>1, <1>3, <1>4, <1>5, <1>6, <1>7, <1>8, <1>9, <1>10
  <2>2. ASSUME k = "history"
       PROVE  Places(o) = {<<"history", o>>}
    BY <2>2, <1>3, <1>4, <1>5, <1>6, <1>7, <1>8, <1>9, <1>10
  <2>3. ASSUME k = "discarded"
       PROVE  Places(o) = {<<"discarded", o>>}
    BY <2>3, <1>3, <1>4, <1>5, <1>6, <1>7, <1>8, <1>9, <1>10
  <2>4. ASSUME k = "sender"
       PROVE  Places(o) = {<<"sender", o>>}
    BY <2>4, <1>3, <1>4, <1>5, <1>6, <1>7, <1>8, <1>9, <1>10
  <2>5. ASSUME k = "pending"
       PROVE  Places(o) = {<<"pending", x>>}
    BY <2>5, <1>3, <1>4, <1>5, <1>6, <1>7, <1>8, <1>9, <1>10
  <2>6. ASSUME k = "input"
       PROVE  Places(o) = {<<"input", x>>}
    BY <2>6, <1>3, <1>4, <1>5, <1>6, <1>7, <1>8, <1>9, <1>10
  <2>7. ASSUME k \in {"taken", "carried"}
       PROVE  Places(o) = {<<"local", x>>}
    BY <2>7, <1>3, <1>4, <1>5, <1>6, <1>7, <1>8, <1>9, <1>10
  <2> QED
    BY <1>2, <2>1, <2>2, <2>3, <2>4, <2>5, <2>6, <2>7 DEF Sorts
<1> QED
  BY <1>11, FS_Singleton

\* Nothing that was accepted for a complete turn is left unrecorded.
LEMMA SteersRecorded ==
    ASSUME Inv, ItemInv
    PROVE  SteerRecordedBeforeComplete
<1> SUFFICES ASSUME NEW o \in Items, reply[o] \in Turns, "TurnComplete" \in turn[reply[o]].events
             PROVE  o \in history \cup discarded
  BY DEF SteerRecordedBeforeComplete
<1>1. PICK t \in Turns : t = reply[o]
  OBVIOUS
<1>2. Accounted(o, t)
  BY <1>1 DEF ItemInv, SteerOK
<1>3. RunnerOK(t) /\ AbortOK
  BY DEF Inv, TurnsInv
<1>4. fr[t].at \notin Body /\ ~TaskIs(t)
  BY <1>1, <1>3 DEF RunnerOK
<1>5. \A s \in States : ~HeldFor(s, t)
  BY <1>1, <1>3, <1>4 DEF HeldFor, AbortOK
<1> QED
  BY <1>2, <1>4, <1>5 DEF Accounted

\* In the sessions that OneStarter admits, with any number of operations, turns and turn states:
\* every item that was sent is in exactly one place, whatever drains, steers, aborts and finishing
\* turns do at the same time.
THEOREM InputIsConserved == OneStarter => (Spec => []InputConserved)
<1> SUFFICES ASSUME OneStarter
             PROVE  Spec => []InputConserved
  OBVIOUS
<1>1. Init => Inv /\ ItemInv
  BY InitInv, InitItems
<1>2. Inv /\ ItemInv /\ [Next]_vars => (Inv /\ ItemInv)'
  BY NextInv, NextItems
<1>3. Inv /\ ItemInv => InputConserved
  BY ItemsConserved
<1> QED
  BY <1>1, <1>2, <1>3, PTL DEF Spec

\* In the same sessions, input that was accepted for a turn is recorded, or was blocked or dropped
\* with the client's knowledge, before the turn is reported as complete.
THEOREM SteersAreRecorded == OneStarter => (Spec => []SteerRecordedBeforeComplete)
<1> SUFFICES ASSUME OneStarter
             PROVE  Spec => []SteerRecordedBeforeComplete
  OBVIOUS
<1>1. Init => Inv /\ ItemInv
  BY InitInv, InitItems
<1>2. Inv /\ ItemInv /\ [Next]_vars => (Inv /\ ItemInv)'
  BY NextInv, NextItems
<1>3. Inv /\ ItemInv => SteerRecordedBeforeComplete
  BY SteersRecorded
<1> QED
  BY <1>1, <1>2, <1>3, PTL DEF Spec

============================================================================
