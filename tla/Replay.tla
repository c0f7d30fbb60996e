------------------------------- MODULE Replay -------------------------------
(***************************************************************************)
(* Historical replay (engines/replay): the ReplaySession, the              *)
(* ReplayController that steps through ticks and candles, and the          *)
(* iterators it draws from.                                                *)
(*                                                                         *)
(* Every operation changes the session first and publishes afterwards,     *)
(* where it is suspended while the handlers run.  Two operations go on     *)
(* after that: a step looks one item ahead and may complete the replay,    *)
(* and a restart resets and starts.  Anything else may happen in between,  *)
(* called by a handler or by another task.                                 *)
(*                                                                         *)
(* Ticks and candles are numbered; what is kept of them is their time.     *)
(* The source yields, in order, the items that are not before the current  *)
(* time at the moment it is asked (tests/test_replay_engine.py).           *)
(***************************************************************************)
EXTENDS Integers, Sequences, FiniteSetsExt

CONSTANTS
    TickTime,      \* the times of the ticks, in order
    CandleTime,    \* the times the candles start at, in order
    StartTime, EndTime,
    Callers,       \* tasks that control the replay
    MaxMoves       \* bound: starts, restarts and seeks in a run

ReplayConstants ==
    /\ StartTime \in Nat /\ EndTime \in Nat /\ StartTime <= EndTime
    /\ TickTime \in Seq(Nat) /\ CandleTime \in Seq(Nat)
    /\ \A i, j \in DOMAIN TickTime : i < j => TickTime[i] <= TickTime[j]
    /\ \A i, j \in DOMAIN CandleTime : i < j => CandleTime[i] <= CandleTime[j]
    /\ MaxMoves \in Nat

Kind == {"tick", "candle"}
Time(kind) == IF kind = "tick" THEN TickTime ELSE CandleTime
PlaybackSpeeds == {1, 2, 5, 10, 50, 100}

VARIABLES
    state,         \* session.state
    now,           \* session.current_time
    speed,         \* session.speed
    iter,          \* _tick_iterator, _candle_iterator: the last item looked at, or None
    buffer,        \* _next_tick, _next_candle: the item looked ahead at, or 0
    at,            \* where each caller is suspended
    moves,         \* auxiliary: starts, restarts and seeks so far
    origin,        \* auxiliary: the time the replay was last put to
    stale,         \* auxiliary: the ticks, candles in the buffer at that moment
    mixed,         \* auxiliary: both kinds were stepped since
    played         \* auxiliary: the items published since, by kind

session == <<state, now, speed>>
history == <<moves, origin, stale>>
vars == <<session, iter, buffer, at, history, mixed, played>>

None == -1

TypeOK ==
    /\ state \in {"stopped", "running", "paused", "completed"}
    /\ now \in Nat
    /\ speed \in PlaybackSpeeds
    /\ \A k \in Kind : /\ iter[k] \in {None} \cup 0..Len(Time(k))
                       /\ buffer[k] \in 0..Len(Time(k))
                       /\ played[k] \in Seq(DOMAIN Time(k))
                       /\ stale[k] \in 0..Len(Time(k))
    /\ at \in [Callers -> {"idle", "tick", "candle", "restart"}]
    /\ moves \in 0..MaxMoves
    /\ mixed \in BOOLEAN

Nothing == [k \in Kind |-> 0]
Rewound == [k \in Kind |-> 0]

Init ==
    /\ state = "stopped" /\ now = StartTime /\ speed = 1
    /\ iter = [k \in Kind |-> None]
    /\ buffer = Nothing
    /\ at = [c \in Callers |-> "idle"]
    /\ moves = 0 /\ origin = StartTime /\ stale = Nothing /\ mixed = FALSE
    /\ played = [k \in Kind |-> <<>>]

-----------------------------------------------------------------------------
Move == moves < MaxMoves /\ moves' = moves + 1

(* New iterators.  What the replay plays is told from here on. *)
Reposition(time, kept) ==
    /\ now' = time
    /\ iter' = Rewound
    /\ buffer' = kept
    /\ origin' = time
    /\ stale' = kept
    /\ mixed' = FALSE
    /\ played' = [k \in Kind |-> <<>>]

(* Mutant: a start drops what was buffered, and the iterators go on. *)
BeginWithoutRewind ==
    /\ state' = "running"
    /\ now' = StartTime /\ origin' = StartTime
    /\ stale' = buffer
    /\ iter' = [k \in Kind |-> IF iter[k] = None THEN 0 ELSE iter[k]]
    /\ mixed' = FALSE
    /\ played' = [k \in Kind |-> <<>>]
    /\ UNCHANGED <<buffer, speed>>

(* start() of a session that does not run.  The buffers are kept. *)
Begin == state' = "running" /\ Reposition(StartTime, buffer) /\ UNCHANGED speed

Start ==
    /\ Move
    /\ state # "running"
    /\ Begin
    /\ UNCHANGED at

Pause ==
    /\ state = "running"
    /\ state' = "paused"
    /\ UNCHANGED <<now, speed, iter, buffer, at, history, mixed, played>>

Resume ==
    /\ state = "paused"
    /\ state' = "running"
    /\ UNCHANGED <<now, speed, iter, buffer, at, history, mixed, played>>

Stop ==
    /\ state # "stopped"
    /\ state' = "stopped"
    /\ UNCHANGED <<now, speed, iter, buffer, at, history, mixed, played>>

(* restart: stop, reset, start.  It is suspended only if there is something *)
(* to stop.                                                                 *)
RestartStopped ==
    /\ Move
    /\ state = "stopped"
    /\ Begin
    /\ UNCHANGED at

RestartStops(c) ==
    /\ Move
    /\ state # "stopped" /\ at[c] = "idle"
    /\ state' = "stopped"
    /\ at' = [at EXCEPT ![c] = "restart"]
    /\ UNCHANGED <<now, speed, iter, buffer, origin, stale, mixed, played>>

RestartGoesOn(c) ==
    /\ at[c] = "restart"
    /\ at' = [at EXCEPT ![c] = "idle"]
    /\ Begin
    /\ UNCHANGED moves

(* session.clamp *)
Clamp(time) == IF time < StartTime THEN StartTime
               ELSE IF time > EndTime THEN EndTime ELSE time

(* Mutant: what was looked ahead at is kept. *)
SeekKeepsBuffer(time) ==
    /\ Move
    /\ now' = Clamp(time) /\ origin' = Clamp(time)
    /\ iter' = Rewound
    /\ stale' = Nothing /\ mixed' = FALSE
    /\ played' = [k \in Kind |-> <<>>]
    /\ UNCHANGED <<state, speed, at, buffer>>

(* The state stays: a replay that has completed stays completed. *)
Seek(time) ==
    /\ Move
    /\ Reposition(Clamp(time), Nothing)
    /\ UNCHANGED <<state, speed, at>>

ChangeSpeed(s) ==
    /\ speed # s
    /\ speed' = s
    /\ UNCHANGED <<state, now, iter, buffer, at, history, mixed, played>>

-----------------------------------------------------------------------------
(* What the iterator yields next at time t, or 0 when it is exhausted *)
Ahead(kind, t) ==
    LET later == {i \in DOMAIN Time(kind) : i > iter[kind] /\ Time(kind)[i] >= t}
    IN IF later = {} THEN 0 ELSE Min(later)

(* Mutant: an exhausted iterator counts on. *)
AdvancedPast(kind, i) == [iter EXCEPT ![kind] = IF i = 0 THEN Len(Time(kind)) + 1 ELSE i]

Advanced(kind, i) == [iter EXCEPT ![kind] = IF i = 0 THEN Len(Time(kind)) ELSE i]

Complete == state' = "completed"

(* Mutant: a step that finds nothing leaves the replay running. *)
StepIgnoresEnd(c, kind) ==
    LET ahead == buffer[kind] # 0
        item  == IF ahead THEN buffer[kind] ELSE Ahead(kind, now)
    IN
    /\ state = "running" /\ at[c] = "idle"
    /\ buffer' = [buffer EXCEPT ![kind] = 0]
    /\ iter' = IF ahead THEN iter ELSE Advanced(kind, item)
    /\ IF item = 0
       THEN UNCHANGED <<state, now, at, mixed, played>>
       ELSE /\ now' = Time(kind)[item]
            /\ at' = [at EXCEPT ![c] = kind]
            /\ mixed' = (mixed \/ \E k \in Kind \ {kind} : played[k] # <<>>)
            /\ played' = [played EXCEPT ![kind] = Append(@, item)]
            /\ UNCHANGED state
    /\ UNCHANGED <<speed, history>>

(* step_tick, step_candle of a running replay, up to the publication: the  *)
(* item looked ahead at, else the iterator's next.  None is the end.       *)
Step(c, kind) ==
    LET ahead == buffer[kind] # 0
        item  == IF ahead THEN buffer[kind] ELSE Ahead(kind, now)
    IN
    /\ state = "running" /\ at[c] = "idle"
    /\ buffer' = [buffer EXCEPT ![kind] = 0]
    /\ iter' = IF ahead THEN iter ELSE Advanced(kind, item)
    /\ IF item = 0
       THEN Complete /\ UNCHANGED <<now, at, mixed, played>>
       ELSE /\ now' = Time(kind)[item]
            /\ at' = [at EXCEPT ![c] = kind]
            /\ mixed' = (mixed \/ \E k \in Kind \ {kind} : played[k] # <<>>)
            /\ played' = [played EXCEPT ![kind] = Append(@, item)]
            /\ UNCHANGED state
    /\ UNCHANGED <<speed, history>>

(* Mutant: the end is seen one item too early. *)
LookAheadShort(c) ==
    LET kind == at[c]
        item == IF buffer[kind] # 0 THEN buffer[kind] ELSE Ahead(kind, now)
    IN
    /\ kind \in Kind
    /\ at' = [at EXCEPT ![c] = "idle"]
    /\ iter' = IF buffer[kind] # 0 THEN iter ELSE Advanced(kind, item)
    /\ buffer' = [buffer EXCEPT ![kind] = item]
    /\ IF item \in {0, Len(Time(kind))} \/ now >= EndTime THEN Complete ELSE UNCHANGED state
    /\ UNCHANGED <<now, speed, history, mixed, played>>

(* Mutant: a step that was suspended leaves the replay running. *)
LookAheadRevives(c) ==
    LET kind == at[c]
        item == IF buffer[kind] # 0 THEN buffer[kind] ELSE Ahead(kind, now)
    IN
    /\ kind \in Kind
    /\ at' = [at EXCEPT ![c] = "idle"]
    /\ iter' = IF buffer[kind] # 0 THEN iter ELSE Advanced(kind, item)
    /\ buffer' = [buffer EXCEPT ![kind] = item]
    /\ IF item = 0 \/ now >= EndTime THEN Complete ELSE state' = "running"
    /\ UNCHANGED <<now, speed, history, mixed, played>>

(* The handlers are done: look one item ahead, and complete the replay if  *)
(* there is none or the end time is reached, whatever the state is by now. *)
LookAhead(c) ==
    LET kind == at[c]
        item == IF buffer[kind] # 0 THEN buffer[kind] ELSE Ahead(kind, now)
    IN
    /\ kind \in Kind
    /\ at' = [at EXCEPT ![c] = "idle"]
    /\ iter' = IF buffer[kind] # 0 THEN iter ELSE Advanced(kind, item)
    /\ buffer' = [buffer EXCEPT ![kind] = item]
    /\ IF item = 0 \/ now >= EndTime THEN Complete ELSE UNCHANGED state
    /\ UNCHANGED <<now, speed, history, mixed, played>>

(* A handler raises: the caller's operation ends where it is suspended. *)
HandlerRaises(c) ==
    /\ at[c] # "idle"
    /\ at' = [at EXCEPT ![c] = "idle"]
    /\ UNCHANGED <<session, iter, buffer, history, mixed, played>>

SeekTimes == (StartTime - 1)..(EndTime + 1)

Next ==
    \/ Start \/ Pause \/ Resume \/ Stop \/ RestartStopped
    \/ \E time \in SeekTimes : Seek(time)
    \/ \E s \in {1, 2} : ChangeSpeed(s)
    \/ \E c \in Callers : \/ RestartStops(c) \/ RestartGoesOn(c)
                          \/ \E kind \in Kind : Step(c, kind)
                          \/ LookAhead(c) \/ HandlerRaises(c)

(* Someone steps a replay that runs, and handlers return. *)
Fairness == \A c \in Callers : /\ WF_vars(LookAhead(c))
                               /\ WF_vars(RestartGoesOn(c))
                               /\ SF_vars(Step(c, "tick"))

Spec == Init /\ [][Next]_vars /\ Fairness

-----------------------------------------------------------------------------
(***************************************************************************)
(* Properties.                                                             *)
(***************************************************************************)
Fresh(kind) == IF stale[kind] # 0 /\ played[kind] # <<>>
               THEN Tail(played[kind]) ELSE played[kind]

FromOrigin(kind) == {i \in DOMAIN Time(kind) : Time(kind)[i] >= origin}

(* "replays historical market data exactly as if it were arriving from a   *)
(* live exchange": what is published since the replay was last put         *)
(* somewhere is, in order, without repetition, what the source holds from  *)
(* there, and without a gap as long as only one kind is stepped; whatever  *)
(* was paused, suspended or failed in between.  The one exception is the   *)
(* item that start() finds in the buffer and plays first.                  *)
PlaysInOrder ==
    \A k \in Kind :
        /\ stale[k] # 0 /\ played[k] # <<>> => Head(played[k]) = stale[k]
        /\ \A i \in 1..(Len(Fresh(k)) - 1) : Fresh(k)[i] < Fresh(k)[i + 1]
        /\ \A i \in DOMAIN Fresh(k) : Fresh(k)[i] \in FromOrigin(k)

PlaysWithoutGap ==
    ~mixed => \A k \in Kind :
        \A i \in DOMAIN Fresh(k) :
            stale[k] = 0 => Fresh(k)[i] = Min(FromOrigin(k)) + i - 1

(* The replay completes at its end only: the end time is reached or the    *)
(* kind that is stepped is exhausted (_complete_if_finished).              *)
CompletesAtTheEnd ==
    [][state # "completed" /\ state' = "completed" =>
           \/ now' >= EndTime
           \/ \E k \in Kind : buffer'[k] = 0 /\ iter'[k] = Len(Time(k))]_vars

(* A step that was suspended does not bring a replay that was stopped      *)
(* meanwhile back to life: it may say completed, but only start, resume    *)
(* and restart make it run.                                                *)
StepsNeverRevive ==
    [][state # "running" /\ state' = "running" =>
           played' = [k \in Kind |-> <<>>] \/ (state = "paused" /\ now' = now)]_vars

(* A replay that someone keeps stepping does not run for ever. *)
ReplayEnds == state = "running" ~> state # "running"
=============================================================================
