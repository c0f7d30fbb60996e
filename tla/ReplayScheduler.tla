--------------------------- MODULE ReplayScheduler --------------------------
(***************************************************************************)
(* ReplayScheduler (engines/replay/scheduler.py): a task walks the ticks   *)
(* and publishes each; start, pause, resume and stop only change the       *)
(* session's state and the stop event, which the task looks at before each *)
(* tick.  stop() waits for the task start() made last, whatever became of  *)
(* it.  The waiting time between two ticks is always zero: it is computed  *)
(* after the current time has moved to the tick.                           *)
(***************************************************************************)
EXTENDS Integers, Sequences, FiniteSetsExt

CONSTANTS
    TickTime,      \* the times of the ticks, in order
    StartTime, EndTime,
    MaxLoops       \* bound: tasks made in a run

SchedulerConstants ==
    /\ StartTime \in Nat /\ EndTime \in Nat /\ MaxLoops \in Nat
    /\ TickTime \in Seq(Nat)
    /\ \A i, j \in DOMAIN TickTime : i < j => TickTime[i] <= TickTime[j]

Loops == 1..MaxLoops

VARIABLES
    state,         \* session.state
    now,           \* session.current_time
    stopEvent,     \* _stop_event
    made,          \* the tasks made; the last is _task
    loop,          \* where each task is, and the last tick it has looked at
    stopping,      \* the task stop() waits for, or 0
    published,     \* auxiliary: what each task has published
    from,          \* auxiliary: the current time when the task was made
    crossed        \* auxiliary: a start met a task or a stop that was not over

vars == <<state, now, stopEvent, made, loop, stopping, published, from, crossed>>

TypeOK ==
    /\ state \in {"stopped", "running", "paused", "completed"}
    /\ now \in Nat
    /\ stopEvent \in BOOLEAN /\ crossed \in BOOLEAN
    /\ made \in 0..MaxLoops
    /\ loop \in [Loops -> [at : {"none", "ready", "publishing", "completing", "over", "failed"},
                           tick : 0..Len(TickTime)]]
    /\ stopping \in 0..made
    /\ published \in [Loops -> Seq(DOMAIN TickTime)]
    /\ from \in [Loops -> Nat]

Init ==
    /\ state = "stopped" /\ now = StartTime /\ stopEvent = FALSE /\ made = 0
    /\ loop = [l \in Loops |-> [at |-> "none", tick |-> 0]]
    /\ stopping = 0 /\ crossed = FALSE
    /\ published = [l \in Loops |-> <<>>]
    /\ from = [l \in Loops |-> StartTime]

Alive(l) == loop[l].at \in {"ready", "publishing"}

-----------------------------------------------------------------------------
(* The current time is not put back. *)
Start ==
    /\ state # "running"
    /\ made < MaxLoops
    /\ state' = "running"
    /\ stopEvent' = FALSE
    /\ made' = made + 1
    /\ loop' = [loop EXCEPT ![made + 1].at = "ready"]
    /\ from' = [from EXCEPT ![made + 1] = now]
    /\ crossed' = (crossed \/ stopping # 0 \/ \E l \in Loops : Alive(l))
    /\ UNCHANGED <<now, stopping, published>>

Pause ==
    /\ state = "running"
    /\ state' = "paused"
    /\ UNCHANGED <<now, stopEvent, made, loop, stopping, published, from, crossed>>

(* A task that has seen the pause is over and is not made again. *)
Resume ==
    /\ state = "paused"
    /\ state' = "running"
    /\ UNCHANGED <<now, stopEvent, made, loop, stopping, published, from, crossed>>

(* Mutant: stop does not wait for the task. *)
StopAtOnce ==
    /\ stopping = 0
    /\ stopEvent' = TRUE
    /\ state' = "stopped"
    /\ UNCHANGED <<now, made, loop, stopping, published, from, crossed>>

Stop ==
    /\ stopping = 0
    /\ stopEvent' = TRUE
    /\ IF made = 0
       THEN state' = "stopped" /\ UNCHANGED stopping
       ELSE stopping' = made /\ UNCHANGED state
    /\ UNCHANGED <<now, made, loop, published, from, crossed>>

(* Mutant: stop() waits for a task that ends well. *)
StopEndsIfOver ==
    /\ stopping # 0
    /\ loop[stopping].at = "over"
    /\ state' = "stopped"
    /\ stopping' = 0
    /\ UNCHANGED <<now, stopEvent, made, loop, published, from, crossed>>

(* A task that failed hands its exception to stop(), and the state stays. *)
StopEnds ==
    /\ stopping # 0
    /\ loop[stopping].at \in {"over", "failed"}
    /\ state' = IF loop[stopping].at = "over" THEN "stopped" ELSE state
    /\ stopping' = 0
    /\ UNCHANGED <<now, stopEvent, made, loop, published, from, crossed>>

-----------------------------------------------------------------------------
Later(l) == {i \in DOMAIN TickTime : i > loop[l].tick /\ TickTime[i] >= now}

MayGoOn(l) == Later(l) # {} /\ ~stopEvent /\ state = "running"

(* Mutant: of two ticks with one time the second is taken for the first. *)
PublishNextStrict(l) ==
    LET i == Max({j \in Later(l) : TickTime[j] = TickTime[Min(Later(l))]}) IN
    /\ Alive(l) /\ MayGoOn(l)
    /\ loop' = [loop EXCEPT ![l] = [at |-> "publishing", tick |-> i]]
    /\ now' = TickTime[i]
    /\ published' = [published EXCEPT ![l] = Append(@, i)]
    /\ UNCHANGED <<state, stopEvent, made, stopping, from, crossed>>

PublishNext(l) ==
    LET i == Min(Later(l)) IN
    /\ Alive(l) /\ MayGoOn(l)
    /\ loop' = [loop EXCEPT ![l] = [at |-> "publishing", tick |-> i]]
    /\ now' = TickTime[i]
    /\ published' = [published EXCEPT ![l] = Append(@, i)]
    /\ UNCHANGED <<state, stopEvent, made, stopping, from, crossed>>

(* The end of the ticks, a stop or a pause ends the task; the replay has   *)
(* completed if it runs and the end time is reached.                       *)
LoopEnds(l) ==
    /\ Alive(l) /\ ~MayGoOn(l)
    /\ IF state = "running" /\ now >= EndTime
       THEN state' = "completed" /\ loop' = [loop EXCEPT ![l].at = "completing"]
       ELSE loop' = [loop EXCEPT ![l].at = "over"] /\ UNCHANGED state
    /\ UNCHANGED <<now, stopEvent, made, stopping, published, from, crossed>>

CompletionTold(l) ==
    /\ loop[l].at = "completing"
    /\ loop' = [loop EXCEPT ![l].at = "over"]
    /\ UNCHANGED <<state, now, stopEvent, made, stopping, published, from, crossed>>

HandlerRaises(l) ==
    /\ loop[l].at \in {"publishing", "completing"}
    /\ loop' = [loop EXCEPT ![l].at = "failed"]
    /\ UNCHANGED <<state, now, stopEvent, made, stopping, published, from, crossed>>

Run(l) == PublishNext(l) \/ LoopEnds(l) \/ CompletionTold(l)

Next ==
    \/ Start \/ Pause \/ Resume \/ Stop \/ StopEnds
    \/ \E l \in Loops : Run(l) \/ HandlerRaises(l)

(* The tasks run and stop() is woken. *)
Fairness == WF_vars(StopEnds) /\ \A l \in Loops : WF_vars(Run(l))

Spec == Init /\ [][Next]_vars /\ Fairness

-----------------------------------------------------------------------------
(* A task publishes every tick from the time it was made at, in order and  *)
(* once, whatever is paused and resumed while it publishes, unless a start *)
(* made a second task beside it: then each moves the time the other reads. *)
LoopPlaysTape ==
    ~crossed => \A l \in 1..made :
        LET first == {i \in DOMAIN TickTime : TickTime[i] >= from[l]} IN
        \A i \in DOMAIN published[l] : published[l][i] = Min(first) + i - 1

(* Once stop() has returned without an exception nothing is published any  *)
(* more, unless a start crossed it (stop waits for the task).              *)
StoppedIsQuiet == state = "stopped" /\ ~crossed => \A l \in Loops : ~Alive(l)

(* Stopping waits for a handler and no longer: it returns also when the    *)
(* replay is paused, has completed, or its task has failed.                *)
StopReturns == stopping # 0 ~> stopping = 0
=============================================================================
