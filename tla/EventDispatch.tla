---------------------------- MODULE EventDispatch ---------------------------
(***************************************************************************)
(* Events on their way to handlers: the EventBus (events/bus.py), the      *)
(* EventDispatcher (marketdata/streaming/dispatcher.py) and the            *)
(* EventSystemBridge that publishes each event on both, first the bus.     *)
(*                                                                         *)
(* A publisher suspends twice: while the bus handlers run, where one that  *)
(* raises fails the publisher, and while the dispatcher's handlers run,    *)
(* where none does.  start() dispatches the queued events one at a time,   *)
(* and suspends after each, with the dispatcher already running.           *)
(*                                                                         *)
(* A handler "hears" an event when its coroutine is scheduled: asyncio     *)
(* starts the coroutines it is given in that order.                        *)
(***************************************************************************)
EXTENDS Naturals, Sequences, SequencesExt

CONSTANTS
    Steady,        \* handlers subscribed once, through the bridge, from the start
    Movers,        \* handlers that come and go
    MaxEvents,     \* bound: events published in a run
    MaxMoves       \* bound: subscriptions and unsubscriptions in a run

AllHandlers == Steady \cup Movers

DispatchConstants ==
    /\ Steady # {} /\ Steady \cap Movers = {}
    /\ MaxEvents \in Nat /\ MaxMoves \in Nat

Events == 1..MaxEvents

VARIABLES
    subs,          \* the handler lists: how often each handler is in them
    moves,         \* auxiliary: subscriptions changed so far
    phase,         \* where the publication of each event is
    accepted,      \* auxiliary: the events in the order EventDispatcher.publish got them
    started,       \* EventSystemBridge._started
    running,       \* EventDispatcher._running
    queue,         \* EventDispatcher._queue
    draining,      \* start() calls suspended in their loop over the queue
    overlapped,    \* auxiliary: start() was called while another was suspended
    busHeard,      \* auxiliary: what each handler heard from the bus
    heard          \* auxiliary: what each handler heard from the dispatcher

vars == <<subs, moves, phase, accepted, started, running, queue, draining,
          overlapped, busHeard, heard>>

TypeOK ==
    /\ subs \in [AllHandlers -> 0..(MaxMoves + 1)]
    /\ moves \in 0..MaxMoves
    /\ phase \in [Events -> {"new", "bus", "failed", "passed"}]
    /\ accepted \in Seq([event : Events, queued : BOOLEAN])
    /\ started \in BOOLEAN /\ running \in BOOLEAN /\ overlapped \in BOOLEAN
    /\ queue \in Seq(Events)
    /\ draining \in Nat
    /\ busHeard \in [AllHandlers -> Seq(Events)]
    /\ heard \in [AllHandlers -> Seq(Events)]

Init ==
    /\ subs = [h \in AllHandlers |-> IF h \in Steady THEN 1 ELSE 0]
    /\ moves = 0
    /\ phase = [e \in Events |-> "new"]
    /\ accepted = <<>>
    /\ started = FALSE
    /\ running = FALSE
    /\ queue = <<>>
    /\ draining = 0
    /\ overlapped = FALSE
    /\ busHeard = [h \in AllHandlers |-> <<>>]
    /\ heard = [h \in AllHandlers |-> <<>>]

-----------------------------------------------------------------------------
(* The event goes to every handler, as often as the handler is listed. *)
ToAll(log, e) == [h \in AllHandlers |-> log[h] \o [i \in 1..subs[h] |-> e]]

(* EventSystemBridge.subscribe: on both sides, and again if asked again *)
Subscribe(h) ==
    /\ moves < MaxMoves
    /\ moves' = moves + 1
    /\ subs' = [subs EXCEPT ![h] = @ + 1]
    /\ UNCHANGED <<phase, accepted, started, running, queue, draining, overlapped, busHeard, heard>>

(* unsubscribe takes one entry of the list out *)
Unsubscribe(h) ==
    /\ moves < MaxMoves
    /\ subs[h] > 0
    /\ moves' = moves + 1
    /\ subs' = [subs EXCEPT ![h] = @ - 1]
    /\ UNCHANGED <<phase, accepted, started, running, queue, draining, overlapped, busHeard, heard>>

(* EventSystemBridge.publish up to its first suspension: the bus handlers *)
(* have all been started.  Events are numbered as they are published.     *)
Publish(e) ==
    /\ phase[e] = "new"
    /\ \A d \in 1..(e - 1) : phase[d] # "new"
    /\ phase' = [phase EXCEPT ![e] = "bus"]
    /\ busHeard' = ToAll(busHeard, e)
    /\ UNCHANGED <<subs, moves, accepted, started, running, queue, draining, overlapped, heard>>

(* A bus handler raises: gather passes it on and the dispatcher never sees *)
(* the event.                                                              *)
PublishFails(e) ==
    /\ phase[e] = "bus"
    /\ phase' = [phase EXCEPT ![e] = "failed"]
    /\ UNCHANGED <<subs, moves, accepted, started, running, queue, draining, overlapped, busHeard, heard>>

(* Mutant: an event that comes during the drain is queued, and dispatched. *)
AcceptTwice(e) ==
    /\ accepted' = Append(accepted, [event |-> e, queued |-> ~running])
    /\ queue' = IF ~running \/ draining > 0 THEN Append(queue, e) ELSE queue
    /\ heard' = IF running THEN ToAll(heard, e) ELSE heard

(* EventDispatcher.publish: queue while stopped, else dispatch *)
Accept(e) ==
    /\ accepted' = Append(accepted, [event |-> e, queued |-> ~running])
    /\ queue' = IF running THEN queue ELSE Append(queue, e)
    /\ heard' = IF running THEN ToAll(heard, e) ELSE heard

(* Mutant: a handler that raised does not stop the publisher. *)
PublishGoesOn(e) ==
    /\ phase[e] \in {"bus", "failed"}
    /\ phase' = [phase EXCEPT ![e] = IF @ = "bus" THEN "passed" ELSE @]
    /\ ~\E i \in DOMAIN accepted : accepted[i].event = e
    /\ Accept(e)
    /\ UNCHANGED <<subs, moves, started, running, draining, overlapped, busHeard>>

(* The bus handlers are done: on to the dispatcher *)
PublishPasses(e) ==
    /\ phase[e] = "bus"
    /\ phase' = [phase EXCEPT ![e] = "passed"]
    /\ Accept(e)
    /\ UNCHANGED <<subs, moves, started, running, draining, overlapped, busHeard>>

-----------------------------------------------------------------------------
(* Mutant: starting leaves what is queued where it is. *)
StartWithoutDrain ==
    /\ ~started
    /\ overlapped' = (overlapped \/ draining > 0)
    /\ started' = TRUE
    /\ running' = TRUE
    /\ UNCHANGED <<subs, moves, phase, accepted, queue, draining, busHeard, heard>>

(* EventSystemBridge.start and EventDispatcher.start up to the first        *)
(* suspension.  A dispatcher that runs, or has nothing queued, returns at   *)
(* once; else the first queued event is dispatched.                         *)
Start ==
    /\ ~started
    /\ overlapped' = (overlapped \/ draining > 0)
    /\ running' = TRUE
    /\ IF running \/ queue = <<>>
       THEN /\ started' = TRUE
            /\ UNCHANGED <<queue, draining, heard>>
       ELSE /\ heard' = ToAll(heard, Head(queue))
            /\ queue' = Tail(queue)
            /\ draining' = draining + 1
            /\ UNCHANGED started
    /\ UNCHANGED <<subs, moves, phase, accepted, busHeard>>

(* Mutant: the last event queued is taken first. *)
DrainNewest ==
    /\ draining > 0 /\ queue # <<>>
    /\ heard' = ToAll(heard, Last(queue))
    /\ queue' = Front(queue)
    /\ UNCHANGED <<subs, moves, phase, accepted, started, running, draining, overlapped, busHeard>>

(* The handlers of a queued event are done: on to the next one *)
DrainNext ==
    /\ draining > 0 /\ queue # <<>>
    /\ heard' = ToAll(heard, Head(queue))
    /\ queue' = Tail(queue)
    /\ UNCHANGED <<subs, moves, phase, accepted, started, running, draining, overlapped, busHeard>>

(* Mutant: start takes one event and no more. *)
DrainEndsEarly ==
    /\ draining > 0
    /\ draining' = draining - 1
    /\ started' = TRUE
    /\ UNCHANGED <<subs, moves, phase, accepted, running, queue, overlapped, busHeard, heard>>

(* The queue is empty: both start() calls return *)
DrainEnd ==
    /\ draining > 0 /\ queue = <<>>
    /\ draining' = draining - 1
    /\ started' = TRUE
    /\ UNCHANGED <<subs, moves, phase, accepted, running, queue, overlapped, busHeard, heard>>

(* Mutant: the bridge stops the dispatcher even if it has not started. *)
StopAlways ==
    /\ running
    /\ started' = FALSE
    /\ running' = FALSE
    /\ UNCHANGED <<subs, moves, phase, accepted, queue, draining, overlapped, busHeard, heard>>

(* EventSystemBridge.stop: nothing unless it has started *)
Stop ==
    /\ started
    /\ started' = FALSE
    /\ running' = FALSE
    /\ UNCHANGED <<subs, moves, phase, accepted, queue, draining, overlapped, busHeard, heard>>

-----------------------------------------------------------------------------
HandlersDone == \E e \in Events : PublishPasses(e) \/ PublishFails(e)

Next ==
    \/ \E h \in Movers : Subscribe(h) \/ Unsubscribe(h)
    \/ \E e \in Events : Publish(e)
    \/ HandlersDone
    \/ Start \/ DrainNext \/ DrainEnd \/ Stop

(* Handlers return, so their publisher and the drain go on. *)
Fairness == WF_vars(HandlersDone) /\ WF_vars(DrainNext) /\ WF_vars(DrainEnd)

Spec == Init /\ [][Next]_vars /\ Fairness

-----------------------------------------------------------------------------
(***************************************************************************)
(* Properties.                                                             *)
(***************************************************************************)
AcceptedEvents == {accepted[i].event : i \in DOMAIN accepted}

(* However publishing, draining, starting and stopping interleave, an      *)
(* event the dispatcher has got is either still queued or was heard, and   *)
(* that once, by every handler that was there all along; what it has not   *)
(* got, nobody heard (publish, start, stop).                               *)
NothingLost ==
    \A h \in Steady : LET line == heard[h] \o queue IN
        IsInjective(line) /\ Range(line) = AcceptedEvents

(* An event is heard before one that the dispatcher got earlier only when  *)
(* the earlier one was queued and the later one came during a drain: never *)
(* among queued events, never among direct ones (_running is set before    *)
(* the queue is drained).                                                  *)
OnlyDrainOvertakes ==
    \A h \in Steady : \A i, j \in DOMAIN accepted :
        /\ i < j
        /\ \E k \in DOMAIN heard[h] :
               /\ heard[h][k] = accepted[j].event
               /\ \A l \in 1..k : heard[h][l] # accepted[i].event
        => accepted[i].queued /\ ~accepted[j].queued

(* The two sides disagree in one direction only: what the dispatcher       *)
(* delivers or keeps, the handlers there all along have heard from the bus *)
(* and none of them raised; an event that failed on the bus is gone.       *)
DispatcherSeesWhatBusPassed ==
    \A e \in AcceptedEvents :
        /\ phase[e] = "passed"
        /\ \A h \in Steady :
               \E k \in DOMAIN busHeard[h] : \A l \in DOMAIN busHeard[h] : busHeard[h][l] = e <=> l = k

(* While the dispatcher runs, whatever is queued has a start() that will   *)
(* take it: nothing waits for the next start.                              *)
QueueHasDrainer == running /\ queue # <<>> => draining > 0

(* Unless a start() was called while another was suspended, the bridge     *)
(* says it has started only while the dispatcher runs: else no start would *)
(* ever reach the dispatcher again (EventSystemBridge.start, stop).        *)
StartedMeansRunning == started /\ ~overlapped => running

(* An event queued while stopped is heard after the next start, unless the *)
(* dispatcher is stopped once more.                                        *)
QueuedIsHeard ==
    \A e \in Events : (running /\ e \in Range(queue)) ~> (~running \/ e \notin Range(queue))
=============================================================================
