----------------------------- MODULE MarketRouter ---------------------------
(***************************************************************************)
(* MarketRouter (marketdata/streaming/router.py): events go to the         *)
(* handlers of their symbol and to the global handlers.  While stopped it  *)
(* keeps a bounded queue and drops what does not fit; start() drains it,   *)
(* suspended at each event while its handlers run.                         *)
(***************************************************************************)
EXTENDS Naturals, Sequences

CONSTANTS
    Symbols, Handlers,
    QueueSize,     \* max_queue_size
    MaxRouted,     \* bound: events routed in a run
    MaxMoves       \* bound: changes of the tables in a run

RouterConstants ==
    QueueSize \in Nat \ {0} /\ MaxRouted \in Nat /\ MaxMoves \in Nat

VARIABLES
    registry,      \* _symbol_registry
    bySymbol,      \* _symbol_handlers
    global,        \* _global_handlers
    moves,         \* auxiliary: changes made
    running,       \* _running
    queue,         \* _queue: the symbols of the events kept
    draining,      \* start() calls suspended in the loop
    inFlight,      \* dispatches whose handlers run, drained ones included
    processed,     \* _processed_count
    routed,        \* auxiliary: events given to route()
    dropped,       \* auxiliary: events that did not fit
    calls          \* auxiliary: handler -> [symbol -> times called]

tables == <<registry, bySymbol, global, moves>>
flow == <<running, queue, draining, inFlight, processed, routed, dropped, calls>>
vars == <<tables, flow>>

TypeOK ==
    /\ registry \subseteq Symbols
    /\ bySymbol \in [Symbols -> SUBSET Handlers]
    /\ global \subseteq Handlers
    /\ moves \in 0..MaxMoves
    /\ running \in BOOLEAN
    /\ queue \in Seq(Symbols) /\ Len(queue) <= QueueSize
    /\ draining \in Nat /\ inFlight \in Nat
    /\ processed \in Nat /\ routed \in Nat /\ dropped \in Nat
    /\ calls \in [Handlers -> [Symbols -> Nat]]

Init ==
    /\ registry = {} /\ bySymbol = [s \in Symbols |-> {}] /\ global = {} /\ moves = 0
    /\ running = FALSE /\ queue = <<>> /\ draining = 0 /\ inFlight = 0
    /\ processed = 0 /\ routed = 0 /\ dropped = 0
    /\ calls = [h \in Handlers |-> [s \in Symbols |-> 0]]

-----------------------------------------------------------------------------
Move == moves < MaxMoves /\ moves' = moves + 1 /\ UNCHANGED flow

RegisterSymbol(s) ==
    /\ Move
    /\ registry' = registry \cup {s}
    /\ UNCHANGED <<bySymbol, global>>

(* Mutant: the handlers of the symbol are kept. *)
UnregisterOnly(s) ==
    /\ Move
    /\ registry' = registry \ {s}
    /\ UNCHANGED <<bySymbol, global>>

UnregisterSymbol(s) ==
    /\ Move
    /\ registry' = registry \ {s}
    /\ bySymbol' = [bySymbol EXCEPT ![s] = {}]
    /\ UNCHANGED global

Subscribe(s, h) ==
    /\ Move
    /\ registry' = registry \cup {s}
    /\ bySymbol' = [bySymbol EXCEPT ![s] = @ \cup {h}]
    /\ UNCHANGED global

(* The symbol stays registered when its last handler goes. *)
Unsubscribe(s, h) ==
    /\ Move
    /\ bySymbol' = [bySymbol EXCEPT ![s] = @ \ {h}]
    /\ UNCHANGED <<registry, global>>

SubscribeGlobal(h) ==
    /\ Move
    /\ global' = global \cup {h}
    /\ UNCHANGED <<registry, bySymbol>>

UnsubscribeGlobal(h) ==
    /\ Move
    /\ global' = global \ {h}
    /\ UNCHANGED <<registry, bySymbol>>

(* A handler of the symbol that is also global is called twice. *)
TimesCalled(h, s) ==
    (IF h \in bySymbol[s] THEN 1 ELSE 0) + (IF h \in global THEN 1 ELSE 0)

(* _dispatch up to the suspension *)
Dispatch(s) ==
    /\ calls' = [h \in Handlers |-> [calls[h] EXCEPT ![s] = @ + TimesCalled(h, s)]]
    /\ inFlight' = inFlight + 1

(* Mutant: one event too many is kept. *)
RouteOneMore(s) ==
    /\ routed < MaxRouted
    /\ routed' = routed + 1
    /\ IF running
       THEN Dispatch(s) /\ UNCHANGED <<queue, dropped>>
       ELSE /\ IF Len(queue) <= QueueSize
               THEN queue' = Append(queue, s) /\ UNCHANGED dropped
               ELSE dropped' = dropped + 1 /\ UNCHANGED queue
            /\ UNCHANGED <<calls, inFlight>>
    /\ UNCHANGED <<tables, running, draining, processed>>

(* Mutant: a full queue makes room by forgetting its oldest event. *)
RouteOverwriting(s) ==
    /\ routed < MaxRouted
    /\ routed' = routed + 1
    /\ IF running
       THEN Dispatch(s) /\ UNCHANGED <<queue, dropped>>
       ELSE /\ queue' = Append(IF Len(queue) < QueueSize THEN queue ELSE Tail(queue), s)
            /\ UNCHANGED <<calls, inFlight, dropped>>
    /\ UNCHANGED <<tables, running, draining, processed>>

Route(s) ==
    /\ routed < MaxRouted
    /\ routed' = routed + 1
    /\ IF running
       THEN Dispatch(s) /\ UNCHANGED <<queue, dropped>>
       ELSE /\ IF Len(queue) < QueueSize
               THEN queue' = Append(queue, s) /\ UNCHANGED dropped
               ELSE dropped' = dropped + 1 /\ UNCHANGED queue
            /\ UNCHANGED <<calls, inFlight>>
    /\ UNCHANGED <<tables, running, draining, processed>>

(* The handlers of an event routed directly are done.  One dispatch belongs *)
(* to each suspended start().                                               *)
Dispatched ==
    /\ inFlight > draining
    /\ inFlight' = inFlight - 1
    /\ processed' = processed + 1
    /\ UNCHANGED <<tables, running, queue, draining, routed, dropped, calls>>

Start ==
    /\ ~running
    /\ running' = TRUE
    /\ IF queue = <<>>
       THEN UNCHANGED <<queue, draining, calls, inFlight>>
       ELSE /\ queue' = Tail(queue)
            /\ draining' = draining + 1
            /\ Dispatch(Head(queue))
    /\ UNCHANGED <<tables, processed, routed, dropped>>

(* Mutant: the count is taken only of events that come while running. *)
DrainUncounted ==
    /\ draining > 0
    /\ IF queue = <<>>
       THEN /\ draining' = draining - 1
            /\ inFlight' = inFlight - 1
            /\ UNCHANGED <<queue, calls>>
       ELSE /\ queue' = Tail(queue)
            /\ calls' = [h \in Handlers |->
                            [calls[h] EXCEPT ![Head(queue)] = @ + TimesCalled(h, Head(queue))]]
            /\ UNCHANGED <<draining, inFlight>>
    /\ UNCHANGED <<tables, running, processed, routed, dropped>>

(* The handlers of a queued event are done, and it is counted: on to the   *)
(* next one, or the end.  A stop() does not end the loop.                  *)
DrainNext ==
    /\ draining > 0
    /\ processed' = processed + 1
    /\ IF queue = <<>>
       THEN /\ draining' = draining - 1
            /\ inFlight' = inFlight - 1
            /\ UNCHANGED <<queue, calls>>
       ELSE /\ queue' = Tail(queue)
            /\ calls' = [h \in Handlers |->
                            [calls[h] EXCEPT ![Head(queue)] = @ + TimesCalled(h, Head(queue))]]
            /\ UNCHANGED <<draining, inFlight>>
    /\ UNCHANGED <<tables, running, routed, dropped>>

Stop ==
    /\ running
    /\ running' = FALSE
    /\ UNCHANGED <<tables, queue, draining, inFlight, processed, routed, dropped, calls>>

Next ==
    \/ \E s \in Symbols : RegisterSymbol(s) \/ UnregisterSymbol(s) \/ Route(s)
    \/ \E s \in Symbols, h \in Handlers : Subscribe(s, h) \/ Unsubscribe(s, h)
    \/ \E h \in Handlers : SubscribeGlobal(h) \/ UnsubscribeGlobal(h)
    \/ Dispatched \/ Start \/ DrainNext \/ Stop

Spec == Init /\ [][Next]_vars

-----------------------------------------------------------------------------
(* Every event given to the router is counted, is with its handlers, waits *)
(* in the queue, or was dropped for want of room, each exactly once,       *)
(* whatever starts and stops overlap with a drain (route, _dispatch,       *)
(* start, processed_count).                                                *)
EveryEventAccounted == routed = processed + inFlight + Len(queue) + dropped

(* An event of a symbol that nobody has registered, as one that was queued *)
(* before its symbol was unregistered, reaches nobody but the global       *)
(* handlers (unregister_symbol, _dispatch).                                *)
UnregisteredSymbolIsSilent ==
    [][\A h \in Handlers, s \in Symbols :
          calls'[h][s] # calls[h][s] => s \in registry \/ h \in global]_vars

(* An event is dropped only when the router is stopped with a full queue,  *)
(* and then everything queued before it is kept, in order.                 *)
DropsOnlyNewest ==
    [][routed' # routed /\ inFlight' = inFlight =>
           \/ dropped' = dropped /\ \E s \in Symbols : queue' = Append(queue, s)
           \/ dropped' = dropped + 1 /\ queue' = queue /\ Len(queue) = QueueSize]_vars
=============================================================================
