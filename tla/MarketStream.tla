---------------------------- MODULE MarketStream ----------------------------
(***************************************************************************)
(* One market data stream (marketdata/streaming): WebSocketStream with its *)
(* receive loop, the ReconnectManager that watches it, and the             *)
(* StreamingManager that runs both as tasks and stops them.                *)
(*                                                                         *)
(* Everything runs on one event loop: an action is what a coroutine does   *)
(* from one suspension to the next.  A task that was cancelled continues   *)
(* at its exception handler when it is next resumed.  The heartbeat task   *)
(* changes no state and is left out, as are callbacks and log entries.     *)
(*                                                                         *)
(* Messages are numbered as they are received.  Handlers of the dispatcher *)
(* and the router are isolated from each other (_safe_handler), so that    *)
(* dispatching an event is one wait that ends.                             *)
(***************************************************************************)
EXTENDS Integers, Sequences, FiniteSets

CONSTANTS
    MaxSockets,     \* bound: connections made
    MaxMessages,    \* bound: messages received
    MaxRetries,     \* ReconnectManager.max_retries
    Monitored,      \* a ReconnectManager is registered, and somebody may start it
    Symbols         \* what can be subscribed

ASSUME StreamConstants ==
    /\ MaxSockets \in Nat
    /\ MaxMessages \in Nat
    /\ MaxRetries \in Nat
    /\ Monitored \in BOOLEAN

VARIABLES
    running,        \* StreamingManager._running
    pc,             \* where the manager's two tasks and its stop() wait
    awaited,        \* the receive loop, then the socket, a disconnect() waits for
    stream,         \* the WebSocketStream
    loop,           \* the receive loop started with each connection
    socket,         \* the connections, open or not
    told,           \* the symbols the venue was asked for on each connection
    reconnect,      \* the ReconnectManager
    queue,          \* _message_queue
    hand,           \* the event _run_stream is publishing
    dispatched,     \* auxiliary: the events handlers have seen
    received,       \* auxiliary: the number of messages received
    dropped,        \* auxiliary: events in hand when the task was cancelled
    overlap         \* auxiliary: a connection was made over another

connections == <<stream, loop, socket, told, overlap>>
events == <<queue, hand, dispatched, received, dropped>>
vars == <<running, pc, awaited, connections, reconnect, events>>

Sockets == 1..MaxSockets

None == 0

Process == {"runner", "monitor", "stop"}

Place == {"off",            \* no such task, or it is over
          "created",        \* a task that has not run yet
          "connecting",     \* in websockets.connect
          "reading",        \* runner: in _message_queue.get
          "dispatching",    \* runner: in dispatcher.publish or router.route
          "cancelled",      \* to be resumed with CancelledError
          "awaiting",       \* disconnect: for the receive loop to end
          "closing",        \* disconnect: for the socket to close
          "sleeping",       \* monitor: between two looks at the stream
          "backoff",        \* monitor: in _reconnect, before the attempt
          "retrying",       \* monitor: in _reconnect, in websockets.connect
          "gathering"}      \* stop: for the tasks to end

NoLoop == [phase |-> "none", on |-> None]

TypeOK ==
    /\ running \in BOOLEAN
    /\ pc \in [Process -> Place]
    /\ awaited \in [Process -> Sockets \cup {None}]
    /\ stream \in [ws : Sockets \cup {None}, connected : BOOLEAN, running : BOOLEAN,
                   task : Sockets \cup {None}, subscribed : SUBSET Symbols]
    /\ loop \in [Sockets -> [phase : {"none", "ready", "waiting", "cancelled", "done"},
                             on : Sockets \cup {None}]]
    /\ socket \in [Sockets -> {"none", "open", "dropped", "closed"}]
    /\ told \in [Sockets -> SUBSET Symbols]
    /\ reconnect \in [running : BOOLEAN, retries : 0..MaxRetries, last : BOOLEAN]
    /\ queue \in Seq(1..MaxMessages)
    /\ hand \in Seq(1..MaxMessages) /\ Len(hand) <= 1
    /\ dispatched \in Seq(1..MaxMessages)
    /\ received \in 0..MaxMessages
    /\ dropped \subseteq 1..MaxMessages
    /\ overlap \in BOOLEAN

Init ==
    /\ running = FALSE
    /\ pc = [p \in Process |-> "off"]
    /\ awaited = [p \in Process |-> None]
    /\ stream = [ws |-> None, connected |-> FALSE, running |-> FALSE, task |-> None,
                 subscribed |-> {}]
    /\ loop = [s \in Sockets |-> NoLoop]
    /\ socket = [s \in Sockets |-> "none"]
    /\ told = [s \in Sockets |-> {}]
    /\ reconnect = [running |-> FALSE, retries |-> 0, last |-> FALSE]
    /\ queue = <<>>
    /\ hand = <<>>
    /\ dispatched = <<>>
    /\ received = 0
    /\ dropped = {}
    /\ overlap = FALSE

Goes(p, place) == pc' = [pc EXCEPT ![p] = place]

-----------------------------------------------------------------------------
(***************************************************************************)
(* WebSocketStream: connect, disconnect, subscribe.                        *)
(***************************************************************************)

Disconnecting == \E p \in Process : pc[p] \in {"awaiting", "closing"}

(* connect, once websockets.connect has returned the socket s.  Nothing    *)
(* is looked at again: a second caller replaces the first one's socket.    *)
Established(s) ==
    /\ socket[s] = "none"
    /\ \A t \in Sockets : t < s => socket[t] # "none"
    /\ socket' = [socket EXCEPT ![s] = "open"]
    /\ loop' = [loop EXCEPT ![s] = [phase |-> "ready", on |-> None]]
    /\ stream' = [stream EXCEPT !.ws = s, !.connected = TRUE, !.running = TRUE, !.task = s]
    /\ overlap' = (overlap \/ stream.connected \/ Disconnecting)
    /\ UNCHANGED told

(* the end of disconnect when there is no socket to close, else its wait *)
Closes(p) ==
    /\ Goes(p, IF stream.ws = None THEN "off" ELSE "closing")
    /\ awaited' = [awaited EXCEPT ![p] = stream.ws]
    /\ stream' = [stream EXCEPT !.running = IF pc[p] = "awaiting" THEN @ ELSE FALSE,
                                !.connected = @ /\ stream.ws # None]

(* disconnect up to its first await: the receive loop is cancelled *)
BeginsDisconnect(p) ==
    IF stream.task = None \/ loop[stream.task].phase = "done"
    THEN Closes(p) /\ UNCHANGED <<loop, socket, told, overlap>>
    ELSE /\ stream' = [stream EXCEPT !.running = FALSE]
         /\ loop' = [loop EXCEPT ![stream.task] = [phase |-> "cancelled", on |-> None]]
         /\ awaited' = [awaited EXCEPT ![p] = stream.task]
         /\ Goes(p, "awaiting")
         /\ UNCHANGED <<socket, told, overlap>>

LoopHasEnded(p) ==
    /\ pc[p] = "awaiting"
    /\ loop[awaited[p]].phase = "done"
    /\ Closes(p)
    /\ UNCHANGED <<running, loop, socket, told, overlap, reconnect, events>>

SocketClosed(p) ==
    /\ pc[p] = "closing"
    /\ socket' = [s \in Sockets |-> IF s = awaited[p] THEN "closed" ELSE socket[s]]
    /\ stream' = [stream EXCEPT !.ws = None, !.connected = FALSE]
    /\ awaited' = [awaited EXCEPT ![p] = None]
    /\ Goes(p, "off")
    /\ UNCHANGED <<running, loop, told, overlap, reconnect, events>>

(* subscribe and unsubscribe; without a socket nothing is sent *)
Subscribe(symbol) ==
    /\ symbol \notin stream.subscribed
    /\ stream' = [stream EXCEPT !.subscribed = @ \cup {symbol}]
    /\ told' = [s \in Sockets |-> IF s = stream.ws THEN told[s] \cup {symbol} ELSE told[s]]
    /\ UNCHANGED <<running, pc, awaited, loop, socket, overlap, reconnect, events>>

Unsubscribe(symbol) ==
    /\ symbol \in stream.subscribed
    /\ stream' = [stream EXCEPT !.subscribed = @ \ {symbol}]
    /\ told' = [s \in Sockets |-> IF s = stream.ws THEN told[s] \ {symbol} ELSE told[s]]
    /\ UNCHANGED <<running, pc, awaited, loop, socket, overlap, reconnect, events>>

-----------------------------------------------------------------------------
(***************************************************************************)
(* _receive_loop.  It reads whatever socket the stream has at each turn;   *)
(* reading a socket that is closed, or that another loop is reading,       *)
(* raises, and an error ends the loop (reconnect_enabled).                 *)
(***************************************************************************)
Readable(s) ==
    /\ stream.running
    /\ stream.ws # None
    /\ socket[stream.ws] = "open"
    /\ \A t \in Sockets \ {s} : ~(loop[t].phase = "waiting" /\ loop[t].on = stream.ws)

NextTurn(s) ==
    loop' = [loop EXCEPT ![s] = IF Readable(s) THEN [phase |-> "waiting", on |-> stream.ws]
                                ELSE [phase |-> "done", on |-> None]]

LoopStarts(s) ==
    /\ loop[s].phase = "ready"
    /\ NextTurn(s)
    /\ UNCHANGED <<running, pc, awaited, stream, socket, told, overlap, reconnect, events>>

Receives(s) ==
    /\ loop[s].phase = "waiting"
    /\ socket[loop[s].on] = "open"
    /\ received < MaxMessages
    /\ received' = received + 1
    /\ queue' = Append(queue, received + 1)
    /\ NextTurn(s)
    /\ UNCHANGED <<running, pc, awaited, stream, socket, told, overlap, reconnect,
                   hand, dispatched, dropped>>

LoopEnds(s) ==
    /\ \/ loop[s].phase = "cancelled"
       \/ loop[s].phase = "waiting" /\ socket[loop[s].on] # "open"
    /\ loop' = [loop EXCEPT ![s] = [phase |-> "done", on |-> None]]
    /\ UNCHANGED <<running, pc, awaited, stream, socket, told, overlap, reconnect, events>>

(* External: the venue or the network ends a connection. *)
ConnectionDrops(s) ==
    /\ socket[s] = "open"
    /\ socket' = [socket EXCEPT ![s] = "dropped"]
    /\ UNCHANGED <<running, pc, awaited, stream, loop, told, overlap, reconnect, events>>

-----------------------------------------------------------------------------
(***************************************************************************)
(* StreamingManager._run_stream.  Its loop over events() never ends of its *)
(* own accord: only its own disconnect and that of stop, which comes after *)
(* it, put the stream's running flag to FALSE.                             *)
(***************************************************************************)
RunnerBegins ==
    /\ pc["runner"] = "created"
    /\ Goes("runner", IF stream.connected THEN "reading" ELSE "connecting")
    /\ UNCHANGED <<running, awaited, connections, reconnect, events>>

RunnerConnects ==
    /\ pc["runner"] = "connecting"
    /\ \E s \in Sockets : Established(s)
    /\ Goes("runner", "reading")
    /\ UNCHANGED <<running, awaited, reconnect, events>>

(* The connection fails, or the task was cancelled: the finally clause. *)
RunnerLeaves ==
    /\ pc["runner"] \in {"connecting", "cancelled"}
    /\ BeginsDisconnect("runner")
    /\ hand' = <<>>
    /\ dropped' = dropped \cup {hand[i] : i \in DOMAIN hand}
    /\ UNCHANGED <<running, reconnect, queue, dispatched, received>>

(* Mutant: the event stays in the queue. *)
RunnerPeeks ==
    /\ pc["runner"] = "reading"
    /\ queue # <<>>
    /\ hand' = <<Head(queue)>>
    /\ Goes("runner", "dispatching")
    /\ UNCHANGED <<running, awaited, connections, reconnect, queue, dispatched, received, dropped>>

RunnerTakes ==
    /\ pc["runner"] = "reading"
    /\ queue # <<>>
    /\ hand' = <<Head(queue)>>
    /\ queue' = Tail(queue)
    /\ Goes("runner", "dispatching")
    /\ UNCHANGED <<running, awaited, connections, reconnect, dispatched, received, dropped>>

RunnerDispatches ==
    /\ pc["runner"] = "dispatching"
    /\ dispatched' = dispatched \o hand
    /\ hand' = <<>>
    /\ Goes("runner", "reading")
    /\ UNCHANGED <<running, awaited, connections, reconnect, queue, received, dropped>>

-----------------------------------------------------------------------------
(***************************************************************************)
(* ReconnectManager.  reconnect.last: the attempt at hand is the one made  *)
(* from monitor()'s exception handler, after which monitor() returns.      *)
(***************************************************************************)
StartReconnectManager ==
    /\ Monitored
    /\ ~reconnect.running
    /\ reconnect' = [running |-> TRUE, retries |-> 0, last |-> reconnect.last]
    /\ UNCHANGED <<running, pc, awaited, connections, events>>

(* monitor() has returned: _run_reconnect_manager stops the manager. *)
MonitorReturns ==
    /\ Goes("monitor", "off")
    /\ reconnect' = [reconnect EXCEPT !.running = FALSE, !.last = FALSE]

MonitorConnected ==
    /\ Goes("monitor", "sleeping")
    /\ reconnect' = [reconnect EXCEPT !.retries = 0]

MonitorBegins ==
    /\ pc["monitor"] = "created"
    /\ \/ ~reconnect.running /\ MonitorReturns
       \/ reconnect.running /\ stream.connected /\ MonitorConnected
       \/ reconnect.running /\ ~stream.connected /\ Goes("monitor", "connecting")
          /\ UNCHANGED reconnect
    /\ UNCHANGED <<running, awaited, connections, events>>

(* connect, from monitor or from _reconnect, has succeeded *)
MonitorSucceeds ==
    IF reconnect.last
    THEN Goes("monitor", "off") /\ reconnect' = [running |-> FALSE, retries |-> 0, last |-> FALSE]
    ELSE MonitorConnected

MonitorConnects ==
    /\ pc["monitor"] \in {"connecting", "retrying"}
    /\ \E s \in Sockets : Established(s)
    /\ MonitorSucceeds
    /\ UNCHANGED <<running, awaited, events>>

(* Mutant: one attempt too many. *)
ReconnectOnceMore(last) ==
    IF reconnect.retries <= MaxRetries
    THEN Goes("monitor", "backoff") /\ reconnect' = [reconnect EXCEPT !.last = last]
    ELSE IF last THEN MonitorReturns ELSE UNCHANGED <<pc, reconnect>>

(* _reconnect up to its first await *)
Reconnect(last) ==
    IF reconnect.retries < MaxRetries
    THEN Goes("monitor", "backoff") /\ reconnect' = [reconnect EXCEPT !.last = last]
    ELSE IF last THEN MonitorReturns ELSE UNCHANGED <<pc, reconnect>>

(* monitor's own attempt has failed: its exception handler makes one more *)
MonitorFails ==
    /\ pc["monitor"] = "connecting"
    /\ Reconnect(TRUE)
    /\ UNCHANGED <<running, awaited, connections, events>>

MonitorWakes ==
    /\ pc["monitor"] = "sleeping"
    /\ ~stream.connected
    /\ Reconnect(FALSE)
    /\ UNCHANGED <<running, awaited, connections, events>>

BackoffPasses ==
    /\ pc["monitor"] = "backoff"
    /\ IF stream.connected THEN MonitorSucceeds
       ELSE Goes("monitor", "retrying") /\ UNCHANGED reconnect
    /\ UNCHANGED <<running, awaited, connections, events>>

(* Mutant: a failed attempt does not count. *)
RetryUncounted ==
    /\ pc["monitor"] = "retrying"
    /\ IF reconnect.last THEN MonitorReturns
       ELSE Goes("monitor", "sleeping") /\ UNCHANGED reconnect
    /\ UNCHANGED <<running, awaited, connections, events>>

RetryFails ==
    /\ pc["monitor"] = "retrying"
    /\ Goes("monitor", IF reconnect.last THEN "off" ELSE "sleeping")
    /\ reconnect' = [running |-> ~reconnect.last, retries |-> reconnect.retries + 1,
                     last |-> FALSE]
    /\ UNCHANGED <<running, awaited, connections, events>>

MonitorCancelled ==
    /\ pc["monitor"] = "cancelled"
    /\ MonitorReturns
    /\ UNCHANGED <<running, awaited, connections, events>>

-----------------------------------------------------------------------------
(***************************************************************************)
(* StreamingManager.start and stop; the runtime's lock keeps them apart.   *)
(***************************************************************************)
Start ==
    /\ ~running
    /\ pc["stop"] = "off"
    /\ running' = TRUE
    /\ pc' = [pc EXCEPT !["runner"] = "created",
                        !["monitor"] = IF Monitored THEN "created" ELSE "off"]
    /\ UNCHANGED <<awaited, connections, reconnect, events>>

(* Mutant: the monitor swallows the error while it sleeps. *)
CancelledButAsleep(place) ==
    IF place \in {"off", "created", "closing"} THEN "off"
    ELSE IF place \in {"awaiting", "sleeping"} THEN place
    ELSE "cancelled"

(* A task that has not run is gone at once; one that waits for the receive *)
(* loop in disconnect swallows the error; one that waits for the socket to *)
(* close gives that up.                                                    *)
Cancelled(place) ==
    IF place \in {"off", "created", "closing"} THEN "off"
    ELSE IF place = "awaiting" THEN "awaiting"
    ELSE "cancelled"

Stop ==
    /\ running
    /\ running' = FALSE
    /\ pc' = [p \in Process |-> IF p = "stop" THEN "gathering" ELSE Cancelled(pc[p])]
    /\ UNCHANGED <<awaited, connections, reconnect, events>>

(* Mutant: stop does not wait for the tasks it cancelled. *)
StopsAtOnce ==
    /\ pc["stop"] = "gathering"
    /\ BeginsDisconnect("stop")
    /\ reconnect' = [reconnect EXCEPT !.running = FALSE]
    /\ UNCHANGED <<running, events>>

Gathered ==
    /\ pc["stop"] = "gathering"
    /\ pc["runner"] = "off" /\ pc["monitor"] = "off"
    /\ BeginsDisconnect("stop")
    /\ reconnect' = [reconnect EXCEPT !.running = FALSE]
    /\ UNCHANGED <<running, events>>

-----------------------------------------------------------------------------
RunnerStep == RunnerBegins \/ RunnerConnects \/ RunnerLeaves \/ RunnerTakes \/ RunnerDispatches

MonitorStep ==
    \/ MonitorBegins \/ MonitorConnects \/ MonitorFails \/ MonitorWakes
    \/ BackoffPasses \/ RetryFails \/ MonitorCancelled

LoopStep == \E s \in Sockets : LoopStarts(s) \/ LoopEnds(s)

DisconnectStep == \E p \in Process : LoopHasEnded(p) \/ SocketClosed(p)

Next ==
    \/ Start \/ Stop \/ StartReconnectManager
    \/ \E symbol \in Symbols : Subscribe(symbol) \/ Unsubscribe(symbol)
    \/ RunnerStep \/ MonitorStep \/ LoopStep \/ DisconnectStep \/ Gathered
    \/ \E s \in Sockets : Receives(s) \/ ConnectionDrops(s)

(* The loop resumes what can go on, calls return or raise, sleeps end.     *)
(* Nothing is asked of the venue, the caller of start and stop, or whoever *)
(* subscribes.                                                             *)
Fairness ==
    /\ WF_vars(RunnerStep)
    /\ WF_vars(MonitorStep)
    /\ WF_vars(LoopStep)
    /\ WF_vars(DisconnectStep)
    /\ WF_vars(Gathered)

Spec == Init /\ [][Next]_vars /\ Fairness

-----------------------------------------------------------------------------
(***************************************************************************)
(* Properties.                                                             *)
(***************************************************************************)

Stopped == ~running /\ pc["stop"] = "off"

(* When stop() has returned, the tasks are over, the stream is not         *)
(* connected and, unless two connections were made over each other, no     *)
(* connection is open and no receive loop alive (StreamingManager.stop,    *)
(* WebSocketStream.disconnect).                                            *)
StopLeavesNothing ==
    Stopped =>
        /\ pc["runner"] = "off" /\ pc["monitor"] = "off"
        /\ stream.ws = None /\ ~stream.connected /\ ~stream.running
        /\ ~overlap => \A s \in Sockets : socket[s] # "open" /\ loop[s].phase \in {"none", "done"}

(* Events reach the handlers in the order they were received, none twice,  *)
(* and only those whose publication stop() cancelled are missing: none is  *)
(* lost between the queue, the task and the handlers, however often the    *)
(* stream is stopped, dropped, and connected again (_receive_loop, events, *)
(* _run_stream).                                                           *)
NothingLost ==
    LET known == dispatched \o hand \o queue IN
    /\ \A i, k \in DOMAIN known : i < k => known[i] < known[k]
    /\ {known[i] : i \in DOMAIN known} = (1..received) \ dropped

(* stop() returns: it waits for tasks that disconnect the stream, which    *)
(* wait for a receive loop (StreamingManager.stop).                        *)
StopReturns == pc["stop"] # "off" ~> pc["stop"] = "off"

(* While the monitor watches a stream that says it is not connected, the   *)
(* stream is connected again or the attempts are used up                   *)
(* (ReconnectManager.monitor, _reconnect).                                 *)
Watching == pc["monitor"] \in {"sleeping", "backoff", "retrying"}

ReconnectsOrGivesUp ==
    Watching /\ ~stream.connected ~>
        stream.connected \/ reconnect.retries = MaxRetries \/ ~Watching

(* The stream never hangs: a stop ends, and a connection that is missed is *)
(* replaced or given up (StreamingManager.stop, ReconnectManager.monitor). *)
NeverHangs == StopReturns /\ ReconnectsOrGivesUp

(* A receive error breaks the loop to "Trigger reconnect"                  *)
(* (websocket.py): a connection that dropped is replaced, or given up.     *)
DropIsNoticed ==
    \A s \in Sockets :
        Watching /\ stream.ws = s /\ socket[s] = "dropped" ~>
            stream.ws # s \/ reconnect.retries = MaxRetries \/ ~Watching
=============================================================================
