------------------------- MODULE MarketStreamProofs -------------------------
(***************************************************************************)
(* What the stream's runs check, proved for any number of connections,     *)
(* messages, retries and symbols, with or without a monitor.               *)
(***************************************************************************)
EXTENDS MarketStream, SequenceTheorems, TLAPS

-----------------------------------------------------------------------------
(***************************************************************************)
(* Who is where.                                                           *)
(***************************************************************************)

Tearing(p) == pc[p] \in {"awaiting", "closing"}

(* Only the runner and stop() disconnect the stream, and stop() does it    *)
(* when both tasks are over: no two disconnects overlap.                   *)
TurnsTaken ==
    /\ pc["stop"] \in {"off", "gathering", "awaiting", "closing"}
    /\ pc["monitor"] \notin {"awaiting", "closing", "reading", "dispatching", "gathering"}
    /\ pc["runner"] \notin {"sleeping", "backoff", "retrying", "gathering"}
    /\ running => pc["stop"] = "off" /\ pc["runner"] # "cancelled" /\ pc["monitor"] # "cancelled"
    /\ ~running => pc["runner"] \in {"off", "cancelled", "awaiting", "closing"}
                   /\ pc["monitor"] \in {"off", "cancelled"}
    /\ ~running /\ pc["stop"] # "gathering" => pc["runner"] = "off" /\ pc["monitor"] = "off"

(* An attempt is under way only while some are left. *)
AttemptsLeft == pc["monitor"] \in {"backoff", "retrying"} => reconnect.retries < MaxRetries

(* The stream has a socket exactly while it says it is connected, and      *)
(* stop() has put its running flag down.                                   *)
FlagsAgree ==
    /\ stream.connected <=> stream.ws # None
    /\ ~running /\ pc["stop"] # "gathering" => ~stream.running
    /\ Stopped => stream.ws = None
    /\ stream.task # None => loop[stream.task].phase # "none"

(* Unless a connection was made over another, the socket at hand is the    *)
(* only one that can be open, its loop the only one alive, and it is the   *)
(* one a disconnect waits for.                                             *)
OneConnection ==
    ~overlap =>
        /\ stream.ws # None => stream.task = stream.ws
        /\ \A s \in Sockets : s # stream.ws =>
               socket[s] # "open" /\ loop[s].phase \in {"none", "done"}
        /\ \A p \in Process :
               /\ Tearing(p) => stream.ws # None /\ awaited[p] = stream.ws
               /\ pc[p] = "closing" => loop[stream.ws].phase = "done"

(* Only a task that publishes, or was cancelled while it did, holds an     *)
(* event.                                                                  *)
HandIsUsed == hand # <<>> => pc["runner"] \in {"dispatching", "cancelled"}

DroppedWasReceived == dropped \subseteq 1..received

StreamInductive ==
    /\ TypeOK /\ TurnsTaken /\ AttemptsLeft /\ FlagsAgree /\ OneConnection
    /\ HandIsUsed /\ DroppedWasReceived /\ NothingLost

-----------------------------------------------------------------------------
(***************************************************************************)
(* Types.                                                                  *)
(***************************************************************************)

StreamState == [ws : Sockets \cup {None}, connected : BOOLEAN, running : BOOLEAN,
                task : Sockets \cup {None}, subscribed : SUBSET Symbols]

LoopState == [phase : {"none", "ready", "waiting", "cancelled", "done"},
              on : Sockets \cup {None}]

ManagerState == [running : BOOLEAN, retries : 0..MaxRetries, last : BOOLEAN]

(* What connect and disconnect do to the stream, whoever calls them. *)
LEMMA EstablishedTyped ==
    ASSUME TypeOK, NEW s \in Sockets, Established(s)
    PROVE  /\ stream' \in StreamState
           /\ loop' \in [Sockets -> LoopState]
           /\ socket' \in [Sockets -> {"none", "open", "dropped", "closed"}]
           /\ told' \in [Sockets -> SUBSET Symbols]
           /\ overlap' \in BOOLEAN
  BY DEF TypeOK, StreamState, LoopState, Established, Disconnecting, Process

LEMMA ClosesTyped ==
    ASSUME TypeOK, NEW p \in Process, Closes(p)
    PROVE  /\ pc' \in [Process -> Place]
           /\ awaited' \in [Process -> Sockets \cup {None}]
           /\ stream' \in StreamState
<1>1. stream \in StreamState
  BY DEF TypeOK, StreamState
<1>2. stream' \in StreamState
  BY <1>1 DEF Closes, StreamState
<1>3. QED
  BY <1>1, <1>2 DEF TypeOK, Closes, Goes, Place, StreamState

LEMMA DisconnectTyped ==
    ASSUME TypeOK, NEW p \in Process, BeginsDisconnect(p)
    PROVE  /\ pc' \in [Process -> Place]
           /\ awaited' \in [Process -> Sockets \cup {None}]
           /\ stream' \in StreamState
           /\ loop' \in [Sockets -> LoopState]
           /\ UNCHANGED <<socket, told, overlap>>
<1>1. CASE stream.task = None \/ loop[stream.task].phase = "done"
  BY <1>1, ClosesTyped DEF BeginsDisconnect, TypeOK, LoopState
<1>2. CASE ~(stream.task = None \/ loop[stream.task].phase = "done")
  <2>1. /\ stream.task \in Sockets
        /\ stream' = [stream EXCEPT !.running = FALSE]
        /\ loop' = [loop EXCEPT ![stream.task] = [phase |-> "cancelled", on |-> None]]
        /\ awaited' = [awaited EXCEPT ![p] = stream.task]
        /\ Goes(p, "awaiting")
        /\ UNCHANGED <<socket, told, overlap>>
    BY <1>2 DEF BeginsDisconnect, TypeOK
  <2>2. QED
    BY <2>1 DEF TypeOK, Goes, Place, StreamState, LoopState
<1>3. QED
  BY <1>1, <1>2

(* The ways the monitor goes on. *)
LEMMA MonitorTyped ==
    ASSUME StreamConstants, TypeOK,
           \/ MonitorReturns
           \/ MonitorConnected
           \/ MonitorSucceeds
           \/ \E last \in BOOLEAN : Reconnect(last)
           \/ \E place \in Place : Goes("monitor", place) /\ UNCHANGED reconnect
    PROVE  pc' \in [Process -> Place] /\ reconnect' \in ManagerState
<1>1. reconnect \in ManagerState /\ pc \in [Process -> Place] /\ 0 \in 0..MaxRetries
  BY DEF TypeOK, ManagerState, StreamConstants
<1>2. MonitorReturns => pc' \in [Process -> Place] /\ reconnect' \in ManagerState
  BY <1>1 DEF MonitorReturns, Goes, Place, ManagerState
<1>3. MonitorConnected => pc' \in [Process -> Place] /\ reconnect' \in ManagerState
  BY <1>1 DEF MonitorConnected, Goes, Place, ManagerState
<1>4. ASSUME MonitorSucceeds
      PROVE  pc' \in [Process -> Place] /\ reconnect' \in ManagerState
  <2>1. CASE reconnect.last
    <3>1. pc' = [pc EXCEPT !["monitor"] = "off"] /\ "off" \in Place
      BY <1>4, <2>1 DEF MonitorSucceeds, Goes, Place
    <3>2. reconnect' = [running |-> FALSE, retries |-> 0, last |-> FALSE]
      BY <1>4, <2>1 DEF MonitorSucceeds
    <3>3. QED
      BY <1>1, <3>1, <3>2 DEF ManagerState
  <2>2. CASE ~reconnect.last
    BY <1>3, <1>4, <2>2 DEF MonitorSucceeds
  <2>3. QED
    BY <2>1, <2>2
<1>5. ASSUME NEW last \in BOOLEAN, Reconnect(last)
      PROVE  pc' \in [Process -> Place] /\ reconnect' \in ManagerState
  BY <1>1, <1>2, <1>5 DEF Reconnect, Goes, Place, ManagerState
<1>6. QED
  BY <1>1, <1>2, <1>3, <1>4, <1>5 DEF Goes

(* TypeOK is kept by every step. *)
LEMMA TypeKept ==
    ASSUME StreamConstants, TypeOK, AttemptsLeft, [Next]_vars
    PROVE  TypeOK'
<1>1. CASE Start
  BY <1>1 DEF Start, TypeOK, Process, Place, connections, events
<1>2. CASE Stop
  BY <1>2 DEF Stop, Cancelled, TypeOK, Process, Place, connections, events
<1>3. CASE StartReconnectManager
  BY <1>3 DEF StartReconnectManager, TypeOK, StreamConstants, connections, events
<1>4. ASSUME NEW symbol \in Symbols, Subscribe(symbol) \/ Unsubscribe(symbol)
      PROVE  TypeOK'
  <2>1. stream' \in StreamState /\ told' \in [Sockets -> SUBSET Symbols]
    BY <1>4 DEF Subscribe, Unsubscribe, TypeOK, StreamState
  <2>2. QED
    BY <1>4, <2>1 DEF Subscribe, Unsubscribe, TypeOK, StreamState, events
<1>5. CASE RunnerBegins
  BY <1>5 DEF RunnerBegins, Goes, TypeOK, Place, connections, events
<1>6. CASE RunnerConnects
  BY <1>6, EstablishedTyped DEF StreamState, LoopState, RunnerConnects, Goes, TypeOK, Place, events
<1>7. CASE RunnerLeaves
  <2>1. hand' \in Seq(1..MaxMessages) /\ Len(hand') <= 1 /\ dropped' \subseteq 1..MaxMessages
    <3>1. hand' = <<>> /\ dropped' = dropped \cup {hand[i] : i \in DOMAIN hand}
      BY <1>7 DEF RunnerLeaves
    <3>2. {hand[i] : i \in DOMAIN hand} \subseteq 1..MaxMessages
      BY DEF TypeOK
    <3>3. <<>> \in Seq(1..MaxMessages) /\ Len(<<>>) <= 1
      OBVIOUS
    <3>4. QED
      BY <3>1, <3>2, <3>3 DEF TypeOK
  <2>2. QED
    BY <1>7, <2>1, DisconnectTyped DEF StreamState, LoopState, RunnerLeaves, TypeOK, Process
<1>8. CASE RunnerTakes
  <2>1. /\ hand' \in Seq(1..MaxMessages) /\ Len(hand') <= 1
        /\ queue' \in Seq(1..MaxMessages)
    BY <1>8 DEF RunnerTakes, TypeOK
  <2>2. QED
    BY <1>8, <2>1 DEF RunnerTakes, Goes, TypeOK, Place, connections
<1>9. CASE RunnerDispatches
  <2>1. /\ hand' \in Seq(1..MaxMessages) /\ Len(hand') <= 1
        /\ dispatched' \in Seq(1..MaxMessages)
    BY <1>9 DEF RunnerDispatches, TypeOK
  <2>2. QED
    BY <1>9, <2>1 DEF RunnerDispatches, Goes, TypeOK, Place, connections
<1>10. CASE MonitorBegins \/ MonitorFails \/ MonitorWakes \/ BackoffPasses \/ MonitorCancelled
  <2>1. pc' \in [Process -> Place] /\ reconnect' \in ManagerState
    <3>1. MonitorBegins => \/ MonitorReturns \/ MonitorConnected
                           \/ \E place \in Place : Goes("monitor", place) /\ UNCHANGED reconnect
      BY DEF MonitorBegins, Place
    <3>2. MonitorFails \/ MonitorWakes => \E last \in BOOLEAN : Reconnect(last)
      BY DEF MonitorFails, MonitorWakes
    <3>3. BackoffPasses => \/ MonitorSucceeds
                           \/ \E place \in Place : Goes("monitor", place) /\ UNCHANGED reconnect
      BY DEF BackoffPasses, Place
    <3>4. QED
      BY <1>10, <3>1, <3>2, <3>3, MonitorTyped DEF MonitorCancelled
  <2>2. QED
    BY <1>10, <2>1
    DEF ManagerState, MonitorBegins, MonitorFails, MonitorWakes, BackoffPasses, MonitorCancelled,
        TypeOK, connections, events
<1>11. CASE MonitorConnects
  <2>1. pc' \in [Process -> Place] /\ reconnect' \in ManagerState
    BY <1>11, MonitorTyped DEF MonitorConnects
  <2>2. QED
    BY <1>11, <2>1, EstablishedTyped DEF StreamState, LoopState, ManagerState, MonitorConnects, TypeOK, events
<1>12. CASE RetryFails
  <2>1. reconnect.retries + 1 \in 0..MaxRetries
    BY <1>12 DEF RetryFails, AttemptsLeft, TypeOK, StreamConstants
  <2>2. QED
    BY <1>12, <2>1 DEF RetryFails, Goes, TypeOK, Place, connections, events
<1>13. ASSUME NEW s \in Sockets, LoopStarts(s) \/ LoopEnds(s)
       PROVE  TypeOK'
  <2>1. loop' \in [Sockets -> LoopState]
    BY <1>13 DEF LoopStarts, LoopEnds, NextTurn, TypeOK, LoopState
  <2>2. QED
    BY <1>13, <2>1 DEF LoopStarts, LoopEnds, TypeOK, LoopState, events
<1>14. ASSUME NEW p \in Process, LoopHasEnded(p)
       PROVE  TypeOK'
  BY <1>14, ClosesTyped DEF LoopHasEnded, TypeOK, StreamState, events
<1>15. ASSUME NEW p \in Process, SocketClosed(p)
       PROVE  TypeOK'
  BY <1>15 DEF SocketClosed, Goes, TypeOK, Place, events
<1>16. CASE Gathered
  BY <1>16, DisconnectTyped DEF StreamState, LoopState, Gathered, TypeOK, Process, events
<1>17. ASSUME NEW s \in Sockets, Receives(s)
       PROVE  TypeOK'
  <2>1. received + 1 \in 1..MaxMessages
    BY <1>17 DEF Receives, TypeOK, StreamConstants
  <2>2. queue' \in Seq(1..MaxMessages) /\ received' \in 0..MaxMessages
    BY <1>17, <2>1 DEF Receives, TypeOK
  <2>3. QED
    BY <1>17, <2>2 DEF Receives, NextTurn, TypeOK
<1>18. ASSUME NEW s \in Sockets, ConnectionDrops(s)
       PROVE  TypeOK'
  BY <1>18 DEF ConnectionDrops, TypeOK, events
<1>19. CASE UNCHANGED vars
  BY <1>19 DEF vars, connections, events, TypeOK
<1>20. QED
  BY <1>1, <1>2, <1>3, <1>4, <1>5, <1>6, <1>7, <1>8, <1>9, <1>10, <1>11, <1>12, <1>13,
     <1>14, <1>15, <1>16, <1>17, <1>18, <1>19
  DEF Next, RunnerStep, MonitorStep, LoopStep, DisconnectStep

-----------------------------------------------------------------------------
(***************************************************************************)
(* Whose turn it is, and the attempts that are left.                       *)
(***************************************************************************)

(* A disconnect takes its caller nowhere but into its own two waits. *)
LEMMA DisconnectGoes ==
    ASSUME TypeOK, NEW p \in Process, BeginsDisconnect(p)
    PROVE  /\ pc'[p] \in {"off", "awaiting", "closing"}
           /\ \A q \in Process \ {p} : pc'[q] = pc[q] /\ awaited'[q] = awaited[q]
  BY DEF TypeOK, BeginsDisconnect, Closes, Goes

(* The monitor goes where the monitor goes. *)
MonitorPlaces == {"off", "created", "connecting", "sleeping", "backoff", "retrying", "cancelled"}

LEMMA MonitorGoes ==
    ASSUME TypeOK, TurnsTaken, MonitorStep
    PROVE  /\ pc["monitor"] \in {"created", "connecting", "sleeping", "backoff", "retrying",
                                 "cancelled"}
           /\ pc'["monitor"] \in MonitorPlaces \ {"created", "cancelled"}
           /\ pc["monitor"] = "cancelled" => pc'["monitor"] = "off"
           /\ \A p \in {"runner", "stop"} : pc'[p] = pc[p]
           /\ UNCHANGED <<running, awaited, events>>
  <1>1. pc \in [Process -> Place]
    BY DEF TypeOK
  <1>2. QED
    BY <1>1
    DEF MonitorStep, MonitorBegins, MonitorConnects, MonitorFails, MonitorWakes, BackoffPasses,
        RetryFails, MonitorCancelled, MonitorReturns, MonitorConnected, MonitorSucceeds,
        Reconnect, Goes, MonitorPlaces, Process

LEMMA TurnsKept ==
    ASSUME TypeOK, TurnsTaken, [Next]_vars
    PROVE  TurnsTaken'
<1>1. pc \in [Process -> Place] /\ running \in BOOLEAN
  BY DEF TypeOK
<1>2. CASE Start
  BY <1>1, <1>2 DEF Start, TurnsTaken, Process
<1>3. CASE Stop
  BY <1>1, <1>3 DEF Stop, Cancelled, TurnsTaken, Process, Place
<1>4. CASE RunnerBegins \/ RunnerConnects \/ RunnerTakes \/ RunnerDispatches
  BY <1>1, <1>4
  DEF RunnerBegins, RunnerConnects, RunnerTakes, RunnerDispatches, Goes, TurnsTaken, Process
<1>5. CASE RunnerLeaves
  BY <1>1, <1>5, DisconnectGoes DEF RunnerLeaves, TurnsTaken, Process
<1>6. CASE MonitorStep
  BY <1>1, <1>6, MonitorGoes DEF TurnsTaken, MonitorPlaces
<1>7. ASSUME NEW p \in Process, LoopHasEnded(p) \/ SocketClosed(p)
      PROVE  TurnsTaken'
  BY <1>1, <1>7 DEF LoopHasEnded, SocketClosed, Closes, Goes, TurnsTaken, Process
<1>8. CASE Gathered
  BY <1>1, <1>8, DisconnectGoes DEF Gathered, TurnsTaken, Process
<1>9. CASE UNCHANGED <<running, pc>>
  BY <1>9 DEF TurnsTaken
<1>10. QED
  BY <1>2, <1>3, <1>4, <1>5, <1>6, <1>7, <1>8, <1>9
  DEF Next, RunnerStep, LoopStep, DisconnectStep, StartReconnectManager, Subscribe,
      Unsubscribe, LoopStarts, LoopEnds, Receives, ConnectionDrops, vars

LEMMA AttemptsKept ==
    ASSUME StreamConstants, TypeOK, TurnsTaken, AttemptsLeft, [Next]_vars
    PROVE  AttemptsLeft'
<1>1. /\ pc \in [Process -> Place]
      /\ reconnect \in ManagerState
      /\ MaxRetries \in Nat
  BY DEF TypeOK, ManagerState, StreamConstants
<1>2. CASE Start \/ Stop
  BY <1>1, <1>2 DEF Start, Stop, Cancelled, AttemptsLeft, Process
<1>3. CASE StartReconnectManager
  BY <1>1, <1>3 DEF StartReconnectManager, AttemptsLeft, ManagerState
<1>4. CASE MonitorStep
  BY <1>1, <1>4
  DEF MonitorStep, MonitorBegins, MonitorConnects, MonitorFails, MonitorWakes, BackoffPasses,
      RetryFails, MonitorCancelled, MonitorReturns, MonitorConnected, MonitorSucceeds,
      Reconnect, Goes, Process, ManagerState, AttemptsLeft
<1>5. CASE pc'["monitor"] = pc["monitor"] /\ UNCHANGED reconnect
  BY <1>5 DEF AttemptsLeft
<1>6. CASE Gathered
  BY <1>1, <1>6, DisconnectGoes DEF Gathered, AttemptsLeft, ManagerState, Process
<1>7. CASE RunnerLeaves
  BY <1>5, <1>7, DisconnectGoes DEF RunnerLeaves, Process
<1>8. CASE RunnerBegins \/ RunnerConnects \/ RunnerTakes \/ RunnerDispatches
  BY <1>1, <1>5, <1>8
  DEF RunnerBegins, RunnerConnects, RunnerTakes, RunnerDispatches, Goes, Process
<1>9. ASSUME NEW p \in Process, LoopHasEnded(p) \/ SocketClosed(p)
      PROVE  AttemptsLeft'
  BY <1>1, <1>5, <1>9 DEF LoopHasEnded, SocketClosed, Closes, Goes, TurnsTaken, Process
<1>10. QED
  BY <1>2, <1>3, <1>4, <1>5, <1>6, <1>7, <1>8, <1>9
  DEF Next, RunnerStep, LoopStep, DisconnectStep, Subscribe, Unsubscribe, LoopStarts,
      LoopEnds, Receives, ConnectionDrops, vars

-----------------------------------------------------------------------------
(***************************************************************************)
(* The flags.                                                              *)
(***************************************************************************)

LEMMA DisconnectFlags ==
    ASSUME TypeOK, FlagsAgree, NEW p \in Process, BeginsDisconnect(p)
    PROVE  /\ stream'.connected <=> stream'.ws # None
           /\ stream'.task # None => loop'[stream'.task].phase # "none"
<1>1. stream \in StreamState /\ loop \in [Sockets -> LoopState]
  BY DEF TypeOK, StreamState, LoopState
<1>2. CASE stream.task = None \/ loop[stream.task].phase = "done"
  BY <1>1, <1>2 DEF BeginsDisconnect, Closes, StreamState, FlagsAgree
<1>3. CASE ~(stream.task = None \/ loop[stream.task].phase = "done")
  BY <1>1, <1>3 DEF BeginsDisconnect, StreamState, FlagsAgree
<1>4. QED
  BY <1>2, <1>3

LEMMA FlagsKept ==
    ASSUME TypeOK, TurnsTaken, FlagsAgree, [Next]_vars
    PROVE  FlagsAgree'
<1>1. /\ pc \in [Process -> Place] /\ running \in BOOLEAN
      /\ stream \in StreamState /\ loop \in [Sockets -> LoopState]
  BY DEF TypeOK, StreamState, LoopState
<1>2. CASE Start \/ Stop
  BY <1>1, <1>2 DEF Start, Stop, FlagsAgree, Stopped, connections, Process
<1>3. CASE RunnerBegins \/ RunnerTakes \/ RunnerDispatches
  BY <1>1, <1>3
  DEF RunnerBegins, RunnerTakes, RunnerDispatches, Goes, FlagsAgree, Stopped, connections, Process
<1>4. ASSUME NEW s \in Sockets, Established(s), running, UNCHANGED running
      PROVE  FlagsAgree'
  BY <1>1, <1>4 DEF Established, FlagsAgree, Stopped, StreamState, LoopState, Sockets, None
<1>5. CASE RunnerConnects \/ MonitorConnects
  <2>1. running /\ UNCHANGED running
    BY <1>5 DEF RunnerConnects, MonitorConnects, TurnsTaken
  <2>2. QED
    BY <1>4, <1>5, <2>1 DEF RunnerConnects, MonitorConnects
<1>6. CASE MonitorStep /\ ~MonitorConnects
  <2>1. UNCHANGED <<running, stream, loop>> /\ pc'["stop"] = pc["stop"]
    BY <1>6, MonitorGoes
    DEF MonitorStep, MonitorBegins, MonitorFails, MonitorWakes, BackoffPasses, RetryFails,
        MonitorCancelled, connections
  <2>2. QED
    BY <2>1 DEF FlagsAgree, Stopped
<1>7. CASE RunnerLeaves
  <2>1. pc'["stop"] = pc["stop"] /\ UNCHANGED running /\ pc["runner"] # "awaiting"
    BY <1>7, DisconnectGoes DEF RunnerLeaves, Process
  <2>2. pc["stop"] \in {"off", "gathering"} /\ ~Stopped
    BY <1>7 DEF RunnerLeaves, TurnsTaken, Stopped
  <2>3. stream' \in StreamState /\ ~stream'.running /\ loop' \in [Sockets -> LoopState]
    BY <1>1, <1>7, <2>1, DisconnectTyped
    DEF RunnerLeaves, BeginsDisconnect, Closes, StreamState, Process
  <2>4. /\ stream'.connected <=> stream'.ws # None
        /\ stream'.task # None => loop'[stream'.task].phase # "none"
    BY <1>7, DisconnectFlags DEF RunnerLeaves, Process
  <2>5. QED
    BY <2>1, <2>2, <2>3, <2>4 DEF FlagsAgree, Stopped
<1>8. CASE Gathered
  <2>1. UNCHANGED running /\ pc["stop"] = "gathering" /\ ~running
    BY <1>8 DEF Gathered, TurnsTaken
  <2>2. ~stream'.running
    BY <1>1, <1>8, <2>1 DEF Gathered, BeginsDisconnect, Closes, StreamState
  <2>3. /\ stream'.connected <=> stream'.ws # None
        /\ stream'.task # None => loop'[stream'.task].phase # "none"
    BY <1>8, DisconnectFlags DEF Gathered, Process
  <2>4. pc'["stop"] = "off" => stream'.ws = None
    BY <1>1, <1>8 DEF Gathered, BeginsDisconnect, Closes, Goes, StreamState, Process
  <2>5. QED
    BY <2>1, <2>2, <2>3, <2>4 DEF FlagsAgree, Stopped
<1>9. ASSUME NEW p \in Process, LoopHasEnded(p)
      PROVE  FlagsAgree'
  <2>1. UNCHANGED <<running, loop>> /\ pc[p] = "awaiting"
    BY <1>9 DEF LoopHasEnded
  <2>2. /\ stream'.connected <=> stream'.ws # None
        /\ stream'.task = stream.task /\ stream'.ws = stream.ws
        /\ stream'.running = stream.running
    BY <1>1, <1>9, <2>1 DEF LoopHasEnded, Closes, StreamState, FlagsAgree
  <2>3. /\ pc'["stop"] # "gathering" => pc["stop"] # "gathering"
        /\ pc'["stop"] = "off" => pc["stop"] = "off" \/ stream.ws = None
    BY <1>1, <1>9 DEF LoopHasEnded, Closes, Goes, Process
  <2>4. QED
    BY <2>1, <2>2, <2>3 DEF FlagsAgree, Stopped
<1>10. ASSUME NEW p \in Process, SocketClosed(p)
       PROVE  FlagsAgree'
  <2>1. UNCHANGED <<running, loop>> /\ pc[p] = "closing"
    BY <1>10 DEF SocketClosed
  <2>2. stream' = [stream EXCEPT !.ws = None, !.connected = FALSE]
    BY <1>10 DEF SocketClosed
  <2>3. pc'["stop"] # "gathering" => pc["stop"] # "gathering"
    BY <1>1, <1>10 DEF SocketClosed, Goes, Process
  <2>4. QED
    BY <1>1, <2>1, <2>2, <2>3 DEF FlagsAgree, Stopped, StreamState
<1>11. ASSUME NEW s \in Sockets, LoopStarts(s) \/ LoopEnds(s) \/ Receives(s)
       PROVE  FlagsAgree'
  <2>1. UNCHANGED <<running, pc, stream>>
    BY <1>11 DEF LoopStarts, LoopEnds, Receives
  <2>2. \A t \in Sockets : loop[t].phase # "none" => loop'[t].phase # "none"
    BY <1>1, <1>11 DEF LoopStarts, LoopEnds, Receives, NextTurn, LoopState
  <2>3. QED
    BY <1>1, <2>1, <2>2 DEF FlagsAgree, Stopped, StreamState
<1>12. CASE UNCHANGED <<running, pc, stream, loop>>
  BY <1>12 DEF FlagsAgree, Stopped
<1>13. ASSUME NEW symbol \in Symbols, Subscribe(symbol) \/ Unsubscribe(symbol)
       PROVE  FlagsAgree'
  BY <1>1, <1>13 DEF Subscribe, Unsubscribe, FlagsAgree, Stopped, StreamState
<1>14. QED
  BY <1>2, <1>3, <1>5, <1>6, <1>7, <1>8, <1>9, <1>10, <1>11, <1>12, <1>13
  DEF Next, RunnerStep, MonitorStep, LoopStep, DisconnectStep, StartReconnectManager,
      ConnectionDrops, vars, connections

-----------------------------------------------------------------------------
(***************************************************************************)
(* One connection at a time.                                               *)
(***************************************************************************)

LEMMA OneConnectionKept ==
    ASSUME TypeOK, TurnsTaken, FlagsAgree, OneConnection, [Next]_vars
    PROVE  OneConnection'
<1>1. /\ pc \in [Process -> Place] /\ awaited \in [Process -> Sockets \cup {None}]
      /\ stream \in StreamState /\ loop \in [Sockets -> LoopState]
      /\ socket \in [Sockets -> {"none", "open", "dropped", "closed"}]
      /\ None \notin Sockets
  BY DEF TypeOK, StreamState, LoopState, Sockets, None
<1>2. SUFFICES ASSUME ~overlap' PROVE OneConnection'
  BY DEF OneConnection
<1>3. CASE Start \/ Stop
  BY <1>1, <1>2, <1>3
  DEF Start, Stop, Cancelled, OneConnection, Tearing, connections, Process
<1>4. CASE RunnerBegins \/ RunnerTakes \/ RunnerDispatches
  BY <1>1, <1>2, <1>4
  DEF RunnerBegins, RunnerTakes, RunnerDispatches, Goes, OneConnection, Tearing, connections, Process
<1>5. ASSUME NEW s \in Sockets, Established(s), NEW q \in Process,
             \A p \in Process \ {q} : pc'[p] = pc[p],
             pc'[q] \notin {"awaiting", "closing"}
      PROVE  OneConnection'
  <2>1. ~overlap /\ ~stream.connected /\ ~Disconnecting
    BY <1>2, <1>5 DEF Established
  <2>2. stream.ws = None
    BY <2>1 DEF FlagsAgree
  <2>3. \A p \in Process : ~(pc'[p] \in {"awaiting", "closing"})
    BY <1>5, <2>1 DEF Disconnecting
  <2>4. stream'.ws = s /\ stream'.task = s
    BY <1>1, <1>5 DEF Established, StreamState
  <2>5. \A t \in Sockets \ {s} : socket'[t] # "open" /\ loop'[t].phase \in {"none", "done"}
    BY <1>1, <1>5, <2>1, <2>2 DEF Established, OneConnection
  <2>6. QED
    BY <2>3, <2>4, <2>5 DEF OneConnection, Tearing
<1>6. CASE RunnerConnects
  BY <1>1, <1>5, <1>6 DEF RunnerConnects, Goes, Process
<1>7. CASE MonitorConnects
  <2>1. /\ pc'["monitor"] \notin {"awaiting", "closing"}
        /\ \A p \in Process \ {"monitor"} : pc'[p] = pc[p]
    BY <1>7, MonitorGoes DEF MonitorStep, MonitorPlaces, Process
  <2>2. QED
    BY <1>5, <1>7, <2>1 DEF MonitorConnects, Process
<1>8. CASE MonitorStep /\ ~MonitorConnects
  <2>1. UNCHANGED <<awaited, connections>>
    BY <1>8
    DEF MonitorStep, MonitorBegins, MonitorFails, MonitorWakes, BackoffPasses, RetryFails,
        MonitorCancelled
  <2>2. /\ pc'["monitor"] \notin {"awaiting", "closing"}
        /\ \A p \in Process \ {"monitor"} : pc'[p] = pc[p]
    BY <1>8, MonitorGoes DEF MonitorPlaces, Process
  <2>3. QED
    BY <1>2, <2>1, <2>2 DEF OneConnection, Tearing, connections
<1>9. ASSUME NEW p \in Process, Closes(p), UNCHANGED <<loop, socket, overlap>>,
             stream.ws # None => loop[stream.ws].phase = "done",
             \A q \in Process \ {p} : ~Tearing(q)
      PROVE  OneConnection'
  <2>1. stream'.ws = stream.ws /\ stream'.task = stream.task
    BY <1>1, <1>9 DEF Closes, StreamState
  <2>2. \A q \in Process \ {p} : ~Tearing(q)'
    BY <1>1, <1>9 DEF Closes, Goes, Tearing
  <2>3. Tearing(p)' => stream.ws # None /\ awaited'[p] = stream.ws
    BY <1>1, <1>9 DEF Closes, Goes, Tearing
  <2>4. QED
    BY <1>2, <1>9, <2>1, <2>2, <2>3 DEF OneConnection, Tearing
<1>10. ASSUME NEW p \in Process, BeginsDisconnect(p), ~Tearing(p),
              \A q \in Process \ {p} : ~Tearing(q)
       PROVE  OneConnection'
  <2>1. ~overlap
    BY <1>2, <1>10 DEF BeginsDisconnect
  <2>2. CASE stream.task = None \/ loop[stream.task].phase = "done"
    <3>1. Closes(p) /\ UNCHANGED <<loop, socket, overlap>>
      BY <1>10, <2>2 DEF BeginsDisconnect
    <3>2. stream.ws # None => loop[stream.ws].phase = "done"
      BY <2>1, <2>2 DEF OneConnection
    <3>3. QED
      BY <1>9, <1>10, <3>1, <3>2
  <2>3. CASE ~(stream.task = None \/ loop[stream.task].phase = "done")
    <3>1. /\ stream' = [stream EXCEPT !.running = FALSE]
          /\ loop' = [loop EXCEPT ![stream.task] = [phase |-> "cancelled", on |-> None]]
          /\ awaited' = [awaited EXCEPT ![p] = stream.task]
          /\ pc' = [pc EXCEPT ![p] = "awaiting"]
          /\ UNCHANGED <<socket, overlap>>
          /\ stream.task \in Sockets
      BY <1>1, <1>10, <2>3 DEF BeginsDisconnect, Goes, StreamState
    <3>2. stream.task = stream.ws
      BY <2>1, <2>3, <3>1 DEF OneConnection, FlagsAgree
    <3>3. stream'.ws = stream.ws /\ stream'.task = stream.task
      BY <1>1, <3>1 DEF StreamState
    <3>4. /\ Tearing(p)' /\ awaited'[p] = stream.ws /\ pc'[p] # "closing"
          /\ \A q \in Process \ {p} : ~Tearing(q)'
      BY <1>1, <1>10, <3>1, <3>2 DEF Tearing
    <3>5. \A t \in Sockets : t # stream.ws =>
              socket'[t] # "open" /\ loop'[t].phase \in {"none", "done"}
      BY <1>1, <2>1, <3>1, <3>2 DEF OneConnection
    <3>6. QED
      BY <1>1, <3>1, <3>2, <3>3, <3>4, <3>5 DEF OneConnection, Tearing
  <2>4. QED
    BY <2>2, <2>3
<1>11. CASE RunnerLeaves \/ Gathered
  <2>1. PICK p \in {"runner", "stop"} :
            BeginsDisconnect(p) /\ \A q \in Process : ~Tearing(q)
    BY <1>11 DEF RunnerLeaves, Gathered, Tearing, TurnsTaken, Process
  <2>2. QED
    BY <1>10, <2>1 DEF Process
<1>12. ASSUME NEW p \in Process, Tearing(p), NEW q \in Process \ {p}
       PROVE  ~Tearing(q)
  BY <1>12 DEF Tearing, TurnsTaken, Process
<1>13. ASSUME NEW p \in Process, LoopHasEnded(p)
       PROVE  OneConnection'
  <2>1. Tearing(p) /\ Closes(p) /\ UNCHANGED <<loop, socket, overlap>>
    BY <1>13 DEF LoopHasEnded, Tearing
  <2>2. stream.ws # None => loop[stream.ws].phase = "done"
    BY <1>2, <1>13, <2>1 DEF LoopHasEnded, OneConnection
  <2>3. QED
    BY <1>9, <1>12, <2>1, <2>2
<1>14. ASSUME NEW p \in Process, SocketClosed(p)
       PROVE  OneConnection'
  <2>1. Tearing(p) /\ pc[p] = "closing" /\ UNCHANGED <<loop, overlap>>
    BY <1>14 DEF SocketClosed, Tearing
  <2>2. /\ awaited[p] = stream.ws
        /\ loop[stream.ws].phase = "done"
        /\ \A s \in Sockets : s # stream.ws =>
               socket[s] # "open" /\ loop[s].phase \in {"none", "done"}
    BY <1>2, <2>1 DEF OneConnection
  <2>3. stream'.ws = None
    BY <1>1, <1>14 DEF SocketClosed, StreamState
  <2>4. \A s \in Sockets : socket'[s] # "open" /\ loop'[s].phase \in {"none", "done"}
    BY <1>1, <1>14, <2>1, <2>2 DEF SocketClosed
  <2>5. \A q \in Process : ~Tearing(q)'
    BY <1>1, <1>12, <1>14, <2>1 DEF SocketClosed, Goes, Tearing
  <2>6. QED
    BY <2>3, <2>4, <2>5 DEF OneConnection, Tearing
<1>15. ASSUME NEW s \in Sockets, LoopStarts(s) \/ LoopEnds(s) \/ Receives(s)
       PROVE  OneConnection'
  <2>1. UNCHANGED <<pc, awaited, stream, socket, overlap>>
    BY <1>15 DEF LoopStarts, LoopEnds, Receives
  <2>2. \A t \in Sockets : \/ loop'[t] = loop[t]
                            \/ loop'[t].phase = "done"
                            \/ loop[t].phase \in {"ready", "waiting"}
    BY <1>1, <1>15 DEF LoopStarts, LoopEnds, Receives, NextTurn
  <2>3. \A t \in Sockets : loop[t].phase \in {"none", "done"} =>
                               loop'[t].phase \in {"none", "done"}
    BY <2>2
  <2>4. \A t \in Sockets : loop[t].phase = "done" => loop'[t].phase = "done"
    BY <2>2
  <2>5. stream.ws \in Sockets \cup {None}
    BY <1>1 DEF StreamState
  <2>6. QED
    BY <1>2, <2>1, <2>3, <2>4, <2>5 DEF OneConnection, Tearing
<1>16. ASSUME NEW s \in Sockets, ConnectionDrops(s)
       PROVE  OneConnection'
  BY <1>1, <1>2, <1>16 DEF ConnectionDrops, OneConnection, Tearing
<1>17. ASSUME NEW symbol \in Symbols, Subscribe(symbol) \/ Unsubscribe(symbol)
       PROVE  OneConnection'
  BY <1>1, <1>2, <1>17 DEF Subscribe, Unsubscribe, OneConnection, Tearing, StreamState
<1>18. CASE UNCHANGED <<pc, awaited, connections>>
  BY <1>2, <1>18 DEF OneConnection, Tearing, connections
<1>19. QED
  BY <1>3, <1>4, <1>6, <1>7, <1>8, <1>11, <1>13, <1>14, <1>15, <1>16, <1>17, <1>18
  DEF Next, RunnerStep, LoopStep, DisconnectStep, StartReconnectManager, vars

-----------------------------------------------------------------------------
(***************************************************************************)
(* The events, in order.                                                   *)
(***************************************************************************)

Ascending(s) == \A i, k \in DOMAIN s : i < k => s[i] < s[k]

Members(s) == {s[i] : i \in DOMAIN s}

Known == dispatched \o hand \o queue

LEMMA NothingLostIs ==
    NothingLost <=> Ascending(Known) /\ Members(Known) = (1..received) \ dropped
  BY DEF NothingLost, Ascending, Members, Known

(* A later event comes last. *)
LEMMA AppendAscends ==
    ASSUME NEW n \in Nat, NEW s \in Seq(Nat), Ascending(s), Members(s) \subseteq 1..n
    PROVE  Ascending(Append(s, n + 1)) /\ Members(Append(s, n + 1)) = Members(s) \cup {n + 1}
<1> DEFINE t == Append(s, n + 1)
<1>1. /\ DOMAIN s = 1..Len(s) /\ Len(s) \in Nat
      /\ DOMAIN t = 1..(Len(s) + 1)
      /\ \A i \in 1..Len(s) : t[i] = s[i]
      /\ t[Len(s) + 1] = n + 1
  OBVIOUS
<1>2. \A i \in 1..Len(s) : s[i] \in 1..n
  BY <1>1 DEF Members
<1> HIDE DEF t
<1>3. Ascending(t)
  BY <1>1, <1>2 DEF Ascending
<1>4. Members(t) \subseteq Members(s) \cup {n + 1}
  <2> SUFFICES ASSUME NEW i \in DOMAIN t PROVE t[i] \in Members(s) \cup {n + 1}
    BY DEF Members
  <2>1. i \in 1..Len(s) \/ i = Len(s) + 1
    BY <1>1
  <2>2. QED
    BY <1>1, <2>1 DEF Members
<1>5. Members(s) \cup {n + 1} \subseteq Members(t)
  <2>1. \A i \in DOMAIN s : i \in DOMAIN t /\ t[i] = s[i]
    BY <1>1
  <2>2. Len(s) + 1 \in DOMAIN t
    BY <1>1
  <2>3. QED
    BY <1>1, <2>1, <2>2 DEF Members
<1>6. QED
  BY <1>3, <1>4, <1>5 DEF t

(* Where the i-th of the entries that are left was, before the one after   *)
(* the first m was taken out.                                              *)
Was(i, m) == IF i <= m THEN i ELSE i + 1

(* One event taken out of the middle leaves the others in order. *)
LEMMA DropAscends ==
    ASSUME NEW a \in Seq(Nat), NEW x \in Nat, NEW b \in Seq(Nat),
           Ascending(a \o <<x>> \o b)
    PROVE  Ascending(a \o b) /\ Members(a \o b) = Members(a \o <<x>> \o b) \ {x}
<1> DEFINE s == a \o <<x>> \o b
           t == a \o b
           m == Len(a)
           n == Len(b)
<1>1. \A i \in 1..m : s[i] = a[i] /\ t[i] = a[i]
  OBVIOUS
<1>2. \A i \in 1..n : s[m + 1 + i] = b[i] /\ t[m + i] = b[i]
  OBVIOUS
<1>3. s[m + 1] = x
  OBVIOUS
<1>4. DOMAIN s = 1..(m + 1 + n) /\ DOMAIN t = 1..(m + n)
  OBVIOUS
<1>5. m \in Nat /\ n \in Nat /\ Ascending(s) /\ \A i \in DOMAIN s : s[i] \in Nat
  OBVIOUS
<1> HIDE DEF s, t, m, n
<1>6. ASSUME NEW i \in DOMAIN t
      PROVE  Was(i, m) \in DOMAIN s \ {m + 1} /\ t[i] = s[Was(i, m)]
  <2>1. CASE i <= m
    BY <1>1, <1>4, <1>5, <2>1 DEF Was
  <2>2. CASE ~(i <= m)
    <3>1. i - m \in 1..n /\ m + (i - m) = i /\ m + 1 + (i - m) = i + 1
      BY <1>4, <1>5, <2>2
    <3>2. t[m + (i - m)] = s[m + 1 + (i - m)]
      BY <1>2, <3>1
    <3>3. QED
      BY <1>4, <1>5, <2>2, <3>1, <3>2 DEF Was
  <2>3. QED
    BY <2>1, <2>2
<1>7. ASSUME NEW k \in DOMAIN s \ {m + 1}
      PROVE  \E i \in DOMAIN t : Was(i, m) = k
  <2>1. CASE k <= m
    <3>1. k \in DOMAIN t /\ Was(k, m) = k
      BY <1>4, <1>5, <2>1 DEF Was
    <3>2. QED
      BY <3>1
  <2>2. CASE ~(k <= m)
    <3>1. k - 1 \in DOMAIN t /\ Was(k - 1, m) = k
      BY <1>4, <1>5, <2>2 DEF Was
    <3>2. QED
      BY <3>1
  <2>3. QED
    BY <2>1, <2>2
<1>8. \A i, k \in DOMAIN t : i < k => Was(i, m) < Was(k, m)
  BY <1>4, <1>5 DEF Was
<1>9. Ascending(t)
  BY <1>5, <1>6, <1>8 DEF Ascending
<1>10. ASSUME NEW k \in DOMAIN s \ {m + 1}
       PROVE  s[k] # x
  <2>1. m + 1 \in DOMAIN s /\ (k < m + 1 \/ m + 1 < k)
    BY <1>4, <1>5
  <2>2. s[k] < s[m + 1] \/ s[m + 1] < s[k]
    BY <1>5, <2>1 DEF Ascending
  <2>3. QED
    BY <1>3, <1>5, <2>2
<1>11. Members(t) \subseteq Members(s) \ {x}
  BY <1>6, <1>10 DEF Members
<1>12. Members(s) \ {x} \subseteq Members(t)
  <2> SUFFICES ASSUME NEW k \in DOMAIN s, s[k] # x PROVE s[k] \in Members(t)
    BY DEF Members
  <2>1. PICK i \in DOMAIN t : Was(i, m) = k
    BY <1>3, <1>7
  <2>2. QED
    BY <1>6, <2>1 DEF Members
<1>13. QED
  BY <1>9, <1>11, <1>12 DEF s, t

LEMMA SingleSeq ==
    ASSUME NEW s \in Seq(Nat), s # <<>>, Len(s) <= 1
    PROVE  Len(s) = 1 /\ s[1] \in Nat /\ s = <<s[1]>>
<1>1. Len(s) = 1
  <2>1. PICK n \in Nat \ {0} : n = Len(s)
    BY EmptySeq
  <2>2. n = 1
    BY <2>1
  <2>3. QED
    BY <2>1, <2>2
<1>2. s[1] \in Nat
  <2>1. 1 \in 1..Len(s)
    BY <1>1
  <2>2. QED
    BY <2>1, ElementOfSeq
<1>3. <<s[1]>> \in Seq(Nat) /\ Len(<<s[1]>>) = 1 /\ <<s[1]>>[1] = s[1]
  BY <1>2
<1>4. \A i \in 1..Len(s) : s[i] = <<s[1]>>[i]
  BY <1>1, <1>3
<1>5. QED
  BY <1>1, <1>2, <1>3, <1>4, SeqEqual

LEMMA EventsKept ==
    ASSUME StreamConstants, TypeOK, TurnsTaken, HandIsUsed, DroppedWasReceived, NothingLost,
           [Next]_vars
    PROVE  HandIsUsed' /\ DroppedWasReceived' /\ NothingLost'
<1>1. /\ pc \in [Process -> Place]
      /\ queue \in Seq(Nat) /\ hand \in Seq(Nat) /\ dispatched \in Seq(Nat)
      /\ Len(hand) <= 1
      /\ received \in Nat
  <2>1. 1..MaxMessages \subseteq Nat
    BY DEF StreamConstants
  <2>2. QED
    BY <2>1, SeqMonotonic DEF TypeOK
<1>2. Known \in Seq(Nat) /\ dispatched \o hand \in Seq(Nat)
  BY <1>1 DEF Known
<1>3. Ascending(Known) /\ Members(Known) = (1..received) \ dropped
  BY NothingLostIs
<1>4. ASSUME Known' = Known, UNCHANGED <<received, dropped>>, HandIsUsed'
      PROVE  HandIsUsed' /\ DroppedWasReceived' /\ NothingLost'
  BY <1>3, <1>4 DEF DroppedWasReceived, NothingLost, Known, Ascending, Members
<1>5. ASSUME UNCHANGED events, pc'["runner"] = pc["runner"]
      PROVE  HandIsUsed' /\ DroppedWasReceived' /\ NothingLost'
  BY <1>4, <1>5 DEF HandIsUsed, Known, events
<1>6. CASE Start \/ Stop
  <2>1. HandIsUsed'
    BY <1>1, <1>6
    DEF Start, Stop, Cancelled, TurnsTaken, HandIsUsed, events, Process
  <2>2. QED
    BY <1>4, <1>6, <2>1 DEF Start, Stop, Known, events
<1>7. CASE RunnerBegins \/ RunnerConnects
  <2>1. HandIsUsed'
    BY <1>7 DEF RunnerBegins, RunnerConnects, HandIsUsed, events
  <2>2. QED
    BY <1>4, <1>7, <2>1 DEF RunnerBegins, RunnerConnects, Known, events
<1>8. CASE RunnerLeaves
  <2>1. /\ hand' = <<>> /\ dropped' = dropped \cup Members(hand)
        /\ UNCHANGED <<queue, dispatched, received>>
    BY <1>8 DEF RunnerLeaves, Members
  <2>2. HandIsUsed'
    BY <2>1 DEF HandIsUsed
  <2>3. CASE hand = <<>>
    <3>1. Members(hand) = {}
      BY <2>3 DEF Members
    <3>2. QED
      BY <1>4, <2>1, <2>2, <2>3, <3>1 DEF Known
  <2>4. CASE hand # <<>>
    <3>1. PICK x \in Nat : hand = <<x>> /\ Members(hand) = {x}
      <4>1. Len(hand) = 1 /\ hand[1] \in Nat /\ hand = <<hand[1]>>
        BY <1>1, <2>4, SingleSeq
      <4>2. Members(hand) = {hand[1]}
        BY <1>1, <4>1 DEF Members
      <4>3. QED
        BY <4>1, <4>2
    <3>2. Known' = dispatched \o queue
      <4>1. dispatched \o <<>> = dispatched
        BY <1>1, ConcatEmptySeq
      <4>2. QED
        BY <2>1, <4>1 DEF Known
    <3>3. Ascending(dispatched \o queue) /\ Members(dispatched \o queue) = Members(Known) \ {x}
      BY <1>1, <1>3, <3>1, DropAscends DEF Known
    <3>4. x \in 1..received
      <4>1. Len(dispatched) + 1 \in DOMAIN Known /\ Known[Len(dispatched) + 1] = x
        BY <1>1, <3>1 DEF Known
      <4>2. QED
        BY <1>3, <4>1 DEF Members
    <3>5. DroppedWasReceived'
      BY <2>1, <3>1, <3>4 DEF DroppedWasReceived
    <3>6. Members(dispatched \o queue) = (1..received') \ dropped'
      <4>1. Members(dispatched \o queue) = ((1..received) \ dropped) \ {x}
        BY <1>3, <3>3
      <4>2. QED
        BY <2>1, <3>1, <4>1
    <3>7. Ascending(Known)' /\ Members(Known)' = (1..received') \ dropped'
      BY <3>2, <3>3, <3>6 DEF Ascending, Members
    <3>8. QED
      BY <2>2, <3>5, <3>7 DEF NothingLost, Known, Ascending, Members
  <2>5. QED
    BY <2>3, <2>4
<1>9. CASE RunnerTakes
  <2>1. /\ hand = <<>> /\ queue # <<>>
        /\ hand' = <<Head(queue)>> /\ queue' = Tail(queue)
        /\ pc'["runner"] = "dispatching"
        /\ UNCHANGED <<dispatched, received, dropped>>
    BY <1>1, <1>9 DEF RunnerTakes, HandIsUsed, Goes, Process
  <2>2. <<Head(queue)>> \o Tail(queue) = queue
    BY <1>1, <2>1
  <2>3. Known' = Known
    <3>1. Known' = dispatched \o (<<Head(queue)>> \o Tail(queue))
      BY <1>1, <2>1, ConcatAssociative DEF Known
    <3>2. dispatched \o hand = dispatched
      BY <1>1, <2>1, ConcatEmptySeq
    <3>3. QED
      BY <2>2, <3>1, <3>2 DEF Known
  <2>4. QED
    BY <1>4, <2>1, <2>3 DEF HandIsUsed
<1>10. CASE RunnerDispatches
  <2>1. /\ dispatched' = dispatched \o hand /\ hand' = <<>>
        /\ UNCHANGED <<queue, received, dropped>>
    BY <1>10 DEF RunnerDispatches
  <2>2. Known' = Known
    BY <1>2, <2>1, ConcatEmptySeq DEF Known
  <2>3. QED
    BY <1>4, <2>1, <2>2 DEF HandIsUsed
<1>11. ASSUME NEW s \in Sockets, Receives(s)
       PROVE  HandIsUsed' /\ DroppedWasReceived' /\ NothingLost'
  <2>1. /\ received' = received + 1 /\ queue' = Append(queue, received + 1)
        /\ UNCHANGED <<pc, hand, dispatched, dropped>>
    BY <1>11 DEF Receives
  <2>2. Known' = Append(Known, received + 1)
    BY <1>1, <1>2, <2>1 DEF Known
  <2>3. Members(Known) \subseteq 1..received
    BY <1>3
  <2>4. Ascending(Append(Known, received + 1))
        /\ Members(Append(Known, received + 1)) = Members(Known) \cup {received + 1}
    BY <1>1, <1>2, <1>3, <2>3, AppendAscends
  <2>5. ((1..received) \ dropped) \cup {received + 1} = (1..(received + 1)) \ dropped
    BY <1>1 DEF DroppedWasReceived
  <2>6. HandIsUsed' /\ DroppedWasReceived'
    BY <1>1, <2>1 DEF HandIsUsed, DroppedWasReceived
  <2>7. Ascending(Known)' /\ Members(Known)' = (1..received') \ dropped'
    BY <1>3, <2>1, <2>2, <2>4, <2>5 DEF Ascending, Members
  <2>8. QED
    BY <2>6, <2>7 DEF NothingLost, Known, Ascending, Members
<1>12. CASE MonitorStep
  BY <1>5, <1>12, MonitorGoes
<1>13. CASE Gathered
  BY <1>5, <1>13, DisconnectGoes DEF Gathered, Process
<1>14. ASSUME NEW p \in Process, LoopHasEnded(p) \/ SocketClosed(p)
       PROVE  HandIsUsed' /\ DroppedWasReceived' /\ NothingLost'
  <2>1. UNCHANGED events /\ pc[p] \in {"awaiting", "closing"}
    BY <1>14 DEF LoopHasEnded, SocketClosed
  <2>2. pc'["runner"] = pc["runner"] \/ pc["runner"] \in {"awaiting", "closing"}
    BY <1>1, <1>14, <2>1 DEF LoopHasEnded, SocketClosed, Closes, Goes, Process
  <2>3. HandIsUsed'
    BY <2>1, <2>2 DEF HandIsUsed, events
  <2>4. QED
    BY <1>4, <2>1, <2>3 DEF Known, events
<1>15. QED
  BY <1>5, <1>6, <1>7, <1>8, <1>9, <1>10, <1>11, <1>12, <1>13, <1>14
  DEF Next, RunnerStep, LoopStep, DisconnectStep, StartReconnectManager, Subscribe,
      Unsubscribe, LoopStarts, LoopEnds, ConnectionDrops, vars

-----------------------------------------------------------------------------
(***************************************************************************)
(* The theorems.                                                           *)
(***************************************************************************)

(* Every state the stream reaches satisfies the inductive invariant.       *)
THEOREM StreamInvariant == Spec => []StreamInductive
<1>1. Init => StreamInductive
  <2> SUFFICES ASSUME Init PROVE StreamInductive
    OBVIOUS
  <2>1. TypeOK
    <3>1. /\ 0 \in 0..MaxRetries /\ 0 \in 0..MaxMessages
          /\ <<>> \in Seq(1..MaxMessages) /\ Len(<<>>) <= 1
      BY StreamConstants DEF StreamConstants
    <3>2. /\ running \in BOOLEAN /\ pc \in [Process -> Place]
          /\ awaited \in [Process -> Sockets \cup {None}]
          /\ stream \in StreamState
          /\ loop \in [Sockets -> LoopState]
          /\ socket \in [Sockets -> {"none", "open", "dropped", "closed"}]
          /\ told \in [Sockets -> SUBSET Symbols]
          /\ reconnect \in ManagerState
      BY <3>1 DEF Init, StreamState, LoopState, ManagerState, NoLoop, Place
    <3>3. QED
      BY <3>1, <3>2 DEF Init, TypeOK, StreamState, LoopState, ManagerState
  <2>2. TurnsTaken /\ AttemptsLeft /\ FlagsAgree /\ OneConnection /\ HandIsUsed
    BY DEF Init, TurnsTaken, AttemptsLeft, FlagsAgree, OneConnection, HandIsUsed, Stopped,
           Tearing, NoLoop, Process
  <2>3. DroppedWasReceived /\ NothingLost
    BY DEF Init, DroppedWasReceived, NothingLost
  <2>4. QED
    BY <2>1, <2>2, <2>3 DEF StreamInductive
<1>2. StreamInductive /\ [Next]_vars => StreamInductive'
  BY StreamConstants, TypeKept, TurnsKept, AttemptsKept, FlagsKept, OneConnectionKept,
     EventsKept
  DEF StreamInductive
<1>3. QED
  BY <1>1, <1>2, PTL DEF Spec

(* Every variable of the stream keeps its type; in particular the attempts *)
(* to reconnect never exceed max_retries (ReconnectManager._reconnect).    *)
THEOREM StreamTyped == Spec => []TypeOK
<1>1. StreamInductive => TypeOK
  BY DEF StreamInductive
<1>2. QED
  BY <1>1, StreamInvariant, PTL

(* When stop() has returned nothing of the stream is left, whatever the    *)
(* tasks were doing when it was called, and however the connections ended  *)
(* (StreamingManager.stop, WebSocketStream.disconnect).                    *)
THEOREM StopIsClean == Spec => []StopLeavesNothing
<1>1. StreamInductive => StopLeavesNothing
  <2> SUFFICES ASSUME StreamInductive, Stopped
               PROVE  /\ pc["runner"] = "off" /\ pc["monitor"] = "off"
                      /\ stream.ws = None /\ ~stream.connected /\ ~stream.running
                      /\ ~overlap => \A s \in Sockets : socket[s] # "open"
                                                    /\ loop[s].phase \in {"none", "done"}
    BY DEF StopLeavesNothing
  <2>1. stream.ws = None /\ ~stream.connected /\ ~stream.running
    BY DEF StreamInductive, FlagsAgree, Stopped
  <2>2. pc["runner"] = "off" /\ pc["monitor"] = "off"
    BY DEF StreamInductive, TurnsTaken, Stopped
  <2>3. ~overlap => \A s \in Sockets : socket[s] # "open"
                                     /\ loop[s].phase \in {"none", "done"}
    BY <2>1 DEF StreamInductive, OneConnection, Sockets, None
  <2>4. QED
    BY <2>1, <2>2, <2>3
<1>2. QED
  BY <1>1, StreamInvariant, PTL

(* The handlers see the events in the order they were received, each once, *)
(* and only those whose publication was cancelled are missing              *)
(* (_receive_loop, events, _run_stream).                                   *)
THEOREM EventsInOrder == Spec => []NothingLost
<1>1. StreamInductive => NothingLost
  BY DEF StreamInductive
<1>2. QED
  BY <1>1, StreamInvariant, PTL
=============================================================================
