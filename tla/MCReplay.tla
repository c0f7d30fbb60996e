------------------------------ MODULE MCReplay ------------------------------
(***************************************************************************)
(* TLC instance of replay and of the paper session that replayed data      *)
(* drives.  The controller, the scheduler, the clock, the session, and the *)
(* session with a strategy on it do not share state: a behaviour exercises *)
(* one of them.                                                            *)
(***************************************************************************)
EXTENDS PaperStrategy

CONSTANTS
    TickTime, CandleTime, StartTime, EndTime, Controllers, MaxMoves,     \* Replay
    MaxLoops,                                                            \* ReplayScheduler
    Speeds, MaxTime,                                                     \* ReplayClock
    SizingContexts                                \* what a sizer may be asked about

VARIABLES part,
    rState, now, speed, iter, buffer, at, moves, origin, stale, mixed, played,
    sState, sNow, stopEvent, made, loop, stopping, published, from, crossed,
    real, since, elapsed, cSpeed, paused, cPlayed, disturbed

MCTickTime == <<1, 2, 2, 4>>
MCCandleTime == <<1, 3>>
MCPlaced == {[type |-> "market", tif |-> "gtc", price |-> 0],
             [type |-> "limit", tif |-> "gtc", price |-> 2],
             [type |-> "stop", tif |-> "ioc", price |-> 3]}

FixedSize == [method |-> "fixed_quantity", quantity |-> 1, percent |-> 0, multiple |-> 1,
              roundDown |-> FALSE, fraction |-> 100]
MCSizers ==
    {FixedSize}
    \cup [method : {"fixed_risk_percent", "atr"}, quantity : {0}, percent : {1, 50}, multiple : {1, 2},
          roundDown : BOOLEAN, fraction : {100}]
    \cup [method : {"kelly"}, quantity : {0}, percent : {20, 100}, multiple : {1},
          roundDown : {FALSE}, fraction : {50, 100}]
MCSizingContexts == [equity : {0, 5, 100}, price : {2, 3}, stop : 0..4, atr : 0..2,
                     winRate : {0, 30, 60, 100}, payoff : 0..2]

Player == INSTANCE Replay WITH state <- rState, Callers <- Controllers
Scheduler == INSTANCE ReplayScheduler WITH state <- sState, now <- sNow
Clock == INSTANCE ReplayClock WITH speed <- cSpeed, played <- cPlayed

ASSUME ReplayInstance ==
    /\ Player!ReplayConstants /\ Scheduler!SchedulerConstants /\ Clock!ClockConstants
    /\ BridgeConstants /\ SizingContexts \subseteq SizingContext

playerVars == <<rState, now, speed, iter, buffer, at, moves, origin, stale, mixed, played>>
schedulerVars == <<sState, sNow, stopEvent, made, loop, stopping, published, from, crossed>>
clockVars == <<real, since, elapsed, cSpeed, paused, cPlayed, disturbed>>
mcVars == <<part, allVars, playerVars, schedulerVars, clockVars, bridgeVars>>

MCInit ==
    /\ part \in {"controller", "scheduler", "clock", "session", "bridge"}
    /\ SessionInit /\ Player!Init /\ Scheduler!Init /\ Clock!Init /\ BridgeInit
    /\ part # "bridge" => sizer = CHOOSE s \in Sizers : TRUE

ControllerStep ==
    /\ part = "controller" /\ Player!Next
    /\ UNCHANGED <<part, allVars, schedulerVars, clockVars, bridgeVars>>
SchedulerStep ==
    /\ part = "scheduler" /\ Scheduler!Next
    /\ UNCHANGED <<part, allVars, playerVars, clockVars, bridgeVars>>
ClockStep ==
    /\ part = "clock" /\ Clock!Next
    /\ UNCHANGED <<part, allVars, playerVars, schedulerVars, bridgeVars>>
SessionStep ==
    /\ part = "session" /\ SessionNext
    /\ UNCHANGED <<part, playerVars, schedulerVars, clockVars, bridgeVars>>
BridgeStep ==
    /\ part = "bridge" /\ BridgeNext
    /\ UNCHANGED <<part, playerVars, schedulerVars, clockVars>>

MCNext == ControllerStep \/ SchedulerStep \/ ClockStep \/ SessionStep \/ BridgeStep

MCSpec == MCInit /\ [][MCNext]_mcVars /\ Player!Fairness /\ Scheduler!Fairness

(* The variables of the five components have their types. *)
MCTypeOK == SessionTypeOK /\ Player!TypeOK /\ Scheduler!TypeOK /\ Clock!TypeOK /\ BridgeTypeOK

(* Who listens to a paper session knows its orders, hears of them in order, *)
(* and hears of their end (PaperSession); a strategy on a session has one   *)
(* position, and sizes it as its sizer may (PaperStrategy).                 *)
SessionIsHonest ==
    /\ part \in {"session", "bridge"} => ObserverIsRight /\ HeardInOrder /\ EndIsTold
    /\ part = "bridge" => OnePosition
    /\ part = "bridge" /\ nextId = 0 /\ last = NoQuote => RiskIsKept(SizingContexts)

(* A replay plays its data in order, once, and without a gap (Replay); the *)
(* scheduler plays the tape and is quiet once stopped (ReplayScheduler);   *)
(* the clock shows what was played (ReplayClock).                          *)
ReplayIsFaithful ==
    /\ part = "controller" => Player!PlaysInOrder /\ Player!PlaysWithoutGap
    /\ part = "scheduler" => Scheduler!LoopPlaysTape /\ Scheduler!StoppedIsQuiet
    /\ part = "clock" => Clock!ClockShowsPlayed

(* A replay completes at its end only, a suspended step does not make a    *)
(* stopped one run, and a replay that is stepped comes to its end          *)
(* (Replay); stopping the scheduler returns (ReplayScheduler).             *)
ReplaySettles ==
    /\ Player!CompletesAtTheEnd /\ Player!StepsNeverRevive /\ Player!ReplayEnds
    /\ Scheduler!StopReturns
=============================================================================
