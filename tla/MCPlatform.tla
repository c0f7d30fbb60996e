----------------------------- MODULE MCPlatform -----------------------------
(***************************************************************************)
(* TLC instance of the platform's plumbing: the dispatcher with its        *)
(* bridge, the router, the subscription manager, the broker adapters,      *)
(* and the plugin manager.  They do not share state: a behaviour exercises *)
(* one of them, and the others keep still.                                 *)
(***************************************************************************)
EXTENDS Naturals, Sequences

CONSTANTS Steady, Movers, MaxEvents, MaxMoves, Symbols, Handlers, QueueSize, MaxRouted,
          Tasks, None, MaxCalls, MaxList, Qty, Files, Registries, MaxPluginCalls

VARIABLES part,
    subs, moves, phase, accepted, started, running, queue, draining, overlapped, busHeard, heard,
    rRegistry, rBySymbol, rGlobal, rMoves, rRunning, rQueue, rDraining, rInFlight,
    rProcessed, rRouted, rDropped, rCalls,
    recorded, stream, venue, unsent, lock, job, calls,
    kind, connected, deal, place, told, outcome, booked, raised, seen,
    naming, listed, registered, doing, at, stage, lifecycle, pluginCalls

Disp == INSTANCE EventDispatch
Router == INSTANCE MarketRouter WITH
    registry <- rRegistry, bySymbol <- rBySymbol, global <- rGlobal, moves <- rMoves,
    running <- rRunning, queue <- rQueue, draining <- rDraining, inFlight <- rInFlight,
    processed <- rProcessed, routed <- rRouted, dropped <- rDropped, calls <- rCalls
Subs == INSTANCE SubscriptionManager
Adapters == INSTANCE BrokerAdapters
Plugs == INSTANCE Plugins

ASSUME EventConstants ==
    /\ Disp!DispatchConstants /\ Router!RouterConstants /\ Subs!SubscriptionConstants
    /\ Adapters!AdapterConstants /\ Plugs!PluginConstants

dispVars == <<subs, moves, phase, accepted, started, running, queue, draining, overlapped,
              busHeard, heard>>
routerVars == <<rRegistry, rBySymbol, rGlobal, rMoves, rRunning, rQueue, rDraining, rInFlight,
                rProcessed, rRouted, rDropped, rCalls>>
subsVars == <<recorded, stream, venue, unsent, lock, job, calls>>
adapterVars == <<kind, connected, deal, place, told, outcome, booked, raised, seen>>
pluginVars == <<naming, listed, registered, doing, at, stage, lifecycle, pluginCalls>>
vars == <<part, dispVars, routerVars, subsVars, adapterVars, pluginVars>>

Init ==
    /\ part \in {"dispatcher", "router", "subscriptions", "adapters", "plugins"}
    /\ Disp!Init /\ Router!Init /\ Subs!Init /\ Adapters!AdapterInit /\ Plugs!PluginInit
    /\ part # "adapters" => kind = "ccxt"
    /\ part # "plugins" => \A f \in 1..Files : naming[f] = [name |-> f, key |-> f, offers |-> {}]

DispatcherStep ==
    part = "dispatcher" /\ Disp!Next /\ UNCHANGED <<part, routerVars, subsVars, adapterVars, pluginVars>>
RouterStep ==
    part = "router" /\ Router!Next /\ UNCHANGED <<part, dispVars, subsVars, adapterVars, pluginVars>>
SubscriptionStep ==
    part = "subscriptions" /\ Subs!Next /\ UNCHANGED <<part, dispVars, routerVars, adapterVars, pluginVars>>
AdapterStep ==
    part = "adapters" /\ Adapters!AdapterNext /\ UNCHANGED <<part, dispVars, routerVars, subsVars, pluginVars>>
PluginStep ==
    part = "plugins" /\ Plugs!PluginNext /\ UNCHANGED <<part, dispVars, routerVars, subsVars, adapterVars>>
Next == DispatcherStep \/ RouterStep \/ SubscriptionStep \/ AdapterStep \/ PluginStep

Spec == Init /\ [][Next]_vars /\ Disp!Fairness /\ Subs!Fairness

(* The variables of the five components have their types. *)
TypeOK ==
    /\ Disp!TypeOK /\ Router!TypeOK /\ Subs!TypeOK
    /\ Adapters!AdapterTypeOK /\ Plugs!PluginTypeOK

(* An event given to the dispatcher is queued or was heard once, the queue  *)
(* has someone to take it, only an event that comes during a drain         *)
(* overtakes, and the bridge says started only while the dispatcher runs   *)
(* (EventDispatch).                                                        *)
EventsReachHandlers == part = "dispatcher" =>
    /\ Disp!NothingLost /\ Disp!OnlyDrainOvertakes /\ Disp!DispatcherSeesWhatBusPassed
    /\ Disp!QueueHasDrainer /\ Disp!StartedMeansRunning

(* Every event given to the router is accounted for (MarketRouter); the    *)
(* record, the stream and the far side agree on the subscriptions, and a   *)
(* symbol has one message in flight (SubscriptionManager); a listed plugin *)
(* holds all it registered (Plugins).                                      *)
AccountsAgree ==
    /\ part = "router" => Router!EveryEventAccounted
    /\ part = "subscriptions" => Subs!RecordIsTrue /\ Subs!OneMessagePerSymbol
    /\ part = "plugins" => Plugs!ListedIsWhole

(* What is booked was filled at the venue, and what is not booked although *)
(* it was filled has one of the causes a broker adapter can have           *)
(* (BrokerAdapters).                                                       *)
AnswersMatchVenue == part = "adapters" => Adapters!AnswersMatchVenue

(* A full queue drops the newest event only, and an unregistered symbol    *)
(* reaches no handler of its own (MarketRouter); a queued event is heard   *)
(* after the next start (EventDispatch), calls that wait for the           *)
(* subscription lock end (SubscriptionManager); a plugin with something    *)
(* left behind by a load that raised or by unload is not listed again      *)
(* (Plugins).                                                              *)
PlatformSettles ==
    /\ Router!DropsOnlyNewest /\ Router!UnregisteredSymbolIsSilent
    /\ Disp!QueuedIsHeard /\ Subs!CallsEnd
    /\ Plugs!LeftBehindStays
=============================================================================
