----------------------------- MODULE RenkoEngine ----------------------------
(***************************************************************************)
(* TraditionalRenkoEngine (chart/renko/engine.py): bricks made from a      *)
(* stream of candles, with the brick size a provider reports for each, the *)
(* engine's life cycle, its snapshot and restore, and the pipeline stage   *)
(* that runs the one registered engine again for every candle.             *)
(*                                                                         *)
(* An engine is a record and each method an operator from a record to the  *)
(* next, so that the stage is the composition the code writes and a second *)
(* engine can be stepped beside the first.  Calls do not overlap: every    *)
(* caller awaits process_market_data before the next call.                 *)
(*                                                                         *)
(* A brick size provider is known by what it reports: a candle carries the *)
(* size the provider computes from it, 0 while it is still warming up.     *)
(* Prices and sizes are whole numbers.                                     *)
(***************************************************************************)
EXTENDS Integers, Sequences

CONSTANTS
    Prices,       \* the selected price of a candle
    Sizes,        \* sizes a provider reports; 0: not ready
    MaxBricks,    \* bound: bricks in the history, and built by one builder
    Operations    \* what this instance calls besides process_market_data

RenkoConstants ==
    /\ Prices \subseteq Nat \ {0}
    /\ Sizes \subseteq Nat
    /\ MaxBricks \in Nat
    /\ Operations \subseteq {"reset", "restart", "stage", "restore"}

VARIABLES
    engine,       \* the engine
    twin,         \* auxiliary: an engine that is never saved and restored
    market,       \* auxiliary: the price of the last candle that counted
    seen,         \* auxiliary: the prices that counted since the last reset
    intact        \* auxiliary: not begun again since the last reset, see BegunAgain

vars == <<engine, twin, market, seen, intact>>

Direction == {"neutral", "up", "down"}

Event == {"opened", "extended", "reversed"}

Brick == [direction : {"up", "down"}, open : Int, close : Int,
          event : Event,             \* the event that announced it
          number : Nat]              \* HybridBrickBuilder's sequence number

Engine == [configured : BOOLEAN,     \* _configuration is set
           isOpen     : BOOLEAN,     \* _state.is_open; FALSE also when there is no state
           direction  : Direction,   \* _state.direction
           last       : Int,         \* _state.last_price
           anchored   : BOOLEAN,     \* _pending_open_price is set
           size       : Nat,         \* the provider's current size, 0 when not ready
           history    : Seq(Brick),
           sequence   : Nat]         \* the builder's counter

NewEngine == [configured |-> FALSE, isOpen |-> FALSE, direction |-> "neutral", last |-> 0,
              anchored |-> FALSE, size |-> 0, history |-> <<>>, sequence |-> 0]

-----------------------------------------------------------------------------
(* The life cycle.  Neither configure nor start forgets the anchor. *)

Configured(e) == [e EXCEPT !.configured = TRUE, !.isOpen = FALSE,
                           !.direction = "neutral", !.last = 0]

Started(e) == [e EXCEPT !.isOpen = TRUE, !.direction = "neutral", !.last = 0]

Stopped(e) == [e EXCEPT !.isOpen = FALSE]

(* reset forgets everything but the builder and its counter *)
WasReset(e) == [NewEngine EXCEPT !.sequence = e.sequence]

(* RenkoFactory.create: the registered engine with a new provider and builder *)
Created(e) == [e EXCEPT !.size = 0, !.sequence = 0]

-----------------------------------------------------------------------------
(***************************************************************************)
(* _generate_bricks_from_price.  The move since the last price, in whole   *)
(* bricks; against the direction it takes two of them.                     *)
(***************************************************************************)
Distance(e, price) == IF price > e.last THEN price - e.last ELSE e.last - price

(* Mutant: a gap makes one brick. *)
StepsAtMostOne(e, price) == IF Distance(e, price) >= e.size THEN 1 ELSE 0

(* Mutant: a brick that has begun counts. *)
StepsRoundedUp(e, price) == (Distance(e, price) + e.size - 1) \div e.size

Steps(e, price) == Distance(e, price) \div e.size

Trend(e, price) == IF price > e.last THEN "up" ELSE "down"

(* the direction the move is compared with: a first move sets its own *)
Heading(e, price) ==
    IF e.direction = "neutral" /\ Steps(e, price) > 0 THEN Trend(e, price) ELSE e.direction

(* Mutant: one brick is enough for a turn. *)
MakesBricksAtOnce(e, price) == Steps(e, price) > 0

MakesBricks(e, price) ==
    /\ Steps(e, price) > 0
    /\ Heading(e, price) = Trend(e, price) \/ Steps(e, price) >= 2

(* n bricks from the last price, upwards or downwards *)
Level(e, direction, n) == IF direction = "up" THEN e.last + n * e.size ELSE e.last - n * e.size

(* Mutant: every brick of a move gets the event of the move. *)
EventOfMove(e, price, step) ==
    IF Heading(e, price) # Trend(e, price) THEN "reversed"
    ELSE IF e.history = <<>> THEN "opened"
    ELSE "extended"

EventOf(e, price, step) ==
    IF step > 1 THEN "extended"
    ELSE IF Heading(e, price) # Trend(e, price) THEN "reversed"
    ELSE IF e.history = <<>> THEN "opened"
    ELSE "extended"

(* Mutant: bricks take the direction the engine had before the move. *)
BricksOfState(e, price) ==
    [step \in 1..Steps(e, price) |->
        [direction |-> e.direction,
         open      |-> Level(e, Trend(e, price), step - 1),
         close     |-> Level(e, Trend(e, price), step),
         event     |-> EventOf(e, price, step),
         number    |-> e.sequence + step]]

GeneratedBricks(e, price) ==
    LET trend == Trend(e, price) IN
    [step \in 1..Steps(e, price) |->
        [direction |-> trend,
         open      |-> Level(e, trend, step - 1),
         close     |-> Level(e, trend, step),
         event     |-> EventOf(e, price, step),
         number    |-> e.sequence + step]]

Extended(e, price) ==
    [e EXCEPT !.direction = Trend(e, price),
              !.last      = Level(e, Trend(e, price), Steps(e, price)),
              !.history   = @ \o GeneratedBricks(e, price),
              !.sequence  = @ + Steps(e, price)]

(* No brick: the price becomes the last price all the same. *)
Moved(e, price) == [e EXCEPT !.direction = Heading(e, price), !.last = price]

Anchored(e, price) ==
    [e EXCEPT !.anchored = TRUE, !.direction = "neutral", !.last = price]

(* process_market_data *)
Awake(e) == IF e.isOpen THEN e ELSE Started(e)

Sized(e, candle) == [e EXCEPT !.size = IF candle.size > 0 THEN candle.size ELSE @]

Processed(e, candle) ==
    LET ready == Sized(Awake(e), candle) IN
    IF ready.size = 0                             THEN ready
    ELSE IF ~ready.anchored                       THEN Anchored(ready, candle.price)
    ELSE IF MakesBricks(ready, candle.price)      THEN Extended(ready, candle.price)
    ELSE Moved(ready, candle.price)

-----------------------------------------------------------------------------
(***************************************************************************)
(* snapshot, and restore into an engine SnapshotManager has just wired.    *)
(***************************************************************************)
Snapshot(e) ==
    [builder  |-> [sequence |-> e.sequence],
     provider |-> [size |-> e.size],
     history  |-> e.history,
     runtime  |-> [direction |-> e.direction, last |-> e.last, isOpen |-> e.isOpen,
                   anchored |-> e.anchored]]

(* Mutant: the anchor is not saved. *)
RestoredUnanchored(s) ==
    [configured |-> TRUE, isOpen |-> s.runtime.isOpen, direction |-> s.runtime.direction,
     last |-> s.runtime.last, anchored |-> FALSE, size |-> s.provider.size,
     history |-> s.history, sequence |-> s.builder.sequence]

(* Mutant: the builder's counter is not saved. *)
RestoredUncounted(s) ==
    [configured |-> TRUE, isOpen |-> s.runtime.isOpen, direction |-> s.runtime.direction,
     last |-> s.runtime.last, anchored |-> s.runtime.anchored, size |-> s.provider.size,
     history |-> s.history, sequence |-> 0]

Restored(s) ==
    [configured |-> TRUE,
     isOpen     |-> s.runtime.isOpen,
     direction  |-> s.runtime.direction,
     last       |-> s.runtime.last,
     anchored   |-> s.runtime.anchored,
     size       |-> s.provider.size,
     history    |-> s.history,
     sequence   |-> s.builder.sequence]

-----------------------------------------------------------------------------
Candle == [price : Prices, size : Sizes]

TypeOK ==
    /\ engine \in Engine
    /\ twin \in Engine
    /\ market \in Prices \cup {0}
    /\ seen \subseteq Prices
    /\ intact \in BOOLEAN

Init ==
    /\ engine = NewEngine
    /\ twin = NewEngine
    /\ market = 0
    /\ seen = {}
    /\ intact = TRUE

(* Both engines take the same call. *)
Call(Method(_)) ==
    /\ engine' = Method(engine)
    /\ twin' = Method(twin)

(* A candle counts once the provider is ready. *)
Watch(candle) ==
    /\ market' = IF engine'.size > 0 THEN candle.price ELSE market
    /\ seen' = IF engine'.size > 0 THEN seen \cup {candle.price} ELSE seen

(* configure or start has run on an engine that keeps its anchor and history. *)
BegunAgain == intact' = (intact /\ ~engine.anchored)

WithinBound == Len(engine'.history) <= MaxBricks /\ engine'.sequence <= MaxBricks

Configure ==
    /\ engine.configured => "restart" \in Operations
    /\ Call(Configured)
    /\ BegunAgain
    /\ UNCHANGED <<market, seen>>

Start ==
    /\ engine.configured
    /\ engine.anchored => "restart" \in Operations
    /\ Call(Started)
    /\ BegunAgain
    /\ UNCHANGED <<market, seen>>

Stop ==
    /\ "restart" \in Operations
    /\ engine.configured
    /\ Call(Stopped)
    /\ UNCHANGED <<market, seen, intact>>

Reset ==
    /\ "reset" \in Operations
    /\ Call(WasReset)
    /\ market' = 0
    /\ seen' = {}
    /\ intact' = TRUE

ProcessMarketData(candle) ==
    LET Process(e) == Processed(e, candle) IN
    /\ engine.configured
    /\ Call(Process)
    /\ Watch(candle)
    /\ IF engine.isOpen THEN UNCHANGED intact ELSE BegunAgain
    /\ WithinBound

(* RenkoPipelineStage.execute on one candle *)
RunStage(candle) ==
    LET Stage(e) == Stopped(Processed(Started(Configured(Created(e))), candle)) IN
    /\ "stage" \in Operations
    /\ Call(Stage)
    /\ Watch(candle)
    /\ BegunAgain
    /\ WithinBound

(* The process ends; another restores what the last snapshot saved. *)
SaveAndRestore ==
    /\ "restore" \in Operations
    /\ engine.configured
    /\ engine' = Restored(Snapshot(engine))
    /\ UNCHANGED <<twin, market, seen, intact>>

Next ==
    \/ Configure
    \/ Start
    \/ Stop
    \/ Reset
    \/ \E candle \in Candle : ProcessMarketData(candle) \/ RunStage(candle)
    \/ SaveAndRestore

Spec == Init /\ [][Next]_vars

-----------------------------------------------------------------------------
(***************************************************************************)
(* Properties.                                                             *)
(***************************************************************************)

History == engine.history

Turns(i) == History[i].direction # History[i - 1].direction

(* The events tell the chart's story: the first brick and only it opens,   *)
(* a brick is announced as a reversal exactly when it turns against the    *)
(* one before it, whatever sizes, gaps, creeping prices and restores came  *)
(* between (_create_continuation_bricks, _create_reversal_bricks).  An     *)
(* engine begun again forgets its direction.                               *)
EventsTellTurns ==
    intact => \A i \in DOMAIN History :
        /\ History[i].event = "opened" <=> i = 1
        /\ History[i].event = "reversed" <=> i > 1 /\ Turns(i)

(* A turn takes a move of two bricks (reversal_threshold), so a reversal   *)
(* is never a single brick: the next one goes the same way and starts      *)
(* where it ended.                                                         *)
ReversalTakesTwo ==
    \A i \in DOMAIN History :
        History[i].event = "reversed" =>
            /\ i < Len(History)
            /\ ~Turns(i + 1)
            /\ History[i + 1].open = History[i].close

(* The engine is never a whole brick behind the market, however far a      *)
(* candle jumped and however the size changed (_generate_bricks).  One     *)
(* begun again is at price 0 until its next candle.                        *)
FollowsMarket ==
    intact /\ engine.anchored => Distance(engine, market) < engine.size

(* "Bricks are only created when movement >= brick_size": every brick      *)
(* spans prices the market has been at between two candles of the stream.  *)
BricksStayInMarket ==
    \A i \in DOMAIN History : \A end \in {History[i].open, History[i].close} :
        /\ \E p \in seen : p <= end
        /\ \E p \in seen : p >= end

(* The same of an engine that has not been begun again                     *)
(* (_generate_bricks, _create_continuation_bricks).                        *)
BricksSpanMarket == intact => BricksStayInMarket

(* HybridBrickBuilder: "a monotonic sequence number", on one chart and     *)
(* through every save and restore, as long as the factory has not given    *)
(* the engine a new builder (HybridBrickBuilder.build_brick, restore).     *)
NumbersIncrease ==
    intact => \A i \in DOMAIN History : i > 1 => History[i].number > History[i - 1].number

(* An engine that is saved and restored at any moment is the engine that   *)
(* was never interrupted (snapshot, restore: "so processing can resume").  *)
ResumeIsInvisible == engine = twin
=============================================================================
