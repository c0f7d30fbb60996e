------------------------------- MODULE MCBars -------------------------------
(***************************************************************************)
(* TLC instance of what turns ticks into candles and candles into bricks:  *)
(* the aggregation engine, the brick size providers, the way from a        *)
(* configuration to a wired engine, the Renko engine, and the pipeline of  *)
(* stages the engine is one of.  They share no state: a behaviour          *)
(* exercises one of them.                                                  *)
(***************************************************************************)
EXTENDS Integers, Sequences

CONSTANTS
    NoValue,
    Tasks, Ticks, Starts, Length, Day, Session, MaxCandles, MaxCalls,     \* CandleAggregation
    One, SizeCandles, SizeConfigurations, FixedSize, Period, Multiplier, Percentage,
    Window, Low, High, MaxSizeCandles,                         \* BrickSize
    Asked, Submitted, BrickTypes,                              \* RenkoConfig
    Prices, Sizes, MaxBricks, Operations,                      \* RenkoEngine
    StageCount, MaxEdges, RetryCount, MaxRuns                  \* ProcessingPipeline

VARIABLES part,
    candles, call, calls, clock, swept, arrived, told,
    size, provider, sizeTwin, sizeSeen, switches,
    registry, checked, engineType, wired, saved, outcome, original,
    engine, twin, market, seen, intact,
    edges, todo, attempt, holds, ran, published, result, runs

aggregationVars == <<candles, call, calls, clock, swept, arrived, told>>
sizeVars == <<size, provider, sizeTwin, sizeSeen, switches>>
configVars == <<registry, checked, engineType, wired, saved, outcome, original>>
engineVars == <<engine, twin, market, seen, intact>>
pipelineVars == <<edges, todo, attempt, holds, ran, published, result, runs>>
mcVars == <<part, aggregationVars, sizeVars, configVars, engineVars, pipelineVars>>

(* A tick of the next bucket, one that comes again at the same time with   *)
(* another price, and one after a gap                                      *)
MCTicks == {[time |-> 0, price |-> 2, size |-> 1], [time |-> 1, price |-> 3, size |-> 0],
            [time |-> 2, price |-> 1, size |-> 1], [time |-> 2, price |-> 2, size |-> 1],
            [time |-> 5, price |-> 2, size |-> 1]}

Aggregation == INSTANCE CandleAggregation

(* 24 stands for a price of 1: all prices are multiples, and no mean, no   *)
(* percentage and no average of four candles rounds.                       *)
Ohlc(open, high, low, close) ==
    [open |-> 24 * open, high |-> 24 * high, low |-> 24 * low, close |-> 24 * close]
MCSizeCandles == {Ohlc(2, 3, 1, 2), Ohlc(2, 2, 1, 1), [close |-> 24],
                  [high |-> 24 * 7, low |-> 24 * 3], [open |-> 48, high |-> 48]}
MCSizeConfigurations == [strategy : {"close", "typical", "mean"}, minimum : {0, 30},
                         rounding : {"none", "floor", "ceil", "round"}, hysteresis : {0, 12}]

Size == INSTANCE BrickSize WITH
    config <- size, twin <- sizeTwin, seen <- sizeSeen, Candles <- SizeCandles,
    Configurations <- SizeConfigurations, MaxCandles <- MaxSizeCandles

(* The configurations that differ in at most two fields from a good one    *)
Tuple(s) == [kind |-> "tuple", items |-> s]
Plain == [brick_type |-> "traditional", brick_size |-> 1, provider |-> NoValue,
          builder_type |-> NoValue, builder |-> NoValue, metadata |-> NoValue,
          atr_period |-> NoValue, atr_multiplier |-> NoValue,
          percentage |-> NoValue, minimum_brick_size |-> NoValue, rounding_mode |-> "none",
          reference_price |-> "close", reference_price_strategy |-> NoValue,
          lookback |-> NoValue, hybrid_weight |-> NoValue, ai_model |-> NoValue,
          adaptive_window |-> NoValue, adaptive_thresholds |-> NoValue, adaptive_hysteresis |-> NoValue]
Good == {Plain,
         [Plain EXCEPT !.brick_type = "atr", !.atr_period = 2],
         [Plain EXCEPT !.brick_type = "percentage", !.percentage = 50],
         [Plain EXCEPT !.provider = "adaptive", !.atr_period = 2, !.percentage = 50,
                       !.adaptive_thresholds = Tuple(<<1, 2>>)]}
Values == [brick_type |-> {"traditional", "atr", "percentage", "mean", "hybrid", "ai"},
           brick_size |-> {0}, provider |-> {"fixed", "atr", "percentage", "adaptive", "plugin", "unknown"},
           builder_type |-> {"hybrid", "plugin", "unknown"}, builder |-> {"hybrid"}, metadata |-> {"hybrid"},
           atr_period |-> {NoValue, 0, 2}, atr_multiplier |-> {NoValue, 0, 2},
           percentage |-> {NoValue, 0, 50, 150}, minimum_brick_size |-> {0, 1},
           rounding_mode |-> {"floor", "bankers"}, reference_price |-> {"typical_price", "vwap"},
           reference_price_strategy |-> {"mean", "plugin", "unknown"}, lookback |-> {0, 1},
           hybrid_weight |-> {50, 101}, ai_model |-> {"m"}, adaptive_window |-> {0, 3},
           adaptive_thresholds |-> {Tuple(<<1, 2>>), Tuple(<<2, 1>>)}, adaptive_hysteresis |-> {-1, 1}]
Near(S) == S \cup UNION {UNION {{[c EXCEPT ![f] = v] : v \in Values[f]} : f \in DOMAIN Values} : c \in S}
MCAsked == Near(Near(Good))
MCSubmitted == Good
    \cup {[c EXCEPT !.builder_type = b] : c \in Good, b \in {"plugin", "hybrid"}}
    \cup {[Plain EXCEPT !.provider = "atr"], [Plain EXCEPT !.provider = "plugin"],
          [Plain EXCEPT !.provider = "atr", !.builder_type = "hybrid"],
          [Plain EXCEPT !.reference_price_strategy = "plugin"], [Plain EXCEPT !.builder_type = "unknown"],
          [Plain EXCEPT !.builder = "hybrid", !.metadata = "traditional"]}

Config == INSTANCE RenkoConfig WITH engine <- wired, Configurations <- Asked

Engine == INSTANCE RenkoEngine

Pipe == INSTANCE ProcessingPipeline WITH told <- published

ASSUME BarsInstance ==
    /\ Aggregation!AggregationConstants /\ Size!SizeConstants /\ Config!ConfigConstants
    /\ Engine!RenkoConstants /\ Pipe!PipelineConstants

Init ==
    /\ part \in {"aggregation", "size", "config", "engine", "pipeline"}
    /\ Aggregation!Init /\ Engine!Init /\ Pipe!PipelineInit
    /\ IF part = "size" THEN Size!Init ELSE Size!Init /\ size = CHOOSE c \in SizeConfigurations : TRUE
    /\ Config!Init
    /\ part # "config" => ~checked /\ engineType = "traditional"

AggregationStep ==
    /\ part = "aggregation" /\ Aggregation!Next
    /\ UNCHANGED <<part, sizeVars, configVars, engineVars, pipelineVars>>
SizeStep ==
    /\ part = "size" /\ Size!Next
    /\ UNCHANGED <<part, aggregationVars, configVars, engineVars, pipelineVars>>
ConfigStep ==
    /\ part = "config" /\ Config!Next
    /\ UNCHANGED <<part, aggregationVars, sizeVars, engineVars, pipelineVars>>
EngineStep ==
    /\ part = "engine" /\ Engine!Next
    /\ UNCHANGED <<part, aggregationVars, sizeVars, configVars, pipelineVars>>
PipelineStep ==
    /\ part = "pipeline" /\ Pipe!PipelineNext
    /\ UNCHANGED <<part, aggregationVars, sizeVars, configVars, engineVars>>

Next == AggregationStep \/ SizeStep \/ ConfigStep \/ EngineStep \/ PipelineStep

Spec == Init /\ [][Next]_mcVars

-----------------------------------------------------------------------------
(* The variables of the five components have their types. *)
TypeOK ==
    /\ Aggregation!TypeOK /\ Size!TypeOK /\ Config!TypeOK /\ Engine!TypeOK
    /\ Pipe!PipelineTypeOK

(* A candle is the ticks of its bucket, the only one of the bucket except   *)
(* for late ticks; it closes in time and for good, and those who listen    *)
(* are left with the candle as it is (CandleAggregation).                  *)
CandlesTellTicks == part = "aggregation" =>
    /\ Aggregation!CandleIsItsTicks /\ Aggregation!OneCandlePerBucket
    /\ Aggregation!ClosedInTime /\ Aggregation!ClosedIsFinal
    /\ Aggregation!LastEventIsTrue /\ Aggregation!OpenedFirst

(* A rolling size is what the candles of its window define, and positive   *)
(* (BrickSize); the stages of a pipeline run once, in the order its edges  *)
(* ask for (ProcessingPipeline).                                           *)
ComputedAsDefined ==
    /\ part = "size" => Size!SizeFromHistory /\ Size!SizePositive
    /\ part = "pipeline" => Pipe!InputsAreReady /\ Pipe!StagesRunOnce

(* What the validator accepts can be built, the shared engine is wired as  *)
(* it is configured, and a snapshot restores the components it was taken   *)
(* with (RenkoConfig); a provider survives a snapshot, its regime does not *)
(* flap within the hysteresis it was given, and a reference price is a     *)
(* price of its candle (BrickSize); a stage is tried again as often as it  *)
(* may be, and the events tell so (ProcessingPipeline).                    *)
WorksAsConfigured ==
    /\ part = "config" =>
           Config!AcceptedBuilds /\ Config!EngineIsAsConfigured /\ Config!RestoredAsSaved
    /\ part = "size" => Size!ResumedProviderAgrees /\ Size!NoFlapping /\ Size!ReferenceInCandle
    /\ part = "pipeline" => Pipe!RetriesAsConfigured /\ Pipe!EventsTellRun

(* The bricks are made of the prices of the market and keep up with it,    *)
(* events tell their turns, a reversal takes two, numbers increase, and a  *)
(* restored engine is the one that was saved (RenkoEngine).                *)
BricksTellMarket == part = "engine" =>
    /\ Engine!FollowsMarket /\ Engine!BricksSpanMarket
    /\ Engine!EventsTellTurns /\ Engine!ReversalTakesTwo
    /\ Engine!NumbersIncrease /\ Engine!ResumeIsInvisible
=============================================================================
