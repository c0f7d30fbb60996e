----------------------------- MODULE MCResearch -----------------------------
(***************************************************************************)
(* TLC instance of what is done with a strategy once it is written: the    *)
(* engine that runs it, the backtest of it, the grid search and            *)
(* walk-forward analysis with their pool of threads, the rankings, the     *)
(* simulation of trades, the allocation of capital, and the analytics that *)
(* are made of a run.  A behaviour exercises one of them; what a backtest  *)
(* ends with is handed on to the analytics.                                *)
(***************************************************************************)
EXTENDS Integers, Sequences, SequencesExt

CONSTANTS NoValue, MaxInputs, MaxBricks, Capital, Fee, Slip, MaxRaises, MaxResults, Iterations,
    MaxMarks, MaxCopies,
    Period, TrendLength, Buffer, Inputs,                       \* StrategyEngine
    Bricks, Setups,                                            \* Backtest
    Tasks, Score(_, _, _)                                      \* Research

VARIABLES part,
    kind, strategy, started, signals, sma, inputs, fed,
    setup, tested, highest, book, pending, report, bricks, made, done, wanted,
    task, window, stage, space, trials, results, next, workers, cache, loads, raised, steps,
    entries,
    pnls, method, paths, sampled,
    streams, sharing,
    marks, sold, costs,
    reports, runs

strategyVars == <<kind, strategy, started, signals, sma, inputs, fed>>
backtestVars == <<setup, tested, highest, book, pending, report, bricks, made, done, wanted>>
researchVars == <<task, window, stage, space, trials, results, next, workers, cache, loads, raised, steps>>
simulationVars == <<pnls, method, paths, sampled>>
allocationVars == <<streams, sharing>>
snapshotVars == <<sold, costs>>
lifecycleVars == <<reports, runs>>
mcVars == <<part, strategyVars, backtestVars, researchVars, entries, simulationVars, allocationVars,
            marks, snapshotVars, lifecycleVars>>

(* Prices are multiples of 240: neither an average of three values nor 10  *)
(* percent of a price rounds within these bounds.                          *)
Brick(close, direction, range) ==
    [form |-> "brick", close |-> 240 * close, high |-> 240 * close, low |-> 240 * close,
     day |-> 1, direction |-> direction, range |-> range]
Bar(close, high, low, day) ==
    [form |-> "bar", close |-> 240 * close, high |-> 240 * high, low |-> 240 * low,
     day |-> day, direction |-> "neutral", range |-> NoValue]
Tick(price, day) ==
    [form |-> "tick", close |-> 240 * price, day |-> day, direction |-> "neutral", range |-> NoValue]
DayRange == [high |-> 500, low |-> 400]

EngineInputs == {Brick(1, "down", NoValue), Brick(3, "up", NoValue), Brick(2, "neutral", DayRange),
                 Bar(2, 3, 2, 1), Bar(3, 3, 1, 2), Tick(1, 1)}
RunBricks == {Brick(1, "down", NoValue), Brick(2, "up", DayRange), Brick(2, "down", NoValue), Brick(3, "up", NoValue)}

Rule(name, limit) == [kind |-> name, limit |-> limit]
Setup(name, rules, quantity, percent, leverage, forced) ==
    [kind |-> name, rules |-> rules, quantity |-> quantity, percent |-> percent,
     leverage |-> leverage, forced |-> forced]
Rules == {<<Rule("stop_loss", 480)>>, <<Rule("trailing_amount", 240), Rule("take_profit", 720)>>,
          <<Rule("trailing_percent", 10), Rule("max_open_positions", 1)>>,
          <<Rule("max_open_positions", 0)>>, <<Rule("max_daily_loss", 200), Rule("stop_loss", 240)>>}

Engine == INSTANCE StrategyEngine WITH None <- NoValue

Test == INSTANCE Backtest WITH
    None <- NoValue, strategy <- tested, Unknown <- NoValue, Symbols <- {"asset"}

RunSetups ==
    {Setup(k, <<>>, NoValue, 95, 1, TRUE) : k \in Engine!Kinds}
        \cup {Setup(k, <<>>, 1, 0, 1, FALSE) : k \in Engine!Kinds}
        \cup {Setup("ema_trend", <<>>, NoValue, 95, 3, TRUE)}
        \cup {Setup(k, r, 1, 0, 1, TRUE) : k \in {"renko_trend", "pdh_pdl_breakout"}, r \in Rules}

(* Larger periods earn more in odd ranges and less in even ones; a stop    *)
(* loss of two ends a run before it traded, which defines no result.       *)
ScoreOf(scenario, rules, charged) ==
    LET Chosen(name) == IF name \in DOMAIN scenario.values THEN scenario.values[name] ELSE 1
        earned == (Chosen("period") + Chosen("trend_length") + scenario.brick) * scenario.risk.leverage
        stopped == \E i \in DOMAIN rules : rules[i] = [kind |-> "stop_loss", limit |-> 2]
    IN [net_profit |-> IF stopped THEN NoValue
                       ELSE (IF scenario.range[1] % 2 = 1 THEN earned ELSE 0 - earned) - (IF charged THEN 1 ELSE 0),
        max_drawdown |-> IF stopped THEN NoValue ELSE scenario.brick + Len(rules)]

Risk(quantity, leverage) == [fraction |-> 95, quantity |-> quantity, leverage |-> leverage]
Axis(name, values) == [name |-> name, values |-> values]
Walk(n) == [training |-> <<n, n + 1>>, validation |-> <<n + 1, n + 2>>, forward |-> <<n + 2, n + 3>>]
Task(mode, strategies, risks, axes, metric, maximize, windows, pool) ==
    [mode |-> mode, strategies |-> strategies, symbols |-> <<"asset">>, bricks |-> <<1, 2>>,
     ranges |-> <<<<1, 2>>>>, risks |-> risks, axes |-> axes,
     metric |-> metric, maximize |-> maximize, windows |-> windows, pool |-> pool]

TaskSet ==
    { Task("optimize", <<"ema_trend">>, <<Risk(NoValue, 1)>>,
           <<Axis("period", <<0, 3>>), Axis("stop_loss", <<1, 2>>)>>, "net_profit", TRUE, <<Walk(1)>>, 2),
      Task("optimize", <<"renko_trend">>, <<Risk(1, 1)>>,
           <<Axis("brick_size", <<0, 3>>), Axis("period", <<2>>)>>, "max_drawdown", FALSE, <<Walk(1), Walk(2)>>, 2),
      Task("optimize", <<"ema_trend", "renko_trend">>, <<Risk(1, 1), Risk(1, 2)>>,
           <<Axis("leverage", <<0 - 1, 0, 2>>), Axis("trend_length", <<2>>)>>, "net_profit", TRUE, <<Walk(1), Walk(2)>>, 1),
      Task("optimize", <<"ema_crossover">>, <<Risk(1, 1)>>,
           <<Axis("stop_loss", <<2>>), Axis("take_profit", <<1, 0>>)>>, "net_profit", TRUE, <<Walk(1), Walk(3)>>, 2),
      Task("validate", <<"ema_trend", "pdh_pdl_breakout">>, <<Risk(1, 1)>>,
           <<Axis("period", <<2, 0>>)>>, "net_profit", TRUE, <<>>, 2),
      Task("validate", <<"pdh_pdl_breakout", "renko_trend">>, <<Risk(1, 0), Risk(1, 1)>>,
           <<Axis("buffer", <<0, 1>>)>>, "net_profit", TRUE, <<>>, 1) }

Search == INSTANCE Research

Ranking == INSTANCE ResultRanking WITH
    MetricValues <- {1, 2, NoValue},
    WeightSets <- {[net_profit |-> 1, max_drawdown |-> 2], [net_profit |-> 1]}

Simulation == INSTANCE MonteCarlo WITH
    TradeResults <- {<<>>, <<3>>, <<3, 0 - 4, 1>>, <<0 - 5, 2, 2, 0 - 5>>, <<4, 0, 0 - 4, 6>>},
    Samplings <- {"bootstrap", "random_trade_order"}, Equity0 <- 10, RuinLevel <- 5

(* Marks move by tenths of a cent around half cents, through zero and      *)
(* below it; trades come from the worst to the best, up to six of them.    *)
Marked == INSTANCE Analytics WITH
    Amounts <- {0 - 20, 0, 4, 15, 30}, Times <- {0, 1}, StartAmount <- 15

Lifecycle == INSTANCE AnalyticsRuns WITH Members <- {"one", "two"}, RunTimes <- {0, 1}

TradeNets == {0 - 15, 0 - 5, 0, 6}
MaxSold == 6
Costs == [brokerage : {0, 3, 5, 9, 14, 15}, slippage : {0, 4, 5, 9}]

(* The metrics of the trades that were sold, from a curve of one mark each *)
MetricsOf(nets, capital) ==
    Marked!Metrics([i \in DOMAIN nets |-> capital + Marked!SumOf(SubSeq(nets, 1, i))],
                   [i \in DOMAIN nets |-> [net |-> nets[i], gross |-> nets[i]]], capital)

ASSUME ResearchInstance ==
    Engine!EngineConstants /\ Test!BacktestConstants /\ Search!ResearchConstants /\ Simulation!SimulationConstants

Streams == [{"one", "two", "three"} -> [mean : {0 - 1, 1}, vol : {0, 1, 3}]]
NoCosts == [brokerage |-> 0, slippage |-> 0]

Init ==
    /\ part \in {"strategy", "backtest", "research", "ranking", "simulation", "allocation",
                 "analytics", "snapshot", "lifecycle"}
    /\ Engine!Init /\ (part # "strategy" => kind = "ema_trend")
    /\ Test!Init /\ (part # "backtest" => setup.kind = "ema_crossover" /\ setup.forced)
    /\ Search!Init /\ (part # "research" => task.mode = "validate" /\ task.pool = 1)
    /\ Ranking!RankingInit /\ Simulation!SimulationInit
    /\ part # "simulation" => pnls = <<>> /\ method = "bootstrap"
    /\ sharing \in Simulation!Methods /\ (part # "allocation" => sharing = "equal_weight")
    /\ streams \in IF part = "allocation" THEN Streams ELSE {[n \in {"one"} |-> [mean |-> 1, vol |-> 0]]}
    /\ Marked!AnalyticsInit
    /\ sold = <<>>
    /\ costs \in IF part = "snapshot" THEN Costs ELSE {NoCosts}
    /\ Lifecycle!RunsInit /\ (part # "lifecycle" => runs[1].created = 0 /\ reports[1].members = <<"one">>)

StrategyStep ==
    /\ part = "strategy" /\ Engine!Next
    /\ UNCHANGED <<part, backtestVars, researchVars, entries, simulationVars, allocationVars, marks, snapshotVars, lifecycleVars>>
BacktestStep ==
    /\ part = "backtest" /\ Test!Next
    /\ UNCHANGED <<part, strategyVars, researchVars, entries, simulationVars, allocationVars, marks, snapshotVars, lifecycleVars>>
ResearchStep ==
    /\ part = "research" /\ Search!Next
    /\ UNCHANGED <<part, strategyVars, backtestVars, entries, simulationVars, allocationVars, marks, snapshotVars, lifecycleVars>>
RankingStep ==
    /\ part = "ranking" /\ Ranking!RankingNext
    /\ UNCHANGED <<part, strategyVars, backtestVars, researchVars, simulationVars, allocationVars, marks, snapshotVars, lifecycleVars>>
SimulationStep ==
    /\ part = "simulation" /\ Simulation!SimulationNext
    /\ UNCHANGED <<part, strategyVars, backtestVars, researchVars, entries, allocationVars, marks, snapshotVars, lifecycleVars>>
MarkStep ==
    /\ part = "analytics" /\ Marked!AnalyticsNext
    /\ UNCHANGED <<part, strategyVars, backtestVars, researchVars, entries, simulationVars, allocationVars, snapshotVars, lifecycleVars>>
SellStep ==
    /\ part = "snapshot" /\ Len(sold) < MaxSold
    /\ \E net \in TradeNets : (sold # <<>> => net >= Last(sold)) /\ sold' = Append(sold, net)
    /\ UNCHANGED <<part, costs, strategyVars, backtestVars, researchVars, entries, simulationVars, allocationVars, marks, lifecycleVars>>
LifecycleStep ==
    /\ part = "lifecycle" /\ Lifecycle!RunsNext
    /\ UNCHANGED <<part, strategyVars, backtestVars, researchVars, entries, simulationVars, allocationVars, marks, snapshotVars>>

Next == StrategyStep \/ BacktestStep \/ ResearchStep \/ RankingStep \/ SimulationStep \/ MarkStep \/ SellStep \/ LifecycleStep

Spec == Init /\ [][Next]_mcVars /\ Search!Fairness

-----------------------------------------------------------------------------
(* The variables of the components have their types. *)
TypeOK ==
    /\ Engine!TypeOK /\ Test!TypeOK /\ Search!TypeOK
    /\ Ranking!RankingTypeOK /\ Simulation!SimulationTypeOK
    /\ Marked!AnalyticsTypeOK /\ Lifecycle!RunsTypeOK

(* The position a strategy reports is the one its signals made             *)
(* (StrategyEngine); a backtest fills with the next brick, keeps balanced  *)
(* books, follows the strategy and the risk rules, and reports what it did *)
(* (Backtest).                                                             *)
TradingIsHonest ==
    /\ part = "strategy" => Engine!PositionTellsSignals
    /\ part = "backtest" =>
           /\ Test!FilledOnNextBrick /\ Test!BooksBalance
           /\ Test!PositionFollowsStrategy /\ Test!RulesAreObeyed /\ Test!RunIsAccounted

(* A search with threads finds what one without finds, tests what it found *)
(* best in training, and loads a series once for each thread at most       *)
(* (Research).                                                             *)
ResearchIsHonest == part = "research" =>
    /\ Search!ParallelIsSequential /\ Search!ChosenFromTraining /\ Search!LoadsAreBounded

(* The signals of a run are what its bricks and bars say and its averages  *)
(* those of their values (StrategyEngine); the metrics of a backtest are   *)
(* those of its curve and its trades (PerformanceMetrics).                 *)
(* A search tries everything once and tests it as it was trained           *)
(* (Research); a ranking orders the results, and a report ranks as the     *)
(* validation does (ResultRanking); a path is one the trades allow         *)
(* (MonteCarlo); capital is shared out whole (ResearchMetrics); what       *)
(* analytics makes of a curve fits the curve, what it makes of metrics is  *)
(* refused for its rates only (Analytics), for curves and metrics of its   *)
(* own and for those a backtest ends with; and the copies of a report and  *)
(* of a run keep their history (AnalyticsRuns).                            *)
ResultsAreFaithful ==
    /\ part = "strategy" => Engine!SignalsTellHistory /\ Engine!AverageIsOfWindow
    /\ part = "backtest" => Test!MetricsAreOfRun
    /\ part = "research" => Search!EveryCombinationIsTried /\ Search!TestedIsTrained
    /\ part = "ranking" =>
           Ranking!RankingIsOrder /\ Ranking!CompositeRespectsMetrics /\ Ranking!ReportRanksAlike
    /\ part = "simulation" =>
           /\ Simulation!PathsArePossible /\ Simulation!DrawdownsAgree
           /\ Simulation!PercentilesAreOrdered /\ Simulation!RollingCoversAll
    /\ part = "allocation" => Simulation!CapitalIsShared(streams, sharing)
    /\ part = "analytics" =>
           /\ Marked!CurveFitsUnlessBelowZero(marks) /\ Marked!DeepestIsReported(marks)
           /\ Marked!ReturnsCompound(marks)
    /\ part = "snapshot" => Marked!SnapshotFitsButForRates(MetricsOf(sold, 1000), costs)
    /\ part = "backtest" /\ report # Test!NoReport =>
           LET curve == [i \in DOMAIN book.curve |-> [amount |-> book.curve[i], at |-> i]] IN
           /\ Marked!CurveFitsUnlessBelowZero(curve) /\ Marked!DeepestIsReported(curve)
           /\ Marked!SnapshotFitsButForRates(report, [brokerage |-> book.charged, slippage |-> book.slipped])
    /\ part = "lifecycle" => Lifecycle!CopiesKeepHistory

(* An analysis comes to its end (Research), and a result that joins a      *)
(* ranking leaves the order of the others (ResultRanking).                 *)
ResearchSettles == (part = "research" => Search!AnalysisEnds) /\ Ranking!OrderIsKept

(* "Return a performance snapshot from trading PerformanceMetrics."        *)
(* (AnalyticsPerformanceSnapshotFactory): whatever a run's trades came to, *)
(* the snapshot of its metrics is one that the value objects accept.       *)
EveryRunIsReported ==
    part = "snapshot" => Marked!Accepted(Marked!Snapshot(MetricsOf(sold, 1000), costs))
=============================================================================
