------------------------------ MODULE Selection ------------------------------
(***************************************************************************)
(* The pure part of strategy research: from axes of parameters to trials   *)
(* (backtesting/research/parameter_space.py, optimizer.py, validation/     *)
(* matrix.py, scenario.py) and from results to the best and to rankings    *)
(* (research/models.py, validation/ranking.py).                            *)
(*                                                                         *)
(* A set of parameters is a function from names to numbers.  The hash that *)
(* identifies a scenario is taken to have no collisions: a scenario is its *)
(* own identity.  A symbol stands for a symbol with its dataset.           *)
(***************************************************************************)
EXTENDS Integers, Sequences, FiniteSets, SequencesExt, FiniteSetsExt

CONSTANT NoValue     \* None

EachOf(s, F(_)) == FlattenSeq([i \in DOMAIN s |-> F(s[i])])
Distinct(s) == FoldLeft(LAMBDA out, x : IF Contains(out, x) THEN out ELSE Append(out, x), <<>>, s)

-----------------------------------------------------------------------------
(* The parameters that are not the strategy's; type and timeframe of a     *)
(* brick are left out of the overrides below                               *)
ReservedKeys ==
    {"atr", "atr_multiple", "brick_type", "timeframe", "brick_size", "fixed_quantity", "leverage", "position_fraction", "risk_percent",
     "stop_loss", "take_profit", "trailing_stop", "trailing_stop_percent", "max_open_positions"}

(* ParameterSpace.combinations: the first axis varies slowest *)
NoParameters == [name \in {} |-> 0]
Combinations(axes) ==
    FoldLeft(LAMBDA sets, axis : EachOf(sets, LAMBDA p : [i \in DOMAIN axis.values |-> (axis.name :> axis.values[i]) @@ p]),
             <<NoParameters>>, axes)

(* ParameterSpace.single *)
Single(p) == LET names == SetToSeq(DOMAIN p)
             IN [i \in DOMAIN names |-> [name |-> names[i], values |-> <<p[names[i]]>>]]

(* coerce_float with its default, and "or": zero falls back as well *)
Coerced(p, name, default) == IF name \in DOMAIN p /\ p[name] # NoValue THEN p[name] ELSE default
OrElse(value, default) == IF value = 0 THEN default ELSE value

(* _accepted_kwargs: what the strategy's constructor does not take is      *)
(* dropped                                                                 *)
AcceptedBy(strategy) ==
    CASE strategy \in {"ema_crossover", "ema_trend"} -> {"period"}
      [] strategy = "renko_trend" -> {"trend_length"}
      [] OTHER -> {"buffer"}
StrategyValues(strategy, p) == [name \in (DOMAIN p \ ReservedKeys) \cap AcceptedBy(strategy) |-> p[name]]

(* _with_parameter_overrides *)
Overridden(risk, p) ==
    [risk EXCEPT !.fraction = Coerced(p, "risk_percent", Coerced(p, "position_fraction", @)),
                 !.quantity = Coerced(p, "fixed_quantity", @),
                 !.leverage = OrElse(Coerced(p, "leverage", @), @)]

(* _risk_manager_from_parameters *)
RulesOf(p) ==
    LET Rule(name, holds) ==
            IF name \in DOMAIN p /\ p[name] # NoValue /\ holds THEN <<[kind |-> name, limit |-> p[name]]>> ELSE <<>>
        Positive(name) == Rule(name, p[name] > 0)
        amount == Positive("trailing_stop")
    IN Positive("stop_loss") \o Positive("take_profit")
       \o (IF amount # <<>> THEN amount ELSE Rule("trailing_stop_percent", p["trailing_stop_percent"] \in 1..99))
       \o Rule("max_open_positions", p["max_open_positions"] >= 0)

Scenario(strategy, values, brick, symbol, range, risk) ==
    [strategy |-> strategy, values |-> values, brick |-> brick, symbol |-> symbol, range |-> range, risk |-> risk]

(* Mutant: trials of one scenario are taken for one trial. *)
TrialsOfScenario(task, axes) ==
    LET all == EachOf(task.strategies, LAMBDA strategy : EachOf(Combinations(axes), LAMBDA p :
                   <<[scenario |-> Scenario(strategy, StrategyValues(strategy, p), OrElse(Coerced(p, "brick_size", task.bricks[1]), task.bricks[1]),
                                            task.symbols[1], task.ranges[1], Overridden(task.risks[1], p)),
                      params |-> p]>>))
    IN FoldLeft(LAMBDA out, t : IF \E i \in DOMAIN out : out[i].scenario = t.scenario THEN out ELSE Append(out, t),
                <<>>, all)

(* GridSearchOptimizer._build_trials *)
Trials(task, axes) ==
    Distinct(
      EachOf(task.strategies, LAMBDA strategy :
      EachOf(task.symbols, LAMBDA symbol :
      EachOf(task.bricks, LAMBDA brick :
      EachOf(task.ranges, LAMBDA range :
      EachOf(task.risks, LAMBDA risk :
      EachOf(Combinations(axes), LAMBDA p :
        <<[scenario |-> Scenario(strategy, StrategyValues(strategy, p),
                                 OrElse(Coerced(p, "brick_size", brick), brick), symbol, range, Overridden(risk, p)),
           params |-> p]>>)))))))

(* ValidationMatrix.scenarios: the grid goes to the strategy as it is *)
MatrixScenarios(task, axes) ==
    Distinct(
      EachOf(task.strategies, LAMBDA strategy :
      EachOf(Combinations(axes), LAMBDA p :
      EachOf(task.bricks, LAMBDA brick :
      EachOf(task.symbols, LAMBDA symbol :
      EachOf(task.ranges, LAMBDA range :
      EachOf(task.risks, LAMBDA risk :
        <<[scenario |-> Scenario(strategy, p, brick, symbol, range, risk), params |-> NoParameters]>>)))))))

-----------------------------------------------------------------------------
(***************************************************************************)
(* A result is [status, metrics], the metrics a function from names to     *)
(* numbers or NoValue, empty when the trial failed.                        *)
(***************************************************************************)
Metric(result, name) == IF name \in DOMAIN result.metrics THEN result.metrics[name] ELSE NoValue
Completed(results) == {i \in DOMAIN results : results[i].status = "completed"}

(* Mutant: a failed trial counts with a value of zero. *)
BestWithFailed(results, metric, maximize) ==
    LET Value(i) == IF Metric(results[i], metric) = NoValue THEN 0 ELSE Metric(results[i], metric)
        top == {i \in DOMAIN results : \A k \in DOMAIN results : IF maximize THEN Value(k) <= Value(i) ELSE Value(k) >= Value(i)}
    IN IF top = {} THEN 0 ELSE Min(top)

(* ResearchObjective.score and OptimizationResult.best_trial: the first of *)
(* the best, 0 without any                                                 *)
Best(results, metric, maximize) ==
    LET scored == {i \in Completed(results) : Metric(results[i], metric) # NoValue}
        Value(i) == Metric(results[i], metric)
        top == {i \in scored : \A k \in scored : IF maximize THEN Value(k) <= Value(i) ELSE Value(k) >= Value(i)}
    IN IF top = {} THEN 0 ELSE Min(top)

(* METRIC_DIRECTIONS, of which the model has two *)
HigherIsBetter(metric) == metric # "max_drawdown"

(* Mutant: a value that is undefined sorts as zero. *)
SortedWithUndefined(results, metric) ==
    LET Value(i) == IF Metric(results[i], metric) = NoValue THEN 0 ELSE Metric(results[i], metric)
        Before(i, k) == IF Value(i) # Value(k) THEN (Value(i) > Value(k)) = HigherIsBetter(metric)
                        ELSE results[i].id < results[k].id
    IN SetToSortSeq(Completed(results), Before)

(* rank_by: an undefined value is worst, ties go by the scenario's id      *)
(* (here [results[i].id]); the indexes of the results in their order       *)
RankBy(results, metric) ==
    LET Value(i) == Metric(results[i], metric)
        Before(i, k) ==
            IF Value(i) = NoValue \/ Value(k) = NoValue
            THEN Value(i) # NoValue \/ (Value(k) = NoValue /\ results[i].id < results[k].id)
            ELSE IF Value(i) # Value(k) THEN (Value(i) > Value(k)) = HigherIsBetter(metric)
            ELSE results[i].id < results[k].id
    IN SetToSortSeq(Completed(results), Before)

(* Mutant: an undefined value counts as the best observed. *)
ColumnWithBest(results, metric) ==
    LET valid == {Metric(results[i], metric) : i \in Completed(results)} \ {NoValue}
        best  == IF valid = {} THEN 0 ELSE IF HigherIsBetter(metric) THEN Max(valid) ELSE Min(valid)
    IN [i \in Completed(results) |-> IF Metric(results[i], metric) = NoValue THEN best ELSE Metric(results[i], metric)]

(* A metric's column, where an undefined value is the worst observed one *)
Column(results, metric) ==
    LET valid == {Metric(results[i], metric) : i \in Completed(results)} \ {NoValue}
        worst == IF valid = {} THEN 0 ELSE IF HigherIsBetter(metric) THEN Min(valid) ELSE Max(valid)
    IN [i \in Completed(results) |-> IF Metric(results[i], metric) = NoValue THEN worst ELSE Metric(results[i], metric)]

(* _normalized, as the share of the column's span *)
ColumnValues(column) == {column[i] : i \in DOMAIN column}
Span(column) == Max(ColumnValues(column)) - Min(ColumnValues(column))
Normalized(column, metric, i) ==
    IF Span(column) = 0 THEN 0
    ELSE IF HigherIsBetter(metric) THEN column[i] - Min(ColumnValues(column))
    ELSE Max(ColumnValues(column)) - column[i]

(* composite_score, times the product of the spans *)
CompositeScores(results, weights) ==
    LET columns == [m \in DOMAIN weights |-> Column(results, m)]
        Scale(m) == IF Span(columns[m]) = 0 THEN 1 ELSE Span(columns[m])
        Others(m) == FoldSet(LAMBDA k, a : Scale(k) * a, 1, DOMAIN weights \ {m})
    IN [i \in Completed(results) |->
           FoldSet(LAMBDA m, a : weights[m] * Normalized(columns[m], m, i) * Others(m) + a, 0, DOMAIN weights)]

CompositeRanking(results, weights) ==
    LET scores == CompositeScores(results, weights)
        Before(i, k) == scores[i] > scores[k] \/ (scores[i] = scores[k] /\ results[i].id < results[k].id)
    IN SetToSortSeq(Completed(results), Before)
=============================================================================
