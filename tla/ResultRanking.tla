---------------------------- MODULE ResultRanking ----------------------------
(***************************************************************************)
(* A result set that grows (validation/results.py) and its rankings        *)
(* (validation/ranking.py, backtesting/research/models.py), and those that *)
(* analytics reports of it (analytics/domain/services.py).                 *)
(***************************************************************************)
EXTENDS Selection

CONSTANTS
    MetricValues,       \* what a metric can be, NoValue among them
    WeightSets,         \* the weights of a composite
    MaxResults          \* bound: results of a set

VARIABLE entries        \* [id, status, metrics] of each result

MetricNames == {"net_profit", "max_drawdown"}

RankingTypeOK == Len(entries) <= MaxResults

RankingInit == entries = <<>>

(* ResultSet.add: the results come in any order of their ids *)
Add(result) ==
    /\ Len(entries) < MaxResults
    /\ \A i \in DOMAIN entries : entries[i].id # result.id
    /\ entries' = Append(entries, result)

RankingNext ==
    \E id \in 1..MaxResults :
        \/ \E profit \in MetricValues, fall \in MetricValues :
               Add([id |-> id, status |-> "completed", metrics |-> [net_profit |-> profit, max_drawdown |-> fall]])
        \/ Add([id |-> id, status |-> "failed", metrics |-> NoParameters])

RankingSpec == RankingInit /\ [][RankingNext]_entries

-----------------------------------------------------------------------------
(* The same results as analytics reports them (analytics/domain/           *)
(* services.py): a metric has other names, and the id of an item, a digest *)
(* of its scenario's, comes in another order.                              *)
Aliases(metric) ==
    CASE metric = "drawdown"   -> <<"drawdown", "max_drawdown">>
      [] metric = "net_profit" -> <<"net_profit", "net_pnl", "total_pnl">>
      [] OTHER -> <<metric>>

Extracted(result, metric) ==
    LET known == SelectSeq(Aliases(metric), LAMBDA name : name \in DOMAIN result.metrics)
    IN IF known = <<>> THEN NoValue ELSE result.metrics[Head(known)]

Digest(result) == MaxResults + 1 - result.id
LowerIsBetter(metric) == metric \in {"max_drawdown", "drawdown"}

(* Mutant: a value that is not there sorts like zero. *)
RankedAsZero(results, metric) ==
    LET Value(i) == IF Extracted(results[i], metric) = NoValue THEN 0 ELSE Extracted(results[i], metric)
        Before(i, k) == IF Value(i) # Value(k) THEN (Value(i) < Value(k)) = LowerIsBetter(metric)
                        ELSE Digest(results[i]) < Digest(results[k])
    IN SetToSortSeq(Completed(results), Before)

(* rank_strategy_analytics *)
RankedAnalytics(results, metric) ==
    LET Value(i) == Extracted(results[i], metric)
        Key(i) == IF Value(i) = NoValue THEN <<1, 0>>
                  ELSE <<0, IF LowerIsBetter(metric) THEN Value(i) ELSE 0 - Value(i)>>
        Before(i, k) == \/ Key(i)[1] < Key(k)[1]
                        \/ Key(i)[1] = Key(k)[1] /\ Key(i)[2] < Key(k)[2]
                        \/ Key(i) = Key(k) /\ Digest(results[i]) < Digest(results[k])
    IN SetToSortSeq(Completed(results), Before)

(* build_report_from_result_set: the id of a ranking is that of its metric *)
(* and its length, and a report lists no id twice                          *)
RankingIds(results, metrics) == [m \in DOMAIN metrics |-> <<metrics[m], Cardinality(Completed(results))>>]
ReportIsBuilt(results, metrics) == IsInjective(RankingIds(results, metrics))

-----------------------------------------------------------------------------
PlaceIn(ranking, i) == CHOOSE place \in DOMAIN ranking : ranking[place] = i

(* How good a value is: undefined is worse than any. *)
Better(metric, v, u) == v # NoValue /\ (u = NoValue \/ (v # u /\ (v > u) = HigherIsBetter(metric)))

(* A ranking lists every completed result once and no failed one, better   *)
(* before worse; the optimizer's best trial is among the first of it       *)
(* (rank_by, best_trial).                                                  *)
RankingIsOrder ==
    \A metric \in MetricNames :
        LET ranking == RankBy(entries, metric)
            best == Best(entries, metric, HigherIsBetter(metric))
        IN /\ ToSet(ranking) = Completed(entries) /\ Len(ranking) = Cardinality(Completed(entries))
           /\ \A p, q \in DOMAIN ranking : p < q =>
                  ~Better(metric, Metric(entries[ranking[q]], metric), Metric(entries[ranking[p]], metric))
           /\ best # 0 => Metric(entries[best], metric) = Metric(entries[ranking[1]], metric)
           /\ best = 0 <=> \A i \in Completed(entries) : Metric(entries[i], metric) = NoValue

(* A result that is at least as good in every metric and better in one is  *)
(* not ranked behind by a composite, where undefined is as bad as the      *)
(* worst observed; a score lies between zero and the sum of the weights    *)
(* (composite_score).                                                      *)
CompositeRespectsMetrics ==
    \A weights \in WeightSets :
        LET ranking == CompositeRanking(entries, weights)
            scores  == CompositeScores(entries, weights)
            Dominates(i, k) ==
                /\ \A m \in DOMAIN weights : ~Better(m, Metric(entries[k], m), Metric(entries[i], m))
                /\ \E m \in DOMAIN weights : Metric(entries[k], m) # NoValue
                                             /\ Better(m, Metric(entries[i], m), Metric(entries[k], m))
        IN /\ ToSet(ranking) = Completed(entries)
           /\ \A i, k \in Completed(entries) : Dominates(i, k) => PlaceIn(ranking, i) < PlaceIn(ranking, k)
           /\ \A i \in Completed(entries) : scores[i] >= 0

(* Analytics ranks a result set as validation does, but for the order of   *)
(* equals, under each name of a metric; a report of it is built when no    *)
(* metric is asked for twice (rank_strategy_analytics, rank_by).           *)
ReportRanksAlike ==
    LET Values(ranking, metric) == [p \in DOMAIN ranking |-> Metric(entries[ranking[p]], metric)] IN
    /\ \A metric \in MetricNames :
           Values(RankedAnalytics(entries, metric), metric) = Values(RankBy(entries, metric), metric)
    /\ RankedAnalytics(entries, "drawdown") = RankedAnalytics(entries, "max_drawdown")
    /\ \A m, n \in MetricNames \cup {"drawdown"} : ReportIsBuilt(entries, <<m, n>>) <=> m # n

(* Ranking by one metric compares two results by themselves: a result that *)
(* joins changes the order of no two others.                               *)
OrderIsKept ==
    [][\A metric \in MetricNames : \A i, k \in Completed(entries) :
           PlaceIn(RankBy(entries, metric), i) < PlaceIn(RankBy(entries, metric), k)
               => PlaceIn(RankBy(entries', metric), i) < PlaceIn(RankBy(entries', metric), k)]_entries
=============================================================================
