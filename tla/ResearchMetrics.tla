--------------------------- MODULE ResearchMetrics ---------------------------
(***************************************************************************)
(* The exact part of the research metrics (backtesting/research/           *)
(* metrics.py), of the Monte Carlo simulation of trade sequences           *)
(* (monte_carlo.py) and of the allocation of capital                       *)
(* (portfolio_optimizer.py).  Ratios are pairs [num, den]; percentiles are *)
(* times a hundred; roots and annualised values are left out.              *)
(***************************************************************************)
EXTENDS PerformanceMetrics

(* Mutant: a value at the peak does not end the fall. *)
FallEndsAbovePeak(d, value) ==
    IF value > d.peak THEN [d EXCEPT !.peak = value, !.run = 0]
    ELSE LET deeper == d.peak - value > d.max IN
         [d EXCEPT !.run = @ + 1,
                   !.max = IF deeper THEN d.peak - value ELSE @,
                   !.pct = IF deeper THEN Ratio(d.peak - value, d.peak) ELSE @,
                   !.duration = Max({@, d.run + 1})]

(* max_drawdown with its duration: the longest run of values below a peak  *)
FallenTo(d, value) ==
    IF value >= d.peak THEN [d EXCEPT !.peak = value, !.run = 0]
    ELSE LET deeper == d.peak - value > d.max IN
         [d EXCEPT !.run = @ + 1,
                   !.max = IF deeper THEN d.peak - value ELSE @,
                   !.pct = IF deeper THEN (IF d.peak = 0 THEN Zero ELSE Ratio(d.peak - value, d.peak)) ELSE @,
                   !.duration = Max({@, d.run + 1})]

Drawdown(values) ==
    LET none(peak) == [peak |-> peak, max |-> 0, pct |-> Zero, run |-> 0, duration |-> 0]
    IN IF values = <<>> THEN none(0) ELSE FoldLeft(FallenTo, none(values[1]), values)

(* drawdown_series *)
PeakTo(values, i) == Max({values[k] : k \in 1..i})
DrawdownSeries(values) ==
    [i \in DOMAIN values |-> IF PeakTo(values, i) = 0 THEN Zero ELSE Ratio(values[i] - PeakTo(values, i), PeakTo(values, i))]

(* Mutant: the weights of the two neighbours are swapped. *)
PercentileSwapped(values, q) ==
    LET sorted == SortSeq(values, <)
        position == (Len(values) - 1) * q
        lower == 1 + position \div 100
        weight == position % 100
    IN IF values = <<>> THEN 0
       ELSE IF weight = 0 THEN 100 * sorted[lower]
       ELSE sorted[lower] * weight + sorted[lower + 1] * (100 - weight)

(* percentile, at q percent *)
Percentile(values, q) ==
    LET sorted == SortSeq(values, <)
        position == (Len(values) - 1) * q
        lower == 1 + position \div 100
        weight == position % 100
    IN IF values = <<>> THEN 0
       ELSE IF weight = 0 THEN 100 * sorted[lower]
       ELSE sorted[lower] * (100 - weight) + sorted[lower + 1] * weight

(* rolling: the windows a metric is taken over *)
RollingWindows(values, size) == [i \in 1..(Len(values) - size + 1) |-> SubSeq(values, i, i + size - 1)]

(* InstitutionalMetricsEngine.compute, what is exact; the value at risk is *)
(* taken over changes of equity in place of returns                        *)
Institutional(values, nets, capital) ==
    LET changes == [i \in 1..(Len(values) - 1) |-> values[i + 1] - values[i]]
        gains   == SelectSeq(changes, LAMBDA c : c > 0)
        losses  == SelectSeq(changes, LAMBDA c : c < 0)
        won     == SelectSeq(nets, LAMBDA n : n > 0)
        lost    == SelectSeq(nets, LAMBDA n : n < 0)
        ending  == IF values = <<>> THEN capital ELSE Last(values)
        fall    == Drawdown(values)
        risk    == Percentile(changes, 5)
        tail    == SelectSeq(changes, LAMBDA c : 100 * c <= risk)
    IN [omega |-> IF losses = <<>> THEN Ratio(0, 0) ELSE Ratio(SumOf(gains), Magnitude(SumOf(losses))),
        profitFactor |-> IF lost = <<>> THEN Ratio(0, 0) ELSE Ratio(SumOf(won), Magnitude(SumOf(lost))),
        expectancy |-> Mean(nets),
        var |-> risk,
        cvar |-> IF tail = <<>> THEN Ratio(risk, 100) ELSE Mean(tail),
        exposure |-> IF values = <<>> THEN Zero ELSE Ratio(Len(SelectSeq(values, LAMBDA v : v # capital)), Len(values)),
        recovery |-> IF fall.max = 0 THEN Zero ELSE Ratio(ending - capital, fall.max),
        drawdown |-> fall.max, duration |-> fall.duration]

-----------------------------------------------------------------------------
(* _equity_curve: capital and the running sum of the results *)
EquityCurve(capital, pnls) == [i \in 1..(Len(pnls) + 1) |-> capital + SumOf(SubSeq(pnls, 1, i - 1))]

(* Mutant: the path is ruined only where it ends. *)
PathRuinedAtEnd(capital, pnls, ruinLevel) ==
    LET curve == EquityCurve(capital, pnls)
        fall  == Drawdown(curve)
    IN [ending |-> Last(curve), drawdown |-> fall.max, pct |-> fall.pct, ruined |-> Last(curve) <= ruinLevel]

(* One path of the simulation *)
PathOf(capital, pnls, ruinLevel) ==
    LET curve == EquityCurve(capital, pnls)
        fall  == Drawdown(curve)
    IN [ending |-> Last(curve), drawdown |-> fall.max, pct |-> fall.pct,
        ruined |-> \E i \in DOMAIN curve : curve[i] <= ruinLevel]

-----------------------------------------------------------------------------
(* Mutant: without a positive weight there is nothing to share by. *)
NormalizedByTotal(weights) ==
    LET total == FoldSet(LAMBDA n, a : Max({0, weights[n]}) + a, 0, DOMAIN weights)
    IN [n \in DOMAIN weights |-> Ratio(Max({0, weights[n]}), total)]

(* _normalize: negative weights count as zero; without a positive one the  *)
(* weights are equal                                                       *)
NormalizedWeights(weights) ==
    LET total == FoldSet(LAMBDA n, a : Max({0, weights[n]}) + a, 0, DOMAIN weights) IN
    IF total <= 0 THEN [n \in DOMAIN weights |-> Ratio(1, Cardinality(DOMAIN weights))]
    ELSE [n \in DOMAIN weights |-> Ratio(Max({0, weights[n]}), total)]

(* PortfolioOptimizer.optimize: the weights of a method, over streams      *)
(* [mean, vol] with volatilities up to 3.  A volatility of zero is raised  *)
(* to a tiny one, whose inverse outweighs the others.                      *)
InverseOf(vol, power) == IF vol = 0 THEN 36000 ELSE 36 \div (IF power = 2 THEN vol * vol ELSE vol)
RawWeights(streams, method) ==
    [n \in DOMAIN streams |->
        CASE method = "equal_weight"     -> 1
          [] method = "minimum_variance" -> InverseOf(streams[n].vol, 2)
          [] method = "maximum_sharpe"   -> Max({0, streams[n].mean}) * InverseOf(streams[n].vol, 2)
          [] OTHER                       -> InverseOf(streams[n].vol, 1)]

Allocate(streams, method) == NormalizedWeights(RawWeights(streams, method))

Methods == {"equal_weight", "risk_parity", "maximum_sharpe", "minimum_variance"}

(* Whatever the streams and the method, the capital is shared out whole    *)
(* and nothing is sold short; risk parity gives every stream the same risk *)
(* and the Sharpe ratio nothing to a stream that loses, if one gains       *)
(* (_normalize, optimize).                                                 *)
CapitalIsShared(streams, method) ==
    LET weights == Allocate(streams, method)
        den == weights[CHOOSE n \in DOMAIN weights : TRUE].den
    IN /\ \A n \in DOMAIN weights : weights[n].num >= 0 /\ weights[n].den = den
       /\ den > 0 /\ FoldSet(LAMBDA n, a : weights[n].num + a, 0, DOMAIN weights) = den
       /\ method = "risk_parity" =>
              \A n, m \in DOMAIN streams : streams[n].vol * streams[m].vol > 0 =>
                  weights[n].num * streams[n].vol = weights[m].num * streams[m].vol
       /\ method = "maximum_sharpe" /\ (\E n \in DOMAIN streams : streams[n].mean > 0) =>
              \A n \in DOMAIN streams : streams[n].mean <= 0 => weights[n].num = 0
=============================================================================
