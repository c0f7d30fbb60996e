------------------------- MODULE PerformanceMetrics -------------------------
(***************************************************************************)
(* Performance metrics (trading/backtesting/metrics.py) over an equity     *)
(* curve (a sequence of values) and the closed trades.  A ratio is a pair  *)
(* [num, den] with den > 0; None stands for one that is undefined.         *)
(* Sharpe and Sortino are left out but for their sign: it is the mean's,   *)
(* and both are zero where the deviation is.                               *)
(***************************************************************************)
EXTENDS RunningTotals, FiniteSetsExt, SequencesExt

Magnitude(n) == IF n < 0 THEN 0 - n ELSE n

Zero == [num |-> 0, den |-> 1]
Ratio(n, d) == [num |-> n, den |-> d]
Less(r, q) == r.num * q.den < q.num * r.den
Same(r, q) == r.num * q.den = q.num * r.den

(* Mutant: the fall is measured from the value before. *)
DrawdownStep(d, value) ==
    IF d.peak - value > d.max
    THEN [peak |-> value, max |-> d.peak - value, pct |-> Ratio(d.peak - value, d.peak)]
    ELSE [d EXCEPT !.peak = value]

(* _max_drawdown: one pass with the peak so far *)
Fallen(d, value) ==
    LET peak == IF value > d.peak THEN value ELSE d.peak IN
    IF peak - value > d.max
    THEN [peak |-> peak, max |-> peak - value,
          pct |-> IF peak # 0 THEN Ratio(peak - value, peak) ELSE Zero]
    ELSE [d EXCEPT !.peak = peak]

MaxDrawdown(values) ==
    IF values = <<>> THEN [peak |-> 0, max |-> 0, pct |-> Zero]
    ELSE FoldLeft(Fallen, [peak |-> values[1], max |-> 0, pct |-> Zero], values)

Mean(s) == IF s = <<>> THEN Zero ELSE Ratio(SumOf(s), Len(s))

(* compute_metrics *)
Metrics(curve, trades, capital) ==
    LET nets   == [i \in DOMAIN trades |-> trades[i].net]
        won    == SelectSeq(nets, LAMBDA n : n > 0)
        lost   == SelectSeq(nets, LAMBDA n : n < 0)
        ending == IF curve = <<>> THEN capital ELSE Last(curve)
        fall   == MaxDrawdown(curve)
        OfNets(F(_)) == IF nets = <<>> THEN 0 ELSE F(ToSet(nets))
    IN [ending |-> ending, pnl |-> ending - capital,
        drawdown |-> fall.max, drawdownPct |-> fall.pct,
        trades |-> Len(trades), wins |-> Len(won), losses |-> Len(lost),
        winRate |-> IF trades = <<>> THEN Zero ELSE Ratio(Len(won), Len(trades)),
        avgWin |-> Mean(won), avgLoss |-> Mean(lost),
        profitFactor |-> IF lost = <<>> THEN Ratio(0, 0) ELSE Ratio(SumOf(won), Magnitude(SumOf(lost))),
        expectancy |-> Mean(nets),
        largestWin |-> OfNets(Max), largestLoss |-> OfNets(Min),
        gross |-> SumOf([i \in DOMAIN trades |-> trades[i].gross]), net |-> SumOf(nets)]

-----------------------------------------------------------------------------
(* The drawdown is the deepest fall between two points of the curve, and   *)
(* its percentage that of a deepest fall: not the deepest percentage       *)
(* (_max_drawdown).                                                        *)
DrawdownIsDeepestFall(curve) ==
    LET fell == {p \in (DOMAIN curve) \X (DOMAIN curve) : p[1] < p[2]}
        deepest == Max({0} \cup {curve[p[1]] - curve[p[2]] : p \in fell})
    IN /\ MaxDrawdown(curve).max = deepest
       /\ deepest > 0 => \E p \in fell :
              /\ curve[p[1]] - curve[p[2]] = deepest
              /\ Same(MaxDrawdown(curve).pct, Ratio(deepest, curve[p[1]]))

(* The metrics fit together: what was won and lost is the net result, the  *)
(* mean trade lies between the worst and the best, and the profit factor   *)
(* says which side is larger (compute_metrics).                            *)
MetricsAgree(m) ==
    /\ m.avgWin.num + m.avgLoss.num = m.net
    /\ m.wins + m.losses <= m.trades
    /\ m.trades > 0 => ~Less(m.expectancy, Ratio(m.largestLoss, 1)) /\ ~Less(Ratio(m.largestWin, 1), m.expectancy)
    /\ m.losses > 0 => (m.profitFactor.num > m.profitFactor.den <=> m.net > 0)
=============================================================================
