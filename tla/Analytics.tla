------------------------------ MODULE Analytics ------------------------------
(***************************************************************************)
(* What analytics makes of a run (analytics/domain/services.py and         *)
(* value_objects.py): the equity curve in money, the drawdown curve and    *)
(* the returns over it, and the snapshot of its metrics, each refused by   *)
(* the value objects' own checks when it does not fit.                     *)
(*                                                                         *)
(* Amounts are tenths of a cent, money whole cents, one currency.  A ratio *)
(* is a pair; the variables are an equity curve that grows.                *)
(***************************************************************************)
EXTENDS PerformanceMetrics

CONSTANTS Amounts, Times, MaxMarks, StartAmount

VARIABLE marks          \* [amount, at] of each mark of the portfolio

(* Mutant: what is not a whole cent is cut off. *)
CentsCut(x) == IF x >= 0 THEN x \div 10 ELSE 0 - ((0 - x) \div 10)

(* Money: quantized to a cent, half away from zero *)
Cents(x) == IF x >= 0 THEN (x + 5) \div 10 ELSE 0 - ((5 - x) \div 10)

Positive(r) == r.num * r.den > 0
Negative(r) == r.num * r.den < 0

-----------------------------------------------------------------------------
(* _to_analytics_equity_curve: all of the result counts as realised *)
EquityPoints(ms, capital) ==
    [i \in DOMAIN ms |-> [at |-> ms[i].at, equity |-> Cents(ms[i].amount),
                          realized |-> Cents(ms[i].amount - capital), unrealized |-> 0]]

(* Mutant: an equal value moves the peak. *)
LastPeak(points) ==
    LET peak[i \in DOMAIN points] ==
            IF i = 1 THEN 1 ELSE IF points[i].equity >= points[peak[i - 1]].equity THEN i ELSE peak[i - 1]
    IN peak

(* The point of the peak before each point *)
Peaks(points) ==
    LET peak[i \in DOMAIN points] ==
            IF i = 1 THEN 1 ELSE IF points[i].equity > points[peak[i - 1]].equity THEN i ELSE peak[i - 1]
    IN peak

(* AnalyticsDrawdownService.calculate *)
DrawdownPoints(points) ==
    [i \in DOMAIN points |->
        LET peak == points[Peaks(points)[i]] IN
        [at |-> points[i].at, peak |-> peak.equity, current |-> points[i].equity, peakAt |-> peak.at,
         drawdown |-> IF peak.equity = 0 THEN Zero ELSE Ratio(points[i].equity - peak.equity, peak.equity)]]

(* DrawdownPoint._validate_drawdown *)
PointFits(p) == ~Positive(p.drawdown) /\ p.peakAt <= p.at /\ p.current <= p.peak

(* AnalyticsReturnSeriesService.calculate *)
ReturnsOf(points) ==
    [i \in 1..(Len(points) - 1) |->
        IF points[i].equity = 0 THEN Zero
        ELSE Ratio(points[i + 1].equity - points[i].equity, points[i].equity)]

(* ReturnSeries._validate_timestamps, cumulative and the counts of signs *)
SeriesFits(points) == points # <<>> => Head(points).at <= Last(points).at
Cumulative(returns) ==
    LET grown == FoldLeft(LAMBDA c, r : Ratio(c.num * (r.den + r.num), c.den * r.den), Ratio(1, 1), returns)
    IN Ratio(grown.num - grown.den, grown.den)
Gains(returns) == {i \in DOMAIN returns : Positive(returns[i])}
Falls(returns) == {i \in DOMAIN returns : Negative(returns[i])}

CurveFits(ms) ==
    LET points == EquityPoints(ms, StartAmount) IN
    (\A i \in DOMAIN points : PointFits(DrawdownPoints(points)[i])) /\ SeriesFits(points)

-----------------------------------------------------------------------------
(* The quotients of up to eight trades that a float prints above their     *)
(* exact value, which the loss rate, a decimal, is close to: 5/6 is        *)
(* 0.8333333333333334.  Those that print below it do no harm.              *)
FloatsAbove == {<<5, 6>>, <<5, 7>>}
WinRate(m) == [num |-> m.winRate.num, den |-> m.winRate.den, above |-> <<m.wins, m.trades>> \in FloatsAbove]

(* Mutant: costs are not added back. *)
SnapshotBeforeCosts(m, costs) ==
    [count |-> m.trades, long |-> m.trades, short |-> 0,
     grossProfit |-> Cents(Max({m.net, 0})), grossLoss |-> Cents(Min({m.net, 0})), net |-> Cents(m.net),
     commission |-> Cents(costs.brokerage), slippage |-> Cents(costs.slippage),
     averageWin |-> IF Positive(m.avgWin) THEN m.avgWin ELSE Zero, averageLoss |-> IF Negative(m.avgLoss) THEN m.avgLoss ELSE Zero,
     largestWin |-> Cents(Max({m.largestWin, 0})), largestLoss |-> Cents(Min({m.largestLoss, 0})),
     winRate |-> WinRate(m), lossRate |-> IF m.trades = 0 THEN Zero ELSE Ratio(Max({m.losses, 0}), m.trades),
     drawdown |-> Ratio(0 - Magnitude(m.drawdownPct.num), Magnitude(m.drawdownPct.den)),
     recovery |-> IF m.drawdown = 0 THEN Zero ELSE Ratio(m.net, Magnitude(m.drawdown)),
     payoff |-> IF m.avgLoss.num = 0 THEN Zero ELSE Ratio(m.avgWin.num * m.avgLoss.den, m.avgWin.den * Magnitude(m.avgLoss.num))]

(* from_performance_metrics: gross profit and loss are the net result with *)
(* its costs added back, on the one side or the other                      *)
Snapshot(m, costs) ==
    LET gross == m.net + costs.brokerage + costs.slippage IN
    [count |-> m.trades, long |-> m.trades, short |-> 0,
     grossProfit |-> Cents(Max({gross, 0})), grossLoss |-> Cents(Min({gross, 0})), net |-> Cents(m.net),
     commission |-> Cents(costs.brokerage), slippage |-> Cents(costs.slippage),
     averageWin |-> IF Positive(m.avgWin) THEN m.avgWin ELSE Zero, averageLoss |-> IF Negative(m.avgLoss) THEN m.avgLoss ELSE Zero,
     largestWin |-> Cents(Max({m.largestWin, 0})), largestLoss |-> Cents(Min({m.largestLoss, 0})),
     winRate |-> WinRate(m), lossRate |-> IF m.trades = 0 THEN Zero ELSE Ratio(Max({m.losses, 0}), m.trades),
     drawdown |-> Ratio(0 - Magnitude(m.drawdownPct.num), Magnitude(m.drawdownPct.den)),
     recovery |-> IF m.drawdown = 0 THEN Zero ELSE Ratio(m.net, Magnitude(m.drawdown)),
     payoff |-> IF m.avgLoss.num = 0 THEN Zero ELSE Ratio(m.avgWin.num * m.avgLoss.den, m.avgWin.den * Magnitude(m.avgLoss.num))]

(* The checks of TradeMetrics and RiskMetrics *)
SidesFit(s) == s.count >= 0 /\ s.long >= 0 /\ s.short >= 0 /\ s.long + s.short = s.count
SignsFit(s) ==
    /\ s.grossProfit >= 0 /\ s.grossLoss <= 0
    /\ ~Negative(s.averageWin) /\ ~Positive(s.averageLoss)
    /\ s.largestWin >= 0 /\ s.largestLoss <= 0
    /\ s.commission >= 0 /\ s.slippage >= 0
NetFits(s) == Magnitude(s.grossProfit + s.grossLoss - s.commission - s.slippage - s.net) <= 1
RatesFit(s) ==
    LET w == s.winRate l == s.lossRate sum == w.num * l.den + l.num * w.den IN
    /\ ~Negative(w) /\ ~Negative(l) /\ w.num <= w.den /\ l.num <= l.den
    /\ sum < w.den * l.den \/ (sum = w.den * l.den /\ ~w.above)
RiskFits(s) == ~Positive(s.drawdown)

Accepted(s) == SidesFit(s) /\ SignsFit(s) /\ NetFits(s) /\ RatesFit(s) /\ RiskFits(s)

-----------------------------------------------------------------------------
AnalyticsTypeOK == Len(marks) <= MaxMarks /\ \A i \in DOMAIN marks : marks[i].amount \in Amounts
AnalyticsInit == marks = <<>>
Mark ==
    /\ Len(marks) < MaxMarks
    /\ \E amount \in Amounts, at \in Times : marks' = Append(marks, [amount |-> amount, at |-> at])
AnalyticsNext == Mark
AnalyticsSpec == AnalyticsInit /\ [][AnalyticsNext]_marks

(* A drawdown curve is refused only when time goes back behind a peak or   *)
(* equity falls from a peak below zero, where the fall counts as a gain    *)
(* (AnalyticsDrawdownService, DrawdownPoint).                              *)
CurveFitsUnlessBelowZero(ms) ==
    LET Value(i) == Cents(ms[i].amount)
        IsPeak(k, i) == /\ \A j \in 1..i : Value(j) <= Value(k)
                        /\ \A j \in 1..(k - 1) : Value(j) < Value(k)
    IN CurveFits(ms) <=>
           /\ \A i \in DOMAIN ms : \A k \in 1..i :
                  IsPeak(k, i) => ms[k].at <= ms[i].at /\ (Value(k) < 0 => Value(i) = Value(k))
           /\ ms # <<>> => Head(ms).at <= Last(ms).at

(* The deepest point of the drawdown curve is the drawdown of the run's    *)
(* metrics to the cent; a peak lasts until it is passed (calculate,        *)
(* backtesting/metrics.py _max_drawdown).                                  *)
DeepestIsReported(ms) ==
    LET down == DrawdownPoints(EquityPoints(ms, StartAmount))
        deepest == Max({0} \cup {down[i].peak - down[i].current : i \in DOMAIN down})
        fall == MaxDrawdown([i \in DOMAIN ms |-> ms[i].amount]).max
    IN /\ Magnitude(10 * deepest - fall) <= 10
       /\ \A i \in DOMAIN down : i > 1 /\ down[i].current <= down[i - 1].peak => down[i].peakAt = down[i - 1].peakAt

(* The returns compound to what the curve made, unless it went through     *)
(* zero, and rises are gains where equity is positive (ReturnSeries).      *)
ReturnsCompound(ms) ==
    LET points == EquityPoints(ms, StartAmount)
        returns == ReturnsOf(points)
        n == Len(points)
        whole == {i \in 1..(n - 1) : points[i].equity = 0} = {}
    IN n > 1 =>
        /\ whole => Cumulative(returns).num * points[1].equity =
                        Cumulative(returns).den * (points[n].equity - points[1].equity)
        /\ (\A i \in DOMAIN points : points[i].equity > 0) =>
               /\ Gains(returns) = {i \in 1..(n - 1) : points[i + 1].equity > points[i].equity}
               /\ Falls(returns) = {i \in 1..(n - 1) : points[i + 1].equity < points[i].equity}

(* Four amounts that are rounded one by one never miss their sum by more   *)
(* than the cent that is allowed, so a snapshot is refused for its rates   *)
(* only (from_performance_metrics, _validate_pnl_consistency).             *)
SnapshotFitsButForRates(m, costs) ==
    LET s == Snapshot(m, costs) IN
    /\ SidesFit(s) /\ SignsFit(s) /\ NetFits(s) /\ RiskFits(s)
    /\ Accepted(s) <=> ~(m.wins + m.losses = m.trades /\ <<m.wins, m.trades>> \in FloatsAbove)
    /\ Positive(s.recovery) => m.net > 0
    /\ Positive(s.payoff) => m.wins > 0 /\ m.losses > 0
=============================================================================
