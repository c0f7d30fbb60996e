----------------------------- MODULE MonteCarlo -----------------------------
(***************************************************************************)
(* The Monte Carlo simulation of closed trades (backtesting/research/      *)
(* monte_carlo.py): each iteration draws an order of the results, or draws *)
(* them with replacement, and the random generator is a free choice.       *)
(***************************************************************************)
EXTENDS ResearchMetrics, Functions

CONSTANTS
    TradeResults,       \* the sequences of results to simulate
    Samplings,          \* the sampling methods
    Equity0, RuinLevel, \* starting equity, and starting equity times threshold
    Iterations          \* bound: iterations of a simulation

SimulationConstants ==
    /\ Equity0 \in Nat \ {0} /\ RuinLevel \in 1..(Equity0 - 1) /\ Iterations \in Nat \ {0}

VARIABLES
    pnls, method,
    paths,              \* one summary for each iteration
    sampled             \* history: what each iteration drew

simulationVars == <<pnls, method, paths, sampled>>

SimulationTypeOK == Len(paths) <= Iterations /\ DOMAIN sampled = DOMAIN paths

SimulationInit ==
    /\ pnls \in TradeResults /\ method \in Samplings
    /\ paths = <<>> /\ sampled = <<>>

(* Mutant: an order may draw a result twice. *)
SamplesWithRepeats(results, how) == [DOMAIN results -> ToSet(results)]

(* _sample *)
Samples(results, how) ==
    IF how = "bootstrap" THEN [DOMAIN results -> ToSet(results)]
    ELSE {[i \in DOMAIN results |-> results[p[i]]] : p \in Bijection(DOMAIN results, DOMAIN results)}

Simulate ==
    /\ Len(paths) < Iterations
    /\ \E s \in Samples(pnls, method) :
           /\ paths' = Append(paths, PathOf(Equity0, s, RuinLevel))
           /\ sampled' = Append(sampled, s)
    /\ UNCHANGED <<pnls, method>>

SimulationNext == Simulate

SimulationSpec == SimulationInit /\ [][SimulationNext]_simulationVars

(* The summary of the paths *)
Endings == [i \in DOMAIN paths |-> paths[i].ending]
RuinProbability == Ratio(Len(SelectSeq(paths, LAMBDA p : p.ruined)), Len(paths))

-----------------------------------------------------------------------------
(* Another order of the same trades ends with the same equity; no path     *)
(* ends outside what the best and the worst draw could give; a path is     *)
(* ruined when it touched the level on its way, not only where it ends     *)
(* (simulate).                                                             *)
PathsArePossible ==
    \A i \in DOMAIN paths :
        LET total == SumOf(pnls) n == Len(pnls)
            lowest == Min({SumOf(SubSeq(sampled[i], 1, k)) : k \in 0..n})
        IN /\ method = "random_trade_order" => paths[i].ending = Equity0 + total
           /\ n > 0 => paths[i].ending \in (Equity0 + n * Min(ToSet(pnls)))..(Equity0 + n * Max(ToSet(pnls)))
           /\ paths[i].ruined <=> Equity0 + lowest <= RuinLevel
           /\ paths[i].ruined => paths[i].drawdown >= Equity0 - RuinLevel

(* The two implementations of the drawdown, of the backtest and of the     *)
(* research, agree, and its duration is the longest stretch below a peak   *)
(* (max_drawdown, backtesting/metrics.py _max_drawdown).                   *)
DrawdownsAgree ==
    \A i \in DOMAIN paths :
        LET curve == EquityCurve(Equity0, sampled[i])
            fall  == Drawdown(curve)
            Below(k) == curve[k] < PeakTo(curve, k)
            stretches == {r \in (DOMAIN curve) \X (DOMAIN curve) : \A k \in r[1]..r[2] : Below(k)}
        IN /\ fall.max = MaxDrawdown(curve).max /\ Same(fall.pct, MaxDrawdown(curve).pct)
           /\ fall.duration = Max({0} \cup {r[2] - r[1] + 1 : r \in stretches})
           /\ \A k \in DOMAIN curve : Below(k) <=> DrawdownSeries(curve)[k].num < 0

(* Percentiles rise with their level and lie within the values; the mean   *)
(* of the tail is no better than the value at risk (percentile, compute).  *)
PercentilesAreOrdered ==
    paths # <<>> =>
        LET P(q) == Percentile(Endings, q)
            m == Institutional(EquityCurve(Equity0, Last(sampled)), Last(sampled), Equity0)
        IN /\ 100 * Min(ToSet(Endings)) <= P(5) /\ P(5) <= P(50) /\ P(50) <= P(95)
           /\ P(95) <= 100 * Max(ToSet(Endings))
           /\ ~Less(Ratio(m.var, 100), m.cvar)
           /\ m.profitFactor.den > 0 =>
                  (m.profitFactor.num > m.profitFactor.den <=> Last(Endings) > Equity0)
           /\ m.recovery.num > 0 => Last(Endings) > Equity0
           /\ m.drawdown = Last(paths).drawdown
           /\ Cardinality(ToSet(Endings)) = 1 => P(5) = P(95)
           /\ RuinProbability.num \in 0..RuinProbability.den

(* The windows of a rolling metric are all its stretches of that length,   *)
(* the last one ending with the last value (rolling).                      *)
RollingCoversAll ==
    \A size \in 1..3 :
        LET windows == RollingWindows(pnls, size) IN
        /\ \A w \in DOMAIN windows : Len(windows[w]) = size
        /\ Len(pnls) >= size => Last(Last(windows)) = Last(pnls) /\ windows[1][1] = pnls[1]
        /\ Len(pnls) < size => windows = <<>>
=============================================================================
