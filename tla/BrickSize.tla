----------------------------- MODULE BrickSize ------------------------------
(***************************************************************************)
(* Brick size providers (chart/renko/providers.py) and price reference     *)
(* strategies (chart/renko/strategies.py).  The adaptive provider updates  *)
(* all three children with every candle and takes the size of the one its  *)
(* regime names: fixed, percentage or ATR.  A child behaves in it as it    *)
(* does alone.                                                             *)
(*                                                                         *)
(* A candle is a function from the price fields it has to their prices.    *)
(* Prices are integers, One standing for 1.0, and One a multiple of every  *)
(* divisor that occurs, so that no division rounds.                        *)
(***************************************************************************)
EXTENDS Integers, Sequences, FiniteSetsExt, SequencesExt

CONSTANTS
    One,           \* the integer that stands for 1.0
    Candles,       \* the candles that can come
    FixedSize, Period, Multiplier, Percentage,
    Window, Low, High,                  \* adaptive_window, adaptive_thresholds
    Configurations, \* what else is configured: strategy, rounding, minimum (0: none), hysteresis
    MaxCandles     \* bound: candles between two resets

Field == {"open", "high", "low", "close"}

SizeConstants ==
    /\ FixedSize \in Nat \ {0} /\ Period \in Nat \ {0} /\ Multiplier \in Nat \ {0}
    /\ Percentage \in 1..100
    /\ One \in Nat \ {0} /\ Window \in Nat \ {0} /\ Low \in Nat \ {0} /\ High \in Nat /\ Low < High
    /\ Configurations \subseteq [strategy : Field \cup {"typical", "mean", "median"},
                                rounding : {"none", "floor", "ceil", "round"},
                                minimum : Nat, hysteresis : Nat]
    /\ \A c \in Candles : DOMAIN c \subseteq Field /\ DOMAIN c # {} /\ \A f \in DOMAIN c : c[f] \in Nat

VARIABLES
    config,        \* the member of Configurations in force
    provider,      \* the adaptive provider and its children
    twin,          \* auxiliary: a provider restored from a snapshot, or None
    seen,          \* auxiliary: the candles since the last reset
    switches       \* auxiliary: the regime changes since then, and the statistic at each

vars == <<config, provider, twin, seen, switches>>

None == -1
Unset == [stat |-> None, prev |-> None, regime |-> "none", count |-> 0,
          atrPrev |-> None, sum |-> 0, warm |-> 0, atr |-> None, size |-> None]

TypeOK ==
    /\ config \in Configurations
    /\ \A p \in {provider} \cup IF twin = <<>> THEN {} ELSE {twin[1]} :
          /\ DOMAIN p = DOMAIN Unset
          /\ p.regime \in {"none", "low", "medium", "high"}
          /\ p.count \in 0..MaxCandles /\ p.warm \in 0..Period /\ p.sum \in Nat
          /\ {p.stat, p.prev, p.atrPrev, p.atr, p.size} \subseteq Nat \cup {None}
    /\ Len(seen) <= MaxCandles /\ ToSet(seen) \subseteq Candles
    /\ Len(twin) \in {0, 1}

Init == config \in Configurations /\ provider = Unset /\ twin = <<>> /\ seen = <<>> /\ switches = <<>>

-----------------------------------------------------------------------------
(* A field the candle lacks is its close, and the close the first of the   *)
(* others it has.                                                          *)
Close(c) == LET first == SelectInSeq(<<"close", "open", "high", "low">>, LAMBDA f : f \in DOMAIN c)
            IN c[<<"close", "open", "high", "low">>[first]]

Price(c, field) == IF field \in DOMAIN c THEN c[field] ELSE Close(c)

(* Mutant: the typical price of a candle without its close counts it as 0. *)
ReferenceWithoutFallback(c, strategy) ==
    CASE strategy \in Field -> Price(c, strategy)
      [] strategy = "typical" -> (Price(c, "high") + Price(c, "low") +
                                  IF "close" \in DOMAIN c THEN c["close"] ELSE 0) \div 3
      [] strategy = "mean" -> (Price(c, "open") + Price(c, "high") + Price(c, "low") + Close(c)) \div 4
      [] strategy = "median" -> (Price(c, "high") + Price(c, "low")) \div 2

ReferencePrice(c, strategy) ==
    CASE strategy \in Field -> Price(c, strategy)
      [] strategy = "typical" -> (Price(c, "high") + Price(c, "low") + Close(c)) \div 3
      [] strategy = "mean" -> (Price(c, "open") + Price(c, "high") + Price(c, "low") + Close(c)) \div 4
      [] strategy = "median" -> (Price(c, "high") + Price(c, "low")) \div 2

(* _apply_rounding *)
Rounded(size) ==
    CASE config.rounding = "none" -> size
      [] config.rounding = "floor" -> (size \div One) * One
      [] config.rounding = "ceil" -> -((-size) \div One) * One
      [] config.rounding = "round" -> ((size + One \div 2) \div One) * One

(* PercentageBrickSizeProvider.update: a size that is not positive is the  *)
(* exact one, and if that is not positive either the last size stays.      *)
PercentageSize(old, c) ==
    LET raw  == (ReferencePrice(c, config.strategy) * Percentage) \div 100
        size == Max({Rounded(raw), config.minimum})
    IN IF size > 0 THEN size ELSE IF raw > 0 THEN raw ELSE old

Abs(x) == IF x < 0 THEN -x ELSE x

TrueRange(c, prev) ==
    LET high == Price(c, "high")
        low  == Price(c, "low")
    IN IF prev = None THEN high - low
       ELSE Max({high - low, Abs(high - prev), Abs(low - prev)})

(* Mutant: the first smoothed value is the warm-up sum over what came      *)
(* before the last candle.                                                 *)
WarmedUpEarly(p, c) ==
    LET tr  == TrueRange(c, p.atrPrev)
        sum == p.sum + tr
    IN IF p.atr # None
       THEN [p EXCEPT !.atr = (@ * (Period - 1) + tr) \div Period, !.atrPrev = Close(c)]
       ELSE [p EXCEPT !.sum = sum, !.warm = @ + 1, !.atrPrev = Close(c),
                      !.atr = IF p.warm + 1 >= Period THEN p.sum \div Period ELSE None]

(* ATRBrickSizeProvider.update: a running sum, then Wilder's smoothing *)
AtrUpdated(p, c) ==
    LET tr  == TrueRange(c, p.atrPrev)
        sum == p.sum + tr
    IN IF p.atr # None
       THEN [p EXCEPT !.atr = (@ * (Period - 1) + tr) \div Period, !.atrPrev = Close(c)]
       ELSE [p EXCEPT !.sum = sum, !.warm = @ + 1, !.atrPrev = Close(c),
                      !.atr = IF p.warm + 1 >= Period THEN sum \div Period ELSE None]

(* Mutant: the way down from medium needs no clearance. *)
RegimeWithoutClearance(p) ==
    LET s == p.stat IN
    CASE p.regime \in {"none", "medium"} ->
             IF s < Low THEN "low"
             ELSE IF s < High + (IF p.regime = "none" THEN 0 ELSE config.hysteresis) THEN "medium" ELSE "high"
      [] p.regime = "low" ->
             IF s >= High + config.hysteresis THEN "high" ELSE IF s >= Low + config.hysteresis THEN "medium" ELSE "low"
      [] p.regime = "high" ->
             IF s < Low - config.hysteresis THEN "low" ELSE IF s < High - config.hysteresis THEN "medium" ELSE "high"

(* _detect_regime *)
Regime(p) ==
    LET s == p.stat IN
    CASE p.regime = "none" -> IF s < Low THEN "low" ELSE IF s < High THEN "medium" ELSE "high"
      [] p.regime = "low" ->
             IF s >= High + config.hysteresis THEN "high" ELSE IF s >= Low + config.hysteresis THEN "medium" ELSE "low"
      [] p.regime = "medium" ->
             IF s >= High + config.hysteresis THEN "high" ELSE IF s < Low - config.hysteresis THEN "low" ELSE "medium"
      [] p.regime = "high" ->
             IF s < Low - config.hysteresis THEN "low" ELSE IF s < High - config.hysteresis THEN "medium" ELSE "high"

(* Mutant: only the child the regime names is updated. *)
UpdatedSelected(p, c) ==
    LET child == IF p.regime = "high" \/ p.atr = None THEN AtrUpdated(p, c) ELSE p
        tr    == TrueRange(c, p.prev)
        next  == [child EXCEPT
                    !.size = PercentageSize(@, c),
                    !.stat = IF @ = None THEN tr ELSE (2 * tr + (Window - 1) * @) \div (Window + 1),
                    !.prev = Close(c), !.count = @ + 1]
    IN [next EXCEPT !.regime = Regime(next)]

(* AdaptiveBrickSizeProvider.update *)
Updated(p, c) ==
    LET tr   == TrueRange(c, p.prev)
        next == [AtrUpdated(p, c) EXCEPT
                    !.size = PercentageSize(@, c),
                    !.stat = IF @ = None THEN tr ELSE (2 * tr + (Window - 1) * @) \div (Window + 1),
                    !.prev = Close(c), !.count = @ + 1]
    IN [next EXCEPT !.regime = Regime(next)]

Ready(p) == p.size # None /\ p.atr # None

CurrentSize(p) == CASE p.regime \in {"none", "low"} -> FixedSize
                    [] p.regime = "medium" -> p.size
                    [] p.regime = "high" -> p.atr * Multiplier

(* Mutant: the regime is not in the exported state. *)
RestoredWithoutRegime(p) == [p EXCEPT !.regime = "none"]

(* export_state into a snapshot, import_state into a new provider *)
Restored(p) == p

-----------------------------------------------------------------------------
Update(c) ==
    /\ Len(seen) < MaxCandles
    /\ UNCHANGED config
    /\ provider' = Updated(provider, c)
    /\ twin' = IF twin = <<>> THEN twin ELSE <<Updated(twin[1], c)>>
    /\ seen' = Append(seen, c)
    /\ switches' = IF provider'.regime = provider.regime THEN switches
                   ELSE Append(switches, [from |-> provider.regime, to |-> provider'.regime,
                                          stat |-> provider'.stat])

SaveAndRestore == twin' = <<Restored(provider)>> /\ UNCHANGED <<config, provider, seen, switches>>

Reset ==
    /\ UNCHANGED config /\ provider' = Unset /\ twin' = <<>> /\ seen' = <<>> /\ switches' = <<>>

Next == SaveAndRestore \/ Reset \/ \E c \in Candles : Update(c)

-----------------------------------------------------------------------------
(* The true range of the i-th candle seen *)
RangeOf(i) == TrueRange(seen[i], IF i = 1 THEN None ELSE Close(seen[i - 1]))

Weighted(weight(_)) == FoldLeftDomain(LAMBDA acc, i : acc + weight(i) * RangeOf(i), 0, seen)

(* The rolling values are those of their definitions over everything seen  *)
(* since the reset, whatever regimes were passed through: Wilder's average *)
(* true range, the exponential average that decides the regime, and the    *)
(* percentage of the last candle's reference price ("a regime switch       *)
(* yields a correct size with no warm-up gap").                            *)
SizeFromHistory ==
    LET n == Len(seen)
        p == provider
    IN seen # <<>> =>
        /\ Ready(p) <=> n >= Period
        /\ n >= Period =>
              p.atr * Period ^ (n - Period + 1) =
              Weighted(LAMBDA i : IF i <= Period THEN (Period - 1) ^ (n - Period)
                                  ELSE (Period - 1) ^ (n - i) * Period ^ (i - Period))
        /\ p.stat * (Window + 1) ^ (n - 1) =
              Weighted(LAMBDA i : IF i = 1 THEN (Window - 1) ^ (n - 1)
                                  ELSE 2 * (Window - 1) ^ (n - i) * (Window + 1) ^ (i - 2))
        /\ LET exact == (ReferencePrice(seen[n], config.strategy) * Percentage) \div 100
           IN /\ p.size >= config.minimum
              /\ \/ p.size = exact
                 \/ p.size = config.minimum /\ exact < p.size + One
                 \/ config.rounding # "none" /\ p.size % One = 0 /\ Abs(p.size - exact) < One

(* A provider restored from a snapshot gives the sizes of the one that was *)
(* not interrupted, from any moment of warm-up or regime.                  *)
ResumedProviderAgrees ==
    twin # <<>> => /\ Ready(twin[1]) = Ready(provider)
                   /\ Ready(provider) => CurrentSize(twin[1]) = CurrentSize(provider)

(* "Prevents flapping": there and back between two regimes takes a swing   *)
(* of the statistic of more than twice the hysteresis.  The first          *)
(* classification has no clearance.                                        *)
NoFlapping ==
    \A i \in 2..(Len(switches) - 1) :
        switches[i].from = switches[i + 1].to =>
            Abs(switches[i].stat - switches[i + 1].stat) > 2 * config.hysteresis

(* The adaptive size is never zero although the average true range of a    *)
(* still market is: the regime that asks for it has seen movement.         *)
SizePositive == Period > 1 /\ Ready(provider) => CurrentSize(provider) > 0

(* Whatever fields a feed omits, every strategy's reference price lies     *)
(* within the prices of the candle.                                        *)
ReferenceInCandle ==
    seen # <<>> =>
        LET c == Last(seen)
            prices == {c[f] : f \in DOMAIN c}
        IN \A s \in Field \cup {"typical", "mean", "median"} :
               ReferencePrice(c, s) \in Min(prices)..Max(prices)
=============================================================================
