----------------------------- MODULE Strategies -----------------------------
(***************************************************************************)
(* The four built-in strategies (trading/strategy/ema_crossover.py,        *)
(* ema_trend.py, renko_trend.py, pdh_pdl_breakout.py) and the moving       *)
(* averages (trading/indicators).  A strategy is a state and three ways to *)
(* feed it: a brick, a bar, and the question for its signal.               *)
(*                                                                         *)
(* A brick and a bar are one record: close, high and low, the day, for a   *)
(* brick its direction and the previous day's range its metadata may carry *)
(* (None when they do not).  Prices are multiples of a unit that the       *)
(* averages divide without rest.                                           *)
(***************************************************************************)
EXTENDS RunningTotals, FiniteSetsExt, SequencesExt

CONSTANTS
    None,           \* no value
    Period,         \* of the exponential average
    TrendLength,    \* bricks in a row before the trend is followed
    Buffer          \* beyond the previous day's range

StrategyConstants ==
    /\ Period \in Nat \ {0}
    /\ TrendLength \in Nat \ {0}
    /\ Buffer \in Nat

Kinds == {"ema_crossover", "ema_trend", "renko_trend", "pdh_pdl_breakout"}
Holdings == {"flat", "long", "short"}

(* EXIT_LONG and EXIT_SHORT are aliases of EXIT *)
Signals == {"buy", "sell", "exit", "hold"}

(***************************************************************************)
(* SMA keeps a window and a running sum; EMA is seeded with the average of *)
(* the first Period values and advances by alpha = 2 / (Period + 1).       *)
(***************************************************************************)
NewSma == [window |-> <<>>, sum |-> 0]
SmaUpdated(sma, value) ==
    LET window == Append(sma.window, value) IN
    IF Len(window) > Period
    THEN [window |-> Tail(window), sum |-> sma.sum + value - Head(window)]
    ELSE [window |-> window, sum |-> sma.sum + value]
SmaValue(sma) == IF Len(sma.window) = Period THEN sma.sum \div Period ELSE None

NewEma == [seed |-> <<>>, value |-> None]
EmaUpdated(ema, value) ==
    IF ema.value # None
    THEN [ema EXCEPT !.value = (2 * value + (Period - 1) * @) \div (Period + 1)]
    ELSE LET seed == Append(ema.seed, value) IN
         [seed |-> seed, value |-> IF Len(seed) = Period THEN SumOf(seed) \div Period ELSE None]

-----------------------------------------------------------------------------
(***************************************************************************)
(* What a strategy remembers, as reset() leaves it; initialize() and       *)
(* shutdown() are reset().  Each strategy uses the fields it has.          *)
(***************************************************************************)
Fresh == [position |-> "flat", signal |-> "hold",
          ema |-> NewEma, brick |-> None,               \* the two EMA strategies
          direction |-> None, streak |-> 0,             \* renko_trend
          previous |-> None, current |-> None]          \* pdh_pdl_breakout

(* Mutant: a reset keeps the average. *)
ResetButEma(s) == [Fresh EXCEPT !.ema = s.ema]

Reset(s) == Fresh

(***************************************************************************)
(* Every strategy turns the same way: a move against the position leaves   *)
(* it, and only from a flat position is one entered, in the direction of   *)
(* the move.                                                               *)
(***************************************************************************)
(* Mutant: a move against the position turns it over. *)
TurnedOver(s, move, mayEnter) ==
    IF move = "none" \/ s.position = (IF move = "up" THEN "long" ELSE "short") \/ ~mayEnter
    THEN [s EXCEPT !.signal = "hold"]
    ELSE [s EXCEPT !.position = IF move = "up" THEN "long" ELSE "short",
                   !.signal = IF move = "up" THEN "buy" ELSE "sell"]

Turned(s, move, mayEnter) ==
    LET with == IF move = "up" THEN "long" ELSE "short" IN
    IF move = "none" \/ s.position = with \/ (s.position = "flat" /\ ~mayEnter)
    THEN [s EXCEPT !.signal = "hold"]
    ELSE IF s.position = "flat"
    THEN [s EXCEPT !.position = with, !.signal = IF move = "up" THEN "buy" ELSE "sell"]
    ELSE [s EXCEPT !.position = "flat", !.signal = "exit"]

Compared(price, low, high) ==
    IF price > high THEN "up" ELSE IF price < low THEN "down" ELSE "none"

(* EMATrendStrategy._decide *)
EmaDecided(s, price) ==
    Turned(s, IF s.ema.value = None THEN "none" ELSE Compared(price, s.ema.value, s.ema.value), TRUE)

(* PDHPDLBreakoutStrategy._decide *)
BreakoutDecided(s, price) ==
    Turned(s, IF s.previous = None THEN "none"
              ELSE Compared(price, s.previous.low - Buffer, s.previous.high + Buffer), TRUE)

(* Mutant: the extremes of a day start anew with each bar. *)
SessionOfLastBar(s, bar) ==
    LET range == [day |-> bar.day, high |-> bar.high, low |-> bar.low] IN
    IF s.current = None \/ s.current.day = bar.day
    THEN [s EXCEPT !.current = range]
    ELSE [s EXCEPT !.previous = s.current, !.current = range]

(* PDHPDLBreakoutStrategy._update_session *)
SessionUpdated(s, bar) ==
    LET range == [day |-> bar.day, high |-> bar.high, low |-> bar.low] IN
    IF s.current = None THEN [s EXCEPT !.current = range]
    ELSE IF s.current.day = bar.day
    THEN [s EXCEPT !.current.high = Max({@, bar.high}), !.current.low = Min({@, bar.low})]
    ELSE [s EXCEPT !.previous = s.current, !.current = range]

(***************************************************************************)
(* on_brick.  renko_trend counts the bricks of one direction and skips     *)
(* neutral ones; the crossover decides when it is asked.                   *)
(***************************************************************************)
(* Mutant: a neutral brick ends the streak. *)
StreakEndsAtNeutral(s, brick) ==
    [s EXCEPT !.direction = brick.direction,
              !.streak = IF s.direction = brick.direction THEN @ + 1 ELSE 1]

StreakUpdated(s, brick) ==
    IF brick.direction = "neutral" THEN s
    ELSE [s EXCEPT !.direction = brick.direction,
                   !.streak = IF s.direction = brick.direction THEN @ + 1 ELSE 1]

BrickFed(kind, s, brick) ==
    CASE kind = "ema_crossover" -> [s EXCEPT !.brick = brick.close, !.ema = EmaUpdated(@, brick.close)]
      [] kind = "ema_trend" ->
             EmaDecided([s EXCEPT !.brick = brick.close, !.ema = EmaUpdated(@, brick.close)], brick.close)
      [] kind = "renko_trend" ->
             LET t == StreakUpdated(s, brick) IN
             Turned(t, IF brick.direction = "neutral" THEN "none" ELSE brick.direction,
                    t.streak >= TrendLength)
      [] kind = "pdh_pdl_breakout" ->
             BreakoutDecided(IF brick.range = None THEN s
                             ELSE [s EXCEPT !.previous = [day |-> brick.day] @@ brick.range],
                             brick.close)

(* generate_signal: the crossover takes its decision here, each time it is *)
(* asked; the others return the decision they took.                        *)
Asked(kind, s) ==
    IF kind # "ema_crossover" THEN s
    ELSE IF s.brick = None THEN [s EXCEPT !.signal = "hold"]
    ELSE EmaDecided(s, s.brick)

(* on_market_data: the crossover and the Renko strategy inherit the one    *)
(* that holds and changes nothing.                                         *)
TakesBars(kind) == kind \in {"ema_trend", "pdh_pdl_breakout"}
BarFed(kind, s, bar) ==
    CASE kind = "ema_trend" ->
             EmaDecided([s EXCEPT !.brick = None, !.ema = EmaUpdated(@, bar.close)], bar.close)
      [] kind = "pdh_pdl_breakout" -> BreakoutDecided(SessionUpdated(s, bar), bar.close)
      [] OTHER -> s

SignalOfBar(kind, s, bar) == IF TakesBars(kind) THEN BarFed(kind, s, bar).signal ELSE "hold"

-----------------------------------------------------------------------------
(***************************************************************************)
(* The strategies again, as what a history of inputs says.  An input has a *)
(* "form", "brick" or "bar", next to the fields of a brick.                *)
(***************************************************************************)
Closes(h) == [i \in DOMAIN h |-> h[i].close]

(* The closed form of the average: the seed's share decays by (p-1)/(p+1)  *)
(* per value, and so does that of each later value.                        *)
Power(b, n) == FoldLeft(LAMBDA a, x : a * b, 1, [i \in 1..n |-> i])
EmaOf(values) ==
    LET n == Len(values)
        Share(i) == 2 * Power(Period - 1, n - i) * Power(Period + 1, i - Period - 1)
        weighted == SumOf([i \in 1..(n - Period) |-> Share(i + Period) * values[i + Period]])
    IN IF n < Period THEN None
       ELSE (Power(Period - 1, n - Period) * (SumOf(SubSeq(values, 1, Period)) \div Period) + weighted)
            \div Power(Period + 1, n - Period)

SmaOf(values) ==
    IF Len(values) < Period THEN None
    ELSE SumOf(SubSeq(values, Len(values) - Period + 1, Len(values))) \div Period

(* The range of the day before: of the last run of bars of one day that is *)
(* over, or the one the last brick that carries it told, whichever is last *)
RangeBefore(h) ==
    LET Ends(i) ==
            \/ h[i].form = "brick" /\ h[i].range # None
            \/ h[i].form = "bar" /\ \E k \in (i + 1)..Len(h) :
                   /\ h[k].form = "bar" /\ h[k].day # h[i].day
                   /\ \A j \in (i + 1)..(k - 1) : h[j].form = "brick"
        Known(i) == IF h[i].form = "brick" THEN i
                    ELSE Min({k \in (i + 1)..Len(h) : h[k].form = "bar"})
        ends == {i \in DOMAIN h : Ends(i)}
        last == CHOOSE i \in ends : \A k \in ends : Known(k) <= Known(i)
        run  == {i \in 1..last : h[i].form = "bar" /\ \A k \in i..last : h[k].form = "bar" => h[k].day = h[last].day}
    IN IF ends = {} THEN None
       ELSE IF h[last].form = "brick" THEN h[last].range
       ELSE [high |-> Max({h[i].high : i \in run}), low |-> Min({h[i].low : i \in run})]

(* Which way a history moved with its last input, for a strategy *)
MoveOf(kind, h) ==
    LET x == Last(h) IN
       CASE kind \in {"ema_crossover", "ema_trend"} ->
                LET ema == EmaOf(Closes(h)) IN
                IF ema = None THEN "none" ELSE Compared(x.close, ema, ema)
         [] kind = "renko_trend" -> IF x.direction = "neutral" THEN "none" ELSE x.direction
         [] kind = "pdh_pdl_breakout" ->
                LET range == RangeBefore(h) IN
                IF range = None THEN "none" ELSE Compared(x.close, range.low - Buffer, range.high + Buffer)

(* Whether a flat strategy may follow that move *)
Established(kind, h) ==
    kind = "renko_trend" =>
        LET directed == SelectSeq(h, LAMBDA i : i.direction # "neutral") IN
        /\ Len(directed) >= TrendLength
        /\ \A i \in (Len(directed) - TrendLength + 1)..Len(directed) :
               directed[i].direction = Last(directed).direction
=============================================================================
