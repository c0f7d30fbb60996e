--------------------------- MODULE StrategyEngine ---------------------------
(***************************************************************************)
(* The strategy engine (trading/strategy/engine.py): one strategy, started *)
(* by the first input if nobody starts it, fed bricks, bars, ticks and     *)
(* notifications, reset and shut down; each input records one signal.      *)
(* Risk rules are part of Backtest.                                        *)
(***************************************************************************)
EXTENDS Strategies

CONSTANTS
    Inputs,         \* the bricks, bars and ticks it can be fed
    MaxInputs       \* bound: inputs of a behaviour

EngineConstants == StrategyConstants /\ MaxInputs \in Nat

VARIABLES
    kind,           \* which strategy it drives
    strategy,       \* its state
    started,        \* _started
    signals,        \* _signals, one for each result
    sma,            \* an average fed with the same closes
    inputs,         \* history: what was fed since the signals were cleared
    fed             \* how much was fed in all

vars == <<kind, strategy, started, signals, sma, inputs, fed>>

Other == [form |-> "other"]

TypeOK ==
    /\ kind \in Kinds /\ started \in BOOLEAN
    /\ strategy.position \in Holdings /\ strategy.signal \in Signals /\ strategy.streak \in Nat
    /\ signals \in Seq(Signals)
    /\ Len(inputs) = Len(signals)
    /\ fed \in 0..MaxInputs

Init ==
    /\ kind \in Kinds
    /\ strategy = Fresh /\ started = FALSE /\ signals = <<>>
    /\ sma = NewSma /\ inputs = <<>> /\ fed = 0

(* What an input finds: start() has run *)
Ready == IF started THEN strategy ELSE Reset(strategy)

Records(input, s, signal) ==
    /\ fed < MaxInputs /\ fed' = fed + 1
    /\ started' = TRUE
    /\ strategy' = s
    /\ signals' = Append(IF started THEN signals ELSE <<>>, signal)
    /\ inputs' = Append(IF started THEN inputs ELSE <<>>, input)
    /\ sma' = LET from == IF started THEN sma ELSE NewSma IN
              IF input = Other THEN from ELSE SmaUpdated(from, input.close)
    /\ UNCHANGED kind

ProcessBrick(brick) ==
    LET s == Asked(kind, BrickFed(kind, Ready, brick)) IN
    /\ brick.form = "brick"
    /\ Records(brick, s, s.signal)

ProcessMarketData(bar) ==
    /\ bar.form = "bar"
    /\ Records(bar, BarFed(kind, Ready, bar), SignalOfBar(kind, Ready, bar))

(* TickProcessor of a live tick: a strategy that does not override on_tick, *)
(* and no built-in one does, is fed the tick as a bar without a range       *)
(* (marketdata/streaming/tick_processor.py).                                *)
BarFromTick(tick) ==
    [form |-> "bar", close |-> tick.close, high |-> tick.close, low |-> tick.close,
     day |-> tick.day, direction |-> tick.direction, range |-> tick.range]

ProcessTick(tick) == tick.form = "tick" /\ ProcessMarketData(BarFromTick(tick))

(* process_tick, on_order_fill and on_position_close: no built-in strategy *)
(* overrides the hooks that hold.                                          *)
ProcessOther == Records(Other, Ready, "hold")

Start ==
    /\ strategy' = Reset(strategy) /\ signals' = <<>> /\ inputs' = <<>>
    /\ sma' = NewSma /\ started' = TRUE
    /\ UNCHANGED <<kind, fed>>

ResetEngine ==
    /\ strategy' = Reset(strategy) /\ signals' = <<>> /\ inputs' = <<>>
    /\ sma' = NewSma /\ started' = FALSE
    /\ UNCHANGED <<kind, fed>>

(* The signals of the run stay until the next start *)
Shutdown ==
    /\ strategy' = Reset(strategy) /\ started' = FALSE
    /\ UNCHANGED <<kind, signals, inputs, sma, fed>>

Next ==
    \/ \E input \in Inputs : ProcessBrick(input) \/ ProcessMarketData(input) \/ ProcessTick(input)
    \/ ProcessOther
    \/ Start \/ ResetEngine \/ Shutdown

Spec == Init /\ [][Next]_vars

-----------------------------------------------------------------------------
(* The inputs up to the n-th that the strategy looks at *)
Seen(input) == input.form = "brick" \/ (input.form = "bar" /\ TakesBars(kind))
HistoryTo(n) == SelectSeq(SubSeq(inputs, 1, n), Seen)

(* What the signals before the n-th have entered and not left *)
HeldBefore(n) ==
    LET acts == {i \in 1..(n - 1) : signals[i] # "hold"} IN
    IF acts = {} \/ signals[Max(acts)] = "exit" THEN "flat"
    ELSE IF signals[Max(acts)] = "buy" THEN "long" ELSE "short"

(* The signals of a run are what the bricks and bars of the run say, one   *)
(* for each input, and of no earlier run: an entry when the history moved  *)
(* that way and nothing is held, an exit when it moved against what is     *)
(* held, and otherwise a hold (StrategyEngine, the strategies, EMA).       *)
SignalsTellHistory ==
    \A n \in DOMAIN signals :
        LET move == IF Seen(inputs[n]) THEN MoveOf(kind, HistoryTo(n)) ELSE "none"
            held == HeldBefore(n)
        IN signals[n] =
             IF \/ move = "none" \/ <<held, move>> \in {<<"long", "up">>, <<"short", "down">>}
                \/ held = "flat" /\ ~Established(kind, HistoryTo(n))
             THEN "hold"
             ELSE IF held # "flat" THEN "exit" ELSE IF move = "up" THEN "buy" ELSE "sell"

(* The position a strategy reports is the one its signals made (position). *)
PositionTellsSignals == started => strategy.position = HeldBefore(Len(signals) + 1)

(* The simple average is the mean of its window however many values passed *)
(* through its running sum (SMA.update).                                   *)
AverageIsOfWindow ==
    started => SmaValue(sma) = SmaOf(Closes(SelectSeq(inputs, LAMBDA i : i # Other)))
=============================================================================
