------------------------------ MODULE RiskRules ------------------------------
(***************************************************************************)
(* The risk rules of a strategy (trading/strategy/risk.py).  Rules are     *)
(* applied in their order, each to the signal the one before it left; the  *)
(* trailing stop is the only one that remembers something, the highest     *)
(* price of the exposure.                                                  *)
(*                                                                         *)
(* A rule is [kind, limit]: a price, an amount, a loss or a count.  A      *)
(* context is [price, open, positions, pnl] (StrategyContext).             *)
(***************************************************************************)
EXTENDS Integers, Sequences

CONSTANT Unknown          \* no highest price: there is no exposure

RuleKinds == {"stop_loss", "take_profit", "trailing_amount", "trailing_percent",
              "max_daily_loss", "max_open_positions"}

IsEntry(signal) == signal \in {"buy", "sell"}
IsTrailing(rule) == rule.kind \in {"trailing_amount", "trailing_percent"}

(* Mutant: the highest price outlives the exposure. *)
HighestEver(highest, context) ==
    IF highest = Unknown \/ context.price > highest THEN context.price ELSE highest

(* TrailingStopRule.evaluate: the highest price starts anew when flat *)
Highest(highest, context) ==
    IF ~context.open THEN Unknown
    ELSE IF highest = Unknown \/ context.price > highest THEN context.price ELSE highest

(* limit percent of the highest price; prices are multiples of 100 *)
TrailStop(rule, highest) ==
    IF rule.kind = "trailing_amount" THEN highest - rule.limit
    ELSE highest - (highest * rule.limit) \div 100

Fires(rule, highest, context) ==
    CASE rule.kind = "stop_loss"   -> context.open /\ context.price <= rule.limit
      [] rule.kind = "take_profit" -> context.open /\ context.price >= rule.limit
      [] IsTrailing(rule)          -> context.open /\ context.price <= TrailStop(rule, highest)
      [] rule.kind = "max_daily_loss"     -> context.pnl <= 0 - rule.limit
      [] rule.kind = "max_open_positions" -> context.positions >= rule.limit

(* Mutant: the limit on positions holds back exits too. *)
EvaluatedOnAll(rule, signal, highest, context) ==
    IF ~Fires(rule, highest, context) THEN signal
    ELSE IF rule.kind # "max_open_positions" /\ context.open THEN "exit" ELSE "hold"

(* evaluate: the signal a rule makes of a signal *)
Evaluated(rule, signal, highest, context) ==
    IF ~Fires(rule, highest, context) THEN signal
    ELSE IF rule.kind # "max_open_positions" /\ context.open THEN "exit"
    ELSE IF IsEntry(signal) THEN "hold" ELSE signal

(* RiskManager.evaluate *)
Managed(rules, signal, highest, context) ==
    LET after[i \in 0..Len(rules)] ==
            IF i = 0 THEN signal ELSE Evaluated(rules[i], after[i - 1], highest, context)
    IN after[Len(rules)]
=============================================================================
