---------------------------- MODULE PaperStrategy ----------------------------
(***************************************************************************)
(* A strategy that trades on a paper session                               *)
(* (trading/strategy/paper_bridge.py) with the quantities of a sizer       *)
(* (trading/strategy/sizing.py).  A call of the bridge feeds the session,  *)
(* asks the strategy, and places the order of its signal; the strategy is  *)
(* asked once the handlers of the session's events have returned, and of   *)
(* what the portfolio is by then.                                          *)
(***************************************************************************)
EXTENDS PaperSession

CONSTANTS Sizers        \* the sizers a bridge may be given

VARIABLES
    sizer,              \* the bridge's
    bridging,           \* where the call of each task is
    quoted,             \* and the price it is about
    overlaps            \* history: two calls were under way at once

bridgeVars == <<sizer, bridging, quoted, overlaps>>

Methods == {"fixed_quantity", "fixed_risk_percent", "atr", "kelly"}

(* What a sizer is made of, and is asked about; percent, fraction and win   *)
(* rate are in hundredths, and 0 is a value that was not supplied           *)
Sizer == [method : Methods, quantity : Nat, percent : 0..100, multiple : Nat \ {0},
          roundDown : BOOLEAN, fraction : 0..100]
SizingContext == [equity : Nat, price : Nat \ {0}, stop : Nat, atr : Nat,
                  winRate : 0..100, payoff : Nat]

BridgeConstants == Sizers \subseteq Sizer /\ Sizers # {}

BridgeTypeOK ==
    /\ sizer \in Sizers /\ overlaps \in BOOLEAN
    /\ bridging \in [Callers -> {"idle", "feeding", "placing"}] /\ quoted \in [Callers -> Nat]

BridgeInit ==
    /\ sizer \in Sizers /\ bridging = [c \in Callers |-> "idle"]
    /\ quoted = [c \in Callers |-> 0] /\ overlaps = FALSE

-----------------------------------------------------------------------------
(* A quantity is a fraction <<over, under>>; a sizer that misses a value    *)
(* of its context raises.                                                   *)
Raised == <<0, 0>>
Nothing == <<0, 1>>
Missing == 0

RoundedDown(q) == <<q[1] \div q[2], 1>>
Distance(a, b) == IF a > b THEN a - b ELSE b - a

(* Mutant: the stop must lie below the price. *)
RiskToStopBelow(context) == IF context.price > context.stop THEN context.price - context.stop ELSE 1

RiskToStop(context) == Distance(context.price, context.stop)

(* equity * risk_percent / risk_per_unit, in hundredths of the equity *)
RiskSize(context, perUnit) ==
    LET q == <<context.equity * sizer.percent, 100 * perUnit>> IN
    IF perUnit = 0 THEN Nothing ELSE IF sizer.roundDown THEN RoundedDown(q) ELSE q

FixedRiskSize(context) ==
    IF context.stop = Missing THEN Raised ELSE RiskSize(context, RiskToStop(context))

AtrSize(context) ==
    IF context.atr = Missing THEN Raised ELSE RiskSize(context, context.atr * sizer.multiple)

(* win_rate - loss_rate / payoff_ratio, the win rate being in percent *)
KellyPercent(context) ==
    context.winRate * context.payoff - (100 - context.winRate)

(* Of the equity, in hundredths of a percent, times payoff *)
KellyShare(context) ==
    LET share == KellyPercent(context) * sizer.fraction
        most == 100 * sizer.percent * context.payoff IN
    IF share < 0 THEN 0 ELSE IF share > most THEN most ELSE share

KellySize(context) ==
    IF context.payoff = Missing THEN Raised
    ELSE <<context.equity * KellyShare(context), 10000 * context.payoff * context.price>>

Size(context) ==
    CASE sizer.method = "fixed_quantity" -> <<sizer.quantity, 1>>
      [] sizer.method = "fixed_risk_percent" -> FixedRiskSize(context)
      [] sizer.method = "atr" -> AtrSize(context)
      [] OTHER -> KellySize(context)

-----------------------------------------------------------------------------
Bridges(c, phase, at) ==
    /\ bridging' = [bridging EXCEPT ![c] = phase] /\ quoted' = [quoted EXCEPT ![c] = at]
    /\ overlaps' = (overlaps \/ (phase # "idle" /\ \E d \in Callers \ {c} : bridging[d] # "idle"))
    /\ UNCHANGED sizer

(* on_candle and on_tick: the session first *)
OnMarket(c) ==
    /\ bridging[c] = "idle" /\ Free(c)
    /\ \E quote \in Quote : OnMarketData(quote) /\ Bridges(c, "feeding", quote.price)
    /\ Tell(c, report')
    /\ UNCHANGED <<state, attached, lost>>

HandlersReturn(c) == bridging[c] # "idle" /\ GoOn(c) /\ UNCHANGED bridgeVars

(* The call of the bridge raises as well, before it asks the strategy *)
BridgeRaises(c) == bridging[c] # "idle" /\ HandlerRaises(c) /\ Bridges(c, "idle", 0)

(* The bridge tells the sizer the equity and the price, and nothing else   *)
Context(c) ==
    [equity |-> portfolio.cash + portfolio.qty * quoted[c], price |-> quoted[c],
     stop |-> Missing, atr |-> Missing, winRate |-> Missing, payoff |-> Missing]

(* Mutant: a buy is sized and sent with a position open. *)
MayEnterAnytime(signal) == signal = "buy"

MayEnter(signal) == signal = "buy" /\ ~IsOpen(portfolio)

Entering(c, signal) == MayEnter(signal) /\ Size(Context(c)) # Raised /\ Size(Context(c))[1] > 0
Exiting(signal) == signal = "exit" /\ IsOpen(portfolio)

(* _route; a sell signal is not acted on, and neither is a hold.  A size   *)
(* of a sizer that does not raise here is a whole quantity.                *)
Decide(c) ==
    /\ bridging[c] = "feeding" /\ Free(c)
    /\ \E signal \in {"buy", "sell", "exit", "hold"} :
           \/ /\ Entering(c, signal) /\ SubmitOrder("buy", Size(Context(c))[1], NoTicket)
              /\ Tell(c, report') /\ Bridges(c, "placing", quoted[c])
           \/ /\ Exiting(signal) /\ SubmitOrder("sell", portfolio.qty, NoTicket)
              /\ Tell(c, report') /\ Bridges(c, "placing", quoted[c])
           \/ /\ ~Entering(c, signal) /\ ~Exiting(signal) /\ Bridges(c, "idle", 0)
              /\ UNCHANGED <<vars, outbox, suspended, heard, mirror>>
    /\ UNCHANGED <<state, attached, lost>>

BridgeReturns(c) ==
    /\ bridging[c] = "placing" /\ Free(c) /\ Bridges(c, "idle", 0)
    /\ UNCHANGED allVars

BridgeNext ==
    \E c \in Callers :
        OnMarket(c) \/ HandlersReturn(c) \/ BridgeRaises(c) \/ Decide(c) \/ BridgeReturns(c)

BridgeSpec == SessionInit /\ BridgeInit /\ [][BridgeNext]_<<allVars, bridgeVars>>

-----------------------------------------------------------------------------
(* As long as the calls of the bridge do not overlap, it has one order     *)
(* open at most, an entry only when it holds nothing and an exit only of   *)
(* what it holds, whatever handlers raise in between (_route).             *)
OnePosition == ~overlaps =>
    /\ \A o, p \in Open : o = p
    /\ \A o \in Open :
           IF order[o].side = "sell" THEN order[o].qty = portfolio.qty ELSE ~IsOpen(portfolio)
    /\ portfolio.qty <= (IF sizer.method = "fixed_quantity" THEN sizer.quantity ELSE 0)

(* What a sizer by risk can lose to its stop is the share of the equity it *)
(* was given, less than one unit below it when it rounds; a Kelly sizer    *)
(* takes nothing of a losing bet, and never more than the equity buys      *)
(* (FixedRiskPercentSizer, ATRPositionSizer, KellySizer).                  *)
RiskIsKept(contexts) == \A context \in contexts :
    LET q == Size(context)
        perUnit == IF sizer.method = "atr" THEN context.atr * sizer.multiple
                   ELSE Distance(context.price, context.stop) IN
    /\ sizer.method \in {"fixed_risk_percent", "atr"} /\ q # Raised /\ perUnit > 0 =>
           /\ q[1] * perUnit * 100 <= context.equity * sizer.percent * q[2]
           /\ (q[1] + q[2]) * perUnit * 100 > context.equity * sizer.percent * q[2]
           /\ ~sizer.roundDown => q[1] * perUnit * 100 = context.equity * sizer.percent * q[2]
    /\ sizer.method = "kelly" /\ q # Raised =>
           /\ q[1] * context.price <= context.equity * q[2]
           /\ q[1] > 0 => context.winRate * context.payoff > 100 - context.winRate
=============================================================================
