----------------------------- MODULE LiveLedger -----------------------------
(***************************************************************************)
(* LiveTrading implements FillLedger: the fills on the platform's orders,  *)
(* the fill keys of PortfolioSynchronizer and the portfolio's cash.        *)
(***************************************************************************)
EXTENDS LiveTrading, RunningTotals

(* What booking an order does to the cash *)
CashEffect(o) ==
    IF order[o].side = "buy" THEN 0 - TotalCost(order[o].fill) ELSE Proceeds(order[o].fill)

FilledOrders == {o \in OrderIds : HasFill(order[o])}

(* A fill key is also kept for a fill the portfolio turned away. *)
Booked == {o \in applied : order[o].reason # "cash"}

Amounts == [o \in OrderIds |-> IF HasFill(order[o]) THEN CashEffect(o) ELSE 0]

(* What each order has moved *)
Charges == [o \in OrderIds |-> IF o \in Booked THEN CashEffect(o) ELSE 0]

Promise ==
    INSTANCE FillLedger WITH
        Orders <- OrderIds, filled <- FilledOrders, booked <- Booked,
        amount <- Amounts, cash <- portfolio.cash

(* Every step of live trading fills and books an order once, or moves no   *)
(* money: cancelling, modifying, synchronising, recovering, stopping and   *)
(* late or repeated answers of the broker all map to stuttering            *)
(* (PortfolioSynchronizer.apply_order, LiveExecutor, OrderManager).        *)
ImplementsLedger == Promise!Spec

(* The cash is the starting capital and the effect of every fill booked,   *)
(* each counted once: however fills, failures and re-reads of an order     *)
(* interleave, none is lost from or doubled in the cash once it is marked  *)
(* applied (PortfolioSynchronizer.apply_order).                            *)
CashIsSumOfFills == portfolio.cash = Capital + Total(Charges, MaxOrders)
=============================================================================
