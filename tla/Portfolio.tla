----------------------------- MODULE Portfolio ------------------------------
(***************************************************************************)
(* Order and Fill (trading/execution/order.py): the record every executor, *)
(* the OMS and the portfolio share, and the four status changes it offers. *)
(* None of them looks at the current status: whether a change is sensible  *)
(* is left to the callers, which is why the interleavings of the callers   *)
(* matter.                                                                 *)
(*                                                                         *)
(* The portfolio aggregate (trading/portfolio/portfolio.py) with the one   *)
(* long-only position it owns (trading/execution/position.py).             *)
(*                                                                         *)
(* Prices, quantities and costs are natural numbers: whole lots at whole   *)
(* prices.  average_entry_price * quantity is kept as the one number       *)
(* basis: opening and scaling in add price * quantity to it, closing takes *)
(* all of it, and no other use of the average is a state change.           *)
(***************************************************************************)
EXTENDS Integers

CONSTANT Symbols          \* the instruments an order can name

OrderStatus == {"created", "pending", "filled", "rejected", "cancelled"}

OrderSide == {"buy", "sell"}

(***************************************************************************)
(* reject_reason, by the code path that set it: the wording is left out.   *)
(***************************************************************************)
RejectReason == {"none", "risk", "broker", "execution", "cash", "input", "price"}

Fill == [price : Nat, qty : Nat, cost : Nat]

(* order.fill is None *)
NoFill == [price |-> 0, qty |-> 0, cost |-> 0]

Order == [status   : OrderStatus,
          side     : OrderSide,
          symbol   : Symbols,
          qty      : Nat,
          ref      : Nat,           \* reference_price
          reserved : Nat,           \* capital reserved at creation
          known    : BOOLEAN,       \* broker_order_id is set
          fill     : Fill,
          reason   : RejectReason]

NewOrder(side, symbol, qty, ref) ==
    [status |-> "created", side |-> side, symbol |-> symbol, qty |-> qty,
     ref |-> ref, reserved |-> 0, known |-> FALSE, fill |-> NoFill, reason |-> "none"]

-----------------------------------------------------------------------------
Submit(ord) == [ord EXCEPT !.status = "pending"]

Complete(ord, fill) == [ord EXCEPT !.fill = fill, !.status = "filled"]

Reject(ord, reason) == [ord EXCEPT !.status = "rejected", !.reason = reason]

Cancel(ord) == [ord EXCEPT !.status = "cancelled"]

HasFill(ord) == ord.fill # NoFill

(* OrderManager.get_active_orders, PreExecution and API guards *)
IsActive(ord) == ord.status \notin {"filled", "cancelled", "rejected"}

-----------------------------------------------------------------------------
Ledger == [cash      : Int,
           reserved  : Nat,
           qty       : Nat,      \* position.quantity, 0 when flat
           basis     : Nat,      \* average_entry_price * quantity
           entryCost : Nat,      \* position._entry_cost
           realized  : Int]      \* position.realized_pnl

NewLedger(capital) ==
    [cash |-> capital, reserved |-> 0, qty |-> 0, basis |-> 0,
     entryCost |-> 0, realized |-> 0]

IsOpen(pf) == pf.qty > 0

Reserve(pf, amount) == [pf EXCEPT !.reserved = @ + amount]

(* reserved never goes below zero: a release larger than the rest empties it *)
Release(pf, amount) ==
    [pf EXCEPT !.reserved = IF @ > amount THEN @ - amount ELSE 0]

(* Mutant: scaling in takes the last price for the whole position. *)
OpenLongRepriced(pf, fill) ==
    [pf EXCEPT !.qty       = @ + fill.qty,
               !.basis     = fill.price * (pf.qty + fill.qty),
               !.entryCost = @ + fill.cost]

OpenLong(pf, fill) ==
    [pf EXCEPT !.qty       = @ + fill.qty,
               !.basis     = @ + fill.price * fill.qty,
               !.entryCost = @ + fill.cost]

(* Mutant: the position shrinks by the fill, open or not. *)
CloseByQuantity(pf, fill) == [pf EXCEPT !.qty = @ - fill.qty]

(***************************************************************************)
(* Position.close: the WHOLE position is closed at the fill's price,       *)
(* whatever quantity the fill has; nothing happens when the book is flat.  *)
(***************************************************************************)
ClosePosition(pf, fill) ==
    IF IsOpen(pf)
    THEN [pf EXCEPT !.qty       = 0,
                    !.basis     = 0,
                    !.entryCost = 0,
                    !.realized  = @ + fill.price * pf.qty - pf.basis
                                    - pf.entryCost - fill.cost]
    ELSE pf

(* fill.price * fill.quantity + fill.cost: what a buy takes from the cash *)
TotalCost(fill) == fill.price * fill.qty + fill.cost

(* fill.price * fill.quantity - fill.cost: what a sell brings in *)
Proceeds(fill) == fill.price * fill.qty - fill.cost

(* Mutant: the cost of the fill is not asked for. *)
UnaffordableWithoutCost(pf, ord) ==
    ord.side = "buy" /\ HasFill(ord) /\ ord.fill.price * ord.fill.qty > pf.cash

Unaffordable(pf, ord) ==
    /\ ord.side = "buy"
    /\ HasFill(ord)
    /\ TotalCost(ord.fill) > pf.cash

(* Mutant: only a purchase that succeeds releases its reservation. *)
LedgerKeepsReserve(pf, ord) ==
    IF ~HasFill(ord) \/ Unaffordable(pf, ord) THEN pf
    ELSE IF ord.side = "buy"
         THEN OpenLong([Release(pf, ord.reserved) EXCEPT !.cash = @ - TotalCost(ord.fill)], ord.fill)
         ELSE ClosePosition([pf EXCEPT !.cash = @ + Proceeds(ord.fill)], ord.fill)

(***************************************************************************)
(* Portfolio.apply_order changes the ledger and, when a buy cannot be paid *)
(* for, the order: the two results are the two operators below.            *)
(***************************************************************************)
LedgerAfter(pf, ord) ==
    LET released == IF ord.side = "buy" THEN Release(pf, ord.reserved) ELSE pf IN
    IF ~HasFill(ord) \/ Unaffordable(pf, ord) THEN released
    ELSE IF ord.side = "buy"
         THEN OpenLong([released EXCEPT !.cash = @ - TotalCost(ord.fill)], ord.fill)
         ELSE ClosePosition([released EXCEPT !.cash = @ + Proceeds(ord.fill)], ord.fill)

(* Mutant: a purchase that is turned away leaves the order as it was. *)
OrderUntouched(pf, ord) == ord

OrderAfter(pf, ord) ==
    IF Unaffordable(pf, ord) THEN Reject(ord, "cash") ELSE ord

-----------------------------------------------------------------------------
(***************************************************************************)
(* The books balance: cash, cost of what is held and realised result       *)
(* account for the starting capital.                                       *)
(***************************************************************************)
Balanced(pf, capital) ==
    pf.cash + pf.basis + pf.entryCost = capital + pf.realized
=============================================================================
