---------------------------- MODULE PaperExchange ---------------------------
(***************************************************************************)
(* The paper venue (trading/paper): ExchangeSimulator with its market      *)
(* queue, the resting book of PendingOrderManager, the trigger rules, the  *)
(* PaperExecutor and the Portfolio it settles into.                        *)
(*                                                                         *)
(* The simulator is synchronous, so each of its three operations is one    *)
(* action: submit, cancel and on_market_data.  The last one is a whole     *)
(* market update: the queue, the triggered part of the book, then the      *)
(* immediate-or-cancel orders that are left.  Orders settle one after the  *)
(* other and each sees the cash the one before it has left.                *)
(***************************************************************************)
EXTENDS Portfolio, RunningTotals, Sequences

CONSTANTS
    MaxOrders,     \* bound: orders submitted in a run
    Prices,        \* prices of quotes and of limit and stop orders
    Quantities,    \* quantities submit is called with, 0 included
    Capital,       \* Portfolio(starting_capital)
    Fee,           \* FixedBrokerage: cost of a fill
    Slip           \* FixedSlippage: against the trader

ASSUME PaperConstants ==
    /\ Symbols # {}
    /\ MaxOrders \in Nat
    /\ Prices \subseteq Nat \ {0}
    /\ Quantities \subseteq Nat
    /\ Capital \in Nat \ {0}
    /\ Fee \in Nat
    /\ Slip \in Nat /\ \A p \in Prices : Slip < p

OrderIds == 1..MaxOrders

VARIABLES
    nextId,        \* ExchangeSimulator._next_order_id
    order,         \* the Order of each id
    ticket,        \* OrderTicket: what Order does not say about matching
    queue,         \* _market_queue
    book,          \* PendingOrderManager._resting
    recorded,      \* Portfolio.orders
    portfolio,     \* the Portfolio
    last,          \* _last_quote
    report,        \* the OrderEvents the last call returned
    fresh          \* auxiliary: submitted since the last quote

venueVars == <<nextId, ticket, queue, book, recorded, fresh>>
vars == <<venueVars, order, portfolio, last, report>>

Ticket == [type  : {"market", "limit", "stop"},
           tif   : {"gtc", "ioc"},
           price : Nat]                 \* the limit or the stop price

NoTicket == [type |-> "market", tif |-> "gtc", price |-> 0]

Quote == {q \in [price : Prices, low : Prices, high : Prices] :
             q.low <= q.price /\ q.price <= q.high}

NoQuote == [price |-> 0, low |-> 0, high |-> 0]

OrderEvent == [kind : {"accepted", "triggered", "filled", "rejected", "cancelled"},
               id   : OrderIds]

Event(kind, o) == [kind |-> kind, id |-> o]

NoOrder == NewOrder("buy", CHOOSE s \in Symbols : TRUE, 0, 0)

Open == queue \cup book

TypeOK ==
    /\ nextId \in 0..MaxOrders
    /\ order \in [OrderIds -> Order]
    /\ ticket \in [OrderIds -> Ticket]
    /\ queue \subseteq OrderIds
    /\ book \subseteq OrderIds
    /\ recorded \subseteq OrderIds
    /\ portfolio \in Ledger
    /\ last \in Quote \cup {NoQuote}
    /\ report \in Seq(OrderEvent)
    /\ fresh \subseteq OrderIds

Init ==
    /\ nextId = 0
    /\ order = [o \in OrderIds |-> NoOrder]
    /\ ticket = [o \in OrderIds |-> NoTicket]
    /\ queue = {}
    /\ book = {}
    /\ recorded = {}
    /\ portfolio = NewLedger(Capital)
    /\ last = NoQuote
    /\ report = <<>>
    /\ fresh = {}

-----------------------------------------------------------------------------
IsResting(t) == t.type \in {"limit", "stop"}

(* The best price at hand: the order's own, else the last quote's, else 0 *)
ReferenceEstimate(t) == IF IsResting(t) THEN t.price ELSE last.price

(* A buy reserves what it would cost at the estimate, if there is one. *)
Reservation(ord) == IF ord.side = "buy" THEN ord.qty * ord.ref ELSE 0

Accept(o, ord, t) ==
    LET placed == [ord EXCEPT !.reserved = Reservation(ord)] IN
    /\ order' = [order EXCEPT ![o] = placed]
    /\ ticket' = [ticket EXCEPT ![o] = t]
    /\ portfolio' = Reserve(portfolio, placed.reserved)
    /\ recorded' = recorded \cup {o}
    /\ queue' = IF IsResting(t) THEN queue ELSE queue \cup {o}
    /\ book' = IF IsResting(t) THEN book \cup {o} ELSE book
    /\ report' = <<Event("accepted", o)>>
    /\ fresh' = fresh \cup {o}

(* A quantity that is not positive: the order is rejected and kept nowhere *)
RefuseQuantity(o, ord) ==
    /\ order' = [order EXCEPT ![o] = Reject(ord, "input")]
    /\ report' = <<Event("rejected", o)>>
    /\ UNCHANGED <<ticket, queue, book, recorded, portfolio, fresh>>

(* OrderTicket raises for a price that is not positive: the id is used up *)
RaiseOnPrice ==
    /\ report' = <<>>
    /\ UNCHANGED <<order, ticket, queue, book, recorded, portfolio, fresh>>

SubmitOrder(side, qty, t) ==
    LET o   == nextId + 1
        ord == NewOrder(side, CHOOSE s \in Symbols : TRUE, qty, ReferenceEstimate(t))
    IN
    /\ nextId < MaxOrders
    /\ nextId' = o
    /\ \/ qty = 0 /\ RefuseQuantity(o, ord)
       \/ qty > 0 /\ IsResting(t) /\ t.price = 0 /\ RaiseOnPrice
       \/ qty > 0 /\ (IsResting(t) => t.price > 0) /\ Accept(o, ord, t)
    /\ UNCHANGED last

(* Mutant: nobody is told. *)
WithdrawSilently(state, o) ==
    [order     |-> [state.order EXCEPT ![o] = Cancel(@)],
     portfolio |-> IF state.order[o].side = "buy"
                   THEN Release(state.portfolio, state.order[o].reserved) ELSE state.portfolio,
     report    |-> state.report]

(***************************************************************************)
(* cancel: an order that waits is withdrawn and its reservation released;  *)
(* for any other id nothing happens.                                       *)
(***************************************************************************)
Withdraw(state, o) ==
    LET ord == state.order[o] IN
    [order     |-> [state.order EXCEPT ![o] = Cancel(ord)],
     portfolio |-> IF ord.side = "buy" THEN Release(state.portfolio, ord.reserved)
                                       ELSE state.portfolio,
     report    |-> Append(state.report, Event("cancelled", o))]

Become(state) ==
    /\ order' = state.order
    /\ portfolio' = state.portfolio
    /\ report' = state.report

Now == [order |-> order, portfolio |-> portfolio, report |-> <<>>]

(* Mutant: the resting book is forgotten. *)
CancelQueuedOnly(o) ==
    /\ o \in Open
    /\ Become(Withdraw(Now, o))
    /\ queue' = queue \ {o}
    /\ UNCHANGED <<nextId, ticket, book, recorded, last, fresh>>

(* Mutant: any order the portfolio knows can be cancelled. *)
CancelRecorded(o) ==
    /\ o \in recorded
    /\ Become(Withdraw(Now, o))
    /\ queue' = queue \ {o}
    /\ book' = book \ {o}
    /\ UNCHANGED <<nextId, ticket, recorded, last, fresh>>

CancelOrder(o) ==
    /\ o \in Open
    /\ Become(Withdraw(Now, o))
    /\ queue' = queue \ {o}
    /\ book' = book \ {o}
    /\ UNCHANGED <<nextId, ticket, recorded, last, fresh>>

-----------------------------------------------------------------------------
(* A buy limit and a sell stop wait for the price to fall, the others for it *)
(* to rise; the quote's extremes decide. *)
WaitsForFall(o) == (ticket[o].type = "limit") = (order[o].side = "buy")

(* Mutant: the closing price decides, not the extremes. *)
TriggersAtPrice(o, quote) ==
    IF WaitsForFall(o) THEN quote.price <= ticket[o].price ELSE quote.price >= ticket[o].price

Triggers(o, quote) ==
    IF WaitsForFall(o) THEN quote.low <= ticket[o].price ELSE quote.high >= ticket[o].price

(* PaperExecutor.execute *)
FillPrice(side, ref) == IF side = "buy" THEN ref + Slip ELSE ref - Slip

Executed(ord, ref) ==
    IF ref > 0
    THEN Complete(Submit(ord), [price |-> FillPrice(ord.side, ref), qty |-> ord.qty, cost |-> Fee])
    ELSE Reject(Submit(ord), "price")

(* _fill: execute, settle into the portfolio, report how it ended *)
Settle(state, o, ref) ==
    LET done  == Executed(state.order[o], ref)
        ended == OrderAfter(state.portfolio, done)
    IN
    [order     |-> [state.order EXCEPT ![o] = ended],
     portfolio |-> LedgerAfter(state.portfolio, done),
     report    |-> Append(state.report, Event(ended.status, o))]

(* Mutant: the trigger is reported after the fill. *)
TriggerLate(state, o) ==
    LET done == Settle(state, o, ticket[o].price)
    IN [done EXCEPT !.report = Append(@, Event("triggered", o))]

Trigger(state, o) ==
    Settle([state EXCEPT !.report = Append(@, Event("triggered", o))], o, ticket[o].price)

(* One order's turn in a pass over the orders of a quote *)
Turn(pass, quote, state, o) ==
    CASE pass = "market"   -> Settle(state, o, quote.price)
      [] pass = "trigger"  -> Trigger(state, o)
      [] pass = "withdraw" -> Withdraw(state, o)

(* The orders ids take their turns as they were submitted: each sees what  *)
(* the one before it has left.                                             *)
Walk(pass, quote, ids, state) ==
    LET after[i \in 0..MaxOrders] ==
            IF i = 0 THEN state
            ELSE IF i \in ids THEN Turn(pass, quote, after[i - 1], i)
            ELSE after[i - 1]
    IN after

InTurn(pass, quote, ids, state) == Walk(pass, quote, ids, state)[MaxOrders]

Triggered(quote) == {o \in book : Triggers(o, quote)}

(* Mutant: only limit orders are pulled. *)
ImmediateLimits(ids) == {o \in ids : ticket[o].tif = "ioc" /\ ticket[o].type = "limit"}

Immediate(ids) == {o \in ids : ticket[o].tif = "ioc"}

OnMarketData(quote) ==
    LET resting == book \ Triggered(quote)
        filled  == InTurn("market", quote, queue, Now)
        matched == InTurn("trigger", quote, Triggered(quote), filled)
    IN
    /\ Become(InTurn("withdraw", quote, Immediate(resting), matched))
    /\ queue' = {}
    /\ book' = resting \ Immediate(resting)
    /\ last' = quote
    /\ fresh' = {}
    /\ UNCHANGED <<nextId, ticket, recorded>>

-----------------------------------------------------------------------------
Tickets == [type : {"limit", "stop"}, tif : {"gtc", "ioc"}, price : Prices \cup {0}]
           \cup [type : {"market"}, tif : {"gtc", "ioc"}, price : {0}]

Next ==
    \/ \E side \in OrderSide, qty \in Quantities, t \in Tickets : SubmitOrder(side, qty, t)
    \/ \E o \in OrderIds : CancelOrder(o)
    \/ \E quote \in Quote : OnMarketData(quote)

Spec == Init /\ [][Next]_vars

-----------------------------------------------------------------------------
(***************************************************************************)
(* Properties.                                                             *)
(***************************************************************************)

(* What the portfolio has reserved is exactly what its waiting buys        *)
(* reserved, whichever way the others left: filled, turned away for lack   *)
(* of cash, cancelled, or pulled as immediate-or-cancel                    *)
(* (submit, cancel, _cancel_unfilled_ioc, Portfolio.apply_order).          *)
Holdings(orders, waiting) ==
    [o \in OrderIds |-> IF o \in waiting /\ orders[o].side = "buy" THEN orders[o].reserved ELSE 0]

ReservedIsOpenBuys == portfolio.reserved = Total(Holdings(order, Open), MaxOrders)

(* No order is lost and none is settled twice: the orders the portfolio    *)
(* knows that have not ended are exactly the ones that wait, each in one   *)
(* place (ExchangeSimulator.open_orders).                                  *)
OpenOrdersListed ==
    /\ queue \cap book = {}
    /\ Open = {o \in recorded : IsActive(order[o])}

(* "an intrabar limit/stop touch is not missed" (MarketQuote): an order     *)
(* that was resting when the last quote came, and still is, would not have *)
(* accepted any price between that quote's low and high.                   *)
Accepts(o, price) ==
    \/ ticket[o].type = "limit" /\ order[o].side = "buy"  /\ price <= ticket[o].price
    \/ ticket[o].type = "limit" /\ order[o].side = "sell" /\ price >= ticket[o].price
    \/ ticket[o].type = "stop"  /\ order[o].side = "buy"  /\ price >= ticket[o].price
    \/ ticket[o].type = "stop"  /\ order[o].side = "sell" /\ price <= ticket[o].price

NoMissedTouch ==
    \A o \in book \ fresh : \A price \in last.low..last.high : ~Accepts(o, price)

(* A market order and an immediate-or-cancel order see one quote: neither  *)
(* is still waiting after it (on_market_data steps 1 and 3).               *)
WaitsForOneQuote ==
    \A o \in Open : ticket[o].type = "market" \/ ticket[o].tif = "ioc" => o \in fresh

(* The cash is the starting capital and the effect of every filled order,  *)
(* counted once, and it never goes below zero although the orders of one   *)
(* quote were all submitted against the same cash (Portfolio.apply_order). *)
Effects(orders) ==
    [o \in OrderIds |-> IF o \notin recorded \/ orders[o].status # "filled" THEN 0
                        ELSE IF orders[o].side = "buy" THEN 0 - TotalCost(orders[o].fill)
                        ELSE Proceeds(orders[o].fill)]

CashIsSumOfFills ==
    /\ portfolio.cash = Capital + Total(Effects(order), MaxOrders)
    /\ portfolio.cash >= 0

(* Orders, reservations and cash agree after every call, however the       *)
(* orders ended (submit, cancel, on_market_data, Portfolio.apply_order).   *)
BooksAgree == ReservedIsOpenBuys /\ OpenOrdersListed /\ CashIsSumOfFills

(* Every order is judged by the quotes it was there for, and by all of the *)
(* range of each (on_market_data steps 1 to 3, PriceEngine).               *)
QuotesAreHonoured == NoMissedTouch /\ WaitsForOneQuote

(* An order that has ended never changes again, whatever is cancelled or   *)
(* quoted later.                                                           *)
EndedIsFinal ==
    [][\A o \in 1..nextId : ~IsActive(order[o]) => order'[o] = order[o]]_vars

(* "every state change is reported back as an OrderEvent" (simulator.py):  *)
(* a call that changed an order's status says so in its last event on it.  *)
EveryChangeReported ==
    [][\A o \in OrderIds :
          order'[o].status # order[o].status =>
              \E i \in DOMAIN report' :
                  /\ report'[i] = Event(order'[o].status, o)
                  /\ \A j \in (i + 1)..Len(report') : report'[j].id # o]_vars
=============================================================================
