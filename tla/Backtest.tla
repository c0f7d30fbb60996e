------------------------------ MODULE Backtest ------------------------------
(***************************************************************************)
(* A backtest (trading/backtesting/engine.py): a strategy and its risk     *)
(* rules over completed bricks, with the fill of an order at the close of  *)
(* the brick after the one it was decided on, and the portfolio, its       *)
(* orders, trades and equity curve behind it.                              *)
(***************************************************************************)
EXTENDS Portfolio, Strategies, RiskRules, PerformanceMetrics

CONSTANTS
    Bricks,            \* the bricks a run can be fed
    MaxBricks,         \* bound: bricks of a run
    Capital, Fee, Slip,
    Setups             \* [kind, rules, quantity, percent, leverage, forced]

BacktestConstants ==
    /\ StrategyConstants
    /\ MaxBricks \in Nat /\ Capital \in Nat \ {0} /\ Fee \in Nat /\ Slip \in Nat
    /\ \A b \in Bricks : b.close \in Nat /\ b.close > Slip
    /\ "asset" \in Symbols
    /\ None \notin Nat /\ Unknown \notin Nat /\ None \notin Order
    /\ \A s \in Setups :
           /\ s.kind \in Kinds /\ s.forced \in BOOLEAN
           /\ s.rules \in Seq([kind : RuleKinds, limit : Nat])
           /\ s.quantity = None \/ s.quantity \in Nat
           /\ s.percent \in Nat /\ s.leverage \in Nat

VARIABLES
    setup,             \* what the engine was made with
    strategy, highest, \* of the strategy and of its trailing stop
    book,              \* the portfolio
    pending,           \* the order that waits for the next brick, 0 without
    report,            \* the metrics of the run
    bricks,            \* history: the bricks so far
    made, done,        \* history: the brick an order was made and settled on
    wanted             \* history: what the strategy holds after each brick

vars == <<setup, strategy, highest, book, pending, report, bricks, made, done, wanted>>

Trade == [qty : Nat, gross : Int, net : Int, bars : Nat, at : Nat]

Book == [ledger : Ledger, trades : Seq(Trade), curve : Seq(Int), charged : Nat, slipped : Nat,
         entryBar : Nat, orders : Seq(Order)]

(* A run has no metrics before its end *)
NoReport == [written |-> FALSE]

TypeOK ==
    /\ strategy.position \in Holdings
    /\ highest = Unknown \/ highest \in Nat
    /\ book \in Book
    /\ pending \in 0..Len(book.orders)
    /\ DOMAIN made = DOMAIN book.orders /\ DOMAIN done = DOMAIN book.orders
    /\ Len(bricks) <= MaxBricks

Init ==
    /\ setup \in Setups
    /\ strategy = Fresh /\ highest = Unknown
    /\ book = [ledger |-> NewLedger(Capital), trades |-> <<>>, curve |-> <<>>,
               charged |-> 0, slipped |-> 0, entryBar |-> 0, orders |-> <<>>]
    /\ pending = 0 /\ report = NoReport
    /\ bricks = <<>> /\ made = <<>> /\ done = <<>> /\ wanted = <<>>

-----------------------------------------------------------------------------
(* SimulatedExecutor.execute, with a fixed slippage and brokerage *)
Executed(ord, price) ==
    IF price <= 0 THEN Reject(Submit(ord), "price")
    ELSE Complete(Submit(ord),
                  [price |-> IF ord.side = "buy" THEN price + Slip ELSE price - Slip,
                   qty |-> ord.qty, cost |-> Fee])

(* Position.close: the trade of a round trip *)
TradeOf(b, fill, bar) ==
    LET gross == fill.price * b.ledger.qty - b.ledger.basis IN
    [qty |-> b.ledger.qty, gross |-> gross, net |-> gross - b.ledger.entryCost - fill.cost,
     bars |-> bar - b.entryBar, at |-> bar]

(* Portfolio.apply_order with its trades and totals *)
Applied(b, id, ord, bar) ==
    LET booked == HasFill(ord) /\ ~Unaffordable(b.ledger, ord) IN
    [b EXCEPT
        !.ledger   = LedgerAfter(@, ord),
        !.orders   = [@ EXCEPT ![id] = OrderAfter(b.ledger, ord)],
        !.trades   = IF booked /\ ord.side = "sell" /\ IsOpen(b.ledger)
                     THEN Append(@, TradeOf(b, ord.fill, bar)) ELSE @,
        !.charged  = IF booked THEN @ + ord.fill.cost ELSE @,
        !.slipped  = IF booked THEN @ + Slip * ord.fill.qty ELSE @,
        !.entryBar = IF booked /\ ord.side = "buy" /\ ~IsOpen(b.ledger) THEN bar ELSE @]

Settled(b, id, price, bar) == Applied(b, id, Executed(b.orders[id], price), bar)

Equity(b, price) == b.ledger.cash + b.ledger.qty * price
Marked(b, price) == [b EXCEPT !.curve = Append(@, Equity(b, price))]

(* Mutant: only an entry is recorded. *)
EntryRecorded(b, ord) ==
    IF ord.side = "sell" THEN b
    ELSE [b EXCEPT !.orders = Append(@, ord), !.ledger = Reserve(@, ord.reserved)]

(* record_order and reserve *)
Recorded(b, ord) ==
    [b EXCEPT !.orders = Append(@, ord), !.ledger = Reserve(@, ord.reserved)]

(* _entry_quantity, in whole lots *)
EntryQuantity(b, price) ==
    IF setup.quantity # None THEN setup.quantity
    ELSE IF price <= 0 THEN 0
    ELSE ((b.ledger.cash - b.ledger.reserved) * setup.leverage * setup.percent) \div (100 * price)

(* Mutant: an EXIT does not ask for a position. *)
OrderOfAnyExit(signal, b, price) ==
    LET qty == EntryQuantity(b, price) IN
    IF signal = "buy" /\ ~IsOpen(b.ledger) /\ qty > 0
    THEN [NewOrder("buy", "asset", qty, price) EXCEPT !.reserved = qty * price]
    ELSE IF signal = "exit" THEN NewOrder("sell", "asset", b.ledger.qty, price)
    ELSE None

(* _order_from_signal: long only, so a SELL is passed over, and so is an   *)
(* EXIT without a position                                                 *)
OrderFromSignal(signal, b, price) ==
    LET qty == EntryQuantity(b, price) IN
    IF signal = "buy" /\ ~IsOpen(b.ledger) /\ qty > 0
    THEN [NewOrder("buy", "asset", qty, price) EXCEPT !.reserved = qty * price]
    ELSE IF signal = "exit" /\ IsOpen(b.ledger) THEN NewOrder("sell", "asset", b.ledger.qty, price)
    ELSE None

(* _strategy_context: the result is the one of the whole run *)
Context(b, price) ==
    [price |-> price, open |-> IsOpen(b.ledger), positions |-> IF IsOpen(b.ledger) THEN 1 ELSE 0,
     pnl |-> b.ledger.realized]

(* Mutant: the order is filled on the brick it was decided on. *)
FillsAtOnce(b, price, bar) == b

(* The order of the brick before is filled at this brick's close *)
FilledBefore(b, price, bar) == IF pending = 0 THEN b ELSE Settled(b, pending, price, bar)

OnBrick(brick) ==
    LET bar    == Len(bricks) + 1
        price  == brick.close
        marked == Marked(FilledBefore(book, price, bar), price)
        fed    == Asked(setup.kind, BrickFed(setup.kind, strategy, brick))
        high   == Highest(highest, Context(marked, price))
        signal == Managed(setup.rules, fed.signal, high, Context(marked, price))
        order  == OrderFromSignal(signal, marked, price)
        id     == Len(book.orders) + 1
    IN /\ report = NoReport /\ bar <= MaxBricks
       /\ bricks' = Append(bricks, brick)
       /\ strategy' = fed /\ wanted' = Append(wanted, fed.position)
       /\ highest' = IF \E i \in DOMAIN setup.rules : IsTrailing(setup.rules[i]) THEN high ELSE highest
       /\ book' = IF order = None THEN marked ELSE Recorded(marked, order)
       /\ pending' = IF order = None THEN 0 ELSE id
       /\ made' = IF order = None THEN made ELSE Append(made, bar)
       /\ done' = LET settled == IF pending = 0 THEN done ELSE [done EXCEPT ![pending] = bar]
                  IN IF order = None THEN settled ELSE Append(settled, 0)
       /\ UNCHANGED <<setup, report>>

(* Mutant: the order that has no next brick is left as it is. *)
LeftPending(b) == b

(* A pending order has no next brick: cancelled, its reservation released *)
WithoutPending(b) ==
    IF pending = 0 THEN b
    ELSE [b EXCEPT !.orders[pending] = Cancel(@), !.ledger = Release(@, b.orders[pending].reserved)]

(* Closing what is open at the last brick's close *)
ForcedOut(b) ==
    LET bar   == Len(bricks)
        price == bricks[bar].close
        ord   == NewOrder("sell", "asset", b.ledger.qty, price)
    IN IF setup.forced /\ bricks # <<>> /\ IsOpen(b.ledger)
       THEN Marked(Settled(Recorded(b, ord), Len(b.orders) + 1, price, bar), price)
       ELSE b

Finish ==
    LET final == ForcedOut(WithoutPending(book))
        forced == Len(final.orders) > Len(book.orders)
    IN /\ report = NoReport
       /\ book' = final /\ pending' = 0
       /\ report' = Metrics(final.curve, final.trades, Capital)
       /\ made' = IF forced THEN Append(made, Len(bricks)) ELSE made
       /\ done' = IF forced THEN Append(done, Len(bricks)) ELSE done
       /\ UNCHANGED <<setup, strategy, highest, bricks, wanted>>

Next == (\E brick \in Bricks : OnBrick(brick)) \/ Finish

Spec == Init /\ [][Next]_vars

-----------------------------------------------------------------------------
Orders == book.orders
Filled(id) == Orders[id].status = "filled"
Forced(id) == made[id] = done[id]

(* "a signal generated on completed brick N executes on the NEXT completed *)
(* brick (N+1)" (engine.py): every order is sized and priced with what     *)
(* was known on its brick and filled with the close of the next one, and   *)
(* only what closes the run is filled on its own brick.                    *)
FilledOnNextBrick ==
    \A id \in DOMAIN Orders :
        /\ Filled(id) => /\ done[id] = made[id] + 1 \/ (Forced(id) /\ report # NoReport /\ id = Len(Orders))
                         /\ Orders[id].fill.price \in {bricks[done[id]].close + Slip, bricks[done[id]].close - Slip}
        /\ Orders[id].ref = bricks[made[id]].close
        /\ IsActive(Orders[id]) <=> id = pending

(* The books agree at every brick: cash, holdings and results account for  *)
(* the capital, the waiting order alone is reserved for, the trades are    *)
(* the realised result, and the fees those of the filled orders            *)
(* (Portfolio.apply_order, Position.close).                                *)
BooksBalance ==
    LET filled == {id \in DOMAIN Orders : Filled(id)} IN
    /\ Balanced(book.ledger, Capital)
    /\ book.ledger.reserved = IF pending = 0 THEN 0 ELSE Orders[pending].reserved
    /\ book.ledger.realized = SumOf([i \in DOMAIN book.trades |-> book.trades[i].net])
    /\ book.charged = Fee * Cardinality(filled)
    /\ bricks # <<>> => Last(book.curve) =
           Capital + book.ledger.realized
               + (Last(bricks).close * book.ledger.qty - book.ledger.basis - book.ledger.entryCost)

(* A position is open exactly while the strategy wants one, one brick      *)
(* late, unless its entry was turned away or too small: the signals the    *)
(* engine passes over leave the two in step (_order_from_signal).          *)
PositionFollowsStrategy ==
    LET n == Len(wanted) - 1
        entries == {i \in 1..n : wanted[i] = "long" /\ (i = 1 \/ wanted[i - 1] # "long")}
        NothingBought(bar) == \A id \in DOMAIN Orders : made[id] = bar => Orders[id].status = "rejected"
    IN setup.rules = <<>> /\ report = NoReport /\ n > 0 =>
           IF IsOpen(book.ledger) THEN wanted[n] = "long"
           ELSE wanted[n] = "long" => NothingBought(Max(entries))

(* A rule that the market has reached takes the position out with the next *)
(* brick, whatever the strategy and the rules after it say, and only such  *)
(* a rule or the strategy does; the trailing stop trails the highest close *)
(* since the position was entered, and after the loss limit nothing is     *)
(* entered (RiskManager.evaluate, _execute).                               *)
Reached(rule, price) ==
    CASE rule.kind = "stop_loss"   -> price <= rule.limit
      [] rule.kind = "take_profit" -> price >= rule.limit
      [] IsTrailing(rule) ->
             price <= TrailStop(rule, Max({bricks[i].close : i \in book.entryBar..Len(bricks)}))
      [] rule.kind = "max_daily_loss" -> book.ledger.realized <= 0 - rule.limit
      [] OTHER -> FALSE
RulesAreObeyed ==
    report = NoReport /\ bricks # <<>> =>
        /\ pending # 0 /\ Orders[pending].side = "sell" /\ strategy.signal # "exit" =>
               \E i \in DOMAIN setup.rules : Reached(setup.rules[i], Last(bricks).close)
        /\ \A i \in DOMAIN setup.rules :
               IF IsOpen(book.ledger)
               THEN Reached(setup.rules[i], Last(bricks).close) => pending # 0 /\ Orders[pending].side = "sell"
               ELSE setup.rules[i].kind = "max_daily_loss" /\ Reached(setup.rules[i], 0) => pending = 0

(* A run leaves nothing behind: no order waits, nothing is reserved, and   *)
(* when the end closes what is open the equity curve ends where the trades *)
(* do (run).                                                               *)
RunIsAccounted ==
    report # NoReport =>
        /\ \A id \in DOMAIN Orders : ~IsActive(Orders[id])
        /\ book.ledger.reserved = 0
        /\ setup.forced => ~IsOpen(book.ledger) /\ report.pnl = report.net
        /\ report.gross - report.net <= book.charged

(* Its metrics are those of the curve and the trades (compute_metrics) *)
MetricsAreOfRun == report # NoReport => DrawdownIsDeepestFall(book.curve) /\ MetricsAgree(report)
=============================================================================
