----------------------------- MODULE LiveTrading ----------------------------
(***************************************************************************)
(* Live trading: the tick handler of LiveTradingPipeline, the OMS with its *)
(* pre-trade risk check, the LiveExecutor, the broker order and position   *)
(* synchronisers and the idempotent PortfolioSynchronizer, on one asyncio  *)
(* event loop, against a broker the code only sees through its answers.    *)
(*                                                                         *)
(* The code between two awaits that can suspend is one action.  The awaits *)
(* that can are the broker's calls and asyncio.sleep: the risk validator   *)
(* and the JSONL persistence are coroutines that never give up the loop.   *)
(* A call to the broker is split where it can be overtaken: the broker     *)
(* acts and its answer is captured (BrokerAnswersSubmit, WakeAndPoll,      *)
(* WakeAndCancel, FetchOrder, ...), and a later action takes the answer,   *)
(* which may be stale by then, back into the program (ReceiveAnswer, ...). *)
(*                                                                         *)
(* Each stream handles one tick at a time and a tick creates at most one   *)
(* order, so the execution in progress is indexed by the order's id.       *)
(***************************************************************************)
EXTENDS Portfolio, FiniteSets

CONSTANTS
    MaxOrders,        \* bound: orders created in a run
    Prices,           \* prices of ticks and of fills
    Capital,          \* Portfolio(starting_capital)
    Fee,              \* BrokerageModel.cost of a fill (a flat fee)
    Streams,          \* number of market data streams: ticks handled at once
    MaxOpenPositions, \* PreExecutionRiskValidator max_open_positions
    MaxOrderValue,    \* OMSConfig.max_order_value; one no order reaches is None
    ApiTasks,         \* requests of the HTTP API that can be in progress
    ModQuantities,    \* quantities the modify route is called with
    Faults            \* what may go wrong in this instance

ASSUME SymbolsAssumption == Symbols # {}
ASSUME MaxOrdersAssumption == MaxOrders \in Nat
ASSUME PricesAssumption == Prices \subseteq Nat \ {0}
ASSUME CapitalAssumption == Capital \in Nat \ {0}
ASSUME FeeAssumption == Fee \in Nat
ASSUME LimitsAssumption == /\ Streams \in Nat
                           /\ MaxOpenPositions \in Nat
                           /\ MaxOrderValue \in Nat
ASSUME ModAssumption == ModQuantities \subseteq Nat \ {0}

(***************************************************************************)
(* What Faults may contain.                                                *)
(*   "timer"           an execution can outlive fill_timeout               *)
(*   "partial"         the broker fills an order in pieces                 *)
(*   "kill"            the broker ends an order of its own accord          *)
(*   "no_average"      the broker's answer has no average price            *)
(*   "submit_error"    submit_order raises although the order was accepted *)
(*   "poll_error"      get_order raises                                    *)
(*   "cancel_error"    cancel_order raises, with or without effect         *)
(*   "cancel_ack"      cancel_order answers before the order has ended     *)
(*   "positions_error" get_positions answers [] (its error path)           *)
(*   "persist_error"   a JSONL append raises OSError                       *)
(*   "stop"            the runtime is stopped and started again            *)
(***************************************************************************)
ASSUME FaultsAssumption ==
    Faults \subseteq {"timer", "partial", "kill", "no_average", "submit_error",
                      "poll_error", "cancel_error", "cancel_ack",
                      "positions_error", "persist_error", "stop"}

OrderIds == 1..MaxOrders

VARIABLES
    nextId,       \* OrderManager._next_order_id
    order,        \* OrderManager._orders
    exec,         \* the LiveExecutor.execute coroutine of each order
    positions,    \* PositionSynchronizer._positions
    portfolio,    \* the Portfolio
    applied,      \* PortfolioSynchronizer._applied_fill_keys, by order
    recorded,     \* PortfolioSynchronizer._recorded_order_ids
    task,         \* the API requests in progress
    broker,       \* the broker's own orders
    holdings      \* the broker's own net position of each symbol

platformVars == <<nextId, order, exec, positions>>
bookVars     == <<portfolio, applied, recorded>>
brokerVars   == <<broker, holdings>>
vars         == <<platformVars, bookVars, task, brokerVars>>

-----------------------------------------------------------------------------
(* The broker's order as get_order, submit_order and cancel_order report it. *)

OpenAtBroker == {"open", "partially_filled"}

(* Mutant: a partial fill ends the polling. *)
TerminalEarly == {"partially_filled", "filled", "rejected", "cancelled", "expired"}

Terminal == {"filled", "rejected", "cancelled", "expired"}

BrokerStatus == {"none", "requested", "refused"} \cup OpenAtBroker \cup Terminal

BrokerOrder == [status : BrokerStatus, qty : Nat, filled : Nat, price : Nat]

NoBrokerOrder == [status |-> "none", qty |-> 0, filled |-> 0, price |-> 0]

(* A call that raised, a call that has no answer yet. *)
Error    == [status |-> "error", qty |-> 0, filled |-> 0, price |-> 0]
NoAnswer == [status |-> "awaited", qty |-> 0, filled |-> 0, price |-> 0]

(* The answer of get_positions, kept beside it in the request's view. *)
Listed   == [status |-> "listed", qty |-> 0, filled |-> 0, price |-> 0]

Answer == [status : BrokerStatus \cup {"error", "awaited", "listed"},
           qty : Nat, filled : Nat, price : Nat]

(* What a query reports of a broker order: the average price may be missing. *)
Reports(b) == {b} \cup IF "no_average" \in Faults THEN {[b EXCEPT !.price = 0]} ELSE {}

(***************************************************************************)
(* A cancel request: what becomes of the broker's order (now) and what the *)
(* caller is told (reply).  An order that has already ended makes the      *)
(* broker raise, or report the order as it is.                             *)
(***************************************************************************)
CancelOutcomes(b) ==
    LET dead == [b EXCEPT !.status = "cancelled"] IN
    IF b.status \in OpenAtBroker
    THEN {[now |-> dead, reply |-> dead]}
         \cup (IF "cancel_error" \in Faults
               THEN {[now |-> b, reply |-> Error], [now |-> dead, reply |-> Error]}
               ELSE {})
         \cup (IF "cancel_ack" \in Faults THEN {[now |-> b, reply |-> b]} ELSE {})
    ELSE {[now |-> b, reply |-> Error], [now |-> b, reply |-> b]}

Signed(side, qty) == IF side = "buy" THEN qty ELSE 0 - qty

-----------------------------------------------------------------------------
(* The locally tracked position of a symbol (PositionRecord). *)

PositionRecord == [side : {"none", "long", "short"}, qty : Int]

NoPosition == [side |-> "none", qty |-> 0]

(* A closed position is deleted. *)
Tracked(side, qty) == IF qty = 0 THEN NoPosition ELSE [side |-> side, qty |-> qty]

(* Mutant: every fill adds to the record. *)
ApplyFillUnsigned(pos, side, qty) ==
    IF pos = NoPosition THEN Tracked(IF side = "buy" THEN "long" ELSE "short", qty)
    ELSE Tracked(pos.side, pos.qty + qty)

ApplyFill(pos, side, qty) ==
    CASE pos = NoPosition   -> Tracked(IF side = "buy" THEN "long" ELSE "short", qty)
      [] pos.side = "long"  -> Tracked("long", pos.qty + Signed(side, qty))
      [] OTHER              -> Tracked("short", pos.qty - Signed(side, qty))

(***************************************************************************)
(* _reconcile with the broker's list: an existing record keeps its side    *)
(* and takes the quantity, a missing one is created, one the broker does   *)
(* not list is dropped.                                                    *)
(***************************************************************************)
Reconciled(pos, held) ==
    LET size == IF held < 0 THEN 0 - held ELSE held IN
    IF held = 0 THEN NoPosition
    ELSE IF pos = NoPosition
         THEN [side |-> IF held > 0 THEN "long" ELSE "short", qty |-> size]
         ELSE [side |-> pos.side, qty |-> size]

(* The net quantity a record stands for *)
Net(pos) == IF pos.side = "short" THEN 0 - pos.qty ELSE pos.qty

(* context.position_quantity: the tracked record, else the portfolio's position *)
PositionQuantity(s) ==
    IF positions[s] # NoPosition THEN positions[s].qty ELSE portfolio.qty

OpenPositions == {s \in Symbols : positions[s] # NoPosition}

-----------------------------------------------------------------------------
(* The execute coroutine and the API requests. *)

(* An id not handed out yet *)
NoOrder == NewOrder("buy", CHOOSE s \in Symbols : TRUE, 0, 0)

Stage == {"none", "submitting", "sleeping", "answered", "done", "stopped"}

Execution == [stage  : Stage,
              call   : {"submit", "poll", "cancel"},   \* what was answered
              late   : BOOLEAN,                        \* elapsed > fill_timeout
              answer : Answer]

NoExecution == [stage |-> "none", call |-> "submit", late |-> FALSE, answer |-> NoAnswer]

Executing(o) == exec[o].stage \in {"submitting", "sleeping", "answered"}

InProgress == {o \in OrderIds : Executing(o)}

Task == [op     : {"idle", "cancel", "sync", "recover", "positions"},
         todo   : SUBSET OrderIds,      \* orders still to be looked at
         answer : Answer,
         view   : [Symbols -> Int]]     \* the positions the broker answered

Flat == [s \in Symbols |-> 0]

Idle == [op |-> "idle", todo |-> {}, answer |-> NoAnswer, view |-> Flat]

First(todo) == CHOOSE o \in todo : \A p \in todo : o <= p

(* synchronize_order does not ask about an order without a broker id *)
Askable(todo) == {o \in todo : \E p \in todo : p <= o /\ order[p].known}

-----------------------------------------------------------------------------
TypeOK ==
    /\ nextId \in 0..MaxOrders
    /\ order \in [OrderIds -> Order]
    /\ exec \in [OrderIds -> Execution]
    /\ positions \in [Symbols -> PositionRecord]
    /\ portfolio \in Ledger
    /\ applied \in SUBSET OrderIds
    /\ recorded \in SUBSET OrderIds
    /\ task \in [ApiTasks -> Task]
    /\ broker \in [OrderIds -> BrokerOrder]
    /\ holdings \in [Symbols -> Int]

Init ==
    /\ nextId = 0
    /\ order = [o \in OrderIds |-> NoOrder]
    /\ exec = [o \in OrderIds |-> NoExecution]
    /\ positions = [s \in Symbols |-> NoPosition]
    /\ portfolio = NewLedger(Capital)
    /\ applied = {}
    /\ recorded = {}
    /\ task = [t \in ApiTasks |-> Idle]
    /\ broker = [o \in OrderIds |-> NoBrokerOrder]
    /\ holdings = Flat

-----------------------------------------------------------------------------
(***************************************************************************)
(* A tick.  The strategy is free: any signal at any tick, on any symbol.   *)
(* Entry quantities are cash / price with max_position_size 1; only prices *)
(* that divide the cash are taken, so that lots stay whole.                *)
(***************************************************************************)
EntryOrder(s, price) == NewOrder("buy", s, portfolio.cash \div price, price)

(* Mutant: an exit is sized like an entry. *)
ExitLikeEntry(s, price) == NewOrder("sell", s, portfolio.cash \div price, price)

ExitOrder(s, price) == NewOrder("sell", s, PositionQuantity(s), price)

SignalToOrder(signal, s, price) ==
    IF signal = "buy" THEN EntryOrder(s, price) ELSE ExitOrder(s, price)

Signalled(signal, s, price) ==
    IF signal = "buy"
    THEN portfolio.cash >= price /\ portfolio.cash % price = 0
    ELSE PositionQuantity(s) > 0

(* PreExecutionRiskValidator.validate with the limits OMS gives it *)
RiskPasses(ord, price) ==
    /\ ord.qty * price <= MaxOrderValue
    /\ ord.side = "buy" =>
        /\ Cardinality(OpenPositions) < MaxOpenPositions
        /\ positions[ord.symbol] # NoPosition
              => (positions[ord.symbol].qty + ord.qty) * price <= MaxOrderValue

(* save_order, save_fill and save_risk_decision either all append or one raises *)
Persisted == IF "persist_error" \in Faults THEN BOOLEAN ELSE {TRUE}

(* handle_tick up to the submission, or to its end when the risk check fails *)
HandleTick(signal, s, price) ==
    LET o   == nextId + 1
        ord == SignalToOrder(signal, s, price)
    IN
    /\ nextId < MaxOrders
    /\ Cardinality(InProgress) < Streams
    /\ Signalled(signal, s, price)
    /\ nextId' = o
    /\ \/ /\ RiskPasses(ord, price)
          /\ order' = [order EXCEPT ![o] = Submit(ord)]
          /\ exec' = [exec EXCEPT ![o].stage = "submitting"]
          /\ broker' = [broker EXCEPT ![o] =
                            [NoBrokerOrder EXCEPT !.status = "requested", !.qty = ord.qty]]
          /\ UNCHANGED recorded
       \/ /\ ~RiskPasses(ord, price)
          /\ order' = [order EXCEPT ![o] = Reject(ord, "risk")]
          /\ exec' = [exec EXCEPT ![o].stage = "done"]
          /\ \E saved \in Persisted :
                 recorded' = IF saved THEN recorded \cup {o} ELSE recorded
          /\ UNCHANGED broker
    /\ UNCHANGED <<positions, portfolio, applied, task, holdings>>

-----------------------------------------------------------------------------
(* Mutant: the fill takes the quantity the platform asked for. *)
FillAsOrdered(ord, ans) ==
    [price |-> IF ans.price > 0 THEN ans.price ELSE ord.ref, qty |-> ord.qty, cost |-> Fee]

(***************************************************************************)
(* The executor's return to handle_tick, one step of the event loop:       *)
(* _apply_broker_fill, _record_fill_integrations, the JSONL appends and    *)
(* PortfolioSynchronizer.apply_order.                                      *)
(***************************************************************************)
FillOf(ord, ans) ==
    [price |-> IF ans.price > 0 THEN ans.price ELSE ord.ref,
     qty   |-> IF ans.filled > 0 THEN ans.filled ELSE ans.qty,
     cost  |-> Fee]

(* Mutant: an order the API has cancelled meanwhile is left cancelled. *)
ApplyUnlessCancelled(ord, ans) ==
    CASE ord.status = "cancelled" -> ord
      [] ans.status = "filled"    -> Complete(ord, FillOf(ord, ans))
      [] ans.status = "cancelled" -> Cancel(ord)
      [] OTHER                    -> Reject(ord, "broker")

ApplyBrokerFill(ord, ans) ==
    CASE ans.status = "filled"                  -> Complete(ord, FillOf(ord, ans))
      [] ans.status = "cancelled"               -> Cancel(ord)
      [] ans.status \in {"rejected", "expired"} -> Reject(ord, "broker")
      [] OTHER                                  -> ord

IntegratesFill(ord) == ord.status = "filled" /\ HasFill(ord)

Settle(o, ord) ==
    /\ exec' = [exec EXCEPT ![o] = [NoExecution EXCEPT !.stage = "done"]]
    /\ positions' = IF IntegratesFill(ord)
                    THEN [positions EXCEPT ![ord.symbol] = ApplyFill(@, ord.side, ord.fill.qty)]
                    ELSE positions
    /\ \E saved \in Persisted :
          LET books == saved /\ IntegratesFill(ord) /\ o \notin applied IN
          /\ order'     = [order EXCEPT ![o] = IF books THEN OrderAfter(portfolio, ord) ELSE ord]
          /\ portfolio' = IF books THEN LedgerAfter(portfolio, ord) ELSE portfolio
          /\ applied'   = IF books THEN applied \cup {o} ELSE applied
          /\ recorded'  = IF saved THEN recorded \cup {o} ELSE recorded

(* submit_order returned or raised *)
ReceiveSubmitAnswer(o) ==
    LET ans == exec[o].answer
        ord == [order[o] EXCEPT !.known = TRUE]
    IN
    /\ exec[o].stage = "answered"
    /\ exec[o].call = "submit"
    /\ \/ /\ ans = Error
          /\ Settle(o, Reject(order[o], "execution"))
       \/ /\ ans.status \in Terminal
          /\ Settle(o, ApplyBrokerFill(ord, ans))
       \/ /\ ans # Error
          /\ ans.status \notin Terminal
          /\ order' = [order EXCEPT ![o] = ord]
          /\ exec' = [exec EXCEPT ![o] = [NoExecution EXCEPT !.stage = "sleeping"]]
          /\ UNCHANGED <<positions, bookVars>>
    /\ UNCHANGED <<nextId, task, brokerVars>>

(* get_order returned in the polling loop, or raised: execute rejects the order *)
ReceivePollAnswer(o) ==
    LET ans == exec[o].answer IN
    /\ exec[o].stage = "answered"
    /\ exec[o].call = "poll"
    /\ \/ /\ ans = Error
          /\ Settle(o, Reject(order[o], "execution"))
       \/ /\ ans.status \in Terminal
          /\ Settle(o, ApplyBrokerFill(order[o], ans))
       \/ /\ ans # Error
          /\ ans.status \notin Terminal
          /\ exec' = [exec EXCEPT ![o].stage = "sleeping", ![o].answer = NoAnswer]
          /\ UNCHANGED <<order, positions, bookVars>>
    /\ UNCHANGED <<nextId, task, brokerVars>>

(* Mutant: when the cancel raised, the executor polls on with a new timeout. *)
RetryFailedCancel(o) ==
    /\ exec[o].stage = "answered"
    /\ exec[o].call = "cancel"
    /\ IF exec[o].answer = Error
       THEN /\ exec' = [exec EXCEPT ![o] = [NoExecution EXCEPT !.stage = "sleeping"]]
            /\ UNCHANGED <<order, positions, bookVars>>
       ELSE Settle(o, ApplyBrokerFill(order[o], exec[o].answer))
    /\ UNCHANGED <<nextId, task, brokerVars>>

(* the cancel of a timed-out execution returned: whatever it says ends the loop; *)
(* when it raised the order counts as expired *)
ReceiveCancelAnswer(o) ==
    LET ans == exec[o].answer IN
    /\ exec[o].stage = "answered"
    /\ exec[o].call = "cancel"
    /\ Settle(o, IF ans = Error THEN Reject(order[o], "broker")
                 ELSE ApplyBrokerFill(order[o], ans))
    /\ UNCHANGED <<nextId, task, brokerVars>>

(* the fill timeout passes while the executor polls *)
TimerPasses(o) ==
    /\ "timer" \in Faults
    /\ ~exec[o].late
    /\ \/ exec[o].stage = "sleeping"
       \/ exec[o].stage = "answered" /\ exec[o].call = "poll"
    /\ exec' = [exec EXCEPT ![o].late = TRUE]
    /\ UNCHANGED <<nextId, order, positions, bookVars, task, brokerVars>>

(* sleep returns within the timeout: get_order, answered from the broker's state *)
WakeAndPoll(o) ==
    /\ exec[o].stage = "sleeping"
    /\ ~exec[o].late
    /\ \E ans \in Reports(broker[o]) \cup IF "poll_error" \in Faults THEN {Error} ELSE {} :
          exec' = [exec EXCEPT ![o].stage = "answered", ![o].call = "poll", ![o].answer = ans]
    /\ UNCHANGED <<nextId, order, positions, bookVars, task, brokerVars>>

(* sleep returns after the timeout: cancel_order takes effect at the broker *)
WakeAndCancel(o) ==
    /\ exec[o].stage = "sleeping"
    /\ exec[o].late
    /\ \E outcome \in CancelOutcomes(broker[o]) :
          /\ broker' = [broker EXCEPT ![o] = outcome.now]
          /\ exec' = [exec EXCEPT ![o].stage = "answered", ![o].call = "cancel",
                                  ![o].answer = outcome.reply]
    /\ UNCHANGED <<nextId, order, positions, bookVars, task, holdings>>

(* LiveRuntimeOrchestrator.stop cancels the stream tasks, and with them the *)
(* handlers that are waiting: CancelledError passes every except Exception. *)
StopRuntime ==
    /\ "stop" \in Faults
    /\ InProgress # {}
    /\ exec' = [o \in OrderIds |->
                   IF Executing(o) THEN [NoExecution EXCEPT !.stage = "stopped"] ELSE exec[o]]
    /\ UNCHANGED <<nextId, order, positions, bookVars, task, brokerVars>>
-----------------------------------------------------------------------------
(***************************************************************************)
(* The broker (external).                                                  *)
(***************************************************************************)
(* What one fill of q lots at price p makes of a broker order *)
Filled(b, q, p) ==
    [b EXCEPT !.filled = @ + q,
              !.price  = p,
              !.status = IF b.filled + q = b.qty THEN "filled" ELSE "partially_filled"]

(* An order is filled at one price; the average is then that price. *)
FillPrices(b) == IF b.price > 0 THEN {b.price} ELSE Prices

FillSizes(b) == IF "partial" \in Faults THEN 1..(b.qty - b.filled) ELSE {b.qty - b.filled}

Deliver(o, q) ==
    holdings' = [holdings EXCEPT ![order[o].symbol] = @ + Signed(order[o].side, q)]

(* The answer to submit_order reaches the executor if it is still waiting. *)
AnswerSubmit(o, ans) ==
    exec' = IF exec[o].stage = "submitting"
            THEN [exec EXCEPT ![o].stage = "answered", ![o].call = "submit", ![o].answer = ans]
            ELSE exec

(* The request arrives: the order rests, is filled at once, or is refused. *)
BrokerAnswersSubmit(o) ==
    LET accepted == [broker[o] EXCEPT !.status = "open"] IN
    /\ broker[o].status = "requested"
    /\ \/ /\ broker' = [broker EXCEPT ![o] = accepted]
          /\ \E ans \in {accepted} \cup IF "submit_error" \in Faults THEN {Error} ELSE {} :
                AnswerSubmit(o, ans)
          /\ UNCHANGED holdings
       \/ \E p \in Prices :
             /\ broker' = [broker EXCEPT ![o] = Filled(accepted, accepted.qty, p)]
             /\ AnswerSubmit(o, Filled(accepted, accepted.qty, p))
             /\ Deliver(o, accepted.qty)
       \/ /\ broker' = [broker EXCEPT ![o].status = "refused"]
          /\ AnswerSubmit(o, Error)
          /\ UNCHANGED holdings
    /\ UNCHANGED <<nextId, order, positions, bookVars, task>>

BrokerFills(o) ==
    /\ broker[o].status \in OpenAtBroker
    /\ \E q \in FillSizes(broker[o]), p \in FillPrices(broker[o]) :
          /\ broker' = [broker EXCEPT ![o] = Filled(@, q, p)]
          /\ Deliver(o, q)
    /\ UNCHANGED <<platformVars, bookVars, task>>

(* The venue cancels, rejects or expires an order on its own *)
BrokerEnds(o) ==
    /\ "kill" \in Faults
    /\ broker[o].status \in OpenAtBroker
    /\ \E end \in {"cancelled", "rejected", "expired"} :
          broker' = [broker EXCEPT ![o].status = end]
    /\ UNCHANGED <<platformVars, bookVars, task, holdings>>

-----------------------------------------------------------------------------
(* Mutant: a rejected order can still be cancelled. *)
CanChangeRejected(o) == order[o].status \notin {"filled", "cancelled"}

(***************************************************************************)
(* The HTTP API, on the same loop: cancel, modify, synchronize, recover.   *)
(***************************************************************************)
CanChange(o) == order[o].status \in {"created", "pending"}

(* Mutant: synchronising completes an order the broker has filled. *)
CompletesOnSync(ord, ans) ==
    LET seen == [ord EXCEPT !.known = TRUE] IN
    CASE ans.status = "filled"       -> Complete(seen, FillOf(ord, ans))
      [] ans.status \in OpenAtBroker -> Submit(seen)
      [] ans.status = "cancelled"    -> Cancel(seen)
      [] OTHER                       -> Reject(seen, "broker")

(* BrokerOrderSynchronizer.apply_broker_state: a filled order changes nothing *)
ApplyBrokerState(ord, ans) ==
    LET seen == [ord EXCEPT !.known = TRUE] IN
    CASE ans.status \in OpenAtBroker            -> Submit(seen)
      [] ans.status = "cancelled"               -> Cancel(seen)
      [] ans.status \in {"rejected", "expired"} -> Reject(seen, "broker")
      [] OTHER                                  -> seen

(* OMS.cancel_order up to the broker's answer; without a broker id the broker *)
(* is asked about an order it does not know *)
RequestCancel(t, o) ==
    /\ task[t] = Idle
    /\ o <= nextId
    /\ CanChange(o)
    /\ \E outcome \in IF order[o].known THEN CancelOutcomes(broker[o])
                                        ELSE {[now |-> broker[o], reply |-> Error]} :
          /\ broker' = [broker EXCEPT ![o] = outcome.now]
          /\ task' = [task EXCEPT ![t] = [Idle EXCEPT !.op = "cancel", !.todo = {o},
                                                      !.answer = outcome.reply]]
    /\ UNCHANGED <<platformVars, bookVars, holdings>>

(* ... and from it: whatever the broker said, the order ends CANCELLED *)
ReceiveCancel(t) ==
    LET o   == First(task[t].todo)
        ans == task[t].answer
    IN
    /\ task[t].op = "cancel"
    /\ order' = [order EXCEPT ![o] =
                    Cancel(IF ans = Error THEN @ ELSE ApplyBrokerState(@, ans))]
    /\ task' = [task EXCEPT ![t] = Idle]
    /\ UNCHANGED <<nextId, exec, positions, bookVars, brokerVars>>

(* OMS.modify_order: the local order only, the broker is not told *)
ModifyOrder(o, qty, ref) ==
    /\ o <= nextId
    /\ CanChange(o)
    /\ order' = [order EXCEPT ![o].qty = qty, ![o].ref = ref]
    /\ UNCHANGED <<nextId, exec, positions, bookVars, task, brokerVars>>

(* Where a walk over the active orders stands with todo left: recover goes *)
(* on to the positions. *)
Walk(op, todo) ==
    CASE todo # {}      -> [Idle EXCEPT !.op = op, !.todo = todo]
      [] op = "recover" -> [Idle EXCEPT !.op = "positions"]
      [] OTHER          -> Idle

(* synchronize_orders and recover take their list of active orders here, once *)
StartSync(t, op) ==
    /\ task[t] = Idle
    /\ task' = [task EXCEPT ![t] =
                   Walk(op, Askable({o \in 1..nextId : IsActive(order[o])}))]
    /\ UNCHANGED <<platformVars, bookVars, brokerVars>>

(* get_order for the first order of the list *)
FetchOrder(t) ==
    /\ task[t].op \in {"sync", "recover"}
    /\ task[t].answer = NoAnswer
    /\ \E ans \in Reports(broker[First(task[t].todo)])
                  \cup IF "poll_error" \in Faults THEN {Error} ELSE {} :
          task' = [task EXCEPT ![t].answer = ans]
    /\ UNCHANGED <<platformVars, bookVars, brokerVars>>

(* its answer is applied to the order as it is by now *)
ReceiveOrder(t) ==
    LET o   == First(task[t].todo)
        ans == task[t].answer
    IN
    /\ task[t].op \in {"sync", "recover"}
    /\ ans # NoAnswer
    /\ order' = [order EXCEPT ![o] = IF ans = Error THEN @ ELSE ApplyBrokerState(@, ans)]
    /\ task' = [task EXCEPT ![t] = Walk(task[t].op, Askable(task[t].todo \ {o}))]
    /\ UNCHANGED <<nextId, exec, positions, bookVars, brokerVars>>

(* PositionSynchronizer.sync: the broker's positions, [] when the call fails *)
FetchPositions(t) ==
    /\ task[t].op = "positions"
    /\ task[t].answer = NoAnswer
    /\ \E view \in {holdings} \cup IF "positions_error" \in Faults THEN {Flat} ELSE {} :
          task' = [task EXCEPT ![t].view = view, ![t].answer = Listed]
    /\ UNCHANGED <<platformVars, bookVars, brokerVars>>

ReceivePositions(t) ==
    /\ task[t].op = "positions"
    /\ task[t].answer # NoAnswer
    /\ positions' = [s \in Symbols |-> Reconciled(positions[s], task[t].view[s])]
    /\ task' = [task EXCEPT ![t] = Idle]
    /\ UNCHANGED <<nextId, order, exec, bookVars, brokerVars>>

-----------------------------------------------------------------------------
ExecutorStep(o) ==
    \/ ReceiveSubmitAnswer(o)
    \/ ReceivePollAnswer(o)
    \/ ReceiveCancelAnswer(o)
    \/ TimerPasses(o)
    \/ WakeAndPoll(o)
    \/ WakeAndCancel(o)

BrokerStep(o) ==
    \/ BrokerAnswersSubmit(o)
    \/ BrokerFills(o)
    \/ BrokerEnds(o)

ApiStep(t) ==
    \/ \E o \in OrderIds : RequestCancel(t, o)
    \/ ReceiveCancel(t)
    \/ \E op \in {"sync", "recover"} : StartSync(t, op)
    \/ FetchOrder(t)
    \/ ReceiveOrder(t)
    \/ FetchPositions(t)
    \/ ReceivePositions(t)

Next ==
    \/ \E signal \in OrderSide, s \in Symbols, price \in Prices : HandleTick(signal, s, price)
    \/ \E o \in OrderIds : ExecutorStep(o)
    \/ \E o \in OrderIds : BrokerStep(o)
    \/ \E t \in ApiTasks : ApiStep(t)
    \/ \E o \in OrderIds, qty \in ModQuantities, ref \in Prices : ModifyOrder(o, qty, ref)
    \/ StopRuntime

Spec == Init /\ [][Next]_vars

(***************************************************************************)
(* Fairness.  The event loop runs every ready callback, the loop's clock   *)
(* moves (TimerPasses, sleeping), and a broker call returns or raises: the *)
(* adapters' HTTP clients have their own timeouts.  The broker is not      *)
(* required to fill anything.                                              *)
(***************************************************************************)
Fairness ==
    \A o \in OrderIds :
        /\ WF_vars(BrokerAnswersSubmit(o))
        /\ WF_vars(TimerPasses(o))
        /\ WF_vars(WakeAndPoll(o) \/ WakeAndCancel(o))
        /\ WF_vars(ReceiveSubmitAnswer(o) \/ ReceivePollAnswer(o) \/ ReceiveCancelAnswer(o))

FairSpec == Spec /\ Fairness

-----------------------------------------------------------------------------
(***************************************************************************)
(* Properties.                                                             *)
(***************************************************************************)

(* A fill on the platform's order is one the broker made: same quantity,   *)
(* same price, on an order that is completely filled.  The answer it was   *)
(* built from may have been captured long before, while the API cancelled, *)
(* modified or synchronised the order (LiveExecutor._apply_broker_fill).   *)
FillIsReal ==
    \A o \in OrderIds :
        HasFill(order[o]) =>
            /\ broker[o].status = "filled"
            /\ order[o].fill.qty = broker[o].filled
            /\ "no_average" \notin Faults => order[o].fill.price = broker[o].price

(* The portfolio never spends cash it does not have, although every buy is *)
(* sized with all the cash at the time of its tick and several are under   *)
(* way at once (Portfolio.apply_order, OMS._calculate_entry_quantity).     *)
CashNeverNegative == portfolio.cash >= 0

(* The only ways a complete fill at the broker can fail to reach the       *)
(* portfolio once its handler is over: the handler was cancelled by stop(),*)
(* persistence raised before the portfolio was told, or the executor had   *)
(* written the order off after an error or a timeout.                      *)
LostFillHasCause ==
    \A o \in OrderIds :
        broker[o].status = "filled" /\ ~Executing(o) =>
            \/ o \in applied
            \/ exec[o].stage = "stopped"
            \/ o \notin recorded
            \/ order[o].reason \in {"broker", "execution"}

(* An order the risk check refused never reaches the broker, and nothing   *)
(* the API does later revives it (OMS.process_signal, cancel, synchronize).*)
RiskRejectedNeverSent ==
    \A o \in OrderIds :
        order[o].reason = "risk" =>
            broker[o].status = "none" /\ order[o].status = "rejected"

(* Between ticks the tracked positions are the broker's                    *)
(* (PositionSynchronizer: "a local view of positions synchronized with the *)
(* broker/exchange").                                                      *)
PositionsFollowBroker ==
    InProgress = {} => \A s \in Symbols : Net(positions[s]) = holdings[s]

(* The platform trades long only: it never sells more of a symbol than it  *)
(* holds at the broker (Portfolio.apply_order "close (long-only)").        *)
NeverShort == \A s \in Symbols : holdings[s] >= 0

(* As long as no fill was turned away for lack of cash, the portfolio's    *)
(* cash, open cost and realised result account for the starting capital,   *)
(* whichever way the buys scaled in and were sold.                         *)
BooksBalance ==
    (\A o \in OrderIds : order[o].reason # "cash") => Balanced(portfolio, Capital)

(* At most max_open_positions positions are open at a time                 *)
(* (PreExecutionRiskValidator: "Maximum number of open positions").        *)
PositionLimit == Cardinality(OpenPositions) <= MaxOpenPositions

(* Reconciling an order against the broker does not take a completed order *)
(* back: an order that holds its fill is not active again                  *)
(* (BrokerOrderSynchronizer.apply_broker_state).                           *)
CompletedStaysInactive ==
    \A o \in OrderIds : o \in applied => ~IsActive(order[o])

(* Every execution comes to an end: the polling loop is left on a terminal *)
(* answer, an error, or the timeout (LiveExecutor._wait_for_fill).         *)
ExecutionTerminates ==
    \A o \in OrderIds : Executing(o) ~> ~Executing(o)

(* Without faults, a fill at the broker ends up in the portfolio, or is    *)
(* turned away there for lack of cash (handle_tick, PortfolioSynchronizer).*)
FillReachesPortfolio ==
    \A o \in OrderIds : broker[o].status = "filled" ~> o \in applied
-----------------------------------------------------------------------------
(***************************************************************************)
(* What the safety properties rest on.  Inductive is preserved by every    *)
(* action on its own; the properties above follow from it.                 *)
(***************************************************************************)

(* Ids are handed out in order, each to one execution and one broker order. *)
IdsInOrder ==
    \A o \in OrderIds :
        /\ exec[o].stage = "none" <=> nextId < o
        /\ nextId < o => broker[o].status = "none"
        /\ o <= nextId => order[o].ref \in Prices
        /\ o \in recorded => exec[o].stage = "done"

(* A request of the API looks only at orders that passed the risk check. *)
RequestsAskSentOrders ==
    \A t \in ApiTasks :
        /\ task[t].op \in {"cancel", "sync", "recover"} => task[t].todo # {}
        /\ \A o \in task[t].todo : o <= nextId /\ order[o].reason # "risk"

RiskRejectedIsDone ==
    \A o \in OrderIds :
        order[o].reason = "risk" =>
            /\ order[o].status = "rejected"
            /\ broker[o].status = "none"
            /\ exec[o].stage = "done"

FilledIsWhole ==
    \A o \in OrderIds :
        /\ broker[o].filled <= broker[o].qty
        /\ broker[o].status \in {"none", "requested"} => broker[o].filled = 0
        /\ broker[o].status # "none" => broker[o].qty > 0
        /\ broker[o].price \in Prices \cup {0}
        /\ broker[o].status = "filled"
               => broker[o].filled = broker[o].qty /\ broker[o].price # 0

(* An answer that says an order has ended stays true while it waits. *)
EndedAnswerIsCurrent ==
    \A o \in OrderIds :
        exec[o].stage = "answered" /\ exec[o].answer.status \in Terminal
            => exec[o].answer \in Reports(broker[o])

AcceptedBeforePolled ==
    \A o \in OrderIds :
        (\/ exec[o].stage = "sleeping"
         \/ exec[o].stage = "answered" /\ (exec[o].call # "submit" \/ exec[o].answer # Error))
            => broker[o].status \in OpenAtBroker \cup Terminal

CancelEndsOrder ==
    \A o \in OrderIds :
        exec[o].stage = "answered" /\ exec[o].call = "cancel" /\ "cancel_ack" \notin Faults
            => exec[o].answer = Error \/ exec[o].answer.status \in Terminal

(* A fill is of at least one lot at a real price. *)
IsTrade(fill) == fill.price \in Prices /\ fill.qty > 0 /\ fill.cost = Fee

FillsAreTrades == \A o \in OrderIds : HasFill(order[o]) => IsTrade(order[o].fill)

(* An execution that ended without booking a fill, and without an error, left *)
(* an order that can no longer be filled. *)
UnbookedIsDead ==
    \A o \in OrderIds :
        exec[o].stage = "done" /\ "cancel_ack" \notin Faults =>
            \/ o \in applied
            \/ o \notin recorded
            \/ order[o].reason \in {"broker", "execution"}
            \/ broker[o].status \in {"none", "refused", "cancelled", "rejected", "expired"}

Consistent ==
    /\ IdsInOrder
    /\ RequestsAskSentOrders
    /\ RiskRejectedIsDone
    /\ FilledIsWhole
    /\ EndedAnswerIsCurrent
    /\ AcceptedBeforePolled
    /\ CancelEndsOrder
    /\ FillsAreTrades
    /\ FillIsReal
    /\ UnbookedIsDead

Inductive == TypeOK /\ Consistent
=============================================================================
