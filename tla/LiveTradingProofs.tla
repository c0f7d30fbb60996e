-------------------------- MODULE LiveTradingProofs -------------------------
(***************************************************************************)
(* Proofs about LiveTrading and its ledger for every number of orders,     *)
(* streams, API requests and symbols, every set of prices and every set of *)
(* faults: first that every action keeps the inductive invariant and what  *)
(* follows from it, then that LiveTrading implements FillLedger, and that  *)
(* positions and books agree with the broker's where no request is under   *)
(* way.                                                                    *)
(***************************************************************************)
EXTENDS LiveLedger, AccountingProofs, FiniteSetTheorems

-----------------------------------------------------------------------------
(***************************************************************************)
(* The operators the actions are built from keep their types.              *)
(***************************************************************************)

LEMMA NoOrderType == NoOrder \in Order
<1>1. (CHOOSE s \in Symbols : TRUE) \in Symbols
  BY SymbolsAssumption
<1>2. QED
  BY <1>1, NewOrderType DEF NoOrder, OrderSide

LEMMA FillOfType ==
    ASSUME NEW ord \in Order, NEW ans \in Answer
    PROVE  FillOf(ord, ans) \in Fill
BY FeeAssumption DEF FillOf, Fill, Order, Answer

LEMMA ApplyBrokerFillType ==
    ASSUME NEW ord \in Order, NEW ans \in Answer
    PROVE  ApplyBrokerFill(ord, ans) \in Order
BY FillOfType, OrderOpsType DEF ApplyBrokerFill, RejectReason

LEMMA ApplyBrokerStateType ==
    ASSUME NEW ord \in Order, NEW ans \in Answer
    PROVE  ApplyBrokerState(ord, ans) \in Order
<1> DEFINE seen == [ord EXCEPT !.known = TRUE]
<1>1. seen \in Order
  BY OrderOpsType
<1> HIDE DEF seen
<1>2. /\ Submit(seen) \in Order
      /\ Cancel(seen) \in Order
      /\ Reject(seen, "broker") \in Order
  BY <1>1, OrderOpsType DEF RejectReason
<1>3. QED
  BY <1>1, <1>2 DEF ApplyBrokerState, seen

LEMMA AnswerType ==
    /\ NoBrokerOrder \in BrokerOrder
    /\ BrokerOrder \subseteq Answer
    /\ Error \in Answer
    /\ NoAnswer \in Answer
    /\ Listed \in Answer
BY DEF NoBrokerOrder, BrokerOrder, BrokerStatus, Answer, Error, NoAnswer, Listed

LEMMA ReportsType ==
    ASSUME NEW b \in BrokerOrder
    PROVE  Reports(b) \subseteq BrokerOrder
BY DEF Reports, BrokerOrder

LEMMA CancelOutcomesType ==
    ASSUME NEW b \in BrokerOrder, NEW outcome \in CancelOutcomes(b)
    PROVE  outcome.now \in BrokerOrder /\ outcome.reply \in Answer
<1> DEFINE dead == [b EXCEPT !.status = "cancelled"]
<1>1. dead \in BrokerOrder
  BY DEF BrokerOrder, BrokerStatus, Terminal
<1> HIDE DEF dead
<1>2. outcome.now \in {b, dead} /\ outcome.reply \in {b, dead, Error}
  BY DEF CancelOutcomes, dead
<1>3. QED
  BY <1>1, <1>2, AnswerType

LEMMA FilledType ==
    ASSUME NEW b \in BrokerOrder, NEW q \in Nat, NEW p \in Nat
    PROVE  Filled(b, q, p) \in BrokerOrder
<1> DEFINE status == IF b.filled + q = b.qty THEN "filled" ELSE "partially_filled"
           filled == b.filled + q
<1>1. status \in BrokerStatus /\ filled \in Nat
  BY DEF BrokerOrder, BrokerStatus, OpenAtBroker, Terminal
<1>2. Filled(b, q, p) = [b EXCEPT !.filled = filled, !.price = p, !.status = status]
  BY DEF Filled
<1> HIDE DEF status, filled
<1>3. QED
  BY <1>1, <1>2 DEF BrokerOrder

LEMMA PositionType ==
    ASSUME NEW pos \in PositionRecord, NEW side \in OrderSide, NEW q \in Nat, NEW held \in Int
    PROVE  /\ ApplyFill(pos, side, q) \in PositionRecord
           /\ Reconciled(pos, held) \in PositionRecord
           /\ NoPosition \in PositionRecord
<1>1. Signed(side, q) \in Int
  BY DEF Signed
<1>2. \A kind \in {"long", "short"}, n \in Int : Tracked(kind, n) \in PositionRecord
  BY DEF Tracked, NoPosition, PositionRecord
<1>3. ApplyFill(pos, side, q) \in PositionRecord
  <2>1. pos.qty + Signed(side, q) \in Int /\ pos.qty - Signed(side, q) \in Int
    BY <1>1 DEF PositionRecord
  <2>2. QED
    BY <1>2, <2>1 DEF ApplyFill
<1>4. Reconciled(pos, held) \in PositionRecord
  BY DEF Reconciled, NoPosition, PositionRecord
<1>5. QED
  BY <1>3, <1>4 DEF NoPosition, PositionRecord

LEMMA ExecutionType ==
    ASSUME NEW stage \in Stage
    PROVE  [NoExecution EXCEPT !.stage = stage] \in Execution
BY AnswerType DEF NoExecution, Execution, Stage

(***************************************************************************)
(* The list a request walks over has a first order.  That a set of natural *)
(* numbers has a least element is taken from the well-foundedness of the   *)
(* strict subset ordering: of the prefixes of the list, one is smallest.   *)
(***************************************************************************)
LEMMA FirstMember ==
    ASSUME NEW todo \in SUBSET OrderIds, todo # {}
    PROVE  First(todo) \in todo
<1> DEFINE Upto(o)  == {p \in todo : p <= o}
           Prefixes == {Upto(o) : o \in todo}
<1>1. IsFiniteSet(OrderIds)
  BY FS_Interval, MaxOrdersAssumption DEF OrderIds
<1>2. \A o \in todo : Upto(o) \in FiniteSubsetsOf(OrderIds)
  <2>1. FiniteSubsetsOf(OrderIds) = SUBSET OrderIds
    BY <1>1, FS_FiniteSubsetsOfFinite
  <2>2. QED
    BY <2>1
<1>3. Prefixes \subseteq FiniteSubsetsOf(OrderIds) /\ Prefixes # {}
  BY <1>2
<1>4. IsWellFoundedOn(StrictSubsetOrdering(OrderIds), FiniteSubsetsOf(OrderIds))
  BY FS_StrictSubsetOrderingWellFounded
<1>5. PICK least \in Prefixes :
          \A prefix \in Prefixes : <<prefix, least>> \notin StrictSubsetOrdering(OrderIds)
  <2> HIDE DEF Prefixes
  <2>1. QED
    BY <1>3, <1>4, WFMin
<1>6. PICK o \in todo : least = Upto(o)
  BY <1>5
<1>7. \A p \in todo : o <= p
  <2>1. SUFFICES ASSUME NEW p \in todo, ~(o <= p)
                 PROVE  FALSE
    OBVIOUS
  <2>2. o \in Int /\ p \in Int
    BY <2>1 DEF OrderIds
  <2>3. p < o
    BY <2>1, <2>2
  <2>4. /\ \A r \in todo : r <= p => r <= o
        /\ o <= o
    BY <2>2, <2>3 DEF OrderIds
  <2>5. <<Upto(p), Upto(o)>> \in StrictSubsetOrdering(OrderIds)
    <3>1. /\ Upto(p) \in SUBSET OrderIds
          /\ Upto(o) \in SUBSET OrderIds
          /\ Upto(p) \subseteq Upto(o)
          /\ o \in Upto(o)
          /\ o \notin Upto(p)
      BY <2>1, <2>4
    <3> HIDE DEF Upto
    <3>2. QED
      BY <3>1 DEF StrictSubsetOrdering
  <2>6. Upto(p) \in Prefixes
    OBVIOUS
  <2>7. QED
    BY <1>5, <1>6, <2>5, <2>6
<1>8. QED
  BY <1>6, <1>7 DEF First

-----------------------------------------------------------------------------
(***************************************************************************)
(* Every action keeps the types.                                           *)
(***************************************************************************)

LEMMA WholeLots ==
    ASSUME NEW cash \in Int, NEW price \in Nat \ {0}, cash >= price
    PROVE  cash \div price \in Nat /\ cash \div price > 0
OBVIOUS

LEMMA SignalToOrderType ==
    ASSUME TypeOK, NEW signal \in OrderSide, NEW s \in Symbols, NEW price \in Prices,
           Signalled(signal, s, price)
    PROVE  /\ SignalToOrder(signal, s, price) \in Order
           /\ SignalToOrder(signal, s, price).qty > 0
<1>1. price \in Nat \ {0}
  BY PricesAssumption
<1>2. portfolio.cash \in Int /\ portfolio.qty \in Nat /\ positions[s].qty \in Int
  BY DEF TypeOK, Ledger, PositionRecord
<1>3. CASE signal = "buy"
  <2>1. portfolio.cash \div price \in Nat /\ portfolio.cash \div price > 0
    BY <1>1, <1>2, <1>3, WholeLots DEF Signalled
  <2>2. SignalToOrder(signal, s, price) = NewOrder("buy", s, portfolio.cash \div price, price)
    BY <1>3 DEF SignalToOrder, EntryOrder
  <2> DEFINE lots == portfolio.cash \div price
  <2>3. lots \in Nat /\ lots > 0 /\ SignalToOrder(signal, s, price) = NewOrder("buy", s, lots, price)
    BY <2>1, <2>2
  <2> HIDE DEF lots
  <2>4. NewOrder("buy", s, lots, price).qty = lots
    BY DEF NewOrder
  <2>5. QED
    BY <1>1, <2>3, <2>4, NewOrderType DEF OrderSide
<1>4. CASE signal = "sell"
  <2>1. PositionQuantity(s) \in Nat /\ PositionQuantity(s) > 0
    BY <1>2, <1>4 DEF Signalled, PositionQuantity
  <2>2. SignalToOrder(signal, s, price) = NewOrder("sell", s, PositionQuantity(s), price)
    BY <1>4 DEF SignalToOrder, ExitOrder
  <2>3. NewOrder("sell", s, PositionQuantity(s), price).qty = PositionQuantity(s)
    BY DEF NewOrder
  <2>4. QED
    BY <1>1, <2>1, <2>2, <2>3, NewOrderType DEF OrderSide
<1>5. QED
  BY <1>3, <1>4 DEF OrderSide

LEMMA HandleTickType ==
    ASSUME TypeOK, NEW signal \in OrderSide, NEW s \in Symbols, NEW price \in Prices,
           HandleTick(signal, s, price)
    PROVE  TypeOK'
<1> DEFINE o   == nextId + 1
           ord == SignalToOrder(signal, s, price)
<1>1. o \in OrderIds
  BY MaxOrdersAssumption DEF HandleTick, TypeOK, OrderIds
<1>2. ord \in Order
  BY SignalToOrderType DEF HandleTick
<1>3. nextId' \in 0..MaxOrders
  BY MaxOrdersAssumption DEF HandleTick, TypeOK
<1>4. order' \in [OrderIds -> Order]
  <2>1. Submit(ord) \in Order /\ Reject(ord, "risk") \in Order
    BY <1>2, OrderOpsType DEF RejectReason
  <2>2. \/ order' = [order EXCEPT ![o] = Submit(ord)]
        \/ order' = [order EXCEPT ![o] = Reject(ord, "risk")]
    BY DEF HandleTick
  <2> HIDE DEF o, ord
  <2>3. QED
    BY <1>1, <2>1, <2>2 DEF TypeOK
<1>5. exec' \in [OrderIds -> Execution]
  <2>1. \/ exec' = [exec EXCEPT ![o].stage = "submitting"]
        \/ exec' = [exec EXCEPT ![o].stage = "done"]
    BY DEF HandleTick
  <2>2. QED
    BY <2>1 DEF TypeOK, Execution, Stage
<1>6. broker' \in [OrderIds -> BrokerOrder]
  <2>1. [NoBrokerOrder EXCEPT !.status = "requested", !.qty = ord.qty] \in BrokerOrder
    BY <1>2 DEF NoBrokerOrder, BrokerOrder, BrokerStatus, Order
  <2>2. \/ broker' = broker
        \/ broker' = [broker EXCEPT ![o] =
                         [NoBrokerOrder EXCEPT !.status = "requested", !.qty = ord.qty]]
    BY DEF HandleTick
  <2>3. QED
    BY <2>1, <2>2 DEF TypeOK
<1>7. recorded' \in SUBSET OrderIds
  BY <1>1 DEF HandleTick, TypeOK
<1>8. QED
  BY <1>3, <1>4, <1>5, <1>6, <1>7 DEF HandleTick, TypeOK

LEMMA SettleType ==
    ASSUME TypeOK, NEW o \in OrderIds, NEW ord \in Order, Settle(o, ord),
           nextId' = nextId, task' = task, broker' = broker, holdings' = holdings
    PROVE  TypeOK'
<1>1. exec' \in [OrderIds -> Execution]
  <2>1. [NoExecution EXCEPT !.stage = "done"] \in Execution
    BY ExecutionType DEF Stage
  <2>2. QED
    BY <2>1 DEF Settle, TypeOK
<1>2. positions' \in [Symbols -> PositionRecord]
  <2>1. /\ ord.symbol \in Symbols
        /\ ord.side \in OrderSide
        /\ ord.fill.qty \in Nat
    BY DEF Order, Fill
  <2>2. ApplyFill(positions[ord.symbol], ord.side, ord.fill.qty) \in PositionRecord
    BY <2>1, PositionType DEF TypeOK
  <2>3. QED
    BY <2>1, <2>2 DEF Settle, TypeOK
<1>3. order' \in [OrderIds -> Order] /\ portfolio' \in Ledger
  <2>1. LedgerAfter(portfolio, ord) \in Ledger /\ OrderAfter(portfolio, ord) \in Order
    BY LedgerAfterType DEF TypeOK
  <2>2. /\ \/ order' = [order EXCEPT ![o] = OrderAfter(portfolio, ord)]
           \/ order' = [order EXCEPT ![o] = ord]
        /\ portfolio' \in {LedgerAfter(portfolio, ord), portfolio}
    BY DEF Settle
  <2>3. QED
    BY <2>1, <2>2 DEF TypeOK
<1>4. applied' \in SUBSET OrderIds /\ recorded' \in SUBSET OrderIds
  BY DEF Settle, TypeOK
<1>5. QED
  BY <1>1, <1>2, <1>3, <1>4 DEF TypeOK

LEMMA ReceiveSubmitAnswerType ==
    ASSUME TypeOK, NEW o \in OrderIds, ReceiveSubmitAnswer(o)
    PROVE  TypeOK'
<1> DEFINE ans == exec[o].answer
           ord == [order[o] EXCEPT !.known = TRUE]
<1>1. ans \in Answer /\ order[o] \in Order /\ ord \in Order
  BY OrderOpsType DEF TypeOK, Execution
<1>2. CASE Settle(o, Reject(order[o], "execution"))
  <2>1. Reject(order[o], "execution") \in Order
    BY <1>1, OrderOpsType DEF RejectReason
  <2>2. QED
    BY <1>2, <2>1, SettleType DEF ReceiveSubmitAnswer, brokerVars
<1>3. CASE Settle(o, ApplyBrokerFill(ord, ans))
  <2>1. ApplyBrokerFill(ord, ans) \in Order
    BY <1>1, ApplyBrokerFillType
  <2>2. QED
    BY <1>3, <2>1, SettleType DEF ReceiveSubmitAnswer, brokerVars
<1>4. CASE /\ order' = [order EXCEPT ![o] = ord]
           /\ exec' = [exec EXCEPT ![o] = [NoExecution EXCEPT !.stage = "sleeping"]]
           /\ UNCHANGED <<positions, bookVars>>
  BY <1>1, <1>4, ExecutionType DEF ReceiveSubmitAnswer, TypeOK, brokerVars, bookVars, Stage
<1>5. QED
  BY <1>2, <1>3, <1>4 DEF ReceiveSubmitAnswer

LEMMA ReceivePollAnswerType ==
    ASSUME TypeOK, NEW o \in OrderIds, ReceivePollAnswer(o)
    PROVE  TypeOK'
<1> DEFINE ans == exec[o].answer
<1>1. ans \in Answer /\ order[o] \in Order
  BY DEF TypeOK, Execution
<1>2. CASE Settle(o, Reject(order[o], "execution"))
  <2>1. Reject(order[o], "execution") \in Order
    BY <1>1, OrderOpsType DEF RejectReason
  <2>2. QED
    BY <1>2, <2>1, SettleType DEF ReceivePollAnswer, brokerVars
<1>3. CASE Settle(o, ApplyBrokerFill(order[o], ans))
  <2>1. ApplyBrokerFill(order[o], ans) \in Order
    BY <1>1, ApplyBrokerFillType
  <2>2. QED
    BY <1>3, <2>1, SettleType DEF ReceivePollAnswer, brokerVars
<1>4. CASE /\ exec' = [exec EXCEPT ![o].stage = "sleeping", ![o].answer = NoAnswer]
           /\ UNCHANGED <<order, positions, bookVars>>
  <2>1. exec[o] \in Execution
    BY DEF TypeOK
  <2>2. exec' = [exec EXCEPT ![o] = [exec[o] EXCEPT !.stage = "sleeping", !.answer = NoAnswer]]
    BY <1>4 DEF TypeOK
  <2>3. [exec[o] EXCEPT !.stage = "sleeping", !.answer = NoAnswer] \in Execution
    BY <2>1, AnswerType DEF Execution, Stage
  <2>4. exec' \in [OrderIds -> Execution]
    BY <2>2, <2>3 DEF TypeOK
  <2>5. QED
    BY <1>4, <2>4 DEF ReceivePollAnswer, TypeOK, brokerVars, bookVars
<1>5. QED
  BY <1>2, <1>3, <1>4 DEF ReceivePollAnswer

LEMMA ReceiveCancelAnswerType ==
    ASSUME TypeOK, NEW o \in OrderIds, ReceiveCancelAnswer(o)
    PROVE  TypeOK'
<1> DEFINE ord == IF exec[o].answer = Error THEN Reject(order[o], "broker")
                  ELSE ApplyBrokerFill(order[o], exec[o].answer)
<1>1. exec[o].answer \in Answer /\ order[o] \in Order
  BY DEF TypeOK, Execution
<1>2. ord \in Order
  BY <1>1, OrderOpsType, ApplyBrokerFillType DEF RejectReason
<1>3. Settle(o, ord) /\ UNCHANGED <<nextId, task, broker, holdings>>
  BY DEF ReceiveCancelAnswer, brokerVars
<1> HIDE DEF ord
<1>4. QED
  BY <1>2, <1>3, SettleType

LEMMA TimerPassesType ==
    ASSUME TypeOK, NEW o \in OrderIds, TimerPasses(o)
    PROVE  TypeOK'
<1>1. exec[o] \in Execution
  BY DEF TypeOK
<1>2. [exec[o] EXCEPT !.late = TRUE] \in Execution
  BY <1>1 DEF Execution
<1>3. exec' = [exec EXCEPT ![o] = [exec[o] EXCEPT !.late = TRUE]]
  BY DEF TimerPasses, TypeOK
<1>4. QED
  BY <1>2, <1>3 DEF TimerPasses, TypeOK, bookVars, brokerVars

LEMMA AnsweredType ==
    ASSUME TypeOK, NEW o \in OrderIds, NEW ans \in Answer, NEW call \in {"submit", "poll", "cancel"}
    PROVE  [exec EXCEPT ![o].stage = "answered", ![o].call = call, ![o].answer = ans]
               \in [OrderIds -> Execution]
<1>1. exec[o] \in Execution
  BY DEF TypeOK
<1>2. [exec[o] EXCEPT !.stage = "answered", !.call = call, !.answer = ans] \in Execution
  BY <1>1 DEF Execution, Stage
<1>3. [exec EXCEPT ![o].stage = "answered", ![o].call = call, ![o].answer = ans]
        = [exec EXCEPT ![o] =
              [exec[o] EXCEPT !.stage = "answered", !.call = call, !.answer = ans]]
  BY DEF TypeOK
<1>4. QED
  BY <1>2, <1>3 DEF TypeOK

LEMMA WakeAndPollType ==
    ASSUME TypeOK, NEW o \in OrderIds, WakeAndPoll(o)
    PROVE  TypeOK'
<1>1. PICK ans \in Reports(broker[o]) \cup IF "poll_error" \in Faults THEN {Error} ELSE {} :
          exec' = [exec EXCEPT ![o].stage = "answered", ![o].call = "poll", ![o].answer = ans]
  BY DEF WakeAndPoll
<1>2. ans \in Answer
  BY ReportsType, AnswerType DEF TypeOK
<1>3. exec' \in [OrderIds -> Execution]
  BY <1>1, <1>2, AnsweredType
<1>4. QED
  BY <1>3 DEF WakeAndPoll, TypeOK, bookVars, brokerVars

LEMMA WakeAndCancelType ==
    ASSUME TypeOK, NEW o \in OrderIds, WakeAndCancel(o)
    PROVE  TypeOK'
<1>1. PICK outcome \in CancelOutcomes(broker[o]) :
          /\ broker' = [broker EXCEPT ![o] = outcome.now]
          /\ exec' = [exec EXCEPT ![o].stage = "answered", ![o].call = "cancel",
                                  ![o].answer = outcome.reply]
  BY DEF WakeAndCancel
<1>2. outcome.now \in BrokerOrder /\ outcome.reply \in Answer
  BY CancelOutcomesType DEF TypeOK
<1>3. exec' \in [OrderIds -> Execution]
  BY <1>1, <1>2, AnsweredType
<1>4. broker' \in [OrderIds -> BrokerOrder]
  BY <1>1, <1>2 DEF TypeOK
<1>5. QED
  BY <1>3, <1>4 DEF WakeAndCancel, TypeOK, bookVars

LEMMA StopRuntimeType ==
    ASSUME TypeOK, StopRuntime
    PROVE  TypeOK'
<1>1. [NoExecution EXCEPT !.stage = "stopped"] \in Execution
  BY ExecutionType DEF Stage
<1>2. exec' \in [OrderIds -> Execution]
  BY <1>1 DEF StopRuntime, TypeOK
<1>3. QED
  BY <1>2 DEF StopRuntime, TypeOK, bookVars, brokerVars

LEMMA DeliverType ==
    ASSUME TypeOK, NEW o \in OrderIds, NEW q \in Nat, Deliver(o, q)
    PROVE  holdings' \in [Symbols -> Int]
<1>1. order[o].symbol \in Symbols /\ Signed(order[o].side, q) \in Int
  BY DEF TypeOK, Order, Signed
<1>2. holdings[order[o].symbol] + Signed(order[o].side, q) \in Int
  BY <1>1 DEF TypeOK
<1>3. QED
  BY <1>2 DEF Deliver, TypeOK

LEMMA AnswerSubmitType ==
    ASSUME TypeOK, NEW o \in OrderIds, NEW ans \in Answer, AnswerSubmit(o, ans)
    PROVE  exec' \in [OrderIds -> Execution]
BY AnsweredType DEF AnswerSubmit, TypeOK

LEMMA BrokerAnswersSubmitType ==
    ASSUME TypeOK, NEW o \in OrderIds, BrokerAnswersSubmit(o)
    PROVE  TypeOK'
<1> DEFINE accepted == [broker[o] EXCEPT !.status = "open"]
           full(p)  == Filled(accepted, accepted.qty, p)
<1>1. accepted \in BrokerOrder /\ accepted.qty \in Nat
  BY DEF TypeOK, BrokerOrder, BrokerStatus, OpenAtBroker
<1>2. \A p \in Prices : full(p) \in BrokerOrder
  BY <1>1, FilledType, PricesAssumption
<1>3. [broker[o] EXCEPT !.status = "refused"] \in BrokerOrder
  BY DEF TypeOK, BrokerOrder, BrokerStatus
<1>4. /\ UNCHANGED <<nextId, order, positions, portfolio, applied, recorded, task>>
      /\ \/ /\ broker' = [broker EXCEPT ![o] = accepted]
            /\ \E ans \in {accepted, Error} : AnswerSubmit(o, ans)
            /\ holdings' = holdings
         \/ \E p \in Prices :
               /\ broker' = [broker EXCEPT ![o] = full(p)]
               /\ AnswerSubmit(o, full(p))
               /\ Deliver(o, accepted.qty)
         \/ /\ broker' = [broker EXCEPT ![o] = [broker[o] EXCEPT !.status = "refused"]]
            /\ AnswerSubmit(o, Error)
            /\ holdings' = holdings
  BY DEF BrokerAnswersSubmit, TypeOK, bookVars
<1> HIDE DEF accepted, full
<1>5. broker' \in [OrderIds -> BrokerOrder]
  BY <1>1, <1>2, <1>3, <1>4 DEF TypeOK
<1>6. exec' \in [OrderIds -> Execution]
  BY <1>1, <1>2, <1>4, AnswerSubmitType, AnswerType
<1>7. holdings' \in [Symbols -> Int]
  BY <1>1, <1>4, DeliverType DEF TypeOK
<1>8. QED
  BY <1>4, <1>5, <1>6, <1>7 DEF TypeOK

LEMMA BrokerFillsType ==
    ASSUME TypeOK, FilledIsWhole, NEW o \in OrderIds, BrokerFills(o)
    PROVE  TypeOK'
<1> DEFINE b == broker[o]
<1>1. /\ b \in BrokerOrder
      /\ b.filled <= b.qty
  BY DEF TypeOK, FilledIsWhole
<1>2. PICK q \in FillSizes(b), p \in FillPrices(b) :
          /\ broker' = [broker EXCEPT ![o] = Filled(b, q, p)]
          /\ Deliver(o, q)
  BY DEF BrokerFills, TypeOK
<1> HIDE DEF b
<1>3. q \in Nat
  BY <1>1 DEF FillSizes, BrokerOrder
<1>4. p \in Nat
  BY <1>1, PricesAssumption DEF FillPrices, BrokerOrder
<1>5. broker' \in [OrderIds -> BrokerOrder]
  BY <1>1, <1>2, <1>3, <1>4, FilledType DEF TypeOK
<1>6. holdings' \in [Symbols -> Int]
  BY <1>2, <1>3, DeliverType
<1>7. QED
  BY <1>5, <1>6 DEF BrokerFills, TypeOK, platformVars, bookVars

LEMMA BrokerEndsType ==
    ASSUME TypeOK, NEW o \in OrderIds, BrokerEnds(o)
    PROVE  TypeOK'
<1>1. PICK end \in {"cancelled", "rejected", "expired"} :
          broker' = [broker EXCEPT ![o] = [broker[o] EXCEPT !.status = end]]
  BY DEF BrokerEnds, TypeOK
<1>2. [broker[o] EXCEPT !.status = end] \in BrokerOrder
  BY DEF TypeOK, BrokerOrder, BrokerStatus, Terminal
<1>3. QED
  BY <1>1, <1>2 DEF BrokerEnds, TypeOK, platformVars, bookVars

-----------------------------------------------------------------------------
(* The requests of the API. *)

LEMMA IdleType == Idle \in Task
BY AnswerType DEF Idle, Task, Flat

LEMMA TaskType ==
    ASSUME NEW todo \in SUBSET OrderIds, NEW ans \in Answer,
           NEW op \in {"cancel", "sync", "recover"}
    PROVE  /\ [Idle EXCEPT !.op = op, !.todo = todo, !.answer = ans] \in Task
           /\ Walk(op, todo) \in Task
<1>1. [Idle EXCEPT !.op = op, !.todo = todo, !.answer = ans] \in Task
  BY IdleType DEF Task
<1>2. /\ [Idle EXCEPT !.op = op, !.todo = todo] \in Task
      /\ [Idle EXCEPT !.op = "positions"] \in Task
  BY IdleType DEF Task
<1>3. Walk(op, todo) \in Task
  BY <1>2, IdleType DEF Walk
<1>4. QED
  BY <1>1, <1>3

LEMMA RequestCancelType ==
    ASSUME TypeOK, NEW t \in ApiTasks, NEW o \in OrderIds, RequestCancel(t, o)
    PROVE  TypeOK'
<1>1. PICK outcome \in CancelOutcomes(broker[o]) \cup {[now |-> broker[o], reply |-> Error]} :
          /\ broker' = [broker EXCEPT ![o] = outcome.now]
          /\ task' = [task EXCEPT ![t] = [Idle EXCEPT !.op = "cancel", !.todo = {o},
                                                      !.answer = outcome.reply]]
  BY DEF RequestCancel
<1>2. outcome.now \in BrokerOrder /\ outcome.reply \in Answer
  BY CancelOutcomesType, AnswerType DEF TypeOK
<1>3. [Idle EXCEPT !.op = "cancel", !.todo = {o}, !.answer = outcome.reply] \in Task
  BY <1>2, TaskType
<1>4. QED
  BY <1>1, <1>2, <1>3 DEF RequestCancel, TypeOK, platformVars, bookVars

LEMMA ReceiveCancelType ==
    ASSUME TypeOK, RequestsAskSentOrders, NEW t \in ApiTasks, ReceiveCancel(t)
    PROVE  TypeOK'
<1> DEFINE o   == First(task[t].todo)
           ord == IF task[t].answer = Error THEN order[o]
                  ELSE ApplyBrokerState(order[o], task[t].answer)
<1>1. task[t] \in Task /\ task[t].answer \in Answer /\ task[t].todo \in SUBSET OrderIds
  BY DEF TypeOK, Task
<1>2. o \in OrderIds
  BY <1>1, FirstMember DEF ReceiveCancel, RequestsAskSentOrders
<1>3. ord \in Order
  BY <1>1, <1>2, ApplyBrokerStateType DEF TypeOK
<1>4. Cancel(ord) \in Order
  BY <1>3, OrderOpsType
<1>5. order' = [order EXCEPT ![o] = Cancel(ord)]
  BY DEF ReceiveCancel, TypeOK
<1> HIDE DEF o, ord
<1>6. order' \in [OrderIds -> Order]
  BY <1>4, <1>5 DEF TypeOK
<1>7. task' \in [ApiTasks -> Task]
  BY IdleType DEF ReceiveCancel, TypeOK
<1>8. QED
  BY <1>6, <1>7 DEF ReceiveCancel, TypeOK, bookVars, brokerVars

LEMMA ModifyOrderType ==
    ASSUME TypeOK, NEW o \in OrderIds, NEW q \in ModQuantities, NEW ref \in Prices,
           ModifyOrder(o, q, ref)
    PROVE  TypeOK'
<1>1. q \in Nat /\ ref \in Nat /\ order[o] \in Order
  BY ModAssumption, PricesAssumption DEF TypeOK
<1>2. [order[o] EXCEPT !.qty = q, !.ref = ref] \in Order
  BY <1>1, OrderOpsType
<1>3. order' = [order EXCEPT ![o] = [order[o] EXCEPT !.qty = q, !.ref = ref]]
  BY DEF ModifyOrder, TypeOK
<1>4. QED
  BY <1>2, <1>3 DEF ModifyOrder, TypeOK, bookVars, brokerVars

LEMMA StartSyncType ==
    ASSUME TypeOK, NEW t \in ApiTasks, NEW op \in {"sync", "recover"}, StartSync(t, op)
    PROVE  TypeOK'
<1> DEFINE todo == Askable({o \in 1..nextId : IsActive(order[o])})
<1>1. todo \in SUBSET OrderIds
  <2>1. 1..nextId \subseteq OrderIds
    BY MaxOrdersAssumption DEF TypeOK, OrderIds
  <2>2. QED
    BY <2>1 DEF Askable
<1> HIDE DEF todo
<1>2. Walk(op, todo) \in Task
  BY <1>1, TaskType, AnswerType
<1>3. QED
  BY <1>2 DEF StartSync, TypeOK, todo, platformVars, bookVars, brokerVars

LEMMA FetchOrderType ==
    ASSUME TypeOK, RequestsAskSentOrders, NEW t \in ApiTasks, FetchOrder(t)
    PROVE  TypeOK'
<1> DEFINE o == First(task[t].todo)
<1>1. task[t] \in Task /\ task[t].todo \in SUBSET OrderIds
  BY DEF TypeOK, Task
<1>2. o \in OrderIds
  BY <1>1, FirstMember DEF FetchOrder, RequestsAskSentOrders
<1>3. PICK ans \in Reports(broker[o]) \cup {Error} :
          task' = [task EXCEPT ![t] = [task[t] EXCEPT !.answer = ans]]
  BY DEF FetchOrder, TypeOK
<1> HIDE DEF o
<1>4. ans \in Answer
  BY <1>2, ReportsType, AnswerType DEF TypeOK
<1>5. [task[t] EXCEPT !.answer = ans] \in Task
  BY <1>1, <1>4 DEF Task
<1>6. QED
  BY <1>3, <1>5 DEF FetchOrder, TypeOK, platformVars, bookVars, brokerVars

LEMMA ReceiveOrderType ==
    ASSUME TypeOK, RequestsAskSentOrders, NEW t \in ApiTasks, ReceiveOrder(t)
    PROVE  TypeOK'
<1> DEFINE o    == First(task[t].todo)
           ord  == IF task[t].answer = Error THEN order[o]
                   ELSE ApplyBrokerState(order[o], task[t].answer)
           rest == Askable(task[t].todo \ {o})
<1>1. /\ task[t].answer \in Answer
      /\ task[t].todo \in SUBSET OrderIds
      /\ task[t].op \in {"sync", "recover"}
  BY DEF TypeOK, Task, ReceiveOrder
<1>2. o \in OrderIds
  BY <1>1, FirstMember DEF ReceiveOrder, RequestsAskSentOrders
<1>3. ord \in Order
  BY <1>1, <1>2, ApplyBrokerStateType DEF TypeOK
<1>4. rest \in SUBSET OrderIds
  BY <1>1 DEF Askable
<1>5. /\ order' = [order EXCEPT ![o] = ord]
      /\ task' = [task EXCEPT ![t] = Walk(task[t].op, rest)]
  BY DEF ReceiveOrder, TypeOK
<1> HIDE DEF o, ord, rest
<1>6. Walk(task[t].op, rest) \in Task
  BY <1>1, <1>4, TaskType, AnswerType
<1>7. order' \in [OrderIds -> Order] /\ task' \in [ApiTasks -> Task]
  BY <1>3, <1>5, <1>6 DEF TypeOK
<1>8. QED
  BY <1>7 DEF ReceiveOrder, TypeOK, bookVars, brokerVars

LEMMA FetchPositionsType ==
    ASSUME TypeOK, NEW t \in ApiTasks, FetchPositions(t)
    PROVE  TypeOK'
<1>1. PICK view \in {holdings, Flat} :
          task' = [task EXCEPT ![t] = [task[t] EXCEPT !.view = view, !.answer = Listed]]
  BY DEF FetchPositions, TypeOK
<1>2. view \in [Symbols -> Int]
  BY DEF TypeOK, Flat
<1>3. task[t] \in Task
  BY DEF TypeOK
<1>4. [task[t] EXCEPT !.view = view, !.answer = Listed] \in Task
  BY <1>2, <1>3, AnswerType DEF Task
<1>5. QED
  BY <1>1, <1>4 DEF FetchPositions, TypeOK, platformVars, bookVars, brokerVars

LEMMA ReceivePositionsType ==
    ASSUME TypeOK, NEW t \in ApiTasks, ReceivePositions(t)
    PROVE  TypeOK'
<1>1. \A s \in Symbols : positions[s] \in PositionRecord /\ task[t].view[s] \in Int
  BY DEF TypeOK, Task
<1>2. \A s \in Symbols : Reconciled(positions[s], task[t].view[s]) \in PositionRecord
  BY <1>1, PositionType DEF OrderSide
<1>3. positions' \in [Symbols -> PositionRecord]
  BY <1>2 DEF ReceivePositions
<1>4. task' \in [ApiTasks -> Task]
  BY IdleType DEF ReceivePositions, TypeOK
<1>5. QED
  BY <1>3, <1>4 DEF ReceivePositions, TypeOK, bookVars, brokerVars

LEMMA TypeStep ==
    ASSUME TypeOK, FilledIsWhole, RequestsAskSentOrders, [Next]_vars
    PROVE  TypeOK'
<1>1. CASE \E signal \in OrderSide, s \in Symbols, price \in Prices :
               HandleTick(signal, s, price)
  BY <1>1, HandleTickType
<1>2. CASE \E o \in OrderIds : ExecutorStep(o)
  BY <1>2, ReceiveSubmitAnswerType, ReceivePollAnswerType, ReceiveCancelAnswerType,
     TimerPassesType, WakeAndPollType, WakeAndCancelType
  DEF ExecutorStep
<1>3. CASE \E o \in OrderIds : BrokerStep(o)
  BY <1>3, BrokerAnswersSubmitType, BrokerFillsType, BrokerEndsType DEF BrokerStep
<1>4. CASE \E t \in ApiTasks : ApiStep(t)
  BY <1>4, RequestCancelType, ReceiveCancelType, StartSyncType, FetchOrderType,
     ReceiveOrderType, FetchPositionsType, ReceivePositionsType
  DEF ApiStep
<1>5. CASE \E o \in OrderIds, q \in ModQuantities, ref \in Prices : ModifyOrder(o, q, ref)
  BY <1>5, ModifyOrderType
<1>6. CASE StopRuntime
  BY <1>6, StopRuntimeType
<1>7. CASE UNCHANGED vars
  BY <1>7 DEF vars, platformVars, bookVars, brokerVars, TypeOK
<1>8. QED
  BY <1>1, <1>2, <1>3, <1>4, <1>5, <1>6, <1>7 DEF Next

-----------------------------------------------------------------------------
(***************************************************************************)
(* The inductive invariant of LiveTrading, and what follows from it.       *)
(***************************************************************************)

-----------------------------------------------------------------------------
(***************************************************************************)
(* The executor's actions.                                                 *)
(***************************************************************************)

LEMMA TimerPassesConsistent ==
    ASSUME Inductive, NEW o \in OrderIds, TimerPasses(o)
    PROVE  Consistent'
<1>1. /\ \A p \in OrderIds : /\ exec'[p].stage = exec[p].stage
                             /\ exec'[p].call = exec[p].call
                             /\ exec'[p].answer = exec[p].answer
      /\ UNCHANGED <<nextId, order, broker, applied, recorded, task>>
  BY DEF TimerPasses, Inductive, TypeOK, Execution, bookVars, brokerVars
<1>2. QED
  BY <1>1
  DEF Inductive, Consistent, IdsInOrder, RequestsAskSentOrders, RiskRejectedIsDone,
      FilledIsWhole, EndedAnswerIsCurrent, AcceptedBeforePolled, CancelEndsOrder,
      FillsAreTrades, FillIsReal, UnbookedIsDead, HasFill

(***************************************************************************)
(* What an execution may leave behind: Real says that a fill on ord is the *)
(* broker's fill of order o, Over that there is none to come.              *)
(***************************************************************************)
Real(ord, o) ==
    HasFill(ord) =>
        /\ IsTrade(ord.fill)
        /\ broker[o].status = "filled"
        /\ ord.fill.qty = broker[o].filled
        /\ "no_average" \notin Faults => ord.fill.price = broker[o].price

Over(ord, o) ==
    \/ IntegratesFill(ord)
    \/ ord.reason \in {"broker", "execution"}
    \/ broker[o].status \in {"none", "refused", "cancelled", "rejected", "expired"}

LEMMA SettleConsistent ==
    ASSUME Inductive, NEW o \in OrderIds, NEW ord \in Order,
           exec[o].stage = "answered",
           Settle(o, ord),
           UNCHANGED <<nextId, task, broker>>,
           ord.ref = order[o].ref,
           ord.reason \in {order[o].reason, "broker", "execution"},
           Real(ord, o),
           "cancel_ack" \notin Faults => Over(ord, o)
    PROVE  Consistent'
<1>1. /\ exec \in [OrderIds -> Execution]
      /\ order \in [OrderIds -> Order]
  BY DEF Inductive, TypeOK
<1>2. /\ \A p \in OrderIds \ {o} : exec'[p] = exec[p] /\ order'[p] = order[p]
      /\ exec'[o].stage = "done"
  BY <1>1 DEF Settle, NoExecution
<1>3. /\ order'[o].ref = order[o].ref
      /\ order'[o].fill = ord.fill
      /\ order'[o].reason \in {order[o].reason, "broker", "execution", "cash"}
      /\ order'[o].reason = ord.reason \/ o \in applied'
  BY <1>1 DEF Settle, OrderAfter, Reject, Order
<1>4. /\ o \notin recorded
      /\ order[o].reason # "risk"
      /\ o <= nextId
      /\ nextId \in Nat
  <2>1. exec[o].stage # "none" /\ exec[o].stage # "done"
    OBVIOUS
  <2>2. o \in Int /\ nextId \in Nat
    BY DEF Inductive, TypeOK, OrderIds
  <2>3. QED
    BY <2>1, <2>2 DEF Inductive, Consistent, IdsInOrder, RiskRejectedIsDone
<1>5. /\ applied \subseteq applied' /\ applied' \subseteq applied \cup {o}
      /\ recorded \subseteq recorded' /\ recorded' \subseteq recorded \cup {o}
      /\ o \in recorded' /\ IntegratesFill(ord) => o \in applied'
  BY <1>4 DEF Settle
<1> USE DEF Inductive, Consistent
<1>6. IdsInOrder'
  BY <1>2, <1>3, <1>4, <1>5 DEF IdsInOrder
<1>7. RequestsAskSentOrders' /\ RiskRejectedIsDone'
  <2>1. \A p \in OrderIds : order'[p].reason = "risk" => order'[p] = order[p] /\ exec'[p] = exec[p]
    BY <1>2, <1>3, <1>4
  <2>2. \A t \in ApiTasks : task[t].todo \subseteq OrderIds
    BY DEF TypeOK, Task
  <2>3. QED
    BY <2>1, <2>2 DEF RequestsAskSentOrders, RiskRejectedIsDone
<1>8. FilledIsWhole' /\ EndedAnswerIsCurrent' /\ AcceptedBeforePolled' /\ CancelEndsOrder'
  BY <1>2 DEF FilledIsWhole, EndedAnswerIsCurrent, AcceptedBeforePolled, CancelEndsOrder
<1>9. FillsAreTrades' /\ FillIsReal'
  BY <1>2, <1>3 DEF FillsAreTrades, FillIsReal, HasFill, Real
<1>10. UnbookedIsDead'
  BY <1>2, <1>3, <1>5 DEF UnbookedIsDead, Over
<1>11. QED
  BY <1>6, <1>7, <1>8, <1>9, <1>10

LEMMA ReportsSame ==
    ASSUME NEW b \in BrokerOrder, NEW ans \in Reports(b)
    PROVE  /\ ans.status = b.status /\ ans.qty = b.qty /\ ans.filled = b.filled
           /\ ans.price = b.price \/ ("no_average" \in Faults /\ ans.price = 0)
BY DEF Reports, BrokerOrder

LEMMA EndedAnswerSettles ==
    ASSUME Inductive, NEW o \in OrderIds, exec[o].stage = "answered",
           NEW old \in Order,
           old.ref = order[o].ref, old.fill = order[o].fill, old.reason = order[o].reason,
           exec[o].answer.status \in Terminal
    PROVE  LET ord == ApplyBrokerFill(old, exec[o].answer) IN
           /\ ord.ref = order[o].ref
           /\ ord.reason \in {order[o].reason, "broker", "execution"}
           /\ Real(ord, o)
           /\ Over(ord, o)
<1> DEFINE ans == exec[o].answer
           ord == ApplyBrokerFill(old, ans)
           b   == broker[o]
<1>1. /\ b \in BrokerOrder
      /\ ans \in Reports(b)
      /\ b.status = "filled" => /\ b.filled = b.qty /\ b.qty > 0
                                /\ b.price \in Prices
      /\ Real(old, o)
  BY DEF Inductive, TypeOK, Consistent, EndedAnswerIsCurrent, FilledIsWhole, FillsAreTrades,
         FillIsReal, HasFill, Real
<1>2. old.ref \in Prices
  <2>1. o \in Int /\ nextId \in Int /\ exec[o].stage # "none"
    BY DEF Inductive, TypeOK, OrderIds
  <2>2. QED
    BY <2>1 DEF Inductive, Consistent, IdsInOrder
<1>3. /\ ans.status = b.status /\ ans.qty = b.qty /\ ans.filled = b.filled
      /\ ans.price = b.price \/ ("no_average" \in Faults /\ ans.price = 0)
  BY <1>1, ReportsSame
<1>4. b.price \in Nat /\ b.filled \in Nat /\ b.qty \in Nat /\ old.ref \in Nat
  BY <1>1 DEF BrokerOrder, Order
<1> HIDE DEF ans, b
<1>5. CASE ans.status = "filled"
  <2> DEFINE fill == FillOf(old, ans)
  <2>1. ord = [old EXCEPT !.fill = fill, !.status = "filled"]
    BY <1>5 DEF ApplyBrokerFill, Complete
  <2>2. /\ fill.qty = b.filled
        /\ IsTrade(fill)
        /\ "no_average" \notin Faults => fill.price = b.price
    BY <1>1, <1>2, <1>3, <1>4, <1>5, PricesAssumption DEF FillOf, IsTrade
  <2> HIDE DEF fill
  <2>3. ord.status = "filled" /\ ord.fill = fill /\ ord.ref = old.ref /\ ord.reason = old.reason
    BY <2>1 DEF Order
  <2> HIDE DEF ord
  <2>4. HasFill(ord)
    BY <2>2, <2>3, PricesAssumption DEF HasFill, NoFill, IsTrade
  <2>5. QED
    BY <1>1, <1>3, <1>5, <2>2, <2>3, <2>4 DEF Real, Over, IntegratesFill, ord, ans, b
<1>6. CASE ans.status = "cancelled"
  <2>1. ord = [old EXCEPT !.status = "cancelled"]
    BY <1>6 DEF ApplyBrokerFill, Cancel
  <2>2. ord.fill = old.fill /\ ord.ref = old.ref /\ ord.reason = old.reason
    BY <2>1 DEF Order
  <2> HIDE DEF ord
  <2>3. QED
    BY <1>1, <1>3, <1>6, <2>2 DEF Real, Over, HasFill, ord, ans, b
<1>7. CASE ans.status \in {"rejected", "expired"}
  <2>1. ord = [old EXCEPT !.status = "rejected", !.reason = "broker"]
    BY <1>7 DEF ApplyBrokerFill, Reject
  <2>2. ord.fill = old.fill /\ ord.ref = old.ref /\ ord.reason = "broker"
    BY <2>1 DEF Order
  <2> HIDE DEF ord
  <2>3. QED
    BY <1>1, <1>3, <1>7, <2>2 DEF Real, Over, HasFill, ord, ans, b
<1>8. QED
  BY <1>5, <1>6, <1>7 DEF Terminal, ans

LEMMA FailedSettles ==
    ASSUME Inductive, NEW o \in OrderIds, NEW reason \in {"broker", "execution"}
    PROVE  LET ord == Reject(order[o], reason) IN
           /\ ord \in Order
           /\ ord.ref = order[o].ref
           /\ ord.reason \in {order[o].reason, "broker", "execution"}
           /\ Real(ord, o)
           /\ Over(ord, o)
<1> DEFINE ord == Reject(order[o], reason)
<1>1. order[o] \in Order
  BY DEF Inductive, TypeOK
<1>2. ord \in Order
  BY <1>1, OrderOpsType DEF RejectReason
<1>3. ord.fill = order[o].fill /\ ord.ref = order[o].ref /\ ord.reason = reason
  BY <1>1 DEF Reject, Order
<1> HIDE DEF ord
<1>4. Real(ord, o)
  BY <1>3 DEF Real, HasFill, Inductive, Consistent, FillIsReal, FillsAreTrades
<1>5. QED
  BY <1>2, <1>3, <1>4 DEF Over, ord

(***************************************************************************)
(* What the broker makes of an order: b may become c.                      *)
(***************************************************************************)
Evolves(b, c) ==
    /\ b.status \in Terminal \cup {"none", "refused"} => c = b
    /\ b.status \in OpenAtBroker \cup Terminal => c.status \in OpenAtBroker \cup Terminal
    /\ b.status # "none" => c.status \notin {"none", "requested"}
    /\ c.filled <= c.qty
    /\ c.qty = b.qty
    /\ c.price \in Prices \cup {0}
    /\ c.status = "filled" => c.filled = c.qty /\ c.price # 0

(* A step of the broker beside the program, or of the API, that leaves the *)
(* executions and what the orders record of their fills alone.             *)
LEMMA BrokerMovesConsistent ==
    ASSUME Inductive, NEW o \in OrderIds,
           UNCHANGED <<nextId, order, exec, applied, recorded>>,
           \A p \in OrderIds \ {o} : broker'[p] = broker[p],
           broker'[o] = broker[o] \/ Evolves(broker[o], broker'[o]),
           RequestsAskSentOrders'
    PROVE  Consistent'
<1> USE DEF Inductive, Consistent
<1>1. \A p \in OrderIds : broker'[p] = broker[p] \/ Evolves(broker[p], broker'[p])
  OBVIOUS
<1>2. \A p \in OrderIds : /\ broker[p].status = "none" => broker'[p] = broker[p]
                          /\ broker[p].status \in Terminal => broker'[p] = broker[p]
                          /\ broker[p].status = "refused" => broker'[p] = broker[p]
                          /\ broker[p].status \in OpenAtBroker \cup Terminal
                                 => broker'[p].status \in OpenAtBroker \cup Terminal
  BY <1>1 DEF Evolves
<1>3. IdsInOrder' /\ RiskRejectedIsDone'
  BY <1>2 DEF IdsInOrder, RiskRejectedIsDone
<1>4. FilledIsWhole'
  BY <1>1 DEF FilledIsWhole, Evolves
<1>5. EndedAnswerIsCurrent'
  <2>1. SUFFICES ASSUME NEW p \in OrderIds,
                        exec[p].stage = "answered", exec[p].answer.status \in Terminal
                 PROVE  exec[p].answer \in Reports(broker'[p])
    BY DEF EndedAnswerIsCurrent
  <2>2. broker[p] \in BrokerOrder /\ exec[p].answer \in Reports(broker[p])
    BY <2>1 DEF TypeOK, EndedAnswerIsCurrent
  <2>3. broker[p].status \in Terminal
    BY <2>1, <2>2, ReportsSame
  <2>4. QED
    BY <1>2, <2>2, <2>3
<1>6. AcceptedBeforePolled' /\ CancelEndsOrder'
  BY <1>2 DEF AcceptedBeforePolled, CancelEndsOrder
<1>7. FillsAreTrades' /\ FillIsReal'
  BY <1>2 DEF FillsAreTrades, FillIsReal, HasFill, Terminal
<1>8. UnbookedIsDead'
  BY <1>2 DEF UnbookedIsDead, Terminal
<1>9. QED
  BY <1>3, <1>4, <1>5, <1>6, <1>7, <1>8

(* A step of an execution that stays under way. *)
LEMMA RunningConsistent ==
    ASSUME Inductive, NEW o \in OrderIds,
           UNCHANGED <<nextId, task, applied, recorded>>,
           Executing(o), Executing(o)',
           \A p \in OrderIds \ {o} : exec'[p] = exec[p] /\ broker'[p] = broker[p],
           \A p \in OrderIds : /\ order'[p].ref = order[p].ref
                               /\ order'[p].fill = order[p].fill
                               /\ order'[p].reason = order[p].reason
                               /\ order'[p].status = order[p].status,
           Evolves(broker[o], broker'[o]),
           exec'[o].stage = "answered" /\ exec'[o].answer.status \in Terminal
               => exec'[o].answer \in Reports(broker'[o]),
           \/ exec'[o].stage = "submitting"
           \/ exec'[o].stage = "answered" /\ exec'[o].call = "submit" /\ exec'[o].answer = Error
           \/ broker'[o].status \in OpenAtBroker \cup Terminal,
           exec'[o].stage = "answered" /\ exec'[o].call = "cancel" /\ "cancel_ack" \notin Faults
               => exec'[o].answer = Error \/ exec'[o].answer.status \in Terminal
    PROVE  Consistent'
<1> USE DEF Inductive, Consistent
<1>1. /\ order[o].reason # "risk"
      /\ o <= nextId
      /\ o \notin recorded
      /\ o \in Int /\ nextId \in Int
  <2>1. o \in Int /\ nextId \in Int
    BY DEF TypeOK, OrderIds
  <2>2. QED
    BY <2>1 DEF RiskRejectedIsDone, IdsInOrder, Executing
<1>2. IdsInOrder' /\ RiskRejectedIsDone'
  BY <1>1 DEF IdsInOrder, RiskRejectedIsDone, Executing
<1>3. RequestsAskSentOrders'
  <2>1. \A t \in ApiTasks : task[t].todo \subseteq OrderIds
    BY DEF TypeOK, Task
  <2>2. QED
    BY <2>1 DEF RequestsAskSentOrders
<1>4. FilledIsWhole'
  BY DEF FilledIsWhole, Evolves
<1>5. EndedAnswerIsCurrent' /\ CancelEndsOrder'
  BY DEF EndedAnswerIsCurrent, CancelEndsOrder
<1>6. AcceptedBeforePolled'
  BY DEF AcceptedBeforePolled
<1>7. FillsAreTrades'
  BY DEF FillsAreTrades, HasFill
<1>8. FillIsReal'
  BY DEF FillIsReal, HasFill, Evolves, Terminal
<1>9. UnbookedIsDead'
  BY DEF UnbookedIsDead, Executing
<1>10. QED
  BY <1>2, <1>3, <1>4, <1>5, <1>6, <1>7, <1>8, <1>9

LEMMA ReceiveSubmitAnswerConsistent ==
    ASSUME Inductive, NEW o \in OrderIds, ReceiveSubmitAnswer(o)
    PROVE  Consistent'
<1> DEFINE ans == exec[o].answer
           old == [order[o] EXCEPT !.known = TRUE]
<1>1. /\ order[o] \in Order
      /\ old \in Order
      /\ ans \in Answer
      /\ exec[o].stage = "answered"
      /\ UNCHANGED <<nextId, task, broker>>
  BY OrderOpsType DEF Inductive, TypeOK, Execution, ReceiveSubmitAnswer, brokerVars
<1>2. old.ref = order[o].ref /\ old.fill = order[o].fill /\ old.reason = order[o].reason
      /\ old.status = order[o].status
  BY <1>1 DEF Order
<1>3. CASE Settle(o, Reject(order[o], "execution"))
  BY <1>1, <1>3, FailedSettles, SettleConsistent
<1>4. CASE ans.status \in Terminal /\ Settle(o, ApplyBrokerFill(old, ans))
  <2> DEFINE ord == ApplyBrokerFill(old, ans)
  <2>1. ord \in Order
    BY <1>1, ApplyBrokerFillType
  <2>2. /\ ord.ref = order[o].ref
        /\ ord.reason \in {order[o].reason, "broker", "execution"}
        /\ Real(ord, o)
        /\ Over(ord, o)
    <3> HIDE DEF old
    <3>1. QED
      BY <1>1, <1>2, <1>4, EndedAnswerSettles
  <2>3. Settle(o, ord)
    BY <1>4
  <2> HIDE DEF ord
  <2>4. QED
    BY <1>1, <2>1, <2>2, <2>3, SettleConsistent
<1>5. CASE /\ ans # Error
           /\ ans.status \notin Terminal
           /\ order' = [order EXCEPT ![o] = old]
           /\ exec' = [exec EXCEPT ![o] = [NoExecution EXCEPT !.stage = "sleeping"]]
           /\ UNCHANGED <<positions, bookVars>>
  <2>1. /\ UNCHANGED <<nextId, task, broker, applied, recorded>>
        /\ exec'[o].stage = "sleeping"
        /\ \A p \in OrderIds \ {o} : exec'[p] = exec[p]
        /\ \A p \in OrderIds : /\ order'[p].ref = order[p].ref
                               /\ order'[p].fill = order[p].fill
                               /\ order'[p].reason = order[p].reason
                               /\ order'[p].status = order[p].status
    <3> HIDE DEF old
    <3>1. QED
      BY <1>1, <1>2, <1>5 DEF Inductive, TypeOK, bookVars, NoExecution
  <2>2. broker[o].status \in OpenAtBroker \cup Terminal
    BY <1>1, <1>5 DEF Inductive, Consistent, AcceptedBeforePolled
  <2>3. Evolves(broker[o], broker[o])
    BY <2>2 DEF Evolves, OpenAtBroker, Terminal, Inductive, Consistent, FilledIsWhole
  <2> HIDE DEF ans, old
  <2>4. QED
    BY <1>1, <2>1, <2>2, <2>3, RunningConsistent DEF Executing
<1>6. QED
  BY <1>3, <1>4, <1>5 DEF ReceiveSubmitAnswer

LEMMA PolledStandsStill ==
    ASSUME Inductive, NEW o \in OrderIds,
           \/ exec[o].stage = "sleeping"
           \/ exec[o].stage = "answered" /\ exec[o].call # "submit"
    PROVE  /\ broker[o].status \in OpenAtBroker \cup Terminal
           /\ Evolves(broker[o], broker[o])
<1>1. broker[o].status \in OpenAtBroker \cup Terminal
  BY DEF Inductive, Consistent, AcceptedBeforePolled
<1>2. QED
  BY <1>1 DEF Evolves, OpenAtBroker, Terminal, Inductive, Consistent, FilledIsWhole

LEMMA ReceivePollAnswerConsistent ==
    ASSUME Inductive, NEW o \in OrderIds, ReceivePollAnswer(o)
    PROVE  Consistent'
<1> DEFINE ans == exec[o].answer
           ord == ApplyBrokerFill(order[o], ans)
<1>1. /\ order[o] \in Order
      /\ ans \in Answer
      /\ exec[o].stage = "answered"
      /\ exec[o].call = "poll"
      /\ UNCHANGED <<nextId, task, broker>>
  BY DEF Inductive, TypeOK, Execution, ReceivePollAnswer, brokerVars
<1>2. CASE Settle(o, Reject(order[o], "execution"))
  BY <1>1, <1>2, FailedSettles, SettleConsistent
<1>3. CASE ans.status \in Terminal /\ Settle(o, ord)
  <2>1. ord \in Order
    BY <1>1, ApplyBrokerFillType
  <2>2. /\ ord.ref = order[o].ref
        /\ ord.reason \in {order[o].reason, "broker", "execution"}
        /\ Real(ord, o)
        /\ Over(ord, o)
    BY <1>1, <1>3, EndedAnswerSettles
  <2> HIDE DEF ord
  <2>3. QED
    BY <1>1, <1>3, <2>1, <2>2, SettleConsistent
<1>4. CASE /\ exec' = [exec EXCEPT ![o].stage = "sleeping", ![o].answer = NoAnswer]
           /\ UNCHANGED <<order, positions, bookVars>>
  <2>1. /\ UNCHANGED <<nextId, task, broker, applied, recorded, order>>
        /\ exec'[o].stage = "sleeping"
        /\ \A p \in OrderIds \ {o} : exec'[p] = exec[p]
    BY <1>1, <1>4 DEF Inductive, TypeOK, bookVars, Execution
  <2>2. /\ broker[o].status \in OpenAtBroker \cup Terminal
        /\ Evolves(broker[o], broker[o])
    BY <1>1, PolledStandsStill
  <2>3. QED
    BY <1>1, <2>1, <2>2, RunningConsistent DEF Executing
<1>5. QED
  BY <1>2, <1>3, <1>4 DEF ReceivePollAnswer

(***************************************************************************)
(* The cancel of a timed-out execution may answer before the order ended,  *)
(* when the broker does so; then the order is left as it is.               *)
(***************************************************************************)
LEMMA ReceiveCancelAnswerConsistent ==
    ASSUME Inductive, NEW o \in OrderIds, ReceiveCancelAnswer(o)
    PROVE  Consistent'
<1> DEFINE ans == exec[o].answer
           ord == ApplyBrokerFill(order[o], ans)
<1>1. /\ order[o] \in Order
      /\ ans \in Answer
      /\ exec[o].stage = "answered"
      /\ exec[o].call = "cancel"
      /\ UNCHANGED <<nextId, task, broker>>
      /\ Settle(o, IF ans = Error THEN Reject(order[o], "broker") ELSE ord)
  BY DEF Inductive, TypeOK, Execution, ReceiveCancelAnswer, brokerVars
<1>2. CASE ans = Error
  BY <1>1, <1>2, FailedSettles, SettleConsistent
<1>3. CASE ans # Error /\ ans.status \in Terminal
  <2>1. ord \in Order
    BY <1>1, ApplyBrokerFillType
  <2>2. /\ ord.ref = order[o].ref
        /\ ord.reason \in {order[o].reason, "broker", "execution"}
        /\ Real(ord, o)
        /\ Over(ord, o)
    BY <1>1, <1>3, EndedAnswerSettles
  <2> HIDE DEF ord
  <2>3. QED
    BY <1>1, <1>3, <2>1, <2>2, SettleConsistent
<1>4. CASE ans # Error /\ ans.status \notin Terminal
  <2>1. ord = order[o]
    BY <1>4 DEF ApplyBrokerFill, Terminal
  <2>2. Real(order[o], o)
    BY DEF Inductive, Consistent, FillIsReal, FillsAreTrades, Real, HasFill
  <2>3. "cancel_ack" \in Faults
    BY <1>1, <1>4 DEF Inductive, Consistent, CancelEndsOrder
  <2>4. QED
    BY <1>1, <1>4, <2>1, <2>2, <2>3, SettleConsistent
<1>5. QED
  BY <1>2, <1>3, <1>4

LEMMA WakeAndPollConsistent ==
    ASSUME Inductive, NEW o \in OrderIds, WakeAndPoll(o)
    PROVE  Consistent'
<1>1. PICK ans \in Reports(broker[o]) \cup IF "poll_error" \in Faults THEN {Error} ELSE {} :
          exec' = [exec EXCEPT ![o].stage = "answered", ![o].call = "poll", ![o].answer = ans]
  BY DEF WakeAndPoll
<1>2. /\ exec'[o].stage = "answered"
      /\ exec'[o].call = "poll"
      /\ exec'[o].answer = ans
      /\ \A p \in OrderIds \ {o} : exec'[p] = exec[p]
      /\ UNCHANGED <<nextId, order, task, broker, applied, recorded>>
      /\ exec[o].stage = "sleeping"
  BY <1>1 DEF Inductive, TypeOK, Execution, WakeAndPoll, bookVars, brokerVars
<1>3. /\ broker[o].status \in OpenAtBroker \cup Terminal
      /\ Evolves(broker[o], broker[o])
  BY <1>2, PolledStandsStill
<1>4. ans.status \in Terminal => ans \in Reports(broker[o])
  BY <1>1 DEF Terminal, Error
<1>5. QED
  BY <1>2, <1>3, <1>4, RunningConsistent DEF Executing

LEMMA CancelOutcomesEvolve ==
    ASSUME NEW b \in BrokerOrder, NEW outcome \in CancelOutcomes(b),
           b.filled <= b.qty, b.price \in Prices \cup {0}
    PROVE  /\ b.status \notin OpenAtBroker => outcome.now = b
           /\ b.status \in OpenAtBroker => Evolves(b, outcome.now)
           /\ outcome.reply \in {Error, outcome.now}
           /\ "cancel_ack" \notin Faults /\ b.status \in OpenAtBroker
                  => outcome.reply = Error \/ outcome.reply.status = "cancelled"
<1> DEFINE dead == [b EXCEPT !.status = "cancelled"]
<1>1. /\ dead.status = "cancelled"
      /\ dead.filled = b.filled
      /\ dead.qty = b.qty
      /\ dead.price = b.price
  BY DEF BrokerOrder
<1>2. b.status \in OpenAtBroker => Evolves(b, dead) /\ Evolves(b, b)
  BY <1>1 DEF Evolves, OpenAtBroker, Terminal
<1> HIDE DEF dead
<1>3. b.status \in OpenAtBroker =>
          \/ outcome = [now |-> dead, reply |-> dead]
          \/ outcome = [now |-> b, reply |-> Error]
          \/ outcome = [now |-> dead, reply |-> Error]
          \/ "cancel_ack" \in Faults /\ outcome = [now |-> b, reply |-> b]
  BY DEF CancelOutcomes, dead
<1>4. b.status \notin OpenAtBroker =>
          \/ outcome = [now |-> b, reply |-> Error]
          \/ outcome = [now |-> b, reply |-> b]
  BY DEF CancelOutcomes
<1>5. QED
  BY <1>1, <1>2, <1>3, <1>4

LEMMA WakeAndCancelConsistent ==
    ASSUME Inductive, NEW o \in OrderIds, WakeAndCancel(o)
    PROVE  Consistent'
<1> DEFINE b == broker[o]
<1>1. PICK outcome \in CancelOutcomes(b) :
          /\ broker' = [broker EXCEPT ![o] = outcome.now]
          /\ exec' = [exec EXCEPT ![o].stage = "answered", ![o].call = "cancel",
                                  ![o].answer = outcome.reply]
  BY DEF WakeAndCancel
<1>2. /\ exec'[o].stage = "answered"
      /\ exec'[o].call = "cancel"
      /\ exec'[o].answer = outcome.reply
      /\ broker'[o] = outcome.now
      /\ \A p \in OrderIds \ {o} : exec'[p] = exec[p] /\ broker'[p] = broker[p]
      /\ UNCHANGED <<nextId, order, task, applied, recorded>>
      /\ exec[o].stage = "sleeping"
  BY <1>1 DEF Inductive, TypeOK, Execution, WakeAndCancel, bookVars
<1>3. b \in BrokerOrder /\ b.filled <= b.qty /\ b.price \in Prices \cup {0}
  BY DEF Inductive, TypeOK, Consistent, FilledIsWhole
<1>4. b.status \in OpenAtBroker \cup Terminal /\ Evolves(b, b)
  BY <1>2, PolledStandsStill
<1> HIDE DEF b
<1>5. Evolves(b, outcome.now) /\ outcome.now.status \in OpenAtBroker \cup Terminal
  <2>1. Evolves(b, outcome.now)
    BY <1>3, <1>4, CancelOutcomesEvolve
  <2>2. QED
    BY <1>4, <2>1 DEF Evolves
<1>6. /\ outcome.reply.status \in Terminal => outcome.reply \in Reports(outcome.now)
      /\ "cancel_ack" \notin Faults => outcome.reply = Error \/ outcome.reply.status \in Terminal
  <2>1. /\ outcome.reply \in {Error, outcome.now}
        /\ b.status \notin OpenAtBroker => outcome.now = b
        /\ "cancel_ack" \notin Faults /\ b.status \in OpenAtBroker
               => outcome.reply = Error \/ outcome.reply.status = "cancelled"
    BY <1>3, CancelOutcomesEvolve
  <2>2. Error.status \notin Terminal
    BY DEF Error, Terminal
  <2>3. outcome.now \in Reports(outcome.now)
    BY DEF Reports
  <2>4. QED
    BY <1>4, <2>1, <2>2, <2>3 DEF Terminal
<1>7. QED
  BY <1>2, <1>5, <1>6, RunningConsistent DEF Executing, b

LEMMA StopRuntimeConsistent ==
    ASSUME Inductive, StopRuntime
    PROVE  Consistent'
<1>1. /\ \A o \in OrderIds : IF Executing(o) THEN exec'[o].stage = "stopped"
                                             ELSE exec'[o] = exec[o]
      /\ UNCHANGED <<nextId, order, task, broker, applied, recorded>>
  BY DEF StopRuntime, NoExecution, bookVars, brokerVars
<1> USE DEF Inductive, Consistent
<1>2. IdsInOrder' /\ RequestsAskSentOrders' /\ RiskRejectedIsDone'
  BY <1>1 DEF IdsInOrder, RequestsAskSentOrders, RiskRejectedIsDone, Executing
<1>3. FilledIsWhole' /\ EndedAnswerIsCurrent' /\ AcceptedBeforePolled' /\ CancelEndsOrder'
  BY <1>1 DEF FilledIsWhole, EndedAnswerIsCurrent, AcceptedBeforePolled, CancelEndsOrder
<1>4. FillsAreTrades' /\ FillIsReal' /\ UnbookedIsDead'
  BY <1>1 DEF FillsAreTrades, FillIsReal, HasFill, UnbookedIsDead
<1>5. QED
  BY <1>2, <1>3, <1>4

-----------------------------------------------------------------------------
(***************************************************************************)
(* A tick.                                                                 *)
(***************************************************************************)
LEMMA HandleTickConsistent ==
    ASSUME Inductive, NEW signal \in OrderSide, NEW s \in Symbols, NEW price \in Prices,
           HandleTick(signal, s, price)
    PROVE  Consistent'
<1> DEFINE o   == nextId + 1
           ord == SignalToOrder(signal, s, price)
           sent == [NoBrokerOrder EXCEPT !.status = "requested", !.qty = ord.qty]
<1> USE DEF Inductive, Consistent
<1>1. /\ nextId \in Nat
      /\ o \in OrderIds
      /\ \A p \in OrderIds : p \in Int
      /\ price \in Nat \ {0}
  BY MaxOrdersAssumption, PricesAssumption DEF HandleTick, TypeOK, OrderIds
<1>2. /\ ord.ref = price /\ ord.fill = NoFill /\ ord.reason = "none"
      /\ Submit(ord).ref = price /\ Submit(ord).fill = NoFill /\ Submit(ord).reason = "none"
      /\ Reject(ord, "risk").ref = price /\ Reject(ord, "risk").fill = NoFill
      /\ Reject(ord, "risk").reason = "risk" /\ Reject(ord, "risk").status = "rejected"
  BY DEF SignalToOrder, EntryOrder, ExitOrder, NewOrder, Submit, Reject
<1>3. ord.qty \in Nat /\ ord.qty > 0
  BY SignalToOrderType DEF HandleTick, Order
<1>4. /\ exec[o].stage = "none"
      /\ broker[o].status = "none"
      /\ o \notin recorded
  BY <1>1 DEF IdsInOrder
<1>5. /\ nextId' = o
      /\ UNCHANGED <<applied, task>>
      /\ \A p \in OrderIds \ {o} : /\ order'[p] = order[p]
                                   /\ exec'[p] = exec[p]
                                   /\ broker'[p] = broker[p]
  BY <1>1 DEF HandleTick, TypeOK
<1>6. CASE /\ order' = [order EXCEPT ![o] = Submit(ord)]
           /\ exec' = [exec EXCEPT ![o].stage = "submitting"]
           /\ broker' = [broker EXCEPT ![o] = sent]
           /\ UNCHANGED recorded
  <2>1. /\ exec'[o].stage = "submitting"
        /\ broker'[o].status = "requested"
        /\ broker'[o].filled = 0
        /\ broker'[o].qty \in Nat /\ broker'[o].qty > 0
        /\ broker'[o].price = 0
        /\ order'[o].ref \in Prices
        /\ order'[o].fill = NoFill
        /\ order'[o].reason = "none"
    <3> HIDE DEF ord
    <3>1. QED
      BY <1>1, <1>2, <1>3, <1>6 DEF TypeOK, Execution, NoBrokerOrder
  <2>2. IdsInOrder'
    BY <1>1, <1>4, <1>5, <1>6, <2>1 DEF IdsInOrder
  <2>3. RequestsAskSentOrders' /\ RiskRejectedIsDone'
    <3>1. \A t \in ApiTasks : task[t].todo \subseteq OrderIds
      BY DEF TypeOK, Task
    <3>2. QED
      BY <1>1, <1>5, <2>1, <3>1 DEF RequestsAskSentOrders, RiskRejectedIsDone
  <2>4. FilledIsWhole' /\ EndedAnswerIsCurrent' /\ AcceptedBeforePolled' /\ CancelEndsOrder'
    BY <1>5, <2>1 DEF FilledIsWhole, EndedAnswerIsCurrent, AcceptedBeforePolled, CancelEndsOrder
  <2>5. FillsAreTrades' /\ FillIsReal' /\ UnbookedIsDead'
    BY <1>5, <1>6, <2>1 DEF FillsAreTrades, FillIsReal, HasFill, NoFill, UnbookedIsDead
  <2>6. QED
    BY <2>2, <2>3, <2>4, <2>5
<1>7. CASE /\ order' = [order EXCEPT ![o] = Reject(ord, "risk")]
           /\ exec' = [exec EXCEPT ![o].stage = "done"]
           /\ UNCHANGED broker
  <2>1. /\ exec'[o].stage = "done"
        /\ broker'[o] = broker[o]
        /\ order'[o].ref \in Prices
        /\ order'[o].fill = NoFill
        /\ order'[o].reason = "risk"
        /\ order'[o].status = "rejected"
        /\ recorded \subseteq recorded' /\ recorded' \subseteq recorded \cup {o}
    <3>1. recorded \subseteq recorded' /\ recorded' \subseteq recorded \cup {o}
      BY DEF HandleTick
    <3> HIDE DEF ord
    <3>2. QED
      BY <1>1, <1>2, <1>7, <3>1 DEF TypeOK, Execution
  <2>2. IdsInOrder'
    BY <1>1, <1>4, <1>5, <2>1 DEF IdsInOrder
  <2>3. RequestsAskSentOrders' /\ RiskRejectedIsDone'
    <3>1. \A t \in ApiTasks : task[t].todo \subseteq OrderIds
      BY DEF TypeOK, Task
    <3>2. QED
      BY <1>1, <1>4, <1>5, <2>1, <3>1 DEF RequestsAskSentOrders, RiskRejectedIsDone
  <2>4. FilledIsWhole' /\ EndedAnswerIsCurrent' /\ AcceptedBeforePolled' /\ CancelEndsOrder'
    BY <1>5, <2>1 DEF FilledIsWhole, EndedAnswerIsCurrent, AcceptedBeforePolled, CancelEndsOrder
  <2>5. FillsAreTrades' /\ FillIsReal' /\ UnbookedIsDead'
    BY <1>4, <1>5, <2>1 DEF FillsAreTrades, FillIsReal, HasFill, NoFill, UnbookedIsDead
  <2>6. QED
    BY <2>2, <2>3, <2>4, <2>5
<1>8. QED
  BY <1>6, <1>7 DEF HandleTick

-----------------------------------------------------------------------------
(***************************************************************************)
(* The broker.                                                             *)
(***************************************************************************)
LEMMA RequestsKept ==
    ASSUME Inductive, UNCHANGED <<nextId, order, task>>
    PROVE  RequestsAskSentOrders'
BY DEF Inductive, Consistent, RequestsAskSentOrders

LEMMA BrokerAnswersSubmitConsistent ==
    ASSUME Inductive, NEW o \in OrderIds, BrokerAnswersSubmit(o)
    PROVE  Consistent'
<1> DEFINE b        == broker[o]
           accepted == [b EXCEPT !.status = "open"]
           full(p)  == Filled(accepted, accepted.qty, p)
           refused  == [b EXCEPT !.status = "refused"]
<1>1. /\ b \in BrokerOrder
      /\ b.status = "requested"
      /\ b.filled = 0
      /\ b.qty \in Nat
      /\ b.price \in Prices \cup {0}
      /\ UNCHANGED <<nextId, order, task, applied, recorded>>
  BY DEF Inductive, TypeOK, Consistent, FilledIsWhole, BrokerAnswersSubmit, bookVars, BrokerOrder
<1>2. /\ accepted.status = "open" /\ accepted.filled = 0 /\ accepted.qty = b.qty
      /\ accepted.price = b.price /\ refused.price = b.price
      /\ refused.status = "refused" /\ refused.filled = 0 /\ refused.qty = b.qty
  BY <1>1 DEF BrokerOrder
<1>3. \A p \in Prices : /\ full(p).status = "filled"
                        /\ full(p).filled = b.qty
                        /\ full(p).qty = b.qty
                        /\ full(p).price = p /\ p # 0
  BY <1>1, PricesAssumption DEF Filled, BrokerOrder
<1>4. \E c, ans :
         /\ broker' = [broker EXCEPT ![o] = c]
         /\ AnswerSubmit(o, ans)
         /\ \/ c = accepted /\ ans \in {accepted, Error}
            \/ \E p \in Prices : c = full(p) /\ ans = full(p)
            \/ c = refused /\ ans = Error
  <2>1. \/ /\ broker' = [broker EXCEPT ![o] = accepted]
           /\ \E ans \in {accepted, Error} : AnswerSubmit(o, ans)
        \/ \E p \in Prices : /\ broker' = [broker EXCEPT ![o] = full(p)]
                             /\ AnswerSubmit(o, full(p))
        \/ /\ broker' = [broker EXCEPT ![o] = refused]
           /\ AnswerSubmit(o, Error)
    BY DEF BrokerAnswersSubmit, Inductive, TypeOK
  <2> HIDE DEF accepted, full, refused
  <2>2. QED
    BY <2>1
<1>5. PICK c, ans :
         /\ broker' = [broker EXCEPT ![o] = c]
         /\ AnswerSubmit(o, ans)
         /\ \/ c = accepted /\ ans \in {accepted, Error}
            \/ \E p \in Prices : c = full(p) /\ ans = full(p)
            \/ c = refused /\ ans = Error
  BY <1>4
<1> HIDE DEF accepted, full, refused, b
<1>6. /\ broker'[o] = c
      /\ \A p \in OrderIds \ {o} : broker'[p] = broker[p]
  BY <1>5 DEF Inductive, TypeOK
<1>7. Evolves(b, c)
  BY <1>1, <1>2, <1>3, <1>5 DEF Evolves, OpenAtBroker, Terminal
<1>8. /\ ans.status \in Terminal => ans \in Reports(c)
      /\ ans = Error \/ c.status \in OpenAtBroker \cup Terminal
  BY <1>2, <1>3, <1>5 DEF Reports, Error, OpenAtBroker, Terminal
<1>9. CASE exec[o].stage = "submitting"
  <2>1. /\ exec'[o].stage = "answered"
        /\ exec'[o].call = "submit"
        /\ exec'[o].answer = ans
        /\ \A p \in OrderIds \ {o} : exec'[p] = exec[p]
    BY <1>5, <1>9 DEF AnswerSubmit, Inductive, TypeOK, Execution
  <2>2. QED
    BY <1>1, <1>6, <1>7, <1>8, <1>9, <2>1, RunningConsistent DEF Executing, b
<1>10. CASE exec[o].stage # "submitting"
  <2>1. exec' = exec
    BY <1>5, <1>10 DEF AnswerSubmit
  <2>2. QED
    BY <1>1, <1>6, <1>7, <2>1, RequestsKept, BrokerMovesConsistent DEF b
<1>11. QED
  BY <1>9, <1>10

LEMMA BrokerFillsConsistent ==
    ASSUME Inductive, NEW o \in OrderIds, BrokerFills(o)
    PROVE  Consistent'
<1> DEFINE b == broker[o]
<1>1. /\ b \in BrokerOrder
      /\ b.status \in OpenAtBroker
      /\ b.filled <= b.qty
      /\ b.price \in Prices \cup {0}
      /\ UNCHANGED <<nextId, order, exec, task, applied, recorded>>
  BY DEF Inductive, TypeOK, Consistent, FilledIsWhole, BrokerFills, bookVars, platformVars
<1>2. PICK q \in FillSizes(b), p \in FillPrices(b) :
          broker' = [broker EXCEPT ![o] = Filled(b, q, p)]
  BY DEF BrokerFills, Inductive, TypeOK
<1>3. /\ broker'[o] = Filled(b, q, p)
      /\ \A r \in OrderIds \ {o} : broker'[r] = broker[r]
  BY <1>2 DEF Inductive, TypeOK
<1> HIDE DEF b
<1>4. /\ q \in Nat /\ q <= b.qty - b.filled
      /\ p \in Prices /\ p # 0
  <2>1. b.qty \in Nat /\ b.filled \in Nat /\ b.price \in Nat
    BY <1>1 DEF BrokerOrder
  <2>2. q \in Nat /\ q <= b.qty - b.filled
    BY <1>1, <2>1 DEF FillSizes
  <2>3. p \in Prices
    BY <1>1, <2>1 DEF FillPrices
  <2>4. QED
    BY <2>2, <2>3, PricesAssumption
<1>5. Evolves(b, Filled(b, q, p))
  <2>1. /\ b.filled \in Nat /\ b.qty \in Nat
        /\ Filled(b, q, p).filled = b.filled + q
        /\ Filled(b, q, p).qty = b.qty
        /\ Filled(b, q, p).price = p
        /\ Filled(b, q, p).status = IF b.filled + q = b.qty THEN "filled" ELSE "partially_filled"
    BY <1>1 DEF Filled, BrokerOrder
  <2>2. /\ b.filled + q <= b.qty
        /\ b.status \notin Terminal \cup {"none", "refused"}
        /\ Filled(b, q, p).status \in {"filled", "partially_filled"}
        /\ Filled(b, q, p).status = "filled" => b.filled + q = b.qty
    BY <1>1, <1>4, <2>1 DEF OpenAtBroker, Terminal
  <2> HIDE DEF Filled
  <2>3. QED
    BY <1>4, <2>1, <2>2 DEF Evolves, OpenAtBroker, Terminal
<1>6. QED
  BY <1>1, <1>3, <1>5, RequestsKept, BrokerMovesConsistent DEF b

LEMMA BrokerEndsConsistent ==
    ASSUME Inductive, NEW o \in OrderIds, BrokerEnds(o)
    PROVE  Consistent'
<1> DEFINE b == broker[o]
<1>1. /\ b \in BrokerOrder
      /\ b.status \in OpenAtBroker
      /\ b.filled <= b.qty
      /\ b.price \in Prices \cup {0}
      /\ UNCHANGED <<nextId, order, exec, task, applied, recorded>>
  BY DEF Inductive, TypeOK, Consistent, FilledIsWhole, BrokerEnds, bookVars, platformVars
<1>2. PICK end \in {"cancelled", "rejected", "expired"} :
          broker' = [broker EXCEPT ![o] = [b EXCEPT !.status = end]]
  BY DEF BrokerEnds, Inductive, TypeOK
<1>3. /\ broker'[o] = [b EXCEPT !.status = end]
      /\ \A r \in OrderIds \ {o} : broker'[r] = broker[r]
  BY <1>2 DEF Inductive, TypeOK
<1>4. Evolves(b, [b EXCEPT !.status = end])
  BY <1>1 DEF Evolves, OpenAtBroker, Terminal, BrokerOrder
<1>5. QED
  BY <1>1, <1>3, <1>4, RequestsKept, BrokerMovesConsistent

-----------------------------------------------------------------------------
(***************************************************************************)
(* The API.                                                                *)
(***************************************************************************)
LEMMA OrderTouchedConsistent ==
    ASSUME Inductive, NEW o \in OrderIds, order[o].reason # "risk",
           UNCHANGED <<nextId, exec, broker, applied, recorded>>,
           \A p \in OrderIds \ {o} : order'[p] = order[p],
           order'[o].fill = order[o].fill,
           order'[o].ref \in Prices \/ order'[o].ref = order[o].ref,
           order'[o].reason \in {order[o].reason, "broker"},
           RequestsAskSentOrders'
    PROVE  Consistent'
<1> USE DEF Inductive, Consistent
<1>1. IdsInOrder' /\ RiskRejectedIsDone'
  BY DEF IdsInOrder, RiskRejectedIsDone
<1>2. FilledIsWhole' /\ EndedAnswerIsCurrent' /\ AcceptedBeforePolled' /\ CancelEndsOrder'
  BY DEF FilledIsWhole, EndedAnswerIsCurrent, AcceptedBeforePolled, CancelEndsOrder
<1>3. FillsAreTrades' /\ FillIsReal' /\ UnbookedIsDead'
  BY DEF FillsAreTrades, FillIsReal, HasFill, UnbookedIsDead
<1>4. QED
  BY <1>1, <1>2, <1>3

LEMMA ApplyBrokerStateKeeps ==
    ASSUME NEW ord \in Order, NEW ans \in Answer
    PROVE  LET new == ApplyBrokerState(ord, ans) IN
           /\ new.fill = ord.fill /\ Cancel(new).fill = ord.fill
           /\ new.ref = ord.ref /\ Cancel(new).ref = ord.ref
           /\ new.reason \in {ord.reason, "broker"}
           /\ Cancel(new).reason \in {ord.reason, "broker"}
<1> DEFINE seen == [ord EXCEPT !.known = TRUE]
           new  == ApplyBrokerState(ord, ans)
<1>1. seen.fill = ord.fill /\ seen.ref = ord.ref /\ seen.reason = ord.reason /\ seen \in Order
  BY OrderOpsType DEF Order
<1>2. new \in {seen, Submit(seen), Cancel(seen), Reject(seen, "broker")}
  BY DEF ApplyBrokerState
<1> HIDE DEF seen
<1>3. \A r \in {seen, Submit(seen), Cancel(seen), Reject(seen, "broker")} :
         /\ r \in Order
         /\ r.fill = ord.fill
         /\ r.ref = ord.ref
         /\ r.reason \in {ord.reason, "broker"}
  <2>1. /\ Submit(seen) \in Order /\ Cancel(seen) \in Order /\ Reject(seen, "broker") \in Order
    BY <1>1, OrderOpsType DEF RejectReason
  <2>2. QED
    BY <1>1, <2>1 DEF Submit, Cancel, Reject, Order
<1> HIDE DEF new
<1>4. /\ Cancel(new).fill = new.fill
      /\ Cancel(new).ref = new.ref
      /\ Cancel(new).reason = new.reason
  BY <1>2, <1>3 DEF Cancel, Order
<1>5. QED
  BY <1>2, <1>3, <1>4 DEF new

LEMMA RequestCancelConsistent ==
    ASSUME Inductive, NEW t \in ApiTasks, NEW o \in OrderIds, RequestCancel(t, o)
    PROVE  Consistent'
<1> DEFINE b == broker[o]
<1>1. PICK outcome \in CancelOutcomes(b) \cup {[now |-> b, reply |-> Error]} :
          /\ broker' = [broker EXCEPT ![o] = outcome.now]
          /\ task' = [task EXCEPT ![t] = [Idle EXCEPT !.op = "cancel", !.todo = {o},
                                                      !.answer = outcome.reply]]
  BY DEF RequestCancel
<1>2. /\ broker'[o] = outcome.now
      /\ \A p \in OrderIds \ {o} : broker'[p] = broker[p]
      /\ UNCHANGED <<nextId, order, exec, applied, recorded>>
      /\ task'[t].todo = {o}
      /\ \A u \in ApiTasks \ {t} : task'[u] = task[u]
  BY <1>1 DEF RequestCancel, Inductive, TypeOK, Idle, platformVars, bookVars
<1>3. outcome.now = b \/ Evolves(b, outcome.now)
  <2>1. b \in BrokerOrder /\ b.filled <= b.qty /\ b.price \in Prices \cup {0}
    BY DEF Inductive, TypeOK, Consistent, FilledIsWhole
  <2>2. QED
    BY <1>1, <2>1, CancelOutcomesEvolve
<1>4. o <= nextId /\ order[o].reason # "risk"
  BY DEF RequestCancel, CanChange, Inductive, Consistent, RiskRejectedIsDone
<1>5. RequestsAskSentOrders'
  BY <1>2, <1>4 DEF Inductive, Consistent, RequestsAskSentOrders
<1>6. QED
  BY <1>2, <1>3, <1>5, BrokerMovesConsistent

LEMMA ReceiveCancelConsistent ==
    ASSUME Inductive, NEW t \in ApiTasks, ReceiveCancel(t)
    PROVE  Consistent'
<1> DEFINE o   == First(task[t].todo)
           ans == task[t].answer
           new == IF ans = Error THEN order[o] ELSE ApplyBrokerState(order[o], ans)
<1>1. /\ ans \in Answer
      /\ o \in task[t].todo
      /\ o \in OrderIds
      /\ order[o] \in Order
      /\ order[o].reason # "risk"
  BY FirstMember DEF Inductive, TypeOK, Task, Consistent, RequestsAskSentOrders, ReceiveCancel
<1>2. /\ order' = [order EXCEPT ![o] = Cancel(new)]
      /\ task' = [task EXCEPT ![t] = Idle]
      /\ UNCHANGED <<nextId, exec, broker, applied, recorded>>
  BY DEF ReceiveCancel, Inductive, TypeOK, bookVars, brokerVars
<1>3. /\ Cancel(new).fill = order[o].fill
      /\ Cancel(new).ref = order[o].ref
      /\ Cancel(new).reason \in {order[o].reason, "broker"}
  BY <1>1, ApplyBrokerStateKeeps DEF Cancel, Order
<1> HIDE DEF o, new
<1>4. /\ \A p \in OrderIds \ {o} : order'[p] = order[p]
      /\ order'[o] = Cancel(new)
      /\ task'[t].op = "idle" /\ task'[t].todo = {}
      /\ \A u \in ApiTasks \ {t} : task'[u] = task[u]
  BY <1>1, <1>2 DEF Inductive, TypeOK, Idle
<1>5. RequestsAskSentOrders'
  <2>1. \A u \in ApiTasks : task[u].todo \subseteq OrderIds
    BY DEF Inductive, TypeOK, Task
  <2>2. QED
    BY <1>1, <1>2, <1>3, <1>4, <2>1 DEF Inductive, Consistent, RequestsAskSentOrders
<1>6. QED
  BY <1>1, <1>2, <1>3, <1>4, <1>5, OrderTouchedConsistent

LEMMA ModifyOrderConsistent ==
    ASSUME Inductive, NEW o \in OrderIds, NEW q \in ModQuantities, NEW ref \in Prices,
           ModifyOrder(o, q, ref)
    PROVE  Consistent'
<1>1. /\ order'[o].fill = order[o].fill
      /\ order'[o].ref = ref
      /\ order'[o].reason = order[o].reason
      /\ \A p \in OrderIds \ {o} : order'[p] = order[p]
      /\ UNCHANGED <<nextId, exec, broker, applied, recorded, task>>
  BY DEF ModifyOrder, Inductive, TypeOK, Order, bookVars, brokerVars
<1>3. order[o].reason # "risk"
  BY DEF ModifyOrder, CanChange, Inductive, Consistent, RiskRejectedIsDone
<1>4. RequestsAskSentOrders'
  <2>1. \A u \in ApiTasks : task[u].todo \subseteq OrderIds
    BY DEF Inductive, TypeOK, Task
  <2>2. QED
    BY <1>1, <2>1 DEF Inductive, Consistent, RequestsAskSentOrders
<1>5. QED
  BY <1>1, <1>3, <1>4, OrderTouchedConsistent

(* A step of a request that only changes the request. *)
LEMMA RequestMovesConsistent ==
    ASSUME Inductive, NEW t \in ApiTasks,
           UNCHANGED <<nextId, order, exec, broker, applied, recorded>>,
           \A u \in ApiTasks \ {t} : task'[u] = task[u],
           task'[t].op \in {"cancel", "sync", "recover"} => task'[t].todo # {},
           \A o \in task'[t].todo : o <= nextId /\ order[o].reason # "risk"
    PROVE  Consistent'
<1>1. RequestsAskSentOrders'
  BY DEF Inductive, Consistent, RequestsAskSentOrders
<1>2. QED
  BY <1>1
  DEF Inductive, Consistent, IdsInOrder, RiskRejectedIsDone, FilledIsWhole,
      EndedAnswerIsCurrent, AcceptedBeforePolled, CancelEndsOrder, FillsAreTrades,
      FillIsReal, HasFill, UnbookedIsDead

LEMMA WalkTodo ==
    ASSUME NEW op, NEW todo
    PROVE  /\ Walk(op, todo).op \in {"cancel", "sync", "recover"} => Walk(op, todo).todo # {}
           /\ Walk(op, todo).todo \subseteq todo
BY DEF Walk, Idle

LEMMA StartSyncConsistent ==
    ASSUME Inductive, NEW t \in ApiTasks, NEW op \in {"sync", "recover"}, StartSync(t, op)
    PROVE  Consistent'
<1> DEFINE todo == Askable({o \in 1..nextId : IsActive(order[o])})
<1>1. \A o \in todo : o <= nextId /\ order[o].reason # "risk"
  <2>1. 1..nextId \subseteq OrderIds
    BY MaxOrdersAssumption DEF Inductive, TypeOK, OrderIds
  <2>2. \A o \in 1..nextId : o <= nextId
    BY DEF Inductive, TypeOK
  <2>3. QED
    BY <2>1, <2>2 DEF Askable, IsActive, Inductive, Consistent, RiskRejectedIsDone
<1>2. task' = [task EXCEPT ![t] = Walk(op, todo)]
  BY DEF StartSync
<1> HIDE DEF todo
<1>3. /\ task'[t] = Walk(op, todo)
      /\ \A u \in ApiTasks \ {t} : task'[u] = task[u]
      /\ UNCHANGED <<nextId, order, exec, broker, applied, recorded>>
  BY <1>2 DEF StartSync, Inductive, TypeOK, platformVars, bookVars, brokerVars
<1>4. QED
  BY <1>1, <1>3, WalkTodo, RequestMovesConsistent

LEMMA FetchOrderConsistent ==
    ASSUME Inductive, NEW t \in ApiTasks, FetchOrder(t)
    PROVE  Consistent'
<1>1. /\ task'[t].op = task[t].op /\ task'[t].todo = task[t].todo
      /\ \A u \in ApiTasks \ {t} : task'[u] = task[u]
      /\ UNCHANGED <<nextId, order, exec, broker, applied, recorded>>
  BY DEF FetchOrder, Inductive, TypeOK, Task, platformVars, bookVars, brokerVars
<1>2. QED
  BY <1>1, RequestMovesConsistent DEF Inductive, Consistent, RequestsAskSentOrders

LEMMA ReceiveOrderConsistent ==
    ASSUME Inductive, NEW t \in ApiTasks, ReceiveOrder(t)
    PROVE  Consistent'
<1> DEFINE o    == First(task[t].todo)
           ans  == task[t].answer
           new  == IF ans = Error THEN order[o] ELSE ApplyBrokerState(order[o], ans)
           rest == Askable(task[t].todo \ {o})
<1>1. /\ ans \in Answer
      /\ o \in task[t].todo
      /\ o \in OrderIds
      /\ order[o] \in Order
      /\ order[o].reason # "risk"
  BY FirstMember DEF Inductive, TypeOK, Task, Consistent, RequestsAskSentOrders, ReceiveOrder
<1>2. /\ order' = [order EXCEPT ![o] = new]
      /\ task' = [task EXCEPT ![t] = Walk(task[t].op, rest)]
      /\ UNCHANGED <<nextId, exec, broker, applied, recorded>>
  BY DEF ReceiveOrder, Inductive, TypeOK, bookVars, brokerVars
<1>3. /\ new.fill = order[o].fill
      /\ new.ref = order[o].ref
      /\ new.reason \in {order[o].reason, "broker"}
  BY <1>1, ApplyBrokerStateKeeps
<1>4. rest \subseteq task[t].todo
  BY DEF Askable
<1> HIDE DEF o, new, rest
<1>5. /\ \A p \in OrderIds \ {o} : order'[p] = order[p]
      /\ order'[o] = new
      /\ task'[t] = Walk(task[t].op, rest)
      /\ \A u \in ApiTasks \ {t} : task'[u] = task[u]
  BY <1>1, <1>2 DEF Inductive, TypeOK
<1>6. RequestsAskSentOrders'
  <2>1. \A u \in ApiTasks : task[u].todo \subseteq OrderIds
    BY DEF Inductive, TypeOK, Task
  <2>2. /\ task'[t].op \in {"cancel", "sync", "recover"} => task'[t].todo # {}
        /\ task'[t].todo \subseteq task[t].todo
    BY <1>4, <1>5, WalkTodo
  <2>3. QED
    BY <1>1, <1>2, <1>3, <1>5, <2>1, <2>2 DEF Inductive, Consistent, RequestsAskSentOrders
<1>7. QED
  BY <1>1, <1>2, <1>3, <1>5, <1>6, OrderTouchedConsistent

LEMMA FetchPositionsConsistent ==
    ASSUME Inductive, NEW t \in ApiTasks, FetchPositions(t)
    PROVE  Consistent'
<1>1. /\ task'[t].op = task[t].op /\ task'[t].todo = task[t].todo
      /\ \A u \in ApiTasks \ {t} : task'[u] = task[u]
      /\ UNCHANGED <<nextId, order, exec, broker, applied, recorded>>
  BY DEF FetchPositions, Inductive, TypeOK, Task, platformVars, bookVars, brokerVars
<1>2. QED
  BY <1>1, RequestMovesConsistent DEF Inductive, Consistent, RequestsAskSentOrders

LEMMA ReceivePositionsConsistent ==
    ASSUME Inductive, NEW t \in ApiTasks, ReceivePositions(t)
    PROVE  Consistent'
<1>1. /\ task'[t].op = "idle" /\ task'[t].todo = {}
      /\ \A u \in ApiTasks \ {t} : task'[u] = task[u]
      /\ UNCHANGED <<nextId, order, exec, broker, applied, recorded>>
  BY DEF ReceivePositions, Inductive, TypeOK, Idle, bookVars, brokerVars
<1>2. QED
  BY <1>1, RequestMovesConsistent

-----------------------------------------------------------------------------
(***************************************************************************)
(* The invariant.                                                          *)
(***************************************************************************)
LEMMA InitInductive ==
    ASSUME Init
    PROVE  Inductive
<1>1. /\ NoOrder \in Order
      /\ NoOrder.fill = NoFill /\ NoOrder.reason = "none"
  BY NoOrderType DEF NoOrder, NewOrder
<1>2. TypeOK
  <2>1. NewLedger(Capital) \in Ledger
    BY CapitalAssumption DEF NewLedger, Ledger
  <2>2. NoExecution \in Execution /\ NoPosition \in PositionRecord
    BY AnswerType DEF NoExecution, Execution, Stage, NoPosition, PositionRecord
  <2>3. QED
    BY <1>1, <2>1, <2>2, IdleType, AnswerType, MaxOrdersAssumption DEF Init, TypeOK, Flat
<1>3. /\ nextId = 0
      /\ \A o \in OrderIds : /\ order[o] = NoOrder
                             /\ exec[o].stage = "none"
                             /\ broker[o].status = "none"
                             /\ broker[o].filled = 0 /\ broker[o].qty = 0
                             /\ broker[o].price = 0
                             /\ o > 0
      /\ \A t \in ApiTasks : task[t].op = "idle" /\ task[t].todo = {}
      /\ recorded = {}
  BY DEF Init, NoExecution, NoBrokerOrder, Idle, OrderIds
<1>4. Consistent
  <2> HIDE DEF NoOrder
  <2>1. IdsInOrder
    <3>1. \A o \in OrderIds : ~(o <= nextId) /\ nextId < o
      BY <1>3 DEF OrderIds
    <3>2. QED
      BY <1>3, <3>1 DEF IdsInOrder
  <2>2. RequestsAskSentOrders /\ RiskRejectedIsDone
    BY <1>1, <1>3 DEF RequestsAskSentOrders, RiskRejectedIsDone
  <2>3. FilledIsWhole /\ EndedAnswerIsCurrent /\ AcceptedBeforePolled /\ CancelEndsOrder
    BY <1>3 DEF FilledIsWhole, EndedAnswerIsCurrent, AcceptedBeforePolled, CancelEndsOrder
  <2>4. FillsAreTrades /\ FillIsReal /\ UnbookedIsDead
    BY <1>1, <1>3 DEF FillsAreTrades, FillIsReal, UnbookedIsDead, HasFill, NoFill
  <2>5. QED
    BY <2>1, <2>2, <2>3, <2>4 DEF Consistent
<1>5. QED
  BY <1>2, <1>4 DEF Inductive

LEMMA InductiveStep ==
    ASSUME Inductive, [Next]_vars
    PROVE  Inductive'
<1>1. TypeOK'
  BY TypeStep DEF Inductive, Consistent
<1>2. Consistent'
  <2>1. CASE \E signal \in OrderSide, s \in Symbols, price \in Prices :
                 HandleTick(signal, s, price)
    BY <2>1, HandleTickConsistent
  <2>2. CASE \E o \in OrderIds : ExecutorStep(o)
    BY <2>2, ReceiveSubmitAnswerConsistent, ReceivePollAnswerConsistent,
       ReceiveCancelAnswerConsistent, TimerPassesConsistent, WakeAndPollConsistent,
       WakeAndCancelConsistent
    DEF ExecutorStep
  <2>3. CASE \E o \in OrderIds : BrokerStep(o)
    BY <2>3, BrokerAnswersSubmitConsistent, BrokerFillsConsistent, BrokerEndsConsistent
    DEF BrokerStep
  <2>4. CASE \E t \in ApiTasks : ApiStep(t)
    BY <2>4, RequestCancelConsistent, ReceiveCancelConsistent, StartSyncConsistent,
       FetchOrderConsistent, ReceiveOrderConsistent, FetchPositionsConsistent,
       ReceivePositionsConsistent
    DEF ApiStep
  <2>5. CASE \E o \in OrderIds, qty \in ModQuantities, ref \in Prices : ModifyOrder(o, qty, ref)
    BY <2>5, ModifyOrderConsistent
  <2>6. CASE StopRuntime
    BY <2>6, StopRuntimeConsistent
  <2>7. CASE UNCHANGED vars
    BY <2>7
    DEF vars, platformVars, bookVars, brokerVars, Inductive, Consistent, IdsInOrder,
        RequestsAskSentOrders, RiskRejectedIsDone, FilledIsWhole, EndedAnswerIsCurrent,
        AcceptedBeforePolled, CancelEndsOrder, FillsAreTrades, FillIsReal, HasFill,
        UnbookedIsDead
  <2>8. QED
    BY <2>1, <2>2, <2>3, <2>4, <2>5, <2>6, <2>7 DEF Next
<1>3. QED
  BY <1>1, <1>2 DEF Inductive

(* The strengthened invariant holds in every reachable state of LiveTrading. *)
THEOREM InductiveInvariant == Spec => []Inductive
BY InitInductive, InductiveStep, PTL DEF Spec

(* Every variable keeps its type, whatever answers come late, fail or are  *)
(* cancelled: in particular no ledger field but cash and the realised      *)
(* result can become negative.                                             *)
THEOREM TypeCorrect == Spec => []TypeOK
<1>1. Inductive => TypeOK
  BY DEF Inductive
<1>2. QED
  BY <1>1, InductiveInvariant, PTL

(* A fill the platform records is the broker's, for every interleaving of  *)
(* the executor with the API and every broker fault.                       *)
THEOREM FillsAreReal == Spec => []FillIsReal
<1>1. Inductive => FillIsReal
  BY DEF Inductive, Consistent
<1>2. QED
  BY <1>1, InductiveInvariant, PTL

(* An order the risk check refused is never sent nor revived.              *)
THEOREM RiskIsFinal == Spec => []RiskRejectedNeverSent
<1>1. Inductive => RiskRejectedNeverSent
  BY DEF Inductive, Consistent, RiskRejectedIsDone, RiskRejectedNeverSent
<1>2. QED
  BY <1>1, InductiveInvariant, PTL

(* The only ways a fill is lost are those the property lists, as long as   *)
(* the broker answers a cancel with an ended order or an error.            *)
THEOREM LossesHaveCauses ==
    ASSUME "cancel_ack" \notin Faults
    PROVE  Spec => []LostFillHasCause
<1>1. Inductive => LostFillHasCause
  <2>1. SUFFICES ASSUME Inductive, NEW o \in OrderIds,
                        broker[o].status = "filled", ~Executing(o)
                 PROVE  \/ o \in applied
                        \/ exec[o].stage = "stopped"
                        \/ o \notin recorded
                        \/ order[o].reason \in {"broker", "execution"}
    BY DEF LostFillHasCause
  <2>2. exec[o].stage # "none"
    BY <2>1 DEF Inductive, Consistent, IdsInOrder
  <2>3. exec[o].stage \in {"done", "stopped"}
    BY <2>1, <2>2 DEF Inductive, TypeOK, Execution, Stage, Executing
  <2>4. QED
    BY <2>1, <2>3 DEF Inductive, Consistent, UnbookedIsDead
<1>2. QED
  BY <1>1, InductiveInvariant, PTL

-----------------------------------------------------------------------------
(***************************************************************************)
(* The cash.                                                               *)
(***************************************************************************)

LEMMA TradeCoversFee ==
    ASSUME \A p \in Prices : Fee <= p, NEW fill \in Fill, IsTrade(fill)
    PROVE  fill.cost <= fill.price * fill.qty
<1>1. /\ fill.price \in Nat
      /\ fill.qty \in Nat /\ fill.qty >= 1
      /\ fill.cost <= fill.price
      /\ fill.cost \in Nat
  BY DEF IsTrade, Fill
<1>2. \A a, b \in Nat : b >= 1 => a <= a * b
  BY LotsAreWorth
<1> DEFINE value == fill.price * fill.qty
<1>3. fill.price <= value /\ value \in Nat
  BY <1>1, <1>2
<1> HIDE DEF value
<1>4. fill.cost <= value
  BY <1>1, <1>3
<1>5. QED
  BY <1>4 DEF value

LEMMA SettleKeepsCash ==
    ASSUME \A p \in Prices : Fee <= p,
           TypeOK, CashNeverNegative, NEW o \in OrderIds, NEW ord \in Order,
           Settle(o, ord), FillsAreTrades'
    PROVE  CashNeverNegative'
<1>1. order'[o] \in {ord, OrderAfter(portfolio, ord)}
  BY DEF Settle, TypeOK
<1>2. order'[o].fill = ord.fill
  BY <1>1 DEF OrderAfter, Reject, Order
<1>3. HasFill(ord) => IsTrade(ord.fill)
  BY <1>2 DEF FillsAreTrades, HasFill
<1>4. ord.fill \in Fill
  BY DEF Order
<1>5. HasFill(ord) => ord.fill.cost <= ord.fill.price * ord.fill.qty
  BY <1>3, <1>4, TradeCoversFee
<1>6. portfolio \in Ledger /\ portfolio.cash >= 0
  BY DEF TypeOK, CashNeverNegative
<1>7. LedgerAfter(portfolio, ord).cash >= 0
  BY <1>5, <1>6, BookingKeepsCash
<1>8. portfolio' \in {portfolio, LedgerAfter(portfolio, ord)}
  BY DEF Settle
<1>9. QED
  BY <1>6, <1>7, <1>8 DEF CashNeverNegative

(* The portfolio changes only when an execution settles. *)
LEMMA PortfolioChangesAtSettle ==
    ASSUME TypeOK, [Next]_vars
    PROVE  \/ portfolio' = portfolio
           \/ \E o \in OrderIds, ord \in Order : Settle(o, ord)
<1>1. CASE \E o \in OrderIds : ExecutorStep(o)
  <2>1. PICK o \in OrderIds : ExecutorStep(o)
    BY <1>1
  <2>2. order[o] \in Order /\ exec[o].answer \in Answer
    BY DEF TypeOK, Execution
  <2>3. /\ [order[o] EXCEPT !.known = TRUE] \in Order
        /\ Reject(order[o], "execution") \in Order
        /\ Reject(order[o], "broker") \in Order
    BY <2>2, OrderOpsType DEF RejectReason
  <2>4. /\ ApplyBrokerFill(order[o], exec[o].answer) \in Order
        /\ ApplyBrokerFill([order[o] EXCEPT !.known = TRUE], exec[o].answer) \in Order
    BY <2>2, <2>3, ApplyBrokerFillType
  <2>5. CASE ReceiveSubmitAnswer(o)
    BY <2>3, <2>4, <2>5 DEF ReceiveSubmitAnswer, bookVars
  <2>6. CASE ReceivePollAnswer(o)
    BY <2>3, <2>4, <2>6 DEF ReceivePollAnswer, bookVars
  <2>7. CASE ReceiveCancelAnswer(o)
    BY <2>3, <2>4, <2>7 DEF ReceiveCancelAnswer
  <2>8. CASE TimerPasses(o) \/ WakeAndPoll(o) \/ WakeAndCancel(o)
    BY <2>8 DEF TimerPasses, WakeAndPoll, WakeAndCancel, bookVars
  <2>9. QED
    BY <2>1, <2>5, <2>6, <2>7, <2>8 DEF ExecutorStep
<1>2. CASE \/ \E signal \in OrderSide, s \in Symbols, price \in Prices :
                 HandleTick(signal, s, price)
           \/ \E o \in OrderIds : BrokerStep(o)
           \/ \E o \in OrderIds, qty \in ModQuantities, ref \in Prices : ModifyOrder(o, qty, ref)
           \/ StopRuntime
  BY <1>2 DEF HandleTick, BrokerStep, BrokerAnswersSubmit, BrokerFills, BrokerEnds,
              ModifyOrder, StopRuntime, bookVars
<1>3. CASE \E t \in ApiTasks : ApiStep(t)
  BY <1>3 DEF ApiStep, RequestCancel, ReceiveCancel, StartSync, FetchOrder, ReceiveOrder,
              FetchPositions, ReceivePositions, bookVars
<1>4. CASE UNCHANGED vars
  BY <1>4 DEF vars, bookVars
<1>5. QED
  BY <1>1, <1>2, <1>3, <1>4 DEF Next

(* The portfolio never owes cash, whatever executions are under way at the *)
(* same time and at whatever price they fill, as long as no lot is cheaper *)
(* than the fee.                                                           *)
THEOREM CashIsSafe ==
    ASSUME \A p \in Prices : Fee <= p
    PROVE  Spec => []CashNeverNegative
<1>1. Init => CashNeverNegative
  BY CapitalAssumption DEF Init, NewLedger, CashNeverNegative
<1>2. Inductive /\ Inductive' /\ CashNeverNegative /\ [Next]_vars => CashNeverNegative'
  <2>1. SUFFICES ASSUME Inductive, Inductive', CashNeverNegative, [Next]_vars
                 PROVE  CashNeverNegative'
    OBVIOUS
  <2>2. TypeOK /\ FillsAreTrades'
    BY <2>1 DEF Inductive, Consistent
  <2>3. CASE portfolio' = portfolio
    BY <2>1, <2>3 DEF CashNeverNegative
  <2>4. CASE \E o \in OrderIds, ord \in Order : Settle(o, ord)
    BY <2>1, <2>2, <2>4, SettleKeepsCash
  <2>5. QED
    BY <2>1, <2>2, <2>3, <2>4, PortfolioChangesAtSettle
<1>3. QED
  BY <1>1, <1>2, InductiveInvariant, PTL DEF Spec

-----------------------------------------------------------------------------
(***************************************************************************)
(* The ledger.  The refinement rests on three facts beside the inductive   *)
(* invariant: nothing is filled or booked before its execution is over,    *)
(* what is booked is filled, and an answer the API still holds, that an    *)
(* order was rejected or has expired, is about an order that was.          *)
(***************************************************************************)

(* An execution that is not over has neither a fill nor a booking. *)
OpenIsUnfilled ==
    \A o \in OrderIds :
        exec[o].stage # "done" =>
            /\ o \notin applied
            /\ ~HasFill(order[o])
            /\ order[o].reason # "cash"

BookedIsFilled == \A o \in applied : HasFill(order[o])

Refusals == {"rejected", "expired"}

(* What would make apply_broker_state reject an order is still so at the   *)
(* broker when the answer is applied.                                      *)
RefusalIsCurrent ==
    \A t \in ApiTasks :
        task[t].answer.status \in Refusals =>
            /\ task[t].op \in {"cancel", "sync", "recover"}
            /\ broker[First(task[t].todo)].status \in Refusals

LedgerInductive ==
    /\ Inductive
    /\ OpenIsUnfilled
    /\ BookedIsFilled
    /\ RefusalIsCurrent

-----------------------------------------------------------------------------
(***************************************************************************)
(* Every step either settles an execution or moves no money.               *)
(***************************************************************************)

(* The execution of o ends with ord, which is what it was but for what the *)
(* broker answered.                                                        *)
Settles(o, ord) ==
    /\ exec[o].stage = "answered"
    /\ Settle(o, ord)
    /\ ord.side = order[o].side /\ ord.symbol = order[o].symbol
    /\ ord.reason \in {order[o].reason, "broker", "execution"}
    /\ IntegratesFill(ord) \/ ~HasFill(ord)
    /\ IntegratesFill(ord) <=> exec[o].answer.status = "filled"
    /\ \/ exec[o].call = "cancel"
       \/ exec[o].answer = Error
       \/ exec[o].answer.status \in Terminal

(* The execution of o goes on. *)
Polls(o) ==
    /\ Executing(o) /\ Executing(o)'
    /\ \A p \in OrderIds \ {o} : exec'[p] = exec[p]
    /\ UNCHANGED <<positions, bookVars>>
    /\ \A p \in OrderIds : /\ order'[p].fill = order[p].fill
                            /\ order'[p].side = order[p].side
                            /\ order'[p].symbol = order[p].symbol
                            /\ order'[p].reason = order[p].reason

(* Nothing is filled, booked or charged. *)
Quiet ==
    /\ UNCHANGED <<portfolio, applied>>
    /\ \A o \in OrderIds :
          /\ order'[o].fill = order[o].fill
          /\ HasFill(order[o]) => order'[o].side = order[o].side
          /\ o \in applied => order'[o].reason = order[o].reason
          /\ exec'[o].stage # "done" =>
                 exec[o].stage # "done" /\ order'[o].reason # "cash"

LEMMA ApplyBrokerFillKeeps ==
    ASSUME NEW ord \in Order, NEW ans \in Answer, ~HasFill(ord),
           ans.status = "filled" => FillOf(ord, ans).qty > 0
    PROVE  LET new == ApplyBrokerFill(ord, ans) IN
           /\ new.side = ord.side /\ new.symbol = ord.symbol
           /\ new.reason \in {ord.reason, "broker"}
           /\ IntegratesFill(new) \/ ~HasFill(new)
           /\ IntegratesFill(new) <=> ans.status = "filled"
<1> DEFINE fill == FillOf(ord, ans)
           new  == ApplyBrokerFill(ord, ans)
<1>1. CASE ans.status = "filled"
  <2>1. new = Complete(ord, fill)
    BY <1>1 DEF ApplyBrokerFill
  <2>2. fill # NoFill
    BY <1>1 DEF NoFill
  <2> HIDE DEF fill, new
  <2>3. /\ new.side = ord.side
        /\ new.symbol = ord.symbol
        /\ new.reason = ord.reason
        /\ new.status = "filled"
        /\ new.fill = fill
    BY <2>1 DEF Complete, Order
  <2>4. QED
    BY <1>1, <2>2, <2>3 DEF IntegratesFill, HasFill, new
<1>2. CASE ans.status # "filled"
  <2>1. new \in {ord, Cancel(ord), Reject(ord, "broker")}
    BY <1>2 DEF ApplyBrokerFill
  <2> HIDE DEF new
  <2>2. /\ new.side = ord.side /\ new.symbol = ord.symbol
        /\ new.fill = ord.fill
        /\ new.reason \in {ord.reason, "broker"}
    BY <2>1 DEF Cancel, Reject, Order
  <2>3. QED
    BY <1>2, <2>2 DEF HasFill, IntegratesFill, new
<1>3. QED
  BY <1>1, <1>2

(* An answer that says an order is filled says how much. *)
LEMMA FilledAnswerHasQuantity ==
    ASSUME Inductive, NEW o \in OrderIds, NEW ord \in Order,
           exec[o].stage = "answered", exec[o].answer.status = "filled"
    PROVE  FillOf(ord, exec[o].answer).qty > 0
<1> DEFINE ans == exec[o].answer
           b   == broker[o]
<1>1. b \in BrokerOrder /\ ans \in Reports(b)
  BY DEF Inductive, TypeOK, Consistent, EndedAnswerIsCurrent, Terminal
<1>2. ans.status = b.status /\ ans.filled = b.filled
  BY <1>1, ReportsSame
<1>3. b.filled = b.qty /\ b.qty > 0
  BY <1>2 DEF Inductive, Consistent, FilledIsWhole
<1>4. b.filled \in Nat
  BY <1>1 DEF BrokerOrder
<1>5. QED
  BY <1>2, <1>3, <1>4 DEF FillOf

LEMMA ExecutorStepKind ==
    ASSUME LedgerInductive, NEW o \in OrderIds, ExecutorStep(o)
    PROVE  Polls(o) \/ \E ord \in Order : Settles(o, ord)
<1> DEFINE ans == exec[o].answer
           old == [order[o] EXCEPT !.known = TRUE]
<1>1. /\ order[o] \in Order
      /\ old \in Order
      /\ ans \in Answer
  BY OrderOpsType DEF LedgerInductive, Inductive, TypeOK, Execution
<1>2. /\ old.side = order[o].side
      /\ old.symbol = order[o].symbol
      /\ old.reason = order[o].reason
      /\ old.fill = order[o].fill
  BY <1>1 DEF Order
<1>3. ASSUME exec[o].stage = "answered", ans = Error,
             NEW reason \in {"broker", "execution"}, Settle(o, Reject(order[o], reason))
      PROVE  \E ord \in Order : Settles(o, ord)
  <2> DEFINE ord == Reject(order[o], reason)
  <2>1. ord \in Order
    BY <1>1, OrderOpsType DEF RejectReason
  <2>2. /\ ord.side = order[o].side /\ ord.symbol = order[o].symbol
        /\ ord.reason = reason
        /\ ord.fill = order[o].fill
    BY <1>1 DEF Reject, Order
  <2>3. ~HasFill(order[o])
    BY <1>3 DEF LedgerInductive, OpenIsUnfilled
  <2>4. Settle(o, ord)
    BY <1>3
  <2>5. exec[o].answer = Error /\ Error.status # "filled"
    BY <1>3 DEF Error
  <2> HIDE DEF ord, ans
  <2>6. QED
    BY <1>3, <2>1, <2>2, <2>3, <2>4, <2>5 DEF Settles, HasFill, IntegratesFill
<1>4. ASSUME exec[o].stage = "answered", exec[o].call = "cancel" \/ ans.status \in Terminal,
             NEW before \in {order[o], old}, Settle(o, ApplyBrokerFill(before, ans))
      PROVE  \E ord \in Order : Settles(o, ord)
  <2> DEFINE ord == ApplyBrokerFill(before, ans)
  <2>1. /\ before \in Order
        /\ before.side = order[o].side /\ before.symbol = order[o].symbol
        /\ before.reason = order[o].reason
        /\ ~HasFill(before)
    BY <1>1, <1>2, <1>4 DEF LedgerInductive, OpenIsUnfilled, HasFill
  <2>2. ord \in Order
    BY <1>1, <2>1, ApplyBrokerFillType
  <2>3. ans.status = "filled" => FillOf(before, ans).qty > 0
    BY <1>4, <2>1, FilledAnswerHasQuantity DEF LedgerInductive
  <2>4. /\ ord.side = before.side /\ ord.symbol = before.symbol
        /\ ord.reason \in {before.reason, "broker"}
        /\ IntegratesFill(ord) \/ ~HasFill(ord)
        /\ IntegratesFill(ord) <=> ans.status = "filled"
    BY <1>1, <2>1, <2>3, ApplyBrokerFillKeeps
  <2>5. Settle(o, ord)
    BY <1>4
  <2> HIDE DEF ord
  <2>6. QED
    BY <1>4, <2>1, <2>2, <2>4, <2>5 DEF Settles
<1>5. ASSUME UNCHANGED <<positions, bookVars>>,
             order' = order \/ order' = [order EXCEPT ![o] = old],
             Executing(o), exec'[o].stage \in {"sleeping", "answered"},
             \A p \in OrderIds \ {o} : exec'[p] = exec[p]
      PROVE  Polls(o)
  <2>1. \A p \in OrderIds : /\ order'[p].fill = order[p].fill
                            /\ order'[p].side = order[p].side
                            /\ order'[p].symbol = order[p].symbol
                            /\ order'[p].reason = order[p].reason
    <3> HIDE DEF old
    <3>1. QED
      BY <1>2, <1>5 DEF LedgerInductive, Inductive, TypeOK
  <2>2. QED
    BY <1>5, <2>1 DEF Polls, Executing
<1>6. exec \in [OrderIds -> Execution]
  BY DEF LedgerInductive, Inductive, TypeOK
<1>7. CASE ReceiveSubmitAnswer(o)
  <2>1. exec[o].stage = "answered"
    BY <1>7 DEF ReceiveSubmitAnswer
  <2>2. CASE ans = Error /\ Settle(o, Reject(order[o], "execution"))
    BY <1>3, <2>1, <2>2
  <2>3. CASE ans.status \in Terminal /\ Settle(o, ApplyBrokerFill(old, ans))
    BY <1>4, <2>1, <2>3
  <2>4. CASE /\ order' = [order EXCEPT ![o] = old]
             /\ exec' = [exec EXCEPT ![o] = [NoExecution EXCEPT !.stage = "sleeping"]]
             /\ UNCHANGED <<positions, bookVars>>
    <3>1. exec'[o].stage = "sleeping" /\ \A p \in OrderIds \ {o} : exec'[p] = exec[p]
      BY <1>6, <2>4 DEF NoExecution
    <3>2. QED
      BY <1>5, <2>1, <2>4, <3>1 DEF Executing
  <2>5. QED
    BY <1>7, <2>2, <2>3, <2>4 DEF ReceiveSubmitAnswer
<1>8. CASE ReceivePollAnswer(o)
  <2>1. exec[o].stage = "answered"
    BY <1>8 DEF ReceivePollAnswer
  <2>2. CASE ans = Error /\ Settle(o, Reject(order[o], "execution"))
    BY <1>3, <2>1, <2>2
  <2>3. CASE ans.status \in Terminal /\ Settle(o, ApplyBrokerFill(order[o], ans))
    BY <1>4, <2>1, <2>3
  <2>4. CASE /\ exec' = [exec EXCEPT ![o].stage = "sleeping", ![o].answer = NoAnswer]
             /\ UNCHANGED <<order, positions, bookVars>>
    <3>1. exec'[o].stage = "sleeping" /\ \A p \in OrderIds \ {o} : exec'[p] = exec[p]
      BY <1>6, <2>4 DEF Execution
    <3>2. QED
      BY <1>5, <2>1, <2>4, <3>1 DEF Executing
  <2>5. QED
    BY <1>8, <2>2, <2>3, <2>4 DEF ReceivePollAnswer
<1>9. CASE ReceiveCancelAnswer(o)
  <2>1. /\ exec[o].stage = "answered"
        /\ exec[o].call = "cancel"
        /\ \/ ans = Error /\ Settle(o, Reject(order[o], "broker"))
           \/ Settle(o, ApplyBrokerFill(order[o], ans))
    BY <1>9 DEF ReceiveCancelAnswer
  <2>2. QED
    BY <1>3, <1>4, <2>1
<1>10. CASE TimerPasses(o) \/ WakeAndPoll(o) \/ WakeAndCancel(o)
  <2>1. /\ UNCHANGED <<positions, bookVars, order>>
        /\ exec[o].stage \in {"sleeping", "answered"}
        /\ exec'[o].stage \in {"sleeping", "answered"}
        /\ \A p \in OrderIds \ {o} : exec'[p] = exec[p]
    BY <1>6, <1>10 DEF TimerPasses, WakeAndPoll, WakeAndCancel, Execution
  <2>2. QED
    BY <1>5, <2>1 DEF Executing
<1>11. QED
  BY <1>7, <1>8, <1>9, <1>10 DEF ExecutorStep

LEMMA PollsIsQuiet ==
    ASSUME LedgerInductive, NEW o \in OrderIds, Polls(o)
    PROVE  Quiet
BY DEF Polls, Quiet, Executing, bookVars, LedgerInductive, OpenIsUnfilled

LEMMA TickIsQuiet ==
    ASSUME LedgerInductive, NEW signal \in OrderSide, NEW s \in Symbols, NEW price \in Prices,
           HandleTick(signal, s, price)
    PROVE  Quiet
<1> DEFINE o   == nextId + 1
           ord == SignalToOrder(signal, s, price)
<1>1. o \in OrderIds /\ nextId \in Nat /\ nextId < o
  BY MaxOrdersAssumption DEF HandleTick, LedgerInductive, Inductive, TypeOK, OrderIds
<1>2. exec[o].stage = "none"
  BY <1>1 DEF LedgerInductive, Inductive, Consistent, IdsInOrder
<1>3. o \notin applied /\ order[o].fill = NoFill
  BY <1>1, <1>2 DEF LedgerInductive, OpenIsUnfilled, HasFill
<1>4. /\ Submit(ord).fill = NoFill /\ Submit(ord).reason = "none"
      /\ Reject(ord, "risk").fill = NoFill /\ Reject(ord, "risk").reason = "risk"
  BY DEF SignalToOrder, EntryOrder, ExitOrder, NewOrder, Submit, Reject
<1>5. order' \in {[order EXCEPT ![o] = Submit(ord)], [order EXCEPT ![o] = Reject(ord, "risk")]}
  BY DEF HandleTick
<1>6. /\ \A p \in OrderIds \ {o} : order'[p] = order[p] /\ exec'[p] = exec[p]
      /\ order'[o].fill = NoFill
      /\ order'[o].reason # "cash"
      /\ UNCHANGED <<portfolio, applied>>
  <2>1. \A p \in OrderIds \ {o} : exec'[p] = exec[p]
    BY <1>1 DEF HandleTick, LedgerInductive, Inductive, TypeOK
  <2>2. UNCHANGED <<portfolio, applied>>
    BY DEF HandleTick
  <2> HIDE DEF ord
  <2>3. QED
    BY <1>1, <1>4, <1>5, <2>1, <2>2 DEF LedgerInductive, Inductive, TypeOK
<1>7. QED
  BY <1>2, <1>3, <1>6 DEF Quiet, HasFill, LedgerInductive, OpenIsUnfilled

(* The API touches at most the status and the reason of one order; the     *)
(* reason only when the broker has refused or expired the order, which     *)
(* therefore has no fill.                                                  *)
LEMMA TouchIsQuiet ==
    ASSUME LedgerInductive, NEW o \in OrderIds,
           UNCHANGED <<exec, portfolio, applied>>,
           \A p \in OrderIds \ {o} : order'[p] = order[p],
           order'[o].fill = order[o].fill,
           order'[o].side = order[o].side,
           \/ order'[o].reason = order[o].reason
           \/ order'[o].reason = "broker" /\ broker[o].status \in Refusals
    PROVE  Quiet
<1>1. broker[o].status \in Refusals => o \notin applied
  BY DEF Refusals, LedgerInductive, BookedIsFilled, Inductive, Consistent, FillIsReal
<1>2. QED
  BY <1>1 DEF Quiet, LedgerInductive, OpenIsUnfilled

LEMMA ApplyBrokerStateTouches ==
    ASSUME NEW ord \in Order, NEW ans \in Answer
    PROVE  LET new == ApplyBrokerState(ord, ans) IN
           /\ new \in Order
           /\ new.fill = ord.fill
           /\ new.side = ord.side
           /\ \/ new.reason = ord.reason
              \/ new.reason = "broker" /\ ans.status \in Refusals
<1> DEFINE seen == [ord EXCEPT !.known = TRUE]
           new  == ApplyBrokerState(ord, ans)
<1>1. seen.fill = ord.fill /\ seen.side = ord.side /\ seen.reason = ord.reason /\ seen \in Order
  BY OrderOpsType DEF Order
<1>2. /\ new \in {seen, Submit(seen), Cancel(seen), Reject(seen, "broker")}
      /\ ans.status \in Refusals \/ new \in {seen, Submit(seen), Cancel(seen)}
  BY DEF ApplyBrokerState, Refusals
<1>3. new \in Order
  BY ApplyBrokerStateType
<1> HIDE DEF seen, new
<1>4. \A r \in {seen, Submit(seen), Cancel(seen)} :
         r.fill = ord.fill /\ r.side = ord.side /\ r.reason = ord.reason
  BY <1>1 DEF Submit, Cancel, Order
<1>5. /\ Reject(seen, "broker").fill = ord.fill
      /\ Reject(seen, "broker").side = ord.side
      /\ Reject(seen, "broker").reason = "broker"
  BY <1>1 DEF Reject, Order
<1>6. QED
  BY <1>2, <1>3, <1>4, <1>5 DEF new

(* An answer applied to the first order of a request's list *)
LEMMA AnswerTouches ==
    ASSUME LedgerInductive, NEW t \in ApiTasks,
           task[t].op \in {"cancel", "sync", "recover"}
    PROVE  LET o   == First(task[t].todo)
               ans == task[t].answer
               new == IF ans = Error THEN order[o] ELSE ApplyBrokerState(order[o], ans)
           IN
           /\ o \in OrderIds
           /\ new \in Order
           /\ new.fill = order[o].fill
           /\ new.side = order[o].side
           /\ \/ new.reason = order[o].reason
              \/ new.reason = "broker" /\ broker[o].status \in Refusals
<1> DEFINE o   == First(task[t].todo)
           ans == task[t].answer
           new == IF ans = Error THEN order[o] ELSE ApplyBrokerState(order[o], ans)
<1>1. /\ ans \in Answer
      /\ task[t].todo \in SUBSET OrderIds
      /\ task[t].todo # {}
  BY DEF LedgerInductive, Inductive, TypeOK, Task, Consistent, RequestsAskSentOrders
<1>2. o \in OrderIds
  BY <1>1, FirstMember
<1>3. order[o] \in Order
  BY <1>2 DEF LedgerInductive, Inductive, TypeOK
<1>4. ans.status \in Refusals => broker[o].status \in Refusals
  BY DEF LedgerInductive, RefusalIsCurrent
<1> HIDE DEF o, ans
<1>5. CASE ans = Error
  BY <1>2, <1>3, <1>5 DEF o, ans
<1>6. CASE ans # Error
  <2>1. new = ApplyBrokerState(order[o], ans)
    BY <1>6
  <2> HIDE DEF new
  <2>2. QED
    BY <1>1, <1>2, <1>3, <1>4, <2>1, ApplyBrokerStateTouches DEF new, o, ans
<1>7. QED
  BY <1>5, <1>6

LEMMA ApiStepIsQuiet ==
    ASSUME LedgerInductive, NEW t \in ApiTasks, ApiStep(t)
    PROVE  Quiet
<1> DEFINE o   == First(task[t].todo)
           ans == task[t].answer
           new == IF ans = Error THEN order[o] ELSE ApplyBrokerState(order[o], ans)
<1>1. order \in [OrderIds -> Order]
  BY DEF LedgerInductive, Inductive, TypeOK
<1>2. CASE ReceiveCancel(t)
  <2>1. /\ o \in OrderIds
        /\ new \in Order
        /\ new.fill = order[o].fill
        /\ new.side = order[o].side
        /\ \/ new.reason = order[o].reason
           \/ new.reason = "broker" /\ broker[o].status \in Refusals
    BY <1>2, AnswerTouches DEF ReceiveCancel
  <2>2. /\ order' = [order EXCEPT ![o] = Cancel(new)]
        /\ UNCHANGED <<exec, portfolio, applied>>
    BY <1>1, <1>2 DEF ReceiveCancel, bookVars, brokerVars
  <2> HIDE DEF o, new
  <2>3. /\ Cancel(new).fill = new.fill
        /\ Cancel(new).side = new.side
        /\ Cancel(new).reason = new.reason
    BY <2>1 DEF Cancel, Order
  <2>4. order'[o] = Cancel(new) /\ \A p \in OrderIds \ {o} : order'[p] = order[p]
    BY <1>1, <2>1, <2>2
  <2>5. QED
    BY <2>1, <2>2, <2>3, <2>4, TouchIsQuiet
<1>3. CASE ReceiveOrder(t)
  <2>1. /\ o \in OrderIds
        /\ new \in Order
        /\ new.fill = order[o].fill
        /\ new.side = order[o].side
        /\ \/ new.reason = order[o].reason
           \/ new.reason = "broker" /\ broker[o].status \in Refusals
    BY <1>3, AnswerTouches DEF ReceiveOrder
  <2>2. /\ order' = [order EXCEPT ![o] = new]
        /\ UNCHANGED <<exec, portfolio, applied>>
    BY <1>1, <1>3 DEF ReceiveOrder, bookVars, brokerVars
  <2> HIDE DEF o, new
  <2>3. order'[o] = new /\ \A p \in OrderIds \ {o} : order'[p] = order[p]
    BY <1>1, <2>1, <2>2
  <2>4. QED
    BY <2>1, <2>2, <2>3, TouchIsQuiet
<1>4. CASE \/ \E p \in OrderIds : RequestCancel(t, p)
           \/ \E op \in {"sync", "recover"} : StartSync(t, op)
           \/ FetchOrder(t) \/ FetchPositions(t) \/ ReceivePositions(t)
  <2>1. UNCHANGED <<order, exec, portfolio, applied>>
    BY <1>4 DEF RequestCancel, StartSync, FetchOrder, FetchPositions, ReceivePositions,
                platformVars, bookVars
  <2>2. QED
    BY <2>1 DEF Quiet, LedgerInductive, OpenIsUnfilled
<1>5. QED
  BY <1>2, <1>3, <1>4 DEF ApiStep

LEMMA ModifyIsQuiet ==
    ASSUME LedgerInductive, NEW o \in OrderIds, NEW q \in ModQuantities, NEW ref \in Prices,
           ModifyOrder(o, q, ref)
    PROVE  Quiet
<1>1. /\ order'[o].fill = order[o].fill
      /\ order'[o].side = order[o].side
      /\ order'[o].reason = order[o].reason
      /\ \A p \in OrderIds \ {o} : order'[p] = order[p]
      /\ UNCHANGED <<exec, portfolio, applied>>
  BY DEF ModifyOrder, LedgerInductive, Inductive, TypeOK, Order, bookVars
<1>2. QED
  BY <1>1, TouchIsQuiet

LEMMA StopIsQuiet ==
    ASSUME LedgerInductive, StopRuntime
    PROVE  Quiet
<1>1. /\ \A o \in OrderIds : IF Executing(o) THEN exec[o].stage # "done"
                                             ELSE exec'[o] = exec[o]
      /\ UNCHANGED <<order, portfolio, applied>>
  BY DEF StopRuntime, Executing, bookVars
<1>2. QED
  BY <1>1 DEF Quiet, LedgerInductive, OpenIsUnfilled

LEMMA BrokerStepIsQuiet ==
    ASSUME LedgerInductive, NEW o \in OrderIds, BrokerStep(o)
    PROVE  Quiet
<1>1. UNCHANGED <<order, portfolio, applied>>
  BY DEF BrokerStep, BrokerAnswersSubmit, BrokerFills, BrokerEnds, platformVars, bookVars
<1>2. \A p \in OrderIds : exec'[p].stage # "done" => exec[p].stage # "done"
  <2>1. CASE BrokerAnswersSubmit(o)
    <3>1. \E ans : AnswerSubmit(o, ans)
      BY <2>1 DEF BrokerAnswersSubmit
    <3>2. QED
      BY <3>1 DEF AnswerSubmit, LedgerInductive, Inductive, TypeOK
  <2>2. CASE BrokerFills(o) \/ BrokerEnds(o)
    BY <2>2 DEF BrokerFills, BrokerEnds, platformVars
  <2>3. QED
    BY <2>1, <2>2 DEF BrokerStep
<1>3. QED
  BY <1>1, <1>2 DEF Quiet, LedgerInductive, OpenIsUnfilled

LEMMA StepKinds ==
    ASSUME LedgerInductive, [Next]_vars
    PROVE  Quiet \/ \E o \in OrderIds, ord \in Order : Settles(o, ord)
<1>1. CASE UNCHANGED vars
  BY <1>1 DEF vars, platformVars, bookVars, Quiet, LedgerInductive, OpenIsUnfilled
<1>2. CASE Next
  BY <1>2, TickIsQuiet, ExecutorStepKind, PollsIsQuiet, BrokerStepIsQuiet, ApiStepIsQuiet, ModifyIsQuiet,
     StopIsQuiet
  DEF Next
<1>3. QED
  BY <1>1, <1>2

LEMMA SettlesEffect ==
    ASSUME LedgerInductive, NEW o \in OrderIds, NEW ord \in Order, Settles(o, ord)
    PROVE  /\ \A p \in OrderIds \ {o} : order'[p] = order[p] /\ exec'[p] = exec[p]
           /\ exec'[o].stage = "done"
           /\ order'[o].fill = ord.fill
           /\ order'[o].side = order[o].side
           /\ \/ applied' = applied /\ portfolio' = portfolio /\ order'[o] = ord
              \/ /\ IntegratesFill(ord)
                 /\ applied' = applied \cup {o}
                 /\ portfolio' = LedgerAfter(portfolio, ord)
                 /\ order'[o] = OrderAfter(portfolio, ord)
<1>1. order \in [OrderIds -> Order] /\ exec \in [OrderIds -> Execution]
  BY DEF LedgerInductive, Inductive, TypeOK
<1>2. /\ \A p \in OrderIds \ {o} : order'[p] = order[p] /\ exec'[p] = exec[p]
      /\ exec'[o].stage = "done"
  BY <1>1 DEF Settles, Settle, NoExecution
<1>3. \/ applied' = applied /\ portfolio' = portfolio /\ order'[o] = ord
      \/ /\ IntegratesFill(ord)
         /\ applied' = applied \cup {o}
         /\ portfolio' = LedgerAfter(portfolio, ord)
         /\ order'[o] = OrderAfter(portfolio, ord)
  BY <1>1 DEF Settles, Settle
<1>4. OrderAfter(portfolio, ord).fill = ord.fill /\ OrderAfter(portfolio, ord).side = ord.side
  BY DEF OrderAfter, Reject, Order
<1>5. QED
  BY <1>2, <1>3, <1>4 DEF Settles

-----------------------------------------------------------------------------
(***************************************************************************)
(* The invariant.                                                          *)
(***************************************************************************)
LEMMA SettledUnfilled ==
    ASSUME LedgerInductive, [Next]_vars
    PROVE  OpenIsUnfilled' /\ BookedIsFilled'
<1>1. applied \subseteq OrderIds
  BY DEF LedgerInductive, Inductive, TypeOK
<1>2. CASE Quiet
  BY <1>1, <1>2 DEF Quiet, LedgerInductive, OpenIsUnfilled, BookedIsFilled, HasFill
<1>3. ASSUME NEW o \in OrderIds, NEW ord \in Order, Settles(o, ord)
      PROVE  OpenIsUnfilled' /\ BookedIsFilled'
  <2>1. /\ \A p \in OrderIds \ {o} : order'[p] = order[p] /\ exec'[p] = exec[p]
        /\ exec'[o].stage = "done"
        /\ order'[o].fill = ord.fill
        /\ applied' = applied \/ (IntegratesFill(ord) /\ applied' = applied \cup {o})
    BY <1>3, SettlesEffect
  <2>2. o \notin applied
    BY <1>3 DEF Settles, LedgerInductive, OpenIsUnfilled
  <2>3. QED
    BY <1>1, <2>1, <2>2
    DEF LedgerInductive, OpenIsUnfilled, BookedIsFilled, HasFill, IntegratesFill
<1>4. QED
  BY <1>2, <1>3, StepKinds

(* What the broker has refused or expired it never takes up again. *)
LEMMA RefusalsLast ==
    ASSUME Inductive, [Next]_vars
    PROVE  \A o \in OrderIds : broker[o].status \in Refusals => broker'[o] = broker[o]
<1> USE DEF Refusals
<1>1. broker \in [OrderIds -> BrokerOrder]
  BY DEF Inductive, TypeOK
<1>2. \A o \in OrderIds : broker[o].status \notin OpenAtBroker =>
          \A outcome \in CancelOutcomes(broker[o]) : outcome.now = broker[o]
  BY DEF CancelOutcomes
<1>3. ASSUME NEW signal \in OrderSide, NEW s \in Symbols, NEW price \in Prices,
             HandleTick(signal, s, price)
      PROVE  \A o \in OrderIds : broker[o].status \in Refusals => broker'[o] = broker[o]
  <2> DEFINE n == nextId + 1
  <2>1. n \in OrderIds /\ nextId < n
    BY <1>3, MaxOrdersAssumption DEF HandleTick, Inductive, TypeOK, OrderIds
  <2>2. broker[n].status = "none"
    BY <2>1 DEF Inductive, Consistent, IdsInOrder
  <2>3. \A o \in OrderIds \ {n} : broker'[o] = broker[o]
    BY <1>1, <1>3 DEF HandleTick
  <2>4. QED
    BY <2>2, <2>3
<1>4. ASSUME NEW p \in OrderIds, WakeAndCancel(p) \/ \E t \in ApiTasks : RequestCancel(t, p)
      PROVE  \A o \in OrderIds : broker[o].status \in Refusals => broker'[o] = broker[o]
  <2>1. PICK outcome \in CancelOutcomes(broker[p]) \cup {[now |-> broker[p], reply |-> Error]} :
            broker' = [broker EXCEPT ![p] = outcome.now]
    BY <1>4 DEF WakeAndCancel, RequestCancel
  <2>2. broker[p].status \in Refusals => outcome.now = broker[p]
    BY <1>2, <2>1 DEF OpenAtBroker
  <2>3. QED
    BY <1>1, <2>1, <2>2
<1>5. ASSUME NEW p \in OrderIds, BrokerStep(p)
      PROVE  \A o \in OrderIds : broker[o].status \in Refusals => broker'[o] = broker[o]
  <2>1. broker[p].status \notin Refusals
    BY <1>5 DEF BrokerStep, BrokerAnswersSubmit, BrokerFills, BrokerEnds, OpenAtBroker
  <2>2. \A o \in OrderIds \ {p} : broker'[o] = broker[o]
    BY <1>1, <1>5 DEF BrokerStep, BrokerAnswersSubmit, BrokerFills, BrokerEnds
  <2>3. QED
    BY <2>1, <2>2
<1>6. ASSUME NEW p \in OrderIds, ExecutorStep(p), ~WakeAndCancel(p)
      PROVE  UNCHANGED broker
  BY <1>6 DEF ExecutorStep, ReceiveSubmitAnswer, ReceivePollAnswer, ReceiveCancelAnswer,
              TimerPasses, WakeAndPoll, brokerVars
<1>7. ASSUME NEW t \in ApiTasks, ApiStep(t), \A p \in OrderIds : ~RequestCancel(t, p)
      PROVE  UNCHANGED broker
  BY <1>7 DEF ApiStep, ReceiveCancel, StartSync, FetchOrder, ReceiveOrder, FetchPositions,
              ReceivePositions, brokerVars
<1>8. ASSUME \/ \E o \in OrderIds, q \in ModQuantities, ref \in Prices : ModifyOrder(o, q, ref)
             \/ StopRuntime
             \/ UNCHANGED vars
      PROVE  UNCHANGED broker
  BY <1>8 DEF ModifyOrder, StopRuntime, vars, brokerVars
<1>9. QED
  BY <1>3, <1>4, <1>5, <1>6, <1>7, <1>8 DEF Next

LEMMA RefusalStaysCurrent ==
    ASSUME LedgerInductive, [Next]_vars, NEW u \in ApiTasks, task'[u] = task[u]
    PROVE  task'[u].answer.status \in Refusals =>
               /\ task'[u].op \in {"cancel", "sync", "recover"}
               /\ broker'[First(task'[u].todo)].status \in Refusals
<1>1. SUFFICES ASSUME task[u].answer.status \in Refusals
               PROVE  /\ task[u].op \in {"cancel", "sync", "recover"}
                      /\ broker'[First(task[u].todo)].status \in Refusals
  OBVIOUS
<1>2. /\ task[u].op \in {"cancel", "sync", "recover"}
      /\ broker[First(task[u].todo)].status \in Refusals
  BY <1>1 DEF LedgerInductive, RefusalIsCurrent
<1>3. task[u].todo \in SUBSET OrderIds /\ task[u].todo # {}
  BY <1>2 DEF LedgerInductive, Inductive, TypeOK, Task, Consistent, RequestsAskSentOrders
<1>4. First(task[u].todo) \in OrderIds
  BY <1>3, FirstMember
<1>5. QED
  BY <1>2, <1>4, RefusalsLast DEF LedgerInductive

LEMMA ApiStepRefusals ==
    ASSUME LedgerInductive, NEW t \in ApiTasks, ApiStep(t)
    PROVE  RefusalIsCurrent'
<1>1. [Next]_vars
  BY DEF Next
<1>2. task \in [ApiTasks -> Task] /\ broker \in [OrderIds -> BrokerOrder]
  BY DEF LedgerInductive, Inductive, TypeOK
<1>3. \A u \in ApiTasks \ {t} : task'[u] = task[u]
  BY <1>2 DEF ApiStep, RequestCancel, ReceiveCancel, StartSync, FetchOrder, ReceiveOrder,
              FetchPositions, ReceivePositions
<1>4. /\ Error.status \notin Refusals /\ NoAnswer.status \notin Refusals
      /\ Listed.status \notin Refusals
      /\ Idle.answer = NoAnswer
      /\ \A op, todo : Walk(op, todo).answer = NoAnswer
  BY DEF Error, NoAnswer, Listed, Idle, Walk, Refusals
<1>5. task'[t].answer.status \in Refusals =>
          /\ task'[t].op \in {"cancel", "sync", "recover"}
          /\ broker'[First(task'[t].todo)].status \in Refusals
  <2>1. ASSUME NEW o \in OrderIds, RequestCancel(t, o)
        PROVE  task'[t].answer.status \in Refusals =>
                   /\ task'[t].op \in {"cancel", "sync", "recover"}
                   /\ broker'[First(task'[t].todo)].status \in Refusals
    <3>1. PICK outcome \in CancelOutcomes(broker[o]) \cup {[now |-> broker[o], reply |-> Error]} :
              /\ broker' = [broker EXCEPT ![o] = outcome.now]
              /\ task' = [task EXCEPT ![t] = [Idle EXCEPT !.op = "cancel", !.todo = {o},
                                                          !.answer = outcome.reply]]
      BY <2>1 DEF RequestCancel
    <3>2. outcome.reply \in {Error, outcome.now}
      BY <3>1 DEF CancelOutcomes
    <3>3. /\ task'[t].op = "cancel" /\ task'[t].todo = {o} /\ task'[t].answer = outcome.reply
          /\ broker'[o] = outcome.now
      BY <1>2, <3>1 DEF Idle
    <3>4. First({o}) = o
      <4>1. First({o}) \in {o}
        BY FirstMember
      <4>2. QED
        BY <4>1
    <3>5. QED
      BY <1>4, <3>2, <3>3, <3>4
  <2>2. CASE ReceiveCancel(t) \/ ReceivePositions(t)
    BY <1>2, <1>4, <2>2 DEF ReceiveCancel, ReceivePositions
  <2>3. CASE (\E op \in {"sync", "recover"} : StartSync(t, op)) \/ ReceiveOrder(t)
    BY <1>2, <1>4, <2>3 DEF StartSync, ReceiveOrder
  <2>4. CASE FetchOrder(t)
    <3> DEFINE o == First(task[t].todo)
    <3>1. PICK ans \in Reports(broker[o]) \cup {Error} :
              task' = [task EXCEPT ![t].answer = ans]
      BY <2>4 DEF FetchOrder
    <3>2. /\ task[t].op \in {"sync", "recover"}
          /\ UNCHANGED broker
      BY <2>4 DEF FetchOrder, brokerVars
    <3>3. /\ task'[t].op = task[t].op /\ task'[t].todo = task[t].todo
          /\ task'[t].answer = ans
      BY <1>2, <3>1 DEF Task
    <3>4. o \in OrderIds
      <4>1. task[t].todo \in SUBSET OrderIds /\ task[t].todo # {}
        BY <3>2 DEF LedgerInductive, Inductive, TypeOK, Task, Consistent, RequestsAskSentOrders
      <4>2. QED
        BY <4>1, FirstMember
    <3>5. ans = Error \/ ans.status = broker[o].status
      BY <1>2, <3>1, <3>4, ReportsSame
    <3>6. QED
      BY <1>4, <3>2, <3>3, <3>5
  <2>5. CASE FetchPositions(t)
    <3>1. task'[t].answer = Listed
      BY <1>2, <2>5 DEF FetchPositions, Task
    <3>2. QED
      BY <1>4, <3>1
  <2>6. QED
    BY <2>1, <2>2, <2>3, <2>4, <2>5 DEF ApiStep
<1>6. QED
  BY <1>1, <1>3, <1>5, RefusalStaysCurrent DEF RefusalIsCurrent

LEMMA LedgerInductiveInit ==
    ASSUME Init
    PROVE  LedgerInductive
<1>1. Inductive
  BY InitInductive
<1>2. OpenIsUnfilled /\ BookedIsFilled
  BY DEF Init, OpenIsUnfilled, BookedIsFilled, HasFill, NoOrder, NewOrder
<1>3. RefusalIsCurrent
  BY DEF Init, RefusalIsCurrent, Idle, NoAnswer, Refusals
<1>4. QED
  BY <1>1, <1>2, <1>3 DEF LedgerInductive

LEMMA LedgerInductiveStep ==
    ASSUME LedgerInductive, [Next]_vars
    PROVE  LedgerInductive'
<1>1. Inductive'
  BY InductiveStep DEF LedgerInductive
<1>2. OpenIsUnfilled' /\ BookedIsFilled'
  BY SettledUnfilled
<1>3. RefusalIsCurrent'
  <2>1. CASE \E t \in ApiTasks : ApiStep(t)
    BY <2>1, ApiStepRefusals
  <2>2. CASE UNCHANGED task
    BY <2>2, RefusalStaysCurrent DEF RefusalIsCurrent
  <2>3. ~(\E t \in ApiTasks : ApiStep(t)) => UNCHANGED task
    BY DEF Next, HandleTick, ExecutorStep, ReceiveSubmitAnswer, ReceivePollAnswer,
           ReceiveCancelAnswer, TimerPasses, WakeAndPoll, WakeAndCancel, BrokerStep,
           BrokerAnswersSubmit, BrokerFills, BrokerEnds, ModifyOrder, StopRuntime, vars
  <2>4. QED
    BY <2>1, <2>2, <2>3
<1>4. QED
  BY <1>1, <1>2, <1>3 DEF LedgerInductive

(* The strengthened invariant of the refinement holds in every reachable   *)
(* state: what is not over is not filled, what is booked is filled, and    *)
(* no answer the API holds can take a filled order for a refused one.      *)
THEOREM LedgerInvariant == Spec => []LedgerInductive
BY LedgerInductiveInit, LedgerInductiveStep, PTL DEF Spec

-----------------------------------------------------------------------------
(***************************************************************************)
(* The refinement.                                                         *)
(***************************************************************************)

LEMMA QuietStutters ==
    ASSUME LedgerInductive, Quiet
    PROVE  UNCHANGED <<FilledOrders, Booked, Amounts, portfolio.cash>>
<1>1. applied \subseteq OrderIds
  BY DEF LedgerInductive, Inductive, TypeOK
<1>2. \A o \in OrderIds : HasFill(order'[o]) <=> HasFill(order[o])
  BY DEF Quiet, HasFill
<1>3. \A o \in OrderIds : HasFill(order[o]) => CashEffect(o)' = CashEffect(o)
  BY DEF Quiet, CashEffect
<1>4. FilledOrders' = FilledOrders /\ Amounts' = Amounts
  BY <1>2, <1>3 DEF FilledOrders, Amounts
<1>5. Booked' = Booked
  BY <1>1 DEF Booked, Quiet
<1>6. QED
  BY <1>4, <1>5 DEF Quiet

(* A settled order is booked, turned away, or was not filled. *)
LEMMA SettlesMovesCash ==
    ASSUME LedgerInductive, LedgerInductive', NEW o \in OrderIds, NEW ord \in Order,
           Settles(o, ord)
    PROVE  \/ UNCHANGED <<FilledOrders, Booked, Amounts, portfolio.cash>>
           \/ /\ Promise!Fill(o)
              /\ o \notin Booked /\ Booked' = Booked \cup {o}
              /\ HasFill(order'[o])
              /\ portfolio'.cash = portfolio.cash + Amounts'[o]
              /\ order'[o].side = "buy" => portfolio'.cash >= 0
           \/ Promise!Lose(o)
<1>1. /\ \A p \in OrderIds \ {o} : order'[p] = order[p]
      /\ order'[o].fill = ord.fill
      /\ order'[o].side = ord.side
      /\ \/ applied' = applied /\ portfolio' = portfolio /\ order'[o] = ord
         \/ /\ IntegratesFill(ord)
            /\ applied' = applied \cup {o}
            /\ portfolio' = LedgerAfter(portfolio, ord)
            /\ order'[o] = OrderAfter(portfolio, ord)
  BY SettlesEffect DEF Settles
<1>2. /\ o \notin applied
      /\ ~HasFill(order[o])
      /\ order[o].reason # "cash"
      /\ applied \subseteq OrderIds
      /\ portfolio \in Ledger
  BY DEF Settles, LedgerInductive, OpenIsUnfilled, Inductive, TypeOK
<1>3. CASE ~HasFill(ord)
  <2>1. \A p \in OrderIds : HasFill(order'[p]) <=> HasFill(order[p])
    BY <1>1, <1>2, <1>3 DEF HasFill
  <2>2. \A p \in OrderIds : HasFill(order[p]) => CashEffect(p)' = CashEffect(p)
    BY <1>1, <1>2 DEF CashEffect
  <2>3. FilledOrders' = FilledOrders /\ Amounts' = Amounts
    BY <2>1, <2>2 DEF FilledOrders, Amounts
  <2>4. applied' = applied /\ portfolio' = portfolio
    BY <1>1, <1>3 DEF IntegratesFill
  <2>5. Booked' = Booked
    BY <1>1, <1>2, <2>4 DEF Booked
  <2>6. QED
    BY <2>3, <2>4, <2>5
<1>4. CASE IntegratesFill(ord)
  <2>1. HasFill(ord) /\ HasFill(order'[o]) /\ ord.reason # "cash"
    BY <1>1, <1>2, <1>4 DEF IntegratesFill, HasFill, Settles
  <2>2. /\ o \notin FilledOrders
        /\ FilledOrders' = FilledOrders \cup {o}
    BY <1>1, <1>2, <2>1 DEF FilledOrders
  <2>3. \A p \in OrderIds \ {o} : Amounts'[p] = Amounts[p]
    BY <1>1 DEF Amounts, CashEffect
  <2>4. Amounts'[o] = Moves(ord)
    BY <1>1, <2>1 DEF Amounts, CashEffect, Moves
  <2>5. Promise!Fill(o)
    BY <2>2, <2>3 DEF Promise!Fill
  <2>6. CASE applied' = applied /\ portfolio' = portfolio
    <3>1. Booked' = Booked
      BY <1>1, <1>2, <2>6 DEF Booked
    <3>2. QED
      BY <2>5, <2>6, <3>1 DEF Promise!Lose
  <2>7. CASE /\ applied' = applied \cup {o}
             /\ portfolio' = LedgerAfter(portfolio, ord)
             /\ order'[o] = OrderAfter(portfolio, ord)
    <3>1. CASE Unaffordable(portfolio, ord)
      <4>1. order'[o].reason = "cash"
        BY <2>7, <3>1 DEF OrderAfter, Reject, Order
      <4>2. Booked' = Booked
        BY <1>1, <1>2, <2>7, <4>1 DEF Booked
      <4>3. portfolio'.cash = portfolio.cash
        BY <1>2, <2>1, <2>7, <3>1, BookingMovesCash
      <4>4. QED
        BY <2>5, <4>2, <4>3 DEF Promise!Lose
    <3>2. CASE ~Unaffordable(portfolio, ord)
      <4>1. order'[o] = ord
        BY <2>7, <3>2 DEF OrderAfter
      <4>2. Booked' = Booked \cup {o}
        BY <1>1, <1>2, <2>1, <2>7, <4>1 DEF Booked
      <4>3. portfolio'.cash = portfolio.cash + Moves(ord)
        BY <1>2, <2>1, <2>7, <3>2, BookingMovesCash
      <4>4. ord.side = "buy" => portfolio'.cash >= 0
        <5>1. ord.fill \in Fill /\ portfolio.cash \in Int
          BY <1>2 DEF Order, Ledger
        <5>2. TotalCost(ord.fill) \in Int
          BY <1>2, <5>1, LedgerOpsType
        <5>3. ord.side = "buy" => TotalCost(ord.fill) <= portfolio.cash
          BY <2>1, <3>2, <5>1, <5>2 DEF Unaffordable
        <5>4. QED
          BY <4>3, <5>1, <5>2, <5>3 DEF Moves
      <4>5. o \notin Booked
        BY <1>2 DEF Booked
      <4>6. order'[o].side = ord.side
        BY <1>1 DEF Settles
      <4>7. QED
        BY <2>1, <2>4, <2>5, <4>2, <4>3, <4>4, <4>5, <4>6
    <3>3. QED
      BY <3>1, <3>2
  <2>8. QED
    BY <1>1, <2>6, <2>7
<1>5. QED
  BY <1>3, <1>4 DEF Settles

(* A sell of a fill that is worth its fee brings cash in. *)
LEMMA SettlesFillsOrStutters ==
    ASSUME \A p \in Prices : Fee <= p,
           LedgerInductive, LedgerInductive', NEW o \in OrderIds, NEW ord \in Order,
           Settles(o, ord)
    PROVE  \/ UNCHANGED <<FilledOrders, Booked, Amounts, portfolio.cash>>
           \/ Promise!Book(o)
           \/ Promise!Lose(o)
<1>1. ASSUME HasFill(order'[o]), order'[o].side # "buy"
      PROVE  Amounts'[o] \in Nat
  <2> DEFINE fill == order'[o].fill
  <2>1. IsTrade(fill) /\ fill \in Fill
    BY <1>1 DEF LedgerInductive, Inductive, Consistent, FillsAreTrades, TypeOK, Order
  <2>2. PICK value \in Nat : value = fill.price * fill.qty
    BY <2>1 DEF Fill
  <2>3. fill.cost \in Nat /\ fill.cost <= value
    BY <2>1, <2>2, TradeCoversFee DEF Fill
  <2>4. Amounts'[o] = Proceeds(fill)
    BY <1>1 DEF Amounts, CashEffect
  <2>5. Proceeds(fill) = value - fill.cost
    BY <2>2 DEF Proceeds
  <2> HIDE DEF fill
  <2>6. QED
    BY <2>2, <2>3, <2>4, <2>5
<1>2. ASSUME Promise!Fill(o),
             Booked' = Booked \cup {o},
             HasFill(order'[o]),
             portfolio'.cash = portfolio.cash + Amounts'[o],
             order'[o].side = "buy" => portfolio'.cash >= 0
      PROVE  Promise!Book(o)
  <2>1. Amounts'[o] < 0 => portfolio'.cash >= 0
    BY <1>1, <1>2
  <2>2. QED
    BY <1>2, <2>1 DEF Promise!Book
<1>3. QED
  BY <1>2, SettlesMovesCash

(* Live trading implements the ledger of fills: whatever the executor, the *)
(* API, the broker and the runtime do, and in whatever order, an order is  *)
(* filled at most once, its amount is booked in that very step or never,   *)
(* no other step moves cash, and no booking overdraws it, as long as no    *)
(* lot is cheaper than the fee.                                            *)
THEOREM LedgerRefinement ==
    ASSUME \A p \in Prices : Fee <= p
    PROVE  Spec => ImplementsLedger
<1>1. Init => Promise!Init
  <2>1. ASSUME Init
        PROVE  FilledOrders = {} /\ Booked = {} /\ Amounts = [o \in OrderIds |-> 0]
    BY <2>1 DEF Init, FilledOrders, Booked, Amounts, HasFill, NoOrder, NewOrder
  <2>2. Init => portfolio.cash = Capital
    BY DEF Init, NewLedger
  <2>3. QED
    BY <2>1, <2>2 DEF Promise!Init
<1>2. LedgerInductive /\ LedgerInductive' /\ [Next]_vars
          => [Promise!Next]_<<FilledOrders, Booked, Amounts, portfolio.cash>>
  <2>1. SUFFICES ASSUME LedgerInductive, LedgerInductive', [Next]_vars
                 PROVE  [Promise!Next]_<<FilledOrders, Booked, Amounts, portfolio.cash>>
    OBVIOUS
  <2>2. CASE Quiet
    BY <2>1, <2>2, QuietStutters
  <2>3. ASSUME NEW o \in OrderIds, NEW ord \in Order, Settles(o, ord)
        PROVE  [Promise!Next]_<<FilledOrders, Booked, Amounts, portfolio.cash>>
    BY <2>1, <2>3, SettlesFillsOrStutters DEF Promise!Next
  <2>4. QED
    BY <2>1, <2>2, <2>3, StepKinds
<1>3. QED
  BY <1>1, <1>2, LedgerInvariant, PTL DEF Spec, ImplementsLedger, Promise!Spec

-----------------------------------------------------------------------------
(***************************************************************************)
(* The cash, order by order.                                               *)
(***************************************************************************)
LEMMA ChargesType ==
    ASSUME LedgerInductive
    PROVE  \A o \in OrderIds : Charges[o] \in Int
<1>1. \A o \in OrderIds : order[o].fill \in Fill
  BY DEF LedgerInductive, Inductive, TypeOK, Order
<1>2. ASSUME NEW o \in OrderIds
      PROVE  CashEffect(o) \in Int
  <2>1. TotalCost(order[o].fill) \in Int /\ Proceeds(order[o].fill) \in Int
    BY <1>1, TradeType
  <2>2. QED
    BY <2>1 DEF CashEffect
<1>3. QED
  BY <1>2 DEF Charges

LEMMA ChargesStep ==
    ASSUME LedgerInductive, LedgerInductive', [Next]_vars, CashIsSumOfFills
    PROVE  CashIsSumOfFills'
<1>1. /\ \A o \in OrderIds : Charges[o] \in Int
      /\ Booked \subseteq FilledOrders /\ Booked \subseteq OrderIds
      /\ portfolio.cash \in Int
      /\ Total(Charges, MaxOrders) \in Int
  <2>1. /\ \A o \in OrderIds : Charges[o] \in Int
        /\ Booked \subseteq FilledOrders /\ Booked \subseteq OrderIds
        /\ portfolio.cash \in Int
    BY ChargesType
    DEF LedgerInductive, BookedIsFilled, Booked, FilledOrders, Inductive, TypeOK, Ledger
  <2>2. QED
    BY <2>1, TotalSame, MaxOrdersAssumption DEF OrderIds
<1>2. \A o \in OrderIds : Charges[o] = IF o \in Booked THEN Amounts[o] ELSE 0
  BY <1>1 DEF Charges, Amounts, FilledOrders
<1>3. \A o \in OrderIds : Charges'[o] = IF o \in Booked' THEN Amounts'[o] ELSE 0
  <2>1. Booked' \subseteq FilledOrders'
    BY DEF LedgerInductive, BookedIsFilled, Booked, FilledOrders, Inductive, TypeOK
  <2>2. QED
    BY <2>1 DEF Charges, Amounts, FilledOrders
<1>4. CASE /\ Booked' = Booked
           /\ portfolio'.cash = portfolio.cash
           /\ \A p \in Booked : Amounts'[p] = Amounts[p]
  <2>1. \A o \in OrderIds : Charges'[o] = Charges[o]
    BY <1>2, <1>3, <1>4
  <2>2. Total(Charges', MaxOrders) = Total(Charges, MaxOrders)
    BY <1>1, <2>1, TotalSame, MaxOrdersAssumption DEF OrderIds
  <2>3. QED
    BY <1>4, <2>2 DEF CashIsSumOfFills
<1>5. ASSUME NEW o \in OrderIds,
             o \notin Booked, Booked' = Booked \cup {o},
             portfolio'.cash = portfolio.cash + Amounts'[o],
             \A p \in OrderIds \ {o} : Amounts'[p] = Amounts[p]
      PROVE  CashIsSumOfFills'
  <2>1. Amounts'[o] \in Int
    <3>1. order'[o].fill \in Fill
      BY DEF LedgerInductive, Inductive, TypeOK, Order
    <3>2. TotalCost(order'[o].fill) \in Int /\ Proceeds(order'[o].fill) \in Int
      BY <3>1, TradeType
    <3>3. QED
      BY <3>2 DEF Amounts, CashEffect
  <2>2. Shifted(Charges', Charges, MaxOrders, o, Amounts'[o])
    BY <1>1, <1>2, <1>3, <1>5, <2>1 DEF Shifted, OrderIds
  <2>3. Total(Charges', MaxOrders) = Total(Charges, MaxOrders) + Amounts'[o]
    BY <2>1, <2>2, TotalChange, MaxOrdersAssumption DEF OrderIds
  <2>4. QED
    BY <1>1, <1>5, <2>1, <2>3, CapitalAssumption DEF CashIsSumOfFills
<1>6. CASE Quiet
  BY <1>4, <1>6, QuietStutters
<1>7. ASSUME NEW o \in OrderIds, NEW ord \in Order, Settles(o, ord)
      PROVE  CashIsSumOfFills'
  <2>1. Promise!Fill(o) => /\ \A p \in OrderIds \ {o} : Amounts'[p] = Amounts[p]
                           /\ o \notin FilledOrders
    BY DEF Promise!Fill
  <2>2. CASE Promise!Lose(o)
    <3>1. /\ Booked' = Booked /\ portfolio'.cash = portfolio.cash
          /\ Promise!Fill(o)
      BY <2>2 DEF Promise!Lose
    <3>2. QED
      BY <1>1, <1>4, <2>1, <3>1
  <2>3. CASE UNCHANGED <<FilledOrders, Booked, Amounts, portfolio.cash>>
    BY <1>4, <2>3
  <2>4. CASE /\ Promise!Fill(o)
             /\ o \notin Booked /\ Booked' = Booked \cup {o}
             /\ portfolio'.cash = portfolio.cash + Amounts'[o]
    BY <1>5, <2>1, <2>4
  <2>5. QED
    BY <1>7, <2>2, <2>3, <2>4, SettlesMovesCash
<1>8. QED
  BY <1>6, <1>7, StepKinds

(* The cash is the capital and the effect of every fill booked, counted    *)
(* once, however fills, failures, cancels, recoveries and re-reads of an   *)
(* order interleave (PortfolioSynchronizer.apply_order, Portfolio).        *)
THEOREM CashAccounted == Spec => []CashIsSumOfFills
<1>1. Init => CashIsSumOfFills
  <2>1. SUFFICES ASSUME Init
                 PROVE  CashIsSumOfFills
    OBVIOUS
  <2>2. \A o \in OrderIds : Charges[o] = 0
    <3>1. Booked = {}
      BY <2>1 DEF Init, Booked
    <3>2. QED
      BY <3>1 DEF Charges
  <2>3. Total(Charges, MaxOrders) = 0
    BY <2>2, TotalZero, MaxOrdersAssumption DEF OrderIds
  <2>4. QED
    BY <2>1, <2>3, CapitalAssumption DEF CashIsSumOfFills, Init, NewLedger
<1>2. LedgerInductive /\ LedgerInductive' /\ [Next]_vars /\ CashIsSumOfFills
          => CashIsSumOfFills'
  BY ChargesStep
<1>3. QED
  BY <1>1, <1>2, LedgerInvariant, PTL DEF Spec

-----------------------------------------------------------------------------
(***************************************************************************)
(* Live trading without a cancel, synchronise or recover request under way *)
(* (the modify route, which has no await, is free to be called):           *)
(*   - with a broker that answers, the positions the platform tracks are   *)
(*     the broker's between ticks, for any number of streams and symbols;  *)
(*   - with one stream and one instrument the books balance, whatever the  *)
(*     broker does, and with a broker that answers it never sells what it  *)
(*     does not hold.                                                      *)
(*                                                                         *)
(* The hypotheses are what the code needs: TLC refutes each property when  *)
(* one of its hypotheses is dropped.                                       *)
(***************************************************************************)
OneStream == Streams <= 1

NoRequests == ApiTasks = {}

OneSymbol == \A r, s \in Symbols : r = s

(* The broker answers, fills in pieces or whole, and may leave out the     *)
(* average price; a record may fail to be persisted.                       *)
Reliable == Faults \subseteq {"partial", "no_average", "persist_error"}

ReliableStore == "persist_error" \notin Faults

-----------------------------------------------------------------------------
(* The broker has nothing to do with an order that is not being executed.  *)
AtRest == {"none", "refused", "filled"}

BrokerWaits ==
    \A o \in OrderIds :
        /\ ~Executing(o) => broker[o].status \in AtRest
        /\ broker[o].status \in AtRest \cup OpenAtBroker \cup {"requested"}
        /\ broker[o].status = "refused" => broker[o].filled = 0

(* An execution polls in time, and an error is the broker's refusal. *)
OnlyRefusalsFail ==
    \A o \in OrderIds :
        /\ ~exec[o].late
        /\ exec[o].call # "cancel"
        /\ exec[o].stage = "answered" /\ exec[o].answer = Error => broker[o].status = "refused"

Sided ==
    \A s \in Symbols : positions[s] = NoPosition \/ positions[s].side \in {"long", "short"}

(* What the broker has filled of s and the platform does not know yet, by order *)
UnderWay(s) ==
    [o \in OrderIds |->
        IF Executing(o) /\ order[o].symbol = s
        THEN Signed(order[o].side, broker[o].filled) ELSE 0]

Followed ==
    \A s \in Symbols : holdings[s] = Net(positions[s]) + Total(UnderWay(s), MaxOrders)

FollowInductive ==
    /\ LedgerInductive
    /\ BrokerWaits
    /\ OnlyRefusalsFail
    /\ Sided
    /\ Followed

-----------------------------------------------------------------------------
(***************************************************************************)
(* The tracked positions.                                                  *)
(***************************************************************************)
LEMMA NothingInProgress ==
    ASSUME OneStream, LedgerInductive, Cardinality(InProgress) < Streams
    PROVE  InProgress = {}
<1>1. IsFiniteSet(InProgress)
  <2>1. IsFiniteSet(OrderIds)
    BY FS_Interval, MaxOrdersAssumption DEF OrderIds
  <2>2. QED
    BY <2>1, FS_Subset DEF InProgress
<1>2. Cardinality(InProgress) = 0
  BY <1>1, FS_CardinalityType, LimitsAssumption DEF OneStream
<1>3. QED
  BY <1>1, <1>2, FS_EmptySet

(* A fill moves the record by what the fill is worth. *)
LEMMA NetApplyFill ==
    ASSUME NEW pos \in PositionRecord, pos = NoPosition \/ pos.side \in {"long", "short"},
           NEW side \in OrderSide, NEW q \in Nat
    PROVE  /\ Net(ApplyFill(pos, side, q)) = Net(pos) + Signed(side, q)
           /\ \/ ApplyFill(pos, side, q) = NoPosition
              \/ ApplyFill(pos, side, q).side \in {"long", "short"}
           /\ Net(pos) \in Int
BY DEF ApplyFill, Net, Signed, Tracked, NoPosition, PositionRecord, OrderSide

LEMMA FollowTypes ==
    ASSUME LedgerInductive
    PROVE  /\ order \in [OrderIds -> Order]
           /\ exec \in [OrderIds -> Execution]
           /\ positions \in [Symbols -> PositionRecord]
           /\ broker \in [OrderIds -> BrokerOrder]
           /\ holdings \in [Symbols -> Int]
           /\ portfolio \in Ledger
           /\ \A o \in OrderIds : /\ order[o].side \in OrderSide
                                  /\ order[o].symbol \in Symbols
                                  /\ broker[o].filled \in Nat /\ broker[o].qty \in Nat
BY DEF LedgerInductive, Inductive, TypeOK, Order, BrokerOrder

LEMMA NetType ==
    ASSUME LedgerInductive
    PROVE  \A s \in Symbols : Net(positions[s]) \in Int
BY FollowTypes DEF Net, PositionRecord

LEMMA UnderWayType ==
    ASSUME LedgerInductive
    PROVE  \A s \in Symbols, o \in OrderIds : UnderWay(s)[o] \in Int
BY FollowTypes DEF UnderWay, Signed

(* The positions and what is under way may move together, for one order. *)
LEMMA FollowedMoves ==
    ASSUME LedgerInductive, LedgerInductive', Followed,
           NEW o \in OrderIds, NEW d \in [Symbols -> Int],
           \A s \in Symbols :
               /\ UnderWay(s)'[o] = UnderWay(s)[o] + d[s]
               /\ \A p \in OrderIds \ {o} : UnderWay(s)'[p] = UnderWay(s)[p]
               /\ holdings'[s] + Net(positions[s]) = holdings[s] + Net(positions'[s]) + d[s]
    PROVE  Followed'
<1>1. SUFFICES ASSUME NEW s \in Symbols
               PROVE  holdings'[s] = Net(positions'[s]) + Total(UnderWay(s)', MaxOrders)
  BY DEF Followed
<1>2. /\ holdings[s] \in Int /\ holdings'[s] \in Int
      /\ Net(positions[s]) \in Int /\ Net(positions'[s]) \in Int
      /\ d[s] \in Int
  BY NetType DEF LedgerInductive, Inductive, TypeOK, Net, PositionRecord
<1>3. Shifted(UnderWay(s)', UnderWay(s), MaxOrders, o, d[s])
  BY UnderWayType DEF Shifted, OrderIds
<1>4. /\ Total(UnderWay(s)', MaxOrders) = Total(UnderWay(s), MaxOrders) + d[s]
      /\ Total(UnderWay(s), MaxOrders) \in Int
  BY <1>2, <1>3, TotalChange, MaxOrdersAssumption DEF OrderIds
<1>5. holdings[s] = Net(positions[s]) + Total(UnderWay(s), MaxOrders)
  BY DEF Followed
<1>6. holdings'[s] + Net(positions[s]) = holdings[s] + Net(positions'[s]) + d[s]
  OBVIOUS
<1> HIDE DEF Followed
<1>7. QED
  BY <1>2, <1>4, <1>5, <1>6

LEMMA FollowedStays ==
    ASSUME LedgerInductive, Followed, UNCHANGED <<positions, holdings>>,
           \A s \in Symbols, o \in OrderIds : UnderWay(s)'[o] = UnderWay(s)[o]
    PROVE  Followed'
<1>1. ASSUME NEW s \in Symbols
      PROVE  Total(UnderWay(s)', MaxOrders) = Total(UnderWay(s), MaxOrders)
  BY UnderWayType, TotalSame, MaxOrdersAssumption DEF OrderIds
<1>2. QED
  BY <1>1 DEF Followed

(* What an execution that settles leaves: the broker has filled the order, *)
(* and the fill is recorded, or it has refused it.                         *)
LEMMA SettlesWhy ==
    ASSUME FollowInductive, LedgerInductive', NEW o \in OrderIds, NEW ord \in Order,
           Settles(o, ord), UNCHANGED broker
    PROVE  \/ /\ IntegratesFill(ord)
              /\ broker[o].status = "filled"
              /\ ord.fill.qty = broker[o].filled
           \/ /\ ~HasFill(ord)
              /\ broker[o].status = "refused"
              /\ broker[o].filled = 0
<1>1. exec[o].stage = "answered" /\ exec[o].call # "cancel"
  BY DEF Settles, FollowInductive, OnlyRefusalsFail
<1>2. CASE exec[o].answer = Error
  <2>1. broker[o].status = "refused" /\ broker[o].filled = 0
    BY <1>1, <1>2 DEF FollowInductive, OnlyRefusalsFail, BrokerWaits
  <2>2. ~HasFill(ord)
    BY <1>2 DEF Settles, Error
  <2>3. QED
    BY <2>1, <2>2
<1>3. CASE exec[o].answer.status \in Terminal
  <2>1. broker[o] \in BrokerOrder /\ exec[o].answer \in Reports(broker[o])
    BY <1>1, <1>3, FollowTypes
    DEF FollowInductive, LedgerInductive, Inductive, Consistent, EndedAnswerIsCurrent
  <2>2. exec[o].answer.status = broker[o].status
    BY <2>1, ReportsSame
  <2>3. broker[o].status = "filled"
    BY <1>3, <2>2 DEF Terminal, FollowInductive, BrokerWaits, AtRest, OpenAtBroker
  <2>4. IntegratesFill(ord)
    BY <2>2, <2>3 DEF Settles
  <2>5. order'[o].fill = ord.fill
    BY SettlesEffect DEF FollowInductive
  <2>6. ord.fill.qty = broker[o].filled
    BY <2>4, <2>5
    DEF LedgerInductive, Inductive, Consistent, FillIsReal, HasFill, IntegratesFill
  <2>7. QED
    BY <2>3, <2>4, <2>6
<1>4. QED
  BY <1>1, <1>2, <1>3 DEF Settles

(* How the positions change when an execution settles *)
LEMMA SettlesPositions ==
    ASSUME FollowInductive, LedgerInductive', NEW o \in OrderIds, NEW ord \in Order,
           Settles(o, ord), UNCHANGED broker
    PROVE  /\ Sided'
           /\ \A s \in Symbols : Net(positions'[s]) = Net(positions[s]) + UnderWay(s)[o]
<1>1. /\ positions \in [Symbols -> PositionRecord]
      /\ order[o].side \in OrderSide /\ order[o].symbol \in Symbols
      /\ broker[o].filled \in Nat
      /\ \A s \in Symbols : Net(positions[s]) \in Int
  BY FollowTypes, NetType DEF FollowInductive
<1>2. ord.side = order[o].side /\ ord.symbol = order[o].symbol
  BY DEF Settles
<1> Executing(o)
  BY DEF Settles, Executing
<1>3. CASE /\ IntegratesFill(ord)
           /\ ord.fill.qty = broker[o].filled
  <2> DEFINE x == order[o].symbol
  <2>1. /\ positions' = [positions EXCEPT ![x] =
                             ApplyFill(positions[x], order[o].side, broker[o].filled)]
    BY <1>1, <1>2, <1>3 DEF Settles, Settle
  <2>2. positions[x] = NoPosition \/ positions[x].side \in {"long", "short"}
    BY <1>1 DEF FollowInductive, Sided
  <2>3. /\ Net(positions'[x]) = Net(positions[x]) + Signed(order[o].side, broker[o].filled)
        /\ positions'[x] = NoPosition \/ positions'[x].side \in {"long", "short"}
        /\ \A s \in Symbols \ {x} : positions'[s] = positions[s]
    BY <1>1, <2>1, <2>2, NetApplyFill
  <2>4. QED
    BY <1>1, <2>3 DEF FollowInductive, Sided, UnderWay
<1>4. CASE ~HasFill(ord) /\ broker[o].filled = 0
  <2>1. positions' = positions
    BY <1>4 DEF Settles, Settle, IntegratesFill
  <2>2. \A s \in Symbols : UnderWay(s)[o] = 0
    BY <1>4 DEF UnderWay, Signed
  <2>3. QED
    BY <1>1, <2>1, <2>2 DEF FollowInductive, Sided
<1>5. QED
  BY <1>3, <1>4, SettlesWhy

LEMMA SettlesFollows ==
    ASSUME FollowInductive, LedgerInductive', NEW o \in OrderIds, NEW ord \in Order,
           Settles(o, ord), UNCHANGED <<broker, holdings>>
    PROVE  FollowInductive'
<1>1. /\ \A p \in OrderIds \ {o} : order'[p] = order[p] /\ exec'[p] = exec[p]
      /\ exec'[o].stage = "done"
      /\ exec'[o].late = FALSE /\ exec'[o].call = "submit"
  BY SettlesEffect, FollowTypes DEF FollowInductive, Settles, Settle, NoExecution
<1>2. /\ ~Executing(o)'
      /\ \A p \in OrderIds \ {o} : Executing(p)' = Executing(p)
  BY <1>1 DEF Executing
<1>3. broker[o].status \in AtRest
  BY SettlesWhy DEF AtRest
<1>4. BrokerWaits'
  BY <1>2, <1>3 DEF FollowInductive, BrokerWaits
<1>5. OnlyRefusalsFail'
  BY <1>1 DEF FollowInductive, OnlyRefusalsFail
<1>6. Sided' /\ \A s \in Symbols : Net(positions'[s]) = Net(positions[s]) + UnderWay(s)[o]
  BY SettlesPositions
<1>7. /\ \A s \in Symbols : UnderWay(s)[o] \in Int /\ Net(positions[s]) \in Int
      /\ holdings \in [Symbols -> Int]
  BY UnderWayType, NetType, FollowTypes DEF FollowInductive
<1>8. PICK d \in [Symbols -> Int] : \A s \in Symbols : d[s] = 0 - UnderWay(s)[o]
  <2>1. [s \in Symbols |-> 0 - UnderWay(s)[o]] \in [Symbols -> Int]
    BY <1>7
  <2>2. QED
    BY <2>1
<1>9. ASSUME NEW s \in Symbols
      PROVE  /\ UnderWay(s)'[o] = UnderWay(s)[o] + d[s]
             /\ \A p \in OrderIds \ {o} : UnderWay(s)'[p] = UnderWay(s)[p]
             /\ holdings'[s] + Net(positions[s]) = holdings[s] + Net(positions'[s]) + d[s]
  <2>1. UnderWay(s)'[o] = 0
    BY <1>2 DEF UnderWay
  <2>2. \A p \in OrderIds \ {o} : UnderWay(s)'[p] = UnderWay(s)[p]
    BY <1>1, <1>2 DEF UnderWay
  <2>3. QED
    BY <1>6, <1>7, <1>8, <2>1, <2>2
<1>10. Followed'
  BY <1>9, FollowedMoves DEF FollowInductive
<1>11. QED
  BY <1>4, <1>5, <1>6, <1>10 DEF FollowInductive

-----------------------------------------------------------------------------
(***************************************************************************)
(* The other steps.                                                        *)
(***************************************************************************)
LEMMA TickFollows ==
    ASSUME FollowInductive, LedgerInductive',
           NEW signal \in OrderSide, NEW s \in Symbols, NEW price \in Prices,
           HandleTick(signal, s, price)
    PROVE  FollowInductive'
<1> DEFINE ord == SignalToOrder(signal, s, price)
<1>1. /\ order \in [OrderIds -> Order]
      /\ exec \in [OrderIds -> Execution]
      /\ broker \in [OrderIds -> BrokerOrder]
  BY FollowTypes DEF FollowInductive
<1>2. PICK o \in OrderIds : o = nextId + 1
  BY MaxOrdersAssumption
  DEF HandleTick, FollowInductive, LedgerInductive, Inductive, TypeOK, OrderIds
<1>3. ~Executing(o)
  BY <1>2 DEF FollowInductive, LedgerInductive, Inductive, TypeOK, Consistent, IdsInOrder, Executing
<1>4. exec[o].late = FALSE /\ exec[o].call # "cancel"
  BY <1>1, <1>2 DEF FollowInductive, OnlyRefusalsFail, Execution
<1>5. /\ UNCHANGED <<positions, holdings>>
      /\ \A p \in OrderIds \ {o} : /\ exec'[p] = exec[p]
                                    /\ broker'[p] = broker[p]
  BY <1>1, <1>2 DEF HandleTick
<1>6. \/ /\ exec'[o].stage = "submitting"
         /\ broker'[o].status = "requested" /\ broker'[o].filled = 0
      \/ /\ exec'[o].stage = "done"
         /\ broker'[o] = broker[o]
  <2>1. \/ /\ exec' = [exec EXCEPT ![o].stage = "submitting"]
           /\ broker' = [broker EXCEPT ![o] =
                             [NoBrokerOrder EXCEPT !.status = "requested", !.qty = ord.qty]]
        \/ /\ exec' = [exec EXCEPT ![o].stage = "done"]
           /\ UNCHANGED broker
    BY <1>2 DEF HandleTick
  <2> HIDE DEF ord
  <2>2. QED
    BY <1>1, <2>1 DEF NoBrokerOrder, Execution
<1>7. exec'[o].late = FALSE /\ exec'[o].call # "cancel"
  BY <1>1, <1>2, <1>4 DEF HandleTick, Execution
<1> HIDE DEF ord
<1>10. ~Executing(o)' => broker'[o].status \in AtRest
  BY <1>2, <1>3, <1>6 DEF Executing, FollowInductive, BrokerWaits
<1>11. BrokerWaits'
  <2>1. \A p \in OrderIds \ {o} : Executing(p)' = Executing(p)
    BY <1>5 DEF Executing
  <2>2. QED
    BY <1>2, <1>5, <1>6, <1>10, <2>1 DEF FollowInductive, BrokerWaits
<1>12. OnlyRefusalsFail'
  BY <1>5, <1>6, <1>7 DEF FollowInductive, OnlyRefusalsFail
<1>13. Sided'
  BY <1>5 DEF FollowInductive, Sided
<1>14. Followed'
  <2>1. \A p \in OrderIds \ {o} : order'[p] = order[p]
    BY <1>1, <1>2 DEF HandleTick
  <2>2. ASSUME NEW r \in Symbols
        PROVE  UnderWay(r)'[o] = 0 /\ UnderWay(r)[o] = 0
    <3>1. Executing(o)' => broker'[o].filled = 0
      BY <1>6 DEF Executing
    <3>2. QED
      BY <1>3, <3>1 DEF UnderWay, Signed
  <2>3. \A r \in Symbols, p \in OrderIds \ {o} : UnderWay(r)'[p] = UnderWay(r)[p]
    BY <1>5, <2>1 DEF UnderWay, Executing
  <2>4. QED
    BY <1>5, <2>2, <2>3, FollowedStays DEF FollowInductive
<1>15. QED
  BY <1>11, <1>12, <1>13, <1>14 DEF FollowInductive

LEMMA ExecutorFollows ==
    ASSUME Reliable, FollowInductive, LedgerInductive', NEW o \in OrderIds, ExecutorStep(o)
    PROVE  FollowInductive'
<1>1. /\ exec \in [OrderIds -> Execution]
      /\ broker \in [OrderIds -> BrokerOrder]
  BY FollowTypes DEF FollowInductive
<1>2. exec[o].late = FALSE /\ exec[o].call # "cancel"
  BY <1>1 DEF FollowInductive, OnlyRefusalsFail, Execution
<1>3. \/ ReceiveSubmitAnswer(o)
      \/ ReceivePollAnswer(o)
      \/ WakeAndPoll(o)
  BY <1>2 DEF ExecutorStep, ReceiveCancelAnswer, TimerPasses, WakeAndCancel, Reliable
<1>4. UNCHANGED <<broker, holdings>>
  BY <1>3 DEF ReceiveSubmitAnswer, ReceivePollAnswer, WakeAndPoll, brokerVars
<1>5. CASE \E ord \in Order : Settles(o, ord)
  BY <1>4, <1>5, SettlesFollows
<1>6. CASE Polls(o)
  <2>1. /\ exec'[o].late = FALSE /\ exec'[o].call # "cancel"
        /\ exec'[o].stage = "answered" => exec'[o].answer # Error
    <3>1. CASE WakeAndPoll(o)
      <4>1. PICK ans \in Reports(broker[o]) :
                exec' = [exec EXCEPT ![o].stage = "answered", ![o].call = "poll",
                                     ![o].answer = ans]
        BY <3>1 DEF WakeAndPoll, Reliable
      <4>2. ans.status = broker[o].status
        BY <1>1, <4>1, ReportsSame
      <4>3. ans # Error
        BY <1>1, <4>2
        DEF Error, BrokerOrder, BrokerStatus, OpenAtBroker, Terminal
      <4>4. QED
        BY <1>1, <1>2, <4>1, <4>3 DEF Execution
    <3>2. CASE ReceiveSubmitAnswer(o) \/ ReceivePollAnswer(o)
      <4>1. \/ exec' = [exec EXCEPT ![o] = [NoExecution EXCEPT !.stage = "done"]]
            \/ exec' = [exec EXCEPT ![o] = [NoExecution EXCEPT !.stage = "sleeping"]]
            \/ exec' = [exec EXCEPT ![o].stage = "sleeping", ![o].answer = NoAnswer]
        BY <3>2 DEF ReceiveSubmitAnswer, ReceivePollAnswer, Settle
      <4>2. QED
        BY <1>1, <1>2, <4>1 DEF Execution, NoExecution
    <3>3. QED
      BY <1>3, <3>1, <3>2
  <2>2. \A p \in OrderIds : Executing(p)' = Executing(p)
    BY <1>6 DEF Polls, Executing
  <2>3. /\ UNCHANGED positions
        /\ \A p \in OrderIds \ {o} : exec'[p] = exec[p]
        /\ \A p \in OrderIds : order'[p].side = order[p].side /\ order'[p].symbol = order[p].symbol
    BY <1>6 DEF Polls
  <2>4. BrokerWaits'
    BY <1>4, <2>2 DEF FollowInductive, BrokerWaits
  <2>5. OnlyRefusalsFail'
    BY <1>4, <2>1, <2>3 DEF FollowInductive, OnlyRefusalsFail
  <2>6. Sided'
    BY <2>3 DEF FollowInductive, Sided
  <2>7. \A r \in Symbols, p \in OrderIds : UnderWay(r)'[p] = UnderWay(r)[p]
    BY <1>4, <2>2, <2>3 DEF UnderWay
  <2>8. Followed'
    BY <1>4, <2>3, <2>7, FollowedStays DEF FollowInductive
  <2>9. QED
    BY <2>4, <2>5, <2>6, <2>8 DEF FollowInductive
<1>7. QED
  BY <1>5, <1>6, ExecutorStepKind DEF FollowInductive

(* A broker that only answers and fills: what it has filled it has also    *)
(* delivered, and the execution of the order is not over.                  *)
LEMMA BrokerMoves ==
    ASSUME Reliable, FollowInductive, NEW o \in OrderIds, BrokerStep(o)
    PROVE  /\ Executing(o)
           /\ UNCHANGED <<nextId, order, positions, portfolio>>
           /\ \A p \in OrderIds \ {o} : exec'[p] = exec[p] /\ broker'[p] = broker[p]
           /\ exec'[o].late = exec[o].late
           /\ \/ exec'[o] = exec[o] /\ broker[o].status \in OpenAtBroker
              \/ /\ exec'[o].stage = "answered" /\ exec'[o].call = "submit"
                 /\ exec'[o].answer = Error => broker'[o].status = "refused"
           /\ \/ broker'[o].status \in OpenAtBroker \cup {"filled"}
              \/ broker'[o].status = "refused" /\ broker'[o].filled = 0
           /\ broker'[o].qty = broker[o].qty
           /\ \E q \in Nat :
                 /\ broker'[o].filled = broker[o].filled + q
                 /\ holdings' = [holdings EXCEPT ![order[o].symbol] =
                                     holdings[order[o].symbol] + Signed(order[o].side, q)]
<1>1. /\ exec \in [OrderIds -> Execution]
      /\ broker \in [OrderIds -> BrokerOrder]
      /\ holdings \in [Symbols -> Int]
      /\ order[o].symbol \in Symbols /\ order[o].side \in OrderSide
      /\ broker[o].filled \in Nat /\ broker[o].qty \in Nat
      /\ exec[o] \in Execution /\ broker[o] \in BrokerOrder
  BY FollowTypes DEF FollowInductive
<1>2. BrokerAnswersSubmit(o) \/ BrokerFills(o)
  BY DEF BrokerStep, BrokerEnds, Reliable
<1>3. Executing(o)
  BY <1>2 DEF BrokerAnswersSubmit, BrokerFills, FollowInductive, BrokerWaits, AtRest, OpenAtBroker
<1>4. broker[o].filled <= broker[o].qty
  BY DEF FollowInductive, LedgerInductive, Inductive, Consistent, FilledIsWhole
<1>5. Signed(order[o].side, 0) = 0
  BY DEF Signed
<1>6. holdings = [holdings EXCEPT ![order[o].symbol] =
                      holdings[order[o].symbol] + Signed(order[o].side, 0)]
  BY <1>1, <1>5
<1>7. ASSUME NEW b \in BrokerOrder, NEW q \in Nat, NEW p
      PROVE  /\ Filled(b, q, p).filled = b.filled + q
             /\ Filled(b, q, p).qty = b.qty
             /\ Filled(b, q, p).status \in {"partially_filled", "filled"}
  BY DEF Filled, BrokerOrder
<1>8. CASE BrokerFills(o)
  <2>1. PICK q \in FillSizes(broker[o]), p \in FillPrices(broker[o]) :
            /\ broker' = [broker EXCEPT ![o] = Filled(broker[o], q, p)]
            /\ Deliver(o, q)
    BY <1>8 DEF BrokerFills
  <2>2. q \in Nat
    BY <1>1, <1>4 DEF FillSizes
  <2>3. broker[o].status \in OpenAtBroker /\ UNCHANGED <<nextId, order, positions, portfolio, exec>>
    BY <1>8 DEF BrokerFills, platformVars, bookVars
  <2>4. broker'[o] = Filled(broker[o], q, p) /\ \A r \in OrderIds \ {o} : broker'[r] = broker[r]
    BY <1>1, <2>1
  <2>5. /\ broker'[o].filled = broker[o].filled + q
        /\ broker'[o].qty = broker[o].qty
        /\ broker'[o].status \in OpenAtBroker \cup {"filled"}
    BY <1>1, <1>7, <2>2, <2>4 DEF OpenAtBroker
  <2>6. QED
    BY <1>3, <2>1, <2>2, <2>3, <2>4, <2>5 DEF Deliver
<1>9. CASE BrokerAnswersSubmit(o)
  <2> DEFINE accepted == [broker[o] EXCEPT !.status = "open"]
  <2>1. /\ broker[o].status = "requested"
        /\ UNCHANGED <<nextId, order, positions, portfolio>>
    BY <1>9 DEF BrokerAnswersSubmit, bookVars
  <2>2. broker[o].filled = 0
    BY <2>1 DEF FollowInductive, LedgerInductive, Inductive, Consistent, FilledIsWhole
  <2>3. accepted \in BrokerOrder /\ accepted.filled = 0 /\ accepted.qty = broker[o].qty
        /\ accepted.status = "open"
    BY <1>1, <2>2 DEF BrokerOrder, BrokerStatus, OpenAtBroker
  <2>4. exec[o].stage = "submitting"
    <3>1. exec[o].stage \notin {"sleeping"}
      BY <2>1
      DEF FollowInductive, LedgerInductive, Inductive, Consistent, AcceptedBeforePolled,
          OpenAtBroker, Terminal
    <3>2. exec[o].stage = "answered" => exec[o].answer = Error
      BY <2>1
      DEF FollowInductive, LedgerInductive, Inductive, Consistent, AcceptedBeforePolled,
          OpenAtBroker, Terminal
    <3>3. QED
      BY <1>3, <2>1, <3>1, <3>2 DEF Executing, FollowInductive, OnlyRefusalsFail
  <2>5. ASSUME NEW ans, AnswerSubmit(o, ans)
        PROVE  /\ exec'[o].stage = "answered" /\ exec'[o].call = "submit"
               /\ exec'[o].answer = ans /\ exec'[o].late = exec[o].late
               /\ \A p \in OrderIds \ {o} : exec'[p] = exec[p]
    BY <1>1, <2>4, <2>5 DEF AnswerSubmit, Execution
  <2>6. \/ /\ broker' = [broker EXCEPT ![o] = accepted]
           /\ \E ans \in {accepted} : AnswerSubmit(o, ans)
           /\ UNCHANGED holdings
        \/ \E p \in Prices :
              /\ broker' = [broker EXCEPT ![o] = Filled(accepted, accepted.qty, p)]
              /\ AnswerSubmit(o, Filled(accepted, accepted.qty, p))
              /\ Deliver(o, accepted.qty)
        \/ /\ broker' = [broker EXCEPT ![o].status = "refused"]
           /\ AnswerSubmit(o, Error)
           /\ UNCHANGED holdings
    BY <1>9 DEF BrokerAnswersSubmit, Reliable
  <2> HIDE DEF accepted
  <2>7. CASE /\ broker' = [broker EXCEPT ![o] = accepted]
             /\ AnswerSubmit(o, accepted)
             /\ UNCHANGED holdings
    <3>1. broker'[o] = accepted /\ \A r \in OrderIds \ {o} : broker'[r] = broker[r]
      BY <1>1, <2>7
    <3>2. accepted # Error
      BY <2>3 DEF Error
    <3>3. broker'[o].filled = broker[o].filled + 0
      BY <2>2, <2>3, <3>1
    <3>4. QED
      BY <1>3, <1>6, <2>1, <2>3, <2>5, <2>7, <3>1, <3>2, <3>3 DEF OpenAtBroker
  <2>8. ASSUME NEW p \in Prices,
               broker' = [broker EXCEPT ![o] = Filled(accepted, accepted.qty, p)],
               AnswerSubmit(o, Filled(accepted, accepted.qty, p)),
               Deliver(o, accepted.qty)
        PROVE  /\ broker'[o].status = "filled"
               /\ broker'[o].qty = broker[o].qty
               /\ broker'[o].filled = broker[o].filled + accepted.qty
               /\ \A r \in OrderIds \ {o} : broker'[r] = broker[r]
               /\ exec'[o].answer # Error
    <3>1. broker'[o] = Filled(accepted, accepted.qty, p)
          /\ \A r \in OrderIds \ {o} : broker'[r] = broker[r]
      BY <1>1, <2>8
    <3>2. /\ broker'[o].filled = accepted.qty /\ broker'[o].qty = broker[o].qty
          /\ broker'[o].status = "filled"
      <4>1. accepted.filled + accepted.qty = accepted.qty
        BY <1>1, <2>3
      <4>2. QED
        BY <2>3, <3>1, <4>1 DEF Filled, BrokerOrder
    <3>3. exec'[o].answer = broker'[o]
      BY <2>5, <2>8, <3>1
    <3>4. QED
      BY <1>1, <2>2, <2>3, <3>1, <3>2, <3>3 DEF Error
  <2>9. CASE \E p \in Prices :
              /\ broker' = [broker EXCEPT ![o] = Filled(accepted, accepted.qty, p)]
              /\ AnswerSubmit(o, Filled(accepted, accepted.qty, p))
              /\ Deliver(o, accepted.qty)
    <3>1. PICK p \in Prices :
              /\ broker' = [broker EXCEPT ![o] = Filled(accepted, accepted.qty, p)]
              /\ AnswerSubmit(o, Filled(accepted, accepted.qty, p))
              /\ Deliver(o, accepted.qty)
      BY <2>9
    <3>2. accepted.qty \in Nat
      BY <1>1, <2>3
    <3>3. QED
      BY <1>3, <2>1, <2>5, <2>8, <3>1, <3>2 DEF Deliver
  <2>10. CASE /\ broker' = [broker EXCEPT ![o].status = "refused"]
              /\ AnswerSubmit(o, Error)
              /\ UNCHANGED holdings
    <3>1. /\ broker'[o].status = "refused" /\ broker'[o].filled = broker[o].filled
          /\ broker'[o].qty = broker[o].qty
          /\ \A r \in OrderIds \ {o} : broker'[r] = broker[r]
      BY <1>1, <2>10 DEF BrokerOrder
    <3>2. broker'[o].filled = broker[o].filled + 0
      BY <2>2, <3>1
    <3>3. QED
      BY <1>3, <1>6, <2>1, <2>2, <2>5, <2>10, <3>1, <3>2
  <2>11. QED
    BY <2>6, <2>7, <2>9, <2>10
<1>10. QED
  BY <1>2, <1>8, <1>9

LEMMA BrokerFollows ==
    ASSUME Reliable, FollowInductive, LedgerInductive', NEW o \in OrderIds, BrokerStep(o)
    PROVE  FollowInductive'
<1>0. PICK x \in Symbols : x = order[o].symbol
  BY FollowTypes DEF FollowInductive
<1>1. /\ holdings \in [Symbols -> Int]
      /\ order[o].side \in OrderSide
      /\ broker[o].filled \in Nat
      /\ \A s \in Symbols : Net(positions[s]) \in Int
  BY FollowTypes, NetType DEF FollowInductive
<1>2. /\ Executing(o)
      /\ UNCHANGED <<order, positions>>
      /\ \A p \in OrderIds \ {o} : exec'[p] = exec[p] /\ broker'[p] = broker[p]
      /\ exec'[o].late = exec[o].late
      /\ \/ exec'[o] = exec[o] /\ broker[o].status \in OpenAtBroker
         \/ /\ exec'[o].stage = "answered" /\ exec'[o].call = "submit"
            /\ exec'[o].answer = Error => broker'[o].status = "refused"
      /\ \/ broker'[o].status \in OpenAtBroker \cup {"filled"}
         \/ broker'[o].status = "refused" /\ broker'[o].filled = 0
  BY BrokerMoves
<1>3. \A p \in OrderIds : Executing(p)' = Executing(p)
  BY <1>2 DEF Executing
<1>4. Sided'
  BY <1>2 DEF FollowInductive, Sided
<1>5. BrokerWaits'
  BY <1>2, <1>3 DEF FollowInductive, BrokerWaits, AtRest, OpenAtBroker
<1>6. OnlyRefusalsFail'
  <2>1. /\ ~exec'[o].late /\ exec'[o].call # "cancel"
        /\ exec'[o].stage = "answered" /\ exec'[o].answer = Error
              => broker'[o].status = "refused"
    BY <1>2 DEF FollowInductive, OnlyRefusalsFail, OpenAtBroker
  <2>2. QED
    BY <1>2, <2>1 DEF FollowInductive, OnlyRefusalsFail
<1>8. PICK q \in Nat :
          /\ broker'[o].filled = broker[o].filled + q
          /\ holdings' = [holdings EXCEPT ![x] = holdings[x] + Signed(order[o].side, q)]
  BY <1>0, BrokerMoves
<1>9. /\ holdings'[x] = holdings[x] + Signed(order[o].side, q)
      /\ \A s \in Symbols \ {x} : holdings'[s] = holdings[s]
  BY <1>1, <1>8
<1>10. PICK d \in [Symbols -> Int] :
           \A s \in Symbols : d[s] = IF s = x THEN Signed(order[o].side, q) ELSE 0
  <2>1. [s \in Symbols |-> IF s = x THEN Signed(order[o].side, q) ELSE 0] \in [Symbols -> Int]
    BY DEF Signed
  <2>2. QED
    BY <2>1
<1>11. ASSUME NEW s \in Symbols
       PROVE  /\ UnderWay(s)'[o] = UnderWay(s)[o] + d[s]
              /\ \A p \in OrderIds \ {o} : UnderWay(s)'[p] = UnderWay(s)[p]
              /\ holdings'[s] + Net(positions[s]) = holdings[s] + Net(positions'[s]) + d[s]
  <2>1. UnderWay(s)'[o] = UnderWay(s)[o] + d[s]
    BY <1>0, <1>1, <1>2, <1>3, <1>8, <1>10 DEF UnderWay, Signed
  <2>2. \A p \in OrderIds \ {o} : UnderWay(s)'[p] = UnderWay(s)[p]
    BY <1>2, <1>3 DEF UnderWay
  <2>3. holdings'[s] = holdings[s] + d[s]
    BY <1>1, <1>9, <1>10
  <2>4. d[s] \in Int /\ holdings[s] \in Int /\ Net(positions[s]) \in Int
    BY <1>1
  <2>5. QED
    BY <1>2, <2>1, <2>2, <2>3, <2>4
<1>12. Followed'
  BY <1>11, FollowedMoves DEF FollowInductive
<1>13. QED
  BY <1>4, <1>5, <1>6, <1>12 DEF FollowInductive

LEMMA ModifyFollows ==
    ASSUME FollowInductive, LedgerInductive', NEW o \in OrderIds, NEW qty, NEW ref,
           ModifyOrder(o, qty, ref)
    PROVE  FollowInductive'
<1>1. order \in [OrderIds -> Order]
  BY FollowTypes DEF FollowInductive
<1>2. /\ UNCHANGED <<exec, positions, broker, holdings>>
      /\ order' = [order EXCEPT ![o].qty = qty, ![o].ref = ref]
  BY DEF ModifyOrder, brokerVars
<1>3. \A p \in OrderIds : order'[p].side = order[p].side /\ order'[p].symbol = order[p].symbol
  BY <1>1, <1>2 DEF Order
<1>4. \A p \in OrderIds : Executing(p)' = Executing(p)
  BY <1>2 DEF Executing
<1>5. ASSUME NEW s \in Symbols, NEW p \in OrderIds
      PROVE  UnderWay(s)'[p] = UnderWay(s)[p]
  <2>1. broker'[p] = broker[p]
    BY <1>2
  <2>2. QED
    BY <1>3, <1>4, <2>1 DEF UnderWay
<1>6. BrokerWaits' /\ OnlyRefusalsFail' /\ Sided'
  BY <1>2, <1>4 DEF FollowInductive, BrokerWaits, OnlyRefusalsFail, Sided
<1>7. Followed'
  BY <1>2, <1>5, FollowedStays DEF FollowInductive
<1>8. QED
  BY <1>6, <1>7 DEF FollowInductive

LEMMA FollowInit ==
    ASSUME Init
    PROVE  FollowInductive
<1>1. LedgerInductive
  BY LedgerInductiveInit
<1>2. \A o \in OrderIds : exec[o] = NoExecution /\ broker[o] = NoBrokerOrder /\ ~Executing(o)
  BY DEF Init, Executing, NoExecution
<1>3. BrokerWaits /\ OnlyRefusalsFail
  BY <1>2 DEF BrokerWaits, OnlyRefusalsFail, NoExecution, NoBrokerOrder, AtRest, OpenAtBroker
<1>4. Sided /\ \A s \in Symbols : holdings[s] = 0 /\ Net(positions[s]) = 0
  BY DEF Init, Sided, Flat, Net, NoPosition
<1>5. Followed
  <2>1. ASSUME NEW s \in Symbols
        PROVE  holdings[s] = Net(positions[s]) + Total(UnderWay(s), MaxOrders)
    <3>1. \A o \in 1..MaxOrders : UnderWay(s)[o] = 0
      BY <1>2 DEF UnderWay, OrderIds
    <3>2. Total(UnderWay(s), MaxOrders) = 0
      BY <3>1, TotalZero, MaxOrdersAssumption
    <3>3. QED
      BY <1>4, <3>2
  <2>2. QED
    BY <2>1 DEF Followed
<1>6. QED
  BY <1>1, <1>3, <1>4, <1>5 DEF FollowInductive

(* What a step can be with no request of the API and no stop *)
LEMMA StepIsOne ==
    ASSUME NoRequests, Reliable, [Next]_vars
    PROVE  \/ \E signal \in OrderSide, s \in Symbols, price \in Prices :
                 HandleTick(signal, s, price)
           \/ \E o \in OrderIds : ExecutorStep(o)
           \/ \E o \in OrderIds : BrokerStep(o)
           \/ \E o \in OrderIds, qty \in ModQuantities, ref \in Prices : ModifyOrder(o, qty, ref)
           \/ UNCHANGED vars
BY DEF NoRequests, Reliable, Next, StopRuntime

LEMMA FollowStep ==
    ASSUME NoRequests, Reliable, FollowInductive, [Next]_vars
    PROVE  FollowInductive'
<1>1. LedgerInductive'
  BY LedgerInductiveStep DEF FollowInductive
<1>2. CASE UNCHANGED vars
  <2>1. UNCHANGED <<order, exec, positions, broker, holdings>>
    BY <1>2 DEF vars, platformVars, brokerVars
  <2>2. \A p \in OrderIds : Executing(p)' = Executing(p)
    BY <2>1 DEF Executing
  <2>3. \A s \in Symbols, p \in OrderIds : UnderWay(s)'[p] = UnderWay(s)[p]
    BY <2>1, <2>2 DEF UnderWay
  <2>4. Followed'
    BY <2>1, <2>3, FollowedStays DEF FollowInductive
  <2>5. BrokerWaits' /\ OnlyRefusalsFail' /\ Sided'
    BY <2>1, <2>2 DEF FollowInductive, BrokerWaits, OnlyRefusalsFail, Sided
  <2>6. QED
    BY <1>1, <2>4, <2>5 DEF FollowInductive
<1>3. QED
  BY <1>1, <1>2, StepIsOne, TickFollows, ExecutorFollows, BrokerFollows, ModifyFollows

LEMMA FollowInvariance ==
    ASSUME NoRequests, Reliable
    PROVE  Spec => []FollowInductive
BY FollowInit, FollowStep, PTL DEF Spec

LEMMA BetweenTicks == FollowInductive => PositionsFollowBroker
<1>1. SUFFICES ASSUME FollowInductive, InProgress = {}, NEW s \in Symbols
               PROVE  Net(positions[s]) = holdings[s]
  BY DEF PositionsFollowBroker
<1>2. \A o \in 1..MaxOrders : UnderWay(s)[o] = 0
  BY <1>1 DEF UnderWay, InProgress, OrderIds
<1>3. Total(UnderWay(s), MaxOrders) = 0
  BY <1>2, TotalZero, MaxOrdersAssumption
<1>4. Net(positions[s]) \in Int
  BY <1>1, NetType DEF FollowInductive
<1>5. QED
  BY <1>1, <1>3, <1>4 DEF FollowInductive, Followed

(* With no request under way and a broker that answers, the tracked        *)
(* positions are the broker's between ticks: for any number of streams,    *)
(* orders and symbols, whether the fills come in pieces, without an        *)
(* average price, or are not persisted, and whatever the API modifies      *)
(* meanwhile (PositionSynchronizer, OMS._record_fill_integrations).        *)
THEOREM PositionsFollow ==
    ASSUME NoRequests, Reliable
    PROVE  Spec => []PositionsFollowBroker
BY FollowInvariance, BetweenTicks, PTL

-----------------------------------------------------------------------------
(***************************************************************************)
(* One stream and one instrument.                                          *)
(***************************************************************************)
OneAtATime == \A o, p \in InProgress : o = p

LongOnly ==
    \A s \in Symbols :
        \/ positions[s] = NoPosition
        \/ positions[s].side = "long" /\ positions[s].qty > 0

AllPaid == \A o \in OrderIds : order[o].reason # "cash"

(* The portfolio holds what is tracked, less the buys it turned away. *)
BookWithinPosition ==
    \A s \in Symbols :
        /\ portfolio.qty <= Net(positions[s])
        /\ AllPaid => portfolio.qty = Net(positions[s])

SellsWhatIsHeld ==
    \A o \in InProgress :
        order[o].side = "sell" => broker[o].qty = Net(positions[order[o].symbol])

SingleInductive ==
    /\ LedgerInductive
    /\ OneAtATime
    /\ LongOnly
    /\ BookWithinPosition
    /\ SellsWhatIsHeld
    /\ BooksBalance

(* A buy adds to a long position, a sell of all of it closes it. *)
LEMMA LongFill ==
    ASSUME NEW pos \in PositionRecord, NEW q \in Nat \ {0},
           \/ pos = NoPosition
           \/ pos.side = "long" /\ pos.qty > 0
    PROVE  /\ ApplyFill(pos, "buy", q).side = "long"
           /\ ApplyFill(pos, "buy", q).qty > 0
           /\ Net(ApplyFill(pos, "buy", q)) = Net(pos) + q
           /\ Net(pos) = q => ApplyFill(pos, "sell", q) = NoPosition
           /\ Net(pos) \in Nat
           /\ Net(NoPosition) = 0
BY DEF ApplyFill, Net, Signed, Tracked, NoPosition, PositionRecord

LEMMA BookingBuy ==
    ASSUME NEW pf \in Ledger, NEW ord \in Order, HasFill(ord), ord.side = "buy"
    PROVE  /\ Unaffordable(pf, ord) => LedgerAfter(pf, ord).qty = pf.qty
           /\ ~Unaffordable(pf, ord) =>
                 /\ LedgerAfter(pf, ord).qty = pf.qty + ord.fill.qty
                 /\ Balanced(pf, Capital) => Balanced(LedgerAfter(pf, ord), Capital)
<1> DEFINE released == Release(pf, ord.reserved)
           fill == ord.fill
           paid == [released EXCEPT !.cash = released.cash - TotalCost(fill)]
<1>1. fill \in Fill /\ ord.reserved \in Nat
  BY DEF Order
<1>2. /\ released \in Ledger
      /\ released.cash = pf.cash /\ released.qty = pf.qty /\ released.basis = pf.basis
      /\ released.entryCost = pf.entryCost /\ released.realized = pf.realized
  BY <1>1, LedgerOpsType DEF Release, Ledger
<1> HIDE DEF released
<1>3. CASE Unaffordable(pf, ord)
  BY <1>2, <1>3 DEF LedgerAfter, released
<1>4. CASE ~Unaffordable(pf, ord)
  <2>1. PICK value \in Nat : value = fill.price * fill.qty
    BY <1>1 DEF Fill
  <2>2. fill.qty \in Nat /\ fill.cost \in Nat
    BY <1>1 DEF Fill
  <2>3. TotalCost(fill) = value + fill.cost
    BY <2>1 DEF TotalCost
  <2>4. /\ paid \in Ledger
        /\ paid.cash = pf.cash - (value + fill.cost) /\ paid.qty = pf.qty
        /\ paid.basis = pf.basis /\ paid.entryCost = pf.entryCost
        /\ paid.realized = pf.realized
    <3>1. released.cash - TotalCost(fill) \in Int
      BY <1>1, <1>2, LedgerOpsType DEF Ledger
    <3>2. paid \in Ledger
      BY <1>2, <3>1, CashType
    <3>3. QED
      BY <1>2, <2>3, <3>2 DEF Ledger
  <2>5. LedgerAfter(pf, ord) = OpenLong(paid, fill)
    BY <1>4 DEF LedgerAfter, released
  <2> HIDE DEF paid, fill
  <2>6. /\ OpenLong(paid, fill).cash = paid.cash
        /\ OpenLong(paid, fill).qty = paid.qty + fill.qty
        /\ OpenLong(paid, fill).basis = paid.basis + value
        /\ OpenLong(paid, fill).entryCost = paid.entryCost + fill.cost
        /\ OpenLong(paid, fill).realized = paid.realized
    BY <2>1, <2>4 DEF OpenLong, Ledger
  <2>7. /\ pf.cash \in Int /\ pf.basis \in Nat /\ pf.entryCost \in Nat /\ pf.realized \in Int
        /\ pf.qty \in Nat
    BY DEF Ledger
  <2>8. Capital \in Int
    BY CapitalAssumption
  <2>9. LedgerAfter(pf, ord).qty = pf.qty + ord.fill.qty
    BY <2>4, <2>5, <2>6 DEF fill
  <2>10. Balanced(pf, Capital) => Balanced(LedgerAfter(pf, ord), Capital)
    BY <2>1, <2>2, <2>4, <2>5, <2>6, <2>7, <2>8 DEF Balanced
  <2>11. QED
    BY <1>4, <2>9, <2>10
<1>5. QED
  BY <1>3, <1>4

(* A sell closes the book; the books still balance when it sold what was booked. *)
LEMMA BookingSell ==
    ASSUME NEW pf \in Ledger, NEW ord \in Order, HasFill(ord), ord.side # "buy"
    PROVE  /\ ~Unaffordable(pf, ord)
           /\ LedgerAfter(pf, ord).qty = 0
           /\ Balanced(pf, Capital) /\ pf.qty = ord.fill.qty /\ pf.qty > 0
                  => Balanced(LedgerAfter(pf, ord), Capital)
<1> DEFINE fill == ord.fill
           paid == [pf EXCEPT !.cash = pf.cash + Proceeds(fill)]
<1>1. fill \in Fill
  BY DEF Order
<1>2. PICK value \in Nat : value = fill.price * fill.qty
  BY <1>1 DEF Fill
<1>3. fill.qty \in Nat /\ fill.cost \in Nat
  BY <1>1 DEF Fill
<1>4. /\ pf.cash \in Int /\ pf.basis \in Nat /\ pf.entryCost \in Nat /\ pf.realized \in Int
      /\ pf.qty \in Nat
  BY DEF Ledger
<1>5. Proceeds(fill) = value - fill.cost
  BY <1>2 DEF Proceeds
<1>6. /\ paid \in Ledger
      /\ paid.cash = pf.cash + (value - fill.cost) /\ paid.qty = pf.qty
      /\ paid.basis = pf.basis /\ paid.entryCost = pf.entryCost
      /\ paid.realized = pf.realized
  <2>1. pf.cash + Proceeds(fill) \in Int
    BY <1>3, <1>4, <1>5
  <2>2. paid \in Ledger
    BY <2>1, CashType
  <2>3. QED
    BY <1>5, <2>2 DEF Ledger
<1>7. ~Unaffordable(pf, ord)
  BY DEF Unaffordable
<1>8. LedgerAfter(pf, ord) = ClosePosition(paid, fill)
  BY <1>7 DEF LedgerAfter
<1> HIDE DEF paid
<1>9. LedgerAfter(pf, ord).qty = 0
  BY <1>4, <1>6, <1>8 DEF ClosePosition, IsOpen, Ledger
<1>10. ASSUME Balanced(pf, Capital), pf.qty = ord.fill.qty, pf.qty > 0
       PROVE  Balanced(LedgerAfter(pf, ord), Capital)
  <2>1. IsOpen(paid)
    BY <1>6, <1>10 DEF IsOpen
  <2>2. fill.price * paid.qty = value
    BY <1>2, <1>6, <1>10
  <2>3. ClosePosition(paid, fill) =
            [paid EXCEPT !.qty = 0, !.basis = 0, !.entryCost = 0,
                         !.realized = paid.realized + value - paid.basis
                                          - paid.entryCost - fill.cost]
    BY <2>1, <2>2 DEF ClosePosition
  <2> HIDE DEF fill
  <2>4. /\ ClosePosition(paid, fill).cash = paid.cash
        /\ ClosePosition(paid, fill).basis = 0
        /\ ClosePosition(paid, fill).entryCost = 0
        /\ ClosePosition(paid, fill).realized =
               paid.realized + value - paid.basis - paid.entryCost - fill.cost
    BY <1>6, <2>3 DEF Ledger
  <2>5. Capital \in Int
    BY CapitalAssumption
  <2>6. pf.cash + pf.basis + pf.entryCost = Capital + pf.realized
    BY <1>10 DEF Balanced
  <2>7. QED
    BY <1>2, <1>3, <1>4, <1>6, <1>8, <2>4, <2>5, <2>6 DEF Balanced
<1>11. QED
  BY <1>7, <1>9, <1>10

(* What the tracked positions and the books say is about them alone. *)
LEMMA BooksUnmoved ==
    ASSUME SingleInductive, UNCHANGED <<positions, portfolio>>,
           \A o \in OrderIds : order[o].reason = "cash" => order'[o].reason = "cash"
    PROVE  LongOnly' /\ BookWithinPosition' /\ BooksBalance'
<1>1. AllPaid' => AllPaid
  BY DEF AllPaid
<1>2. BookWithinPosition'
  BY <1>1 DEF SingleInductive, BookWithinPosition
<1>3. LongOnly' /\ BooksBalance'
  BY <1>1 DEF SingleInductive, LongOnly, BooksBalance, AllPaid
<1>4. QED
  BY <1>2, <1>3

LEMMA TickSingle ==
    ASSUME OneStream, SingleInductive, LedgerInductive',
           NEW signal \in OrderSide, NEW s \in Symbols, NEW price \in Prices,
           HandleTick(signal, s, price)
    PROVE  SingleInductive'
<1>1. /\ order \in [OrderIds -> Order]
      /\ broker \in [OrderIds -> BrokerOrder]
      /\ exec \in [OrderIds -> Execution]
      /\ positions[s] \in PositionRecord
      /\ portfolio \in Ledger
  BY FollowTypes DEF SingleInductive
<1>2. PICK o \in OrderIds : o = nextId + 1
  BY MaxOrdersAssumption
  DEF HandleTick, SingleInductive, LedgerInductive, Inductive, TypeOK, OrderIds
<1>3. nextId \in Nat /\ exec[o].stage = "none"
  BY <1>2 DEF SingleInductive, LedgerInductive, Inductive, TypeOK, Consistent,
              IdsInOrder
<1>4. order[o].reason # "cash"
  BY <1>3 DEF SingleInductive, LedgerInductive, OpenIsUnfilled
<1>5. /\ UNCHANGED <<positions, portfolio>>
      /\ \A p \in OrderIds \ {o} : order'[p] = order[p] /\ exec'[p] = exec[p]
  BY <1>1, <1>2 DEF HandleTick
<1>6. LongOnly' /\ BookWithinPosition' /\ BooksBalance'
  BY <1>4, <1>5, BooksUnmoved
<1>7. ASSUME NEW p \in InProgress'
      PROVE  p = o
  <2>1. InProgress = {}
    BY NothingInProgress DEF HandleTick, SingleInductive
  <2>2. QED
    BY <1>5, <1>7, <2>1 DEF InProgress, Executing
<1>8. ASSUME o \in InProgress', order'[o].side = "sell"
      PROVE  broker'[o].qty = Net(positions'[order'[o].symbol])
  <2> DEFINE ord == SignalToOrder(signal, s, price)
  <2>1. exec' # [exec EXCEPT ![o].stage = "done"]
    BY <1>1, <1>8 DEF InProgress, Executing, Execution
  <2>2. /\ order' = [order EXCEPT ![o] = Submit(ord)]
        /\ broker' = [broker EXCEPT ![o] =
                          [NoBrokerOrder EXCEPT !.status = "requested", !.qty = ord.qty]]
    BY <1>2, <2>1 DEF HandleTick
  <2>3. /\ order'[o].side = ord.side
        /\ order'[o].symbol = ord.symbol
        /\ broker'[o].qty = ord.qty
    BY <1>1, <2>2
    DEF Submit, SignalToOrder, EntryOrder, ExitOrder, NewOrder, NoBrokerOrder
  <2>4. signal # "buy"
    BY <1>8, <2>3 DEF SignalToOrder, EntryOrder, NewOrder
  <2>5. ord.qty = PositionQuantity(s) /\ ord.symbol = s
    BY <2>4 DEF SignalToOrder, ExitOrder, NewOrder
  <2>6. PositionQuantity(s) > 0
    BY <2>4 DEF HandleTick, Signalled
  <2>7. positions[s] # NoPosition
    <3>1. portfolio.qty <= Net(positions[s]) /\ portfolio.qty \in Nat
      BY <1>1 DEF SingleInductive, BookWithinPosition, Ledger
    <3>2. Net(NoPosition) = 0
      BY DEF Net, NoPosition
    <3>3. QED
      BY <2>6, <3>1, <3>2 DEF PositionQuantity
  <2>8. PositionQuantity(s) = Net(positions[s])
    BY <2>7 DEF SingleInductive, LongOnly, PositionQuantity, Net
  <2>9. QED
    BY <1>5, <2>3, <2>5, <2>8
<1>9. SellsWhatIsHeld'
  BY <1>7, <1>8 DEF SellsWhatIsHeld
<1>10. OneAtATime'
  BY <1>7 DEF OneAtATime
<1>11. QED
  BY <1>6, <1>9, <1>10 DEF SingleInductive

(* A step that leaves the books alone, and with them the orders that sell *)
LEMMA QuietSingle ==
    ASSUME SingleInductive, LedgerInductive', UNCHANGED <<positions, portfolio>>,
           InProgress' \subseteq InProgress,
           \A p \in OrderIds : /\ order'[p].side = order[p].side
                               /\ order'[p].symbol = order[p].symbol
                               /\ order'[p].reason = order[p].reason
                               /\ broker'[p].qty = broker[p].qty
    PROVE  SingleInductive'
<1>1. LongOnly' /\ BookWithinPosition' /\ BooksBalance'
  BY BooksUnmoved
<1>2. SellsWhatIsHeld'
  BY DEF SingleInductive, SellsWhatIsHeld, InProgress
<1>3. OneAtATime'
  BY DEF SingleInductive, OneAtATime
<1>4. QED
  BY <1>1, <1>2, <1>3 DEF SingleInductive

(* A buy or a sell is settled at the broker, in the positions and in the books. *)
LEMMA SettlesSingle ==
    ASSUME OneSymbol, ReliableStore, SingleInductive, LedgerInductive',
           NEW o \in OrderIds, NEW ord \in Order, Settles(o, ord), UNCHANGED broker
    PROVE  SingleInductive'
<1>1. LedgerInductive
  BY DEF SingleInductive
<1>2. /\ positions \in [Symbols -> PositionRecord]
      /\ portfolio \in Ledger
      /\ order \in [OrderIds -> Order]
      /\ broker[o].filled \in Nat /\ broker[o].qty \in Nat
      /\ order[o].side \in OrderSide
  BY <1>1, FollowTypes
<1>3. PICK x \in Symbols : x = order[o].symbol /\ \A s \in Symbols : s = x
  BY <1>1, FollowTypes DEF OneSymbol
<1>4. /\ \A p \in OrderIds \ {o} : order'[p] = order[p] /\ exec'[p] = exec[p]
      /\ exec'[o].stage = "done"
  BY <1>1, SettlesEffect
<1>5. /\ order[o].reason # "cash" /\ o \notin applied
      /\ ord.side = order[o].side /\ ord.symbol = x
  BY <1>1, <1>3 DEF Settles, LedgerInductive, OpenIsUnfilled
<1>6. InProgress' = {} /\ o \in InProgress
  <2>1. Executing(o) /\ ~Executing(o)'
    BY <1>4 DEF Settles, Executing
  <2>2. \A p \in OrderIds \ {o} : ~Executing(p) /\ ~Executing(p)'
    BY <1>4, <2>1 DEF SingleInductive, OneAtATime, InProgress, Executing
  <2>3. QED
    BY <2>1, <2>2 DEF InProgress
<1>7. SellsWhatIsHeld' /\ OneAtATime'
  BY <1>6 DEF SellsWhatIsHeld, OneAtATime
<1>8. CASE ~HasFill(ord)
  <2>1. UNCHANGED <<positions, portfolio>>
    BY <1>8 DEF Settles, Settle, IntegratesFill
  <2>2. LongOnly' /\ BookWithinPosition' /\ BooksBalance'
    BY <1>4, <1>5, <2>1, BooksUnmoved
  <2>3. QED
    BY <1>7, <2>2 DEF SingleInductive
<1>9. CASE IntegratesFill(ord)
  <2>1. PICK q \in Nat \ {0} : q = broker[o].qty /\ q = ord.fill.qty
    <3>1. /\ broker[o].status = "filled"
          /\ ord.fill.qty = broker[o].filled
      <4>1. exec[o].answer \in Reports(broker[o]) /\ broker[o] \in BrokerOrder
        BY <1>1, <1>9, FollowTypes
        DEF Settles, Terminal, LedgerInductive, Inductive, Consistent, EndedAnswerIsCurrent
      <4>2. broker[o].status = "filled"
        BY <1>9, <4>1, ReportsSame DEF Settles
      <4>3. order'[o].fill = ord.fill
        BY <1>1, SettlesEffect
      <4>4. ord.fill.qty = broker[o].filled
        BY <1>9, <4>3
        DEF LedgerInductive, Inductive, Consistent, FillIsReal, HasFill, IntegratesFill
      <4>5. QED
        BY <4>2, <4>4
    <3>2. broker[o].filled = broker[o].qty /\ broker[o].qty > 0
      BY <1>1, <3>1 DEF LedgerInductive, Inductive, Consistent, FilledIsWhole
    <3>3. QED
      BY <1>2, <3>1, <3>2
  <2>2. HasFill(ord)
    BY <1>9 DEF IntegratesFill
  <2>3. /\ portfolio' = LedgerAfter(portfolio, ord)
        /\ order'[o] = OrderAfter(portfolio, ord)
    BY <1>2, <1>5, <1>9 DEF Settles, Settle, Persisted, ReliableStore
  <2>4. positions'[x] = ApplyFill(positions[x], ord.side, q)
    BY <1>2, <1>5, <1>9, <2>1 DEF Settles, Settle
  <2>5. /\ positions[x] \in PositionRecord
        /\ \/ positions[x] = NoPosition
           \/ positions[x].side = "long" /\ positions[x].qty > 0
        /\ portfolio.qty <= Net(positions[x])
        /\ AllPaid => portfolio.qty = Net(positions[x])
        /\ AllPaid => Balanced(portfolio, Capital)
    BY <1>2 DEF SingleInductive, LongOnly, BookWithinPosition, BooksBalance, AllPaid
  <2>6. /\ portfolio.qty \in Nat /\ portfolio' \in Ledger
        /\ Net(positions[x]) \in Nat
    BY <1>1, <1>2, <2>5, LongFill, FollowTypes DEF Ledger, LedgerInductive, Inductive, TypeOK
  <2>7. AllPaid' => AllPaid
    BY <1>4, <1>5 DEF AllPaid
  <2>8. CASE ord.side = "buy"
    <3>1. /\ positions'[x].side = "long" /\ positions'[x].qty > 0
          /\ Net(positions'[x]) = Net(positions[x]) + q
      BY <2>4, <2>5, <2>8, LongFill
    <3>2. LongOnly'
      BY <1>3, <3>1 DEF LongOnly
    <3>3. CASE Unaffordable(portfolio, ord)
      <4>1. portfolio'.qty = portfolio.qty
        BY <1>2, <2>2, <2>3, <2>8, <3>3, BookingBuy
      <4>2. ~AllPaid'
        BY <2>3, <3>3 DEF AllPaid, OrderAfter, Reject, Order
      <4>3. BookWithinPosition'
        BY <1>3, <2>5, <2>6, <3>1, <4>1, <4>2 DEF BookWithinPosition
      <4>4. BooksBalance'
        BY <4>2 DEF BooksBalance, AllPaid
      <4>5. QED
        BY <1>7, <3>2, <4>3, <4>4 DEF SingleInductive
    <3>4. CASE ~Unaffordable(portfolio, ord)
      <4>1. /\ portfolio'.qty = portfolio.qty + q
            /\ Balanced(portfolio, Capital) => Balanced(portfolio', Capital)
        BY <1>2, <2>1, <2>2, <2>3, <2>8, <3>4, BookingBuy
      <4>2. BookWithinPosition'
        BY <1>3, <2>5, <2>6, <2>7, <3>1, <4>1 DEF BookWithinPosition
      <4>3. BooksBalance'
        BY <2>5, <2>7, <4>1 DEF BooksBalance, AllPaid, Balanced
      <4>4. QED
        BY <1>7, <3>2, <4>2, <4>3 DEF SingleInductive
    <3>5. QED
      BY <3>3, <3>4
  <2>9. CASE ord.side = "sell"
    <3>1. Net(positions[x]) = q
      BY <1>3, <1>5, <1>6, <2>1, <2>9 DEF SingleInductive, SellsWhatIsHeld
    <3>2. positions'[x] = NoPosition /\ Net(positions'[x]) = 0
      BY <2>4, <2>5, <2>9, <3>1, LongFill
    <3>3. /\ portfolio'.qty = 0
          /\ Balanced(portfolio, Capital) /\ portfolio.qty = q => Balanced(portfolio', Capital)
      BY <1>2, <2>1, <2>2, <2>3, <2>9, BookingSell
    <3>4. LongOnly'
      BY <1>3, <3>2 DEF LongOnly
    <3>5. BookWithinPosition'
      BY <1>3, <3>2, <3>3 DEF BookWithinPosition
    <3>6. BooksBalance'
      BY <2>5, <2>7, <3>1, <3>3 DEF BooksBalance, AllPaid, Balanced
    <3>7. QED
      BY <1>7, <3>4, <3>5, <3>6 DEF SingleInductive
  <2>10. QED
    BY <1>2, <1>5, <2>8, <2>9 DEF OrderSide
<1>10. QED
  BY <1>8, <1>9 DEF Settles

LEMMA SingleInit ==
    ASSUME Init
    PROVE  SingleInductive
<1>1. LedgerInductive
  BY LedgerInductiveInit
<1>2. LongOnly /\ BookWithinPosition /\ BooksBalance
  BY CapitalAssumption
  DEF Init, LongOnly, BookWithinPosition, BooksBalance, Balanced, NewLedger, Net, NoPosition
<1>3. SellsWhatIsHeld /\ OneAtATime
  BY DEF Init, SellsWhatIsHeld, OneAtATime, InProgress, Executing, NoExecution
<1>4. QED
  BY <1>1, <1>2, <1>3 DEF SingleInductive

(* The broker never changes how much an order is for. *)
LEMMA BrokerKeepsSize ==
    ASSUME LedgerInductive, NEW o \in OrderIds, BrokerStep(o)
    PROVE  /\ UNCHANGED <<order, positions, portfolio>>
           /\ InProgress' = InProgress
           /\ \A p \in OrderIds : broker'[p].qty = broker[p].qty
<1>1. broker \in [OrderIds -> BrokerOrder] /\ exec \in [OrderIds -> Execution]
  BY FollowTypes
<1>2. UNCHANGED <<order, positions, portfolio>>
  BY DEF BrokerStep, BrokerAnswersSubmit, BrokerFills, BrokerEnds, platformVars, bookVars
<1>3. exec' = exec \/ \E ans : AnswerSubmit(o, ans)
  BY DEF BrokerStep, BrokerAnswersSubmit, BrokerFills, BrokerEnds, platformVars
<1>4. \A p \in OrderIds : Executing(p)' = Executing(p)
  BY <1>1, <1>3 DEF AnswerSubmit, Executing, Execution
<1>5. ASSUME NEW b \in BrokerOrder, NEW q, NEW p
      PROVE  Filled(b, q, p).qty = b.qty
  BY DEF Filled, BrokerOrder
<1>6. [broker[o] EXCEPT !.status = "open"] \in BrokerOrder
  BY <1>1 DEF BrokerOrder, BrokerStatus, OpenAtBroker
<1>7. PICK now : broker' = [broker EXCEPT ![o] = now] /\ now.qty = broker[o].qty
  <2>1. CASE BrokerFills(o)
    <3>1. PICK q \in FillSizes(broker[o]), p \in FillPrices(broker[o]) :
              broker' = [broker EXCEPT ![o] = Filled(broker[o], q, p)]
      BY <2>1 DEF BrokerFills
    <3>2. Filled(broker[o], q, p).qty = broker[o].qty
      BY <1>1, <1>5
    <3>3. QED
      BY <3>1, <3>2
  <2>2. CASE BrokerEnds(o)
    BY <1>1, <2>2 DEF BrokerEnds, BrokerOrder
  <2>3. CASE BrokerAnswersSubmit(o)
    <3> DEFINE accepted == [broker[o] EXCEPT !.status = "open"]
    <3>1. \/ broker' = [broker EXCEPT ![o] = accepted]
          \/ \E p \in Prices : broker' = [broker EXCEPT ![o] = Filled(accepted, accepted.qty, p)]
          \/ broker' = [broker EXCEPT ![o].status = "refused"]
      BY <2>3 DEF BrokerAnswersSubmit
    <3>2. accepted \in BrokerOrder /\ accepted.qty = broker[o].qty
      BY <1>1, <1>6 DEF BrokerOrder
    <3> HIDE DEF accepted
    <3>3. QED
      BY <1>1, <1>5, <3>1, <3>2 DEF BrokerOrder
  <2>4. QED
    BY <2>1, <2>2, <2>3 DEF BrokerStep
<1>8. QED
  BY <1>1, <1>2, <1>4, <1>7 DEF InProgress

LEMMA SingleStep ==
    ASSUME OneStream, NoRequests, OneSymbol, ReliableStore, SingleInductive, [Next]_vars
    PROVE  SingleInductive'
<1>1. LedgerInductive /\ LedgerInductive'
  BY LedgerInductiveStep DEF SingleInductive
<1>2. /\ order \in [OrderIds -> Order] /\ broker \in [OrderIds -> BrokerOrder]
      /\ exec \in [OrderIds -> Execution]
  BY <1>1, FollowTypes
<1>3. ASSUME NEW o \in OrderIds, ExecutorStep(o)
      PROVE  SingleInductive'
  <2>1. ASSUME NEW ord \in Order, Settles(o, ord)
        PROVE  SingleInductive'
    <3>1. exec'[o].stage = "done"
      BY <1>1, <2>1, SettlesEffect
    <3>2. UNCHANGED broker
      BY <1>2, <1>3, <2>1, <3>1
      DEF ExecutorStep, ReceiveSubmitAnswer, ReceivePollAnswer, ReceiveCancelAnswer, TimerPasses,
          WakeAndPoll, WakeAndCancel, Settles, Execution, brokerVars
    <3>3. QED
      BY <1>1, <2>1, <3>2, SettlesSingle
  <2>2. CASE Polls(o)
    <3>1. InProgress' = InProgress
      BY <2>2 DEF Polls, InProgress, Executing
    <3>2. \A p \in OrderIds : broker'[p].qty = broker[p].qty
      <4>1. CASE WakeAndCancel(o)
        <5>1. PICK outcome \in CancelOutcomes(broker[o]) :
                  broker' = [broker EXCEPT ![o] = outcome.now]
          BY <4>1 DEF WakeAndCancel
        <5>2. outcome.now \in {broker[o], [broker[o] EXCEPT !.status = "cancelled"]}
          BY <5>1 DEF CancelOutcomes
        <5>3. outcome.now.qty = broker[o].qty
          BY <1>2, <5>2 DEF BrokerOrder
        <5>4. QED
          BY <1>2, <5>1, <5>3
      <4>2. CASE ~WakeAndCancel(o)
        BY <1>3, <4>2 DEF ExecutorStep, ReceiveSubmitAnswer, ReceivePollAnswer,
                          ReceiveCancelAnswer, TimerPasses, WakeAndPoll, brokerVars
      <4>3. QED
        BY <4>1, <4>2
    <3>3. QED
      BY <1>1, <2>2, <3>1, <3>2, QuietSingle DEF Polls, bookVars
  <2>3. QED
    BY <1>1, <1>3, <2>1, <2>2, ExecutorStepKind
<1>4. ASSUME NEW o \in OrderIds, BrokerStep(o)
      PROVE  SingleInductive'
  BY <1>1, <1>4, BrokerKeepsSize, QuietSingle
<1>5. ASSUME NEW o \in OrderIds, NEW qty \in ModQuantities, NEW ref \in Prices,
             ModifyOrder(o, qty, ref)
      PROVE  SingleInductive'
  <2>1. /\ UNCHANGED <<exec, positions, portfolio, broker>>
        /\ order' = [order EXCEPT ![o].qty = qty, ![o].ref = ref]
    BY <1>5 DEF ModifyOrder, bookVars, brokerVars
  <2>2. \A p \in OrderIds : /\ order'[p].side = order[p].side
                            /\ order'[p].symbol = order[p].symbol
                            /\ order'[p].reason = order[p].reason
    BY <1>2, <2>1 DEF Order
  <2>3. InProgress' = InProgress
    BY <2>1 DEF InProgress, Executing
  <2>4. QED
    BY <1>1, <2>1, <2>2, <2>3, QuietSingle
<1>6. CASE UNCHANGED vars
  <2>1. InProgress' = InProgress
    BY <1>6 DEF vars, platformVars, InProgress, Executing
  <2>2. QED
    BY <1>1, <1>6, <2>1, QuietSingle DEF vars, platformVars, bookVars, brokerVars
<1>7. CASE StopRuntime
  <2>1. InProgress' = {}
    BY <1>2, <1>7 DEF StopRuntime, InProgress, Executing, NoExecution
  <2>2. UNCHANGED <<order, positions, portfolio, broker>>
    BY <1>7 DEF StopRuntime, bookVars, brokerVars
  <2>3. QED
    BY <1>1, <2>1, <2>2, QuietSingle
<1>8. QED
  BY <1>1, <1>3, <1>4, <1>5, <1>6, <1>7, TickSingle DEF Next, NoRequests

LEMMA SingleInvariance ==
    ASSUME OneStream, NoRequests, OneSymbol, ReliableStore
    PROVE  Spec => []SingleInductive
BY SingleInit, SingleStep, PTL DEF Spec

(* With one stream, one instrument and no request under way, and as long   *)
(* as every buy could be paid, cash, open cost and result account for the  *)
(* starting capital: what a sell closes is what the buys booked, however   *)
(* they scaled in, whatever else fails (timeouts, lost calls, orders the   *)
(* venue ends, a stop) (Portfolio.apply_order, Position.close).            *)
THEOREM BooksStayBalanced ==
    ASSUME OneStream, NoRequests, OneSymbol, ReliableStore
    PROVE  Spec => []BooksBalance
<1>1. SingleInductive => BooksBalance
  BY DEF SingleInductive
<1>2. QED
  BY <1>1, SingleInvariance, PTL

(* ... and when the broker answers, it is never asked to sell more than it *)
(* holds: an exit is sized with the tracked position, and every fill       *)
(* before it has reached that position (OMS._calculate_exit_quantity,      *)
(* PositionSynchronizer.apply_fill).                                       *)
THEOREM StaysLong ==
    ASSUME OneStream, NoRequests, OneSymbol, ReliableStore, Reliable
    PROVE  Spec => []NeverShort
<1>1. FollowInductive /\ SingleInductive => NeverShort
  <2>1. SUFFICES ASSUME FollowInductive, SingleInductive, NEW s \in Symbols
                 PROVE  holdings[s] >= 0
    BY DEF NeverShort
  <2>2. Net(positions[s]) \in Nat
    BY <2>1, FollowTypes DEF SingleInductive, LongOnly, Net, NoPosition, PositionRecord
  <2>3. CASE InProgress = {}
    BY <2>1, <2>2, <2>3, BetweenTicks DEF PositionsFollowBroker
  <2>4. ASSUME NEW o \in InProgress
        PROVE  holdings[s] >= 0
    <3>1. /\ o \in OrderIds
          /\ order[o].side \in OrderSide /\ order[o].symbol = s
          /\ broker[o].filled \in Nat /\ broker[o].qty \in Nat
      BY <2>1, FollowTypes DEF InProgress, SingleInductive, OneSymbol
    <3>2. holdings[s] = Net(positions[s]) + Signed(order[o].side, broker[o].filled)
      <4>1. /\ UnderWay(s)[o] = Signed(order[o].side, broker[o].filled)
            /\ UnderWay(s)[o] \in Int
        BY <2>4, <3>1 DEF UnderWay, InProgress, Signed
      <4>2. \A p \in OrderIds \ {o} : UnderWay(s)[p] = 0
        BY <2>1, <2>4 DEF UnderWay, SingleInductive, OneAtATime, InProgress
      <4>3. Total(UnderWay(s), MaxOrders) = UnderWay(s)[o]
        BY <3>1, <4>1, <4>2, TotalOfOne, MaxOrdersAssumption DEF OrderIds
      <4>4. QED
        BY <2>1, <4>1, <4>3 DEF FollowInductive, Followed
    <3>3. broker[o].filled <= broker[o].qty
      BY <2>1, <3>1 DEF SingleInductive, LedgerInductive, Inductive, Consistent, FilledIsWhole
    <3>4. order[o].side = "sell" => broker[o].qty = Net(positions[s])
      BY <2>1, <2>4, <3>1 DEF SingleInductive, SellsWhatIsHeld
    <3>5. QED
      BY <2>2, <3>1, <3>2, <3>3, <3>4 DEF Signed, OrderSide
  <2>5. QED
    BY <2>3, <2>4
<1>2. QED
  BY <1>1, FollowInvariance, SingleInvariance, PTL
=============================================================================
