------------------------ MODULE PaperExchangeProofs -------------------------
(***************************************************************************)
(* What the run of the paper venue checks, proved for any number of        *)
(* orders, every set of prices and quantities, and every capital, fee and  *)
(* slippage.                                                               *)
(***************************************************************************)
EXTENDS PaperExchange, AccountingProofs

-----------------------------------------------------------------------------
(***************************************************************************)
(* The inductive invariant.                                                *)
(***************************************************************************)

(* No fill is worth less than its fee. *)
FeesAreCovered == \A p \in Prices : Slip + Fee <= p

(* An id that submit has not handed out has no order. *)
IdsInOrder ==
    \A o \in OrderIds : o > nextId => o \notin recorded /\ order[o] = NoOrder

(* An order waits as it was accepted, the resting ones at a price. *)
WaitingIsNew ==
    /\ \A o \in Open : order[o].status = "created" /\ order[o].qty > 0
    /\ \A o \in book : IsResting(ticket[o]) /\ ticket[o].price \in Prices

(* Only sells that are not worth their fee can take the cash below zero. *)
Solvent == FeesAreCovered => portfolio.cash >= 0

CashIsAccounted == portfolio.cash = Capital + Total(Effects(order), MaxOrders)

PaperInductive ==
    /\ TypeOK
    /\ IdsInOrder
    /\ WaitingIsNew
    /\ OpenOrdersListed
    /\ ReservedIsOpenBuys
    /\ CashIsAccounted
    /\ Solvent
    /\ QuotesAreHonoured

-----------------------------------------------------------------------------
(***************************************************************************)
(* Where a pass over the orders of a quote stands: waiting are those that  *)
(* have not had their turn.  They are as they were, the others have ended, *)
(* and reservation, cash and report say so.                                *)
(***************************************************************************)
State == [order : [OrderIds -> Order], portfolio : Ledger, report : Seq(OrderEvent)]

(* The last event about order o in report is of that kind. *)
LastWord(events, o, kind) ==
    \E i \in DOMAIN events :
        /\ events[i] = Event(kind, o)
        /\ \A j \in (i + 1)..Len(events) : events[j].id # o

Accounted(state, waiting) ==
    /\ state \in State
    /\ \A o \in OrderIds : state.order[o].side = order[o].side
    /\ \A o \in OrderIds : (o \in waiting \/ o \notin Open) => state.order[o] = order[o]
    /\ \A o \in Open \ waiting : ~IsActive(state.order[o])
    /\ state.portfolio.reserved = Total(Holdings(state.order, waiting), MaxOrders)
    /\ state.portfolio.cash = Capital + Total(Effects(state.order), MaxOrders)
    /\ FeesAreCovered => state.portfolio.cash >= 0
    /\ \A o \in OrderIds : state.order[o].status # order[o].status =>
           LastWord(state.report, o, state.order[o].status)

(* The events of a call about orders ids: an order is triggered at most    *)
(* once, and then it ends.                                                 *)
TellsOf(events, ids) ==
    \A i \in DOMAIN events :
        /\ events[i].id \in ids /\ events[i].kind # "accepted"
        /\ \A j \in (i + 1)..Len(events) :
               events[j].id = events[i].id =>
                   events[i].kind = "triggered" /\ events[j].kind # "triggered"

InPass(state, waiting) == Accounted(state, waiting) /\ TellsOf(state.report, Open \ waiting)

(* One more event, about an order that was triggered at most *)
LEMMA TellsMore ==
    ASSUME NEW events \in Seq(OrderEvent), NEW ids, TellsOf(events, ids),
           NEW kind, NEW o \in OrderIds, Event(kind, o) \in OrderEvent, kind # "accepted",
           \A i \in DOMAIN events :
               events[i].id = o => events[i].kind = "triggered" /\ kind # "triggered"
    PROVE  TellsOf(Append(events, Event(kind, o)), ids \cup {o})
<1> DEFINE more == Append(events, Event(kind, o))
           n == Len(events)
<1>1. /\ n \in Nat /\ DOMAIN events = 1..n
      /\ Len(more) = n + 1 /\ DOMAIN more = 1..(n + 1)
      /\ \A i \in 1..n : more[i] = events[i]
      /\ more[n + 1] = Event(kind, o)
  OBVIOUS
<1>2. Event(kind, o).kind = kind /\ Event(kind, o).id = o
  BY DEF Event
<1> HIDE DEF more, n
<1>3. SUFFICES ASSUME NEW i \in DOMAIN more
               PROVE  /\ more[i].id \in ids \cup {o} /\ more[i].kind # "accepted"
                      /\ \A j \in (i + 1)..Len(more) :
                             more[j].id = more[i].id =>
                                 more[i].kind = "triggered" /\ more[j].kind # "triggered"
  BY DEF TellsOf, more
<1>4. CASE i = n + 1
  <2>1. \A j \in (i + 1)..Len(more) : FALSE
    BY <1>1, <1>4
  <2>2. QED
    BY <1>1, <1>2, <1>4, <2>1
<1>5. CASE i # n + 1
  <2>1. i \in 1..n /\ i \in DOMAIN events /\ more[i] = events[i]
    BY <1>1, <1>5
  <2>2. events[i].id \in ids /\ events[i].kind # "accepted"
    BY <2>1 DEF TellsOf
  <2>3. ASSUME NEW j \in (i + 1)..Len(more), more[j].id = more[i].id
        PROVE  more[i].kind = "triggered" /\ more[j].kind # "triggered"
    <3>1. CASE j = n + 1
      BY <1>1, <1>2, <2>1, <2>3, <3>1
    <3>2. CASE j # n + 1
      <4>1. j \in (i + 1)..Len(events) /\ j \in 1..n
        BY <1>1, <2>1, <3>2 DEF n
      <4>2. QED
        BY <1>1, <2>1, <2>3, <4>1 DEF TellsOf
    <3>3. QED
      BY <3>1, <3>2
  <2>4. QED
    BY <2>1, <2>2, <2>3
<1>6. QED
  BY <1>4, <1>5

(* An event is the last word about its order, and nothing about others. *)
LEMMA AppendedWord ==
    ASSUME NEW events \in Seq(OrderEvent), NEW kind, NEW o \in OrderIds,
           Event(kind, o) \in OrderEvent
    PROVE  /\ Append(events, Event(kind, o)) \in Seq(OrderEvent)
           /\ LastWord(Append(events, Event(kind, o)), o, kind)
           /\ \A p \in OrderIds \ {o} : \A k :
                  LastWord(events, p, k) => LastWord(Append(events, Event(kind, o)), p, k)
<1> DEFINE more == Append(events, Event(kind, o))
<1>1. /\ more \in Seq(OrderEvent)
      /\ Len(events) \in Nat /\ DOMAIN events = 1..Len(events)
      /\ Len(more) = Len(events) + 1 /\ DOMAIN more = 1..(Len(events) + 1)
      /\ \A i \in 1..Len(events) : more[i] = events[i]
      /\ more[Len(events) + 1] = Event(kind, o)
  OBVIOUS
<1> HIDE DEF more
<1>2. LastWord(more, o, kind)
  <2>1. Len(events) + 1 \in DOMAIN more
    BY <1>1
  <2>2. \A j \in ((Len(events) + 1) + 1)..Len(more) : FALSE
    BY <1>1
  <2>3. QED
    BY <1>1, <2>1, <2>2 DEF LastWord
<1>3. ASSUME NEW p \in OrderIds \ {o}, NEW k, LastWord(events, p, k)
      PROVE  LastWord(more, p, k)
  <2>1. PICK i \in DOMAIN events :
            events[i] = Event(k, p) /\ \A j \in (i + 1)..Len(events) : events[j].id # p
    BY <1>3 DEF LastWord
  <2>2. i \in DOMAIN more /\ more[i] = Event(k, p)
    BY <1>1, <2>1
  <2>3. ASSUME NEW j \in (i + 1)..Len(more)
        PROVE  more[j].id # p
    <3>1. CASE j = Len(events) + 1
      BY <1>1, <3>1 DEF Event
    <3>2. CASE j # Len(events) + 1
      <4>1. j \in (i + 1)..Len(events) /\ j \in 1..Len(events)
        BY <1>1, <2>1, <3>2
      <4>2. QED
        BY <1>1, <2>1, <4>1
    <3>3. QED
      BY <3>1, <3>2
  <2>4. QED
    BY <2>2, <2>3 DEF LastWord
<1>4. QED
  BY <1>1, <1>2, <1>3 DEF more

LEMMA HoldingsType ==
    ASSUME NEW orders \in [OrderIds -> Order], NEW waiting
    PROVE  \A o \in 1..MaxOrders : Holdings(orders, waiting)[o] \in Nat
  BY DEF Holdings, OrderIds, Order

LEMMA EffectsType ==
    ASSUME NEW orders \in [OrderIds -> Order]
    PROVE  \A o \in 1..MaxOrders : Effects(orders)[o] \in Int
<1> SUFFICES ASSUME NEW o \in OrderIds PROVE Effects(orders)[o] \in Int
  BY DEF OrderIds
<1>1. orders[o].fill \in Fill
  BY DEF Order
<1>2. TotalCost(orders[o].fill) \in Int /\ Proceeds(orders[o].fill) \in Int
  BY <1>1, TradeType
<1>3. QED
  BY <1>2 DEF Effects

(* One of the waiting orders ends. *)
LEMMA EndKeeps ==
    ASSUME PaperInductive, NEW waiting \in SUBSET Open, NEW state, Accounted(state, waiting),
           NEW o \in waiting, NEW ended \in Order, NEW pf \in Ledger,
           NEW events \in Seq(OrderEvent),
           ended.side = order[o].side,
           ended.status \in {"filled", "rejected", "cancelled"},
           pf.reserved = IF order[o].side = "buy"
                         THEN Release(state.portfolio, order[o].reserved).reserved
                         ELSE state.portfolio.reserved,
           pf.cash = state.portfolio.cash + IF ended.status = "filled" THEN Moves(ended) ELSE 0,
           FeesAreCovered => pf.cash >= 0,
           LastWord(events, o, ended.status),
           \A p \in OrderIds \ {o} : \A k : LastWord(state.report, p, k) => LastWord(events, p, k)
    PROVE  Accounted([order |-> [state.order EXCEPT ![o] = ended], portfolio |-> pf,
                      report |-> events], waiting \ {o})
<1> DEFINE old == state.order
           new == [state.order EXCEPT ![o] = ended]
           rest == waiting \ {o}
<1>1. /\ MaxOrders \in Nat /\ o \in OrderIds /\ o \in 1..MaxOrders
      /\ old \in [OrderIds -> Order] /\ state.portfolio \in Ledger
      /\ o \in Open /\ o \in recorded
      /\ old[o] = order[o] /\ order[o] \in Order /\ order[o].status = "created"
  BY PaperConstants
  DEF PaperInductive, TypeOK, OpenOrdersListed, WaitingIsNew, Accounted, State, Open, OrderIds
<1>2. /\ new \in [OrderIds -> Order] /\ new[o] = ended
      /\ \A p \in OrderIds \ {o} : new[p] = old[p]
  BY <1>1
<1>3. pf.reserved = Total(Holdings(new, rest), MaxOrders)
  <2> DEFINE h == IF order[o].side = "buy" THEN order[o].reserved ELSE 0
             before == Holdings(old, waiting)
             after == Holdings(new, rest)
  <2>1. h \in Nat
    BY <1>1 DEF Order
  <2>2. before[o] = h /\ after[o] = 0 /\ \A p \in OrderIds \ {o} : after[p] = before[p]
    BY <1>1, <1>2 DEF Holdings
  <2>3. /\ \A p \in 1..MaxOrders : before[p] \in Nat
        /\ \A p \in 1..MaxOrders : after[p] \in Nat
    BY <1>1, <1>2, HoldingsType
  <2>4. state.portfolio.reserved = Total(before, MaxOrders)
    BY DEF Accounted
  <2> HIDE DEF before, after, h
  <2>5. Shifted(after, before, MaxOrders, o, 0 - h)
    BY <2>1, <2>2, <2>3, <1>1 DEF Shifted, OrderIds
  <2>6. Total(after, MaxOrders) = Total(before, MaxOrders) + (0 - h)
    BY <1>1, <2>1, <2>5, TotalChange
  <2>7. Total(after, MaxOrders) \in Nat /\ Total(before, MaxOrders) \in Nat
    BY <1>1, <2>3, TotalNat
  <2>8. pf.reserved = state.portfolio.reserved - h
    <3>1. CASE order[o].side = "buy"
      <4>1. h = order[o].reserved
        BY <3>1 DEF h
      <4>2. Release(state.portfolio, order[o].reserved).reserved
              = IF state.portfolio.reserved > h THEN state.portfolio.reserved - h ELSE 0
        BY <1>1, <4>1 DEF Release, Ledger
      <4>3. QED
        BY <2>1, <2>4, <2>6, <2>7, <3>1, <4>2
    <3>2. CASE order[o].side # "buy"
      BY <2>4, <2>7, <3>2 DEF h
    <3>3. QED
      BY <3>1, <3>2
  <2>9. QED
    BY <2>1, <2>4, <2>6, <2>7, <2>8 DEF after
<1>4. pf.cash = Capital + Total(Effects(new), MaxOrders)
  <2> DEFINE d == IF ended.status = "filled" THEN Moves(ended) ELSE 0
             before == Effects(old)
             after == Effects(new)
  <2>1. d \in Int
    BY TradeType DEF Moves, Order
  <2>2. before[o] = 0 /\ after[o] = d /\ \A p \in OrderIds \ {o} : after[p] = before[p]
    BY <1>1, <1>2 DEF Effects, Moves
  <2>3. \A p \in 1..MaxOrders : before[p] \in Int
    BY <1>1, EffectsType
  <2>4. state.portfolio.cash = Capital + Total(before, MaxOrders)
    BY DEF Accounted
  <2>5. pf.cash = state.portfolio.cash + d
    OBVIOUS
  <2> HIDE DEF before, after, d
  <2>6. Shifted(after, before, MaxOrders, o, d)
    BY <2>1, <2>2, <2>3, <1>1 DEF Shifted, OrderIds
  <2>7. /\ Total(after, MaxOrders) = Total(before, MaxOrders) + d
        /\ Total(before, MaxOrders) \in Int
    BY <1>1, <2>1, <2>6, TotalChange
  <2>8. Capital \in Int
    BY PaperConstants
  <2>9. QED
    BY <2>1, <2>4, <2>5, <2>7, <2>8 DEF after
<1> DEFINE next == [order |-> new, portfolio |-> pf, report |-> events]
<1>5. next \in State
  BY <1>2 DEF State
<1>6. \A p \in OrderIds : new[p].side = order[p].side
  BY <1>1, <1>2 DEF Accounted
<1>7. \A p \in OrderIds : (p \in rest \/ p \notin Open) => new[p] = order[p]
  BY <1>1, <1>2 DEF Accounted
<1>8. \A p \in Open \ rest : ~IsActive(new[p])
  <2>1. Open \subseteq OrderIds /\ ~IsActive(ended)
    BY DEF PaperInductive, TypeOK, Open, IsActive
  <2>2. QED
    BY <1>2, <2>1 DEF Accounted
<1>9. \A p \in OrderIds : new[p].status # order[p].status => LastWord(events, p, new[p].status)
  BY <1>1, <1>2 DEF Accounted
<1> HIDE DEF new
<1>10. QED
  BY <1>3, <1>4, <1>5, <1>6, <1>7, <1>8, <1>9 DEF Accounted, new

-----------------------------------------------------------------------------
(***************************************************************************)
(* One turn.                                                               *)
(***************************************************************************)

(* What is known of an order that waits, and of the state before its turn. *)
LEMMA WaitingFacts ==
    ASSUME PaperInductive, NEW waiting \in SUBSET Open, NEW state, Accounted(state, waiting),
           NEW o \in waiting
    PROVE  /\ o \in OrderIds
           /\ state.order[o] = order[o]
           /\ order[o] \in Order /\ order[o].qty \in Nat /\ order[o].qty >= 1
           /\ state.portfolio \in Ledger /\ state.portfolio.cash \in Int
           /\ state.report \in Seq(OrderEvent)
           /\ \A kind \in {"filled", "rejected", "cancelled", "triggered"} :
                  Event(kind, o) \in OrderEvent
<1>1. o \in OrderIds /\ o \in Open
  BY DEF PaperInductive, TypeOK, Open
<1>2. state.order[o] = order[o] /\ order[o] \in Order
  BY <1>1 DEF Accounted, PaperInductive, TypeOK
<1>3. order[o].qty \in Nat /\ order[o].qty >= 1
  BY <1>1, <1>2 DEF PaperInductive, WaitingIsNew, Order
<1>4. state.portfolio \in Ledger /\ state.report \in Seq(OrderEvent)
  BY DEF Accounted, State
<1>5. \A kind \in {"filled", "rejected", "cancelled", "triggered"} : Event(kind, o) \in OrderEvent
  BY <1>1 DEF Event, OrderEvent
<1>6. QED
  BY <1>1, <1>2, <1>3, <1>4, <1>5 DEF Ledger

LEMMA WithdrawKeeps ==
    ASSUME PaperInductive, NEW waiting \in SUBSET Open, NEW state, Accounted(state, waiting),
           NEW o \in waiting
    PROVE  Accounted(Withdraw(state, o), waiting \ {o})
<1> DEFINE ended  == Cancel(order[o])
           pf     == IF order[o].side = "buy" THEN Release(state.portfolio, order[o].reserved)
                     ELSE state.portfolio
           events == Append(state.report, Event("cancelled", o))
<1>1. /\ o \in OrderIds /\ state.order[o] = order[o] /\ order[o] \in Order
      /\ state.portfolio \in Ledger /\ state.portfolio.cash \in Int
      /\ state.report \in Seq(OrderEvent)
      /\ Event("cancelled", o) \in OrderEvent
  BY WaitingFacts
<1>2. ended \in Order /\ ended.status = "cancelled" /\ ended.side = order[o].side
  BY <1>1, OrderOpsType DEF Cancel, Order
<1>3. /\ pf \in Ledger /\ pf.cash = state.portfolio.cash
      /\ pf.reserved = IF order[o].side = "buy"
                       THEN Release(state.portfolio, order[o].reserved).reserved
                       ELSE state.portfolio.reserved
  <2>1. order[o].reserved \in Nat /\ order[o].fill \in Fill
    BY <1>1 DEF Order
  <2>2. /\ Release(state.portfolio, order[o].reserved) \in Ledger
        /\ Release(state.portfolio, order[o].reserved).cash = state.portfolio.cash
    BY <1>1, <2>1, LedgerOpsType DEF Release, Ledger
  <2>3. QED
    BY <1>1, <2>2
<1>4. /\ events \in Seq(OrderEvent)
      /\ LastWord(events, o, "cancelled")
      /\ \A p \in OrderIds \ {o} : \A k : LastWord(state.report, p, k) => LastWord(events, p, k)
  BY <1>1, AppendedWord
<1>5. FeesAreCovered => pf.cash >= 0
  BY <1>3 DEF Accounted
<1>6. pf.cash = state.portfolio.cash + IF ended.status = "filled" THEN Moves(ended) ELSE 0
  BY <1>1, <1>2, <1>3
<1>7. Withdraw(state, o) = [order |-> [state.order EXCEPT ![o] = ended], portfolio |-> pf,
                            report |-> events]
  BY <1>1 DEF Withdraw
<1> HIDE DEF ended, pf, events
<1>8. Accounted([order |-> [state.order EXCEPT ![o] = ended], portfolio |-> pf,
                 report |-> events], waiting \ {o})
  BY <1>2, <1>3, <1>4, <1>5, <1>6, EndKeeps
<1>9. QED
  BY <1>7, <1>8

(* PaperExecutor fills an order at a price of the market for good money. *)
LEMMA ExecutedIs ==
    ASSUME NEW ord \in Order, ord.qty >= 1, ord.side \in OrderSide, NEW ref \in Prices
    PROVE  LET done == Executed(ord, ref) IN
           /\ done \in Order /\ done.status = "filled" /\ HasFill(done)
           /\ done.side = ord.side /\ done.reserved = ord.reserved
           /\ FeesAreCovered => done.fill.cost <= done.fill.price * done.fill.qty
<1> DEFINE price == FillPrice(ord.side, ref)
           fill  == [price |-> price, qty |-> ord.qty, cost |-> Fee]
<1>1. ref \in Nat /\ ref > 0 /\ Slip \in Nat /\ Slip < ref /\ Fee \in Nat /\ ord.qty \in Nat
  BY PaperConstants DEF Order
<1>2. price \in Nat /\ price > 0
  BY <1>1 DEF FillPrice
<1>3. FeesAreCovered => Fee <= price
  BY <1>1 DEF FillPrice, FeesAreCovered
<1>4. Executed(ord, ref) = Complete(Submit(ord), fill)
  BY <1>1 DEF Executed
<1> HIDE DEF price
<1>5. fill \in Fill /\ fill # NoFill
  BY <1>1, <1>2 DEF Fill, NoFill
<1>6. price <= price * ord.qty /\ price * ord.qty \in Nat
  BY <1>1, <1>2, LotsAreWorth
<1>7. FeesAreCovered => fill.cost <= fill.price * fill.qty
  <2> DEFINE value == price * ord.qty
  <2>1. price <= value /\ value \in Nat
    BY <1>6
  <2> HIDE DEF value
  <2>2. FeesAreCovered => Fee <= value
    BY <1>1, <1>2, <1>3, <2>1
  <2>3. QED
    BY <2>2 DEF value
<1> HIDE DEF fill
<1>8. Submit(ord) \in Order /\ Submit(ord).side = ord.side /\ Submit(ord).reserved = ord.reserved
  BY OrderOpsType DEF Submit, Order
<1> DEFINE sent == Submit(ord)
           done == Complete(sent, fill)
<1>9. sent \in Order /\ sent.side = ord.side /\ sent.reserved = ord.reserved
  BY <1>8
<1> HIDE DEF sent
<1>10. /\ done \in Order /\ done.status = "filled" /\ done.fill = fill
       /\ done.side = ord.side /\ done.reserved = ord.reserved
  BY <1>5, <1>9, OrderOpsType DEF Complete, Order
<1>11. Executed(ord, ref) = done
  BY <1>4 DEF sent
<1> HIDE DEF done
<1>12. QED
  BY <1>5, <1>7, <1>10, <1>11 DEF HasFill

LEMMA SettleKeeps ==
    ASSUME PaperInductive, NEW waiting \in SUBSET Open, NEW state, Accounted(state, waiting),
           NEW o \in waiting, NEW ref \in Prices
    PROVE  Accounted(Settle(state, o, ref), waiting \ {o})
<1> DEFINE done   == Executed(order[o], ref)
           ended  == OrderAfter(state.portfolio, done)
           pf     == LedgerAfter(state.portfolio, done)
           events == Append(state.report, Event(ended.status, o))
<1>1. /\ o \in OrderIds /\ state.order[o] = order[o] /\ order[o] \in Order
      /\ order[o].qty >= 1 /\ order[o].side \in OrderSide
      /\ state.portfolio \in Ledger /\ state.portfolio.cash \in Int
      /\ state.report \in Seq(OrderEvent)
      /\ \A kind \in {"filled", "rejected"} : Event(kind, o) \in OrderEvent
  BY WaitingFacts DEF Order
<1>2. /\ done \in Order /\ done.status = "filled" /\ HasFill(done)
      /\ done.side = order[o].side /\ done.reserved = order[o].reserved
      /\ FeesAreCovered => done.fill.cost <= done.fill.price * done.fill.qty
  BY <1>1, ExecutedIs
<1>3. Settle(state, o, ref) = [order |-> [state.order EXCEPT ![o] = ended], portfolio |-> pf,
                               report |-> events]
  BY <1>1 DEF Settle
<1> HIDE DEF done
<1>4. /\ ended \in Order /\ ended.side = order[o].side
      /\ ended.status = IF Unaffordable(state.portfolio, done) THEN "rejected" ELSE "filled"
      /\ ~Unaffordable(state.portfolio, done) => ended = done
  BY <1>1, <1>2, LedgerAfterType DEF OrderAfter, Reject, Order
<1>5. pf \in Ledger
  BY <1>1, <1>2, LedgerAfterType
<1>6. pf.reserved = IF order[o].side = "buy"
                    THEN Release(state.portfolio, order[o].reserved).reserved
                    ELSE state.portfolio.reserved
  BY <1>1, <1>2, BookingReleases
<1>7. pf.cash = state.portfolio.cash + IF ended.status = "filled" THEN Moves(ended) ELSE 0
  BY <1>1, <1>2, <1>4, BookingMovesCash
<1>8. FeesAreCovered => pf.cash >= 0
  BY <1>1, <1>2, BookingKeepsCash DEF Accounted
<1> HIDE DEF ended, pf
<1>9. ended.status \in {"filled", "rejected"}
  BY <1>4
<1>10. /\ events \in Seq(OrderEvent)
       /\ LastWord(events, o, ended.status)
       /\ \A p \in OrderIds \ {o} : \A k : LastWord(state.report, p, k) => LastWord(events, p, k)
  BY <1>1, <1>9, AppendedWord
<1> HIDE DEF events
<1>11. Accounted([order |-> [state.order EXCEPT ![o] = ended], portfolio |-> pf,
                  report |-> events], waiting \ {o})
  BY <1>4, <1>5, <1>6, <1>7, <1>8, <1>9, <1>10, EndKeeps
<1>12. QED
  BY <1>3, <1>11

LEMMA TriggerKeeps ==
    ASSUME PaperInductive, NEW waiting \in SUBSET Open, NEW state, Accounted(state, waiting),
           NEW o \in waiting, o \in book
    PROVE  Accounted(Trigger(state, o), waiting \ {o})
<1> DEFINE events == Append(state.report, Event("triggered", o))
           told == [state EXCEPT !.report = events]
<1>1. /\ o \in OrderIds /\ state.order[o] = order[o]
      /\ state.report \in Seq(OrderEvent)
      /\ Event("triggered", o) \in OrderEvent
  BY WaitingFacts
<1>2. /\ events \in Seq(OrderEvent)
      /\ \A p \in OrderIds \ {o} : \A k : LastWord(state.report, p, k) => LastWord(events, p, k)
  BY <1>1, AppendedWord
<1>3. Trigger(state, o) = Settle(told, o, ticket[o].price)
  BY DEF Trigger
<1> HIDE DEF events
<1>4. /\ told \in State /\ told.order = state.order /\ told.portfolio = state.portfolio
      /\ told.report = events
  BY <1>2 DEF Accounted, State
<1>5. \A p \in OrderIds : state.order[p].status # order[p].status =>
          LastWord(events, p, state.order[p].status)
  BY <1>1, <1>2 DEF Accounted
<1> HIDE DEF told
<1>6. Accounted(told, waiting)
  BY <1>4, <1>5 DEF Accounted
<1>7. ticket[o].price \in Prices
  BY DEF PaperInductive, WaitingIsNew
<1>8. QED
  BY <1>3, <1>6, <1>7, SettleKeeps

(* What a turn reports *)
LEMMA SettleReports ==
    ASSUME NEW state, NEW o \in OrderIds, state.order[o] \in Order, state.order[o].qty >= 1,
           NEW ref \in Prices
    PROVE  \E kind \in {"filled", "rejected"} :
               Settle(state, o, ref).report = Append(state.report, Event(kind, o))
<1> DEFINE done  == Executed(state.order[o], ref)
           ended == OrderAfter(state.portfolio, done)
<1>1. done \in Order /\ done.status = "filled"
  <2>1. state.order[o].side \in OrderSide
    BY DEF Order
  <2>2. QED
    BY <2>1, ExecutedIs
<1>2. Settle(state, o, ref).report = Append(state.report, Event(ended.status, o))
  BY DEF Settle
<1> HIDE DEF done
<1>3. ended.status \in {"filled", "rejected"}
  BY <1>1 DEF OrderAfter, Reject, Order
<1>4. QED
  BY <1>2, <1>3

LEMMA SettleTells ==
    ASSUME NEW state, state.report \in Seq(OrderEvent), NEW o \in OrderIds,
           state.order[o] \in Order, state.order[o].qty >= 1, NEW ref \in Prices,
           NEW ids, TellsOf(state.report, ids),
           \A i \in DOMAIN state.report :
               state.report[i].id = o => state.report[i].kind = "triggered"
    PROVE  TellsOf(Settle(state, o, ref).report, ids \cup {o})
<1>1. PICK kind \in {"filled", "rejected"} :
          Settle(state, o, ref).report = Append(state.report, Event(kind, o))
  BY SettleReports
<1>2. Event(kind, o) \in OrderEvent /\ kind # "accepted" /\ kind # "triggered"
  BY DEF Event, OrderEvent
<1>3. QED
  BY <1>1, <1>2, TellsMore

Passes == {"market", "trigger", "withdraw"}

LEMMA TurnTells ==
    ASSUME PaperInductive, NEW waiting \in SUBSET Open, NEW state, InPass(state, waiting),
           NEW o \in waiting, NEW quote \in Quote, NEW pass \in Passes,
           pass = "trigger" => o \in book
    PROVE  TellsOf(Turn(pass, quote, state, o).report, Open \ (waiting \ {o}))
<1> DEFINE ids == Open \ waiting
<1>1. /\ Accounted(state, waiting) /\ TellsOf(state.report, ids)
      /\ Open \ (waiting \ {o}) = ids \cup {o} /\ o \notin ids
  BY DEF InPass
<1>2. /\ o \in OrderIds /\ state.order[o] \in Order /\ state.order[o].qty >= 1
      /\ state.report \in Seq(OrderEvent)
      /\ Event("triggered", o) \in OrderEvent /\ Event("cancelled", o) \in OrderEvent
  BY <1>1, WaitingFacts
<1>3. \A i \in DOMAIN state.report : state.report[i].id # o
  BY <1>1 DEF TellsOf
<1>4. quote.price \in Prices
  BY DEF Quote
<1> HIDE DEF ids
<1>5. CASE pass = "market"
  <2>1. Turn(pass, quote, state, o) = Settle(state, o, quote.price)
    BY <1>5 DEF Turn
  <2>2. TellsOf(Settle(state, o, quote.price).report, ids \cup {o})
    BY <1>1, <1>2, <1>3, <1>4, SettleTells
  <2>3. QED
    BY <1>1, <2>1, <2>2
<1>6. CASE pass = "withdraw"
  <2>1. Turn(pass, quote, state, o).report = Append(state.report, Event("cancelled", o))
    BY <1>6 DEF Turn, Withdraw
  <2>2. TellsOf(Append(state.report, Event("cancelled", o)), ids \cup {o})
    BY <1>1, <1>2, <1>3, TellsMore
  <2>3. QED
    BY <1>1, <2>1, <2>2
<1>7. CASE pass = "trigger"
  <2> DEFINE events == Append(state.report, Event("triggered", o))
             told == [state EXCEPT !.report = events]
  <2>1. events \in Seq(OrderEvent)
    BY <1>2
  <2>2. TellsOf(events, ids \cup {o})
    BY <1>1, <1>2, <1>3, TellsMore
  <2>3. \A i \in DOMAIN events : events[i].id = o => events[i].kind = "triggered"
    <3>1. \A i \in DOMAIN events : i = Len(state.report) + 1 \/
              (i \in DOMAIN state.report /\ events[i] = state.report[i])
      BY <1>2
    <3>2. events[Len(state.report) + 1] = Event("triggered", o)
      BY <1>2
    <3>3. QED
      BY <1>3, <3>1, <3>2 DEF Event
  <2>4. ticket[o].price \in Prices
    BY <1>7 DEF PaperInductive, WaitingIsNew
  <2>5. Turn(pass, quote, state, o) = Settle(told, o, ticket[o].price)
    BY <1>7 DEF Turn, Trigger
  <2> HIDE DEF events
  <2>6. told.report = events /\ told.order = state.order
    BY <1>1 DEF Accounted, State
  <2> HIDE DEF told
  <2>7. TellsOf(Settle(told, o, ticket[o].price).report, (ids \cup {o}) \cup {o})
    BY <1>2, <2>1, <2>2, <2>3, <2>4, <2>6, SettleTells
  <2>8. (ids \cup {o}) \cup {o} = ids \cup {o}
    OBVIOUS
  <2>9. QED
    BY <1>1, <2>5, <2>7, <2>8
<1>8. QED
  BY <1>5, <1>6, <1>7 DEF Passes

LEMMA TurnKeeps ==
    ASSUME PaperInductive, NEW waiting \in SUBSET Open, NEW state, InPass(state, waiting),
           NEW o \in waiting, NEW quote \in Quote, NEW pass \in Passes,
           pass = "trigger" => o \in book
    PROVE  InPass(Turn(pass, quote, state, o), waiting \ {o})
<1>1. quote.price \in Prices /\ Accounted(state, waiting)
  BY DEF Quote, InPass
<1>2. CASE pass = "market"
  <2>1. Accounted(Turn(pass, quote, state, o), waiting \ {o})
    BY <1>1, <1>2, SettleKeeps DEF Turn
  <2>2. QED
    BY <2>1, TurnTells DEF InPass
<1>3. CASE pass = "trigger"
  <2>1. Accounted(Turn(pass, quote, state, o), waiting \ {o})
    BY <1>1, <1>3, TriggerKeeps DEF Turn
  <2>2. QED
    BY <2>1, TurnTells DEF InPass
<1>4. CASE pass = "withdraw"
  <2>1. Accounted(Turn(pass, quote, state, o), waiting \ {o})
    BY <1>1, <1>4, WithdrawKeeps DEF Turn
  <2>2. QED
    BY <2>1, TurnTells DEF InPass
<1>5. QED
  BY <1>2, <1>3, <1>4 DEF Passes

-----------------------------------------------------------------------------
(***************************************************************************)
(* A pass: every order of ids has its turn.                                *)
(***************************************************************************)

IsWalk(after, pass, quote, ids, state, n) ==
    after = [i \in 0..n |-> IF i = 0 THEN state
                            ELSE IF i \in ids THEN Turn(pass, quote, after[i - 1], i)
                            ELSE after[i - 1]]

LEMMA WalkExists ==
    ASSUME NEW n \in Nat, NEW pass, NEW quote, NEW ids, NEW state
    PROVE  \E after : IsWalk(after, pass, quote, ids, state, n)
<1> DEFINE S == {m \in 0..n : \E after : IsWalk(after, pass, quote, ids, state, m)}
<1>1. 0 \in S
  <2>1. IsWalk([i \in 0..0 |-> state], pass, quote, ids, state, 0)
    BY DEF IsWalk
  <2>2. QED
    BY <2>1
<1>2. ASSUME NEW m \in 0..(n - 1), m \in S
      PROVE  m + 1 \in S
  <2>1. PICK t : IsWalk(t, pass, quote, ids, state, m)
    BY <1>2
  <2> DEFINE next == IF m + 1 \in ids THEN Turn(pass, quote, t[m], m + 1) ELSE t[m]
             u == [i \in 0..(m + 1) |-> IF i = m + 1 THEN next ELSE t[i]]
  <2>2. t = [i \in 0..m |-> IF i = 0 THEN state
                            ELSE IF i \in ids THEN Turn(pass, quote, t[i - 1], i)
                            ELSE t[i - 1]]
    BY <2>1 DEF IsWalk
  <2>3. ASSUME NEW i \in 0..(m + 1)
        PROVE  u[i] = IF i = 0 THEN state
                      ELSE IF i \in ids THEN Turn(pass, quote, u[i - 1], i)
                      ELSE u[i - 1]
    <3>1. CASE i = m + 1
      <4>1. u[i] = next /\ u[i - 1] = t[m] /\ i # 0
        BY <3>1
      <4>2. QED
        BY <3>1, <4>1
    <3>2. CASE i # m + 1
      <4>1. i \in 0..m /\ u[i] = t[i] /\ (i # 0 => u[i - 1] = t[i - 1])
        BY <3>2
      <4>2. t[i] = IF i = 0 THEN state
                   ELSE IF i \in ids THEN Turn(pass, quote, t[i - 1], i)
                   ELSE t[i - 1]
        BY <2>2, <4>1
      <4>3. QED
        BY <4>1, <4>2
    <3>3. QED
      BY <3>1, <3>2
  <2>4. u = [i \in 0..(m + 1) |-> u[i]]
    OBVIOUS
  <2> HIDE DEF u
  <2>5. IsWalk(u, pass, quote, ids, state, m + 1)
    BY <2>3, <2>4 DEF IsWalk
  <2>6. QED
    BY <2>5
<1>3. 0..n \subseteq S
  BY <1>1, <1>2, UpTo
<1>4. QED
  BY <1>3

(* The definition of a walk, as an equation *)
LEMMA WalkUnfold ==
    ASSUME NEW pass, NEW quote, NEW ids, NEW state
    PROVE  /\ Walk(pass, quote, ids, state)[0] = state
           /\ \A i \in 1..MaxOrders :
                  Walk(pass, quote, ids, state)[i] =
                      IF i \in ids
                      THEN Turn(pass, quote, Walk(pass, quote, ids, state)[i - 1], i)
                      ELSE Walk(pass, quote, ids, state)[i - 1]
<1> DEFINE after[i \in 0..MaxOrders] ==
               IF i = 0 THEN state
               ELSE IF i \in ids THEN Turn(pass, quote, after[i - 1], i)
               ELSE after[i - 1]
<1>1. after = CHOOSE t : IsWalk(t, pass, quote, ids, state, MaxOrders)
  BY DEF IsWalk
<1>2. MaxOrders \in Nat
  BY PaperConstants
<1>3. IsWalk(after, pass, quote, ids, state, MaxOrders)
  BY <1>1, <1>2, WalkExists
<1>4. Walk(pass, quote, ids, state) = after
  BY DEF Walk
<1> HIDE DEF after
<1> DEFINE t == Walk(pass, quote, ids, state)
<1>5. IsWalk(t, pass, quote, ids, state, MaxOrders)
  BY <1>3, <1>4
<1> HIDE DEF t
<1>6. t = [i \in 0..MaxOrders |-> IF i = 0 THEN state
                                 ELSE IF i \in ids THEN Turn(pass, quote, t[i - 1], i)
                                 ELSE t[i - 1]]
  BY <1>5 DEF IsWalk
<1>7. t[0] = state /\ \A i \in 1..MaxOrders :
          t[i] = IF i \in ids THEN Turn(pass, quote, t[i - 1], i) ELSE t[i - 1]
  BY <1>2, <1>6
<1>8. QED
  BY <1>7 DEF t

(* Those that still wait when the first i ids have had their turn *)
Left(waiting, ids, i) == waiting \ {o \in ids : o <= i}

LeaveInTurn(waiting, ids, n) ==
    /\ Left(waiting, ids, 0) = waiting
    /\ Left(waiting, ids, n) = waiting \ ids
    /\ \A i \in 0..(n - 1) :
           /\ i + 1 \in ids =>
                  /\ Left(waiting, ids, i + 1) = Left(waiting, ids, i) \ {i + 1}
                  /\ i + 1 \in Left(waiting, ids, i)
           /\ i + 1 \notin ids => Left(waiting, ids, i + 1) = Left(waiting, ids, i)

LEMMA LeftIs ==
    ASSUME NEW n \in Nat, NEW ids \in SUBSET (1..n), NEW waiting, ids \subseteq waiting
    PROVE  LeaveInTurn(waiting, ids, n)
<1>1. \A o \in ids : o \in Int /\ 1 <= o /\ o <= n
  OBVIOUS
<1>2. {o \in ids : o <= 0} = {}
  <2>1. \A o \in ids : ~(o <= 0)
    BY <1>1
  <2>2. QED
    BY <2>1, Zenon
<1>3. {o \in ids : o <= n} = ids
  BY <1>1
<1>4. ASSUME NEW i \in 0..(n - 1)
      PROVE  \A o \in ids : o <= i + 1 <=> o <= i \/ o = i + 1
  BY <1>1
<1>5. ASSUME NEW i \in 0..(n - 1)
      PROVE  ~(i + 1 <= i)
  OBVIOUS
<1>6. ASSUME NEW i \in 0..(n - 1)
      PROVE  {o \in ids : o <= i + 1} = {o \in ids : o <= i} \cup {o \in ids : o = i + 1}
  BY <1>4, Zenon
<1>7. Left(waiting, ids, 0) = waiting /\ Left(waiting, ids, n) = waiting \ ids
  BY <1>2, <1>3, Zenon DEF Left
<1>8. ASSUME NEW i \in 0..(n - 1)
      PROVE  /\ i + 1 \in ids => /\ Left(waiting, ids, i + 1) = Left(waiting, ids, i) \ {i + 1}
                                 /\ i + 1 \in Left(waiting, ids, i)
             /\ i + 1 \notin ids => Left(waiting, ids, i + 1) = Left(waiting, ids, i)
  <2> DEFINE k == i + 1
             done == {o \in ids : o <= i}
             more == {o \in ids : o <= k}
  <2>1. more = done \cup {o \in ids : o = k}
    BY <1>6
  <2>2. k \notin done
    BY <1>5, Zenon
  <2>3. Left(waiting, ids, i) = waiting \ done /\ Left(waiting, ids, k) = waiting \ more
    BY DEF Left
  <2> HIDE DEF done, more, k
  <2>4. CASE k \in ids
    <3>1. more = done \cup {k}
      BY <2>1, <2>4, Zenon
    <3>2. waiting \ more = (waiting \ done) \ {k} /\ k \in waiting \ done
      BY <2>2, <2>4, <3>1, Zenon
    <3>3. QED
      BY <2>3, <2>4, <3>2, Zenon DEF k
  <2>5. CASE k \notin ids
    <3>1. more = done
      BY <2>1, <2>5, Zenon
    <3>2. QED
      BY <2>3, <2>5, <3>1, Zenon DEF k
  <2>6. QED
    BY <2>4, <2>5
<1>9. QED
  BY <1>7, <1>8, Zenon DEF LeaveInTurn

(* After a pass, the orders of ids have ended and the others still wait. *)
LEMMA PassKeeps ==
    ASSUME PaperInductive, NEW waiting \in SUBSET Open, NEW state, InPass(state, waiting),
           NEW ids \in SUBSET waiting, NEW quote \in Quote, NEW pass \in Passes,
           pass = "trigger" => ids \subseteq book
    PROVE  InPass(InTurn(pass, quote, ids, state), waiting \ ids)
<1> DEFINE t == Walk(pass, quote, ids, state)
           S == {i \in 0..MaxOrders : InPass(t[i], Left(waiting, ids, i))}
<1>1. /\ t[0] = state
      /\ \A i \in 1..MaxOrders :
             t[i] = IF i \in ids THEN Turn(pass, quote, t[i - 1], i) ELSE t[i - 1]
  BY WalkUnfold
<1>2. /\ MaxOrders \in Nat /\ ids \in SUBSET (1..MaxOrders) /\ ids \subseteq waiting
      /\ Left(waiting, ids, 0) = waiting
      /\ Left(waiting, ids, MaxOrders) = waiting \ ids
      /\ \A i \in 0..(MaxOrders - 1) :
             /\ i + 1 \in ids =>
                    /\ Left(waiting, ids, i + 1) = Left(waiting, ids, i) \ {i + 1}
                    /\ i + 1 \in Left(waiting, ids, i)
             /\ i + 1 \notin ids => Left(waiting, ids, i + 1) = Left(waiting, ids, i)
  <2>1. MaxOrders \in Nat /\ ids \in SUBSET (1..MaxOrders) /\ ids \subseteq waiting
    BY PaperConstants DEF PaperInductive, TypeOK, Open, OrderIds
  <2>2. LeaveInTurn(waiting, ids, MaxOrders)
    BY <2>1, LeftIs, Zenon
  <2>3. QED
    BY <2>1, <2>2, Zenon DEF LeaveInTurn
<1> HIDE DEF t
<1>3. 0 \in S
  <2>1. Left(waiting, ids, 0) = waiting
    BY <1>2
  <2>2. QED
    BY <1>1, <1>2, <2>1
<1>4. ASSUME NEW i \in 0..(MaxOrders - 1), i \in S
      PROVE  i + 1 \in S
  <2>1. i + 1 \in 1..MaxOrders /\ (i + 1) - 1 = i
    BY <1>2
  <2>2. InPass(t[i], Left(waiting, ids, i)) /\ Left(waiting, ids, i) \in SUBSET Open
    BY <1>4 DEF Left
  <2>3. CASE i + 1 \in ids
    <3>1. t[i + 1] = Turn(pass, quote, t[i], i + 1)
      BY <1>1, <2>1, <2>3
    <3>2. /\ i + 1 \in Left(waiting, ids, i)
          /\ Left(waiting, ids, i + 1) = Left(waiting, ids, i) \ {i + 1}
      BY <1>2, <2>3, Zenon
    <3>3. pass = "trigger" => i + 1 \in book
      BY <2>3
    <3>4. InPass(t[i + 1], Left(waiting, ids, i + 1))
      BY <2>2, <3>1, <3>2, <3>3, TurnKeeps
    <3>5. QED
      BY <2>1, <3>4
  <2>4. CASE i + 1 \notin ids
    <3>1. t[i + 1] = t[i]
      BY <1>1, <2>1, <2>4
    <3>2. Left(waiting, ids, i + 1) = Left(waiting, ids, i)
      BY <1>2, <2>4, Zenon
    <3>3. InPass(t[i + 1], Left(waiting, ids, i + 1))
      BY <2>2, <3>1, <3>2, Zenon
    <3>4. QED
      BY <2>1, <3>3
  <2>5. QED
    BY <2>3, <2>4
<1>5. MaxOrders \in S
  <2> HIDE DEF S
  <2>1. 0..MaxOrders \subseteq S
    BY <1>2, <1>3, <1>4, UpTo
  <2>2. QED
    BY <1>2, <2>1
<1>6. Left(waiting, ids, MaxOrders) = waiting \ ids
  BY <1>2
<1>7. QED
  BY <1>5, <1>6 DEF InTurn, t

-----------------------------------------------------------------------------
(***************************************************************************)
(* A call that ends waiting orders, cancel or on_market_data, preserves    *)
(* the invariant.                                                          *)
(***************************************************************************)

LEMMA NowIsAccounted ==
    ASSUME PaperInductive
    PROVE  InPass(Now, Open)
<1>1. Now.order = order /\ Now.portfolio = portfolio /\ Now.report = <<>>
  BY DEF Now
<1>2. Now \in State
  <2>1. <<>> \in Seq(OrderEvent)
    OBVIOUS
  <2>2. QED
    BY <2>1 DEF Now, State, PaperInductive, TypeOK
<1> HIDE DEF Now
<1>3. Accounted(Now, Open)
  BY <1>1, <1>2 DEF Accounted, PaperInductive, ReservedIsOpenBuys, CashIsAccounted, Solvent
<1>4. TellsOf(Now.report, Open \ Open)
  BY <1>1 DEF TellsOf
<1>5. QED
  BY <1>3, <1>4 DEF InPass

LEMMA CallKeeps ==
    ASSUME PaperInductive, NEW waiting \in SUBSET Open, NEW state, Accounted(state, waiting),
           Become(state), queue' \subseteq queue, book' \subseteq book,
           queue' \cup book' = waiting, UNCHANGED <<nextId, ticket, recorded>>,
           last' \in Quote \cup {NoQuote}, fresh' \subseteq OrderIds, QuotesAreHonoured'
    PROVE  PaperInductive'
<1>1. /\ state \in State /\ order' = state.order /\ portfolio' = state.portfolio
      /\ report' = state.report
      /\ Open \subseteq OrderIds /\ Open' = waiting
      /\ nextId' = nextId /\ ticket' = ticket /\ recorded' = recorded
      /\ queue \cap book = {} /\ Open = {o \in recorded : IsActive(order[o])}
  BY DEF Accounted, Become, Open, PaperInductive, TypeOK, OpenOrdersListed
<1>2. /\ \A o \in OrderIds : o \in waiting \/ o \notin Open => order'[o] = order[o]
      /\ \A o \in Open \ waiting : ~IsActive(order'[o])
  BY <1>1 DEF Accounted
<1>3. TypeOK'
  BY <1>1 DEF TypeOK, State, PaperInductive
<1>4. IdsInOrder'
  <2>1. \A o \in OrderIds : o > nextId => o \notin Open
    BY <1>1 DEF PaperInductive, IdsInOrder
  <2>2. QED
    BY <1>1, <1>2, <2>1 DEF PaperInductive, IdsInOrder
<1>5. WaitingIsNew'
  <2>1. \A o \in Open' : order'[o] = order[o] /\ o \in Open
    BY <1>1, <1>2
  <2>2. QED
    BY <1>1, <2>1 DEF PaperInductive, WaitingIsNew
<1>6. OpenOrdersListed'
  <2>1. waiting \subseteq recorded /\ recorded \subseteq OrderIds
    BY <1>1 DEF PaperInductive, TypeOK
  <2>2. \A o \in recorded : o \in waiting <=> IsActive(order'[o])
    <3>1. TAKE o \in recorded
    <3>2. CASE o \in Open \ waiting
      BY <1>2, <3>2
    <3>3. CASE o \notin Open \ waiting
      <4>1. order'[o] = order[o]
        BY <1>2, <2>1, <3>3
      <4>2. QED
        BY <1>1, <3>3, <4>1
    <3>4. QED
      BY <3>2, <3>3
  <2>3. waiting = {o \in recorded : IsActive(order'[o])}
    BY <2>1, <2>2
  <2>4. QED
    BY <1>1, <2>3 DEF OpenOrdersListed, IsActive
<1>7. ReservedIsOpenBuys'
  <2>1. Holdings(order, Open)' = Holdings(state.order, waiting)
    BY <1>1 DEF Holdings
  <2>2. QED
    BY <1>1, <2>1 DEF ReservedIsOpenBuys, Accounted
<1>8. CashIsAccounted' /\ Solvent'
  <2>1. Effects(order)' = Effects(state.order)
    BY <1>1 DEF Effects
  <2>2. QED
    BY <1>1, <2>1 DEF CashIsAccounted, Solvent, Accounted, FeesAreCovered
<1>9. QED
  BY <1>3, <1>4, <1>5, <1>6, <1>7, <1>8 DEF PaperInductive

(* An order that a quote does not trigger accepts none of its prices. *)
LEMMA UntriggeredRefuses ==
    ASSUME PaperInductive, NEW o \in book, NEW quote \in Quote, ~Triggers(o, quote),
           NEW price \in quote.low..quote.high
    PROVE  ~Accepts(o, price)
<1>1. /\ quote.low \in Nat /\ quote.high \in Nat /\ price \in Nat
      /\ quote.low <= price /\ price <= quote.high
  <2>1. quote \in [price : Prices, low : Prices, high : Prices]
    BY DEF Quote
  <2>2. quote.low \in Nat /\ quote.high \in Nat
    BY <2>1, PaperConstants
  <2>3. QED
    BY <2>2
<1>2. /\ ticket[o].type = "limit" \/ ticket[o].type = "stop"
      /\ ticket[o].price \in Nat
      /\ order[o].side = "buy" \/ order[o].side = "sell"
  <2>1. o \in OrderIds
    BY DEF PaperInductive, TypeOK
  <2>2. ticket[o] \in Ticket /\ order[o] \in Order
    BY <2>1 DEF PaperInductive, TypeOK
  <2>3. QED
    BY <2>2 DEF PaperInductive, WaitingIsNew, IsResting, Ticket, Order, OrderSide
<1>3. CASE ticket[o].type = "limit" /\ order[o].side = "buy"
  BY <1>1, <1>2, <1>3 DEF Triggers, WaitsForFall, Accepts
<1>4. CASE ticket[o].type = "limit" /\ order[o].side = "sell"
  BY <1>1, <1>2, <1>4 DEF Triggers, WaitsForFall, Accepts
<1>5. CASE ticket[o].type = "stop" /\ order[o].side = "buy"
  BY <1>1, <1>2, <1>5 DEF Triggers, WaitsForFall, Accepts
<1>6. CASE ticket[o].type = "stop" /\ order[o].side = "sell"
  BY <1>1, <1>2, <1>6 DEF Triggers, WaitsForFall, Accepts
<1>7. QED
  BY <1>2, <1>3, <1>4, <1>5, <1>6

LEMMA CancelKeeps ==
    ASSUME PaperInductive, NEW o \in OrderIds, CancelOrder(o)
    PROVE  PaperInductive'
<1>1. /\ o \in Open /\ Become(Withdraw(Now, o))
      /\ queue' = queue \ {o} /\ book' = book \ {o}
      /\ UNCHANGED <<nextId, ticket, recorded>> /\ last' = last /\ fresh' = fresh
  BY DEF CancelOrder
<1>2. Accounted(Withdraw(Now, o), Open \ {o})
  BY <1>1, NowIsAccounted, WithdrawKeeps DEF InPass
<1>3. queue' \cup book' = Open \ {o}
  BY <1>1 DEF Open
<1>4. last' \in Quote \cup {NoQuote} /\ fresh' \subseteq OrderIds
  BY <1>1 DEF PaperInductive, TypeOK
<1>5. \A p \in Open : order'[p].side = order[p].side
  BY <1>1, <1>2 DEF Accounted, Become, PaperInductive, TypeOK, Open
<1>6. QuotesAreHonoured'
  <2>1. NoMissedTouch'
    BY <1>1, <1>5 DEF NoMissedTouch, Accepts, Open, PaperInductive, QuotesAreHonoured
  <2>2. WaitsForOneQuote'
    BY <1>1 DEF WaitsForOneQuote, Open, PaperInductive, QuotesAreHonoured
  <2>3. QED
    BY <2>1, <2>2 DEF QuotesAreHonoured
<1>7. QED
  BY <1>1, <1>2, <1>3, <1>4, <1>6, CallKeeps

(* The state an update leaves behind: those that rest and may stay *)
LEMMA UpdateIsAccounted ==
    ASSUME PaperInductive, NEW quote \in Quote
    PROVE  LET resting == book \ Triggered(quote)
               filled  == InTurn("market", quote, queue, Now)
               matched == InTurn("trigger", quote, Triggered(quote), filled)
           IN InPass(InTurn("withdraw", quote, Immediate(resting), matched),
                        resting \ Immediate(resting))
<1> DEFINE resting == book \ Triggered(quote)
           filled  == InTurn("market", quote, queue, Now)
           matched == InTurn("trigger", quote, Triggered(quote), filled)
<1>1. queue \cap book = {} /\ queue \in SUBSET Open /\ book \in SUBSET Open
      /\ Open \ queue = book
  BY DEF PaperInductive, OpenOrdersListed, Open
<1>2. InPass(filled, book)
  <2>1. InPass(filled, Open \ queue)
    BY <1>1, NowIsAccounted, PassKeeps DEF Passes
  <2>2. QED
    BY <1>1, <2>1
<1> HIDE DEF filled
<1>3. InPass(matched, resting)
  <2>1. Triggered(quote) \in SUBSET book
    BY DEF Triggered
  <2>2. QED
    BY <1>1, <1>2, <2>1, PassKeeps DEF Passes
<1> HIDE DEF matched
<1>4. resting \in SUBSET Open /\ Immediate(resting) \in SUBSET resting
  BY <1>1 DEF Immediate
<1> HIDE DEF resting
<1>5. InPass(InTurn("withdraw", quote, Immediate(resting), matched),
                resting \ Immediate(resting))
  BY <1>3, <1>4, PassKeeps DEF Passes
<1>6. QED
  BY <1>5 DEF resting, matched, filled

LEMMA UpdateKeeps ==
    ASSUME PaperInductive, NEW quote \in Quote, OnMarketData(quote)
    PROVE  PaperInductive'
<1> DEFINE resting == book \ Triggered(quote)
           filled  == InTurn("market", quote, queue, Now)
           matched == InTurn("trigger", quote, Triggered(quote), filled)
           state   == InTurn("withdraw", quote, Immediate(resting), matched)
           waiting == resting \ Immediate(resting)
<1>1. Accounted(state, waiting)
  BY UpdateIsAccounted DEF InPass
<1>2. /\ Become(state) /\ queue' = {} /\ book' = waiting /\ last' = quote /\ fresh' = {}
      /\ UNCHANGED <<nextId, ticket, recorded>>
  BY DEF OnMarketData
<1> HIDE DEF state, matched, filled
<1>3. waiting \in SUBSET Open /\ waiting \subseteq book
  BY DEF Open
<1>4. \A o \in waiting : ~Triggers(o, quote) /\ ticket[o].tif # "ioc" /\ ticket[o].type # "market"
  <2>1. \A o \in book : ticket[o].type # "market"
    BY DEF PaperInductive, WaitingIsNew, IsResting
  <2>2. QED
    BY <1>3, <2>1 DEF Triggered, Immediate
<1> HIDE DEF waiting
<1>5. \A o \in Open : order'[o].side = order[o].side
  BY <1>1, <1>2 DEF Accounted, Become, PaperInductive, TypeOK, Open
<1>6. QuotesAreHonoured'
  <2>1. NoMissedTouch'
    <3>1. ASSUME NEW o \in waiting, NEW price \in quote.low..quote.high
          PROVE  ~Accepts(o, price)
      BY <1>3, <1>4, UntriggeredRefuses
    <3>2. \A o \in waiting : \A price \in quote.low..quote.high : ~Accepts(o, price)'
      BY <1>2, <1>3, <1>5, <3>1 DEF Accepts
    <3>3. QED
      BY <1>2, <3>2 DEF NoMissedTouch
  <2>2. WaitsForOneQuote'
    BY <1>2, <1>4 DEF WaitsForOneQuote, Open
  <2>3. QED
    BY <2>1, <2>2 DEF QuotesAreHonoured
<1>7. queue' \subseteq queue /\ book' \subseteq book /\ queue' \cup book' = waiting
      /\ last' \in Quote \cup {NoQuote} /\ fresh' \subseteq OrderIds
  BY <1>2, <1>3
<1>8. QED
  BY <1>1, <1>2, <1>3, <1>6, <1>7, CallKeeps

-----------------------------------------------------------------------------
(***************************************************************************)
(* submit uses a new id: what is known of the other orders stays as it is. *)
(***************************************************************************)

LEMMA NewIdIsFree ==
    ASSUME PaperInductive, nextId < MaxOrders
    PROVE  /\ nextId + 1 \in OrderIds /\ nextId + 1 \in 1..MaxOrders
           /\ nextId \in Nat /\ MaxOrders \in Nat
           /\ nextId + 1 \notin recorded /\ nextId + 1 \notin Open
           /\ order[nextId + 1] = NoOrder
           /\ \A p \in OrderIds : p > nextId + 1 => p > nextId
<1>1. nextId \in Nat /\ MaxOrders \in Nat
  BY PaperConstants DEF PaperInductive, TypeOK
<1>2. nextId + 1 \in OrderIds /\ nextId + 1 > nextId
  BY <1>1 DEF OrderIds
<1>3. nextId + 1 \notin recorded /\ order[nextId + 1] = NoOrder
  BY <1>2 DEF PaperInductive, IdsInOrder
<1>4. nextId + 1 \notin Open
  BY <1>3 DEF PaperInductive, OpenOrdersListed
<1>5. \A p \in OrderIds : p > nextId + 1 => p > nextId
  BY <1>1 DEF OrderIds
<1>6. QED
  BY <1>1, <1>2, <1>3, <1>4, <1>5 DEF OrderIds

LEMMA SubmittedIs ==
    ASSUME PaperInductive, NEW side \in OrderSide, NEW qty \in Nat, NEW t \in Tickets
    PROVE  LET ord    == NewOrder(side, CHOOSE s \in Symbols : TRUE, qty, ReferenceEstimate(t))
               placed == [ord EXCEPT !.reserved = Reservation(ord)]
           IN /\ t \in Ticket
              /\ ord \in Order /\ Reject(ord, "input") \in Order
              /\ placed \in Order /\ placed.status = "created" /\ placed.qty = qty
              /\ placed.side = side
              /\ placed.reserved \in Nat
              /\ placed.side # "buy" => placed.reserved = 0
<1> DEFINE symbol == CHOOSE s \in Symbols : TRUE
           ref == ReferenceEstimate(t)
           ord == NewOrder(side, symbol, qty, ref)
           r == Reservation(ord)
           placed == [ord EXCEPT !.reserved = r]
<1>1. t \in Ticket
  <2>1. CASE t \in [type : {"limit", "stop"}, tif : {"gtc", "ioc"}, price : Prices \cup {0}]
    <3>1. Prices \cup {0} \subseteq Nat
      BY PaperConstants
    <3>2. t.type \in {"market", "limit", "stop"} /\ t.tif \in {"gtc", "ioc"} /\ t.price \in Nat
      BY <2>1, <3>1
    <3>3. t = [type |-> t.type, tif |-> t.tif, price |-> t.price]
      BY <2>1
    <3>4. QED
      BY <3>2, <3>3 DEF Ticket
  <2>2. CASE t \in [type : {"market"}, tif : {"gtc", "ioc"}, price : {0}]
    BY <2>2 DEF Ticket
  <2>3. QED
    BY <2>1, <2>2 DEF Tickets
<1>2. last.price \in Nat
  <2>1. CASE last = NoQuote
    BY <2>1 DEF NoQuote
  <2>2. CASE last \in Quote
    BY <2>2, PaperConstants DEF Quote
  <2>3. QED
    BY <2>1, <2>2 DEF PaperInductive, TypeOK
<1>3. ref \in Nat
  BY <1>1, <1>2 DEF ReferenceEstimate, Ticket
<1>4. symbol \in Symbols /\ qty \in Nat
  BY PaperConstants
<1> HIDE DEF symbol, ref
<1>5. ord \in Order
  BY <1>3, <1>4, NewOrderType
<1>6. ord.side = side /\ ord.qty = qty /\ ord.ref = ref /\ ord.status = "created"
  BY DEF NewOrder
<1>7. qty * ref \in Nat
  BY <1>3, <1>4
<1>8. r \in Nat /\ (side # "buy" => r = 0)
  BY <1>6, <1>7 DEF Reservation
<1>9. Reject(ord, "input") \in Order
  BY <1>5, OrderOpsType DEF RejectReason
<1> HIDE DEF ord, r
<1>10. placed \in Order /\ placed.status = "created" /\ placed.qty = qty /\ placed.side = side
       /\ placed.reserved = r
  BY <1>5, <1>6, <1>8 DEF Order
<1>11. QED
  BY <1>1, <1>5, <1>8, <1>9, <1>10 DEF placed, ord, r, symbol, ref

(* A refused quantity: the id has an order that waits nowhere. *)
LEMMA RefusalKeeps ==
    ASSUME PaperInductive, nextId < MaxOrders, nextId' = nextId + 1, NEW ord,
           Reject(ord, "input") \in Order,
           RefuseQuantity(nextId + 1, ord), UNCHANGED last
    PROVE  PaperInductive'
<1> DEFINE o == nextId + 1
           ended == Reject(ord, "input")
<1>1. /\ o \in OrderIds /\ nextId \in Nat /\ MaxOrders \in Nat
      /\ o \notin recorded /\ o \notin Open
      /\ \A p \in OrderIds : p > o => p > nextId
  BY NewIdIsFree
<1>2. /\ order' = [order EXCEPT ![o] = ended]
      /\ report' = <<Event("rejected", o)>>
      /\ UNCHANGED <<ticket, queue, book, recorded, portfolio, fresh, last>>
  BY DEF RefuseQuantity
<1>3. o <= MaxOrders
  BY <1>1 DEF OrderIds
<1> HIDE DEF o, ended
<1>4. /\ order' \in [OrderIds -> Order]
      /\ \A p \in OrderIds \ {o} : order'[p] = order[p]
      /\ order \in [OrderIds -> Order]
  BY <1>1, <1>2 DEF PaperInductive, TypeOK, ended
<1>5. Open \subseteq recorded /\ recorded \subseteq OrderIds \ {o} /\ Open' = Open
      /\ \A p \in recorded : order'[p] = order[p]
  BY <1>1, <1>2, <1>4 DEF PaperInductive, TypeOK, OpenOrdersListed, Open
<1>6. TypeOK'
  <2>1. Event("rejected", o) \in OrderEvent
    BY <1>1 DEF Event, OrderEvent
  <2>2. report' \in Seq(OrderEvent)
    BY <1>2, <2>1
  <2>3. nextId' \in 0..MaxOrders
    BY <1>1, <1>3 DEF o
  <2>4. QED
    BY <1>2, <1>4, <2>2, <2>3 DEF PaperInductive, TypeOK
<1>7. IdsInOrder'
  <2>1. nextId' = o
    BY DEF o
  <2>2. ASSUME NEW p \in OrderIds, p > o PROVE p # o /\ p > nextId
    BY <1>1, <2>2 DEF o, OrderIds
  <2>3. QED
    BY <1>2, <1>4, <2>1, <2>2 DEF PaperInductive, IdsInOrder
<1>8. WaitingIsNew'
  BY <1>2, <1>5 DEF PaperInductive, WaitingIsNew, Open
<1>9. OpenOrdersListed'
  BY <1>2, <1>5 DEF PaperInductive, OpenOrdersListed, Open, IsActive
<1>10. ReservedIsOpenBuys'
  <2>1. Holdings(order, Open)' = Holdings(order, Open)
    BY <1>5 DEF Holdings
  <2>2. QED
    BY <1>2, <2>1 DEF PaperInductive, ReservedIsOpenBuys
<1>11. CashIsAccounted' /\ Solvent'
  <2>1. Effects(order)' = Effects(order)
    BY <1>2, <1>5 DEF Effects
  <2>2. QED
    BY <1>2, <2>1 DEF PaperInductive, CashIsAccounted, Solvent, FeesAreCovered
<1>12. QuotesAreHonoured'
  <2>1. book \subseteq recorded
    BY <1>5 DEF Open
  <2>2. NoMissedTouch'
    BY <1>2, <1>5, <2>1 DEF PaperInductive, QuotesAreHonoured, NoMissedTouch, Accepts
  <2>3. WaitsForOneQuote'
    BY <1>2, <1>5 DEF PaperInductive, QuotesAreHonoured, WaitsForOneQuote
  <2>4. QED
    BY <2>2, <2>3 DEF QuotesAreHonoured
<1>13. QED
  BY <1>6, <1>7, <1>8, <1>9, <1>10, <1>11, <1>12 DEF PaperInductive

(* A price that is not positive: only the id is used up. *)
LEMMA RaiseKeeps ==
    ASSUME PaperInductive, nextId < MaxOrders, nextId' = nextId + 1, RaiseOnPrice,
           UNCHANGED last
    PROVE  PaperInductive'
<1>1. /\ nextId \in Nat /\ MaxOrders \in Nat
      /\ \A p \in OrderIds : p > nextId + 1 => p > nextId
  BY NewIdIsFree
<1>2. /\ report' = <<>>
      /\ UNCHANGED <<order, ticket, queue, book, recorded, portfolio, fresh, last>>
  BY DEF RaiseOnPrice
<1>3. TypeOK'
  <2>1. nextId' \in 0..MaxOrders
    BY <1>1
  <2>2. report' \in Seq(OrderEvent)
    BY <1>2
  <2>3. QED
    BY <1>2, <2>1, <2>2 DEF PaperInductive, TypeOK
<1>4. IdsInOrder'
  BY <1>1, <1>2 DEF PaperInductive, IdsInOrder
<1>5. WaitingIsNew' /\ OpenOrdersListed'
  BY <1>2 DEF PaperInductive, WaitingIsNew, OpenOrdersListed, Open, IsActive
<1>6. Holdings(order, Open)' = Holdings(order, Open) /\ Effects(order)' = Effects(order)
  BY <1>2 DEF Holdings, Effects, Open
<1>7. ReservedIsOpenBuys' /\ CashIsAccounted' /\ Solvent'
  BY <1>2, <1>6 DEF PaperInductive, ReservedIsOpenBuys, CashIsAccounted, Solvent, FeesAreCovered
<1>8. QuotesAreHonoured'
  BY <1>2 DEF PaperInductive, QuotesAreHonoured, NoMissedTouch, WaitsForOneQuote, Accepts, Open
<1>9. QED
  BY <1>3, <1>4, <1>5, <1>7, <1>8 DEF PaperInductive

(* An accepted order waits in one place and holds what it reserved. *)
LEMMA AcceptKeeps ==
    ASSUME PaperInductive, nextId < MaxOrders, nextId' = nextId + 1,
           NEW side \in OrderSide, NEW qty \in Nat, qty > 0,
           NEW t \in Tickets, IsResting(t) => t.price > 0,
           Accept(nextId + 1,
                  NewOrder(side, CHOOSE s \in Symbols : TRUE, qty, ReferenceEstimate(t)), t),
           UNCHANGED last
    PROVE  PaperInductive'
<1> DEFINE o == nextId + 1
           ord == NewOrder(side, CHOOSE s \in Symbols : TRUE, qty, ReferenceEstimate(t))
           placed == [ord EXCEPT !.reserved = Reservation(ord)]
<1>1. /\ o \in OrderIds /\ o \in 1..MaxOrders /\ nextId \in Nat /\ MaxOrders \in Nat
      /\ o \notin recorded /\ o \notin Open
  BY NewIdIsFree
<1>2. /\ t \in Ticket /\ placed \in Order /\ placed.status = "created" /\ placed.qty = qty
      /\ placed.side = side /\ placed.reserved \in Nat
      /\ placed.side # "buy" => placed.reserved = 0
  BY SubmittedIs
<1>3. /\ order' = [order EXCEPT ![o] = placed]
      /\ ticket' = [ticket EXCEPT ![o] = t]
      /\ portfolio' = Reserve(portfolio, placed.reserved)
      /\ recorded' = recorded \cup {o}
      /\ queue' = IF IsResting(t) THEN queue ELSE queue \cup {o}
      /\ book' = IF IsResting(t) THEN book \cup {o} ELSE book
      /\ report' = <<Event("accepted", o)>>
      /\ fresh' = fresh \cup {o}
      /\ last' = last
  BY DEF Accept
<1>4. nextId' = o
  OBVIOUS
<1>5. \A p \in OrderIds : p > o => p # o /\ p > nextId
  BY <1>1 DEF OrderIds
<1>6. IsResting(t) => t.price \in Prices
  BY DEF Tickets, IsResting
<1> HIDE DEF o, ord, placed
<1>7. /\ order' \in [OrderIds -> Order] /\ order'[o] = placed
      /\ \A p \in OrderIds \ {o} : order'[p] = order[p]
      /\ ticket' \in [OrderIds -> Ticket] /\ ticket'[o] = t
      /\ \A p \in OrderIds \ {o} : ticket'[p] = ticket[p]
  BY <1>1, <1>2, <1>3 DEF PaperInductive, TypeOK
<1>8. /\ Open' = Open \cup {o} /\ Open \subseteq recorded /\ recorded \subseteq OrderIds \ {o}
      /\ book \subseteq Open /\ queue \subseteq Open
      /\ \A p \in recorded : order'[p] = order[p] /\ ticket'[p] = ticket[p]
  BY <1>1, <1>3, <1>7 DEF PaperInductive, TypeOK, OpenOrdersListed, Open
<1>9. /\ portfolio' \in Ledger /\ portfolio'.reserved = portfolio.reserved + placed.reserved
      /\ portfolio'.cash = portfolio.cash /\ portfolio.reserved \in Nat
  <2>1. portfolio \in Ledger
    BY DEF PaperInductive, TypeOK
  <2> DEFINE amount == placed.reserved
  <2>2. amount \in Nat /\ portfolio' = Reserve(portfolio, amount)
    BY <1>2, <1>3
  <2> HIDE DEF amount
  <2>3. /\ Reserve(portfolio, amount) \in Ledger
        /\ Reserve(portfolio, amount).reserved = portfolio.reserved + amount
        /\ Reserve(portfolio, amount).cash = portfolio.cash
        /\ portfolio.reserved \in Nat
    BY <2>1, <2>2 DEF Reserve, Ledger
  <2>4. QED
    BY <2>2, <2>3 DEF amount
<1>10. TypeOK'
  <2>1. Event("accepted", o) \in OrderEvent
    BY <1>1 DEF Event, OrderEvent
  <2>2. report' \in Seq(OrderEvent)
    BY <1>3, <2>1
  <2>3. nextId' \in 0..MaxOrders
    BY <1>1, <1>4
  <2>4. QED
    BY <1>1, <1>3, <1>7, <1>9, <2>2, <2>3 DEF PaperInductive, TypeOK
<1>11. IdsInOrder'
  BY <1>3, <1>4, <1>5, <1>7 DEF PaperInductive, IdsInOrder
<1>12. WaitingIsNew'
  <2>1. \A p \in Open' : order'[p].status = "created" /\ order'[p].qty > 0
    BY <1>2, <1>7, <1>8 DEF PaperInductive, WaitingIsNew
  <2>2. \A p \in book' : IsResting(ticket'[p]) /\ ticket'[p].price \in Prices
    BY <1>3, <1>6, <1>7, <1>8 DEF PaperInductive, WaitingIsNew
  <2>3. QED
    BY <2>1, <2>2 DEF WaitingIsNew
<1>13. OpenOrdersListed'
  <2>1. IsActive(order'[o])
    BY <1>2, <1>7 DEF IsActive
  <2>2. queue' \cap book' = {}
    BY <1>1, <1>3 DEF PaperInductive, OpenOrdersListed, Open
  <2>3. Open \cup {o} = {p \in recorded \cup {o} : IsActive(order'[p])}
    BY <1>8, <2>1 DEF PaperInductive, OpenOrdersListed
  <2>4. QED
    BY <1>3, <1>8, <2>2, <2>3 DEF OpenOrdersListed, IsActive
<1>14. ReservedIsOpenBuys'
  <2> DEFINE before == Holdings(order, Open)
             after == Holdings(order', Open')
  <2>1. /\ before[o] = 0 /\ after[o] = placed.reserved
        /\ \A p \in OrderIds \ {o} : after[p] = before[p]
    BY <1>1, <1>2, <1>7, <1>8 DEF Holdings
  <2>2. \A p \in 1..MaxOrders : before[p] \in Nat
    BY HoldingsType DEF PaperInductive, TypeOK
  <2> HIDE DEF before, after
  <2>3. Shifted(after, before, MaxOrders, o, placed.reserved)
    BY <1>1, <1>2, <2>1, <2>2 DEF Shifted, OrderIds
  <2>4. Total(after, MaxOrders) = Total(before, MaxOrders) + placed.reserved
    BY <1>1, <1>2, <2>3, TotalChange
  <2>5. portfolio.reserved = Total(before, MaxOrders)
    BY DEF before, PaperInductive, ReservedIsOpenBuys
  <2>6. Holdings(order, Open)' = after
    BY DEF after, Holdings
  <2>7. QED
    BY <1>9, <2>4, <2>5, <2>6 DEF ReservedIsOpenBuys
<1>15. CashIsAccounted' /\ Solvent'
  <2>1. \A p \in OrderIds : Effects(order)'[p] = Effects(order)[p]
    BY <1>1, <1>2, <1>3, <1>7, <1>8 DEF Effects
  <2>2. Effects(order)' = Effects(order)
    BY <2>1 DEF Effects
  <2>3. QED
    BY <1>9, <2>2 DEF PaperInductive, CashIsAccounted, Solvent, FeesAreCovered
<1>16. QuotesAreHonoured'
  <2>1. book' \ fresh' \subseteq book \ fresh
    BY <1>3
  <2>2. NoMissedTouch'
    BY <1>3, <1>8, <2>1 DEF PaperInductive, QuotesAreHonoured, NoMissedTouch, Accepts
  <2>3. WaitsForOneQuote'
    BY <1>3, <1>8 DEF PaperInductive, QuotesAreHonoured, WaitsForOneQuote
  <2>4. QED
    BY <2>2, <2>3 DEF QuotesAreHonoured
<1>17. QED
  BY <1>10, <1>11, <1>12, <1>13, <1>14, <1>15, <1>16 DEF PaperInductive

LEMMA SubmitKeeps ==
    ASSUME PaperInductive, NEW side \in OrderSide, NEW qty \in Nat, NEW t \in Tickets,
           SubmitOrder(side, qty, t)
    PROVE  PaperInductive'
<1> DEFINE o == nextId + 1
           ord == NewOrder(side, CHOOSE s \in Symbols : TRUE, qty, ReferenceEstimate(t))
<1>1. nextId < MaxOrders /\ nextId' = o /\ UNCHANGED last
  BY DEF SubmitOrder
<1>2. CASE RefuseQuantity(o, ord)
  <2>1. Reject(ord, "input") \in Order
    BY SubmittedIs
  <2> HIDE DEF ord
  <2>2. QED
    BY <1>1, <1>2, <2>1, RefusalKeeps
<1>3. CASE RaiseOnPrice
  BY <1>1, <1>3, RaiseKeeps
<1>4. CASE qty > 0 /\ (IsResting(t) => t.price > 0) /\ Accept(o, ord, t)
  BY <1>1, <1>4, AcceptKeeps
<1>5. QED
  BY <1>2, <1>3, <1>4 DEF SubmitOrder

-----------------------------------------------------------------------------
LEMMA PaperInit == Init => PaperInductive
<1> SUFFICES ASSUME Init
             PROVE  PaperInductive
  OBVIOUS
<1>1. MaxOrders \in Nat /\ Capital \in Nat
  BY PaperConstants
<1>2. NoOrder \in Order
  <2>1. (CHOOSE s \in Symbols : TRUE) \in Symbols
    BY PaperConstants
  <2>2. "buy" \in OrderSide /\ 0 \in Nat
    BY DEF OrderSide
  <2>3. QED
    BY <2>1, <2>2, NewOrderType DEF NoOrder
<1>3. NoTicket \in Ticket
  BY DEF NoTicket, Ticket
<1>4. NewLedger(Capital) \in Ledger
      /\ NewLedger(Capital).reserved = 0 /\ NewLedger(Capital).cash = Capital
  BY <1>1 DEF NewLedger, Ledger
<1>5. TypeOK
  <2>1. <<>> \in Seq(OrderEvent)
    OBVIOUS
  <2>2. QED
    BY <1>1, <1>2, <1>3, <1>4, <2>1 DEF Init, TypeOK
<1>6. IdsInOrder /\ WaitingIsNew /\ OpenOrdersListed
  BY DEF Init, IdsInOrder, WaitingIsNew, OpenOrdersListed, Open
<1>7. ReservedIsOpenBuys
  <2>1. \A p \in 1..MaxOrders : Holdings(order, Open)[p] = 0
    BY DEF Init, Holdings, Open, OrderIds
  <2>2. QED
    BY <1>1, <1>4, <2>1, TotalZero DEF Init, ReservedIsOpenBuys
<1>8. CashIsAccounted /\ Solvent
  <2>1. \A p \in 1..MaxOrders : Effects(order)[p] = 0
    BY DEF Init, Effects, OrderIds
  <2>2. Total(Effects(order), MaxOrders) = 0
    BY <1>1, <2>1, TotalZero
  <2>3. QED
    BY <1>1, <1>4, <2>2 DEF Init, CashIsAccounted, Solvent
<1>9. QuotesAreHonoured
  BY DEF Init, QuotesAreHonoured, NoMissedTouch, WaitsForOneQuote, Open
<1>10. QED
  BY <1>5, <1>6, <1>7, <1>8, <1>9 DEF PaperInductive

LEMMA PaperStutter == PaperInductive /\ UNCHANGED vars => PaperInductive'
<1> SUFFICES ASSUME PaperInductive, UNCHANGED vars
             PROVE  PaperInductive'
  OBVIOUS
<1>1. UNCHANGED <<nextId, ticket, queue, book, recorded, fresh, order, portfolio, last, report>>
  BY DEF vars, venueVars
<1>2. TypeOK' /\ IdsInOrder' /\ WaitingIsNew' /\ OpenOrdersListed'
  BY <1>1
  DEF PaperInductive, TypeOK, IdsInOrder, WaitingIsNew, OpenOrdersListed, Open, IsActive
<1>3. Holdings(order, Open)' = Holdings(order, Open) /\ Effects(order)' = Effects(order)
  BY <1>1 DEF Holdings, Effects, Open
<1>4. ReservedIsOpenBuys' /\ CashIsAccounted' /\ Solvent'
  BY <1>1, <1>3 DEF PaperInductive, ReservedIsOpenBuys, CashIsAccounted, Solvent, FeesAreCovered
<1>5. QuotesAreHonoured'
  BY <1>1 DEF PaperInductive, QuotesAreHonoured, NoMissedTouch, WaitsForOneQuote, Accepts, Open
<1>6. QED
  BY <1>2, <1>4, <1>5 DEF PaperInductive

LEMMA PaperNext == PaperInductive /\ [Next]_vars => PaperInductive'
<1> SUFFICES ASSUME PaperInductive, [Next]_vars
             PROVE  PaperInductive'
  OBVIOUS
<1>1. ASSUME NEW side \in OrderSide, NEW qty \in Quantities, NEW t \in Tickets,
             SubmitOrder(side, qty, t)
      PROVE  PaperInductive'
  BY <1>1, SubmitKeeps, PaperConstants
<1>2. ASSUME NEW o \in OrderIds, CancelOrder(o)
      PROVE  PaperInductive'
  BY <1>2, CancelKeeps
<1>3. ASSUME NEW quote \in Quote, OnMarketData(quote)
      PROVE  PaperInductive'
  BY <1>3, UpdateKeeps
<1>4. CASE UNCHANGED vars
  BY <1>4, PaperStutter
<1>5. QED
  BY <1>1, <1>2, <1>3, <1>4 DEF Next

(* Whatever is submitted, cancelled and quoted, and in whatever order, the *)
(* venue's books say the same of every order (the operations of            *)
(* ExchangeSimulator and of PaperExecutor).                                *)
THEOREM PaperInvariant == Spec => []PaperInductive
<1>1. Init => PaperInductive
  BY PaperInit
<1>2. PaperInductive /\ [Next]_vars => PaperInductive'
  BY PaperNext
<1>3. QED
  BY <1>1, <1>2, PTL DEF Spec

(* Every variable of the venue keeps its type.                             *)
THEOREM PaperTyped == Spec => []TypeOK
<1>1. PaperInductive => TypeOK
  BY DEF PaperInductive
<1>2. QED
  BY <1>1, PaperInvariant, PTL

(* Reservations are those of the waiting buys, the waiting orders are those *)
(* of the portfolio that have not ended, and the cash is the capital and   *)
(* what the filled orders moved; it stays at zero or above where no fill is *)
(* worth less than its fee (Portfolio.apply_order, ExchangeSimulator).     *)
THEOREM BooksStayTrue ==
    ASSUME FeesAreCovered
    PROVE  Spec => []BooksAgree
<1>1. PaperInductive => BooksAgree
  BY DEF PaperInductive, BooksAgree, CashIsSumOfFills, CashIsAccounted, Solvent
<1>2. QED
  BY <1>1, PaperInvariant, PTL

(* No quote touches a resting order and leaves it, and no market or        *)
(* immediate-or-cancel order sees a second quote (on_market_data).         *)
THEOREM NoTouchIsMissed == Spec => []QuotesAreHonoured
<1>1. PaperInductive => QuotesAreHonoured
  BY DEF PaperInductive
<1>2. QED
  BY <1>1, PaperInvariant, PTL

-----------------------------------------------------------------------------
(***************************************************************************)
(* What one call may do.                                                   *)
(***************************************************************************)

(* cancel and on_market_data end orders that wait, and say so.             *)
LEMMA CallEndsWaiting ==
    ASSUME PaperInductive, NEW waiting \in SUBSET Open, NEW state, Accounted(state, waiting),
           Become(state)
    PROVE  /\ \A o \in 1..nextId : ~IsActive(order[o]) => order'[o] = order[o]
           /\ \A o \in OrderIds : order'[o].status # order[o].status =>
                  LastWord(report', o, order'[o].status)
<1>1. order' = state.order /\ report' = state.report
  BY DEF Become
<1>2. \A o \in 1..nextId : o \in OrderIds /\ (~IsActive(order[o]) => o \notin Open)
  <2>1. nextId \in 0..MaxOrders /\ MaxOrders \in Nat
    BY PaperConstants DEF PaperInductive, TypeOK
  <2>2. QED
    BY <2>1 DEF OrderIds, PaperInductive, OpenOrdersListed
<1>3. QED
  BY <1>1, <1>2 DEF Accounted

(* The events a call returns: of orders that waited and have ended, or the *)
(* one event about the order it submitted                                  *)
CallTells ==
    /\ report' \in Seq(OrderEvent) /\ nextId <= nextId'
    /\ \A o \in OrderIds : order'[o].status # order[o].status =>
           LastWord(report', o, order'[o].status)
    /\ \A o \in Open' : o \in Open \/ (o > nextId /\ report' = <<Event("accepted", o)>>)
    /\ \/ TellsOf(report', Open \ Open')
       \/ Len(report') = 1 /\ nextId < report'[1].id /\ report'[1].id <= nextId'

(* submit touches the order of a new id alone, and a refusal is reported.  *)
LEMMA SubmitAddsOne ==
    ASSUME PaperInductive, NEW side \in OrderSide, NEW qty \in Nat, NEW t \in Tickets,
           SubmitOrder(side, qty, t)
    PROVE  /\ \A o \in 1..nextId : ~IsActive(order[o]) => order'[o] = order[o]
           /\ \A o \in OrderIds : order'[o].status # order[o].status =>
                  LastWord(report', o, order'[o].status)
<1> DEFINE n == nextId + 1
           ord == NewOrder(side, CHOOSE s \in Symbols : TRUE, qty, ReferenceEstimate(t))
           placed == [ord EXCEPT !.reserved = Reservation(ord)]
<1>1. nextId < MaxOrders
  BY DEF SubmitOrder
<1>2. /\ n \in OrderIds /\ nextId \in Nat /\ order[n].status = "created"
      /\ order \in [OrderIds -> Order]
      /\ \A o \in 1..nextId : o \in OrderIds /\ o # n
  <2>1. n \in OrderIds /\ nextId \in Nat /\ MaxOrders \in Nat /\ order[n] = NoOrder
    BY <1>1, NewIdIsFree
  <2>2. QED
    BY <1>1, <2>1 DEF NoOrder, NewOrder, PaperInductive, TypeOK, OrderIds
<1>3. placed.status = "created"
  BY DEF NewOrder
<1>4. CASE RefuseQuantity(n, ord)
  <2>1. order' = [order EXCEPT ![n] = Reject(ord, "input")] /\ report' = <<Event("rejected", n)>>
    BY <1>4 DEF RefuseQuantity
  <2>2. Reject(ord, "input").status = "rejected"
    BY DEF Reject, NewOrder
  <2>3. LastWord(report', n, "rejected")
    <3>1. DOMAIN report' = {1} /\ Len(report') = 1 /\ report'[1] = Event("rejected", n)
      BY <2>1
    <3>2. \A j \in (1 + 1)..1 : FALSE
      OBVIOUS
    <3>3. QED
      BY <3>1, <3>2 DEF LastWord
  <2> HIDE DEF n, ord
  <2>4. /\ order'[n].status = "rejected"
        /\ \A o \in OrderIds \ {n} : order'[o] = order[o]
    BY <1>2, <2>1, <2>2
  <2>5. QED
    BY <1>2, <2>3, <2>4
<1>5. CASE RaiseOnPrice
  BY <1>5 DEF RaiseOnPrice
<1>6. CASE Accept(n, ord, t)
  <2>1. order' = [order EXCEPT ![n] = placed]
    BY <1>6 DEF Accept
  <2> HIDE DEF n, placed
  <2>2. /\ order'[n].status = order[n].status
        /\ \A o \in OrderIds \ {n} : order'[o] = order[o]
    BY <1>2, <1>3, <2>1
  <2>3. QED
    BY <1>2, <2>2
<1>7. QED
  BY <1>4, <1>5, <1>6 DEF SubmitOrder

LEMMA SubmitTells ==
    ASSUME PaperInductive, NEW side \in OrderSide, NEW qty \in Nat, NEW t \in Tickets,
           SubmitOrder(side, qty, t)
    PROVE  CallTells
<1> DEFINE n == nextId + 1
           ord == NewOrder(side, CHOOSE s \in Symbols : TRUE, qty, ReferenceEstimate(t))
<1>1. nextId < MaxOrders /\ nextId' = n
  BY DEF SubmitOrder
<1>2. n \in OrderIds /\ n \in Nat /\ nextId \in Nat /\ nextId < n /\ nextId <= n
  BY <1>1, NewIdIsFree
<1>3. \A o \in OrderIds : order'[o].status # order[o].status =>
          LastWord(report', o, order'[o].status)
  BY SubmitAddsOne
<1>4. Event("accepted", n) \in OrderEvent /\ Event("rejected", n) \in OrderEvent
      /\ Event("accepted", n).id = n /\ Event("rejected", n).id = n
  BY <1>2 DEF Event, OrderEvent
<1> HIDE DEF n, ord
<1>5. CASE RefuseQuantity(n, ord)
  <2>1. report' = <<Event("rejected", n)>> /\ Open' = Open
    BY <1>5 DEF RefuseQuantity, Open
  <2>2. report' \in Seq(OrderEvent)
    BY <1>4, <2>1
  <2>3. Len(report') = 1 /\ nextId < report'[1].id /\ report'[1].id <= nextId'
    BY <1>1, <1>2, <1>4, <2>1
  <2>4. QED
    BY <1>1, <1>2, <1>3, <2>1, <2>2, <2>3, Zenon DEF CallTells
<1>6. CASE RaiseOnPrice
  <2>1. report' = <<>> /\ Open' = Open
    BY <1>6 DEF RaiseOnPrice, Open
  <2>2. report' \in Seq(OrderEvent) /\ TellsOf(report', Open \ Open')
    BY <2>1 DEF TellsOf
  <2>3. QED
    BY <1>1, <1>2, <1>3, <2>1, <2>2 DEF CallTells
<1>7. CASE Accept(n, ord, t)
  <2>1. report' = <<Event("accepted", n)>> /\ Open' \subseteq Open \cup {n}
    BY <1>7 DEF Accept, Open
  <2>2. report' \in Seq(OrderEvent)
    BY <1>4, <2>1
  <2>3. Len(report') = 1 /\ nextId < report'[1].id /\ report'[1].id <= nextId'
    BY <1>1, <1>2, <1>4, <2>1
  <2>4. \A o \in Open' : o \in Open \/ (o > nextId /\ report' = <<Event("accepted", o)>>)
    BY <1>2, <2>1
  <2>5. QED
    BY <1>1, <1>2, <1>3, <2>2, <2>3, <2>4, Zenon DEF CallTells
<1>8. QED
  BY <1>5, <1>6, <1>7 DEF SubmitOrder, n, ord

LEMMA EndingTells ==
    ASSUME PaperInductive, NEW waiting \in SUBSET Open, NEW state, InPass(state, waiting),
           Become(state), Open' = waiting, nextId' = nextId
    PROVE  CallTells
<1>1. Accounted(state, waiting) /\ TellsOf(state.report, Open \ waiting) /\ report' = state.report
  BY DEF InPass, Become
<1>2. \A o \in OrderIds : order'[o].status # order[o].status =>
          LastWord(report', o, order'[o].status)
  BY <1>1, CallEndsWaiting
<1>3. report' \in Seq(OrderEvent) /\ TellsOf(report', Open \ Open')
  BY <1>1 DEF Accounted, State
<1>4. nextId <= nextId'
  BY DEF PaperInductive, TypeOK
<1>5. QED
  BY <1>2, <1>3, <1>4 DEF CallTells

LEMMA CancelTells ==
    ASSUME PaperInductive, NEW o \in OrderIds, CancelOrder(o)
    PROVE  CallTells
<1>1. /\ o \in Open /\ Become(Withdraw(Now, o)) /\ Open' = Open \ {o} /\ nextId' = nextId
  BY DEF CancelOrder, Open
<1>2. InPass(Now, Open) /\ Accounted(Withdraw(Now, o), Open \ {o})
  BY <1>1, NowIsAccounted, WithdrawKeeps DEF InPass
<1>3. TellsOf(Withdraw(Now, o).report, Open \ (Open \ {o}))
  <2>1. Withdraw(Now, o).report = Append(<<>>, Event("cancelled", o))
    BY DEF Withdraw, Now
  <2>2. Event("cancelled", o) \in OrderEvent /\ <<>> \in Seq(OrderEvent) /\ TellsOf(<<>>, {})
    BY DEF Event, OrderEvent, TellsOf
  <2>3. TellsOf(Append(<<>>, Event("cancelled", o)), {} \cup {o})
    <3>1. \A i \in DOMAIN <<>> : FALSE
      OBVIOUS
    <3>2. QED
      BY <2>2, <3>1, TellsMore
  <2>4. Open \ (Open \ {o}) = {} \cup {o}
    BY <1>1
  <2>5. QED
    BY <2>1, <2>3, <2>4
<1>4. QED
  BY <1>1, <1>2, <1>3, EndingTells DEF InPass

LEMMA UpdateTells ==
    ASSUME PaperInductive, NEW quote \in Quote, OnMarketData(quote)
    PROVE  CallTells
<1> DEFINE resting == book \ Triggered(quote)
           filled  == InTurn("market", quote, queue, Now)
           matched == InTurn("trigger", quote, Triggered(quote), filled)
           state   == InTurn("withdraw", quote, Immediate(resting), matched)
           waiting == resting \ Immediate(resting)
<1>1. InPass(state, waiting)
  BY UpdateIsAccounted
<1>2. Become(state) /\ queue' = {} /\ book' = waiting /\ nextId' = nextId
  BY DEF OnMarketData
<1> HIDE DEF state, matched, filled
<1>3. waiting \in SUBSET Open /\ Open' = waiting
  BY <1>2 DEF Open
<1> HIDE DEF waiting
<1>4. QED
  BY <1>1, <1>2, <1>3, EndingTells

LEMMA StepKeepsItsWord ==
    ASSUME PaperInductive, Next
    PROVE  /\ \A o \in 1..nextId : ~IsActive(order[o]) => order'[o] = order[o]
           /\ \A o \in OrderIds : order'[o].status # order[o].status =>
                  LastWord(report', o, order'[o].status)
<1> DEFINE Kept == \A o \in 1..nextId : ~IsActive(order[o]) => order'[o] = order[o]
           Told == \A o \in OrderIds : order'[o].status # order[o].status =>
                       LastWord(report', o, order'[o].status)
<1>1. ASSUME NEW side \in OrderSide, NEW qty \in Quantities, NEW t \in Tickets,
             SubmitOrder(side, qty, t)
      PROVE  Kept /\ Told
  BY <1>1, SubmitAddsOne, PaperConstants
<1>2. ASSUME NEW o \in OrderIds, CancelOrder(o)
      PROVE  Kept /\ Told
  <2>1. o \in Open /\ Become(Withdraw(Now, o))
    BY <1>2 DEF CancelOrder
  <2>2. Accounted(Withdraw(Now, o), Open \ {o})
    BY <2>1, NowIsAccounted, WithdrawKeeps DEF InPass
  <2>3. QED
    BY <2>1, <2>2, CallEndsWaiting
<1>3. ASSUME NEW quote \in Quote, OnMarketData(quote)
      PROVE  Kept /\ Told
  <2> DEFINE resting == book \ Triggered(quote)
             filled  == InTurn("market", quote, queue, Now)
             matched == InTurn("trigger", quote, Triggered(quote), filled)
             state   == InTurn("withdraw", quote, Immediate(resting), matched)
  <2>1. Accounted(state, resting \ Immediate(resting))
    BY UpdateIsAccounted DEF InPass
  <2>2. Become(state)
    BY <1>3 DEF OnMarketData
  <2> HIDE DEF state, matched, filled
  <2>3. resting \ Immediate(resting) \in SUBSET Open
    BY DEF Open
  <2> HIDE DEF resting
  <2>4. QED
    BY <2>1, <2>2, <2>3, CallEndsWaiting
<1>4. QED
  BY <1>1, <1>2, <1>3 DEF Next

(* An order that is filled, rejected or cancelled stays what it is: no     *)
(* later cancel and no later quote finds it (PendingOrderManager, cancel). *)
THEOREM EndedOrdersStay == Spec => EndedIsFinal
<1>1. PaperInductive /\ [Next]_vars =>
          [\A o \in 1..nextId : ~IsActive(order[o]) => order'[o] = order[o]]_vars
  BY StepKeepsItsWord
<1>2. QED
  BY <1>1, PaperInvariant, PTL DEF Spec, EndedIsFinal

(* The caller learns of every change from what the call returns: the last  *)
(* event about an order names the status it has now (ExchangeSimulator).   *)
THEOREM ChangesAreReported == Spec => EveryChangeReported
<1>1. PaperInductive /\ [Next]_vars =>
          [\A o \in OrderIds :
              order'[o].status # order[o].status =>
                  \E i \in DOMAIN report' :
                      /\ report'[i] = Event(order'[o].status, o)
                      /\ \A j \in (i + 1)..Len(report') : report'[j].id # o]_vars
  BY StepKeepsItsWord DEF LastWord
<1>2. QED
  BY <1>1, PaperInvariant, PTL DEF Spec, EveryChangeReported
=============================================================================
