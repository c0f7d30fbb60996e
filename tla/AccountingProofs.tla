--------------------------- MODULE AccountingProofs --------------------------
(***************************************************************************)
(* Facts the proofs about money share: what the order and portfolio        *)
(* operators return, what booking an order does to cash and reservation,   *)
(* and facts about Total.                                                  *)
(***************************************************************************)
EXTENDS Portfolio, RunningTotals, WellFoundedInduction, TLAPS

-----------------------------------------------------------------------------
(***************************************************************************)
(* Orders and the portfolio.                                               *)
(***************************************************************************)

LEMMA OrderOpsType ==
    ASSUME NEW ord \in Order
    PROVE  /\ Submit(ord) \in Order
           /\ Cancel(ord) \in Order
           /\ \A reason \in RejectReason : Reject(ord, reason) \in Order
           /\ \A fill \in Fill : Complete(ord, fill) \in Order
           /\ [ord EXCEPT !.known = TRUE] \in Order
           /\ \A q, r \in Nat : [ord EXCEPT !.qty = q, !.ref = r] \in Order
BY DEF Submit, Cancel, Reject, Complete, Order, OrderStatus, RejectReason, Fill

LEMMA NewOrderType ==
    ASSUME NEW side \in OrderSide, NEW s \in Symbols, NEW q \in Nat, NEW r \in Nat
    PROVE  NewOrder(side, s, q, r) \in Order
BY DEF NewOrder, Order, OrderStatus, OrderSide, RejectReason, Fill, NoFill

LEMMA LedgerOpsType ==
    ASSUME NEW pf \in Ledger, NEW fill \in Fill
    PROVE  /\ OpenLong(pf, fill) \in Ledger
           /\ ClosePosition(pf, fill) \in Ledger
           /\ TotalCost(fill) \in Int
           /\ Proceeds(fill) \in Int
           /\ \A amount \in Nat : Release(pf, amount) \in Ledger
<1>1. /\ fill.price \in Nat
      /\ fill.qty \in Nat
      /\ fill.cost \in Nat
  BY DEF Fill
<1>2. /\ fill.price * fill.qty \in Nat
      /\ fill.price * pf.qty \in Nat
  BY <1>1 DEF Ledger
<1>3. OpenLong(pf, fill) \in Ledger
  <2> DEFINE value == fill.price * fill.qty
  <2>1. value \in Nat
    BY <1>2
  <2>2. OpenLong(pf, fill) = [pf EXCEPT !.qty       = pf.qty + fill.qty,
                                        !.basis     = pf.basis + value,
                                        !.entryCost = pf.entryCost + fill.cost]
    BY DEF OpenLong, Ledger
  <2> HIDE DEF value
  <2>3. /\ pf.qty + fill.qty \in Nat
        /\ pf.basis + value \in Nat
        /\ pf.entryCost + fill.cost \in Nat
    BY <1>1, <2>1 DEF Ledger
  <2>4. QED
    BY <2>2, <2>3 DEF Ledger
<1>4. ClosePosition(pf, fill) \in Ledger
  <2> DEFINE value == fill.price * pf.qty
  <2>1. value \in Nat
    BY <1>2
  <2> HIDE DEF value
  <2>2. pf.realized + value - pf.basis - pf.entryCost - fill.cost \in Int
    BY <1>1, <2>1 DEF Ledger
  <2>3. ClosePosition(pf, fill)
          = IF IsOpen(pf)
            THEN [pf EXCEPT !.qty = 0, !.basis = 0, !.entryCost = 0,
                            !.realized = pf.realized + value - pf.basis
                                           - pf.entryCost - fill.cost]
            ELSE pf
    BY DEF ClosePosition, value, Ledger
  <2> DEFINE result == pf.realized + value - pf.basis - pf.entryCost - fill.cost
  <2> HIDE DEF result
  <2>4. result \in Int
    BY <2>2 DEF result
  <2>5. [pf EXCEPT !.qty = 0, !.basis = 0, !.entryCost = 0, !.realized = result] \in Ledger
    BY <2>4 DEF Ledger
  <2>6. QED
    BY <2>3, <2>5 DEF result
<1>5. /\ TotalCost(fill) \in Int
      /\ Proceeds(fill) \in Int
  BY <1>1, <1>2 DEF TotalCost, Proceeds
<1>6. \A amount \in Nat : Release(pf, amount) \in Ledger
  BY DEF Release, Ledger
<1>7. QED
  BY <1>3, <1>4, <1>5, <1>6

LEMMA CashType ==
    ASSUME NEW pf \in Ledger, NEW cash \in Int
    PROVE  [pf EXCEPT !.cash = cash] \in Ledger
BY DEF Ledger

LEMMA LedgerAfterType ==
    ASSUME NEW pf \in Ledger, NEW ord \in Order
    PROVE  /\ LedgerAfter(pf, ord) \in Ledger
           /\ OrderAfter(pf, ord) \in Order
<1>1. ord.reserved \in Nat /\ ord.fill \in Fill
  BY DEF Order
<1> DEFINE released == IF ord.side = "buy" THEN Release(pf, ord.reserved) ELSE pf
<1>2. released \in Ledger
  BY <1>1, LedgerOpsType
<1> HIDE DEF released
<1>3. released.cash \in Int
  BY <1>2 DEF Ledger
<1>4. /\ released.cash - TotalCost(ord.fill) \in Int
      /\ released.cash + Proceeds(ord.fill) \in Int
  BY <1>1, <1>2, <1>3, LedgerOpsType
<1>5. /\ [released EXCEPT !.cash = released.cash - TotalCost(ord.fill)] \in Ledger
      /\ [released EXCEPT !.cash = released.cash + Proceeds(ord.fill)] \in Ledger
  BY <1>2, <1>4, CashType
<1>6. /\ OpenLong([released EXCEPT !.cash = released.cash - TotalCost(ord.fill)],
                  ord.fill) \in Ledger
      /\ ClosePosition([released EXCEPT !.cash = released.cash + Proceeds(ord.fill)],
                       ord.fill) \in Ledger
  BY <1>1, <1>5, LedgerOpsType
<1>7. LedgerAfter(pf, ord) \in Ledger
  BY <1>2, <1>6 DEF LedgerAfter, released
<1>8. OrderAfter(pf, ord) \in Order
  BY OrderOpsType DEF OrderAfter, RejectReason
<1>9. QED
  BY <1>7, <1>8

(* What an order with a fill moves *)
Moves(ord) == IF ord.side = "buy" THEN 0 - TotalCost(ord.fill) ELSE Proceeds(ord.fill)

LEMMA TradeType ==
    ASSUME NEW fill \in Fill
    PROVE  TotalCost(fill) \in Int /\ Proceeds(fill) \in Int
<1>1. fill.price * fill.qty \in Nat /\ fill.cost \in Nat
  BY DEF Fill
<1>2. QED
  BY <1>1 DEF TotalCost, Proceeds

LEMMA BookingMovesCash ==
    ASSUME NEW pf \in Ledger, NEW ord \in Order, HasFill(ord)
    PROVE  /\ Unaffordable(pf, ord) => LedgerAfter(pf, ord).cash = pf.cash
           /\ ~Unaffordable(pf, ord) => LedgerAfter(pf, ord).cash = pf.cash + Moves(ord)
<1> DEFINE released == IF ord.side = "buy" THEN Release(pf, ord.reserved) ELSE pf
<1>1. ord.fill \in Fill /\ ord.reserved \in Nat
  BY DEF Order
<1>2. released \in Ledger /\ released.cash = pf.cash
  BY <1>1, LedgerOpsType DEF Release, Ledger
<1>3. TotalCost(ord.fill) \in Int /\ Proceeds(ord.fill) \in Int /\ pf.cash \in Int
  BY <1>1, LedgerOpsType DEF Ledger
<1> HIDE DEF released
<1>4. CASE Unaffordable(pf, ord)
  BY <1>2, <1>4 DEF LedgerAfter, released
<1>5. CASE ~Unaffordable(pf, ord) /\ ord.side = "buy"
  <2> DEFINE paid == [released EXCEPT !.cash = released.cash - TotalCost(ord.fill)]
  <2>1. LedgerAfter(pf, ord) = OpenLong(paid, ord.fill)
    BY <1>5 DEF LedgerAfter, released
  <2>2. paid \in Ledger /\ paid.cash = pf.cash - TotalCost(ord.fill)
    BY <1>2, <1>3, CashType DEF Ledger
  <2> HIDE DEF paid
  <2>3. OpenLong(paid, ord.fill).cash = paid.cash
    BY <2>2 DEF OpenLong, Ledger
  <2>4. QED
    BY <1>3, <1>5, <2>1, <2>2, <2>3 DEF Moves
<1>6. CASE ~Unaffordable(pf, ord) /\ ord.side # "buy"
  <2> DEFINE paid == [released EXCEPT !.cash = released.cash + Proceeds(ord.fill)]
  <2>1. LedgerAfter(pf, ord) = ClosePosition(paid, ord.fill)
    BY <1>6 DEF LedgerAfter, released
  <2>2. paid \in Ledger /\ paid.cash = pf.cash + Proceeds(ord.fill)
    BY <1>2, <1>3, CashType DEF Ledger
  <2> HIDE DEF paid
  <2>3. ClosePosition(paid, ord.fill).cash = paid.cash
    BY <2>2 DEF ClosePosition, Ledger
  <2>4. QED
    BY <1>3, <1>6, <2>1, <2>2, <2>3 DEF Moves
<1>7. QED
  BY <1>4, <1>5, <1>6

(* A ledger pays for a buy only what it has, and a sell that is worth its  *)
(* fee only adds to it.                                                    *)
LEMMA BookingKeepsCash ==
    ASSUME NEW pf \in Ledger, pf.cash >= 0, NEW ord \in Order,
           HasFill(ord) => ord.fill.cost <= ord.fill.price * ord.fill.qty
    PROVE  LedgerAfter(pf, ord).cash >= 0
<1> DEFINE released == IF ord.side = "buy" THEN Release(pf, ord.reserved) ELSE pf
<1>1. /\ ord.fill \in Fill
      /\ ord.reserved \in Nat
  BY DEF Order
<1>2. /\ released \in Ledger
      /\ released.cash = pf.cash
  BY <1>1, LedgerOpsType DEF Release, Ledger
<1>3. /\ TotalCost(ord.fill) \in Int
      /\ Proceeds(ord.fill) \in Int
      /\ HasFill(ord) => Proceeds(ord.fill) >= 0
  <2>1. ord.fill.price * ord.fill.qty \in Nat
    BY <1>1 DEF Fill
  <2>2. ord.fill.cost \in Nat
    BY <1>1 DEF Fill
  <2> DEFINE value == ord.fill.price * ord.fill.qty
  <2>3. value \in Nat /\ (HasFill(ord) => ord.fill.cost <= value)
    BY <2>1
  <2>4. TotalCost(ord.fill) = value + ord.fill.cost /\ Proceeds(ord.fill) = value - ord.fill.cost
    BY DEF TotalCost, Proceeds
  <2> HIDE DEF value
  <2>5. QED
    BY <2>2, <2>3, <2>4
<1> HIDE DEF released
<1>4. /\ released.cash \in Int
      /\ \A fill : /\ OpenLong(released, fill).cash = released.cash
                   /\ ClosePosition(released, fill).cash = released.cash
  BY <1>2 DEF OpenLong, ClosePosition, Ledger
<1>5. CASE ~HasFill(ord) \/ Unaffordable(pf, ord)
  BY <1>2, <1>5 DEF LedgerAfter, released
<1>6. CASE HasFill(ord) /\ ~Unaffordable(pf, ord) /\ ord.side = "buy"
  <2> DEFINE paid == [released EXCEPT !.cash = released.cash - TotalCost(ord.fill)]
  <2>1. LedgerAfter(pf, ord) = OpenLong(paid, ord.fill)
    BY <1>6 DEF LedgerAfter, released
  <2>2. paid.cash = pf.cash - TotalCost(ord.fill) /\ paid \in Ledger
    BY <1>2, <1>3, <1>4, CashType DEF Ledger
  <2> HIDE DEF paid
  <2>3. OpenLong(paid, ord.fill).cash = paid.cash
    BY <2>2 DEF OpenLong, Ledger
  <2>4. TotalCost(ord.fill) <= pf.cash
    BY <1>2, <1>3, <1>4, <1>6 DEF Unaffordable
  <2>5. QED
    BY <1>2, <1>3, <1>4, <2>1, <2>2, <2>3, <2>4
<1>7. CASE HasFill(ord) /\ ~Unaffordable(pf, ord) /\ ord.side # "buy"
  <2> DEFINE paid == [released EXCEPT !.cash = released.cash + Proceeds(ord.fill)]
  <2>1. LedgerAfter(pf, ord) = ClosePosition(paid, ord.fill)
    BY <1>7 DEF LedgerAfter, released
  <2>2. paid.cash = pf.cash + Proceeds(ord.fill) /\ paid \in Ledger
    BY <1>2, <1>3, <1>4, CashType DEF Ledger
  <2> HIDE DEF paid
  <2>3. ClosePosition(paid, ord.fill).cash = paid.cash
    BY <2>2 DEF ClosePosition, Ledger
  <2>4. QED
    BY <1>2, <1>3, <1>4, <1>7, <2>1, <2>2, <2>3
<1>8. QED
  BY <1>5, <1>6, <1>7

(* Booking gives back what a buy had reserved, whatever comes of it. *)
LEMMA BookingReleases ==
    ASSUME NEW pf \in Ledger, NEW ord \in Order
    PROVE  LedgerAfter(pf, ord).reserved =
               IF ord.side = "buy" THEN Release(pf, ord.reserved).reserved ELSE pf.reserved
<1> DEFINE released == IF ord.side = "buy" THEN Release(pf, ord.reserved) ELSE pf
<1>1. ord.fill \in Fill /\ ord.reserved \in Nat
  BY DEF Order
<1>2. released \in Ledger
  BY <1>1, LedgerOpsType
<1>3. TotalCost(ord.fill) \in Int /\ Proceeds(ord.fill) \in Int
  BY <1>1, LedgerOpsType
<1>4. released.reserved =
          IF ord.side = "buy" THEN Release(pf, ord.reserved).reserved ELSE pf.reserved
  OBVIOUS
<1> HIDE DEF released
<1>5. \A cash \in Int :
         LET paid == [released EXCEPT !.cash = cash] IN
         /\ OpenLong(paid, ord.fill).reserved = released.reserved
         /\ ClosePosition(paid, ord.fill).reserved = released.reserved
  BY <1>2 DEF OpenLong, ClosePosition, Ledger
<1>6. /\ released.cash - TotalCost(ord.fill) \in Int
      /\ released.cash + Proceeds(ord.fill) \in Int
  BY <1>2, <1>3 DEF Ledger
<1>7. LedgerAfter(pf, ord).reserved = released.reserved
  BY <1>5, <1>6 DEF LedgerAfter, released
<1>8. QED
  BY <1>4, <1>7

(* A lot at a price is worth at least the price. *)
LEMMA LotsAreWorth ==
    ASSUME NEW a \in Nat, NEW b \in Nat, b >= 1
    PROVE  a <= a * b
<1>1. b - 1 \in Nat
  OBVIOUS
<1>2. a * (b - 1) \in Nat /\ a * b = a * (b - 1) + a
  BY <1>1
<1>3. QED
  BY <1>2

-----------------------------------------------------------------------------
(***************************************************************************)
(* Totals.  The induction the library offers is over an operator; UpTo is  *)
(* induction over a set, and follows from the natural numbers being well   *)
(* founded.  It is all the facts below need, the existence of the          *)
(* recursive function included.                                            *)
(***************************************************************************)

(* Induction up to n: a set with 0 and with each successor holds 0..n *)
LEMMA UpTo ==
    ASSUME NEW n \in Nat, NEW S, 0 \in S,
           \A i \in 0..(n - 1) : i \in S => i + 1 \in S
    PROVE  0..n \subseteq S
<1> DEFINE out == {i \in 0..n : i \notin S}
<1>1. SUFFICES ASSUME out # {} PROVE FALSE
  OBVIOUS
<1>2. out \subseteq Nat
  OBVIOUS
<1> HIDE DEF out
<1>3. PICK i \in out : \A j \in out : ~(<<j, i>> \in OpToRel(<, Nat))
  BY <1>1, <1>2, NatLessThanWellFounded, WFMin
<1>4. i \in 1..n /\ i \notin S
  BY <1>2 DEF out
<1>5. i - 1 \notin out
  <2>1. <<i - 1, i>> \in OpToRel(<, Nat)
    BY <1>4 DEF OpToRel
  <2>2. QED
    BY <1>3, <2>1
<1>6. i - 1 \in S
  BY <1>4, <1>5 DEF out
<1>7. QED
  BY <1>4, <1>6

IsTotals(total, values, n) ==
    total = [i \in 0..n |-> IF i = 0 THEN 0 ELSE total[i - 1] + values[i]]

LEMMA TotalsExist ==
    ASSUME NEW n \in Nat, NEW values
    PROVE  \E total : IsTotals(total, values, n)
<1> DEFINE S == {m \in 0..n : \E total : IsTotals(total, values, m)}
<1>1. 0 \in S
  <2>1. IsTotals([i \in 0..0 |-> 0], values, 0)
    BY DEF IsTotals
  <2>2. QED
    BY <2>1
<1>2. ASSUME NEW m \in 0..(n - 1), m \in S
      PROVE  m + 1 \in S
  <2>1. PICK t : IsTotals(t, values, m)
    BY <1>2
  <2> DEFINE u == [i \in 0..(m + 1) |-> IF i = m + 1 THEN t[m] + values[m + 1] ELSE t[i]]
  <2>2. ASSUME NEW i \in 0..(m + 1)
        PROVE  u[i] = IF i = 0 THEN 0 ELSE u[i - 1] + values[i]
    BY <2>1 DEF IsTotals
  <2>3. u = [i \in 0..(m + 1) |-> u[i]]
    OBVIOUS
  <2> HIDE DEF u
  <2>4. IsTotals(u, values, m + 1)
    BY <2>2, <2>3 DEF IsTotals
  <2>5. QED
    BY <2>4
<1>3. 0..n \subseteq S
  BY <1>1, <1>2, UpTo
<1>4. QED
  BY <1>3

(* The definition of the running totals, as an equation *)
LEMMA TotalsUnfold ==
    ASSUME NEW n \in Nat, NEW values
    PROVE  /\ RunningTotals(values, n)[0] = 0
           /\ \A i \in 1..n :
                  RunningTotals(values, n)[i] = RunningTotals(values, n)[i - 1] + values[i]
<1> DEFINE total[i \in 0..n] == IF i = 0 THEN 0 ELSE total[i - 1] + values[i]
<1>1. total = CHOOSE t : IsTotals(t, values, n)
  BY DEF IsTotals
<1>2. IsTotals(total, values, n)
  BY <1>1, TotalsExist
<1>3. RunningTotals(values, n) = total
  BY DEF RunningTotals
<1> HIDE DEF total
<1>4. IsTotals(RunningTotals(values, n), values, n)
  BY <1>2, <1>3
<1> DEFINE t == RunningTotals(values, n)
<1> HIDE DEF t
<1>5. t = [i \in 0..n |-> IF i = 0 THEN 0 ELSE t[i - 1] + values[i]]
  BY <1>4 DEF IsTotals, t
<1>6. t[0] = 0 /\ \A i \in 1..n : t[i] = t[i - 1] + values[i]
  BY <1>5
<1>7. QED
  BY <1>6 DEF t

(* new is old, a function to the integers, but for the k-th value, which has d more *)
Shifted(new, old, n, k, d) ==
    /\ \A i \in 1..n : old[i] \in Int
    /\ new[k] = old[k] + d
    /\ \A i \in 1..n \ {k} : new[i] = old[i]

(* Changing one value changes the total by as much. *)
LEMMA TotalChange ==
    ASSUME NEW n \in Nat, NEW old, NEW new, NEW k \in 1..n, NEW d \in Int,
           Shifted(new, old, n, k, d)
    PROVE  /\ Total(new, n) = Total(old, n) + d
           /\ Total(old, n) \in Int
<1> DEFINE s == RunningTotals(old, n)
           t == RunningTotals(new, n)
           S == {i \in 0..n : s[i] \in Int /\ t[i] = s[i] + IF i < k THEN 0 ELSE d}
<1>1. /\ s[0] = 0 /\ \A i \in 1..n : s[i] = s[i - 1] + old[i]
      /\ t[0] = 0 /\ \A i \in 1..n : t[i] = t[i - 1] + new[i]
  BY TotalsUnfold
<1> HIDE DEF s, t
<1>2. 0 \in S
  BY <1>1
<1>3. ASSUME NEW i \in 0..(n - 1), i \in S
      PROVE  i + 1 \in S
  <2>1. s[i + 1] = s[i] + old[i + 1] /\ t[i + 1] = t[i] + new[i + 1]
    BY <1>1
  <2>2. old[i + 1] \in Int /\ new[i + 1] = old[i + 1] + IF i + 1 = k THEN d ELSE 0
    BY DEF Shifted
  <2>3. QED
    BY <1>3, <2>1, <2>2
<1>4. 0..n \subseteq S
  BY <1>2, <1>3, UpTo
<1>5. s[n] \in Int /\ t[n] = s[n] + d
  BY <1>4
<1>6. QED
  BY <1>5 DEF Total, s, t

(* The total of the same values is the same. *)
LEMMA TotalSame ==
    ASSUME NEW n \in Nat, NEW old, NEW new,
           \A i \in 1..n : old[i] \in Int /\ new[i] = old[i]
    PROVE  Total(new, n) = Total(old, n) /\ Total(old, n) \in Int
<1>1. CASE n = 0
  BY <1>1, TotalsUnfold DEF Total
<1>2. CASE n # 0
  <2>1. n \in 1..n /\ Shifted(new, old, n, n, 0)
    BY <1>2 DEF Shifted
  <2>2. Total(new, n) = Total(old, n) + 0 /\ Total(old, n) \in Int
    BY <2>1, TotalChange
  <2>3. QED
    BY <2>2
<1>3. QED
  BY <1>1, <1>2

(* Nothing adds up to nothing. *)
LEMMA TotalZero ==
    ASSUME NEW n \in Nat, NEW values, \A i \in 1..n : values[i] = 0
    PROVE  Total(values, n) = 0
<1> DEFINE s == RunningTotals(values, n)
           S == {i \in 0..n : s[i] = 0}
<1>1. s[0] = 0 /\ \A i \in 1..n : s[i] = s[i - 1] + values[i]
  BY TotalsUnfold
<1> HIDE DEF s
<1>2. 0 \in S
  BY <1>1
<1>3. ASSUME NEW i \in 0..(n - 1), i \in S
      PROVE  i + 1 \in S
  BY <1>1, <1>3
<1>4. 0..n \subseteq S
  BY <1>2, <1>3, UpTo
<1>5. QED
  BY <1>4 DEF Total, s

(* A total of which one value at most counts is that value. *)
LEMMA TotalOfOne ==
    ASSUME NEW n \in Nat, NEW values, NEW k \in 1..n, values[k] \in Int,
           \A i \in 1..n \ {k} : values[i] = 0
    PROVE  Total(values, n) = values[k]
<1> DEFINE none == [i \in 1..n |-> 0]
<1>1. Total(none, n) = 0
  BY TotalZero
<1>2. Shifted(values, none, n, k, values[k])
  BY DEF Shifted
<1> HIDE DEF none
<1>3. Total(values, n) = Total(none, n) + values[k]
  BY <1>2, TotalChange
<1>4. QED
  BY <1>1, <1>3

(* One more value adds to the total. *)
LEMMA TotalNext ==
    ASSUME NEW n \in Nat, NEW old, NEW new, \A i \in 1..n : new[i] = old[i]
    PROVE  Total(new, n + 1) = Total(old, n) + new[n + 1]
<1> DEFINE s == RunningTotals(old, n)
           t == RunningTotals(new, n + 1)
           S == {i \in 0..n : t[i] = s[i]}
<1>1. /\ s[0] = 0 /\ \A i \in 1..n : s[i] = s[i - 1] + old[i]
      /\ t[0] = 0 /\ \A i \in 1..(n + 1) : t[i] = t[i - 1] + new[i]
  BY TotalsUnfold
<1> HIDE DEF s, t
<1>2. 0 \in S
  BY <1>1
<1>3. ASSUME NEW i \in 0..(n - 1), i \in S
      PROVE  i + 1 \in S
  <2>1. i + 1 \in 1..n /\ (i + 1) - 1 = i
    OBVIOUS
  <2>2. s[i + 1] = s[i] + old[i + 1] /\ t[i + 1] = t[i] + new[i + 1]
    BY <1>1, <2>1
  <2>3. QED
    BY <1>3, <2>1, <2>2
<1>4. 0..n \subseteq S
  BY <1>2, <1>3, UpTo
<1>5. t[n] = s[n] /\ t[n + 1] = t[(n + 1) - 1] + new[n + 1] /\ (n + 1) - 1 = n
  BY <1>1, <1>4
<1>6. QED
  BY <1>5 DEF Total, s, t

LEMMA TotalNat ==
    ASSUME NEW n \in Nat, NEW values, \A i \in 1..n : values[i] \in Nat
    PROVE  Total(values, n) \in Nat
<1> DEFINE s == RunningTotals(values, n)
           S == {i \in 0..n : s[i] \in Nat}
<1>1. s[0] = 0 /\ \A i \in 1..n : s[i] = s[i - 1] + values[i]
  BY TotalsUnfold
<1> HIDE DEF s
<1>2. 0 \in S
  BY <1>1
<1>3. \A i \in 0..(n - 1) : i \in S => i + 1 \in S
  <2> SUFFICES ASSUME NEW i \in 0..(n - 1), s[i] \in Nat
               PROVE  s[i + 1] \in Nat
    OBVIOUS
  <2>1. i + 1 \in 1..n /\ (i + 1) - 1 = i
    OBVIOUS
  <2>2. s[i + 1] = s[i] + values[i + 1] /\ values[i + 1] \in Nat
    BY <1>1, <2>1
  <2>3. QED
    BY <2>2
<1>4. 0..n \subseteq S
  BY <1>2, <1>3, UpTo
<1>5. QED
  BY <1>4 DEF Total, s
=============================================================================
