----------------------------- MODULE FillLedger -----------------------------
(***************************************************************************)
(* What live trading promises about money: "Apply live fills to            *)
(* ``Portfolio`` exactly once" (trading/portfolio/synchronizer.py).        *)
(*                                                                         *)
(* An order is filled at most once and then has an amount of cash it moves *)
(* (negative for a buy), which never changes again.  Its amount is booked  *)
(* into the cash in the moment it is filled, or never; nothing else moves  *)
(* cash, and no booking overdraws it.                                      *)
(***************************************************************************)
EXTENDS Integers

CONSTANTS Orders, Capital

VARIABLES filled, booked, amount, cash

Init ==
    /\ filled = {}
    /\ booked = {}
    /\ amount = [o \in Orders |-> 0]
    /\ cash = Capital

(* o is filled; what it moves is whatever was traded *)
Fill(o) ==
    /\ o \notin filled
    /\ filled' = filled \cup {o}
    /\ \A p \in Orders \ {o} : amount'[p] = amount[p]

Book(o) ==
    /\ Fill(o)
    /\ booked' = booked \cup {o}
    /\ cash' = cash + amount'[o]
    /\ amount'[o] < 0 => cash' >= 0

(* The fill is turned away, or what should have booked it failed. *)
Lose(o) ==
    /\ Fill(o)
    /\ UNCHANGED <<booked, cash>>

Next == \E o \in Orders : Book(o) \/ Lose(o)

Spec == Init /\ [][Next]_<<filled, booked, amount, cash>>
=============================================================================
