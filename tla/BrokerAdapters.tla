--------------------------- MODULE BrokerAdapters ---------------------------
(***************************************************************************)
(* The three broker adapters (trading/broker/): how each turns what the    *)
(* venue says of an order into an answer, under the executor that submits  *)
(* one order, polls it and cancels it when its time is up.  Any request    *)
(* can raise, before or after the venue has acted on it.                   *)
(***************************************************************************)
EXTENDS Naturals

CONSTANT Qty            \* the size of the order

AdapterConstants == Qty \in Nat \ {0}

VARIABLES
    kind,               \* the adapter
    connected,          \* is_connected
    deal,               \* the order at the venue: [status, filled]
    place,              \* where the executor is with it
    told,               \* the last answer: [status, filled, forced]
    outcome, booked,    \* what the platform made of it
    raised,             \* history: a call raised
    seen                \* the last positions: [told, was]

adapterVars == <<kind, connected, deal, place, told, outcome, booked, raised, seen>>

Kinds == {"ccxt", "alpaca", "ib"}
LiveAtVenue == {"working", "partial", "closing"}
EndedAtVenue == {"filled", "cancelled", "rejected", "expired"}
Terminal == {"filled", "cancelled", "rejected", "expired"}

AdapterTypeOK ==
    /\ kind \in Kinds /\ connected \in BOOLEAN /\ raised \in BOOLEAN
    /\ deal.status \in {"none"} \cup LiveAtVenue \cup EndedAtVenue /\ deal.filled \in 0..Qty
    /\ place \in {"idle", "submitting", "polling", "reading", "done"}
    /\ outcome \in {"none", "pending", "filled", "cancelled", "rejected"} /\ booked \in 0..Qty

AdapterInit ==
    /\ kind \in Kinds /\ connected = FALSE
    /\ deal = [status |-> "none", filled |-> 0]
    /\ place = "idle" /\ told = [status |-> "none", filled |-> 0, forced |-> FALSE]
    /\ outcome = "none" /\ booked = 0 /\ raised = FALSE
    /\ seen = [told |-> 0, was |-> 0]

-----------------------------------------------------------------------------
(* What each makes of an order: a status it has no name for is open *)
Told(status, d) == [status |-> status, filled |-> d.filled, forced |-> FALSE]
MappedCcxt(d) ==
    IF d.status \in EndedAtVenue THEN {Told(d.status, d)}
    ELSE {Told("open", d)} \cup (IF d.status = "partial" THEN {Told("partially_filled", d)} ELSE {})

(* Mutant: an order that is partly filled counts as filled. *)
MappedPartial(d) ==
    {Told(IF d.status \in EndedAtVenue THEN d.status ELSE IF d.status = "partial" THEN "filled" ELSE "open", d)}

MappedAlpaca(d) ==
    {Told(IF d.status \in EndedAtVenue THEN d.status
          ELSE IF d.status = "partial" THEN "partially_filled" ELSE "open", d)}

MappedIb(d) == {Told(IF d.status \in EndedAtVenue \ {"expired"} THEN d.status ELSE "open", d)}

Mapped(d) ==
    CASE kind = "ccxt" -> MappedCcxt(d) [] kind = "alpaca" -> MappedAlpaca(d) [] OTHER -> MappedIb(d)

(* _ensure_connected, which the Alpaca adapter does without *)
MayCall == connected \/ kind = "alpaca"

ConnectCcxt   == kind = "ccxt" /\ connected' \in BOOLEAN
ConnectAlpaca == kind = "alpaca" /\ connected' \in BOOLEAN
ConnectIb     == kind = "ib" /\ connected' \in BOOLEAN
Connect ==
    /\ ~connected /\ (ConnectCcxt \/ ConnectAlpaca \/ ConnectIb)
    /\ UNCHANGED <<kind, deal, place, told, outcome, booked, raised, seen>>

(* disconnect, or TWS closing the connection *)
Disconnect ==
    /\ connected /\ connected' = FALSE
    /\ UNCHANGED <<kind, deal, place, told, outcome, booked, raised, seen>>

(* The position the venue holds is what the order has filled.  CCXT says   *)
(* there is none when it cannot be read.                                   *)
PositionsCcxt   == kind = "ccxt" /\ seen' \in {[told |-> q, was |-> deal.filled] : q \in {0, deal.filled}}
PositionsAlpaca == kind = "alpaca" /\ seen' = [told |-> deal.filled, was |-> deal.filled]
PositionsIb     == kind = "ib" /\ seen' = [told |-> deal.filled, was |-> deal.filled]
Positions ==
    /\ MayCall /\ (PositionsCcxt \/ PositionsAlpaca \/ PositionsIb)
    /\ UNCHANGED <<kind, connected, deal, place, told, outcome, booked, raised>>

-----------------------------------------------------------------------------
(* _apply_broker_fill: an answer that is still open ends nothing *)
Concluded(answer) ==
    /\ place' = "done" /\ told' = answer
    /\ outcome' = CASE answer.status = "filled" -> "filled"
                    [] answer.status = "cancelled" -> "cancelled"
                    [] answer.status \in {"rejected", "expired"} -> "rejected"
                    [] OTHER -> "pending"
    /\ booked' = IF answer.status = "filled" THEN answer.filled ELSE 0
    /\ UNCHANGED <<kind, connected, raised, seen>>

(* A call that raises rejects the order, also when it was the cancel *)
Rejected ==
    /\ place' = "done" /\ outcome' = "rejected" /\ raised' = TRUE
    /\ UNCHANGED <<kind, connected, told, booked, seen>>

Answered(answer) ==
    IF answer.status \in Terminal THEN Concluded(answer)
    ELSE place' = "polling" /\ told' = answer /\ UNCHANGED <<kind, connected, outcome, booked, raised, seen>>

Submit ==
    /\ place = "idle" /\ UNCHANGED deal
    /\ \/ ~MayCall /\ Rejected
       \/ /\ MayCall /\ place' = "submitting"
          /\ UNCHANGED <<kind, connected, told, outcome, booked, raised, seen>>

Taken == deal.status # "none"
SubmitCcxt   == kind = "ccxt" /\ \E a \in MappedCcxt(deal) : Answered(a)
SubmitAlpaca == kind = "alpaca" /\ \E a \in MappedAlpaca(deal) : Answered(a)
SubmitIb     == kind = "ib" /\ \E a \in MappedIb(deal) : Answered(a)
SubmitReturns ==
    /\ place = "submitting" /\ UNCHANGED deal
    /\ Rejected \/ (Taken /\ (SubmitCcxt \/ SubmitAlpaca \/ SubmitIb))

GetOrder ==
    /\ place = "polling" /\ UNCHANGED deal
    /\ Rejected \/ (MayCall /\ \E a \in Mapped(deal) : Answered(a))

(* A cancel request at the venue *)
AskedToCancel(d) == IF d.status \in LiveAtVenue THEN {[d EXCEPT !.status = s] : s \in {"closing", "cancelled"}} ELSE {d}

(* Mutant: the answer to a cancel is cancelled whatever was read. *)
ForcedAlways(answer) == [answer EXCEPT !.status = "cancelled", !.forced = TRUE]

(* Alpaca says cancelled of an order that is neither cancelled nor filled  *)
Forced(answer) ==
    IF answer.status \in {"cancelled", "filled"} THEN answer
    ELSE [answer EXCEPT !.status = "cancelled", !.forced = TRUE]

CancelCcxt == kind = "ccxt" /\ \E d \in AskedToCancel(deal) : deal' = d /\ \E a \in MappedCcxt(d) : Concluded(a)
CancelAlpaca ==
    /\ kind = "alpaca" /\ deal.status \in LiveAtVenue
    /\ deal' \in AskedToCancel(deal) /\ place' = "reading"
    /\ UNCHANGED <<kind, connected, told, outcome, booked, raised, seen>>
(* Interactive Brokers is not waited for: the answer is cancelled at once  *)
CancelIb ==
    /\ kind = "ib" /\ deal' \in AskedToCancel(deal)
    /\ Concluded([status |-> "cancelled", filled |-> deal.filled, forced |-> TRUE])

Cancel ==
    /\ place = "polling"
    /\ \/ deal' \in {deal} \cup AskedToCancel(deal) /\ Rejected
       \/ MayCall /\ (CancelCcxt \/ CancelAlpaca \/ CancelIb)

(* The order is read again after it was cancelled *)
ReadCancelled ==
    /\ place = "reading" /\ UNCHANGED deal
    /\ Rejected \/ \E a \in MappedAlpaca(deal) : Concluded(Forced(a))

VenueTakes ==
    /\ place = "submitting" /\ ~Taken
    /\ deal' \in {[status |-> "working", filled |-> 0], [status |-> "rejected", filled |-> 0], [status |-> "filled", filled |-> Qty]}
    /\ UNCHANGED <<kind, connected, place, told, outcome, booked, raised, seen>>
VenueFills ==
    /\ deal.status \in LiveAtVenue
    /\ \E q \in (deal.filled + 1)..Qty :
           deal' = [status |-> IF q = Qty THEN "filled" ELSE IF deal.status = "closing" THEN "closing" ELSE "partial", filled |-> q]
    /\ UNCHANGED <<kind, connected, place, told, outcome, booked, raised, seen>>
VenueEnds ==
    /\ deal.status \in LiveAtVenue
    /\ deal' \in {[deal EXCEPT !.status = s] : s \in {"cancelled", "expired"}}
    /\ UNCHANGED <<kind, connected, place, told, outcome, booked, raised, seen>>

AdapterNext ==
    \/ Connect \/ Disconnect \/ Positions
    \/ Submit \/ SubmitReturns \/ GetOrder \/ Cancel \/ ReadCancelled
    \/ VenueTakes \/ VenueFills \/ VenueEnds

AdapterSpec == AdapterInit /\ [][AdapterNext]_adapterVars

-----------------------------------------------------------------------------
(* What the platform books was filled, and what it does not book although  *)
(* the venue filled it has a cause: a call raised, the answer to a cancel  *)
(* said more than the venue had (Alpaca and Interactive Brokers) or less   *)
(* (CCXT), or the order was ended with a part of it filled.  Alpaca never  *)
(* calls a filled order cancelled, and only CCXT calls a position none     *)
(* (LiveExecutor, cancel_order and get_positions of the adapters).         *)
AnswersMatchVenue ==
    /\ outcome = "filled" => deal.status = "filled" /\ booked = deal.filled
    /\ place = "done" /\ outcome # "filled" /\ deal.filled > 0 =>
           raised \/ told.forced \/ (kind = "ccxt" /\ outcome = "pending") \/ deal.filled < Qty
    /\ told.forced => kind # "ccxt" /\ (kind = "alpaca" => told.filled < Qty)
    /\ outcome = "pending" => kind = "ccxt"
    /\ seen.told # seen.was => kind = "ccxt" /\ seen.told = 0
=============================================================================
