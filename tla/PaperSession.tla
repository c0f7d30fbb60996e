---------------------------- MODULE PaperSession ----------------------------
(***************************************************************************)
(* A paper-trading session (trading/paper/session.py) over the simulator   *)
(* of PaperExchange, driven by replayed market data through                *)
(* ReplayMarketFeed.                                                       *)
(*                                                                         *)
(* The simulator has changed before the first event of a call is           *)
(* published.  The events are published one at a time, each with what the  *)
(* order looks like at that moment, and the call is suspended after each   *)
(* while the handlers run: other calls, of handlers or other tasks, change *)
(* the simulator in between.  A handler that raises ends the call, and     *)
(* with it the rest of its events.                                         *)
(***************************************************************************)
EXTENDS PaperExchange, SequencesExt, FiniteSetsExt

CONSTANTS
    Callers,       \* tasks that place orders or bring market data
    Placed         \* the order tickets they place

ASSUME SessionConstants == Placed \subseteq Tickets

VARIABLES
    state,         \* PaperTradingSession.state
    attached,      \* ReplayMarketFeed is subscribed
    outbox,        \* the events each call has still to publish
    suspended,     \* the event the handlers of each call work on
    heard,         \* auxiliary: what an observer heard of each order, in order
    mirror,        \* auxiliary: the last status an observer was told
    lost           \* auxiliary: events a failed handler kept from observers

sessionVars == <<state, attached, outbox, suspended, heard, mirror, lost>>
allVars == <<vars, sessionVars>>

NoEvent == <<>>

SessionTypeOK ==
    /\ TypeOK
    /\ state \in {"created", "running", "stopped"}
    /\ attached \in BOOLEAN
    /\ outbox \in [Callers -> Seq(OrderEvent)]
    /\ suspended \in [Callers -> {NoEvent} \cup Seq(OrderEvent)]
    /\ \A o \in OrderIds : \A i \in DOMAIN heard[o] : heard[o][i] \in {e.kind : e \in OrderEvent}
    /\ mirror \in [OrderIds -> OrderStatus \cup {"unknown"}]
    /\ lost \subseteq OrderEvent

SessionInit ==
    /\ Init
    /\ state = "created" /\ attached = FALSE
    /\ outbox = [c \in Callers |-> <<>>]
    /\ suspended = [c \in Callers |-> NoEvent]
    /\ heard = [o \in OrderIds |-> <<>>]
    /\ mirror = [o \in OrderIds |-> "unknown"]
    /\ lost = {}

-----------------------------------------------------------------------------
(* Neither start nor stop is looked at by any other operation. *)
Start == state' = "running" /\ UNCHANGED <<vars, attached, outbox, suspended, heard, mirror, lost>>

(* Also PaperSessionManager.close: the feed stays attached *)
StopSession ==
    /\ state' = "stopped"
    /\ UNCHANGED <<vars, attached, outbox, suspended, heard, mirror, lost>>

Attach ==
    /\ ~attached
    /\ attached' = TRUE
    /\ UNCHANGED <<vars, state, outbox, suspended, heard, mirror, lost>>

Detach ==
    /\ attached
    /\ attached' = FALSE
    /\ UNCHANGED <<vars, state, outbox, suspended, heard, mirror, lost>>

(* Mutant: the payload is made when the call is made, not when published. *)
TellFirst(c, events) ==
    IF events = <<>>
    THEN UNCHANGED <<outbox, suspended, heard, mirror>>
    ELSE LET e == Head(events) IN
         /\ outbox' = [outbox EXCEPT ![c] = Tail(events)]
         /\ suspended' = [suspended EXCEPT ![c] = <<e>>]
         /\ heard' = [heard EXCEPT ![e.id] = Append(@, e.kind)]
         /\ mirror' = [mirror EXCEPT ![e.id] = IF e.kind \in {"accepted", "triggered"}
                                               THEN "pending" ELSE e.kind]

(* _publish: the kind of the event and the order as it is now *)
Tell(c, events) ==
    IF events = <<>>
    THEN UNCHANGED <<outbox, suspended, heard, mirror>>
    ELSE LET e == Head(events) IN
         /\ outbox' = [outbox EXCEPT ![c] = Tail(events)]
         /\ suspended' = [suspended EXCEPT ![c] = <<e>>]
         /\ heard' = [heard EXCEPT ![e.id] = Append(@, e.kind)]
         /\ mirror' = [mirror EXCEPT ![e.id] = order'[e.id].status]

Free(c) == suspended[c] = NoEvent

(* submit_market, submit_limit, submit_stop *)
Place(c) ==
    /\ Free(c)
    /\ \E side \in OrderSide, qty \in Quantities, t \in Placed : SubmitOrder(side, qty, t)
    /\ Tell(c, report')
    /\ UNCHANGED <<state, attached, lost>>

Cancels(c) ==
    /\ Free(c)
    /\ \E o \in OrderIds : CancelOrder(o)
    /\ Tell(c, report')
    /\ UNCHANGED <<state, attached, lost>>

(* A replayed tick or candle of the session's symbol, or feed_quote called *)
(* directly.                                                               *)
Feed(c) ==
    /\ Free(c) /\ attached
    /\ \E quote \in Quote : OnMarketData(quote)
    /\ Tell(c, report')
    /\ UNCHANGED <<state, attached, lost>>

(* Mutant: a call that publishes several events is done after the first.   *)
StopsAfterFirst(c) ==
    /\ ~Free(c)
    /\ UNCHANGED vars
    /\ outbox' = [outbox EXCEPT ![c] = <<>>]
    /\ suspended' = [suspended EXCEPT ![c] = NoEvent]
    /\ UNCHANGED <<state, attached, heard, mirror, lost>>

(* The handlers are done: the next event, or the call returns *)
GoOn(c) ==
    /\ ~Free(c)
    /\ UNCHANGED vars
    /\ IF outbox[c] = <<>>
       THEN /\ suspended' = [suspended EXCEPT ![c] = NoEvent]
            /\ UNCHANGED <<outbox, heard, mirror>>
       ELSE Tell(c, outbox[c])
    /\ UNCHANGED <<state, attached, lost>>

(* A handler raises: gather passes it to _publish, which passes it on *)
HandlerRaises(c) ==
    /\ ~Free(c)
    /\ lost' = lost \cup ToSet(outbox[c])
    /\ outbox' = [outbox EXCEPT ![c] = <<>>]
    /\ suspended' = [suspended EXCEPT ![c] = NoEvent]
    /\ UNCHANGED <<vars, state, attached, heard, mirror>>

SessionNext ==
    \/ Start \/ StopSession \/ Attach \/ Detach
    \/ \E c \in Callers : Place(c) \/ Cancels(c) \/ Feed(c) \/ GoOn(c) \/ HandlerRaises(c)

SessionSpec == SessionInit /\ [][SessionNext]_allVars

-----------------------------------------------------------------------------
(***************************************************************************)
(* Properties.                                                             *)
(***************************************************************************)
ToCome(o) == \E c \in Callers : \E i \in DOMAIN outbox[c] : outbox[c][i].id = o

Lost(o) == \E e \in lost : e.id = o

(* An observer that keeps what it was last told of each order is right     *)
(* about every order of which nothing is still to be published and nothing *)
(* was lost to a handler that raised: however calls overlap, the snapshot  *)
(* of the last event is the order's last state.                            *)
ObserverIsRight ==
    \A o \in OrderIds :
        mirror[o] # "unknown" /\ ~ToCome(o) /\ ~Lost(o) => mirror[o] = order[o].status

(* Every order is heard of in the order of its life, whatever overlaps:    *)
(* accepted, then perhaps triggered, then how it ended, each once.         *)
Rank(kind) == CASE kind = "accepted" -> 1 [] kind = "triggered" -> 2 [] OTHER -> 3

HeardInOrder ==
    \A o \in OrderIds : \A i \in 1..(Len(heard[o]) - 1) :
        Rank(heard[o][i]) < Rank(heard[o][i + 1])

(* What a failed handler keeps from the observers is of its own call only: *)
(* an order that has ended was heard to end, is about to be, or was lost   *)
(* with its final event by name.                                           *)
EndIsTold ==
    \A o \in 1..nextId :
        order[o].status \in {"filled", "cancelled", "rejected"} =>
            LET final == Event(order[o].status, o) IN
            \/ \E i \in DOMAIN heard[o] : heard[o][i] = order[o].status
            \/ \E c \in Callers : final \in ToSet(outbox[c])
            \/ final \in lost
=============================================================================
