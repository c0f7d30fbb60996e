--------------------------- MODULE PlatformProofs ---------------------------
(***************************************************************************)
(* What the run of the platform's plumbing checks, proved for any number   *)
(* of events, handlers, symbols, tasks, files and calls.                   *)
(***************************************************************************)
EXTENDS MCPlatform, TLAPS

-----------------------------------------------------------------------------
(***************************************************************************)
(* The router.                                                             *)
(***************************************************************************)

(* A symbol with handlers is registered. *)
HandledIsRegistered == \A s \in Symbols : rBySymbol[s] # {} => s \in rRegistry

(* A suspended start() has a dispatch of its own. *)
RouterSafe ==
    /\ Router!TypeOK /\ Router!EveryEventAccounted /\ HandledIsRegistered
    /\ rDraining <= rInFlight

(* What a dispatch does to the counts of calls. *)
LEMMA CalledIsTyped ==
    ASSUME Router!TypeOK, NEW s \in Symbols,
           rCalls' = [h \in Handlers |->
                         [rCalls[h] EXCEPT ![s] = @ + Router!TimesCalled(h, s)]]
    PROVE  rCalls' \in [Handlers -> [Symbols -> Nat]]
<1>1. ASSUME NEW h \in Handlers
      PROVE  [rCalls[h] EXCEPT ![s] = @ + Router!TimesCalled(h, s)] \in [Symbols -> Nat]
  <2>1. rCalls[h] \in [Symbols -> Nat] /\ Router!TimesCalled(h, s) \in Nat
    BY DEF Router!TypeOK, Router!TimesCalled
  <2>2. QED
    BY <2>1
<1>2. QED
  BY <1>1

LEMMA RouterMoves ==
    ASSUME RouterSafe, Router!RouterConstants,
           \/ \E s \in Symbols : Router!RegisterSymbol(s) \/ Router!UnregisterSymbol(s)
           \/ \E s \in Symbols, h \in Handlers : Router!Subscribe(s, h) \/ Router!Unsubscribe(s, h)
           \/ \E h \in Handlers : Router!SubscribeGlobal(h) \/ Router!UnsubscribeGlobal(h)
    PROVE  RouterSafe'
<1>1. UNCHANGED <<rRunning, rQueue, rDraining, rInFlight, rProcessed, rRouted, rDropped, rCalls>>
      /\ rMoves < MaxMoves /\ rMoves' = rMoves + 1
  BY DEF Router!RegisterSymbol, Router!UnregisterSymbol, Router!Subscribe, Router!Unsubscribe,
         Router!SubscribeGlobal, Router!UnsubscribeGlobal, Router!Move, Router!flow
<1>2. rMoves' \in 0..MaxMoves
  BY <1>1 DEF RouterSafe, Router!TypeOK, Router!RouterConstants
<1>3. rRegistry' \subseteq Symbols /\ rBySymbol' \in [Symbols -> SUBSET Handlers]
      /\ rGlobal' \subseteq Handlers
  BY DEF Router!RegisterSymbol, Router!UnregisterSymbol, Router!Subscribe, Router!Unsubscribe,
         Router!SubscribeGlobal, Router!UnsubscribeGlobal, RouterSafe, Router!TypeOK
<1>4. HandledIsRegistered'
  BY DEF Router!RegisterSymbol, Router!UnregisterSymbol, Router!Subscribe, Router!Unsubscribe,
         Router!SubscribeGlobal, Router!UnsubscribeGlobal, RouterSafe, Router!TypeOK,
         HandledIsRegistered
<1>5. QED
  BY <1>1, <1>2, <1>3, <1>4 DEF RouterSafe, Router!TypeOK, Router!EveryEventAccounted

LEMMA RouterFlows ==
    ASSUME RouterSafe, Router!RouterConstants,
           \/ \E s \in Symbols : Router!Route(s)
           \/ Router!Dispatched \/ Router!Start \/ Router!DrainNext \/ Router!Stop
    PROVE  RouterSafe'
<1>. USE DEF RouterSafe, Router!EveryEventAccounted, HandledIsRegistered
<1>1. ASSUME NEW s \in Symbols, Router!Route(s) PROVE RouterSafe'
  <2>1. CASE rRunning
    <3>1. rCalls' \in [Handlers -> [Symbols -> Nat]]
      BY <1>1, <2>1, CalledIsTyped DEF Router!Route, Router!Dispatch
    <3>2. /\ rInFlight' = rInFlight + 1 /\ rRouted' = rRouted + 1
          /\ UNCHANGED <<rRegistry, rBySymbol, rGlobal, rMoves, rRunning, rQueue, rDraining,
                         rProcessed, rDropped>>
      BY <1>1, <2>1 DEF Router!Route, Router!Dispatch, Router!tables
    <3>3. QED
      BY <3>1, <3>2 DEF Router!TypeOK
  <2>2. CASE ~rRunning
    <3>1. /\ rRouted' = rRouted + 1
          /\ UNCHANGED <<rRegistry, rBySymbol, rGlobal, rMoves, rRunning, rDraining, rInFlight,
                         rProcessed, rCalls>>
      BY <1>1, <2>2 DEF Router!Route, Router!tables
    <3>2. CASE Len(rQueue) < QueueSize
      <4>1. rQueue' = Append(rQueue, s) /\ rDropped' = rDropped
        BY <1>1, <2>2, <3>2 DEF Router!Route
      <4>2. Len(rQueue') = Len(rQueue) + 1 /\ rQueue' \in Seq(Symbols) /\ Len(rQueue) \in Nat
        BY <4>1 DEF Router!TypeOK
      <4>3. QED
        BY <3>1, <3>2, <4>1, <4>2 DEF Router!TypeOK, Router!RouterConstants
    <3>3. CASE ~(Len(rQueue) < QueueSize)
      <4>1. rQueue' = rQueue /\ rDropped' = rDropped + 1
        BY <1>1, <2>2, <3>3 DEF Router!Route
      <4>2. QED
        BY <3>1, <4>1 DEF Router!TypeOK
    <3>4. QED
      BY <3>2, <3>3
  <2>3. QED
    BY <2>1, <2>2
<1>2. ASSUME Router!Dispatched PROVE RouterSafe'
  BY <1>2 DEF Router!Dispatched, Router!TypeOK, Router!tables
<1>3. ASSUME Router!Start PROVE RouterSafe'
  <2>1. CASE rQueue = <<>>
    BY <1>3, <2>1 DEF Router!Start, Router!TypeOK, Router!tables
  <2>2. CASE rQueue # <<>>
    <3>1. Head(rQueue) \in Symbols /\ Tail(rQueue) \in Seq(Symbols)
          /\ Len(Tail(rQueue)) = Len(rQueue) - 1 /\ Len(rQueue) \in Nat
      BY <2>2 DEF Router!TypeOK
    <3>2. rCalls' \in [Handlers -> [Symbols -> Nat]]
      BY <1>3, <2>2, <3>1, CalledIsTyped DEF Router!Start, Router!Dispatch
    <3>3. /\ rRunning' = TRUE /\ rQueue' = Tail(rQueue)
          /\ rDraining' = rDraining + 1 /\ rInFlight' = rInFlight + 1
          /\ UNCHANGED <<rRegistry, rBySymbol, rGlobal, rMoves, rProcessed, rRouted, rDropped>>
      BY <1>3, <2>2 DEF Router!Start, Router!Dispatch, Router!tables
    <3>4. QED
      BY <3>1, <3>2, <3>3 DEF Router!TypeOK, Router!RouterConstants
  <2>3. QED
    BY <2>1, <2>2
<1>4. ASSUME Router!DrainNext PROVE RouterSafe'
  <2>1. CASE rQueue = <<>>
    BY <1>4, <2>1 DEF Router!DrainNext, Router!TypeOK, Router!tables
  <2>2. CASE rQueue # <<>>
    <3>1. Head(rQueue) \in Symbols /\ Tail(rQueue) \in Seq(Symbols)
          /\ Len(Tail(rQueue)) = Len(rQueue) - 1 /\ Len(rQueue) \in Nat
      BY <2>2 DEF Router!TypeOK
    <3>2. rCalls' \in [Handlers -> [Symbols -> Nat]]
      BY <1>4, <2>2, <3>1, CalledIsTyped DEF Router!DrainNext
    <3>3. /\ rQueue' = Tail(rQueue) /\ rProcessed' = rProcessed + 1
          /\ UNCHANGED <<rRegistry, rBySymbol, rGlobal, rMoves, rRunning, rDraining, rInFlight,
                         rRouted, rDropped>>
      BY <1>4, <2>2 DEF Router!DrainNext, Router!tables
    <3>4. QED
      BY <3>1, <3>2, <3>3 DEF Router!TypeOK, Router!RouterConstants
  <2>3. QED
    BY <2>1, <2>2
<1>5. ASSUME Router!Stop PROVE RouterSafe'
  BY <1>5 DEF Router!Stop, Router!TypeOK, Router!tables
<1>6. QED
  BY <1>1, <1>2, <1>3, <1>4, <1>5

LEMMA RouterKeeps ==
    ASSUME EventConstants, RouterSafe, RouterStep \/ UNCHANGED routerVars
    PROVE  RouterSafe'
<1>1. ASSUME RouterStep PROVE RouterSafe'
  <2>1. Router!RouterConstants /\ Router!Next
    BY <1>1 DEF RouterStep, EventConstants
  <2>2. QED
    BY <2>1, RouterMoves, RouterFlows DEF Router!Next
<1>2. ASSUME UNCHANGED routerVars PROVE RouterSafe'
  BY <1>2 DEF routerVars, RouterSafe, Router!TypeOK, Router!EveryEventAccounted,
              HandledIsRegistered
<1>3. QED
  BY <1>1, <1>2

-----------------------------------------------------------------------------
(***************************************************************************)
(* The broker adapters.                                                    *)
(***************************************************************************)

VenueOrder == [status : {"none"} \cup Adapters!LiveAtVenue \cup Adapters!EndedAtVenue,
               filled : 0..Qty]
Answer == [status : {"none", "open", "partially_filled"} \cup Adapters!Terminal,
           filled : 0..Qty, forced : BOOLEAN]

(* The venue's order is filled when all of it is, whatever was asked. *)
FilledIsAll == deal \in VenueOrder /\ (deal.status = "filled" <=> deal.filled = Qty)

(* An order that is not done has come to nothing yet, and one that is has *)
(* come to something.                                                      *)
OutcomeIsLast == place = "done" <=> outcome # "none"

(* An order cancelled or rejected on the venue's word has ended there. *)
EndedIsExplained ==
    outcome \in {"cancelled", "rejected"} =>
        raised \/ told.forced \/ deal.status \in {"cancelled", "rejected", "expired"}

(* Only Alpaca reads an order again. *)
ReadsAgain == place = "reading" => kind = "alpaca"

AdaptersSafe ==
    /\ Adapters!AdapterTypeOK /\ told \in Answer /\ FilledIsAll /\ ReadsAgain
    /\ OutcomeIsLast /\ EndedIsExplained /\ Adapters!AnswersMatchVenue

(* What an adapter makes of the venue's order. *)
LEMMA MappedIsAnswer ==
    ASSUME NEW d \in VenueOrder,
           NEW a, a \in Adapters!MappedCcxt(d) \/ a \in Adapters!MappedAlpaca(d)
                  \/ a \in Adapters!MappedIb(d)
    PROVE  /\ a \in Answer /\ a.filled = d.filled /\ ~a.forced
           /\ a.status \in Adapters!Terminal => a.status = d.status
<1>1. PICK st \in {"open", "partially_filled"} \cup Adapters!Terminal :
          /\ a = [status |-> st, filled |-> d.filled, forced |-> FALSE]
          /\ st \in Adapters!Terminal => st = d.status
  <2>1. CASE a \in Adapters!MappedCcxt(d)
    <3>1. CASE d.status \in Adapters!EndedAtVenue
      BY <2>1, <3>1 DEF Adapters!MappedCcxt, Adapters!Told, Adapters!EndedAtVenue, Adapters!Terminal
    <3>2. CASE d.status \notin Adapters!EndedAtVenue
      <4>1. \E st \in {"open", "partially_filled"} :
                a = [status |-> st, filled |-> d.filled, forced |-> FALSE]
        BY <2>1, <3>2 DEF Adapters!MappedCcxt, Adapters!Told
      <4>2. QED
        BY <4>1 DEF Adapters!Terminal
    <3>3. QED
      BY <3>1, <3>2
  <2>2. CASE a \in Adapters!MappedAlpaca(d)
    BY <2>2 DEF Adapters!MappedAlpaca, Adapters!Told, Adapters!EndedAtVenue, Adapters!Terminal
  <2>3. CASE a \in Adapters!MappedIb(d)
    BY <2>3 DEF Adapters!MappedIb, Adapters!Told, Adapters!EndedAtVenue, Adapters!Terminal
  <2>4. QED
    BY <2>1, <2>2, <2>3
<1>2. QED
  BY <1>1 DEF Answer, VenueOrder, Adapters!Terminal

(* An order that is done keeps what is said of it, whatever the venue does *)
(* to it next.                                                             *)
LEMMA VenueKeeps ==
    ASSUME AdaptersSafe, Adapters!AdapterConstants,
           Adapters!VenueTakes \/ Adapters!VenueFills \/ Adapters!VenueEnds
    PROVE  AdaptersSafe'
<1>1. /\ UNCHANGED <<kind, connected, place, told, outcome, booked, raised, seen>>
  BY DEF Adapters!VenueTakes, Adapters!VenueFills, Adapters!VenueEnds
<1>2. deal \in VenueOrder /\ Qty \in Nat \ {0} /\ (deal.status = "filled" <=> deal.filled = Qty)
  BY DEF AdaptersSafe, FilledIsAll, Adapters!AdapterConstants
<1>3. /\ deal' \in VenueOrder /\ (deal'.status = "filled" <=> deal'.filled = Qty)
      /\ deal.status = "filled" => FALSE
      /\ Adapters!VenueTakes \/ deal.status \in Adapters!LiveAtVenue
  <2>1. CASE Adapters!VenueTakes
    BY <1>2, <2>1 DEF Adapters!VenueTakes, VenueOrder, Adapters!LiveAtVenue, Adapters!EndedAtVenue,
           Adapters!Taken
  <2>2. CASE Adapters!VenueFills
    <3>1. PICK q \in (deal.filled + 1)..Qty :
              deal' = [status |-> IF q = Qty THEN "filled"
                                  ELSE IF deal.status = "closing" THEN "closing" ELSE "partial",
                       filled |-> q]
      BY <2>2 DEF Adapters!VenueFills
    <3>2. q \in 0..Qty /\ deal.status \in Adapters!LiveAtVenue
      BY <1>2, <2>2, <3>1 DEF Adapters!VenueFills, VenueOrder
    <3>3. QED
      BY <1>2, <3>1, <3>2 DEF VenueOrder, Adapters!LiveAtVenue, Adapters!EndedAtVenue
  <2>3. CASE Adapters!VenueEnds
    <3>1. PICK st \in {"cancelled", "expired"} : deal' = [deal EXCEPT !.status = st]
      BY <2>3 DEF Adapters!VenueEnds
    <3>2. deal.status \in Adapters!LiveAtVenue
      BY <2>3 DEF Adapters!VenueEnds
    <3>3. QED
      BY <1>2, <3>1, <3>2 DEF VenueOrder, Adapters!LiveAtVenue, Adapters!EndedAtVenue
  <2>4. QED
    BY <2>1, <2>2, <2>3
<1>4. place = "done" => ~Adapters!VenueTakes
  BY DEF Adapters!VenueTakes
<1>5. Adapters!AnswersMatchVenue'
  <2>1. outcome # "filled"
    BY <1>3 DEF AdaptersSafe, Adapters!AnswersMatchVenue
  <2>2. place = "done" /\ deal'.filled = Qty =>
            raised \/ told.forced \/ (kind = "ccxt" /\ outcome = "pending")
    <3>1. CASE outcome \in {"cancelled", "rejected"}
      BY <1>3, <1>4, <3>1 DEF AdaptersSafe, EndedIsExplained, Adapters!LiveAtVenue
    <3>2. CASE outcome = "pending"
      BY <3>2 DEF AdaptersSafe, Adapters!AnswersMatchVenue
    <3>3. QED
      BY <2>1, <3>1, <3>2 DEF AdaptersSafe, OutcomeIsLast, ReadsAgain, Adapters!AdapterTypeOK
  <2>3. deal'.filled \in 0..Qty
    BY <1>3 DEF VenueOrder
  <2>4. deal'.filled < Qty \/ deal'.filled = Qty
    BY <1>2, <2>3
  <2>5. QED
    BY <1>1, <2>1, <2>2, <2>4 DEF AdaptersSafe, Adapters!AnswersMatchVenue
<1>6. EndedIsExplained'
  BY <1>1, <1>3, <1>4 DEF AdaptersSafe, EndedIsExplained, OutcomeIsLast, Adapters!LiveAtVenue
<1>7. QED
  BY <1>1, <1>3, <1>5, <1>6
     DEF AdaptersSafe, FilledIsAll, OutcomeIsLast, ReadsAgain, Adapters!AdapterTypeOK, VenueOrder

LEMMA ConcludedKeeps ==
    ASSUME AdaptersSafe, Adapters!AdapterConstants, FilledIsAll',
           place # "done", NEW a \in Answer, Adapters!Concluded(a),
           a.filled = deal'.filled,
           a.status = "filled" => ~a.forced,
           ~a.forced /\ a.status \in Adapters!Terminal => a.status = deal'.status,
           a.forced => kind # "ccxt" /\ (kind = "alpaca" => a.filled < Qty),
           a.status \notin Adapters!Terminal => kind = "ccxt"
    PROVE  AdaptersSafe'
<1>1. /\ place' = "done" /\ told' = a
      /\ UNCHANGED <<kind, connected, raised, seen>>
  BY DEF Adapters!Concluded
<1>2. /\ a.status = "filled" => outcome' = "filled" /\ booked' = deal'.filled
      /\ a.status = "cancelled" => outcome' = "cancelled" /\ booked' = 0
      /\ a.status \in {"rejected", "expired"} => outcome' = "rejected" /\ booked' = 0
      /\ a.status \notin Adapters!Terminal => outcome' = "pending" /\ booked' = 0
  BY DEF Adapters!Concluded, Adapters!Terminal
<1>3. a.status \in Adapters!Terminal \/ a.status \notin Adapters!Terminal
  OBVIOUS
<1>4. deal' \in VenueOrder /\ (deal'.status = "filled" <=> deal'.filled = Qty)
  BY DEF FilledIsAll
<1>5. deal'.filled \in 0..Qty /\ 0 \in 0..Qty /\ Qty \in Nat
  BY <1>4 DEF VenueOrder, Adapters!AdapterConstants
<1>6. /\ outcome' \in {"pending", "filled", "cancelled", "rejected"} /\ booked' \in 0..Qty
      /\ outcome' = "filled" => a.status = "filled" /\ booked' = deal'.filled
      /\ outcome' = "pending" => kind = "ccxt"
      /\ outcome' \in {"cancelled", "rejected"} =>
             a.forced \/ deal'.status \in {"cancelled", "rejected", "expired"}
  BY <1>2, <1>5 DEF Adapters!Terminal
<1>7. Adapters!AnswersMatchVenue'
  <2>1. outcome' = "filled" => deal'.status = "filled"
    BY <1>6 DEF Adapters!Terminal
  <2>2. outcome' \in {"cancelled", "rejected"} => a.forced \/ deal'.filled < Qty
    BY <1>4, <1>5, <1>6
  <2>3. QED
    BY <1>1, <1>6, <2>1, <2>2 DEF AdaptersSafe, Adapters!AnswersMatchVenue
<1>8. Adapters!AdapterTypeOK'
  BY <1>1, <1>4, <1>6 DEF AdaptersSafe, Adapters!AdapterTypeOK, VenueOrder
<1>9. QED
  BY <1>1, <1>6, <1>7, <1>8 DEF AdaptersSafe, OutcomeIsLast, ReadsAgain, EndedIsExplained

LEMMA RejectedKeeps ==
    ASSUME AdaptersSafe, FilledIsAll', place # "done", Adapters!Rejected
    PROVE  AdaptersSafe'
<1>1. Adapters!AdapterTypeOK'
  BY DEF Adapters!Rejected, FilledIsAll, VenueOrder, AdaptersSafe, Adapters!AdapterTypeOK
<1>2. Adapters!AnswersMatchVenue'
  BY DEF Adapters!Rejected, AdaptersSafe, Adapters!AnswersMatchVenue
<1>3. QED
  BY <1>1, <1>2 DEF Adapters!Rejected, AdaptersSafe, OutcomeIsLast, ReadsAgain, EndedIsExplained

(* An answer to a submit or to a poll concludes when it is terminal. *)
LEMMA AnsweredKeeps ==
    ASSUME AdaptersSafe, Adapters!AdapterConstants, deal' = deal, place # "done",
           NEW a, a \in Adapters!MappedCcxt(deal) \/ a \in Adapters!MappedAlpaca(deal)
                  \/ a \in Adapters!MappedIb(deal),
           Adapters!Answered(a)
    PROVE  AdaptersSafe'
<1>1. /\ a \in Answer /\ a.filled = deal.filled /\ ~a.forced
      /\ a.status \in Adapters!Terminal => a.status = deal.status
  BY MappedIsAnswer DEF AdaptersSafe, FilledIsAll
<1>2. FilledIsAll'
  BY DEF AdaptersSafe, FilledIsAll
<1>3. CASE a.status \in Adapters!Terminal
  <2>1. Adapters!Concluded(a)
    BY <1>3 DEF Adapters!Answered
  <2>2. QED
    BY <1>1, <1>2, <1>3, <2>1, ConcludedKeeps
<1>4. CASE a.status \notin Adapters!Terminal
  <2>1. place' = "polling" /\ told' = a
        /\ UNCHANGED <<kind, connected, outcome, booked, raised, seen>>
    BY <1>4 DEF Adapters!Answered
  <2>2. outcome = "none"
    BY DEF AdaptersSafe, OutcomeIsLast
  <2>3. Adapters!AnswersMatchVenue'
    BY <1>1, <2>1, <2>2 DEF AdaptersSafe, Adapters!AnswersMatchVenue
  <2>4. QED
    BY <1>1, <1>2, <2>1, <2>2, <2>3
       DEF AdaptersSafe, OutcomeIsLast, ReadsAgain, EndedIsExplained, Adapters!AdapterTypeOK
<1>5. QED
  BY <1>3, <1>4

(* What is asked of the venue leaves an order that is whole. *)
LEMMA AskedIsWhole ==
    ASSUME FilledIsAll, deal' \in {deal} \cup Adapters!AskedToCancel(deal)
    PROVE  /\ FilledIsAll' /\ deal'.filled = deal.filled
           /\ deal.status \in Adapters!LiveAtVenue \/ deal' = deal
<1>1. CASE deal' = deal
  BY <1>1 DEF FilledIsAll
<1>2. CASE deal.status \in Adapters!LiveAtVenue
           /\ \E st \in {"closing", "cancelled"} : deal' = [deal EXCEPT !.status = st]
  <2>1. PICK st \in {"closing", "cancelled"} : deal' = [deal EXCEPT !.status = st]
    BY <1>2
  <2>2. deal'.status = st /\ deal'.filled = deal.filled /\ deal' \in VenueOrder
    BY <2>1 DEF FilledIsAll, VenueOrder, Adapters!LiveAtVenue, Adapters!EndedAtVenue
  <2>3. QED
    BY <1>2, <2>2 DEF FilledIsAll, Adapters!LiveAtVenue
<1>3. QED
  BY <1>1, <1>2 DEF Adapters!AskedToCancel

LEMMA ConnectionKeeps ==
    ASSUME AdaptersSafe, Adapters!Connect \/ Adapters!Disconnect \/ Adapters!Positions
    PROVE  AdaptersSafe'
<1>1. UNCHANGED <<kind, deal, place, told, outcome, booked, raised>>
  BY DEF Adapters!Connect, Adapters!Disconnect, Adapters!Positions
<1>2. connected' \in BOOLEAN
  BY DEF Adapters!Connect, Adapters!Disconnect, Adapters!Positions, Adapters!ConnectCcxt,
         Adapters!ConnectAlpaca, Adapters!ConnectIb, AdaptersSafe, Adapters!AdapterTypeOK
<1>3. seen'.told # seen'.was => kind = "ccxt" /\ seen'.told = 0
  <2>1. CASE Adapters!Positions
    BY <2>1 DEF Adapters!Positions, Adapters!PositionsCcxt, Adapters!PositionsAlpaca,
                Adapters!PositionsIb
  <2>2. CASE Adapters!Connect \/ Adapters!Disconnect
    BY <2>2 DEF Adapters!Connect, Adapters!Disconnect, AdaptersSafe, Adapters!AnswersMatchVenue
  <2>3. QED
    BY <2>1, <2>2
<1>4. QED
  BY <1>1, <1>2, <1>3 DEF AdaptersSafe, Adapters!AnswersMatchVenue, Adapters!AdapterTypeOK,
                          FilledIsAll, OutcomeIsLast, ReadsAgain, EndedIsExplained

LEMMA SubmitStepKeeps ==
    ASSUME AdaptersSafe, Adapters!AdapterConstants,
           Adapters!Submit \/ Adapters!SubmitReturns \/ Adapters!GetOrder
    PROVE  AdaptersSafe'
<1>1. deal' = deal /\ place # "done" /\ FilledIsAll'
  BY DEF Adapters!Submit, Adapters!SubmitReturns, Adapters!GetOrder, AdaptersSafe, FilledIsAll
<1>2. CASE Adapters!Rejected
  BY <1>1, <1>2, RejectedKeeps
<1>3. CASE Adapters!Submit /\ ~Adapters!Rejected
  <2>1. place' = "submitting" /\ place = "idle"
        /\ UNCHANGED <<kind, connected, told, outcome, booked, raised, seen>>
    BY <1>3 DEF Adapters!Submit
  <2>2. QED
    BY <1>1, <2>1 DEF AdaptersSafe, Adapters!AnswersMatchVenue, Adapters!AdapterTypeOK,
                      OutcomeIsLast, ReadsAgain, EndedIsExplained
<1>4. CASE \E a : /\ \/ a \in Adapters!MappedCcxt(deal) \/ a \in Adapters!MappedAlpaca(deal)
                     \/ a \in Adapters!MappedIb(deal)
                  /\ Adapters!Answered(a)
  BY <1>1, <1>4, AnsweredKeeps
<1>5. QED
  BY <1>2, <1>3, <1>4 DEF Adapters!Submit, Adapters!SubmitReturns, Adapters!GetOrder,
         Adapters!SubmitCcxt, Adapters!SubmitAlpaca, Adapters!SubmitIb, Adapters!Mapped

LEMMA CancelKeeps ==
    ASSUME AdaptersSafe, Adapters!AdapterConstants, Adapters!Cancel
    PROVE  AdaptersSafe'
<1>1. place = "polling" /\ deal' \in {deal} \cup Adapters!AskedToCancel(deal)
  BY DEF Adapters!Cancel, Adapters!CancelCcxt, Adapters!CancelAlpaca, Adapters!CancelIb
<1>2. /\ FilledIsAll' /\ deal'.filled = deal.filled /\ FilledIsAll
      /\ deal.status \in Adapters!LiveAtVenue \/ deal' = deal
  BY <1>1, AskedIsWhole DEF AdaptersSafe
<1>3. CASE Adapters!Rejected
  BY <1>1, <1>2, <1>3, RejectedKeeps
<1>4. CASE Adapters!CancelCcxt
  <2>1. PICK a \in Adapters!MappedCcxt(deal') : Adapters!Concluded(a)
    BY <1>4 DEF Adapters!CancelCcxt
  <2>2. /\ a \in Answer /\ a.filled = deal'.filled /\ ~a.forced
        /\ a.status \in Adapters!Terminal => a.status = deal'.status
    BY <1>2, <2>1, MappedIsAnswer DEF FilledIsAll
  <2>3. kind = "ccxt"
    BY <1>4 DEF Adapters!CancelCcxt
  <2>4. QED
    BY <1>1, <1>2, <2>1, <2>2, <2>3, ConcludedKeeps
<1>5. CASE Adapters!CancelAlpaca
  <2>1. place' = "reading" /\ kind = "alpaca"
        /\ UNCHANGED <<kind, connected, told, outcome, booked, raised, seen>>
    BY <1>5 DEF Adapters!CancelAlpaca
  <2>2. outcome = "none"
    BY <1>1 DEF AdaptersSafe, OutcomeIsLast
  <2>3. Adapters!AnswersMatchVenue'
    BY <2>1, <2>2 DEF AdaptersSafe, Adapters!AnswersMatchVenue
  <2>4. Adapters!AdapterTypeOK'
    BY <1>2, <2>1 DEF AdaptersSafe, Adapters!AdapterTypeOK, FilledIsAll, VenueOrder
  <2>5. QED
    BY <1>2, <2>1, <2>2, <2>3, <2>4 DEF AdaptersSafe, OutcomeIsLast, ReadsAgain, EndedIsExplained
<1>6. CASE Adapters!CancelIb
  <2>. DEFINE a == [status |-> "cancelled", filled |-> deal.filled, forced |-> TRUE]
  <2>1. Adapters!Concluded(a) /\ kind = "ib"
    BY <1>6 DEF Adapters!CancelIb
  <2>2. a \in Answer /\ a.status = "cancelled" /\ a.forced /\ a.filled = deal'.filled
    BY <1>2 DEF Answer, FilledIsAll, VenueOrder, Adapters!Terminal
  <2>. HIDE DEF a
  <2>3. QED
    BY <1>1, <1>2, <2>1, <2>2, ConcludedKeeps DEF Adapters!Terminal
<1>7. QED
  BY <1>3, <1>4, <1>5, <1>6 DEF Adapters!Cancel

LEMMA ReadCancelledKeeps ==
    ASSUME AdaptersSafe, Adapters!AdapterConstants, Adapters!ReadCancelled
    PROVE  AdaptersSafe'
<1>1. deal' = deal /\ place # "done" /\ FilledIsAll /\ FilledIsAll' /\ kind = "alpaca"
  BY DEF Adapters!ReadCancelled, AdaptersSafe, FilledIsAll, ReadsAgain
<1>2. CASE Adapters!Rejected
  BY <1>1, <1>2, RejectedKeeps
<1>3. CASE \E a \in Adapters!MappedAlpaca(deal) : Adapters!Concluded(Adapters!Forced(a))
  <2>1. PICK a \in Adapters!MappedAlpaca(deal) : Adapters!Concluded(Adapters!Forced(a))
    BY <1>3
  <2>2. /\ a \in Answer /\ a.filled = deal.filled /\ ~a.forced
        /\ a.status \in Adapters!Terminal => a.status = deal.status
        /\ a.status = (IF deal.status \in Adapters!EndedAtVenue THEN deal.status
                       ELSE IF deal.status = "partial" THEN "partially_filled" ELSE "open")
    BY <1>1, <2>1, MappedIsAnswer DEF FilledIsAll, Adapters!MappedAlpaca, Adapters!Told
  <2>. DEFINE b == Adapters!Forced(a)
  <2>3. CASE a.status \in {"cancelled", "filled"}
    <3>1. b = a
      BY <2>3 DEF Adapters!Forced
    <3>2. Adapters!Concluded(a)
      BY <2>1, <3>1
    <3>3. QED
      BY <1>1, <2>2, <2>3, <3>2, ConcludedKeeps DEF Adapters!Terminal
  <2>4. CASE a.status \notin {"cancelled", "filled"}
    <3>1. b = [a EXCEPT !.status = "cancelled", !.forced = TRUE]
      BY <2>4 DEF Adapters!Forced
    <3>2. b \in Answer /\ b.status = "cancelled" /\ b.forced /\ b.filled = deal'.filled
      BY <1>1, <2>2, <3>1 DEF Answer, Adapters!Terminal
    <3>3. deal.status # "filled"
      BY <2>2, <2>4 DEF Adapters!EndedAtVenue
    <3>4. b.filled < Qty
      BY <1>1, <3>2, <3>3 DEF FilledIsAll, VenueOrder, Adapters!AdapterConstants
    <3>5. Adapters!Concluded(b)
      BY <2>1
    <3>. HIDE DEF b
    <3>6. QED
      BY <1>1, <3>2, <3>4, <3>5, ConcludedKeeps DEF Adapters!Terminal
  <2>5. QED
    BY <2>3, <2>4
<1>4. QED
  BY <1>2, <1>3 DEF Adapters!ReadCancelled

LEMMA AdaptersKeep ==
    ASSUME EventConstants, AdaptersSafe, AdapterStep \/ UNCHANGED adapterVars
    PROVE  AdaptersSafe'
<1>1. ASSUME AdapterStep PROVE AdaptersSafe'
  <2>1. Adapters!AdapterConstants /\ Adapters!AdapterNext
    BY <1>1 DEF AdapterStep, EventConstants
  <2>2. QED
    BY <2>1, ConnectionKeeps, SubmitStepKeeps, CancelKeeps, ReadCancelledKeeps, VenueKeeps
       DEF Adapters!AdapterNext
<1>2. ASSUME UNCHANGED adapterVars PROVE AdaptersSafe'
  BY <1>2 DEF adapterVars, AdaptersSafe, Adapters!AnswersMatchVenue, Adapters!AdapterTypeOK,
              FilledIsAll, OutcomeIsLast, ReadsAgain, EndedIsExplained
<1>3. QED
  BY <1>1, <1>2

-----------------------------------------------------------------------------
(***************************************************************************)
(* The subscription manager.                                               *)
(***************************************************************************)

InCall(t) == job[t].at \in {"looking", "sending", "answered"}
Asking(t) == job[t].at \in {"sending", "answered"}
Subject(t) == Head(job[t].todo)
Wants(t) == job[t].kind = "subscribe"

(* A call is past the lock exactly when its task holds it. *)
HolderIsInCall == \A t \in Tasks : InCall(t) <=> lock = t

(* A call that has asked the stream finds it as wanted; once it has its    *)
(* answer, the far side is too, or never got a message.                    *)
AskedIsOnList ==
    \A t \in Tasks : Asking(t) =>
        /\ job[t].todo # <<>>
        /\ (Subject(t) \in stream) = Wants(t)
        /\ job[t].at = "answered" => Subject(t) \in unsent
                                     \/ (Subject(t) \in venue) = (Subject(t) \in stream)

(* A symbol the three lists do not agree on is the one the holder has      *)
(* asked the stream about, or one with a message unsent.                   *)
AgreeOn(s) == (s \in recorded) = (s \in stream) /\ (s \in stream) = (s \in venue)
ListsAgree ==
    \A s \in Symbols :
        AgreeOn(s) \/ s \in unsent \/ \E t \in Tasks : Asking(t) /\ Subject(t) = s

SubscriptionsSafe == Subs!TypeOK /\ HolderIsInCall /\ AskedIsOnList /\ ListsAgree

(* What a step of one task leaves of the others. *)
OnlyMoves(t) == \A u \in Tasks : u # t => job'[u] = job[u]

(* A step that does not touch the lists. *)
StopsShort(t) ==
    /\ job' \in [Tasks -> Subs!Job] /\ OnlyMoves(t)
    /\ lock' \in Tasks \cup {None} /\ calls' \in 0..MaxCalls
    /\ job'[t].at \in {"idle", "waiting", "looking"} /\ ~Asking(t)
    /\ (lock' = t <=> job'[t].at = "looking")
    /\ \A u \in Tasks : u # t => (lock' = u <=> lock = u)

LEMMA SubscriptionsImply ==
    ASSUME SubscriptionsSafe
    PROVE  Subs!RecordIsTrue /\ Subs!OneMessagePerSymbol
<1>1. Subs!RecordIsTrue
  <2>1. ASSUME NEW t \in Tasks, Asking(t)
        PROVE  lock = t /\ job[t].todo # <<>>
    BY <2>1 DEF SubscriptionsSafe, HolderIsInCall, AskedIsOnList, InCall, Asking
  <2>2. QED
    BY <2>1 DEF Subs!RecordIsTrue, SubscriptionsSafe, ListsAgree, AgreeOn, Subject
<1>2. Subs!OneMessagePerSymbol
  BY DEF Subs!OneMessagePerSymbol, SubscriptionsSafe, HolderIsInCall, InCall
<1>3. QED
  BY <1>1, <1>2

(* The steps that stop short of the lists: a call, the lock, its end. *)
LEMMA WaitingKeeps ==
    ASSUME SubscriptionsSafe, Subs!SubscriptionConstants, NEW t \in Tasks,
           \/ Subs!Acquire(t) \/ Subs!Leave(t)
           \/ \E k \in {"subscribe", "unsubscribe"}, list \in Subs!Lists : Subs!Call(t, k, list)
    PROVE  SubscriptionsSafe'
<1>1. UNCHANGED <<recorded, stream, venue, unsent>>
  BY DEF Subs!Acquire, Subs!Leave, Subs!Call
<1>2. job \in [Tasks -> Subs!Job] /\ lock \in Tasks \cup {None}
  BY DEF SubscriptionsSafe, Subs!TypeOK
<1>3. /\ Subs!Idle \in Subs!Job
      /\ \A list \in Subs!Lists : list \in Seq(Symbols)
  BY DEF Subs!Idle, Subs!Job, Subs!Lists
<1>4. StopsShort(t)
  <2>1. CASE Subs!Acquire(t)
    <3>1. job' = [job EXCEPT ![t].at = "looking"] /\ lock = None /\ lock' = t
          /\ job[t].at = "waiting" /\ calls' = calls
      BY <2>1 DEF Subs!Acquire
    <3>2. QED
      BY <1>2, <3>1 DEF Subs!Job, StopsShort, OnlyMoves, Asking, SubscriptionsSafe, Subs!TypeOK,
                        Subs!SubscriptionConstants
  <2>2. CASE Subs!Leave(t)
    <3>1. job' = [job EXCEPT ![t] = Subs!Idle] /\ lock' = None
          /\ job[t].at = "looking" /\ calls' = calls
      BY <2>2 DEF Subs!Leave
    <3>2. lock = t
      BY <3>1 DEF SubscriptionsSafe, HolderIsInCall, InCall
    <3>3. Subs!Idle.at = "idle"
      BY DEF Subs!Idle
    <3>4. QED
      BY <1>2, <1>3, <3>1, <3>2, <3>3 DEF StopsShort, OnlyMoves, Asking, SubscriptionsSafe, Subs!TypeOK,
                        Subs!SubscriptionConstants
  <2>3. ASSUME NEW k \in {"subscribe", "unsubscribe"}, NEW list \in Subs!Lists,
               Subs!Call(t, k, list)
        PROVE  StopsShort(t)
    <3>. DEFINE new == [at |-> "waiting", kind |-> k, todo |-> list]
    <3>1. job' = [job EXCEPT ![t] = new] /\ lock' = lock
          /\ job[t].at = "idle" /\ calls' = calls + 1 /\ calls < MaxCalls
      BY <2>3 DEF Subs!Call
    <3>2. new \in Subs!Job /\ new.at = "waiting"
      BY <1>3 DEF Subs!Job
    <3>3. lock # t
      BY <3>1 DEF SubscriptionsSafe, HolderIsInCall, InCall
    <3>4. calls' \in 0..MaxCalls
      BY <3>1 DEF SubscriptionsSafe, Subs!TypeOK, Subs!SubscriptionConstants
    <3>. HIDE DEF new
    <3>5. QED
      BY <1>2, <3>1, <3>2, <3>3, <3>4 DEF StopsShort, OnlyMoves, Asking
  <2>4. QED
    BY <2>1, <2>2, <2>3
<1>5. \A u \in Tasks : Asking(u)' <=> Asking(u)
  BY <1>4 DEF StopsShort, OnlyMoves, Asking
<1>6. \A u \in Tasks : Asking(u) => u # t /\ job'[u] = job[u]
  BY <1>4 DEF StopsShort, OnlyMoves
<1>7. HolderIsInCall'
  BY <1>4 DEF SubscriptionsSafe, HolderIsInCall, InCall, StopsShort, OnlyMoves
<1>8. AskedIsOnList'
  BY <1>1, <1>5, <1>6 DEF SubscriptionsSafe, AskedIsOnList, Subject, Wants
<1>9. ListsAgree'
  BY <1>1, <1>5, <1>6 DEF SubscriptionsSafe, ListsAgree, AgreeOn, Subject
<1>10. Subs!TypeOK'
  BY <1>1, <1>4 DEF SubscriptionsSafe, StopsShort, Subs!TypeOK
<1>11. QED
  BY <1>7, <1>8, <1>9, <1>10 DEF SubscriptionsSafe

(* A set with the symbol added or taken out, as the call wants it. *)
LEMMA WithHolds ==
    ASSUME NEW set, NEW t
    PROVE  /\ (Subject(t) \in Subs!With(set, t)) = Wants(t)
           /\ \A s : s # Subject(t) => (s \in Subs!With(set, t)) = (s \in set)
           /\ (Subs!With(set, t) = set) = ((Subject(t) \in set) = Wants(t))
           /\ \A all : set \subseteq all /\ Subject(t) \in all => Subs!With(set, t) \subseteq all
BY DEF Subs!With, Subject, Wants

(* The steps of the task that holds the lock. *)
LEMMA LookKeeps ==
    ASSUME SubscriptionsSafe, NEW t \in Tasks, Subs!Look(t)
    PROVE  SubscriptionsSafe'
<1>. DEFINE s0 == Subject(t)
<1>1. /\ job \in [Tasks -> Subs!Job] /\ job[t].at = "looking" /\ job[t].todo # <<>>
      /\ job[t].todo \in Seq(Symbols) /\ s0 \in Symbols /\ Tail(job[t].todo) \in Seq(Symbols)
      /\ UNCHANGED <<recorded, venue, unsent, lock, calls>> /\ lock = t
  BY DEF SubscriptionsSafe, Subs!TypeOK, Subs!Look, Subject, Subs!Job, HolderIsInCall, InCall
<1>2. /\ \A u \in Tasks : Asking(u) => u = t
      /\ ~Asking(t)
  BY <1>1 DEF SubscriptionsSafe, HolderIsInCall, InCall, Asking
<1>3. \A s \in Symbols : AgreeOn(s) \/ s \in unsent
  BY <1>2 DEF SubscriptionsSafe, ListsAgree
<1>4. CASE Subs!With(recorded, t) = recorded
  <2>1. job' = [job EXCEPT ![t].todo = Tail(@)] /\ stream' = stream
    BY <1>1, <1>4 DEF Subs!Look
  <2>2. /\ job' \in [Tasks -> Subs!Job] /\ job'[t].at = "looking" /\ OnlyMoves(t)
    BY <1>1, <2>1 DEF Subs!Job, OnlyMoves
  <2>3. \A u \in Tasks : ~Asking(u)' /\ (InCall(u)' <=> InCall(u))
    BY <1>1, <1>2, <2>2 DEF Asking, OnlyMoves, InCall
  <2>4. QED
    BY <1>1, <1>3, <2>1, <2>2, <2>3 DEF SubscriptionsSafe, Subs!TypeOK, HolderIsInCall,
           AskedIsOnList, ListsAgree, AgreeOn
<1>5. CASE Subs!With(recorded, t) # recorded
  <2>1. /\ stream' = Subs!With(stream, t)
        /\ job' = [job EXCEPT ![t].at = IF stream' = stream THEN "answered" ELSE "sending"]
    BY <1>5 DEF Subs!Look
  <2>2. /\ job' \in [Tasks -> Subs!Job] /\ job'[t].at \in {"answered", "sending"}
        /\ job'[t].at = "answered" => stream' = stream
        /\ job'[t].todo = job[t].todo /\ job'[t].kind = job[t].kind /\ OnlyMoves(t)
    <3>. DEFINE answer == IF stream' = stream THEN "answered" ELSE "sending"
    <3>1. answer \in {"answered", "sending"} /\ (answer = "answered" => stream' = stream)
      OBVIOUS
    <3>2. job' = [job EXCEPT ![t].at = answer]
      BY <2>1
    <3>. HIDE DEF answer
    <3>3. QED
      BY <1>1, <3>1, <3>2 DEF Subs!Job, OnlyMoves
  <2>3. /\ Subject(t)' = s0 /\ Wants(t)' = Wants(t) /\ Asking(t)' /\ InCall(t)' /\ InCall(t)
        /\ \A u \in Tasks : Asking(u)' => u = t
        /\ \A u \in Tasks : InCall(u)' <=> InCall(u)
    BY <1>1, <1>2, <2>2 DEF Subject, Wants, Asking, InCall, OnlyMoves
  <2>4. stream' \subseteq Symbols
    BY <1>1, <2>1, WithHolds DEF SubscriptionsSafe, Subs!TypeOK
  <2>5. (s0 \in stream') = Wants(t) /\ (s0 \in recorded) # Wants(t)
        /\ \A s : s # s0 => (s \in stream') = (s \in stream)
    BY <1>5, <2>1, WithHolds
  <2>6. stream' = stream => s0 \in unsent
    BY <1>1, <1>3, <2>5 DEF AgreeOn
  <2>7. AskedIsOnList'
    BY <1>1, <2>2, <2>3, <2>5, <2>6 DEF AskedIsOnList
  <2>8. ListsAgree'
    BY <1>1, <1>3, <2>3, <2>5 DEF ListsAgree, AgreeOn
  <2>9. HolderIsInCall' /\ Subs!TypeOK'
    BY <1>1, <2>2, <2>3, <2>4 DEF SubscriptionsSafe, HolderIsInCall, Subs!TypeOK
  <2>10. QED
    BY <2>7, <2>8, <2>9 DEF SubscriptionsSafe
<1>6. QED
  BY <1>4, <1>5

LEMMA AnswerKeeps ==
    ASSUME SubscriptionsSafe, Subs!SubscriptionConstants, NEW t \in Tasks,
           Subs!Sent(t) \/ Subs!SendFails(t) \/ Subs!Record(t)
    PROVE  SubscriptionsSafe'
<1>. DEFINE s0 == Subject(t)
<1>1. /\ job \in [Tasks -> Subs!Job] /\ Asking(t) /\ job[t].todo # <<>> /\ lock = t
      /\ job[t].todo \in Seq(Symbols) /\ s0 \in Symbols /\ Tail(job[t].todo) \in Seq(Symbols)
      /\ stream' = stream /\ calls' = calls
      /\ (s0 \in stream) = Wants(t)
  <2>1. Asking(t) /\ InCall(t) /\ stream' = stream /\ calls' = calls
    BY DEF Subs!Sent, Subs!SendFails, Subs!Record, Asking, InCall
  <2>2. QED
    BY <2>1 DEF SubscriptionsSafe, Subs!TypeOK, Subject, Subs!Job, HolderIsInCall, AskedIsOnList
<1>2. \A u \in Tasks : Asking(u) => u = t
  BY <1>1 DEF SubscriptionsSafe, HolderIsInCall, InCall, Asking
<1>3. \A s \in Symbols : s # s0 => AgreeOn(s) \/ s \in unsent
  BY <1>2 DEF SubscriptionsSafe, ListsAgree
<1>4. CASE Subs!Sent(t)
  <2>1. /\ venue' = Subs!With(venue, t) /\ unsent' = unsent \ {s0}
        /\ job' = [job EXCEPT ![t].at = "answered"] /\ UNCHANGED <<recorded, lock>>
    BY <1>4 DEF Subs!Sent, Subject
  <2>2. /\ job' \in [Tasks -> Subs!Job] /\ job'[t].at = "answered" /\ OnlyMoves(t)
        /\ job'[t].todo = job[t].todo /\ job'[t].kind = job[t].kind
    BY <1>1, <2>1 DEF Subs!Job, OnlyMoves
  <2>3. /\ Subject(t)' = s0 /\ Wants(t)' = Wants(t) /\ Asking(t)'
        /\ \A u \in Tasks : Asking(u)' => u = t
        /\ \A u \in Tasks : InCall(u)' <=> InCall(u)
    BY <1>1, <1>2, <2>2 DEF Subject, Wants, Asking, InCall, OnlyMoves
  <2>4. /\ venue' \subseteq Symbols /\ (s0 \in venue') = Wants(t)
        /\ \A s : s # s0 => (s \in venue') = (s \in venue)
    BY <1>1, <2>1, WithHolds DEF SubscriptionsSafe, Subs!TypeOK
  <2>5. AskedIsOnList'
    BY <1>1, <2>2, <2>3, <2>4 DEF AskedIsOnList
  <2>6. ListsAgree'
    BY <1>1, <1>3, <2>1, <2>3, <2>4 DEF ListsAgree, AgreeOn
  <2>7. HolderIsInCall' /\ Subs!TypeOK'
    BY <1>1, <2>1, <2>2, <2>3, <2>4 DEF SubscriptionsSafe, HolderIsInCall, Subs!TypeOK
  <2>8. QED
    BY <2>5, <2>6, <2>7 DEF SubscriptionsSafe
<1>5. CASE Subs!SendFails(t)
  <2>1. /\ unsent' = unsent \cup {s0} /\ lock' = None
        /\ job' = [job EXCEPT ![t] = Subs!Idle] /\ UNCHANGED <<recorded, venue>>
    BY <1>5 DEF Subs!SendFails, Subject
  <2>2. /\ Subs!Idle \in Subs!Job /\ Subs!Idle.at = "idle"
    BY DEF Subs!Idle, Subs!Job
  <2>3. /\ job' \in [Tasks -> Subs!Job] /\ job'[t].at = "idle" /\ OnlyMoves(t)
    BY <1>1, <2>1, <2>2 DEF OnlyMoves
  <2>4. /\ \A u \in Tasks : ~Asking(u)' /\ ~InCall(u)'
    BY <1>1, <1>2, <2>3 DEF Asking, InCall, OnlyMoves, SubscriptionsSafe, HolderIsInCall
  <2>5. AskedIsOnList' /\ ListsAgree'
    BY <1>1, <1>3, <2>1, <2>4 DEF AskedIsOnList, ListsAgree, AgreeOn
  <2>6. HolderIsInCall' /\ Subs!TypeOK'
    BY <1>1, <2>1, <2>3, <2>4 DEF SubscriptionsSafe, HolderIsInCall, Subs!TypeOK,
           Subs!SubscriptionConstants
  <2>7. QED
    BY <2>5, <2>6 DEF SubscriptionsSafe
<1>6. CASE Subs!Record(t)
  <2>1. /\ recorded' = Subs!With(recorded, t) /\ UNCHANGED <<venue, unsent, lock>>
        /\ job' = [job EXCEPT ![t].at = "looking", ![t].todo = Tail(@)]
        /\ job[t].at = "answered"
    BY <1>6 DEF Subs!Record
  <2>2. /\ job' \in [Tasks -> Subs!Job] /\ job'[t].at = "looking" /\ OnlyMoves(t)
    BY <1>1, <2>1 DEF Subs!Job, OnlyMoves
  <2>3. /\ \A u \in Tasks : ~Asking(u)'
        /\ \A u \in Tasks : InCall(u)' <=> InCall(u)
    BY <1>1, <1>2, <2>1, <2>2 DEF Asking, InCall, OnlyMoves
  <2>4. /\ recorded' \subseteq Symbols /\ (s0 \in recorded') = Wants(t)
        /\ \A s : s # s0 => (s \in recorded') = (s \in recorded)
    BY <1>1, <2>1, WithHolds DEF SubscriptionsSafe, Subs!TypeOK
  <2>5. s0 \in unsent \/ (s0 \in venue) = (s0 \in stream)
    BY <1>1, <2>1 DEF SubscriptionsSafe, AskedIsOnList
  <2>6. AskedIsOnList' /\ ListsAgree'
    BY <1>1, <1>3, <2>1, <2>3, <2>4, <2>5 DEF AskedIsOnList, ListsAgree, AgreeOn
  <2>7. HolderIsInCall' /\ Subs!TypeOK'
    BY <1>1, <2>1, <2>2, <2>3, <2>4 DEF SubscriptionsSafe, HolderIsInCall, Subs!TypeOK
  <2>8. QED
    BY <2>6, <2>7 DEF SubscriptionsSafe
<1>7. QED
  BY <1>4, <1>5, <1>6

LEMMA SubscriptionsKeep ==
    ASSUME EventConstants, SubscriptionsSafe, SubscriptionStep \/ UNCHANGED subsVars
    PROVE  SubscriptionsSafe'
<1>1. ASSUME SubscriptionStep PROVE SubscriptionsSafe'
  <2>1. Subs!SubscriptionConstants /\ Subs!Next
    BY <1>1 DEF SubscriptionStep, EventConstants
  <2>2. QED
    BY <2>1, WaitingKeeps, LookKeeps, AnswerKeeps DEF Subs!Next, Subs!Go
<1>2. ASSUME UNCHANGED subsVars PROVE SubscriptionsSafe'
  BY <1>2 DEF subsVars, SubscriptionsSafe, Subs!TypeOK, HolderIsInCall, AskedIsOnList,
              ListsAgree, AgreeOn, InCall, Asking, Subject, Wants
<1>3. QED
  BY <1>1, <1>2

-----------------------------------------------------------------------------
(***************************************************************************)
(* The plugin manager.                                                     *)
(***************************************************************************)

Plugin == [name : 1..Files, key : 1..Files, offers : SUBSET (1..Registries)]

(* A registry holds a plugin under its key. *)
Holds(r, f) == registered[r][naming[f].key] = f

(* Files are listed in their order, from the first. *)
ListedInOrder == \A i \in 1..Len(listed) : listed[i] = i

(* A call is at a file or a listed plugin, and a load that has passed or    *)
(* begun a plugin has listed all those before it.                           *)
CallIsPlaced ==
    /\ doing = "nothing" => stage = 0
    /\ doing # "nothing" => at >= 1
    /\ doing # "load" => stage = 0 /\ at <= Len(listed) + 1
    /\ stage > 0 => at <= Files
    /\ doing = "load" /\ (at > 1 \/ stage > 0) => Len(listed) = at - 1

(* The plugin being loaded has a name of its own, and the registries it    *)
(* has passed hold it.                                                     *)
LoadIsWhole ==
    stage > 0 =>
        /\ \A j \in 1..(at - 1) : naming[j].name # naming[at].name
        /\ \A r \in naming[at].offers : r < stage => Holds(r, at)

(* A listed plugin holds what it offers, and its name is its own. *)
ListedHold ==
    \A f \in 1..Len(listed) :
        /\ \A r \in naming[f].offers : Holds(r, f)
        /\ \A j \in 1..(f - 1) : naming[j].name # naming[f].name

PluginsSafe ==
    /\ Plugs!PluginTypeOK /\ naming \in [1..Files -> Plugin]
    /\ ListedInOrder /\ CallIsPlaced /\ LoadIsWhole /\ ListedHold

LEMMA PluginsImply ==
    ASSUME PluginsSafe, Plugs!PluginConstants
    PROVE  Plugs!ListedIsWhole
<1>1. SUFFICES ASSUME NEW i \in 1..Len(listed)
               PROVE  /\ \A r \in naming[listed[i]].offers :
                             registered[r][naming[listed[i]].key] = listed[i]
                      /\ \A j \in 1..(i - 1) :
                             listed[j] < listed[i] /\ naming[listed[j]].name # naming[listed[i]].name
  BY DEF Plugs!ListedIsWhole
<1>2. listed[i] = i /\ i \in Nat /\ Len(listed) \in Nat
  BY DEF PluginsSafe, ListedInOrder, Plugs!PluginTypeOK
<1>3. \A j \in 1..(i - 1) : j \in 1..Len(listed) /\ listed[j] = j /\ j < i
  BY <1>2 DEF PluginsSafe, ListedInOrder
<1>4. QED
  BY <1>2, <1>3 DEF PluginsSafe, ListedHold, Holds

(* Steps that change neither the list nor a registry. *)
LEMMA CallsKeep ==
    ASSUME PluginsSafe, Plugs!PluginConstants,
           \/ \E method \in Plugs!PluginMethods : Plugs!Call(method)
           \/ Plugs!Raises \/ Plugs!LoadPlugin \/ Plugs!LoadEnds \/ Plugs!InvokeLifecycle
    PROVE  PluginsSafe'
<1>1. /\ listed \in Seq(1..Files) /\ Len(listed) <= Files /\ Len(listed) \in Nat
      /\ Files \in Nat \ {0} /\ Registries \in Nat \ {0} /\ at \in 0..Files + 1
      /\ stage \in 0..Registries + 1 /\ doing \in Plugs!PluginMethods \cup {"nothing"}
      /\ lifecycle \in [1..Files -> Plugs!PluginMethods \cup {"none"}]
      /\ pluginCalls \in 0..MaxPluginCalls /\ MaxPluginCalls \in Nat
  BY DEF PluginsSafe, Plugs!PluginTypeOK, Plugs!PluginConstants
<1>2. UNCHANGED <<naming, listed, registered>>
  BY DEF Plugs!Call, Plugs!Raises, Plugs!LoadPlugin, Plugs!LoadEnds, Plugs!InvokeLifecycle
<1>3. ListedInOrder' /\ ListedHold'
  BY <1>2 DEF PluginsSafe, ListedInOrder, ListedHold, Holds
<1>4. CASE \E method \in Plugs!PluginMethods : Plugs!Call(method)
  <2>1. PICK method \in Plugs!PluginMethods : Plugs!Call(method)
    BY <1>4
  <2>2. pluginCalls' \in 0..MaxPluginCalls /\ lifecycle' = lifecycle
    BY <1>1, <2>1 DEF Plugs!Call
  <2>3. \/ doing' = method /\ at' = 1 /\ stage' = 0
        \/ UNCHANGED <<doing, at, stage>>
    BY <2>1 DEF Plugs!Call
  <2>4. CallIsPlaced' /\ LoadIsWhole'
    BY <1>1, <1>2, <2>3 DEF PluginsSafe, CallIsPlaced, LoadIsWhole, Holds, Plugs!PluginMethods
  <2>5. QED
    BY <1>1, <1>2, <1>3, <2>2, <2>3, <2>4 DEF PluginsSafe, Plugs!PluginTypeOK
<1>5. CASE Plugs!Raises \/ Plugs!LoadEnds
  <2>1. doing' = "nothing" /\ at' = 0 /\ stage' = 0 /\ UNCHANGED <<lifecycle, pluginCalls>>
    BY <1>5 DEF Plugs!Raises, Plugs!LoadEnds, Plugs!Leave
  <2>2. QED
    BY <1>1, <1>2, <1>3, <2>1 DEF PluginsSafe, Plugs!PluginTypeOK, CallIsPlaced, LoadIsWhole
<1>6. CASE Plugs!LoadPlugin
  <2>1. /\ doing = "load" /\ stage = 0 /\ at <= Files /\ ~Plugs!NameListed(naming[at].name)
        /\ lifecycle' = [lifecycle EXCEPT ![at] = "load"] /\ stage' = 1
        /\ UNCHANGED <<doing, at, pluginCalls>>
    BY <1>6 DEF Plugs!LoadPlugin
  <2>2. at \in 1..Files /\ lifecycle' \in [1..Files -> Plugs!PluginMethods \cup {"none"}]
    BY <1>1, <2>1 DEF PluginsSafe, CallIsPlaced, Plugs!PluginMethods
  <2>3. Len(listed) = at - 1
    <3>1. CASE at > 1
      BY <2>1, <3>1 DEF PluginsSafe, CallIsPlaced
    <3>2. CASE at = 1 /\ Len(listed) # 0
      <4>1. 1 \in 1..Len(listed) /\ listed[1] = 1
        BY <1>1, <3>2 DEF PluginsSafe, ListedInOrder
      <4>2. Plugs!NameListed(naming[at].name)
        BY <3>2, <4>1 DEF Plugs!NameListed
      <4>3. QED
        BY <2>1, <4>2
    <3>3. QED
      BY <2>2, <3>1, <3>2
  <2>4. \A j \in 1..(at - 1) : naming[j].name # naming[at].name
    BY <1>1, <2>1, <2>3 DEF Plugs!NameListed, PluginsSafe, ListedInOrder
  <2>5. naming[at].offers \subseteq 1..Registries
    BY <2>2 DEF PluginsSafe, Plugin
  <2>6. CallIsPlaced'
    BY <1>1, <1>2, <2>1, <2>2, <2>3 DEF CallIsPlaced
  <2>7. LoadIsWhole'
    BY <1>1, <1>2, <2>1, <2>4, <2>5 DEF LoadIsWhole
  <2>8. QED
    BY <1>1, <1>2, <1>3, <2>1, <2>2, <2>6, <2>7 DEF PluginsSafe, Plugs!PluginTypeOK
<1>7. CASE Plugs!InvokeLifecycle
  <2>1. /\ doing \in {"start", "stop", "unload"} /\ at <= Len(listed)
        /\ lifecycle' = [lifecycle EXCEPT ![listed[at]] = doing] /\ at' = at + 1
        /\ UNCHANGED <<doing, stage, pluginCalls>>
    BY <1>7 DEF Plugs!InvokeLifecycle
  <2>2. stage = 0 /\ at' \in 0..Files + 1 /\ at' <= Len(listed) + 1
    BY <1>1, <2>1 DEF PluginsSafe, CallIsPlaced
  <2>3. lifecycle' \in [1..Files -> Plugs!PluginMethods \cup {"none"}]
    BY <1>1, <2>1 DEF Plugs!PluginMethods
  <2>4. CallIsPlaced' /\ LoadIsWhole'
    BY <1>1, <1>2, <2>1, <2>2 DEF CallIsPlaced, LoadIsWhole
  <2>5. QED
    BY <1>1, <1>2, <1>3, <2>1, <2>2, <2>3, <2>4 DEF PluginsSafe, Plugs!PluginTypeOK
<1>8. QED
  BY <1>4, <1>5, <1>6, <1>7

LEMMA RegisterKeeps ==
    ASSUME PluginsSafe, Plugs!PluginConstants, Plugs!Register
    PROVE  PluginsSafe'
<1>0. /\ registered \in [1..Registries -> [1..Files -> 0..Files]]
      /\ Files \in Nat \ {0} /\ Registries \in Nat \ {0} /\ at \in 0..Files + 1
  BY DEF PluginsSafe, Plugs!PluginTypeOK, Plugs!PluginConstants, Plugs!Names
<1>1. /\ registered \in [1..Registries -> [1..Files -> 0..Files]]
      /\ Files \in Nat \ {0} /\ Registries \in Nat \ {0}
      /\ doing = "load" /\ stage \in 1..Registries /\ stage' = stage + 1
      /\ UNCHANGED <<naming, listed, doing, at, lifecycle, pluginCalls>>
      /\ Len(listed) = at - 1 /\ at \in 1..Files
  BY <1>0 DEF PluginsSafe, Plugs!Register, CallIsPlaced
<1>2. /\ naming[at] \in Plugin /\ naming[at].key \in 1..Files
      /\ naming[at].offers \subseteq 1..Registries
  BY <1>1 DEF PluginsSafe, Plugin
<1>. DEFINE k == naming[at].key
<1>3. /\ registered' \in [1..Registries -> [1..Files -> 0..Files]]
      /\ \A r \in 1..Registries, j \in 1..Files :
             registered[r][j] # 0 => registered'[r][j] = registered[r][j]
      /\ stage \in naming[at].offers => registered'[stage][k] = at
  <2>1. CASE stage \notin naming[at].offers
    BY <1>1, <2>1 DEF Plugs!Register
  <2>2. CASE stage \in naming[at].offers
    <3>1. registered' = [registered EXCEPT ![stage][k] = at] /\ registered[stage][k] = 0
      BY <2>2 DEF Plugs!Register, Plugs!Accepts
    <3>2. k \in 1..Files
      BY <1>2
    <3>. HIDE DEF k
    <3>3. QED
      BY <1>1, <3>1, <3>2
  <2>3. QED
    BY <2>1, <2>2
<1>4. \A f \in 1..Files : \A r \in naming[f].offers : Holds(r, f) => Holds(r, f)'
  <2>1. SUFFICES ASSUME NEW f \in 1..Files, NEW r \in naming[f].offers, Holds(r, f)
                 PROVE  registered'[r][naming[f].key] = f
    BY <1>1 DEF Holds
  <2>2. r \in 1..Registries /\ naming[f].key \in 1..Files
    BY DEF PluginsSafe, Plugin
  <2>3. registered[r][naming[f].key] = f /\ f # 0
    BY <2>1 DEF Holds
  <2>4. registered'[r][naming[f].key] = registered[r][naming[f].key]
    BY <1>3, <2>2, <2>3
  <2>5. QED
    BY <2>3, <2>4
<1>5. LoadIsWhole'
  <2>1. /\ \A j \in 1..(at - 1) : naming[j].name # naming[at].name
        /\ \A r \in naming[at].offers : r < stage => Holds(r, at)
    BY <1>1 DEF PluginsSafe, LoadIsWhole
  <2>2. ASSUME NEW r \in naming[at].offers, r < stage + 1
        PROVE  registered'[r][k] = at
    <3>1. CASE r = stage
      BY <1>3, <3>1
    <3>2. CASE r # stage
      <4>0. r \in 1..Registries
        BY <1>2
      <4>1. r < stage
        BY <1>1, <2>2, <3>2, <4>0
      <4>2. Holds(r, at)'
        BY <1>1, <1>4, <2>1, <4>1
      <4>3. QED
        BY <1>1, <4>2 DEF Holds
    <3>3. QED
      BY <3>1, <3>2
  <2>3. QED
    BY <1>1, <2>1, <2>2 DEF LoadIsWhole, Holds
<1>6. ListedHold'
  <2>1. Len(listed) <= Files /\ Len(listed) \in Nat
    BY DEF PluginsSafe, Plugs!PluginTypeOK
  <2>2. \A f \in 1..Len(listed) : f \in 1..Files
    BY <1>1, <2>1
  <2>3. QED
    BY <1>1, <1>4, <2>2 DEF PluginsSafe, ListedHold
<1>7. ListedInOrder' /\ CallIsPlaced'
  BY <1>1 DEF PluginsSafe, ListedInOrder, CallIsPlaced
<1>8. Plugs!PluginTypeOK'
  <2>1. stage' \in 0..Registries + 1
    BY <1>1
  <2>2. QED
    BY <1>1, <1>3, <2>1 DEF PluginsSafe, Plugs!PluginTypeOK, Plugs!Names
<1>9. QED
  BY <1>1, <1>5, <1>6, <1>7, <1>8 DEF PluginsSafe

LEMMA ListKeeps ==
    ASSUME PluginsSafe, Plugs!PluginConstants, Plugs!ListPlugin \/ Plugs!LifecycleEnds
    PROVE  PluginsSafe'
<1>1. /\ listed \in Seq(1..Files) /\ Len(listed) \in Nat
      /\ Files \in Nat \ {0} /\ Registries \in Nat \ {0} /\ at \in 0..Files + 1
      /\ UNCHANGED <<naming, registered, lifecycle, pluginCalls>>
  BY DEF PluginsSafe, Plugs!PluginTypeOK, Plugs!PluginConstants, Plugs!ListPlugin,
         Plugs!LifecycleEnds
<1>2. CASE Plugs!ListPlugin
  <2>1. /\ doing = "load" /\ stage = Registries + 1 /\ doing' = "load"
        /\ listed' = Append(listed, at) /\ at' = at + 1 /\ stage' = 0
    BY <1>2 DEF Plugs!ListPlugin
  <2>2. Len(listed) = at - 1 /\ at \in 1..Files
    BY <1>1, <2>1 DEF PluginsSafe, CallIsPlaced
  <2>3. /\ listed' \in Seq(1..Files) /\ Len(listed') = at
        /\ \A i \in 1..at : listed'[i] = i
    BY <1>1, <2>1, <2>2 DEF PluginsSafe, ListedInOrder
  <2>4. \A r \in naming[at].offers : Holds(r, at)
    <3>1. naming[at].offers \subseteq 1..Registries
      BY <2>2 DEF PluginsSafe, Plugin
    <3>2. QED
      BY <1>1, <2>1, <3>1 DEF PluginsSafe, LoadIsWhole
  <2>5. \A j \in 1..(at - 1) : naming[j].name # naming[at].name
    BY <1>1, <2>1 DEF PluginsSafe, LoadIsWhole
  <2>6. ListedHold'
    <3>1. ASSUME NEW f \in 1..at
          PROVE  /\ \A r \in naming[f].offers : Holds(r, f)
                 /\ \A j \in 1..(f - 1) : naming[j].name # naming[f].name
      <4>1. f = at \/ f \in 1..Len(listed)
        BY <2>2
      <4>2. QED
        BY <2>4, <2>5, <4>1 DEF PluginsSafe, ListedHold
    <3>2. QED
      BY <1>1, <2>3, <3>1 DEF ListedHold, Holds
  <2>7. ListedInOrder' /\ CallIsPlaced' /\ LoadIsWhole'
    BY <1>1, <2>1, <2>2, <2>3 DEF ListedInOrder, CallIsPlaced, LoadIsWhole
  <2>8. QED
    BY <1>1, <2>1, <2>2, <2>3, <2>6, <2>7 DEF PluginsSafe, Plugs!PluginTypeOK
<1>3. CASE Plugs!LifecycleEnds
  <2>1. /\ doing' = "nothing" /\ at' = 0 /\ stage' = 0
        /\ listed' = listed \/ listed' = <<>>
    BY <1>3 DEF Plugs!LifecycleEnds, Plugs!Leave
  <2>2. CallIsPlaced' /\ LoadIsWhole'
    BY <1>1, <2>1 DEF CallIsPlaced, LoadIsWhole
  <2>3. ListedInOrder' /\ ListedHold'
    BY <1>1, <2>1 DEF PluginsSafe, ListedInOrder, ListedHold, Holds
  <2>4. listed' \in Seq(1..Files) /\ Len(listed') <= Files
    <3>1. Len(listed) <= Files
      BY DEF PluginsSafe, Plugs!PluginTypeOK
    <3>2. <<>> \in Seq(1..Files) /\ Len(<<>>) = 0
      OBVIOUS
    <3>3. CASE listed' = <<>>
      <4>1. Len(listed') = 0 /\ 0 <= Files
        BY <1>1, <3>2, <3>3
      <4>2. QED
        BY <3>2, <3>3, <4>1
    <3>4. CASE listed' = listed
      BY <1>1, <3>1, <3>4
    <3>5. QED
      BY <2>1, <3>3, <3>4
  <2>5. at' \in 0..Files + 1 /\ stage' \in 0..Registries + 1
    BY <1>1, <2>1
  <2>6. Plugs!PluginTypeOK'
    BY <1>1, <2>1, <2>4, <2>5 DEF PluginsSafe, Plugs!PluginTypeOK
  <2>7. QED
    BY <1>1, <2>2, <2>3, <2>6 DEF PluginsSafe
<1>4. QED
  BY <1>2, <1>3

LEMMA PluginsKeep ==
    ASSUME EventConstants, PluginsSafe, PluginStep \/ UNCHANGED pluginVars
    PROVE  PluginsSafe'
<1>1. ASSUME PluginStep PROVE PluginsSafe'
  <2>1. Plugs!PluginConstants /\ Plugs!PluginNext
    BY <1>1 DEF PluginStep, EventConstants
  <2>2. QED
    BY <2>1, CallsKeep, RegisterKeeps, ListKeeps DEF Plugs!PluginNext
<1>2. ASSUME UNCHANGED pluginVars PROVE PluginsSafe'
  BY <1>2 DEF pluginVars, PluginsSafe, Plugs!PluginTypeOK, ListedInOrder, CallIsPlaced,
              LoadIsWhole, ListedHold, Holds
<1>3. QED
  BY <1>1, <1>2

-----------------------------------------------------------------------------
(***************************************************************************)
(* The dispatcher.                                                         *)
(***************************************************************************)

(* What a handler has heard, and then what is still to come from the queue. *)
Line(h) == heard[h] \o queue

SteadyStay ==
    /\ \A h \in Steady : subs[h] = 1
    /\ \A h \in Movers : subs[h] <= moves

AcceptedOnce ==
    \A i, j \in DOMAIN accepted : accepted[i].event = accepted[j].event => i = j

QueueIsQueued ==
    \A k \in DOMAIN queue :
        \E i \in DOMAIN accepted : accepted[i].event = queue[k] /\ accepted[i].queued

(* In the line of a handler an event stands behind one accepted before it,  *)
(* unless that one was queued and it was not.                               *)
LineInOrder ==
    \A h \in Steady : \A i, j \in DOMAIN accepted : \A k, l \in DOMAIN Line(h) :
        /\ i < j /\ (~accepted[i].queued \/ accepted[j].queued)
        /\ Line(h)[k] = accepted[i].event /\ Line(h)[l] = accepted[j].event
        => k < l

(* The bus has passed every published event to a steady handler once.      *)
HeardOnBus ==
    \A h \in Steady :
        /\ Disp!IsInjective(busHeard[h])
        /\ Disp!Range(busHeard[h]) = {e \in Disp!Events : phase[e] # "new"}

PassedIsAccepted ==
    \A e \in Disp!Events : phase[e] = "passed" <=> e \in Disp!AcceptedEvents

(* Unless start() calls overlap there is one drain, and the bridge has not *)
(* started before it ends.                                                 *)
OneDrain == ~overlapped => draining <= 1 /\ (draining = 1 => running /\ ~started)

DispatchSafe ==
    /\ Disp!TypeOK /\ SteadyStay
    /\ AcceptedOnce /\ PassedIsAccepted /\ HeardOnBus
    /\ Disp!NothingLost /\ QueueIsQueued /\ LineInOrder
    /\ OneDrain /\ Disp!QueueHasDrainer /\ Disp!StartedMeansRunning

(* A sequence with one element more, at position n.                        *)
Shift(k, n) == IF k < n THEN k ELSE k + 1
Inserts(new, old, n, e) ==
    /\ Len(new) = Len(old) + 1 /\ n \in 1..Len(new) /\ new[n] = e
    /\ \A k \in 1..Len(old) : new[Shift(k, n)] = old[k]

LEMMA DirectInserts ==
    ASSUME NEW S, NEW s \in Seq(S), NEW t \in Seq(S), NEW e \in S
    PROVE  Append(s, e) \o t \in Seq(S) /\ Inserts(Append(s, e) \o t, s \o t, Len(s) + 1, e)
<1>1. /\ Append(s, e) \in Seq(S) /\ Len(Append(s, e)) = Len(s) + 1 /\ Append(s, e)[Len(s) + 1] = e
      /\ \A k \in 1..Len(s) : Append(s, e)[k] = s[k]
      /\ Len(s) \in Nat /\ Len(t) \in Nat
  OBVIOUS
<1>. DEFINE a == Append(s, e)
<1>. HIDE DEF a
<1>2. a \in Seq(S) /\ Len(a) = Len(s) + 1 /\ a[Len(s) + 1] = e /\ \A k \in 1..Len(s) : a[k] = s[k]
  BY <1>1 DEF a
<1>3. a \o t \in Seq(S) /\ Len(a \o t) = Len(s) + Len(t) + 1 /\ Len(s \o t) = Len(s) + Len(t)
  BY <1>2
<1>4. (a \o t)[Len(s) + 1] = e
  BY <1>1, <1>2
<1>5. ASSUME NEW k \in 1..Len(s \o t)
      PROVE  (a \o t)[Shift(k, Len(s) + 1)] = (s \o t)[k]
  <2>1. CASE k <= Len(s)
    BY <1>1, <1>2, <1>3, <2>1 DEF Shift
  <2>2. CASE k > Len(s)
    <3>1. Shift(k, Len(s) + 1) = k + 1 /\ k - Len(s) \in 1..Len(t)
      BY <1>1, <1>3, <2>2 DEF Shift
    <3>2. (s \o t)[k] = t[k - Len(s)]
      BY <1>1, <1>3, <2>2
    <3>3. (a \o t)[k + 1] = t[(k + 1) - Len(a)]
      BY <1>1, <1>2, <1>3, <2>2
    <3>4. QED
      BY <1>1, <1>2, <3>1, <3>2, <3>3
  <2>3. k \in Nat
    BY <1>1, <1>3
  <2>4. k <= Len(s) \/ k > Len(s)
    BY <1>1, <2>3
  <2>5. QED
    BY <2>1, <2>2, <2>4
<1>6. Len(s) + 1 \in 1..Len(a \o t) /\ Len(a \o t) = Len(s \o t) + 1
  BY <1>1, <1>3
<1>7. Inserts(a \o t, s \o t, Len(s) + 1, e)
  BY <1>4, <1>5, <1>6 DEF Inserts
<1>8. QED
  BY <1>3, <1>7 DEF a

LEMMA AppendInserts ==
    ASSUME NEW S, NEW s \in Seq(S), NEW e \in S
    PROVE  Append(s, e) \in Seq(S) /\ Inserts(Append(s, e), s, Len(s) + 1, e)
BY DEF Inserts, Shift

LEMMA QueuedInserts ==
    ASSUME NEW S, NEW s \in Seq(S), NEW t \in Seq(S), NEW e \in S
    PROVE  /\ s \o Append(t, e) \in Seq(S)
           /\ Inserts(s \o Append(t, e), s \o t, Len(s) + Len(t) + 1, e)
<1>1. /\ Len(s) \in Nat /\ Len(t) \in Nat /\ Len(s \o t) = Len(s) + Len(t)
      /\ s \o t \in Seq(S)
  OBVIOUS
<1>2. s \o Append(t, e) = Append(s \o t, e)
  OBVIOUS
<1>. DEFINE old == s \o t
<1>. HIDE DEF old
<1>3. Append(old, e) \in Seq(S) /\ Inserts(Append(old, e), old, Len(old) + 1, e)
  <2>1. old \in Seq(S)
    BY <1>1 DEF old
  <2>2. QED
    BY <2>1, AppendInserts
<1>4. QED
  BY <1>1, <1>2, <1>3 DEF old

(* Taking the head of the queue to the end of what was heard changes        *)
(* nothing in the line.                                                     *)
LEMMA LineStays ==
    ASSUME NEW S, NEW s \in Seq(S), NEW t \in Seq(S), t # <<>>
    PROVE  Append(s, Head(t)) \o Tail(t) = s \o t
OBVIOUS

(* Where the elements of the longer sequence come from. *)
LEMMA InsertsFrom ==
    ASSUME NEW S, NEW new \in Seq(S), NEW old \in Seq(S), NEW n, NEW e, Inserts(new, old, n, e),
           NEW m \in DOMAIN new
    PROVE  m = n \/ \E k \in DOMAIN old : m = Shift(k, n) /\ new[m] = old[k]
<1>1. /\ Len(old) \in Nat /\ Len(new) = Len(old) + 1 /\ n \in 1..Len(new)
      /\ m \in 1..Len(new) /\ DOMAIN old = 1..Len(old)
  BY DEF Inserts
<1>2. CASE m < n
  <2>1. m \in DOMAIN old /\ m = Shift(m, n)
    BY <1>1, <1>2 DEF Shift
  <2>2. new[m] = old[m]
    BY <1>1, <2>1 DEF Inserts
  <2>3. QED
    BY <2>1, <2>2
<1>3. CASE m > n
  <2>1. m - 1 \in DOMAIN old /\ m = Shift(m - 1, n)
    BY <1>1, <1>3 DEF Shift
  <2>2. new[m] = old[m - 1]
    BY <1>1, <2>1 DEF Inserts
  <2>3. QED
    BY <2>1, <2>2
<1>4. m < n \/ m = n \/ m > n
  BY <1>1
<1>5. QED
  BY <1>2, <1>3, <1>4

LEMMA ShiftInOrder ==
    ASSUME NEW n \in Nat, NEW k \in Nat, NEW l \in Nat
    PROVE  (Shift(k, n) < Shift(l, n) <=> k < l) /\ (Shift(k, n) = Shift(l, n) <=> k = l)
BY DEF Shift

LEMMA InsertsOnce ==
    ASSUME NEW S, NEW new \in Seq(S), NEW old \in Seq(S), NEW n, NEW e, Inserts(new, old, n, e),
           Disp!IsInjective(old), e \notin Disp!Range(old)
    PROVE  Disp!IsInjective(new) /\ Disp!Range(new) = Disp!Range(old) \cup {e}
<1>1. /\ Len(old) \in Nat /\ Len(new) = Len(old) + 1 /\ n \in 1..Len(new) /\ n \in Nat
      /\ DOMAIN new = 1..Len(new) /\ DOMAIN old = 1..Len(old) /\ new[n] = e
  BY DEF Inserts
<1>2. \A k \in DOMAIN old : old[k] # e
  BY DEF Disp!Range
<1>3. Disp!IsInjective(new)
  <2>1. SUFFICES ASSUME NEW p \in DOMAIN new, NEW q \in DOMAIN new, new[p] = new[q]
                 PROVE  p = q
    BY DEF Disp!IsInjective
  <2>2. /\ p = n \/ \E k \in DOMAIN old : p = Shift(k, n) /\ new[p] = old[k]
        /\ q = n \/ \E k \in DOMAIN old : q = Shift(k, n) /\ new[q] = old[k]
    BY InsertsFrom
  <2>3. QED
    BY <1>1, <1>2, <2>1, <2>2 DEF Disp!IsInjective
<1>4. ASSUME NEW x
      PROVE  x \in Disp!Range(new) <=> x \in Disp!Range(old) \cup {e}
  <2>1. ASSUME NEW p \in DOMAIN new, x = new[p]
        PROVE  x \in Disp!Range(old) \cup {e}
    BY <1>1, <2>1, InsertsFrom DEF Disp!Range
  <2>2. ASSUME NEW k \in DOMAIN old, x = old[k]
        PROVE  x \in Disp!Range(new)
    <3>1. Shift(k, n) \in DOMAIN new /\ new[Shift(k, n)] = old[k]
      BY <1>1 DEF Inserts, Shift
    <3>2. QED
      BY <2>2, <3>1 DEF Disp!Range
  <2>3. QED
    BY <1>1, <2>1, <2>2 DEF Disp!Range
<1>5. QED
  BY <1>3, <1>4

(* What one event does to the logs of the handlers. *)
LEMMA ToAllTyped ==
    ASSUME NEW log \in [Disp!AllHandlers -> Seq(Disp!Events)], NEW e \in Disp!Events,
           subs \in [Disp!AllHandlers -> Nat]
    PROVE  /\ Disp!ToAll(log, e) \in [Disp!AllHandlers -> Seq(Disp!Events)]
           /\ \A h \in Disp!AllHandlers : subs[h] = 1 => Disp!ToAll(log, e)[h] = Append(log[h], e)
<1>1. ASSUME NEW h \in Disp!AllHandlers
      PROVE  log[h] \o [i \in 1..subs[h] |-> e] \in Seq(Disp!Events)
  <2>1. subs[h] \in Nat /\ [i \in 1..subs[h] |-> e] \in [1..subs[h] -> Disp!Events]
    OBVIOUS
  <2>2. [i \in 1..subs[h] |-> e] \in Seq(Disp!Events)
    BY <2>1
  <2>3. QED
    BY <2>2
<1>2. ASSUME NEW h \in Disp!AllHandlers, subs[h] = 1
      PROVE  Disp!ToAll(log, e)[h] = Append(log[h], e)
  <2>1. [i \in 1..1 |-> e] = <<e>>
    OBVIOUS
  <2>2. log[h] \o <<e>> = Append(log[h], e)
    OBVIOUS
  <2>3. QED
    BY <1>2, <2>1, <2>2 DEF Disp!ToAll
<1>3. QED
  BY <1>1, <1>2 DEF Disp!ToAll

LEMMA DispatchTypes ==
    ASSUME DispatchSafe, Disp!DispatchConstants
    PROVE  /\ subs \in [Disp!AllHandlers -> Nat] /\ Steady \subseteq Disp!AllHandlers
           /\ heard \in [Disp!AllHandlers -> Seq(Disp!Events)]
           /\ busHeard \in [Disp!AllHandlers -> Seq(Disp!Events)]
           /\ queue \in Seq(Disp!Events)
           /\ \A h \in Steady : /\ subs[h] = 1 /\ heard[h] \in Seq(Disp!Events)
                                /\ busHeard[h] \in Seq(Disp!Events)
                                /\ Line(h) \in Seq(Disp!Events)
           /\ accepted \in Seq([event : Disp!Events, queued : BOOLEAN])
           /\ Disp!AcceptedEvents \subseteq Disp!Events
<1>1. /\ subs \in [Disp!AllHandlers -> 0..(MaxMoves + 1)] /\ MaxMoves \in Nat
      /\ heard \in [Disp!AllHandlers -> Seq(Disp!Events)]
      /\ busHeard \in [Disp!AllHandlers -> Seq(Disp!Events)]
      /\ queue \in Seq(Disp!Events) /\ \A h \in Steady : subs[h] = 1
      /\ accepted \in Seq([event : Disp!Events, queued : BOOLEAN])
  BY DEF DispatchSafe, Disp!TypeOK, SteadyStay, Disp!DispatchConstants
<1>2. Steady \subseteq Disp!AllHandlers
  BY DEF Disp!AllHandlers
<1>3. subs \in [Disp!AllHandlers -> Nat]
  BY <1>1
<1>4. Disp!AcceptedEvents \subseteq Disp!Events
  <2>1. ASSUME NEW i \in DOMAIN accepted PROVE accepted[i].event \in Disp!Events
    <3>. DEFINE R == [event : Disp!Events, queued : BOOLEAN]
    <3>1. accepted \in Seq(R)
      BY <1>1
    <3>2. \A r \in R : r.event \in Disp!Events
      OBVIOUS
    <3>. HIDE DEF R
    <3>3. accepted[i] \in R
      BY <2>1, <3>1
    <3>4. QED
      BY <3>2, <3>3
  <2>2. QED
    BY <2>1 DEF Disp!AcceptedEvents
<1>5. ASSUME NEW h \in Steady
      PROVE  /\ subs[h] = 1 /\ heard[h] \in Seq(Disp!Events)
             /\ busHeard[h] \in Seq(Disp!Events) /\ Line(h) \in Seq(Disp!Events)
  <2>1. heard[h] \in Seq(Disp!Events) /\ busHeard[h] \in Seq(Disp!Events)
    BY <1>1, <1>2
  <2>2. heard[h] \o queue \in Seq(Disp!Events)
    BY <1>1, <2>1
  <2>3. QED
    BY <1>1, <2>1, <2>2 DEF Line
<1>6. QED
  BY <1>1, <1>2, <1>3, <1>4, <1>5

(* A step that leaves the dispatcher's events alone. *)
LEMMA LinesStay ==
    ASSUME DispatchSafe, UNCHANGED <<accepted, queue, heard>>
    PROVE  /\ AcceptedOnce' /\ Disp!NothingLost' /\ QueueIsQueued' /\ LineInOrder'
           /\ Disp!AcceptedEvents' = Disp!AcceptedEvents
<1>1. Disp!AcceptedEvents' = Disp!AcceptedEvents
  BY DEF Disp!AcceptedEvents
<1>2. AcceptedOnce' /\ QueueIsQueued'
  BY DEF DispatchSafe, AcceptedOnce, QueueIsQueued
<1>3. Disp!NothingLost'
  BY <1>1 DEF DispatchSafe, Disp!NothingLost
<1>4. LineInOrder'
  BY DEF DispatchSafe, LineInOrder, Line
<1>5. QED
  BY <1>1, <1>2, <1>3, <1>4

(* Handlers that come and go leave the steady ones alone. *)
LEMMA MoversKeep ==
    ASSUME DispatchSafe, Disp!DispatchConstants, NEW m \in Movers,
           Disp!Subscribe(m) \/ Disp!Unsubscribe(m)
    PROVE  DispatchSafe'
<1>1. /\ subs \in [Disp!AllHandlers -> 0..(MaxMoves + 1)] /\ m \in Disp!AllHandlers
      /\ moves \in 0..MaxMoves /\ MaxMoves \in Nat /\ m \notin Steady
      /\ Steady \subseteq Disp!AllHandlers /\ Movers \subseteq Disp!AllHandlers
      /\ \A h \in Steady : subs[h] = 1
      /\ \A h \in Movers : subs[h] <= moves
  BY DEF DispatchSafe, SteadyStay, Disp!TypeOK, Disp!DispatchConstants, Disp!AllHandlers
<1>2. /\ moves < MaxMoves /\ moves' = moves + 1
      /\ UNCHANGED <<phase, accepted, started, running, queue, draining, overlapped, busHeard, heard>>
  BY DEF Disp!Subscribe, Disp!Unsubscribe
<1>3. /\ subs' \in [Disp!AllHandlers -> 0..(MaxMoves + 1)]
      /\ subs'[m] <= moves + 1
      /\ \A h \in Disp!AllHandlers : h # m => subs'[h] = subs[h]
  <2>1. subs[m] \in 0..(MaxMoves + 1) /\ subs[m] <= moves
    BY <1>1
  <2>2. CASE Disp!Subscribe(m)
    <3>. DEFINE n == subs[m] + 1
    <3>1. subs' = [subs EXCEPT ![m] = n] /\ n \in 0..(MaxMoves + 1) /\ n <= moves + 1
      BY <1>1, <1>2, <2>1, <2>2 DEF Disp!Subscribe
    <3>. HIDE DEF n
    <3>2. QED
      BY <1>1, <3>1
  <2>3. CASE Disp!Unsubscribe(m)
    <3>. DEFINE n == subs[m] - 1
    <3>1. subs' = [subs EXCEPT ![m] = n] /\ n \in 0..(MaxMoves + 1) /\ n <= moves + 1
      BY <1>1, <1>2, <2>1, <2>3 DEF Disp!Unsubscribe
    <3>. HIDE DEF n
    <3>2. QED
      BY <1>1, <3>1
  <2>4. QED
    BY <2>2, <2>3
<1>4. SteadyStay'
  BY <1>1, <1>2, <1>3 DEF SteadyStay
<1>5. Disp!TypeOK'
  BY <1>1, <1>2, <1>3 DEF DispatchSafe, Disp!TypeOK
<1>6. /\ AcceptedOnce' /\ Disp!NothingLost' /\ QueueIsQueued' /\ LineInOrder'
      /\ Disp!AcceptedEvents' = Disp!AcceptedEvents
  BY <1>2, LinesStay
<1>7. PassedIsAccepted' /\ HeardOnBus'
  BY <1>2, <1>6 DEF DispatchSafe, PassedIsAccepted, HeardOnBus
<1>8. OneDrain' /\ Disp!QueueHasDrainer' /\ Disp!StartedMeansRunning'
  BY <1>2 DEF DispatchSafe, OneDrain, Disp!QueueHasDrainer, Disp!StartedMeansRunning
<1>9. QED
  BY <1>4, <1>5, <1>6, <1>7, <1>8 DEF DispatchSafe

(* The publication of an event up to the dispatcher. *)
LEMMA PublishKeeps ==
    ASSUME DispatchSafe, Disp!DispatchConstants, NEW e \in Disp!Events,
           Disp!Publish(e) \/ Disp!PublishFails(e)
    PROVE  DispatchSafe'
<1>1. /\ UNCHANGED <<subs, moves, accepted, started, running, queue, draining, overlapped, heard>>
      /\ phase \in [Disp!Events -> {"new", "bus", "failed", "passed"}]
      /\ phase' \in [Disp!Events -> {"new", "bus", "failed", "passed"}]
      /\ \A d \in Disp!Events : d # e => phase'[d] = phase[d]
      /\ phase[e] # "passed" /\ phase'[e] \notin {"new", "passed"}
  BY DEF Disp!Publish, Disp!PublishFails, DispatchSafe, Disp!TypeOK
<1>2. busHeard' \in [Disp!AllHandlers -> Seq(Disp!Events)] /\ HeardOnBus'
  <2>1. CASE Disp!PublishFails(e)
    <3>1. busHeard' = busHeard /\ phase[e] # "new"
      BY <2>1 DEF Disp!PublishFails
    <3>2. {d \in Disp!Events : phase[d] # "new"} = {d \in Disp!Events : phase'[d] # "new"}
      BY <1>1, <3>1
    <3>3. QED
      BY <3>1, <3>2, DispatchTypes DEF DispatchSafe, HeardOnBus
  <2>2. CASE Disp!Publish(e)
    <3>1. busHeard' = Disp!ToAll(busHeard, e) /\ phase[e] = "new"
      BY <2>2 DEF Disp!Publish
    <3>2. busHeard' \in [Disp!AllHandlers -> Seq(Disp!Events)]
      BY <3>1, ToAllTyped, DispatchTypes
    <3>3. ASSUME NEW h \in Steady
          PROVE  /\ Disp!IsInjective(busHeard'[h])
                 /\ Disp!Range(busHeard'[h]) = {d \in Disp!Events : phase'[d] # "new"}
      <4>1. /\ busHeard'[h] = Append(busHeard[h], e) /\ busHeard[h] \in Seq(Disp!Events)
            /\ Disp!IsInjective(busHeard[h])
            /\ Disp!Range(busHeard[h]) = {d \in Disp!Events : phase[d] # "new"}
        BY <3>1, ToAllTyped, DispatchTypes DEF DispatchSafe, HeardOnBus
      <4>2. e \notin Disp!Range(busHeard[h])
        BY <3>1, <4>1
      <4>. DEFINE old == busHeard[h]
                  new == Append(busHeard[h], e)
      <4>0. old \in Seq(Disp!Events) /\ new \in Seq(Disp!Events) /\ Inserts(new, old, Len(old) + 1, e)
        BY <4>1, AppendInserts
      <4>. HIDE DEF new, old
      <4>3. Disp!IsInjective(new) /\ Disp!Range(new) = Disp!Range(old) \cup {e}
        BY <4>0, <4>1, <4>2, InsertsOnce DEF old
      <4>4. {d \in Disp!Events : phase[d] # "new"} \cup {e} = {d \in Disp!Events : phase'[d] # "new"}
        BY <1>1
      <4>5. QED
        BY <4>1, <4>3, <4>4 DEF new, old
    <3>4. QED
      BY <3>2, <3>3 DEF HeardOnBus
  <2>3. QED
    BY <2>1, <2>2
<1>3. PassedIsAccepted'
  BY <1>1 DEF DispatchSafe, PassedIsAccepted, Disp!AcceptedEvents
<1>4. Disp!TypeOK'
  BY <1>1, <1>2 DEF DispatchSafe, Disp!TypeOK
<1>5. AcceptedOnce' /\ Disp!NothingLost' /\ QueueIsQueued' /\ LineInOrder'
  BY <1>1, LinesStay
<1>6. SteadyStay' /\ OneDrain' /\ Disp!QueueHasDrainer' /\ Disp!StartedMeansRunning'
  BY <1>1 DEF DispatchSafe, SteadyStay, OneDrain, Disp!QueueHasDrainer, Disp!StartedMeansRunning
<1>7. QED
  BY <1>2, <1>3, <1>4, <1>5, <1>6 DEF DispatchSafe

(* What the dispatcher accepts is new to every line: at the end when it is *)
(* queued, between what was heard and the queue when it is not.            *)
LEMMA AcceptInserts ==
    ASSUME DispatchSafe, Disp!DispatchConstants, NEW e \in Disp!Events, Disp!Accept(e),
           UNCHANGED subs, NEW h \in Steady
    PROVE  /\ Line(h)' \in Seq(Disp!Events)
           /\ Inserts(Line(h)', Line(h),
                      IF running THEN Len(heard[h]) + 1 ELSE Len(heard[h]) + Len(queue) + 1, e)
<1>1. /\ heard[h] \in Seq(Disp!Events) /\ queue \in Seq(Disp!Events) /\ subs[h] = 1
      /\ heard \in [Disp!AllHandlers -> Seq(Disp!Events)] /\ subs \in [Disp!AllHandlers -> Nat]
      /\ h \in Disp!AllHandlers
  BY DispatchTypes
<1>2. CASE running
  <2>1. heard'[h] = Append(heard[h], e) /\ queue' = queue
    BY <1>1, <1>2, ToAllTyped DEF Disp!Accept
  <2>2. QED
    BY <1>1, <1>2, <2>1, DirectInserts DEF Line
<1>3. CASE ~running
  <2>1. heard' = heard /\ queue' = Append(queue, e)
    BY <1>3 DEF Disp!Accept
  <2>2. QED
    BY <1>1, <1>3, <2>1, QueuedInserts DEF Line
<1>4. QED
  BY <1>2, <1>3

(* The record of what was accepted grows by one event that is new to it.   *)
LEMMA AcceptGrows ==
    ASSUME DispatchSafe, Disp!DispatchConstants, NEW e \in Disp!Events, Disp!Accept(e),
           e \notin Disp!AcceptedEvents
    PROVE  /\ accepted' \in Seq([event : Disp!Events, queued : BOOLEAN])
           /\ Len(accepted) \in Nat /\ DOMAIN accepted = 1..Len(accepted)
           /\ DOMAIN accepted' = 1..(Len(accepted) + 1)
           /\ \A i \in DOMAIN accepted : accepted'[i] = accepted[i] /\ accepted[i].event # e
           /\ accepted'[Len(accepted) + 1] = [event |-> e, queued |-> ~running]
           /\ AcceptedOnce' /\ Disp!AcceptedEvents' = Disp!AcceptedEvents \cup {e}
<1>1. accepted \in Seq([event : Disp!Events, queued : BOOLEAN]) /\ running \in BOOLEAN
  BY DEF DispatchSafe, Disp!TypeOK
<1>. DEFINE new == [event |-> e, queued |-> ~running]
<1>2. accepted' = Append(accepted, new) /\ new \in [event : Disp!Events, queued : BOOLEAN]
      /\ new.event = e
  BY <1>1 DEF Disp!Accept
<1>. HIDE DEF new
<1>3. /\ accepted' \in Seq([event : Disp!Events, queued : BOOLEAN])
      /\ Len(accepted) \in Nat /\ DOMAIN accepted = 1..Len(accepted)
      /\ DOMAIN accepted' = 1..(Len(accepted) + 1)
      /\ \A i \in DOMAIN accepted : accepted'[i] = accepted[i]
      /\ accepted'[Len(accepted) + 1] = new
  BY <1>1, <1>2
<1>4. \A i \in DOMAIN accepted : accepted[i].event # e
  BY DEF Disp!AcceptedEvents
<1>5. AcceptedOnce'
  <2>1. SUFFICES ASSUME NEW i \in DOMAIN accepted', NEW j \in DOMAIN accepted',
                        accepted'[i].event = accepted'[j].event
                 PROVE  i = j
    BY DEF AcceptedOnce
  <2>2. /\ i \in DOMAIN accepted \/ i = Len(accepted) + 1
        /\ j \in DOMAIN accepted \/ j = Len(accepted) + 1
    BY <1>3
  <2>3. QED
    BY <1>2, <1>3, <1>4, <2>1, <2>2 DEF DispatchSafe, AcceptedOnce
<1>6. ASSUME NEW x
      PROVE  x \in Disp!AcceptedEvents' <=> x \in Disp!AcceptedEvents \cup {e}
  <2>1. ASSUME NEW i \in DOMAIN accepted', x = accepted'[i].event
        PROVE  x \in Disp!AcceptedEvents \cup {e}
    <3>1. i \in DOMAIN accepted \/ i = Len(accepted) + 1
      BY <1>3
    <3>2. QED
      BY <1>2, <1>3, <2>1, <3>1 DEF Disp!AcceptedEvents
  <2>2. ASSUME NEW i \in DOMAIN accepted, x = accepted[i].event
        PROVE  x \in Disp!AcceptedEvents'
    <3>1. i \in DOMAIN accepted' /\ accepted'[i] = accepted[i]
      BY <1>3
    <3>2. QED
      BY <2>2, <3>1 DEF Disp!AcceptedEvents
  <2>3. e \in Disp!AcceptedEvents'
    <3>1. Len(accepted) + 1 \in DOMAIN accepted'
      BY <1>3
    <3>2. QED
      BY <1>2, <1>3, <3>1 DEF Disp!AcceptedEvents
  <2>4. QED
    BY <2>1, <2>2, <2>3 DEF Disp!AcceptedEvents
<1>7. QED
  BY <1>3, <1>4, <1>5, <1>6 DEF new

LEMMA PassesKeepsLines ==
    ASSUME DispatchSafe, Disp!DispatchConstants, NEW e \in Disp!Events, Disp!PublishPasses(e)
    PROVE  Disp!NothingLost' /\ QueueIsQueued' /\ LineInOrder'
<1>1. /\ phase[e] = "bus" /\ Disp!Accept(e) /\ UNCHANGED subs
      /\ e \notin Disp!AcceptedEvents
  BY DEF Disp!PublishPasses, DispatchSafe, PassedIsAccepted
<1>. DEFINE last == Len(accepted) + 1
<1>2. /\ Len(accepted) \in Nat /\ DOMAIN accepted = 1..Len(accepted)
      /\ DOMAIN accepted' = 1..last
      /\ \A i \in DOMAIN accepted : accepted'[i] = accepted[i] /\ accepted[i].event # e
      /\ accepted'[last] = [event |-> e, queued |-> ~running]
      /\ Disp!AcceptedEvents' = Disp!AcceptedEvents \cup {e}
  BY <1>1, AcceptGrows
<1>3. queue \in Seq(Disp!Events)
  BY DispatchTypes
<1>4. Disp!NothingLost'
  <2>1. ASSUME NEW h \in Steady
        PROVE  Disp!IsInjective(Line(h)') /\ Disp!Range(Line(h)') = Disp!AcceptedEvents \cup {e}
    <3>. DEFINE n == IF running THEN Len(heard[h]) + 1 ELSE Len(heard[h]) + Len(queue) + 1
    <3>1. /\ Line(h)' \in Seq(Disp!Events) /\ Inserts(Line(h)', Line(h), n, e)
          /\ Line(h) \in Seq(Disp!Events)
      BY <1>1, AcceptInserts, DispatchTypes
    <3>2. Disp!IsInjective(Line(h)) /\ Disp!Range(Line(h)) = Disp!AcceptedEvents
      BY DEF DispatchSafe, Disp!NothingLost, Line
    <3>. HIDE DEF n
    <3>3. QED
      BY <1>1, <3>1, <3>2, InsertsOnce
  <2>2. QED
    BY <1>2, <2>1 DEF Disp!NothingLost, Line
<1>5. QueueIsQueued'
  <2>1. ASSUME NEW k \in DOMAIN queue
        PROVE  \E i \in DOMAIN accepted' : accepted'[i].event = queue[k] /\ accepted'[i].queued
    <3>1. PICK i \in DOMAIN accepted : accepted[i].event = queue[k] /\ accepted[i].queued
      BY DEF DispatchSafe, QueueIsQueued
    <3>2. i \in DOMAIN accepted' /\ accepted'[i] = accepted[i]
      BY <1>2
    <3>3. QED
      BY <3>1, <3>2
  <2>2. CASE running
    BY <1>1, <2>1, <2>2 DEF Disp!Accept, QueueIsQueued
  <2>3. CASE ~running
    <3>1. queue' = Append(queue, e)
      BY <1>1, <2>3 DEF Disp!Accept
    <3>2. ASSUME NEW k \in DOMAIN queue'
          PROVE  (k \in DOMAIN queue /\ queue'[k] = queue[k]) \/ queue'[k] = e
      BY <1>3, <3>1
    <3>3. last \in DOMAIN accepted' /\ accepted'[last].event = e /\ accepted'[last].queued
      <4>1. last \in 1..last
        BY <1>2
      <4>2. accepted'[last].event = e /\ accepted'[last].queued = ~running
        BY <1>2
      <4>3. QED
        BY <1>2, <2>3, <4>1, <4>2
    <3>. HIDE DEF last
    <3>4. ASSUME NEW k \in DOMAIN queue'
          PROVE  \E i \in DOMAIN accepted' : accepted'[i].event = queue'[k] /\ accepted'[i].queued
      <4>1. CASE queue'[k] = e
        BY <3>3, <4>1
      <4>2. CASE k \in DOMAIN queue /\ queue'[k] = queue[k]
        BY <2>1, <4>2
      <4>3. QED
        BY <3>2, <4>1, <4>2
    <3>5. QED
      BY <3>4 DEF QueueIsQueued
  <2>4. QED
    BY <2>2, <2>3
<1>6. LineInOrder'
  <2>1. SUFFICES ASSUME NEW h \in Steady, NEW i \in DOMAIN accepted', NEW j \in DOMAIN accepted',
                        NEW k \in DOMAIN Line(h)', NEW l \in DOMAIN Line(h)',
                        i < j, ~accepted'[i].queued \/ accepted'[j].queued,
                        Line(h)'[k] = accepted'[i].event, Line(h)'[l] = accepted'[j].event
                 PROVE  k < l
    BY DEF LineInOrder
  <2>. DEFINE n == IF running THEN Len(heard[h]) + 1 ELSE Len(heard[h]) + Len(queue) + 1
  <2>2. /\ Line(h)' \in Seq(Disp!Events) /\ Inserts(Line(h)', Line(h), n, e)
        /\ Line(h) \in Seq(Disp!Events) /\ heard[h] \in Seq(Disp!Events)
    BY <1>1, AcceptInserts, DispatchTypes
  <2>3. n \in Nat /\ Line(h)'[n] = e /\ Len(heard[h]) \in Nat /\ Len(queue) \in Nat
        /\ DOMAIN Line(h) = 1..(Len(heard[h]) + Len(queue))
    BY <1>3, <2>2 DEF Inserts, Line
  <2>4. i \in DOMAIN accepted /\ accepted'[i] = accepted[i] /\ accepted[i].event # e
    BY <1>2, <2>1
  <2>5. PICK k0 \in DOMAIN Line(h) : k = Shift(k0, n) /\ Line(h)'[k] = Line(h)[k0]
    <3>. HIDE DEF n
    <3>1. k # n
      BY <2>1, <2>3, <2>4
    <3>2. QED
      BY <2>2, <3>1, InsertsFrom
  <2>6. k0 \in Nat /\ Line(h)[k0] = accepted[i].event
    BY <2>1, <2>3, <2>4, <2>5
  <2>7. CASE j \in DOMAIN accepted
    <3>. HIDE DEF n
    <3>1. accepted'[j] = accepted[j] /\ accepted[j].event # e
      BY <1>2, <2>7
    <3>2. PICK l0 \in DOMAIN Line(h) : l = Shift(l0, n) /\ Line(h)'[l] = Line(h)[l0]
      <4>1. l # n
        BY <2>1, <2>3, <3>1
      <4>2. QED
        BY <2>2, <4>1, InsertsFrom
    <3>3. k0 < l0
      BY <2>1, <2>4, <2>6, <2>7, <3>1, <3>2 DEF DispatchSafe, LineInOrder
    <3>4. l0 \in Nat
      BY <2>3
    <3>5. QED
      BY <2>3, <2>5, <2>6, <3>2, <3>3, <3>4, ShiftInOrder
  <2>8. CASE j \notin DOMAIN accepted
    <3>1. j = last /\ accepted'[j] = [event |-> e, queued |-> ~running]
      BY <1>2, <2>8
    <3>2. Disp!IsInjective(Line(h)')
      BY <1>4 DEF Disp!NothingLost, Line
    <3>3. n \in DOMAIN Line(h)'
      BY <2>2 DEF Inserts
    <3>4. l = n
      BY <2>1, <2>3, <3>1, <3>2, <3>3 DEF Disp!IsInjective
    <3>5. k0 < n
      <4>1. CASE ~running
        BY <2>3, <4>1
      <4>2. CASE running
        <5>1. ~accepted[i].queued
          <6>1. accepted'[j].queued = ~running
            BY <3>1
          <6>2. ~accepted'[j].queued
            BY <4>2, <6>1
          <6>3. ~accepted'[i].queued
            BY <2>1, <6>2
          <6>4. QED
            BY <2>4, <6>3
        <5>2. ASSUME k0 > Len(heard[h]) PROVE FALSE
          <6>1. k0 - Len(heard[h]) \in DOMAIN queue /\ Line(h)[k0] = queue[k0 - Len(heard[h])]
            BY <1>3, <2>2, <2>3, <5>2 DEF Line
          <6>2. PICK q \in DOMAIN accepted : accepted[q].event = accepted[i].event /\ accepted[q].queued
            BY <2>6, <6>1 DEF DispatchSafe, QueueIsQueued
          <6>3. q = i
            BY <2>4, <6>2 DEF DispatchSafe, AcceptedOnce
          <6>4. QED
            BY <5>1, <6>2, <6>3
        <5>3. QED
          BY <2>3, <2>6, <4>2, <5>2
      <4>3. QED
        BY <4>1, <4>2
    <3>6. QED
      BY <2>3, <2>5, <2>6, <3>4, <3>5 DEF Shift
  <2>9. QED
    BY <2>7, <2>8
<1>7. QED
  BY <1>4, <1>5, <1>6

LEMMA PassesKeeps ==
    ASSUME DispatchSafe, Disp!DispatchConstants, NEW e \in Disp!Events, Disp!PublishPasses(e)
    PROVE  DispatchSafe'
<1>1. /\ phase[e] = "bus" /\ Disp!Accept(e)
      /\ phase' = [phase EXCEPT ![e] = "passed"]
      /\ phase \in [Disp!Events -> {"new", "bus", "failed", "passed"}]
      /\ UNCHANGED <<subs, moves, started, running, draining, overlapped, busHeard>>
      /\ e \notin Disp!AcceptedEvents
  BY DEF Disp!PublishPasses, DispatchSafe, PassedIsAccepted, Disp!TypeOK
<1>2. Disp!NothingLost' /\ QueueIsQueued' /\ LineInOrder'
  BY PassesKeepsLines
<1>3. /\ accepted' \in Seq([event : Disp!Events, queued : BOOLEAN])
      /\ AcceptedOnce' /\ Disp!AcceptedEvents' = Disp!AcceptedEvents \cup {e}
  BY <1>1, AcceptGrows
<1>4. /\ phase' \in [Disp!Events -> {"new", "bus", "failed", "passed"}]
      /\ PassedIsAccepted'
  BY <1>1, <1>3 DEF DispatchSafe, PassedIsAccepted
<1>5. HeardOnBus'
  <2>1. {d \in Disp!Events : phase[d] # "new"} = {d \in Disp!Events : phase'[d] # "new"}
    BY <1>1
  <2>2. QED
    BY <1>1, <2>1 DEF DispatchSafe, HeardOnBus
<1>6. /\ queue' \in Seq(Disp!Events) /\ heard' \in [Disp!AllHandlers -> Seq(Disp!Events)]
      /\ running => queue' = queue
  <2>1. queue \in Seq(Disp!Events) /\ heard \in [Disp!AllHandlers -> Seq(Disp!Events)]
        /\ subs \in [Disp!AllHandlers -> Nat]
    BY DispatchTypes
  <2>2. Disp!ToAll(heard, e) \in [Disp!AllHandlers -> Seq(Disp!Events)]
    BY <2>1, ToAllTyped
  <2>3. QED
    BY <1>1, <2>1, <2>2 DEF Disp!Accept
<1>7. SteadyStay' /\ OneDrain' /\ Disp!QueueHasDrainer' /\ Disp!StartedMeansRunning'
  BY <1>1, <1>6 DEF DispatchSafe, SteadyStay, OneDrain, Disp!QueueHasDrainer, Disp!StartedMeansRunning
<1>8. Disp!TypeOK'
  BY <1>1, <1>3, <1>4, <1>6 DEF DispatchSafe, Disp!TypeOK
<1>9. QED
  BY <1>2, <1>3, <1>4, <1>5, <1>7, <1>8 DEF DispatchSafe

(* A queued event that is taken moves up in the line of a steady handler,   *)
(* from the queue to what it has heard.                                     *)
LEMMA TakingKeepsLines ==
    ASSUME DispatchSafe, Disp!DispatchConstants, queue # <<>>,
           heard' = Disp!ToAll(heard, Head(queue)), queue' = Tail(queue),
           UNCHANGED <<subs, accepted>>
    PROVE  /\ AcceptedOnce' /\ Disp!NothingLost' /\ QueueIsQueued' /\ LineInOrder'
           /\ Disp!AcceptedEvents' = Disp!AcceptedEvents
           /\ queue' \in Seq(Disp!Events) /\ heard' \in [Disp!AllHandlers -> Seq(Disp!Events)]
<1>1. /\ queue \in Seq(Disp!Events) /\ Head(queue) \in Disp!Events
      /\ queue' \in Seq(Disp!Events)
      /\ \A k \in DOMAIN queue' : k + 1 \in DOMAIN queue /\ queue'[k] = queue[k + 1]
  BY DispatchTypes
<1>2. heard' \in [Disp!AllHandlers -> Seq(Disp!Events)]
  BY <1>1, ToAllTyped, DispatchTypes
<1>3. ASSUME NEW h \in Steady PROVE Line(h)' = Line(h)
  <2>1. heard[h] \in Seq(Disp!Events) /\ heard'[h] = Append(heard[h], Head(queue))
    BY <1>1, ToAllTyped, DispatchTypes
  <2>2. QED
    BY <1>1, <2>1, LineStays DEF Line
<1>4. Disp!AcceptedEvents' = Disp!AcceptedEvents
  BY DEF Disp!AcceptedEvents
<1>5. Disp!NothingLost'
  BY <1>3, <1>4 DEF DispatchSafe, Disp!NothingLost, Line
<1>6. LineInOrder'
  BY <1>3 DEF DispatchSafe, LineInOrder
<1>7. QueueIsQueued'
  BY <1>1 DEF DispatchSafe, QueueIsQueued
<1>8. AcceptedOnce'
  BY DEF DispatchSafe, AcceptedOnce
<1>9. QED
  BY <1>1, <1>2, <1>4, <1>5, <1>6, <1>7, <1>8

LEMMA StartKeeps ==
    ASSUME DispatchSafe, Disp!DispatchConstants,
           Disp!Start \/ Disp!DrainNext \/ Disp!DrainEnd \/ Disp!Stop
    PROVE  DispatchSafe'
<1>1. /\ UNCHANGED <<subs, moves, phase, accepted, busHeard>>
      /\ started \in BOOLEAN /\ running \in BOOLEAN /\ overlapped \in BOOLEAN /\ draining \in Nat
      /\ queue \in Seq(Disp!Events)
  BY DEF Disp!Start, Disp!DrainNext, Disp!DrainEnd, Disp!Stop, DispatchSafe, Disp!TypeOK
<1>2. /\ AcceptedOnce' /\ Disp!NothingLost' /\ QueueIsQueued' /\ LineInOrder'
      /\ Disp!AcceptedEvents' = Disp!AcceptedEvents
      /\ queue' \in Seq(Disp!Events) /\ heard' \in [Disp!AllHandlers -> Seq(Disp!Events)]
  <2>1. CASE UNCHANGED <<queue, heard>>
    BY <1>1, <2>1, LinesStay, DispatchTypes
  <2>2. CASE /\ queue # <<>> /\ heard' = Disp!ToAll(heard, Head(queue))
             /\ queue' = Tail(queue)
    BY <1>1, <2>2, TakingKeepsLines
  <2>3. QED
    BY <2>1, <2>2 DEF Disp!Start, Disp!DrainNext, Disp!DrainEnd, Disp!Stop
<1>3. /\ started' \in BOOLEAN /\ running' \in BOOLEAN /\ overlapped' \in BOOLEAN
      /\ draining' \in Nat
      /\ OneDrain' /\ Disp!QueueHasDrainer' /\ Disp!StartedMeansRunning'
  <2>. USE <1>1 DEF DispatchSafe, OneDrain, Disp!QueueHasDrainer, Disp!StartedMeansRunning
  <2>1. CASE Disp!Start
    <3>1. ~started /\ overlapped' = (overlapped \/ draining > 0) /\ running' = TRUE
      BY <2>1 DEF Disp!Start
    <3>2. CASE running \/ queue = <<>>
      <4>1. started' = TRUE /\ UNCHANGED <<queue, draining>>
        BY <2>1, <3>2 DEF Disp!Start
      <4>2. ~overlapped' => draining' = 0
        BY <3>1, <4>1
      <4>3. Disp!QueueHasDrainer'
        BY <3>2, <4>1
      <4>4. QED
        BY <3>1, <4>1, <4>2, <4>3
    <3>3. CASE ~(running \/ queue = <<>>)
      <4>1. started' = started /\ draining' = draining + 1
        BY <2>1, <3>3 DEF Disp!Start
      <4>2. ~overlapped' => draining' = 1
        BY <3>1, <4>1
      <4>3. QED
        BY <3>1, <4>1, <4>2
    <3>4. QED
      BY <3>2, <3>3
  <2>2. CASE Disp!DrainNext
    BY <2>2 DEF Disp!DrainNext
  <2>3. CASE Disp!DrainEnd
    BY <2>3 DEF Disp!DrainEnd
  <2>4. CASE Disp!Stop
    BY <2>4 DEF Disp!Stop
  <2>5. QED
    BY <2>1, <2>2, <2>3, <2>4
<1>4. PassedIsAccepted' /\ HeardOnBus' /\ SteadyStay'
  BY <1>1, <1>2 DEF DispatchSafe, PassedIsAccepted, HeardOnBus, SteadyStay
<1>5. Disp!TypeOK'
  BY <1>1, <1>2, <1>3 DEF DispatchSafe, Disp!TypeOK
<1>6. QED
  BY <1>2, <1>3, <1>4, <1>5 DEF DispatchSafe

LEMMA DispatchKeeps ==
    ASSUME EventConstants, DispatchSafe, DispatcherStep \/ UNCHANGED dispVars
    PROVE  DispatchSafe'
<1>1. ASSUME DispatcherStep PROVE DispatchSafe'
  <2>1. Disp!DispatchConstants /\ Disp!Next
    BY <1>1 DEF DispatcherStep, EventConstants
  <2>2. QED
    BY <2>1, MoversKeep, PublishKeeps, PassesKeeps, StartKeeps DEF Disp!Next, Disp!HandlersDone
<1>2. ASSUME UNCHANGED dispVars PROVE DispatchSafe'
  <2>1. UNCHANGED <<subs, moves, phase, accepted, started, running, queue, draining, overlapped,
                    busHeard, heard>>
    BY <1>2 DEF dispVars
  <2>2. AcceptedOnce' /\ Disp!NothingLost' /\ QueueIsQueued' /\ LineInOrder'
        /\ Disp!AcceptedEvents' = Disp!AcceptedEvents
    BY <2>1, LinesStay
  <2>3. Disp!TypeOK' /\ SteadyStay' /\ OneDrain' /\ Disp!QueueHasDrainer' /\ Disp!StartedMeansRunning'
    BY <2>1 DEF DispatchSafe, Disp!TypeOK, SteadyStay, OneDrain, Disp!QueueHasDrainer,
                Disp!StartedMeansRunning
  <2>4. PassedIsAccepted' /\ HeardOnBus'
    BY <2>1, <2>2 DEF DispatchSafe, PassedIsAccepted, HeardOnBus
  <2>5. QED
    BY <2>2, <2>3, <2>4 DEF DispatchSafe
<1>3. QED
  BY <1>1, <1>2

LEMMA DispatchImplies ==
    ASSUME DispatchSafe, Disp!DispatchConstants
    PROVE  Disp!OnlyDrainOvertakes /\ Disp!DispatcherSeesWhatBusPassed
<1>1. Disp!OnlyDrainOvertakes
  <2>1. SUFFICES ASSUME NEW h \in Steady, NEW i \in DOMAIN accepted, NEW j \in DOMAIN accepted, i < j,
                        NEW k \in DOMAIN heard[h], heard[h][k] = accepted[j].event,
                        \A l \in 1..k : heard[h][l] # accepted[i].event,
                        ~accepted[i].queued \/ accepted[j].queued
                 PROVE  FALSE
    BY DEF Disp!OnlyDrainOvertakes
  <2>2. /\ heard[h] \in Seq(Disp!Events) /\ queue \in Seq(Disp!Events)
        /\ Disp!Range(Line(h)) = Disp!AcceptedEvents
    BY DispatchTypes DEF DispatchSafe, Disp!NothingLost, Line
  <2>3. k \in 1..Len(heard[h]) /\ Len(heard[h]) \in Nat /\ k \in DOMAIN Line(h)
        /\ Line(h)[k] = heard[h][k]
    BY <2>2 DEF Line
  <2>4. accepted[i].event \in Disp!Range(Line(h))
    BY <2>2 DEF Disp!AcceptedEvents
  <2>5. PICK l \in DOMAIN Line(h) : Line(h)[l] = accepted[i].event
    BY <2>4 DEF Disp!Range
  <2>6. l < k
    BY <2>1, <2>3, <2>5 DEF DispatchSafe, LineInOrder
  <2>7. l \in 1..k /\ Line(h)[l] = heard[h][l]
    BY <2>2, <2>3, <2>5, <2>6 DEF Line
  <2>8. QED
    BY <2>1, <2>5, <2>7
<1>2. Disp!DispatcherSeesWhatBusPassed
  <2>1. SUFFICES ASSUME NEW e \in Disp!AcceptedEvents
                 PROVE  /\ phase[e] = "passed"
                        /\ \A h \in Steady :
                               \E k \in DOMAIN busHeard[h] :
                                   \A l \in DOMAIN busHeard[h] : busHeard[h][l] = e <=> l = k
    BY DEF Disp!DispatcherSeesWhatBusPassed
  <2>2. e \in Disp!Events /\ phase[e] = "passed"
    BY DispatchTypes DEF DispatchSafe, PassedIsAccepted
  <2>3. ASSUME NEW h \in Steady
        PROVE  \E k \in DOMAIN busHeard[h] : \A l \in DOMAIN busHeard[h] : busHeard[h][l] = e <=> l = k
    <3>1. Disp!IsInjective(busHeard[h]) /\ e \in Disp!Range(busHeard[h])
      BY <2>2 DEF DispatchSafe, HeardOnBus
    <3>2. PICK k \in DOMAIN busHeard[h] : busHeard[h][k] = e
      BY <3>1 DEF Disp!Range
    <3>3. \A l \in DOMAIN busHeard[h] : busHeard[h][l] = e <=> l = k
      BY <3>1, <3>2 DEF Disp!IsInjective
    <3>4. QED
      BY <3>3
  <2>4. QED
    BY <2>2, <2>3
<1>3. QED
  BY <1>1, <1>2

-----------------------------------------------------------------------------
(***************************************************************************)
(* The platform: each part keeps its own invariant, and the others' steps  *)
(* leave it alone.                                                         *)
(***************************************************************************)

PlatformSafe ==
    DispatchSafe /\ RouterSafe /\ SubscriptionsSafe /\ AdaptersSafe /\ PluginsSafe

LEMMA DispatchStarts ==
    ASSUME EventConstants, Init
    PROVE  DispatchSafe
<1>1. Disp!DispatchConstants /\ Disp!Init
  BY DEF EventConstants, Init
<1>2. /\ subs = [h \in Disp!AllHandlers |-> IF h \in Steady THEN 1 ELSE 0] /\ moves = 0
      /\ phase = [e \in Disp!Events |-> "new"] /\ accepted = <<>> /\ queue = <<>>
      /\ started = FALSE /\ running = FALSE /\ draining = 0 /\ overlapped = FALSE
      /\ busHeard = [h \in Disp!AllHandlers |-> <<>>]
      /\ heard = [h \in Disp!AllHandlers |-> <<>>]
      /\ MaxMoves \in Nat /\ Steady \cap Movers = {} /\ Disp!AllHandlers = Steady \cup Movers
  BY <1>1 DEF Disp!Init, Disp!DispatchConstants, Disp!AllHandlers
<1>3. Disp!AcceptedEvents = {}
  BY <1>2 DEF Disp!AcceptedEvents
<1>4. Disp!TypeOK /\ SteadyStay
  <2>1. subs \in [Disp!AllHandlers -> 0..(MaxMoves + 1)] /\ SteadyStay
    BY <1>2 DEF SteadyStay
  <2>2. \A S : <<>> \in Seq(S)
    OBVIOUS
  <2>3. /\ busHeard \in [Disp!AllHandlers -> Seq(Disp!Events)]
        /\ heard \in [Disp!AllHandlers -> Seq(Disp!Events)]
    BY <1>2, <2>2
  <2>4. /\ accepted \in Seq([event : Disp!Events, queued : BOOLEAN])
        /\ queue \in Seq(Disp!Events)
    BY <1>2, <2>2
  <2>5. phase \in [Disp!Events -> {"new", "bus", "failed", "passed"}]
    BY <1>2
  <2>6. moves \in 0..MaxMoves /\ draining \in Nat
    <3>1. moves = 0 /\ draining = 0 /\ MaxMoves \in Nat
      BY <1>2
    <3>2. QED
      BY <3>1
  <2>7. started \in BOOLEAN /\ running \in BOOLEAN /\ overlapped \in BOOLEAN
    <3>1. started = FALSE /\ running = FALSE /\ overlapped = FALSE
      BY <1>2
    <3>2. QED
      BY <3>1
  <2>8. QED
    BY <2>1, <2>3, <2>4, <2>5, <2>6, <2>7 DEF Disp!TypeOK
<1>5. AcceptedOnce /\ PassedIsAccepted /\ HeardOnBus
  BY <1>2, <1>3 DEF AcceptedOnce, PassedIsAccepted, HeardOnBus, Disp!IsInjective, Disp!Range
<1>6. \A h \in Steady : heard[h] \o queue = <<>>
  BY <1>2
<1>7. Disp!NothingLost /\ QueueIsQueued /\ LineInOrder
  BY <1>2, <1>3, <1>6 DEF Disp!NothingLost, QueueIsQueued, LineInOrder, Line,
                           Disp!IsInjective, Disp!Range
<1>8. OneDrain /\ Disp!QueueHasDrainer /\ Disp!StartedMeansRunning
  BY <1>2 DEF OneDrain, Disp!QueueHasDrainer, Disp!StartedMeansRunning
<1>9. QED
  BY <1>4, <1>5, <1>7, <1>8 DEF DispatchSafe

LEMMA PlatformStarts ==
    ASSUME EventConstants, Init
    PROVE  PlatformSafe
<1>1. RouterSafe
  <2>1. /\ rRegistry = {} /\ rBySymbol = [s \in Symbols |-> {}] /\ rGlobal = {} /\ rMoves = 0
        /\ rRunning = FALSE /\ rQueue = <<>> /\ rDraining = 0 /\ rInFlight = 0
        /\ rProcessed = 0 /\ rRouted = 0 /\ rDropped = 0
        /\ rCalls = [h \in Handlers |-> [s \in Symbols |-> 0]]
        /\ QueueSize \in Nat /\ MaxMoves \in Nat
    BY DEF Init, EventConstants, Router!Init, Router!RouterConstants
  <2>2. rQueue \in Seq(Symbols) /\ Len(rQueue) = 0
    BY <2>1
  <2>3. rCalls \in [Handlers -> [Symbols -> Nat]] /\ rBySymbol \in [Symbols -> SUBSET Handlers]
    BY <2>1
  <2>4. rMoves \in 0..MaxMoves /\ Len(rQueue) <= QueueSize
    BY <2>1, <2>2
  <2>5. Router!TypeOK
    BY <2>1, <2>2, <2>3, <2>4 DEF Router!TypeOK
  <2>6. QED
    BY <2>1, <2>2, <2>5 DEF RouterSafe, Router!EveryEventAccounted, HandledIsRegistered
<1>2. SubscriptionsSafe
  <2>1. /\ recorded = {} /\ stream = {} /\ venue = {} /\ unsent = {} /\ lock = None /\ calls = 0
        /\ job = [t \in Tasks |-> Subs!Idle] /\ None \notin Tasks /\ MaxCalls \in Nat
    BY DEF Init, EventConstants, Subs!Init, Subs!SubscriptionConstants
  <2>2. Subs!Idle \in Subs!Job /\ Subs!Idle.at = "idle"
    BY DEF Subs!Idle, Subs!Job
  <2>3. QED
    BY <2>1, <2>2 DEF SubscriptionsSafe, Subs!TypeOK, HolderIsInCall, AskedIsOnList, ListsAgree,
           AgreeOn, InCall, Asking
<1>3. AdaptersSafe
  <2>1. /\ kind \in Adapters!Kinds /\ connected = FALSE /\ place = "idle" /\ outcome = "none"
        /\ deal = [status |-> "none", filled |-> 0] /\ booked = 0 /\ raised = FALSE
        /\ told = [status |-> "none", filled |-> 0, forced |-> FALSE]
        /\ seen = [told |-> 0, was |-> 0] /\ Qty \in Nat \ {0}
    BY DEF Init, EventConstants, Adapters!AdapterInit, Adapters!AdapterConstants
  <2>2. FilledIsAll /\ told \in Answer
    BY <2>1 DEF FilledIsAll, VenueOrder, Answer
  <2>3. Adapters!AdapterTypeOK
    <3>1. deal.status = "none" /\ deal.filled = 0 /\ 0 \in 0..Qty
      BY <2>1
    <3>2. QED
      BY <2>1, <3>1 DEF Adapters!AdapterTypeOK
  <2>4. Adapters!AnswersMatchVenue
    BY <2>1 DEF Adapters!AnswersMatchVenue
  <2>5. QED
    BY <2>1, <2>2, <2>3, <2>4 DEF AdaptersSafe, ReadsAgain, OutcomeIsLast, EndedIsExplained
<1>4. PluginsSafe
  <2>1. /\ naming \in [1..Files -> Plugin] /\ listed = <<>> /\ doing = "nothing" /\ at = 0 /\ stage = 0
        /\ registered = [r \in 1..Registries |-> [k \in 1..Files |-> 0]]
        /\ lifecycle = [f \in 1..Files |-> "none"] /\ pluginCalls = 0
        /\ Files \in Nat \ {0} /\ Registries \in Nat \ {0} /\ MaxPluginCalls \in Nat
    BY DEF Init, EventConstants, Plugs!PluginInit, Plugs!PluginConstants, Plugs!Names, Plugin
  <2>2. Plugs!PluginTypeOK
    BY <2>1 DEF Plugs!PluginTypeOK, Plugs!Names, Plugs!PluginMethods
  <2>3. QED
    BY <2>1, <2>2 DEF PluginsSafe, ListedInOrder, CallIsPlaced, LoadIsWhole, ListedHold
<1>5. QED
  BY <1>1, <1>2, <1>3, <1>4, DispatchStarts DEF PlatformSafe

LEMMA PlatformKeeps ==
    ASSUME EventConstants, PlatformSafe, [Next]_vars
    PROVE  PlatformSafe'
<1>1. /\ DispatcherStep \/ UNCHANGED dispVars
      /\ RouterStep \/ UNCHANGED routerVars
      /\ SubscriptionStep \/ UNCHANGED subsVars
      /\ AdapterStep \/ UNCHANGED adapterVars
      /\ PluginStep \/ UNCHANGED pluginVars
  BY DEF Next, vars, DispatcherStep, RouterStep, SubscriptionStep, AdapterStep, PluginStep
<1>2. QED
  BY <1>1, DispatchKeeps, RouterKeeps, SubscriptionsKeep, AdaptersKeep, PluginsKeep
     DEF PlatformSafe

(* The inductive invariants of the five parts hold in every behaviour.     *)
THEOREM PlatformInvariant == Spec => []PlatformSafe
<1>1. Init => PlatformSafe
  BY PlatformStarts, EventConstants
<1>2. PlatformSafe /\ [Next]_vars => PlatformSafe'
  BY PlatformKeeps, EventConstants
<1>3. QED
  BY <1>1, <1>2, PTL DEF Spec

(* Every variable of the plumbing keeps its type.                          *)
THEOREM PlatformTyped == Spec => []TypeOK
<1>1. PlatformSafe => TypeOK
  BY DEF PlatformSafe, TypeOK, DispatchSafe, RouterSafe, SubscriptionsSafe, AdaptersSafe, PluginsSafe
<1>2. QED
  BY <1>1, PlatformInvariant, PTL

(* However publishers, start() and stop() interleave, an event the         *)
(* dispatcher has got is queued or was heard once by every steady handler, *)
(* only an event that comes during a drain overtakes, and the queue has    *)
(* someone to take it (EventDispatcher, EventSystemBridge).                *)
THEOREM EventsReach == Spec => []EventsReachHandlers
<1>1. PlatformSafe => EventsReachHandlers
  BY EventConstants, DispatchImplies DEF EventConstants, PlatformSafe, EventsReachHandlers, DispatchSafe
<1>2. QED
  BY <1>1, PlatformInvariant, PTL

(* The router accounts for every event it was given, the subscription      *)
(* lists agree but where a call is busy or a message was not sent, and a   *)
(* listed plugin holds all it registered (MarketRouter,                    *)
(* SubscriptionManager, PluginManager).                                    *)
THEOREM AccountsKept == Spec => []AccountsAgree
<1>1. PlatformSafe => AccountsAgree
  BY EventConstants, SubscriptionsImply, PluginsImply
     DEF EventConstants, PlatformSafe, AccountsAgree, RouterSafe
<1>2. QED
  BY <1>1, PlatformInvariant, PTL

(* What is booked was filled at the venue, and what is not although it was *)
(* filled has one of the known causes, whatever order size, adapter and    *)
(* moment of a failing request (the broker adapters).                      *)
THEOREM AnswersMatch == Spec => []AnswersMatchVenue
<1>1. PlatformSafe => AnswersMatchVenue
  BY DEF PlatformSafe, AdaptersSafe, AnswersMatchVenue
<1>2. QED
  BY <1>1, PlatformInvariant, PTL

(* A full queue of the router drops the newest event and nothing else.     *)
THEOREM DropsNewest == Spec => Router!DropsOnlyNewest
<1>1. PlatformSafe /\ [Next]_vars =>
          [rRouted' # rRouted /\ rInFlight' = rInFlight =>
               \/ rDropped' = rDropped /\ \E s \in Symbols : rQueue' = Append(rQueue, s)
               \/ rDropped' = rDropped + 1 /\ rQueue' = rQueue /\ Len(rQueue) = QueueSize]_(Router!vars)
  <2>1. SUFFICES ASSUME PlatformSafe, RouterStep, rRouted' # rRouted, rInFlight' = rInFlight
                 PROVE  \/ rDropped' = rDropped /\ \E s \in Symbols : rQueue' = Append(rQueue, s)
                        \/ rDropped' = rDropped + 1 /\ rQueue' = rQueue /\ Len(rQueue) = QueueSize
    BY DEF Next, vars, DispatcherStep, SubscriptionStep, AdapterStep, PluginStep, routerVars,
           Router!vars, Router!tables, Router!flow
  <2>2. /\ rQueue \in Seq(Symbols) /\ Len(rQueue) <= QueueSize /\ Len(rQueue) \in Nat
        /\ rInFlight \in Nat /\ QueueSize \in Nat
    <3>1. QueueSize \in Nat
      BY EventConstants DEF EventConstants, Router!RouterConstants
    <3>2. QED
      BY <2>1, <3>1 DEF PlatformSafe, RouterSafe, Router!TypeOK
  <2>3. PICK s \in Symbols : Router!Route(s)
    BY <2>1 DEF RouterStep, Router!Next, Router!RegisterSymbol, Router!UnregisterSymbol,
           Router!Subscribe, Router!Unsubscribe, Router!SubscribeGlobal, Router!UnsubscribeGlobal,
           Router!Move, Router!flow, Router!Dispatched, Router!Start, Router!DrainNext, Router!Stop
  <2>4. ~rRunning
    BY <2>1, <2>2, <2>3 DEF Router!Route, Router!Dispatch
  <2>5. QED
    BY <2>2, <2>3, <2>4 DEF Router!Route
<1>2. QED
  BY <1>1, PlatformInvariant, PTL DEF Spec, Router!DropsOnlyNewest

(* Once a symbol is unregistered its events reach the global handlers only.*)
THEOREM UnregisteredIsSilent == Spec => Router!UnregisteredSymbolIsSilent
<1>1. PlatformSafe /\ [Next]_vars =>
          [\A h \in Handlers, s \in Symbols :
              rCalls'[h][s] # rCalls[h][s] => s \in rRegistry \/ h \in rGlobal]_(Router!vars)
  <2>1. SUFFICES ASSUME PlatformSafe, RouterStep, NEW h \in Handlers, NEW s \in Symbols,
                        rCalls'[h][s] # rCalls[h][s]
                 PROVE  s \in rRegistry \/ h \in rGlobal
    BY DEF Next, vars, DispatcherStep, SubscriptionStep, AdapterStep, PluginStep, routerVars,
           Router!vars, Router!tables, Router!flow
  <2>2. /\ rCalls \in [Handlers -> [Symbols -> Nat]]
        /\ rBySymbol[s] # {} => s \in rRegistry
    BY <2>1 DEF PlatformSafe, RouterSafe, Router!TypeOK, HandledIsRegistered
  <2>3. PICK d : rCalls' = [g \in Handlers |->
                               [rCalls[g] EXCEPT ![d] = @ + Router!TimesCalled(g, d)]]
    BY <2>1 DEF RouterStep, Router!Next, Router!RegisterSymbol, Router!UnregisterSymbol,
           Router!Subscribe, Router!Unsubscribe, Router!SubscribeGlobal, Router!UnsubscribeGlobal,
           Router!Move, Router!flow, Router!Dispatched, Router!Start, Router!DrainNext, Router!Stop,
           Router!Route, Router!Dispatch
  <2>4. rCalls[h] \in [Symbols -> Nat]
        /\ rCalls'[h] = [rCalls[h] EXCEPT ![d] = @ + Router!TimesCalled(h, d)]
    BY <2>2, <2>3
  <2>5. d = s /\ Router!TimesCalled(h, s) # 0
    BY <2>1, <2>4 DEF Router!TimesCalled
  <2>6. QED
    BY <2>2, <2>5 DEF Router!TimesCalled
<1>2. QED
  BY <1>1, PlatformInvariant, PTL DEF Spec, Router!UnregisteredSymbolIsSilent

(* What a plugin left behind bars it: a registry holds its key, and no load *)
(* under way has passed that registry.                                      *)
Barred(f) ==
    /\ ~Plugs!IsListed(f)
    /\ \E r \in naming[f].offers : Holds(r, f) /\ ~(doing = "load" /\ at = f /\ stage > r)

LEMMA BarredStays ==
    ASSUME EventConstants, PluginsSafe, NEW f \in 1..Files, Barred(f), PluginStep
    PROVE  Barred(f)'
<1>1. PICK r \in naming[f].offers : Holds(r, f) /\ ~(doing = "load" /\ at = f /\ stage > r)
  BY DEF Barred
<1>2. /\ r \in 1..Registries /\ naming[f].key \in 1..Files /\ f # 0 /\ Files \in Nat
      /\ registered \in [1..Registries -> [1..Files -> 0..Files]]
      /\ Registries \in Nat /\ stage \in 0..Registries + 1 /\ at \in 0..Files + 1
      /\ listed \in Seq(1..Files)
  <2>1. Registries \in Nat /\ Files \in Nat
    BY EventConstants DEF EventConstants, Plugs!PluginConstants
  <2>2. r \in 1..Registries /\ naming[f].key \in 1..Files /\ f # 0
    <3>1. naming[f] \in Plugin
      BY DEF PluginsSafe
    <3>2. naming[f].offers \subseteq 1..Registries /\ naming[f].key \in 1..Files
      BY <3>1 DEF Plugin
    <3>3. r \in naming[f].offers
      BY <1>1
    <3>4. QED
      BY <2>1, <3>2, <3>3
  <2>3. QED
    BY <2>1, <2>2 DEF PluginsSafe, Plugs!PluginTypeOK, Plugs!Names
<1>3. ~Plugs!IsListed(f)
  BY DEF Barred
<1>4. UNCHANGED naming /\ Plugs!PluginNext
  BY DEF PluginStep, Plugs!PluginNext, Plugs!Call, Plugs!Raises, Plugs!LoadPlugin, Plugs!Register,
         Plugs!ListPlugin, Plugs!LoadEnds, Plugs!InvokeLifecycle, Plugs!LifecycleEnds
<1>5. CASE Plugs!Register
  <2>1. /\ stage \in 1..Registries /\ stage' = stage + 1 /\ doing = "load"
        /\ UNCHANGED <<listed, doing, at>>
    BY <1>5 DEF Plugs!Register
  <2>2. at \in 1..Files
    BY <1>2, <2>1 DEF PluginsSafe, CallIsPlaced
  <2>3. naming[at].key \in 1..Files
    BY <2>2 DEF PluginsSafe, Plugin
  <2>4. Holds(r, f)'
    <3>1. registered[r][naming[f].key] = f
      BY <1>1 DEF Holds
    <3>2. CASE UNCHANGED registered
      BY <1>4, <3>1, <3>2 DEF Holds
    <3>3. CASE /\ registered' = [registered EXCEPT ![stage][naming[at].key] = at]
               /\ registered[stage][naming[at].key] = 0
      <4>. DEFINE k == naming[at].key
                  kf == naming[f].key
      <4>1. ~(r = stage /\ kf = k)
        BY <1>2, <3>1, <3>3
      <4>2. k \in 1..Files /\ kf \in 1..Files
        BY <1>2, <2>3
      <4>3. registered'[r][kf] = registered[r][kf]
        <5>. HIDE DEF k, kf
        <5>1. registered' = [registered EXCEPT ![stage][k] = at]
          BY <3>3 DEF k
        <5>2. QED
          BY <1>2, <2>1, <4>1, <4>2, <5>1
      <4>4. QED
        BY <1>4, <3>1, <4>3 DEF Holds
    <3>4. QED
      BY <1>5, <3>2, <3>3 DEF Plugs!Register, Plugs!Accepts
  <2>5. ~(at = f /\ stage' > r)
    <3>1. ASSUME at = f, stage = r PROVE FALSE
      BY <1>1, <1>2, <1>5, <2>1, <3>1 DEF Plugs!Register, Plugs!Accepts, Holds
    <3>2. QED
      BY <1>1, <1>2, <2>1, <3>1
  <2>6. QED
    BY <1>3, <1>4, <2>1, <2>4, <2>5 DEF Barred, Plugs!IsListed
<1>6. CASE Plugs!ListPlugin
  <2>1. /\ doing = "load" /\ stage = Registries + 1 /\ listed' = Append(listed, at)
        /\ stage' = 0 /\ UNCHANGED registered
    BY <1>6 DEF Plugs!ListPlugin
  <2>2. at # f
    BY <1>1, <1>2, <2>1
  <2>3. ~Plugs!IsListed(f)'
    BY <1>2, <1>3, <2>1, <2>2 DEF Plugs!IsListed
  <2>4. ~(stage' > r)
    BY <1>2, <2>1
  <2>5. Holds(r, f)' /\ r \in naming'[f].offers
    BY <1>1, <1>4, <2>1 DEF Holds
  <2>6. QED
    BY <2>3, <2>4, <2>5 DEF Barred
<1>7. CASE Plugs!LifecycleEnds
  <2>1. /\ UNCHANGED registered /\ doing' = "nothing" /\ listed' \in {listed, <<>>}
    BY <1>7 DEF Plugs!LifecycleEnds, Plugs!Leave
  <2>2. QED
    BY <1>1, <1>3, <1>4, <2>1 DEF Barred, Holds, Plugs!IsListed
<1>8. CASE \/ \E method \in Plugs!PluginMethods : Plugs!Call(method)
           \/ Plugs!Raises \/ Plugs!LoadPlugin \/ Plugs!LoadEnds \/ Plugs!InvokeLifecycle
  <2>1. UNCHANGED <<registered, listed>>
    BY <1>8 DEF Plugs!Call, Plugs!Raises, Plugs!LoadPlugin, Plugs!LoadEnds, Plugs!InvokeLifecycle
  <2>2. doing' = "load" => stage' \in {0, 1} \/ UNCHANGED <<doing, at, stage>>
    BY <1>8 DEF Plugs!Call, Plugs!Raises, Plugs!LoadPlugin, Plugs!LoadEnds, Plugs!InvokeLifecycle,
                Plugs!Leave
  <2>3. ~(doing' = "load" /\ at' = f /\ stage' > r)
    BY <1>1, <1>2, <2>2
  <2>4. Holds(r, f)' /\ r \in naming'[f].offers
    BY <1>1, <1>4, <2>1 DEF Holds
  <2>5. ~Plugs!IsListed(f)'
    BY <1>3, <2>1 DEF Plugs!IsListed
  <2>6. QED
    BY <2>3, <2>4, <2>5 DEF Barred
<1>9. QED
  BY <1>4, <1>5, <1>6, <1>7, <1>8 DEF Plugs!PluginNext

(* A plugin with something left behind by a load that raised, or by unload, *)
(* is never listed again (PluginManager, the registries).                   *)
THEOREM LeftBehindBars == Spec => Plugs!LeftBehindStays
<1>1. ASSUME NEW f \in 1..Files
      PROVE  Spec => [](Plugs!LeftBehind(f) => []~Plugs!IsListed(f))
  <2>1. Plugs!LeftBehind(f) => Barred(f)
    BY DEF Plugs!LeftBehind, Barred, Holds
  <2>2. PlatformSafe /\ Barred(f) /\ [Next]_vars => Barred(f)'
    <3>1. SUFFICES ASSUME PlatformSafe, Barred(f), PluginStep \/ UNCHANGED pluginVars
                   PROVE  Barred(f)'
      BY DEF Next, vars, DispatcherStep, RouterStep, SubscriptionStep, AdapterStep
    <3>2. CASE PluginStep
      BY <3>1, <3>2, BarredStays, EventConstants DEF PlatformSafe
    <3>3. CASE UNCHANGED pluginVars
      BY <3>1, <3>3 DEF pluginVars, Barred, Holds, Plugs!IsListed
    <3>4. QED
      BY <3>1, <3>2, <3>3
  <2>3. Barred(f) => ~Plugs!IsListed(f)
    BY DEF Barred
  <2>4. QED
    BY <2>1, <2>2, <2>3, PlatformInvariant, PTL DEF Spec
<1>2. (\A f \in 1..Files : Spec => [](Plugs!LeftBehind(f) => []~Plugs!IsListed(f)))
  BY <1>1
<1>3. QED
  BY <1>2 DEF Plugs!LeftBehindStays
=============================================================================
