------------------------- MODULE CandleAggregation -------------------------
(***************************************************************************)
(* Candle aggregation (engines/aggregation): ticks are put into buckets of *)
(* a timeframe, a candle is open from the first tick of its bucket until   *)
(* something happens at or after the bucket's end.                         *)
(*                                                                         *)
(* process_tick closes what is pending, publishes it, takes the tick in,   *)
(* and publishes again; it is suspended at every publication while the     *)
(* handlers run, and other calls come in between.  A candle is finalised   *)
(* from its state at the moment it is published.  Candles are numbered in  *)
(* the order they were opened; the state of one that was closed is still   *)
(* held by the calls that publish it.                                      *)
(***************************************************************************)
EXTENDS Integers, Sequences, FiniteSetsExt, SequencesExt, RunningTotals

CONSTANTS
    Tasks,         \* callers of the engine
    Ticks,         \* the ticks, records of time, price and size; any may come again
    Starts,        \* the times buckets start at
    Length,        \* how long a bucket is held to be: the longest there is
    Session,       \* the times of day inside the trading session
    Day,           \* the length of a day
    MaxCandles, MaxCalls     \* bounds: candles opened, calls made

AggregationConstants ==
    /\ Ticks \subseteq [time : Nat, price : Nat \ {0}, size : Nat]
    /\ Starts \subseteq Nat /\ 0 \in Starts /\ Length \in Nat \ {0}
    /\ \A tick \in Ticks : \E s \in Starts : s <= tick.time /\ tick.time < s + Length
    /\ MaxCandles \in Nat /\ MaxCalls \in Nat

VARIABLES
    candles,       \* the AggregationStates made, in order
    call,          \* what each caller is in the middle of
    calls,         \* auxiliary: calls made
    clock,         \* auxiliary: the latest time the engine was told
    swept,         \* auxiliary: the latest at which all pending candles were closed
    arrived,       \* auxiliary: the ticks each candle was given
    told           \* auxiliary: the events published of each candle

vars == <<candles, call, calls, clock, swept, arrived, told>>

Candle == [start : Starts, open : Nat, high : Nat, low : Nat, close : Nat, volume : Nat,
           trades : Nat, last : Nat, seen : SUBSET Ticks, closed : BOOLEAN, late : BOOLEAN]
(* A call publishes the candles it closed, as they were opened, and then   *)
(* the one its tick went into, if any.  One that closes may have a tick    *)
(* still to take in.                                                       *)
NoTick == <<>>
Call == [at : {"idle", "closing", "telling"}, tick : {NoTick} \cup [tick : Ticks, session : BOOLEAN],
         closed : SUBSET (1..MaxCandles), taken : 0..MaxCandles]
Idle == [at |-> "idle", tick |-> NoTick, closed |-> {}, taken |-> 0]

TypeOK ==
    /\ candles \in Seq(Candle) /\ Len(candles) <= MaxCandles
    /\ call \in [Tasks -> Call]
    /\ \A t \in Tasks : call[t].closed \cup ({call[t].taken} \ {0}) \subseteq DOMAIN candles
    /\ calls \in 0..MaxCalls /\ clock \in Nat /\ swept \in Nat
    /\ DOMAIN arrived = DOMAIN candles /\ DOMAIN told = DOMAIN candles

Init ==
    /\ candles = <<>> /\ call = [t \in Tasks |-> Idle] /\ calls = 0 /\ clock = 0 /\ swept = 0
    /\ arrived = <<>> /\ told = <<>>

-----------------------------------------------------------------------------
(* align_timestamp, bucket_end: a month is held to have 31 days *)
Align(time) == Max({s \in Starts : s <= time})

(* Mutant: a month is held to have 29 days. *)
EndOfShortMonth(start) == start + Length - 2

End(start) == start + Length

Open(cs) == {i \in DOMAIN cs : ~cs[i].closed}

(* Mutant: a candle is closed only after its end. *)
PendingAfter(cs, at) == {i \in Open(cs) : at > End(cs[i].start)}

Pending(cs, at) == {i \in Open(cs) : at >= End(cs[i].start)}

Closed(cs, ids) == [i \in DOMAIN cs |-> IF i \in ids THEN [cs[i] EXCEPT !.closed = TRUE] ELSE cs[i]]

(* Mutant: the tick that opens a candle is not counted. *)
NewCandleUncounted(tick) ==
    [start |-> Align(tick.time), open |-> tick.price, high |-> tick.price, low |-> tick.price,
     close |-> tick.price, volume |-> tick.size, trades |-> 0, last |-> tick.time,
     seen |-> {tick}, closed |-> FALSE, late |-> tick.time < clock]

(* create_state *)
NewCandle(tick) ==
    [start |-> Align(tick.time), open |-> tick.price, high |-> tick.price, low |-> tick.price,
     close |-> tick.price, volume |-> tick.size, trades |-> 1, last |-> tick.time,
     seen |-> {tick}, closed |-> FALSE, late |-> tick.time < clock]

(* Mutant: the close is the price of the tick that came last. *)
UpdatedByArrival(c, tick) ==
    IF tick \in c.seen THEN c
    ELSE [c EXCEPT !.high = Max({@, tick.price}), !.low = Min({@, tick.price}),
                   !.close = tick.price, !.last = Max({@, tick.time}),
                   !.volume = @ + tick.size, !.trades = @ + 1, !.seen = @ \cup {tick}]

(* update_state *)
UpdatedCandle(c, tick) ==
    IF tick \in c.seen THEN c
    ELSE [c EXCEPT !.high = Max({@, tick.price}), !.low = Min({@, tick.price}),
                   !.close = IF tick.time > c.last THEN tick.price ELSE @,
                   !.last = Max({@, tick.time}),
                   !.volume = @ + tick.size, !.trades = @ + 1, !.seen = @ \cup {tick}]

-----------------------------------------------------------------------------
(* Mutant: the event is decided by the call, not by the candle. *)
KindOfCall(c, closing) == IF closing THEN "closed" ELSE IF c.trades = 1 THEN "opened" ELSE "updated"

(* The candle as it is when its event is published.  A candle that was     *)
(* closed meanwhile is reported closed, one with a single trade opened.    *)
Kind(c, closing) == IF closing \/ c.closed THEN "closed" ELSE IF c.trades = 1 THEN "opened" ELSE "updated"

Shown(c) == [open |-> c.open, high |-> c.high, low |-> c.low, close |-> c.close,
             volume |-> c.volume, trades |-> c.trades]

Event(c, phase) == [kind |-> Kind(c, phase = "closing"), candle |-> Shown(c)]

ToldOf(i) == IF i \in DOMAIN told THEN told[i] ELSE <<>>

(* The next of what a call has to publish, up to its handlers *)
Publishes(t, phase, tick, closed, taken, cs) ==
    LET next == IF closed = {} THEN taken ELSE Min(closed) IN
    /\ told' = [i \in DOMAIN cs |-> IF i = next THEN Append(ToldOf(i), Event(cs[i], phase)) ELSE ToldOf(i)]
    /\ call' = [call EXCEPT ![t] = [at |-> phase, tick |-> tick, closed |-> closed \ {next},
                                    taken |-> IF closed = {} THEN 0 ELSE taken]]

Returns(t) ==
    /\ call' = [call EXCEPT ![t] = Idle]
    /\ UNCHANGED told

(* Mutant: the candle of a tick that came late is the one that was closed. *)
IngestReopens(t, tick, cs) ==
    LET mine == {i \in DOMAIN cs : cs[i].start = Align(tick.time)}
        i    == IF mine = {} THEN Len(cs) + 1 ELSE Max(mine)
        next == IF mine = {} THEN Append(cs, NewCandle(tick))
                ELSE [cs EXCEPT ![i] = [UpdatedCandle(@, tick) EXCEPT !.closed = FALSE]]
    IN
    /\ Len(next) <= MaxCandles
    /\ candles' = next
    /\ arrived' = IF mine = {} THEN Append(arrived, <<tick>>) ELSE [arrived EXCEPT ![i] = Append(@, tick)]
    /\ Publishes(t, "telling", NoTick, {}, i, next)

(* ingest_tick: close what is pending again, then find or open the candle; *)
(* a tick that was seen changes nothing and is not reported.               *)
Ingest(t, tick, before) ==
    LET pending == Pending(before, tick.time)
        cs   == Closed(before, pending)
        mine == {i \in Open(cs) : cs[i].start = Align(tick.time)}
        i    == IF mine = {} THEN Len(cs) + 1 ELSE CHOOSE k \in mine : TRUE
        next == IF mine = {} THEN Append(cs, NewCandle(tick))
                ELSE [cs EXCEPT ![i] = UpdatedCandle(@, tick)]
        taken == IF mine # {} /\ tick \in cs[i].seen THEN 0 ELSE i
    IN
    /\ Len(next) <= MaxCandles
    /\ candles' = next
    /\ arrived' = IF mine = {} THEN Append(arrived, <<tick>>) ELSE [arrived EXCEPT ![i] = Append(@, tick)]
    /\ IF pending = {} /\ taken = 0 THEN Returns(t)
       ELSE Publishes(t, "telling", NoTick, pending, taken, next)

(* A tick outside the session closes what is pending and is not taken in.  *)
TakesIn(t, tick, cs, session) ==
    IF session /\ tick.time % Day \notin Session
    THEN candles' = cs /\ UNCHANGED arrived /\ Returns(t)
    ELSE Ingest(t, tick, cs)

Begin(t, time) ==
    /\ call[t] = Idle
    /\ calls < MaxCalls /\ calls' = calls + 1
    /\ clock' = Max({clock, time})

(* process_tick, to its first suspension *)
ProcessTick(t, tick, session) ==
    LET pending == Pending(candles, tick.time)
        cs      == Closed(candles, pending)
        step    == [tick |-> tick, session |-> session]
    IN
    /\ Begin(t, tick.time) /\ swept' = Max({swept, tick.time})
    /\ IF pending = {} THEN TakesIn(t, tick, cs, session)
       ELSE /\ candles' = cs /\ UNCHANGED arrived
            /\ Publishes(t, "closing", step, pending, 0, cs)

(* close_pending_candles *)
ClosePending(t, at) ==
    LET pending == Pending(candles, at)
        cs      == Closed(candles, pending)
    IN
    /\ Begin(t, at) /\ swept' = Max({swept, at})
    /\ candles' = cs /\ UNCHANGED arrived
    /\ IF pending = {} THEN Returns(t) ELSE Publishes(t, "closing", NoTick, pending, 0, cs)

(* close_session: of the candles that are over those of that day *)
CloseSession(t, at) ==
    LET pending == {i \in Pending(candles, at) : candles[i].start \div Day = at \div Day}
        cs      == Closed(candles, pending)
    IN
    /\ Begin(t, at) /\ UNCHANGED swept
    /\ candles' = cs /\ UNCHANGED arrived
    /\ IF pending = {} THEN Returns(t) ELSE Publishes(t, "closing", NoTick, pending, 0, cs)

(* The handlers of an event are done: the next event, or the tick that     *)
(* waited for the pending candles to be published.                         *)
GoOn(t) ==
    LET c == call[t] IN
    /\ c # Idle
    /\ IF c.closed # {} \/ c.taken # 0
       THEN Publishes(t, c.at, c.tick, c.closed, c.taken, candles) /\ UNCHANGED <<candles, arrived>>
       ELSE IF c.tick # NoTick
       THEN TakesIn(t, c.tick.tick, candles, c.tick.session)
       ELSE Returns(t) /\ UNCHANGED <<candles, arrived>>
    /\ UNCHANGED <<calls, clock, swept>>

Times == {tick.time : tick \in Ticks}

Next == \E t \in Tasks :
    \/ \E tick \in Ticks, session \in BOOLEAN : ProcessTick(t, tick, session)
    \/ \E at \in Times : ClosePending(t, at) \/ CloseSession(t, at)
    \/ GoOn(t)

-----------------------------------------------------------------------------
(***************************************************************************)
(* Properties.                                                             *)
(***************************************************************************)
(* What the ticks a candle was given traded, each counted once *)
TradedSize(given) ==
    Total([k \in DOMAIN given |-> IF \E j \in 1..(k - 1) : given[j] = given[k] THEN 0 ELSE given[k].size],
          Len(given))

(* A candle is the ticks it was given, each once, in any order of arrival: *)
(* its open is the first that came, its close the first that came of the   *)
(* latest, and repeated ticks change nothing (README of the engine:        *)
(* "Handle out-of-order tick arrival and ignore duplicate ticks").         *)
CandleIsItsTicks ==
    \A i \in DOMAIN candles :
        LET c     == candles[i]
            given == arrived[i]
            set   == ToSet(given)
            newest == Max({tick.time : tick \in set})
            first == SelectInSeq(given, LAMBDA tick : tick.time = newest)
        IN /\ c.open = given[1].price /\ c.close = given[first].price
           /\ c.high = Max({tick.price : tick \in set}) /\ c.low = Min({tick.price : tick \in set})
           /\ c.trades = Cardinality(set) /\ c.volume = TradedSize(given)
           /\ \A tick \in set : Align(tick.time) = c.start

(* A bucket has one open candle, and a second candle only when a tick came *)
(* for it after the engine had been told a later time.                     *)
OneCandlePerBucket ==
    \A i, j \in DOMAIN candles :
        i < j /\ candles[i].start = candles[j].start => candles[i].closed /\ candles[j].late

(* No candle is open after the engine was told a time at its end or later, *)
(* unless it was opened late.                                              *)
ClosedInTime == \A i \in Open(candles) : swept >= End(candles[i].start) => candles[i].late

(* Once a candle was reported closed nothing else is reported of it, and   *)
(* what was reported is the candle: no tick is taken in afterwards.        *)
ClosedIsFinal ==
    \A i \in DOMAIN told : \A k \in DOMAIN told[i] :
        told[i][k].kind = "closed" =>
            /\ told[i][k].candle = Shown(candles[i])
            /\ \A m \in (k + 1)..Len(told[i]) : told[i][m].kind = "closed"

(* When no call is under way, the last event of every candle shows it as   *)
(* it is, and says whether it is closed, however the calls overlapped.     *)
LastEventIsTrue ==
    (\A t \in Tasks : call[t] = Idle) =>
        \A i \in DOMAIN candles :
            /\ told[i] # <<>>
            /\ Last(told[i]).candle = Shown(candles[i])
            /\ (Last(told[i]).kind = "closed") = candles[i].closed

(* As long as no tick comes late, every candle is heard of as opened       *)
(* before anything else.  A late one can be closed by the call that opens  *)
(* the next, which then publishes that first and reports the candle it     *)
(* opened when others have already been told of it.                        *)
OpenedFirst ==
    (\A i \in DOMAIN candles : ~candles[i].late) =>
        \A i \in DOMAIN told : told[i] # <<>> => told[i][1].kind = "opened"
=============================================================================
