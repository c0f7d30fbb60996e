# RenkoLabAI: verification project

RenkoLabAI is a trading platform in Python: market data is streamed or
replayed, aggregated into candles, turned into Renko bricks, and traded by
strategies, in backtests, on a simulated ("paper") exchange, or live through a
broker. This directory holds TLA+ modules for the parts where the order of
events decides about money or about the chart, the TLC configurations that
check them, and proofs that hold for every value of the constants.

Paths below are relative to `src/backend/app/` unless they start with `src/`.

## 1. The system

The whole back end runs on one asyncio event loop: code between two awaits that
really suspend is atomic, everything else can interleave.

| component | state it keeps | operations | talks to |
|---|---|---|---|
| Order, Fill (`trading/execution/order.py`) | status, fill, broker id, reservation | submit, complete, reject, cancel; none looks at the present status | changed by executor, OMS, order synchroniser, portfolio |
| Portfolio, Position (`trading/portfolio`, `execution/position.py`) | cash, reserved capital, one long position, realised result | reserve, release, apply_order, open_long, close, mark | called by backtest, paper exchange, PortfolioSynchronizer |
| OMS (`trading/oms`) | orders and the next id, tracked positions, risk decisions | process_signal, cancel_order, modify_order, synchronize_orders, recover | executor, broker, HTTP API |
| LiveExecutor (`trading/broker`) | one coroutine per order: polling, time since submission | execute: submit, poll, time out and cancel | broker through `BrokerAdapter` (CCXT in production) |
| PortfolioSynchronizer (`trading/portfolio/synchronizer.py`) | fill keys applied, order ids recorded | apply_order | Portfolio |
| LiveTradingPipeline, runtime (`live_pipeline.py`, `runtime.py`) | bar index, running flag | handle_tick, start, stop, recover | streams, OMS, persistence, API |
| Paper exchange (`trading/paper`) | market queue, resting book, last quote, next id | submit, cancel, on_market_data | Portfolio; PaperTradingSession publishes its events |
| Renko engine (`chart/renko`) | configuration, direction and last price, anchor, history, provider, builder | configure, start, stop, reset, process_market_data, snapshot, restore | pipeline stage, factory, event bus |
| Streaming (`marketdata/streaming`) | connection, queues, subscriptions, reconnect monitor | connect, subscribe, receive loop, start, stop | dispatcher, runtime |
| Event dispatch (`events`, dispatcher, router) | subscribers, bounded queues | publish, subscribe, start with its drain, stop | everything |
| Broker adapters (`trading/broker`) | the connection | connect, submit, get_order, cancel, positions | three client libraries; LiveExecutor |
| Aggregation, replay (`engines`) | open candles; session, look-ahead buffer, task, clock | ingest, close; start, pause, seek, step | handlers, which may call back |
| Paper session, strategy bridge (`trading/paper/session.py`, `strategy/paper_bridge.py`) | the simulator and its events | submit, cancel, feed a quote, on_candle, on_tick | event bus, strategy, sizer |
| Pipeline, plugins (`pipeline`, `plugins`) | stage graph, context; plugins and five registries | run with retries; load, start, stop, unload | chart registries |
| Strategies, risk rules (`trading/strategy`) | averages, streak, day range, position; highest price of a trailing stop | bricks, bars, ticks, start, reset, shutdown | backtest, live pipeline |
| Backtest (`trading/backtesting`) | the bar loop over a Portfolio, the order that waits | run | strategies, metrics |
| Research (`backtesting/research`, `trading/validation`) | trials and results of a stage, the series cache | grid search with threads, walk-forward, rankings, simulated paths, allocation | backtests |
| Analytics (`analytics/domain`) | immutable values, reports and runs | curves, drawdowns, returns, snapshots, rankings, life cycle | live pipeline, research |

What makes each part hard, and what makes it correct:

* **Live trading.** An order is changed by its own executor, by the API and by
  the synchronisers, each with an answer of the broker that was captured before
  the await and is used after it. Calls fail after taking effect, the fill
  timeout races the fill, handlers are cancelled when the runtime stops.
  Correct means: no fill is invented, a fill moves cash once, a fill that is
  not booked has a known cause, refused orders stay refused, the tracked
  positions are the broker's, limits hold, executions end.
* **Paper exchange.** Synchronous, but a quote settles a queue, a book and the
  immediate-or-cancel orders in one call, against cash they share. Correct
  means: every order ends once and the end is reported, reservations and cash
  are exact, no touch is missed.
* **Renko engine.** A small state machine with a rule that treats a move
  against the trend between one and two bricks specially, changing brick sizes,
  and a life cycle that keeps some state and drops some. Correct means: events
  and bricks agree, the chart keeps up with the market and never leaves it, a
  restored engine is the same engine.
* **Streaming.** Two tasks can connect the same stream, cancellation arrives
  anywhere, failures must be noticed. Correct means: stop ends everything, no
  event is lost or overtaken, a lost connection is made again or given up.
* **Dispatch, router, subscriptions.** A publisher is suspended while handlers
  run, and a start drains a queue others still fill. Correct means: what is
  accepted is heard once and in order, a full queue drops the newest and says so,
  and the record of subscriptions is what the far side was sent.
* **Replay, aggregation, paper session.** Every operation changes its state
  first and publishes afterwards; handlers and other tasks call in between.
  Correct means: a recording is played in order and whole, a stopped one stays
  stopped, a candle is exactly the ticks of its bucket, and an observer of the
  events knows the state.
* **Adapters, plugins, pipeline.** A call can fail after it has taken effect, and
  what was done before it stays. Correct means: what is booked was filled; what is
  listed is whole; a stage finds its inputs.
* **Strategies, backtests, research.** Signals are decided after a close and
  filled on the next; entries can be turned away; threads share a cache; windows
  overlap. Correct means: no look-ahead, the strategy's position and the
  portfolio's part for known causes only, a parallel search finds what a
  sequential one finds, and what is tested was chosen from training data.
* **Analytics.** Values are rounded one by one and then checked against each
  other, copies skip the checks. Correct means: what the services build, the
  value objects accept.

`PROJECT.json` lists every component with its status and every hazard with its
line and the properties that cover it.

## 2. The modules

| module | what it is |
|---|---|
| `Portfolio` | the Order record, its four status changes, `IsActive`; the ledger: cash, reservation, one position; `LedgerAfter` and `OrderAfter` are the two results of `Portfolio.apply_order` |
| `LiveTrading` | tick handler, OMS, risk check, executor, order and position synchronisers, PortfolioSynchronizer, API requests, and the broker as environment |
| `FillLedger` | abstract: an order is filled at most once, its amount is booked then or never, nothing else moves cash |
| `RunningTotals` | the sum of the values of a function on 1 to n, and of a sequence, as a recursive function |
| `LiveLedger` | the refinement mapping from `LiveTrading` to `FillLedger`, and the sum of the booked fills; the module of the live runs |
| `AccountingProofs` | what orders, ledgers and totals do when one entry changes: the facts the proofs about money share |
| `LiveTradingProofs` | type correctness of every action of `LiveTrading`, the inductive invariant and the safety theorems; the refinement and the account of the cash; positions against the broker, books against the capital |
| `PaperExchange` | ExchangeSimulator, PendingOrderManager, PaperExecutor over `Portfolio` |
| `PaperExchangeProofs` | everything the run of the paper venue checks |
| `MarketStream` | WebSocketStream, ReconnectManager and the tasks of StreamingManager, for one stream |
| `MarketStreamProofs` | the safety properties of the stream |
| `RenkoEngine` | TraditionalRenkoEngine, hybrid builder, factory and pipeline stage, snapshot and restore |
| `BrickSize` | the adaptive brick size provider with its three children, the price strategies |
| `RenkoConfig` | validator, configuration, constructors, factory, and the configuration's way through a snapshot into another process |
| `CandleAggregation` | ticks into candles, with the publications in between |
| `ProcessingPipeline` | stage graph and pipeline run |
| `MCBars` | the five of them for TLC |
| `BarsProofs` | the engine's bricks, the candles of aggregation, brick sizes, the wiring of engines and the pipeline's runs |
| `EventDispatch` | event bus, dispatcher, and the bridge that feeds both |
| `MarketRouter` | MarketRouter with its bounded queue |
| `SubscriptionManager` | several tasks under one lock, sends that fail |
| `BrokerAdapters` | CCXT, Alpaca and Interactive Brokers under the executor |
| `Plugins` | the plugin manager and the registries |
| `MCPlatform` | the five of them for TLC |
| `PlatformProofs` | all five: one inductive invariant each, and their safety properties |
| `Replay`, `ReplayScheduler`, `ReplayClock` | controller with its iterators, scheduler task, replay clock |
| `PaperSession` | the asynchronous session and the replay feed, over `PaperExchange` |
| `PaperStrategy` | the strategy bridge and the sizers, over `PaperSession` |
| `MCReplay` | the five of them for TLC |
| `ReplayProofs` | controller, scheduler and clock; session, strategy bridge and sizers |
| `Strategies`, `StrategyEngine` | the four strategies and the averages; the engine that runs one, fed bricks, bars and live ticks |
| `RiskRules` | stop loss, take profit, trailing stop, daily loss, open positions, and their order |
| `Backtest` | the bar loop over `Portfolio`, `Strategies` and `RiskRules` |
| `PerformanceMetrics`, `ResearchMetrics` | the metrics that need no root; drawdowns, percentiles, paths, allocation |
| `Selection`, `Research` | parameters, scenarios, trials and rankings; the stages of a search with a pool of threads and a shared cache |
| `ResultRanking`, `MonteCarlo` | a result set that grows and its rankings; simulated paths |
| `Analytics`, `AnalyticsRuns` | what is computed from curves and metrics, and the validators' verdict on it; reports and runs |
| `MCResearch` | everything from `Strategies` on for TLC |
| `ResearchProofs` | the pool of threads, the shared data source and walking forward; the strategy engine's positions and whole backtests |

Definitions marked *Mutant* are deliberately wrong variants of the definition
that follows them: each run's properties have been seen to fail when the
variant takes its place.

The four large `MC` modules hold several components side by side. A behaviour
chooses one in its first state (`part`) and exercises that one; the variables of
the others keep their initial values. So each component is checked in all its
behaviours, none is multiplied with another, and an invariant `part = "x" => ...`
speaks of the states of component `x` only. Components that do interact are
composed for real: `PaperStrategy` over `PaperSession` over `PaperExchange` over
`Portfolio`; `Backtest` over `Portfolio`, strategies and rules, with its result
handed on to `Analytics`; `LiveTrading` over `Portfolio`.

### LiveTrading: state and actions

| variable | code |
|---|---|
| `order`, `nextId` | `OrderManager._orders`, `_next_order_id` |
| `exec[o]` | where the coroutine `LiveExecutor.execute` of order `o` waits, and the answer it is about to receive |
| `positions` | `PositionSynchronizer._positions`: side and quantity |
| `portfolio` | `Portfolio` and its `Position` |
| `applied`, `recorded` | `_applied_fill_keys`, `_recorded_order_ids` (a fill id contains the broker's order id, so keys are per order) |
| `task[t]` | an API request: the orders it still walks over, the captured answer |
| `broker`, `holdings` | the broker's orders and account |

| action | code |
|---|---|
| `HandleTick` | `handle_tick` up to the first await that suspends: signal, order, risk check, `submit`; a refused order is booked (recorded) at once |
| `ReceiveSubmitAnswer`, `ReceivePollAnswer`, `ReceiveCancelAnswer` | the executor resumes; when it ends, `Settle` is the rest of the handler: position, persistence, portfolio, in that order and without a suspension |
| `WakeAndPoll`, `WakeAndCancel`, `TimerPasses` | `_wait_for_fill` |
| `StopRuntime` | `LiveRuntimeOrchestrator.stop`: handlers in progress are cancelled |
| `RequestCancel`, `ReceiveCancel`, `ModifyOrder` | the routes of `api/routes/orders.py` |
| `StartSync`, `FetchOrder`, `ReceiveOrder`, `FetchPositions`, `ReceivePositions` | `synchronize_orders` and `recover`, order by order, then positions |
| `BrokerAnswersSubmit`, `BrokerFills`, `BrokerEnds` | the venue (external) |

The risk validator and the JSONL persistence are coroutines that never suspend,
so they are part of their caller's step. `Faults` selects what may go wrong in
an instance; the theorems hold for every subset of them, except where a theorem
assumes one away.

Abstractions: whole prices and lots; `average_entry_price * quantity` is one
number, `basis`; an entry takes all the cash (`max_position_size` is 1) and only
prices that divide it; a fill happens at one average price; `ModifyOrder` sets
quantity and price together; any signal may come at any tick; the cost of a fill
is a flat fee (production uses none). The limits OMS does not configure (daily
loss, drawdown, strategy rules) are not there.

### PaperExchange: state and actions

`queue` and `book` are `_market_queue` and the resting book, `ticket` the
matching parameters, `order` and `portfolio` the shared objects, `last` the last
quote and `report` what the last call returned. The simulator is synchronous, so
`SubmitOrder`, `CancelOrder` and `OnMarketData` are the whole calls; the last one
walks three times over the orders in ascending order of the ids: `Settle` for the
queue, `Trigger` for the triggered orders and `Withdraw` for the
immediate-or-cancel orders that are left. (The code walks the last group in insertion order, which is the order
of the ids.) Slippage and brokerage are the fixed models; latency changes
timestamps only.

### RenkoEngine: state and actions

The engine is a record, each method an operator on it (`Configured`, `Started`,
`Stopped`, `WasReset`, `Processed`, `Snapshot`, `Restored`), so that the pipeline
stage (`RunStage`) is the composition the code writes: create, configure, start,
process, stop. `twin` is an engine that takes the same calls and is never saved
and restored; `market` and `seen` remember the prices of the candles, `intact` whether the
engine was begun again. A provider
appears as the size its candle reports, 0 while it warms up. The two ways to append
bricks (with and without an event bus) end in the same state and are one action.

### MarketStream: state and actions

`stream` is the WebSocketStream (`_ws`, `_connected`, `_running`,
`_receive_task`, `_subscribed_symbols`), `loop[s]` the receive loop started with
connection `s`, `socket[s]` the connection itself, `told[s]` what the venue was
asked for on it, `queue` the `_message_queue`. `pc` says where three coroutines
wait: `runner` (`_run_stream`), `monitor` (`_run_reconnect_manager` and
`monitor`), `stop` (`StreamingManager.stop`); `disconnect` is run by `runner` and
by `stop` and waits twice, for the receive loop and for the socket.
`reconnect.last` marks the single attempt `monitor` makes from its exception
handler. Cancelling a task is `Cancelled`: what the exception does depends on
where it arrives. `Start`, `Stop`, `StartReconnectManager`, `Subscribe` and
`Unsubscribe` are calls from outside. StreamingManager never calls
`ReconnectManager.start`, so somebody else has to before `Start`; when nobody
has, `MonitorBegins` returns at once. Two exits of the code are unreachable and
left out: the end of `events()` and the check of `_running` after an event both
need a stop, which has cancelled the task before.

### Bars: CandleAggregation, BrickSize, RenkoConfig

`CandleAggregation`: `candles` are the AggregationStates in the order they were
opened, `call` where each caller of `process_tick`, `close_pending_candles` or
`close_session` is: suspended in a publication with the rest of its work. A
candle is finalised when it is published, so a call may publish a state another
call has changed meanwhile. `Ticks` may come again and in any order; `Starts` are
the times at which a bucket may begin, and `Align` takes the latest one that is not
after the tick, so buckets may be shorter than `Length`, as months are. A call
holds the set of candles it has still to publish as closed, which it does in the
order they were opened, and the tick it has still to take in.

`BrickSize`: `provider` is the adaptive provider: its window of statistics, the
regime, and the children that all follow every candle. `twin` is a provider that
was saved and restored at some moment. Prices are multiples of a unit every
divisor divides.

`RenkoConfig`: a configuration is a record of the fields with `NoValue` for None.
`Execute` is a pipeline stage: validate, create, configure, start; `Save`,
`TextAges`, `NewProcess`, `Restore` take it through text. Two facts of the code
the model keeps: the factory's `create` injects the provider before it builds
the builder, so a builder that cannot be built leaves the shared engine half
rewired; thresholds come back from text as a list.

`ProcessingPipeline` takes a run stage by stage, with `attempt` for retries and
`holds` for the context, which a failed attempt has already written to. The
depth-first walk of `get_ordered_stages` is the recursive function `Visit`, of the
walk so far and a stage.
Self-edges are left out. It is run in `MCBars`, next to the engine that is one of
its stages.

### Platform: EventDispatch, MarketRouter, SubscriptionManager, BrokerAdapters, Plugins

`EventDispatch` follows each event through `phase`: at the bus handlers, at the
dispatcher's, in its queue. `Steady` handlers never unsubscribe, `Movers` do.
`MarketRouter` counts: `inFlight` dispatches, what was processed, dropped and
queued. `SubscriptionManager` has one `job` per task and the lock.

`BrokerAdapters` puts one order through one of three adapters: `deal` is the
venue's order, `place` where the executor is, `told` the adapter's last answer.
What the adapters change of the truth is the point: Alpaca forces "cancelled" on
the answer to a cancel, Interactive Brokers answers a cancel with "cancelled"
whatever the trade is, CCXT answers positions with an empty list on any error and
raises when a field of an accepted order is missing.

`Plugins` walks `load` file by file and registry by registry.

### Replay: Replay, ReplayScheduler, ReplayClock, PaperSession, PaperStrategy

`Replay`: `at` says where each caller is suspended, `iter` what its iterators
have yielded, `buffer` what was looked ahead at. The source is taken not to
suspend. `ReplayScheduler`: `loop` holds every task start() ever made. The
recording (`TickTime`, `CandleTime`) is a constant, and so are speeds and sizers.
`PaperSession`: `outbox` is what each call still has to publish, `suspended` the
event its handlers work on, `mirror` what an observer believes. `PaperStrategy`
adds the call of the bridge: feed, ask, place.

### Research: StrategyEngine, Backtest, Research, MonteCarlo, Analytics

`Backtest!OnBrick` is one turn of the loop in the order of the code: fill what
waits, mark, record, ask strategy and rules, make the order. `Finish` settles
what is left. `Research` runs a stage with `workers` that look for a series, load it, run and
record; `Records` is the pool's map, which keeps the place of each trial.
A backtest in it is `Score`, any function of a scenario. `Analytics` counts in
tenths of a cent, its money in cents. A ratio is a pair.
`Marked!Accepted(Snapshot(...))` is the verdict of the constructors.

## 3. The runs

Bounded runs stop when their orders, calls or bricks are used up, so deadlock is
not checked in any of them; that an execution never hangs is
`ExecutionTerminates`, that a stop never hangs `NeverHangs`, that waiting calls
end `PlatformSettles`, `ReplaySettles` and `ResearchSettles`. A property of an `MC`
module is the conjunction of properties its components state one by one; the
names after the colon are theirs.

| run | instance | shows |
|---|---|---|
| `live_single` | 1 symbol, 1 stream, 3 orders, prices 1 and 2, partial fills | `PositionsFollowBroker`, `NeverShort`, `BooksBalance` hold in the fair-weather case, with scaling in and fills turned away; `FillReachesPortfolio` |
| `live_faults` | 1 order, 1 request at a time, modification, all faults but `cancel_ack` | `FillIsReal`; `LostFillHasCause`; `ExecutionTerminates` |
| `live_money` | 2 streams, 2 orders, 1 request at a time, order value limit 4, fee 1, timeouts, failing cancels and saves, stop | `CashNeverNegative`, `CashIsSumOfFills`; `RiskRejectedNeverSent`; `ImplementsLedger` |
| `paper` | 2 orders of every type, prices 2 and 3, quantities 0 to 2, slippage and fee, cash for some of them | `BooksAgree`: `ReservedIsOpenBuys`, `OpenOrdersListed`, `CashIsSumOfFills`; `QuotesAreHonoured`: `NoMissedTouch`, `WaitsForOneQuote`; `EndedIsFinal`, `EveryChangeReported` |
| `stream` | 3 connections, 2 messages, 2 retries, 1 symbol, monitor started at any time or not at all | `StopLeavesNothing`, `NothingLost`; `NeverHangs`: `StopReturns`, `ReconnectsOrGivesUp` |
| `bars` | 5 ticks, 2 callers, buckets of 3, a session; 4 candles of 5 shapes; configurations up to two fields from a good one; prices 1, 4, 5, sizes 0 to 2, 4 bricks, whole life cycle, save and restore at any moment; 3 stages, 2 edges, 1 retry | `CandlesTellTicks`: a candle is its ticks, one for each bucket, closed in time and for good, its last event true; `ComputedAsDefined`: sizes are what the window defines and positive, a pipeline's stages run once and in the order of its edges, each over what those before it left; `WorksAsConfigured`: what is accepted can be built and is restored as saved, a provider survives a snapshot, regimes do not flap, a reference price is a price of its candle, stages are retried as they may be and the events tell it; `BricksTellMarket`: `FollowsMarket`, `BricksSpanMarket`, `EventsTellTurns`, `ReversalTakesTwo`, `NumbersIncrease`, `ResumeIsInvisible` |
| `platform` | 3 events, 2 handlers of which one moves; a queue of 2 and 4 events; 2 tasks, 2 symbols, calls with lists of up to 2, 3 calls; 1 order of 2 lots per adapter; 2 files, 2 registries, 4 plugin calls | `EventsReachHandlers`: `NothingLost`, only a drain overtakes, the dispatcher sees what the bus let pass; `AccountsAgree`: router and subscription accounts, a listed plugin is whole; `AnswersMatchVenue`; `PlatformSettles`: queued is heard, calls end, what was left behind stays |
| `replay` | a tape of 4 times, 2 callers, 2 moves; 2 tasks; clock to 5; a session with 2 orders; a bridge with every sizer | `SessionIsHonest`: observers know the orders, one position, risk bounded by the sizer; `ReplayIsFaithful`: in order, without a gap, quiet once stopped; `ReplaySettles` |
| `research` | 5 inputs; 6 bricks for each strategy and rule set; 6 tasks with 1 and 2 threads, 1 load that raises; rankings of 3; 2 paths; 4 marks; up to 6 trades; 3 copies | `TradingIsHonest`: the position is the one the signals made, fills on the next brick, books balance, the portfolio follows the strategy, rules are obeyed, a run leaves nothing behind; `ResearchIsHonest`: parallel is sequential, what is validated no other training trial beats, loads are bounded; `ResultsAreFaithful`: signals are what the history says, averages and metrics those of their values, every combination is tried once, tested is trained, rankings are orders, simulated paths and allocations are sound, what analytics builds is accepted, but for rates; `ResearchSettles` |

Why the bounds are enough. What goes wrong in live trading goes wrong between the
parties to one order (executor, one request, broker) or between two orders that
share cash or position; two orders and two streams give every such pair, a third
order in `live_single` gives buy, scale in, sell. Prices 1 and 2 give a fill
above, at and below the reference. In `live_money` the largest order there is
(four lots at price 1, or two at 2) is at the limit of the order value and its
sale at a higher price over it, so both outcomes of the risk check occur. Two paper
orders give a pair that competes for the cash and a buy with its sell. Four
bricks hold a gap, a turn and a brick after it; prices 1, 4 and 5 are apart by 1,
3 and 4, which is less than one brick, between one and two, and two of size 2,
and several of size 1. Three connections are the one the runner makes, the one
the monitor makes over it, and one after a restart; two messages can be in two
of the three places (queue, hand, handlers) at once; two retries are one that
fails and one that uses up the attempts.

The hazards of dispatch, replay, aggregation and sessions are pairs of calls, one
suspended and one that comes in between: two callers give each pair, and three
events or ticks one before, one between and one after. A queue of 2 is filled and
overflows with 4 events. Two plugin files give a clash of names or keys; two
registries a failure between registrations. Three stages with two edges are a
chain, a fork and a join. Three closes make the averages of period three leave
their warm-up, and 5 inputs turn them over; 6 bricks enter, exit and enter again
with an order left at the end. Two threads race on one series, and a third would
only do it again. Up to six trades reach the first loss rate at which printed and
exact decimals part (5 of 6; at eight trades and below only 6 and 7 trades do).

`BricksTellMarket`'s price and number properties speak of a chart that is
`intact`: since the last reset neither `configure` nor `start` has run on an
engine that had an anchor. An engine begun again keeps anchor and history and
forgets price, direction and, in the stage, the builder's counter, so none of
them can hold of it; `renko_stage` shows what comes of that. `ReversalTakesTwo`
and `ResumeIsInvisible` hold of every engine.

### Disagreements found

Each is a run that must end with a violation; `PROJECT.json` quotes the text it
contradicts.

| run | trace in a sentence |
|---|---|
| `stream_drop` | the venue drops the connection, the receive loop ends, the stream stays "connected": the monitor sleeps on |
| `renko_stage` | second candle through the pipeline stage: bricks from price 0 |
| `analytics_rates` | five of six trades win: the win rate is the decimal of a printed float, 0.8333333333333334, the loss rate 1/6; their sum exceeds one and the snapshot is refused. The live pipeline builds it at every tick (`live_pipeline.py:142`), after the order was handled and before analytics are saved and the bar index moves on |

More disagreements have been seen as counterexamples of properties the modules
state, under instances that are not among the runs:

| property of `LiveTrading` | when it fails |
|---|---|
| `NeverShort` | two symbols: buy BTC, exit signal on ETH; the quantity falls back to the portfolio's position and ETH is sold short (`live_pipeline.py:160`) |
| `PositionLimit` | two streams: two entries pass the position count before either fills (`oms/risk.py:153`) |
| `CompletedStaysInactive` | synchronise reads "open", the order fills and is booked, the stale answer makes it pending again (`oms/order_sync.py:124`) |
| `PositionsFollowBroker` | recover reads a position that includes a fill whose answer is still on its way; the answer adds it again (`oms/positions.py:168`) |

And these can be read off the models:

* Live: a buy whose fill costs more than the cash is turned away for good
  (`portfolio.py:78`, a cause in `LostFillHasCause`). A sell on a flat book adds
  its proceeds to the cash and closes nothing (`portfolio.py:87`). An order partly
  filled and then cancelled is cancelled without its fill, and one whose cancel is
  acknowledged while still open stays pending with nobody polling it
  (`live_executor.py:123`).
* Adapters: a cancel through Interactive Brokers is answered "cancelled" even for
  a filled order; Alpaca's answer is forced to it; CCXT answers no positions on
  any error, and raises after the venue has accepted an order with a missing field.
* Streaming: symbols subscribed before the connection is made are never sent
  (`websocket.py:114`); two connections made over each other leave one open for
  ever (`websocket.py:55`, `overlap` in the model); a send that fails leaves the
  symbol in the stream's list, so the retry sends nothing (`websocket.py:101`).
* Dispatch: a start of the bridge suspended in its drain sets `started` when it
  resumes, though another start and a stop have come in between: started, with the
  dispatcher stopped (`bridge.py:24`, excepted by `overlapped`).
* Replay: a start after a stop plays the buffered tick first (`controller.py:55`);
  pause and start of the scheduler can leave two tasks playing
  (`scheduler.py:29`); the clock counts paused time if it is looked at while
  paused (`clock.py:30`).
* Aggregation: a late tick for a closed bucket opens its candle again; a month is
  31 days.
* Renko: a move too small for a brick shifts the base, so a brick need not open
  where the last one closed (`engine.py:432`); the stage's new builder starts the
  hybrid numbers of a growing history again (`factory.py:84`); the percentage
  provider keeps its old size for a reference price that is not positive; an ATR
  of period 1 can be zero; a strategy a plugin registered passes the validator but
  is looked for in the built-in registry (`providers.py:277`).
* Plugins: a load that fails half way leaves registrations, and the plugin can
  then never be loaded while the registries live; unload leaves them too.
* Pipeline: a stage that returns a failure is not tried again and is announced as
  completed; cycles are not noticed.
* Paper: the state of a session is never consulted, and closing one leaves its
  feed attached; the bridge hands the sizer equity and price only, so every sizer
  but the fixed quantity raises on a buy; two overlapping calls of the bridge can
  both enter, which `OnePosition` excepts.
* Research: the optimizer ignores the brokerage and slippage of a scenario, which
  the validation runner applies; "loads once" is once for each thread; the
  daily-loss rule uses the result of the whole run; walk-forward chooses again on
  forward data.
* Analytics: `add_*`, `finalize` and `archive` copy without validation, so a final
  or archived report can still grow and hold a member twice; ranking ids depend on
  metric, direction and count alone; a snapshot's maximum drawdown is negative
  (`services.py:289`) while drawdowns rank with the lowest first (`:488`), so the
  deepest fall comes first.

### Fairness

`FairSpec` of `LiveTrading` asks for weak fairness of: the venue answering
`submit_order` (the HTTP client behind CCXT has a timeout, so the call returns or
raises), the loop waking a sleeping executor, the clock passing the fill timeout
when timeouts are enabled, and the loop resuming a coroutine whose call has
returned. Nothing is asked of the API, of ticks, or of the venue's fills:
`ExecutionTerminates` therefore rests on the timeout alone. `FillReachesPortfolio`
starts from a fill that has happened.

For `MarketStream` it asks that coroutines which can go on do, that
`websockets.connect` and `close` return or raise (they have timeouts), that sleeps
end and that handlers return. It asks nothing of the venue, of calls from outside
or of the receive loop's next message. A venue that refuses every connection is
allowed: `ReconnectsOrGivesUp` then ends in giving up.

`EventDispatch` asks that handlers return, so that publisher and drain go on;
`SubscriptionManager` that the stream answers or raises, and strong fairness of
taking the lock, which an asyncio lock gives by serving waiters in their order;
`ReplayScheduler` that its tasks run and `stop` is woken; `Research` that threads
are scheduled and that loads return or raise. `Replay` has one assumption that is the
caller's: somebody keeps stepping a replay that runs, which is strong fairness of
a step, since others may suspend it. Bounds never make a liveness property true:
an exhausted bound only stops new calls, and what was begun can go on.

## 4. The proofs

Every theorem holds for all values of the constants: any number of orders,
streams, requests, symbols, handlers, tasks and files, every set of prices and
every set of faults, but for the hypotheses in the table. What a module assumes
of its constants (positive prices and capital, natural fees and limits, at least
one symbol, queues with a natural size) is stated beside them and evaluated by
every run.

| theorem | states | hypothesis |
|---|---|---|
| `TypeCorrect`, `InductiveInvariant`, `FillsAreReal`, `RiskIsFinal` | `LiveTrading` is typed, invents no fill, never sends a refused order | none |
| `LossesHaveCauses` | a fill that is not booked has a known cause | `"cancel_ack" \notin Faults` |
| `CashIsSafe` | the cash is never negative | no price is below the fee |
| `LedgerInvariant`, `CashAccounted` | the cash is the capital and the effect of each booked fill | none |
| `LedgerRefinement` | `LiveTrading` implements `FillLedger` | no price is below the fee |
| `PositionsFollow` | between ticks the tracked positions are the broker's | no request that awaits, a broker that answers |
| `BooksStayBalanced` | cash, open cost and result account for the capital | one stream, one symbol, no request that awaits, a store that does not raise |
| `StaysLong` | nothing is sold that is not held | those of both lines above |
| `PaperInvariant`, `PaperTyped`, `NoTouchIsMissed`, `EndedOrdersStay`, `ChangesAreReported` | the paper venue's quotes, ends and reports | none |
| `BooksStayTrue` | its reservations, open orders and cash, which is never negative | no price is below the sum of fee and slippage |
| `StreamInvariant`, `StreamTyped`, `StopIsClean`, `EventsInOrder` | the stream stops clean, and its events arrive in order | none |
| `PlatformInvariant`, `PlatformTyped`, `EventsReach`, `AccountsKept`, `AnswersMatch` | the invariants of the run `platform` | none |
| `DropsNewest`, `UnregisteredIsSilent`, `LeftBehindBars` | the action properties of router and plugins | none |
| `EngineInvariant`, `BricksTold` | an engine not begun again is within one brick of the market, its bricks lie between prices seen, events tell turns, numbers increase; a reversal takes two bricks, a restored engine is the saved one | none |
| `AggregationInvariant`, `CandlesTold` | candles are their ticks, one for each bucket, closed in time and for good, and told as they are | none |
| `WorksInvariant`, `WorksRight` | what the validator accepts can be built; engines and providers are restored as saved; regimes do not flap; the events of a pipeline are those of its results | none |
| `ResearchInvariant`, `ResearchHonest` | a search with threads gives what one without gives; what is validated was chosen from training; loads are bounded | none |
| `TradingInvariant`, `TradingHonest` | a strategy reports the position its signals made; a backtest fills with the next brick, its books account for its capital, the portfolio follows the strategy, rules are obeyed, nothing is left behind | none |
| `ReplayInvariant`, `ReplayFaithful` | what is replayed is the recording in order and without a gap, stop is quiet, the clock shows what was played | none |
| `CompletionIsTheEnd`, `StopsArePermanent` | the action properties of the replay controller | none |
| `SessionInvariant`, `SessionsAreHonest`, `ReplayTyped` | observers of a session are right and hear of every order in order and of its end; one position for a strategy; sizers keep to their risk | none |

The hypotheses are needed, not convenient: TLC refutes the property when one of
them is dropped, and most of the counterexamples are among the disagreements above. A
venue that acknowledges a cancel before the order has ended makes the executor
stop looking; a second symbol or stream lets a quantity fall back to the wrong
position; a recover beside an answer on its way counts a fill twice.

### Live trading

`LiveTradingProofs` proves that every action keeps `TypeOK`, by lemmas about the
operators on orders, ledgers, positions, answers and requests. Its hardest point
is not a type but a fact: `EntryOrder` is well typed because the price is positive
and the cash is at least the price (`WholeLots`).

Its second half proves `Inductive == TypeOK /\ Consistent`. The safety
properties are not inductive on their own:

* `FillIsReal` needs the answer in a coroutine's hand to be true when it is used.
  An answer that names an open order may be stale; one that names an ended order
  cannot be, because ended orders do not change (`EndedAnswerIsCurrent`). That a
  filled order is wholly filled is `FilledIsWhole`.
* `RiskRejectedNeverSent` needs that no request has a refused order in its list
  (`RequestsAskSentOrders`), that its execution is over, and that ids are handed
  out in order (`IdsInOrder`).
* `LostFillHasCause` is proved from `UnbookedIsDead`: an execution that ended
  without booking and without an error left an order that can no longer fill. It
  is disturbed by the timeout's cancel, so it needs `CancelEndsOrder`.
* `CashNeverNegative` needs `FillsAreTrades` (price and quantity of a fill are
  positive), for a sell brings in at least one price and costs one fee.

The refinement shows that each step either settles one execution or moves no
money (`Settles`, `Quiet`), and maps the first to a fill with its booking and the
second to a stutter. It adds that nothing is filled or booked before its execution
is over (`OpenIsUnfilled`), that what is booked is filled (`BookedIsFilled`), and
that a refusal the API still holds is about an order that was refused
(`RefusalIsCurrent`). Without the last, a stale "rejected" would undo a fill, which
the ledger does not allow.

The invariant cannot state the equality of tracked and held positions at
every step, since between the venue's fill and its answer they differ. It
counts what is under way: holdings are the tracked position plus what
orders still executing have filled (`Followed`, a total over all orders), and
between ticks that total is nothing. `BooksBalance` needs that one order is in
progress at a time, that positions are long, and that portfolio and tracked
position differ by the buys that were turned away (`BookWithinPosition`).

### Totals and walks

A sum over orders is a recursive function (`Total`), and the passes of the paper
venue over its orders are one as well (`IsWalk`). What they compute is proved by
well-founded induction on a set: `AccountingProofs` shows that changing one entry
by `d` changes the total by `d`, and `PaperExchangeProofs` that a fact every single
turn keeps is kept by the walk.

### Paper venue

The statement that makes a call provable is `Accounted(state, waiting)`: in the
middle of a pass, those that have not had their turn are as they were, the others
have ended, and reservation, cash and report say so. Each turn takes one order
out of `waiting`. `NoTouchIsMissed` then needs only that the three passes together
reach every order a quote touches. `ChangesAreReported` comes from the same
statement, since the end of an order is the last word of the report about it.

### Stream

`TurnsTaken` says which places of `runner`, `monitor` and `stop` go together: no
two disconnects overlap. `OneConnection` says that, unless one connection was made
over another, the socket at hand is the only open one and the loop a disconnect
waits for is its own; `StopIsClean` is what remains of it when all are off.
`EventsInOrder` is about dispatched events, the one in hand and the queue taken as
one sequence: it ascends, and lacks only what a cancellation took from the hand.

### Platform

Each part has an invariant, `PlatformSafe` is their conjunction under `part`.

* Dispatcher: a handler's line is what it has heard followed by the queue. A
  direct event is inserted between the two, a queued one comes at the end, a
  drain moves the border and leaves the line. So "once" and "in order" are facts
  about insertion into sequences, and `OnlyDrainOvertakes` follows from
  `LineInOrder`. `OneDrain` is needed for `StartedMeansRunning`.
* Subscriptions: a call is past the lock exactly when its task holds it
  (`HolderIsInCall`), and a symbol on which record, stream and far side differ is
  the holder's, or has a message unsent (`ListsAgree`).
* Adapters: an answer about an ended order is the venue's own unless it was forced
  (`EndedIsExplained`); an order is filled when all of it is (`FilledIsAll`).
* Plugins: files are listed in their order, so a load is at the first file that is
  not listed, or will list no more (`CallIsPlaced`); what it has passed holds the
  plugin (`LoadIsWhole`). `LeftBehindBars` rests on `Barred`: a registry holds the
  plugin's key and no load under way is past that registry, which no step undoes.
* Router: a dispatch that belongs to a drain is one of those in flight.

The inductive invariants of stream, paper venue, adapters and dispatcher were
themselves checked by TLC on the instances of the runs before they were proved.

### Bars

`EngineSafe` says of every engine that it is typed, that a history has an anchor and
that a reversal is followed by a brick of its direction from where it ended
(`EngineKept`); and of an `intact` chart that the engine's direction is its last
brick's, that the engine is within one brick of the market, and that bricks lie
between prices seen, are announced as the turns they are, and are numbered in
ascending order (`ChartKept`). Nothing is said of a brick opening where the last one
closed: but for the second brick of a reversal it need not. The loop of
`_generate_bricks` is a recursive function of the candle's price; that it ends, and
what it leaves, is proved by descent on the distance left to the price. The saved
snapshot needs no invariant of its own: `RestoredAsSaved` shows that what `Restored`
makes of `Snapshot` is the engine itself, so `twin` is the engine.

`AggregationSafe` has three parts. `MadeOf` says that a candle is what the ticks it
was given make of it, in whatever order they came: the extremes are prices of ticks,
the close is the first to come of the latest time. `Timely` and `OneOpen` relate
candles to `swept`, the latest time at which everything pending was closed: a
candle that should have been closed by then and is open was opened by a late tick,
and so was the second of a bucket. `ToldKept` says that whatever has been told of a
candle is either its present state or about to be corrected by a call that still
holds it (`ToPublish`), which is what makes `LastEventIsTrue` survive calls that
publish a state another has changed meanwhile.

`WorksSafe` is about three parts. `SizeSafe`: the regime is where the changes of
regime led, each leaves the regime the one before it entered, and each but the
first has passed its threshold by the hysteresis (`Cleared`). Two changes that go
there and back then lie on both sides of one threshold, which is `NoFlapping`; it
needs the chain, for from `low` one may come back from `high`. `ConfigSafe`: an
engine fits its configuration (`Fits`), and a snapshot the configuration it was
taken of. `TextNamesTheSame` is what carries it: the text of a configuration, whose
tuples have become lists, resolves to the same components, builds alike and has
itself for text. That what is accepted can be built (`AcceptedBuilds`) goes through
every constructor (`AcceptedIsBuilt`). `PipeSafe` counts: a run has published two
events for each result and one or two more, and which of the two the attempt under
way says.

### Research

`TrialsAreOwned`: a trial that was taken and is not over is one thread's and no
other's, so a result is written once and at its own place. `ResultsAreOwn` and
`StepsAreSequential` say that every result is what its trial comes to on its own,
or that its load raised; the cache decides when a trial waits, never what it finds.
For `LoadsAreBounded` the threads that load a series have to be counted
(`Loaders`): as long as a series is not there, every look was by a thread that
still loads it or by one whose load raised, and when it is there nobody looks any
more. The count changes by one with each step (`FiniteSetTheorems`).
`ChosenFromTraining` needs no more than what the stages hand on.

### Strategies and backtests

A strategy's decision is one operator for each kind, and all of them end in
`Turned`; `Told` says of a state and the one after it that the signal is what became
of the position. The position before a signal is read off the signals so far, and
one more signal extends it (`EngineTells`). What the averages, streaks and day
ranges are is no part of it: the theorem holds whatever moves them.

`BacktestSafe` holds between two bricks.

* `BooksTrue` says what is sound in a book on its own: the ledger balances, the
  realised result is the sum of the trades, the fees are one for each filled order,
  and gross and net differ by the fees paid, less the one of the entry that is still
  open. Buying, selling, recording, marking and cancelling each keep it
  (`BuySettled`, `SellSettled`, `RecordedKeeps`, `MarkedKeeps`, `CancelledKeeps`), and a
  brick is their composition. It counts (`FilledChange`) and adds (`OneMoreTrade`),
  by the lemmas on totals and on cardinalities.
* `WaitingTrue` and `OrdersTold`: at most one order waits, it is the last, it was
  made on the last brick and is priced with its close. So the next brick fills it
  and no other.
* `TradesFollow`: without rules, the portfolio's position is the strategy's one
  brick earlier, and the order that waits makes up the difference. Where it is not,
  the strategy has been long since a brick on which nothing was bought
  (`Unentered`): the entry was turned away, and it is never tried again.
* `StopsTrail`: the highest price a trailing stop remembers is the highest close
  since the entry, and unknown while nothing is held.
* `RulesAreObeyed` is inductive with these: what the list of rules makes of a
  signal is a recursive function, along which an exit stays an exit (`ManagedTells`).
* `EndsSettled`: at the end what waited is cancelled and what is open is closed, so
  the last point of the curve is the capital and the trades.

What is assumed of the constants is that closes lie above the slippage, so that a
sale brings in something; limits and quantities are natural numbers.

### Replay

`SchedulerSafe`: what task `l` published is a run of the recording from `from[l]`
(`PlaysFrom`); unless two tasks were started over each other (`crossed`), a task
that lives is the last one made and the current time is the time of its last tick.
`StoppedIsQuiet` is then that a stopped scheduler has no task alive.
`PlayerSafe`: a kind's position is where the iterator is, less the item in its
buffer. `InOrderSoFar` says that what is in the buffer comes after what was played,
but for an item left from before a seek, which is played first (`Waits`);
`NoGapSoFar` that nothing lies between, as long as only this kind is stepped.
The two action properties need no more than the types: they are about one step.

### Sessions

`TradingSafe` puts the session on `PaperInductive`: a call of the session is a call
of the venue, whose report the session has still to publish. What `PaperExchange`
promises of a report is `CallTells`: it speaks of orders that have ended by this
call, of each a trigger at most and then its end, or it is the one answer about a
new order. From it follow the three parts of `PublicationKept`. `OutboxKept`: an
order is spoken of by one call only, since an order ends once, and it is not waiting
any more (`Settled`). `HeardKept`: of a waiting order nothing was heard but that it
was accepted. `ComesAfter`: so whatever is still to be published of an order comes
later in its life than what was heard, in whichever order the calls go on. `Told`
and `EndsTold` are the observer's properties with orders, mirror and outboxes as
parameters, so that a call is shown in two moves, the report joining the outbox of
its call and the first event leaving it; the second one is the same for a call and
for a handler that returns. A handler that raises moves an outbox to `lost`.

`OnBridge` is what makes `OnePosition` inductive: no limit or stop order rests, and
as long as calls do not overlap only one is under way, it finds no order waiting
when it asks the strategy, and a buy that waits is of the sizer's quantity. A market
update over one waiting order is then one turn (`OnesTurn`). `RiskKept` is
arithmetic: what a quotient loses, and that a share of a share is not more than the
whole; a sizer that knows neither stop, range nor payoff raises, so a bridge's
quantity is a whole one (`WholeSize`).

### Not proved

Liveness (`ExecutionTerminates`, `FillReachesPortfolio`, `NeverHangs`,
`QueuedIsHeard`, `CallsEnd`, the waiting parts of `ReplaySettles` and
`ResearchSettles`) and whatever needs ENABLED is out of the prover's reach. The
order a pipeline computes, rankings, metrics and curves go through recursive
functions and folds, on which the prover has no induction; TLC compares them with
their definitions over bounded inputs (`ComputedAsDefined`, `ResultsAreFaithful`,
and the types of `bars` and `research`, which hold such values). That a strategy's
signals are those of its averages, streaks and day ranges is one of these: the
proofs take a signal as given and show what becomes of it.

## 5. What is not modelled

* The venue beyond its answers: fees, several fill prices, ids that change. In
  `BrokerAdapters` what an adapter reads of the venue is current.
* A second process after a crash: the OMS persists nothing it reads back, and
  its ids start again.
* Reconfiguring a live runtime while the old one runs.
* Event publication inside `process_market_data` of the Renko engine.
* Floating point: the code's tolerances (1e-9) have no counterpart. The one place
  where a float's printed value matters, the win rate, is a table
  (`Analytics!FloatsAbove`) valid for up to eight trades.
* Ratios that need a root (Sharpe, Sortino, volatility) but for their sign, and
  annualised values; quantities are whole lots.
* Loading, caching and validating market data files; the strategy loader; chart
  types other than Renko; session names and latency.
* API plumbing, authentication, repositories, mappers, logs, front end,
  deployment: request and response, input and output, without control of their
  own.

## 6. Plan

1. Done: live trading with its proofs, the paper exchange, the Renko engine and
   the stream.
2. Done: dispatch, router, subscriptions, adapters, plugins and pipeline; replay,
   scheduler, clock, session and strategy bridge; candles, brick sizes and
   configurations; strategies, backtests, research and analytics.
3. Done: the proofs of section 4, which cover live trading, the paper venue, the
   stream, the platform's plumbing, the Renko engine, candle aggregation, brick
   sizes, the wiring of engines, the pipeline's runs, replay with its scheduler
   and clock, sessions with a strategy on them, strategies' positions and whole
   backtests, and the research stages.
4. Left for TLC: liveness, and what folds and recursive functions compute.
