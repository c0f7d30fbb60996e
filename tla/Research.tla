------------------------------ MODULE Research ------------------------------
(***************************************************************************)
(* Strategy research with a pool of threads: the grid search of            *)
(* backtesting/research/optimizer.py, the walk-forward analysis over it    *)
(* (walk_forward.py), the validation runner (validation/runner.py) and the *)
(* brick data source they share (validation/dataset.py), which looks for a *)
(* series and loads it in two steps.                                       *)
(*                                                                         *)
(* A task is [mode, strategies, symbols, bricks, ranges, risks, axes,      *)
(* metric, maximize, windows, pool].  The stages of a window run one after *)
(* the other: training, validation, forward; a validation run ("validate") *)
(* is one stage over the scenarios of its matrix.                          *)
(***************************************************************************)
EXTENDS Selection

CONSTANTS
    Tasks,               \* the requests
    Score(_, _, _),      \* the metrics of a backtest: scenario, risk rules, with costs
    MaxRaises            \* bound: loads that raise

VARIABLES
    task, window, stage,
    space,               \* the axes of the stage
    trials, results,     \* of the stage; NoResult while a trial is not over
    next,                \* the trial the pool takes next
    workers,             \* [trial, at] of each thread, trial 0 when idle
    cache,               \* the series that are loaded
    loads,               \* load_count, for each series
    raised,              \* history: the loads that raised, as [stage, trial]
    steps                \* the stages that are over

vars == <<task, window, stage, space, trials, results, next, workers, cache, loads, raised, steps>>

ResearchConstants == \A t \in Tasks : t.pool \in Nat \ {0} /\ t.mode \in {"optimize", "validate"}

NoResult == [status |-> "open"]
Failed == [status |-> "failed", metrics |-> NoParameters]
Idle == [trial |-> 0, at |-> "idle"]

(* make_key *)
SeriesOf(scenario) == <<scenario.symbol, scenario.brick, scenario.range>>

AnyRange == <<"from", "to">>
StageTrials(t, axes, range) ==
    IF t.mode = "validate" THEN MatrixScenarios(t, axes) ELSE Trials([t EXCEPT !.ranges = <<range>>], axes)
RangeOf(t, n, name) == IF t.mode = "validate" THEN AnyRange ELSE t.windows[n][name]

Starts(n, name, axes) ==
    LET ts == StageTrials(task, axes, RangeOf(task, n, name)) IN
    /\ window' = n /\ stage' = name /\ space' = axes
    /\ trials' = ts /\ results' = [i \in DOMAIN ts |-> NoResult]
    /\ next' = 1

TypeOK ==
    /\ task \in Tasks
    /\ stage \in {"training", "validation", "forward", "over"}
    /\ DOMAIN results = DOMAIN trials
    /\ next \in 1..(Len(trials) + 1)
    /\ \A w \in DOMAIN workers : workers[w].trial \in 0..Len(trials)
    /\ cache \subseteq DOMAIN loads
    /\ Cardinality(raised) <= MaxRaises

Init ==
    /\ task \in Tasks
    /\ window = 1 /\ stage = "training" /\ space = task.axes
    /\ trials = StageTrials(task, task.axes, RangeOf(task, 1, "training"))
    /\ results = [i \in DOMAIN trials |-> NoResult]
    /\ next = 1
    /\ workers = [w \in 1..task.pool |-> Idle]
    /\ cache = {} /\ loads = [key \in {} |-> 0] /\ raised = {} /\ steps = <<>>

-----------------------------------------------------------------------------
(* With one thread or one trial the trials run one after the other *)
Threads == IF task.pool > 1 /\ Len(trials) > 1 THEN DOMAIN workers ELSE {1}

(* Mutant: the pool takes one more than there is. *)
TakePastEnd(w) ==
    /\ w \in Threads /\ workers[w] = Idle /\ next <= Len(trials) + 1
    /\ next' = next + 1
    /\ workers' = [workers EXCEPT ![w] = [trial |-> next, at |-> "taken"]]
    /\ UNCHANGED <<task, window, stage, space, trials, results, cache, loads, raised, steps>>

(* executor.map: trials are taken in their order *)
Take(w) ==
    /\ w \in Threads /\ workers[w] = Idle /\ next \in DOMAIN trials
    /\ next' = next + 1
    /\ workers' = [workers EXCEPT ![w] = [trial |-> next, at |-> "taken"]]
    /\ UNCHANGED <<task, window, stage, space, trials, results, cache, loads, raised, steps>>

Ends(w, result) ==
    /\ results' = [results EXCEPT ![workers[w].trial] = result]
    /\ workers' = [workers EXCEPT ![w] = Idle]
    /\ UNCHANGED <<task, window, stage, space, trials, next, steps>>

(* The strategy's constructor refuses what it does not know or accept *)
Builds(scenario) ==
    LET values == scenario.values IN
    /\ DOMAIN values \subseteq AcceptedBy(scenario.strategy)
    /\ \A name \in DOMAIN values : values[name] > 0 \/ (name = "buffer" /\ values[name] = 0)

(* load_count *)
Counted(key) ==
    LET Before(k) == IF k \in DOMAIN loads THEN loads[k] ELSE 0
    IN [k \in DOMAIN loads \cup {key} |-> IF k = key THEN Before(k) + 1 ELSE Before(k)]

(* Mutant: a series is loaded whether it is there or not. *)
LooksForNothing(w) ==
    LET scenario == trials[workers[w].trial].scenario
        key == SeriesOf(scenario)
    IN /\ workers[w].at = "taken" /\ Builds(scenario)
       /\ workers' = [workers EXCEPT ![w].at = "loading"]
       /\ loads' = Counted(key)
       /\ UNCHANGED <<task, window, stage, space, trials, results, next, cache, raised, steps>>

(* get_bricks: a series that is not there is counted and loaded; another   *)
(* thread may look for it meanwhile                                        *)
LooksForSeries(w) ==
    LET scenario == trials[workers[w].trial].scenario
        key == SeriesOf(scenario)
    IN /\ workers[w].at = "taken" /\ Builds(scenario)
       /\ workers' = [workers EXCEPT ![w].at = IF key \in cache THEN "running" ELSE "loading"]
       /\ loads' = IF key \in cache THEN loads ELSE Counted(key)
       /\ UNCHANGED <<task, window, stage, space, trials, results, next, cache, raised, steps>>

Refused(w) ==
    /\ workers[w].at = "taken" /\ ~Builds(trials[workers[w].trial].scenario)
    /\ Ends(w, Failed)
    /\ UNCHANGED <<cache, loads, raised>>

(* The answer of the loader *)
Loaded(w) ==
    /\ workers[w].at = "loading"
    /\ cache' = cache \cup {SeriesOf(trials[workers[w].trial].scenario)}
    /\ workers' = [workers EXCEPT ![w].at = "running"]
    /\ UNCHANGED <<task, window, stage, space, trials, results, next, loads, raised, steps>>

(* Mutant: an exception of the loader is not caught, the thread is lost. *)
LoadKillsThread(w) ==
    /\ workers[w].at = "loading" /\ Cardinality(raised) < MaxRaises
    /\ raised' = raised \cup {[stage |-> Len(steps) + 1, trial |-> workers[w].trial]}
    /\ workers' = [workers EXCEPT ![w].at = "lost"]
    /\ UNCHANGED <<task, window, stage, space, trials, results, next, cache, loads, steps>>

(* A load that raises fails its trial and leaves the cache as it is *)
LoadRaises(w) ==
    /\ workers[w].at = "loading" /\ Cardinality(raised) < MaxRaises
    /\ raised' = raised \cup {[stage |-> Len(steps) + 1, trial |-> workers[w].trial]}
    /\ Ends(w, Failed)
    /\ UNCHANGED <<cache, loads>>

(* The backtest; a portfolio refuses a leverage that is not positive.  The *)
(* optimizer runs it with the risk rules of the parameters and without     *)
(* costs, the validation runner with the scenario's costs and no rules.    *)
ResultOf(trial) ==
    IF ~Builds(trial.scenario) \/ trial.scenario.risk.leverage <= 0 THEN Failed
    ELSE [status |-> "completed",
          metrics |-> Score(trial.scenario, RulesOf(trial.params), task.mode = "validate")]

Run(w) ==
    /\ workers[w].at = "running"
    /\ Ends(w, ResultOf(trials[workers[w].trial]))
    /\ UNCHANGED <<cache, loads, raised>>

-----------------------------------------------------------------------------
StepOf(s) == [window |-> window, stage |-> s, trials |-> trials, results |-> results]
Winner == Best(results, task.metric, task.maximize)

(* The stage is over when all its trials are *)
Records ==
    /\ stage # "over" /\ \A i \in DOMAIN results : results[i] # NoResult
    /\ steps' = Append(steps, StepOf(stage))

(* After the last window the analysis is over *)
Continues ==
    IF task.mode = "validate" \/ window = Len(task.windows)
    THEN stage' = "over" /\ UNCHANGED <<window, space, trials, results, next>>
    ELSE Starts(window + 1, "training", task.axes)

(* Mutant: the forward test selects among all parameters again. *)
ConcludeWithSpace ==
    /\ Records
    /\ IF task.mode = "validate" \/ stage = "forward" \/ (stage = "training" /\ Winner = 0)
       THEN Continues
       ELSE Starts(window, IF stage = "training" THEN "validation" ELSE "forward", task.axes)
    /\ UNCHANGED <<task, workers, cache, loads, raised>>

(* analyze: the parameters of the best training trial are validated and    *)
(* tested; the strategies, symbols and bricks of the task are all run with *)
(* them again, and without a best trial the window has only its training   *)
Conclude ==
    /\ Records
    /\ IF task.mode = "validate" \/ stage = "forward" \/ (stage = "training" /\ Winner = 0)
       THEN Continues
       ELSE IF stage = "training" THEN Starts(window, "validation", Single(trials[Winner].params))
       ELSE Starts(window, "forward", Single(trials[1].params))
    /\ UNCHANGED <<task, workers, cache, loads, raised>>

Next ==
    \/ \E w \in DOMAIN workers :
           Take(w) \/ Refused(w) \/ LooksForSeries(w) \/ Loaded(w) \/ LoadRaises(w) \/ Run(w)
    \/ Conclude

(* Threads are scheduled, a loader returns or raises, and who waits for    *)
(* the results goes on: only Conclude extends the record.                  *)
Fairness ==
    /\ WF_steps(Records)
    /\ \A w \in 1..2 :
           WF_vars(w \in DOMAIN workers /\ (Take(w) \/ Refused(w) \/ LooksForSeries(w) \/ Loaded(w) \/ LoadRaises(w) \/ Run(w)))

Spec == Init /\ [][Next]_vars /\ Fairness

-----------------------------------------------------------------------------
(* Parallel or not, and in whatever order the threads finish and load, the *)
(* results of a stage are those of running its trials one after the other, *)
(* in their order, but for the trials whose load raised (optimize, "deter- *)
(* ministic grid-search"; "never abort the batch", runner.py).             *)
ParallelIsSequential ==
    \A n \in DOMAIN steps : LET s == steps[n] IN
        \A i \in DOMAIN s.trials :
            s.results[i] = IF [stage |-> n, trial |-> i] \in raised THEN Failed ELSE ResultOf(s.trials[i])

(* Every combination of the task is tried once, and no two trials that     *)
(* differ in anything, be it only a risk rule, are taken for one           *)
(* (_build_trials): said of the stage that was over last.                  *)
EveryCombinationIsTried ==
    steps # <<>> /\ Last(steps).stage = "training" /\ task.mode = "optimize" =>
        LET s == Last(steps)
            names == {task.axes[i].name : i \in DOMAIN task.axes}
            values(name) == UNION {ToSet(task.axes[i].values) : i \in {k \in DOMAIN task.axes : task.axes[k].name = name}}
            grid == {p \in [names -> UNION {values(name) : name \in names}] : \A name \in names : p[name] \in values(name)}
            Tried(st, sy, b, r, p) ==
                Cardinality({i \in DOMAIN s.trials :
                    /\ s.trials[i].params = p /\ s.trials[i].scenario.strategy = st
                    /\ s.trials[i].scenario.symbol = sy
                    /\ s.trials[i].scenario.risk = Overridden(r, p)
                    /\ s.trials[i].scenario.brick = OrElse(Coerced(p, "brick_size", b), b)})
        IN \A st \in ToSet(task.strategies), sy \in ToSet(task.symbols), b \in ToSet(task.bricks),
              r \in ToSet(task.risks), p \in grid : Tried(st, sy, b, r, p) = 1

(* No completed trial has a better value than trial i of these results. *)
NoneBeats(outcomes, i) ==
    LET Value(k) == Metric(outcomes[k], task.metric) IN
    /\ i \in Completed(outcomes) /\ Value(i) # NoValue
    /\ \A k \in Completed(outcomes) : Value(k) = NoValue
           \/ (IF task.maximize THEN Value(k) <= Value(i) ELSE Value(k) >= Value(i))

(* Walking forward looks at no later data to choose: what is validated in  *)
(* a window are the parameters of a training trial of the same window that *)
(* no other beats and that did not fail, what is tested are those that     *)
(* were validated (analyze).                                               *)
ChosenFromTraining ==
    task.mode = "optimize" /\ stage \in {"validation", "forward"} =>
        LET before == Last(steps)
        IN /\ steps # <<>> /\ before.window = window
           /\ stage = "validation" =>
                 /\ before.stage = "training"
                 /\ \E i \in DOMAIN before.results :
                        NoneBeats(before.results, i) /\ space = Single(before.trials[i].params)
           /\ stage = "forward" =>
                 before.stage = "validation" /\ space = Single(before.trials[1].params)

(* Every trial of a validation or a test has the parameters that won, and  *)
(* the window's own range, once for each strategy, symbol, brick and risk, *)
(* the winner itself among them (analyze).                                 *)
TestedIsTrained ==
    steps # <<>> /\ Last(steps).stage # "training" /\ task.mode = "optimize" =>
        LET s == Last(steps)
            t == steps[Len(steps) - (IF s.stage = "validation" THEN 1 ELSE 2)]
        IN /\ \E i \in DOMAIN t.results :
                  /\ NoneBeats(t.results, i)
                  /\ \A k \in DOMAIN s.trials : s.trials[k].params = t.trials[i].params
                  /\ \E k \in DOMAIN s.trials :
                         s.trials[k].scenario = [t.trials[i].scenario EXCEPT !.range = task.windows[s.window][s.stage]]
           /\ \A k \in DOMAIN s.trials : s.trials[k].scenario.range = task.windows[s.window][s.stage]

(* A series is loaded at most once for each thread that looked for it      *)
(* before it was there, and again for a load that raised: a loaded series  *)
(* is never loaded again (CachingBrickDataSource, "loads once, reuses").   *)
LoadsAreBounded == \A key \in DOMAIN loads : loads[key] <= task.pool + Cardinality(raised)

(* An analysis ends, whatever raises. *)
AnalysisEnds == <>(stage = "over")
=============================================================================
