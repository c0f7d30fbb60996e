--------------------------- MODULE ResearchProofs ---------------------------
(***************************************************************************)
(* What the run of research checks of the pool of threads, of the data     *)
(* source the threads share and of walking forward, proved for any tasks,  *)
(* any metrics, any number of threads and any number of loads that raise;  *)
(* and what it checks of a strategy's engine and of a backtest, for any    *)
(* prices, rules, capital, fees and slippage and any number of bricks.     *)
(***************************************************************************)
EXTENDS MCResearch, AccountingProofs, FiniteSetTheorems

LEMMA SameCardinality == \A S : Search!Cardinality(S) = Cardinality(S)
BY DEF Search!Cardinality, Cardinality

-----------------------------------------------------------------------------
(***************************************************************************)
(* The invariant.                                                          *)
(***************************************************************************)

Places == {"idle", "taken", "loading", "running"}

(* What a trial comes to when it is run on its own *)
ResultIn(mode, trial) ==
    IF ~Search!Builds(trial.scenario) \/ trial.scenario.risk.leverage <= 0 THEN Search!Failed
    ELSE [status |-> "completed",
          metrics |-> Score(trial.scenario, Search!RulesOf(trial.params), mode = "validate")]

(* The record of a load that raised *)
Raise(n, i) == [stage |-> n, trial |-> i]

Expected(n, i, trial) == IF Raise(n, i) \in raised THEN Search!Failed ELSE ResultIn(task.mode, trial)

(* The threads that load a series *)
Loads(w, key) == workers[w].at = "loading" /\ Search!SeriesOf(trials[workers[w].trial].scenario) = key
Loaders(key) == {w \in DOMAIN workers : Loads(w, key)}

Flies(w) == workers[w].at # "idle"

PoolTyped ==
    /\ task \in Tasks
    /\ stage \in {"training", "validation", "forward", "over"}
    /\ workers \in [1..task.pool -> [trial : Nat, at : Places]]
    /\ \A w \in DOMAIN workers : workers[w].at = "idle" => workers[w] = Search!Idle
    /\ next \in Nat \ {0}
    /\ results = [i \in DOMAIN trials |-> results[i]]
    /\ \E S : steps \in Seq(S)
    /\ IsFiniteSet(raised) /\ raised \subseteq [stage : 1..(Len(steps) + 1), trial : Nat]

(* A thread's trial was taken, has no result, and is no other thread's. *)
TrialsAreOwned ==
    /\ \A w \in DOMAIN workers : Flies(w) =>
           /\ workers[w].trial \in 1..(next - 1) /\ workers[w].trial \in DOMAIN trials
           /\ results[workers[w].trial] = Search!NoResult
           /\ Raise(Len(steps) + 1, workers[w].trial) \notin raised
    /\ \A v, w \in DOMAIN workers : Flies(v) /\ Flies(w) /\ workers[v].trial = workers[w].trial => v = w
    /\ \A i \in DOMAIN trials : results[i] # Search!NoResult => i \in 1..(next - 1)
    /\ \A i : Raise(Len(steps) + 1, i) \in raised => i \in 1..(next - 1)

(* The results of the stage under way, and of those that are over, are     *)
(* those of the trials run one after the other.                            *)
ResultsAreOwn ==
    stage # "over" => \A i \in DOMAIN trials :
        results[i] = Search!NoResult \/ results[i] = Expected(Len(steps) + 1, i, trials[i])

StepsAreSequential ==
    \A n \in DOMAIN steps : \A i \in DOMAIN steps[n].trials :
        steps[n].results[i] = Expected(n, i, steps[n].trials[i])

OverIsOver == stage = "over" => \A i \in DOMAIN trials : results[i] # Search!NoResult

(* Until a series is there, whoever looked for it still loads it or raised. *)
LoadsAreLooks ==
    /\ loads \in [DOMAIN loads -> Nat]
    /\ \A key \in DOMAIN loads :
        /\ loads[key] <= task.pool + Cardinality(raised)
        /\ key \notin cache => loads[key] <= Cardinality(Loaders(key)) + Cardinality(raised)

ResearchSafe ==
    /\ PoolTyped /\ TrialsAreOwned /\ ResultsAreOwn /\ StepsAreSequential /\ OverIsOver
    /\ LoadsAreLooks /\ Search!ChosenFromTraining

LEMMA SameResult == \A trial : Search!ResultOf(trial) = ResultIn(task.mode, trial)
BY DEF Search!ResultOf, ResultIn

-----------------------------------------------------------------------------
(***************************************************************************)
(* Each step keeps it.                                                     *)
(***************************************************************************)

LEMMA ResearchBegins == Search!Init => ResearchSafe
<1>1. SUFFICES ASSUME Search!Init PROVE ResearchSafe
  OBVIOUS
<1>2. task \in Tasks /\ task.pool \in Nat \ {0}
  BY <1>1, ResearchInstance DEF Search!Init, Search!ResearchConstants
<1>3. /\ steps = <<>> /\ raised = {} /\ next = 1 /\ stage = "training" /\ DOMAIN loads = {}
      /\ loads = [key \in {} |-> 0]
      /\ workers = [w \in 1..task.pool |-> Search!Idle]
      /\ results = [i \in DOMAIN trials |-> Search!NoResult]
  BY <1>1 DEF Search!Init
<1>4. \E S : steps \in Seq(S)
  <2>1. steps \in Seq({})
    BY <1>3
  <2>2. QED
    BY <2>1
<1>5. PoolTyped
  BY <1>2, <1>3, <1>4, FS_EmptySet DEF PoolTyped, Search!Idle, Places
<1>6. TrialsAreOwned
  BY <1>2, <1>3 DEF TrialsAreOwned, Flies, Search!Idle
<1>7. ResultsAreOwn /\ OverIsOver /\ StepsAreSequential
  BY <1>3 DEF ResultsAreOwn, OverIsOver, StepsAreSequential
<1>8. LoadsAreLooks
  BY <1>3 DEF LoadsAreLooks
<1>9. Search!ChosenFromTraining
  BY <1>3 DEF Search!ChosenFromTraining
<1>10. QED
  BY <1>5, <1>6, <1>7, <1>8, <1>9 DEF ResearchSafe

(* Threads of the pool, and its size *)
LEMMA PoolSize ==
    ASSUME PoolTyped
    PROVE  /\ task.pool \in Nat \ {0} /\ DOMAIN workers = 1..task.pool
           /\ Cardinality(raised) \in Nat
           /\ \A key : Loaders(key) \in SUBSET (1..task.pool) /\ IsFiniteSet(Loaders(key))
           /\ \A key : Cardinality(Loaders(key)) \in Nat /\ Cardinality(Loaders(key)) <= task.pool
<1>1. task.pool \in Nat \ {0} /\ DOMAIN workers = 1..task.pool
  BY ResearchInstance DEF PoolTyped, Search!ResearchConstants
<1>2. IsFiniteSet(1..task.pool) /\ Cardinality(1..task.pool) = task.pool
  BY <1>1, FS_Interval
<1>3. \A key : Loaders(key) \in SUBSET (1..task.pool)
  BY <1>1 DEF Loaders
<1>4. \A key : IsFiniteSet(Loaders(key)) /\ Cardinality(Loaders(key)) <= task.pool
  BY <1>2, <1>3, FS_Subset, Zenon
<1>5. QED
  BY <1>1, <1>3, <1>4, FS_CardinalityType DEF PoolTyped

LoadersCounted == \A key : Cardinality(Loaders(key)) \in Nat /\ Cardinality(Loaders(key)) <= task.pool

LEMMA CountsLoaders == PoolTyped => LoadersCounted
BY PoolSize DEF LoadersCounted

LEMMA TakeKeeps ==
    ASSUME ResearchSafe, NEW w \in DOMAIN workers, Search!Take(w)
    PROVE  ResearchSafe'
<1>1. /\ workers[w].at = "idle" /\ workers[w].trial = 0 /\ next \in DOMAIN trials /\ next' = next + 1
      /\ workers' = [workers EXCEPT ![w] = [trial |-> next, at |-> "taken"]]
      /\ UNCHANGED <<task, window, stage, space, trials, results, cache, loads, raised, steps>>
  BY DEF Search!Take, Search!Idle
<1>2. next \in Nat \ {0} /\ DOMAIN workers = 1..task.pool /\ task.pool \in Nat
  BY PoolSize DEF ResearchSafe, PoolTyped
<1>3. PoolTyped'
  BY <1>1, <1>2 DEF ResearchSafe, PoolTyped, Places
<1>4. DOMAIN workers' = DOMAIN workers /\ \A v \in DOMAIN workers : v # w => workers'[v] = workers[v]
  BY <1>1 DEF ResearchSafe, PoolTyped
<1>5. workers'[w] = [trial |-> next, at |-> "taken"]
  BY <1>1 DEF ResearchSafe, PoolTyped
<1>6. TrialsAreOwned'
  <2>1. results[next] = Search!NoResult /\ Raise(Len(steps) + 1, next) \notin raised
    BY <1>1, <1>2 DEF ResearchSafe, TrialsAreOwned
  <2>2. \A v \in DOMAIN workers : Flies(v)' =>
           /\ workers'[v].trial \in 1..next /\ workers'[v].trial \in DOMAIN trials
           /\ results[workers'[v].trial] = Search!NoResult
           /\ Raise(Len(steps) + 1, workers'[v].trial) \notin raised
    BY <1>1, <1>2, <1>4, <1>5, <2>1 DEF ResearchSafe, TrialsAreOwned, Flies
  <2>3. \A u, v \in DOMAIN workers : Flies(u)' /\ Flies(v)' /\ workers'[u].trial = workers'[v].trial => u = v
    <3>1. \A v \in DOMAIN workers : v # w /\ Flies(v) => workers[v].trial # next
      BY <1>2 DEF ResearchSafe, TrialsAreOwned
    <3>2. QED
      BY <3>1, <1>1, <1>4, <1>5 DEF ResearchSafe, TrialsAreOwned, Flies
  <2>4. \A i \in DOMAIN trials : results[i] # Search!NoResult => i \in 1..next
    BY <1>2 DEF ResearchSafe, TrialsAreOwned
  <2>5. \A i : Raise(Len(steps) + 1, i) \in raised => i \in 1..next
    BY <1>2 DEF ResearchSafe, TrialsAreOwned
  <2>6. next' - 1 = next
    BY <1>1, <1>2
  <2>7. QED
    BY <1>1, <1>4, <2>2, <2>3, <2>4, <2>5, <2>6 DEF TrialsAreOwned, Raise
<1>7. (ResultsAreOwn /\ OverIsOver /\ StepsAreSequential)'
  BY <1>1 DEF ResearchSafe, ResultsAreOwn, OverIsOver, StepsAreSequential, Expected, Raise
<1>8. \A key : Loaders(key)' = Loaders(key)
  BY <1>1, <1>4, <1>5 DEF Loaders, Loads
<1>9. LoadsAreLooks'
  BY <1>1, <1>8 DEF ResearchSafe, LoadsAreLooks
<1>10. Search!ChosenFromTraining'
  BY <1>1 DEF ResearchSafe, Search!ChosenFromTraining, Search!NoneBeats
<1>11. QED
  BY <1>3, <1>6, <1>7, <1>9, <1>10 DEF ResearchSafe

(* A trial is over: with what it comes to on its own, or with a record of  *)
(* the load that raised.                                                   *)
LEMMA EndKeeps ==
    ASSUME ResearchSafe, NEW w \in DOMAIN workers, Flies(w), NEW result, Search!Ends(w, result),
           UNCHANGED <<cache, loads>>,
           \/ /\ raised' = raised /\ result = ResultIn(task.mode, trials[workers[w].trial])
              /\ workers[w].at # "loading"
           \/ /\ raised' = raised \cup {Raise(Len(steps) + 1, workers[w].trial)} /\ result = Search!Failed
              /\ workers[w].at = "loading"
    PROVE  ResearchSafe'
<1>0. PICK mine, now : mine = workers[w].trial /\ now = Len(steps) + 1
  OBVIOUS
<1>1. /\ results' = [results EXCEPT ![mine] = result]
      /\ workers' = [workers EXCEPT ![w] = Search!Idle]
      /\ UNCHANGED <<task, window, stage, space, trials, next, steps, cache, loads>>
  BY <1>0 DEF Search!Ends
<1>2. /\ DOMAIN workers = 1..task.pool /\ task.pool \in Nat /\ next \in Nat \ {0}
      /\ mine \in 1..(next - 1) /\ mine \in DOMAIN trials /\ results[mine] = Search!NoResult
      /\ Raise(now, mine) \notin raised /\ Len(steps) \in Nat
  BY <1>0, PoolSize DEF ResearchSafe, PoolTyped, TrialsAreOwned
<1>3. /\ DOMAIN workers' = DOMAIN workers /\ workers'[w] = Search!Idle
      /\ \A v \in DOMAIN workers : v # w => workers'[v] = workers[v]
      /\ DOMAIN results' = DOMAIN trials /\ results'[mine] = result
      /\ \A i \in DOMAIN trials : i # mine => results'[i] = results[i]
  BY <1>1, <1>2 DEF ResearchSafe, PoolTyped
<1>4. result # Search!NoResult
  BY DEF ResultIn, Search!Failed, Search!NoResult
<1>5. \A n, i : n # now \/ i # mine => (Raise(n, i) \in raised' <=> Raise(n, i) \in raised)
  BY <1>0 DEF Raise
<1>6. PoolTyped'
  <2>1. results' = [i \in DOMAIN trials |-> results'[i]]
    BY <1>1, <1>2 DEF ResearchSafe, PoolTyped
  <2>2. IsFiniteSet(raised')
    <3>1. IsFiniteSet(raised)
      BY DEF ResearchSafe, PoolTyped
    <3>2. IsFiniteSet(raised \cup {Raise(now, mine)})
      BY <3>1, FS_AddElement
    <3>3. raised' = raised \/ raised' = raised \cup {Raise(now, mine)}
      BY <1>0
    <3>4. QED
      BY <3>1, <3>2, <3>3, Zenon
  <2>3. raised' \subseteq [stage : 1..now, trial : Nat]
    BY <1>0, <1>2 DEF ResearchSafe, PoolTyped, Raise
  <2>4. workers' \in [1..task.pool -> [trial : Nat, at : Places]]
    BY <1>1, <1>2 DEF ResearchSafe, PoolTyped, Search!Idle, Places
  <2>5. \A v \in DOMAIN workers' : workers'[v].at = "idle" => workers'[v] = Search!Idle
    BY <1>3 DEF ResearchSafe, PoolTyped
  <2>6. QED
    BY <1>0, <1>1, <2>1, <2>2, <2>3, <2>4, <2>5 DEF ResearchSafe, PoolTyped
<1>7. TrialsAreOwned'
  <2>1. \A v \in DOMAIN workers : Flies(v)' => v # w /\ Flies(v) /\ workers'[v] = workers[v] /\ workers[v].trial # mine
    BY <1>0, <1>3 DEF ResearchSafe, TrialsAreOwned, Flies, Search!Idle
  <2>2. \A v \in DOMAIN workers : Flies(v)' =>
           /\ workers'[v].trial \in 1..(next - 1) /\ workers'[v].trial \in DOMAIN trials
           /\ results'[workers'[v].trial] = Search!NoResult
           /\ Raise(now, workers'[v].trial) \notin raised'
    BY <1>0, <2>1, <1>3, <1>5 DEF ResearchSafe, TrialsAreOwned
  <2>3. \A u, v \in DOMAIN workers : Flies(u)' /\ Flies(v)' /\ workers'[u].trial = workers'[v].trial => u = v
    BY <2>1 DEF ResearchSafe, TrialsAreOwned
  <2>4. \A i \in DOMAIN trials : results'[i] # Search!NoResult => i \in 1..(next - 1)
    BY <1>2, <1>3 DEF ResearchSafe, TrialsAreOwned
  <2>5. \A i : Raise(now, i) \in raised' => i \in 1..(next - 1)
    BY <1>0, <1>2, <1>5 DEF ResearchSafe, TrialsAreOwned
  <2>6. QED
    BY <1>0, <1>1, <1>3, <2>2, <2>3, <2>4, <2>5 DEF TrialsAreOwned, Raise
<1>8. \A n, i, trial : n # now \/ i # mine => Expected(n, i, trial)' = Expected(n, i, trial)
  BY <1>1, <1>5 DEF Expected, Raise
<1>9. ResultsAreOwn'
  <2>1. result = IF Raise(now, mine) \in raised' THEN Search!Failed ELSE ResultIn(task.mode, trials[mine])
    BY <1>0, <1>2
  <2>2. \A i \in DOMAIN trials : i # mine => Expected(now, i, trials[i])' = Expected(now, i, trials[i])
    BY <1>1, <1>8 DEF Expected, Raise
  <2>3. stage # "over" => \A i \in DOMAIN trials : results'[i] = Search!NoResult \/ results'[i] = Expected(now, i, trials[i])'
    BY <1>0, <1>1, <1>3, <2>1, <2>2 DEF ResearchSafe, ResultsAreOwn, Expected, Raise
  <2>4. QED
    BY <1>0, <1>1, <2>3 DEF ResultsAreOwn, Expected, Raise
<1>10. StepsAreSequential'
  <2>1. \A n \in DOMAIN steps : n # now
    BY <1>0, <1>2 DEF ResearchSafe, PoolTyped
  <2>2. QED
    BY <2>1, <1>1, <1>5 DEF ResearchSafe, StepsAreSequential, Expected
<1>11. OverIsOver'
  BY <1>1, <1>3, <1>4 DEF ResearchSafe, OverIsOver
<1>12. LoadsAreLooks'
  <2>1. \A key : Cardinality(Loaders(key)) + Cardinality(raised) <= Cardinality(Loaders(key)') + Cardinality(raised')
    <3>1. CASE workers[w].at # "loading"
      <4>1. \A key : Loaders(key)' = Loaders(key)
        BY <1>1, <1>3, <3>1 DEF Loaders, Loads, Search!Idle
      <4>2. QED
        BY <3>1, <4>1, PoolSize DEF ResearchSafe
    <3>2. CASE workers[w].at = "loading"
      <4>1. \A key : Loaders(key)' = Loaders(key) \ {w}
        BY <1>1, <1>3, <3>2 DEF Loaders, Loads, Search!Idle
      <4>2. \A key : Cardinality(Loaders(key)') + 1 >= Cardinality(Loaders(key)) /\ Cardinality(Loaders(key)') \in Nat
        BY <4>1, PoolSize, FS_RemoveElement, FS_CardinalityType DEF ResearchSafe
      <4>3. Cardinality(raised') = Cardinality(raised) + 1 /\ Cardinality(raised) \in Nat
        BY <1>0, <1>2, <3>2, FS_AddElement, FS_CardinalityType DEF ResearchSafe, PoolTyped
      <4>4. QED
        BY <4>2, <4>3, PoolSize DEF ResearchSafe
    <3>3. QED
      BY <3>1, <3>2
  <2>2. Cardinality(raised) <= Cardinality(raised') /\ Cardinality(raised') \in Nat /\ Cardinality(raised) \in Nat
    <3>1. IsFiniteSet(raised) /\ Cardinality(raised) \in Nat
      BY FS_CardinalityType DEF ResearchSafe, PoolTyped
    <3>2. Cardinality(raised') = Cardinality(raised) \/ Cardinality(raised') = Cardinality(raised) + 1
      BY <3>1, FS_AddElement
    <3>3. QED
      BY <3>1, <3>2
  <2>3. LoadersCounted /\ LoadersCounted'
    BY <1>6, CountsLoaders, PTL DEF ResearchSafe
  <2>4. \A key : Cardinality(Loaders(key)) \in Nat /\ Cardinality(Loaders(key)') \in Nat
    BY <2>3 DEF LoadersCounted
  <2>5. QED
    BY <2>4, <1>1, <1>2, <2>1, <2>2, <2>3 DEF ResearchSafe, LoadsAreLooks
<1>13. Search!ChosenFromTraining'
  BY <1>1 DEF ResearchSafe, Search!ChosenFromTraining, Search!NoneBeats
<1>14. QED
  BY <1>6, <1>7, <1>9, <1>10, <1>11, <1>12, <1>13 DEF ResearchSafe

LEMMA EndingKeeps ==
    ASSUME ResearchSafe, NEW w \in DOMAIN workers, Search!Refused(w) \/ Search!LoadRaises(w) \/ Search!Run(w)
    PROVE  ResearchSafe'
<1>1. CASE Search!Refused(w)
  <2>1. ResultIn(task.mode, trials[workers[w].trial]) = Search!Failed
    BY <1>1 DEF Search!Refused, ResultIn
  <2>2. QED
    BY <1>1, <2>1, EndKeeps DEF Search!Refused, Flies
<1>2. CASE Search!Run(w)
  BY <1>2, EndKeeps, SameResult DEF Search!Run, Flies
<1>3. CASE Search!LoadRaises(w)
  BY <1>3, EndKeeps DEF Search!LoadRaises, Flies, Raise
<1>4. QED
  BY <1>1, <1>2, <1>3

LEMMA LoadedKeeps ==
    ASSUME ResearchSafe, NEW w \in DOMAIN workers, Search!Loaded(w) \/ Search!LooksForSeries(w)
    PROVE  ResearchSafe'
<1>0. PICK key : key = Search!SeriesOf(trials[workers[w].trial].scenario)
  OBVIOUS
<1>1. PICK place \in {"loading", "running"} : workers' = [workers EXCEPT ![w].at = place]
  BY DEF Search!Loaded, Search!LooksForSeries
<1>2. /\ UNCHANGED <<task, window, stage, space, trials, results, next, raised, steps>> /\ Flies(w)
  BY DEF Search!Loaded, Search!LooksForSeries, Flies
<1>3. /\ DOMAIN workers' = DOMAIN workers /\ workers'[w] = [trial |-> workers[w].trial, at |-> place]
      /\ \A v \in DOMAIN workers : v # w => workers'[v] = workers[v]
  BY <1>1 DEF ResearchSafe, PoolTyped
<1>4. PoolTyped'
  BY <1>1, <1>2, <1>3 DEF ResearchSafe, PoolTyped, Places
<1>5. \A v \in DOMAIN workers : workers'[v].trial = workers[v].trial /\ (Flies(v)' <=> Flies(v))
  BY <1>2, <1>3 DEF Flies
<1>6. TrialsAreOwned'
  BY <1>2, <1>3, <1>5 DEF ResearchSafe, TrialsAreOwned, Raise
<1>7. (ResultsAreOwn /\ OverIsOver /\ StepsAreSequential)'
  BY <1>2 DEF ResearchSafe, ResultsAreOwn, OverIsOver, StepsAreSequential, Expected, Raise
<1>8. Search!ChosenFromTraining'
  BY <1>2 DEF ResearchSafe, Search!ChosenFromTraining, Search!NoneBeats
<1>9. /\ task.pool \in Nat /\ Cardinality(raised) \in Nat
      /\ \A k : /\ Cardinality(Loaders(k)) \in Nat /\ Cardinality(Loaders(k)) <= task.pool
                /\ Cardinality(Loaders(k)') \in Nat /\ Cardinality(Loaders(k)') <= task.pool
  <2>1. PoolTyped
    BY DEF ResearchSafe
  <2>2. LoadersCounted /\ LoadersCounted'
    BY <1>4, <2>1, CountsLoaders, PTL
  <2>3. QED
    BY <1>2, <2>1, <2>2, PoolSize DEF LoadersCounted
<1>10. LoadsAreLooks'
  <2>1. CASE Search!Loaded(w)
    <3>1. /\ cache' = cache \cup {key} /\ loads' = loads /\ place = "running" /\ workers[w].at = "loading"
      BY <1>0, <2>1, <1>1, <1>3 DEF Search!Loaded, ResearchSafe, PoolTyped
    <3>2. \A k : k # key => Loaders(k)' = Loaders(k)
      BY <1>0, <1>2, <1>3, <3>1 DEF Loaders, Loads
    <3>3. QED
      BY <1>2, <1>9, <3>1, <3>2 DEF ResearchSafe, LoadsAreLooks
  <2>2. CASE Search!LooksForSeries(w) /\ key \in cache
    <3>1. /\ cache' = cache /\ loads' = loads /\ place = "running" /\ workers[w].at = "taken"
      BY <1>0, <2>2, <1>1, <1>3 DEF Search!LooksForSeries, ResearchSafe, PoolTyped
    <3>2. \A k : Loaders(k)' = Loaders(k)
      BY <1>0, <1>2, <1>3, <3>1 DEF Loaders, Loads
    <3>3. QED
      BY <1>2, <1>9, <3>1, <3>2 DEF ResearchSafe, LoadsAreLooks
  <2>3. CASE Search!LooksForSeries(w) /\ key \notin cache
    <3>1. /\ cache' = cache /\ loads' = Search!Counted(key) /\ place = "loading" /\ workers[w].at = "taken"
      BY <1>0, <2>3, <1>1, <1>3 DEF Search!LooksForSeries, ResearchSafe, PoolTyped
    <3>2. \A k : k # key => Loaders(k)' = Loaders(k)
      BY <1>0, <1>2, <1>3, <3>1 DEF Loaders, Loads
    <3>3. Loaders(key)' = Loaders(key) \cup {w} /\ w \notin Loaders(key)
      BY <1>0, <1>2, <1>3, <3>1 DEF Loaders, Loads
    <3>4. Cardinality(Loaders(key)') = Cardinality(Loaders(key)) + 1
      BY <3>3, FS_AddElement, PoolSize, Zenon DEF ResearchSafe
    <3>5. /\ loads' \in [DOMAIN loads \cup {key} -> Nat]
          /\ \A k \in DOMAIN loads : k # key => loads'[k] = loads[k]
          /\ loads'[key] = IF key \in DOMAIN loads THEN loads[key] + 1 ELSE 1
      BY <3>1 DEF Search!Counted, ResearchSafe, LoadsAreLooks
    <3>6. loads'[key] <= Cardinality(Loaders(key)') + Cardinality(raised)
      BY <1>9, <2>3, <3>4, <3>5 DEF ResearchSafe, LoadsAreLooks
    <3>7. \A k \in DOMAIN loads \cup {key} :
             /\ loads'[k] <= task.pool + Cardinality(raised)
             /\ k \notin cache => loads'[k] <= Cardinality(Loaders(k)') + Cardinality(raised)
      <4>1. loads'[key] <= task.pool + Cardinality(raised)
        BY <1>9, <3>5, <3>6
      <4>2. QED
        BY <3>2, <3>5, <3>6, <4>1 DEF ResearchSafe, LoadsAreLooks
    <3>8. QED
      BY <1>2, <3>1, <3>5, <3>7 DEF LoadsAreLooks
  <2>4. QED
    BY <2>1, <2>2, <2>3
<1>11. QED
  BY <1>4, <1>6, <1>7, <1>8, <1>10 DEF ResearchSafe

(* The least of some of the first naturals is one of them. *)
LEMMA LeastIsMember ==
    ASSUME NEW n \in Nat, NEW S \in SUBSET (1..n), S # {}
    PROVE  Search!Min(S) \in S
<1>1. S \subseteq Nat
  OBVIOUS
<1>2. PICK x \in S : \A y \in S : ~(<<y, x>> \in OpToRel(<, Nat))
  BY <1>1, NatLessThanWellFounded, WFMin, Zenon
<1>3. \A y \in S : ~(y < x)
  <2>1. \A y \in S : y < x => <<y, x>> \in OpToRel(<, Nat)
    BY <1>1 DEF OpToRel
  <2>2. QED
    BY <1>2, <2>1, Zenon
<1>4. \A y \in S : x <= y
  BY <1>1, <1>3
<1>5. QED
  BY <1>4, Zenon DEF Search!Min

(* What is best is the value of a trial that no other beats. *)
LEMMA BestIsBest ==
    ASSUME ResearchSafe, \A i \in DOMAIN results : results[i] # Search!NoResult,
           Search!Winner # 0
    PROVE  Search!Winner \in DOMAIN results /\ Search!NoneBeats(results, Search!Winner)
<1>. DEFINE Value(i) == Search!Metric(results[i], task.metric)
            scored == {i \in Search!Completed(results) : Value(i) # NoValue}
            top == {i \in scored : \A k \in scored : IF task.maximize THEN Value(k) <= Value(i) ELSE Value(k) >= Value(i)}
<1>1. top # {} /\ Search!Winner = Search!Min(top)
  BY DEF Search!Winner, Search!Best
<1>2. top \subseteq 1..(next - 1) /\ next - 1 \in Nat
  BY DEF Search!Completed, ResearchSafe, TrialsAreOwned, PoolTyped
<1>3. Search!Winner \in top
  BY <1>1, <1>2, LeastIsMember, Zenon
<1>4. Search!Winner \in DOMAIN results
  BY <1>3 DEF Search!Completed
<1>5. QED
  BY <1>3, <1>4 DEF Search!NoneBeats

LEMMA ConcludeKeeps ==
    ASSUME ResearchSafe, Search!Conclude
    PROVE  ResearchSafe'
<1>1. /\ stage # "over" /\ \A i \in DOMAIN trials : results[i] # Search!NoResult
      /\ steps' = Append(steps, Search!StepOf(stage))
      /\ UNCHANGED <<task, workers, cache, loads, raised>>
  BY DEF Search!Conclude, Search!Records, ResearchSafe, PoolTyped
<1>2. /\ Len(steps) \in Nat /\ Len(steps') = Len(steps) + 1 /\ DOMAIN steps = 1..Len(steps)
      /\ DOMAIN steps' = 1..Len(steps') /\ \E S : steps' \in Seq(S)
      /\ \A n \in DOMAIN steps : steps'[n] = steps[n]
      /\ steps'[Len(steps')] = Search!StepOf(stage)
  <2>1. PICK S : steps \in Seq(S)
    BY DEF ResearchSafe, PoolTyped
  <2>2. PICK s : s = Search!StepOf(stage)
    OBVIOUS
  <2>3. steps \in Seq(S \cup {s}) /\ s \in S \cup {s}
    BY <2>1
  <2>4. steps' \in Seq(S \cup {s})
    BY <1>1, <2>2, <2>3
  <2>5. QED
    BY <1>1, <2>2, <2>3, <2>4
<1>3. \A w \in DOMAIN workers : ~Flies(w)
  BY <1>1 DEF ResearchSafe, TrialsAreOwned
<1>4. \/ /\ stage' = "over" /\ UNCHANGED <<window, space, trials, results, next>>
      \/ /\ stage' \in {"training", "validation", "forward"} /\ next' = 1
         /\ results' = [i \in DOMAIN trials' |-> Search!NoResult]
  BY DEF Search!Conclude, Search!Continues, Search!Starts
<1>5. PoolTyped'
  <2>1. raised \subseteq [stage : 1..(Len(steps') + 1), trial : Nat]
    BY <1>2 DEF ResearchSafe, PoolTyped
  <2>2. results' = [i \in DOMAIN trials' |-> results'[i]]
    BY <1>4 DEF ResearchSafe, PoolTyped
  <2>3. next' \in Nat \ {0} /\ stage' \in {"training", "validation", "forward", "over"}
    BY <1>4 DEF ResearchSafe, PoolTyped
  <2>4. QED
    BY <1>1, <1>2, <2>1, <2>2, <2>3 DEF ResearchSafe, PoolTyped
<1>6. \A i : Raise(Len(steps') + 1, i) \notin raised
  BY <1>2 DEF ResearchSafe, PoolTyped, Raise
<1>7. TrialsAreOwned'
  <2>1. \A w \in DOMAIN workers' : ~Flies(w)'
    BY <1>1, <1>3 DEF Flies
  <2>2. \A i \in DOMAIN trials' : results'[i] # Search!NoResult => i \in 1..(next' - 1)
    BY <1>4 DEF ResearchSafe, TrialsAreOwned
  <2>3. \A i : Raise(Len(steps') + 1, i) \notin raised'
    BY <1>1, <1>6
  <2>4. QED
    BY <2>1, <2>2, <2>3 DEF TrialsAreOwned, Raise
<1>8. ResultsAreOwn' /\ OverIsOver'
  BY <1>1, <1>4 DEF ResultsAreOwn, OverIsOver
<1>9. StepsAreSequential'
  <2>1. \A i \in DOMAIN trials : results[i] = Expected(Len(steps) + 1, i, trials[i])
    BY <1>1 DEF ResearchSafe, ResultsAreOwn
  <2>2. SUFFICES ASSUME NEW n \in DOMAIN steps', NEW i \in DOMAIN steps'[n].trials
                 PROVE  steps'[n].results[i] = IF Raise(n, i) \in raised THEN Search!Failed
                                               ELSE ResultIn(task.mode, steps'[n].trials[i])
    BY <1>1 DEF StepsAreSequential, Expected
  <2>3. CASE n \in DOMAIN steps
    BY <2>2, <2>3, <1>2 DEF ResearchSafe, StepsAreSequential, Expected
  <2>4. CASE n = Len(steps) + 1
    BY <2>1, <2>2, <2>4, <1>2 DEF Search!StepOf, Expected
  <2>5. QED
    BY <2>2, <2>3, <2>4, <1>2
<1>10. LoadsAreLooks'
  <2>1. \A key : Loaders(key) = {} /\ Loaders(key)' = {}
    BY <1>1, <1>3 DEF Loaders, Loads, Flies
  <2>2. QED
    BY <1>1, <2>1, Zenon DEF ResearchSafe, LoadsAreLooks
<1>11. Search!ChosenFromTraining'
  <2>1. CASE stage' \notin {"validation", "forward"}
    BY <2>1 DEF Search!ChosenFromTraining
  <2>2. CASE stage' = "validation"
    <3>1. stage = "training" /\ Search!Winner # 0 /\ window' = window /\ space' = Search!Single(trials[Search!Winner].params)
      BY <2>2, <1>1 DEF Search!Conclude, Search!Continues, Search!Starts, ResearchSafe, PoolTyped
    <3>2. Search!Winner \in DOMAIN results /\ Search!NoneBeats(results, Search!Winner)
      BY <3>1, <1>1, BestIsBest DEF ResearchSafe, PoolTyped
    <3>3. PICK i : i = Search!Winner
      OBVIOUS
    <3>4. /\ Search!Last(steps)' = Search!StepOf(stage) /\ steps' # <<>>
      BY <1>2 DEF Search!Last
    <3>5. QED
      BY <1>1, <2>2, <3>1, <3>2, <3>3, <3>4 DEF Search!ChosenFromTraining, Search!NoneBeats, Search!StepOf
  <2>3. CASE stage' = "forward"
    <3>1. stage = "validation" /\ window' = window /\ space' = Search!Single(trials[1].params)
      BY <2>3, <1>1 DEF Search!Conclude, Search!Continues, Search!Starts, ResearchSafe, PoolTyped
    <3>2. /\ Search!Last(steps)' = Search!StepOf(stage) /\ steps' # <<>>
      BY <1>2 DEF Search!Last
    <3>3. QED
      BY <1>1, <2>3, <3>1, <3>2 DEF Search!ChosenFromTraining, Search!StepOf
  <2>4. QED
    BY <2>1, <2>2, <2>3
<1>12. QED
  BY <1>5, <1>7, <1>8, <1>9, <1>10, <1>11 DEF ResearchSafe

-----------------------------------------------------------------------------
(***************************************************************************)
(* What is proved of the run.                                              *)
(***************************************************************************)

(* What the pool, the data source and the analysis keep, in every order in *)
(* which threads take trials, look for series, load them and fail.         *)
THEOREM ResearchInvariant == Spec => []ResearchSafe
<1>1. Init => ResearchSafe
  BY ResearchBegins DEF Init
<1>2. ResearchSafe /\ [Next]_mcVars => ResearchSafe'
  <2>1. SUFFICES ASSUME ResearchSafe, Next \/ UNCHANGED mcVars PROVE ResearchSafe'
    OBVIOUS
  <2>2. CASE ResearchStep
    BY <2>1, <2>2, TakeKeeps, EndingKeeps, LoadedKeeps, ConcludeKeeps DEF ResearchStep, Search!Next
  <2>3. CASE UNCHANGED researchVars
    <3>1. UNCHANGED <<task, window, stage, space, trials, results, next, workers, cache, loads, raised, steps>>
      BY <2>3 DEF researchVars
    <3>2. \A key : Loaders(key)' = Loaders(key)
      BY <3>1 DEF Loaders, Loads
    <3>3. QED
      BY <2>1, <3>1, <3>2 DEF ResearchSafe, PoolTyped, TrialsAreOwned, Flies, ResultsAreOwn, StepsAreSequential, Expected,
            Raise, OverIsOver, LoadsAreLooks, Search!ChosenFromTraining, Search!NoneBeats
  <2>4. QED
    BY <2>1, <2>2, <2>3 DEF Next, mcVars, StrategyStep, BacktestStep, RankingStep, SimulationStep, MarkStep,
          SellStep, LifecycleStep
<1>3. QED
  BY <1>1, <1>2, PTL DEF Spec

(* A search with threads finds what one without finds, but for the trials  *)
(* whose load raised; what a window validates and tests is what no other   *)
(* training trial of the window beats; and a series is loaded once for     *)
(* each thread and each load that raised at most (optimize, analyze,       *)
(* get_bricks).                                                            *)
THEOREM ResearchHonest == Spec => []ResearchIsHonest
<1>1. ResearchSafe => ResearchIsHonest
  <2>1. SUFFICES ASSUME ResearchSafe PROVE ResearchIsHonest
    OBVIOUS
  <2>2. Search!ParallelIsSequential
    BY <2>1, SameResult, Zenon DEF ResearchSafe, StepsAreSequential, Expected, Raise, Search!ParallelIsSequential
  <2>3. Search!LoadsAreBounded
    BY <2>1, SameCardinality DEF ResearchSafe, LoadsAreLooks, Search!LoadsAreBounded
  <2>4. QED
    BY <2>1, <2>2, <2>3 DEF ResearchSafe, ResearchIsHonest
<1>2. QED
  BY <1>1, ResearchInvariant, PTL

(***************************************************************************)
(* A strategy: what it signals is what becomes of its position.            *)
(***************************************************************************)

StrategyFields == {"position", "signal", "ema", "brick", "direction", "streak", "previous", "current"}

(* A state t told by its signal, from the state s before *)
Told(s, t) ==
    /\ DOMAIN t = StrategyFields
    /\ \/ t.signal = "hold" /\ t.position = s.position
       \/ t.signal = "exit" /\ t.position = "flat" /\ s.position # "flat"
       \/ t.signal = "buy"  /\ t.position = "long" /\ s.position = "flat"
       \/ t.signal = "sell" /\ t.position = "short" /\ s.position = "flat"

LEMMA TurnedTells ==
    ASSUME NEW s, DOMAIN s = StrategyFields, NEW move, NEW mayEnter
    PROVE  Told(s, Engine!Turned(s, move, mayEnter))
<1>1. "signal" \in DOMAIN s /\ "position" \in DOMAIN s
  BY DEF StrategyFields
<1>2. CASE move = "none" \/ s.position = (IF move = "up" THEN "long" ELSE "short") \/ (s.position = "flat" /\ ~mayEnter)
  BY <1>1, <1>2 DEF Engine!Turned, Told
<1>3. CASE ~(move = "none" \/ s.position = (IF move = "up" THEN "long" ELSE "short") \/ (s.position = "flat" /\ ~mayEnter))
  BY <1>1, <1>3 DEF Engine!Turned, Told
<1>4. QED
  BY <1>2, <1>3

(* What leaves position and signal alone is told as what it starts from. *)
LEMMA ToldThrough ==
    ASSUME NEW s, NEW r, NEW t, r.position = s.position, Told(r, t)
    PROVE  Told(s, t)
BY DEF Told

LEMMA FedTells ==
    ASSUME NEW s, DOMAIN s = StrategyFields, NEW brick, NEW bar, NEW which \in Engine!Kinds
    PROVE  /\ Told(s, Engine!Asked(which, Engine!BrickFed(which, s, brick)))
           /\ Engine!TakesBars(which) => Told(s, Engine!BarFed(which, s, bar))
           /\ ~Engine!TakesBars(which) => Engine!BarFed(which, s, bar) = s
<1> DEFINE Kept(r) == DOMAIN r = StrategyFields /\ r.position = s.position
<1>0. /\ "signal" \in StrategyFields /\ "position" \in StrategyFields /\ "ema" \in StrategyFields
      /\ "brick" \in StrategyFields /\ "direction" \in StrategyFields /\ "streak" \in StrategyFields
      /\ "previous" \in StrategyFields /\ "current" \in StrategyFields
  BY DEF StrategyFields
<1>1. \A r, move, may : Kept(r) => Told(s, Engine!Turned(r, move, may))
  BY TurnedTells, ToldThrough
<1>2. \A r, price : Kept(r) => Told(s, Engine!EmaDecided(r, price)) /\ Told(s, Engine!BreakoutDecided(r, price))
  BY <1>1, Zenon DEF Engine!EmaDecided, Engine!BreakoutDecided
<1>3. \A a, e : Kept([s EXCEPT !.brick = a, !.ema = e])
  BY <1>0
<1>4. CASE which = "ema_crossover"
  <2>1. PICK r : r = Engine!BrickFed(which, s, brick)
    OBVIOUS
  <2>2. Kept(r)
    BY <2>1, <1>4, <1>3, Zenon DEF Engine!BrickFed
  <2>3. Told(s, [r EXCEPT !.signal = "hold"])
    BY <2>2, <1>0 DEF Told
  <2>4. Told(s, Engine!Asked(which, r))
    BY <2>2, <2>3, <1>2, <1>4 DEF Engine!Asked
  <2>5. QED
    BY <2>1, <2>4, <1>4 DEF Engine!TakesBars, Engine!BarFed
<1>5. CASE which = "ema_trend"
  <2>1. PICK r : r = [s EXCEPT !.brick = brick.close, !.ema = Engine!EmaUpdated(s.ema, brick.close)]
    OBVIOUS
  <2>2. Engine!Asked(which, Engine!BrickFed(which, s, brick)) = Engine!EmaDecided(r, brick.close)
    BY <2>1, <1>5, <1>0 DEF Engine!BrickFed, Engine!Asked
  <2>3. PICK u : u = [s EXCEPT !.brick = NoValue, !.ema = Engine!EmaUpdated(s.ema, bar.close)]
    OBVIOUS
  <2>4. Engine!BarFed(which, s, bar) = Engine!EmaDecided(u, bar.close)
    BY <2>3, <1>5, <1>0 DEF Engine!BarFed
  <2>5. Kept(r) /\ Kept(u)
    BY <2>1, <2>3, <1>3
  <2>6. QED
    BY <2>2, <2>4, <2>5, <1>2, <1>5 DEF Engine!TakesBars
<1>6. CASE which = "renko_trend"
  <2>1. PICK r : r = Engine!StreakUpdated(s, brick)
    OBVIOUS
  <2>2. Kept(r)
    BY <2>1, <1>0 DEF Engine!StreakUpdated
  <2>3. \E move, may : Engine!Asked(which, Engine!BrickFed(which, s, brick)) = Engine!Turned(r, move, may)
    BY <2>1, <1>6 DEF Engine!BrickFed, Engine!Asked
  <2>4. QED
    BY <2>2, <2>3, <1>1, <1>6 DEF Engine!TakesBars, Engine!BarFed
<1>7. CASE which = "pdh_pdl_breakout"
  <2>1. PICK r : r = IF brick.range = NoValue THEN s ELSE [s EXCEPT !.previous = Engine!@@([day |-> brick.day], brick.range)]
    BY Zenon
  <2>2. Engine!Asked(which, Engine!BrickFed(which, s, brick)) = Engine!BreakoutDecided(r, brick.close)
    BY <2>1, <1>7 DEF Engine!BrickFed, Engine!Asked
  <2>3. Kept(r) 
    BY <2>1, <1>0
  <2>4. PICK u : u = Engine!SessionUpdated(s, bar)
    OBVIOUS
  <2>5. Kept(u)
    BY <2>4, <1>0 DEF Engine!SessionUpdated
  <2>6. Engine!BarFed(which, s, bar) = Engine!BreakoutDecided(u, bar.close)
    BY <2>4, <1>7 DEF Engine!BarFed
  <2>7. QED
    BY <2>2, <2>3, <2>5, <2>6, <1>2, <1>7 DEF Engine!TakesBars
<1>8. QED
  BY <1>4, <1>5, <1>6, <1>7 DEF Engine!Kinds

LEMMA GreatestIs ==
    ASSUME NEW S \in SUBSET Int, NEW m \in S, \A y \in S : y <= m
    PROVE  Engine!Max(S) = m /\ Test!Max(S) = m
<1>1. \A x \in S : (\A y \in S : x >= y) => x = m
  OBVIOUS
<1>2. \A y \in S : m >= y
  OBVIOUS
<1>3. QED
  BY <1>1, <1>2, Zenon DEF Engine!Max, Test!Max

(* A set of numbers up to n has a greatest. *)
LEMMA HasGreatest ==
    ASSUME NEW n \in Nat, NEW A \in SUBSET (1..n), A # {}
    PROVE  \E m \in A : \A y \in A : y <= m
<1> DEFINE Tops(k, m) == m <= k /\ \A y \in A : y <= k => y <= m
           S == {k \in 0..n : (\A y \in A : ~(y <= k)) \/ \E m \in A : Tops(k, m)}
<1>1. \A y \in A : y \in Nat /\ 1 <= y /\ y <= n
  OBVIOUS
<1>2. 0 \in S
  BY <1>1
<1>3. ASSUME NEW k \in 0..(n - 1), k \in S PROVE k + 1 \in S
  <2>1. k + 1 \in 0..n /\ k \in Nat
    OBVIOUS
  <2>2. CASE k + 1 \in A
    <3>1. Tops(k + 1, k + 1)
      BY <2>1
    <3>2. QED
      BY <2>1, <2>2, <3>1
  <2>3. CASE k + 1 \notin A
    <3>1. \A y \in A : y <= k + 1 <=> y <= k
      BY <1>1, <2>1, <2>3
    <3>2. CASE \A y \in A : ~(y <= k)
      BY <2>1, <3>1, <3>2
    <3>3. CASE \E m \in A : Tops(k, m)
      <4>1. PICK m \in A : Tops(k, m)
        BY <3>3
      <4>2. Tops(k + 1, m)
        BY <4>1, <3>1
      <4>3. QED
        BY <2>1, <4>2
    <3>4. QED
      BY <1>3, <3>2, <3>3
  <2>4. QED
    BY <2>2, <2>3
<1>4. 0..n \subseteq S
  <2> HIDE DEF S
  <2>1. QED
    BY <1>2, <1>3, UpTo
<1>5. n \in S
  <2>1. n \in 0..n
    OBVIOUS
  <2>2. QED
    BY <2>1, <1>4, Zenon
<1>6. QED
  BY <1>1, <1>5, Zenon

LEMMA GreatestIsIn ==
    ASSUME NEW n \in Nat, NEW A \in SUBSET (1..n), A # {}
    PROVE  /\ Engine!Max(A) \in A /\ \A y \in A : y <= Engine!Max(A)
           /\ Test!Max(A) = Engine!Max(A)
<1>1. PICK m \in A : \A y \in A : y <= m
  BY HasGreatest, Zenon
<1>2. A \in SUBSET Int
  OBVIOUS
<1>3. QED
  BY <1>1, <1>2, GreatestIs

(* A signal appended to those before decides what is held after it. *)
HeldAfter(sigs) ==
    LET acts == {i \in 1..Len(sigs) : sigs[i] # "hold"} IN
    IF acts = {} \/ sigs[Engine!Max(acts)] = "exit" THEN "flat"
    ELSE IF sigs[Engine!Max(acts)] = "buy" THEN "long" ELSE "short"

LEMMA NextHeld ==
    ASSUME NEW sigs \in Seq(Engine!Signals), NEW x \in Engine!Signals
    PROVE  HeldAfter(Append(sigs, x)) =
             CASE x = "hold" -> HeldAfter(sigs) [] x = "exit" -> "flat"
               [] x = "buy" -> "long" [] x = "sell" -> "short"
<1> DEFINE acts == {i \in 1..Len(sigs) : sigs[i] # "hold"}
           more == Append(sigs, x)
           now  == {i \in 1..Len(more) : more[i] # "hold"}
<1>1. /\ Len(sigs) \in Nat /\ Len(more) = Len(sigs) + 1 /\ more[Len(more)] = x
      /\ \A i \in 1..Len(sigs) : more[i] = sigs[i]
  OBVIOUS
<1>2. acts \subseteq 1..Len(sigs)
  OBVIOUS
<1>3. CASE x = "hold"
  <2>1. now = acts
    BY <1>1, <1>3
  <2>2. acts # {} => Engine!Max(acts) \in acts
    BY <1>1, <1>2, GreatestIsIn, Zenon
  <2>3. \A i \in acts : more[i] = sigs[i]
    BY <1>1, <1>2
  <2>4. QED
    BY <1>3, <2>1, <2>2, <2>3, Zenon DEF HeldAfter
<1>4. CASE x # "hold"
  <2>1. Len(more) \in now /\ now \in SUBSET Int /\ \A y \in now : y <= Len(more)
    BY <1>1, <1>4
  <2>2. Engine!Max(now) = Len(more)
    BY <2>1, GreatestIs, Zenon
  <2>3. HeldAfter(more) = IF x = "exit" THEN "flat" ELSE IF x = "buy" THEN "long" ELSE "short"
    BY <1>1, <2>1, <2>2, Zenon DEF HeldAfter
  <2>4. x \in {"exit", "buy", "sell"}
    BY <1>4 DEF Engine!Signals
  <2>5. QED
    BY <2>3, <2>4
<1>5. QED
  BY <1>3, <1>4, Zenon

-----------------------------------------------------------------------------
(* The engine's invariant *)
EngineTells ==
    /\ kind \in Engine!Kinds /\ DOMAIN strategy = StrategyFields
    /\ signals \in Seq(Engine!Signals)
    /\ started \in BOOLEAN
    /\ started => strategy.position = HeldAfter(signals)

LEMMA FreshTells == DOMAIN Engine!Fresh = StrategyFields /\ Engine!Fresh.position = "flat" /\ HeldAfter(<<>>) = "flat"
<1>1. DOMAIN Engine!Fresh = StrategyFields /\ Engine!Fresh.position = "flat"
  BY DEF Engine!Fresh, StrategyFields
<1>2. Len(<<>>) = 0 /\ 1..0 = {}
  OBVIOUS
<1>3. {i \in 1..Len(<<>>) : <<>>[i] # "hold"} = {}
  BY <1>2
<1>4. HeldAfter(<<>>) = "flat"
  BY <1>3 DEF HeldAfter
<1>5. QED
  BY <1>1, <1>4

LEMMA RecordsTell ==
    ASSUME EngineTells, NEW input, NEW s, NEW signal \in Engine!Signals, Engine!Records(input, s, signal),
           \/ Told(Engine!Ready, s) /\ s.signal = signal
           \/ s = Engine!Ready /\ signal = "hold"
    PROVE  EngineTells'
<1> DEFINE before == IF started THEN signals ELSE <<>>
<1>1. /\ strategy' = s /\ signals' = Append(before, signal) /\ started' = TRUE /\ kind' = kind
  BY DEF Engine!Records
<1>2. before \in Seq(Engine!Signals)
  BY DEF EngineTells
<1>3. Engine!Ready.position = HeldAfter(before) /\ DOMAIN Engine!Ready = StrategyFields
  BY FreshTells DEF Engine!Ready, Engine!Reset, EngineTells
<1> HIDE DEF before
<1>4. s.position = HeldAfter(Append(before, signal)) /\ DOMAIN s = StrategyFields
  <2>1. HeldAfter(Append(before, signal)) =
             CASE signal = "hold" -> HeldAfter(before) [] signal = "exit" -> "flat"
               [] signal = "buy" -> "long" [] signal = "sell" -> "short"
    BY <1>2, NextHeld, Zenon
  <2>2. QED
    BY <1>3, <2>1 DEF Told
<1>5. Append(before, signal) \in Seq(Engine!Signals)
  BY <1>2
<1>6. QED
  BY <1>1, <1>4, <1>5 DEF EngineTells

LEMMA EngineStepTells ==
    ASSUME EngineTells, Engine!Next
    PROVE  EngineTells'
<1>1. DOMAIN Engine!Ready = StrategyFields /\ kind \in Engine!Kinds
  BY FreshTells DEF Engine!Ready, Engine!Reset, EngineTells
<1>2. \A s, t : Told(s, t) => t.signal \in Engine!Signals
  BY DEF Told, Engine!Signals
<1>3. ASSUME NEW brick, Engine!ProcessBrick(brick) PROVE EngineTells'
  <2>1. PICK s : s = Engine!Asked(kind, Engine!BrickFed(kind, Engine!Ready, brick))
    OBVIOUS
  <2>2. Told(Engine!Ready, s)
    BY <2>1, <1>1, FedTells
  <2>3. Engine!Records(brick, s, s.signal)
    BY <2>1, <1>3 DEF Engine!ProcessBrick
  <2>4. s.signal \in Engine!Signals
    BY <2>2, <1>2
  <2>5. QED
    BY <2>2, <2>3, <2>4, RecordsTell
<1>4. ASSUME NEW bar, Engine!ProcessMarketData(bar) PROVE EngineTells'
  <2>1. PICK s : s = Engine!BarFed(kind, Engine!Ready, bar)
    OBVIOUS
  <2>2. PICK signal : signal = Engine!SignalOfBar(kind, Engine!Ready, bar)
    OBVIOUS
  <2>3. Engine!Records(bar, s, signal)
    BY <2>1, <2>2, <1>4 DEF Engine!ProcessMarketData
  <2>4. CASE Engine!TakesBars(kind)
    <3>1. Told(Engine!Ready, s) /\ s.signal = signal
      BY <2>1, <2>2, <2>4, <1>1, FedTells DEF Engine!SignalOfBar
    <3>2. signal \in Engine!Signals
      BY <3>1, <1>2
    <3>3. QED
      BY <2>3, <3>1, <3>2, RecordsTell
  <2>5. CASE ~Engine!TakesBars(kind)
    <3>1. s = Engine!Ready /\ signal = "hold"
      BY <2>1, <2>2, <2>5, <1>1, FedTells DEF Engine!SignalOfBar
    <3>2. signal \in Engine!Signals
      BY <3>1 DEF Engine!Signals
    <3>3. QED
      BY <2>3, <3>1, <3>2, RecordsTell
  <2>6. QED
    BY <2>4, <2>5
<1>5. ASSUME Engine!ProcessOther PROVE EngineTells'
  <2>1. Engine!Records(Engine!Other, Engine!Ready, "hold") /\ "hold" \in Engine!Signals
    BY <1>5 DEF Engine!ProcessOther, Engine!Signals
  <2>2. QED
    BY <2>1, RecordsTell
<1>6. ASSUME Engine!Start \/ Engine!ResetEngine \/ Engine!Shutdown PROVE EngineTells'
  <2>1. <<>> \in Seq(Engine!Signals)
    OBVIOUS
  <2>2. /\ strategy' = Engine!Fresh /\ kind' = kind
        /\ signals' = <<>> \/ (signals' = signals /\ started' = FALSE)
        /\ started' \in BOOLEAN
    BY <1>6, Zenon DEF Engine!Start, Engine!ResetEngine, Engine!Shutdown, Engine!Reset
  <2>3. QED
    BY <2>1, <2>2, FreshTells, Zenon DEF EngineTells
<1>7. QED
  BY <1>3, <1>4, <1>5, <1>6 DEF Engine!Next, Engine!ProcessTick

LEMMA EngineTellsSignals ==
    ASSUME EngineTells
    PROVE  Engine!PositionTellsSignals
<1>1. Len(signals) + 1 - 1 = Len(signals)
  BY DEF EngineTells
<1>2. Engine!HeldBefore(Len(signals) + 1) = HeldAfter(signals)
  BY <1>1 DEF Engine!HeldBefore, HeldAfter
<1>3. QED
  BY <1>2 DEF EngineTells, Engine!PositionTellsSignals

LEMMA SameFed ==
    ASSUME NEW which, NEW s, NEW brick
    PROVE  Test!Asked(which, Test!BrickFed(which, s, brick)) = Engine!Asked(which, Engine!BrickFed(which, s, brick))
<1>1. \A values, n : Test!Total(values, n) = Engine!Total(values, n)
  BY DEF Test!Total, Test!RunningTotals, Engine!Total, Engine!RunningTotals
<1>2. \A t : Test!SumOf(t) = Engine!SumOf(t)
  BY <1>1 DEF Test!SumOf, Engine!SumOf
<1>3. \A e, value : Test!EmaUpdated(e, value) = Engine!EmaUpdated(e, value)
  BY <1>2, Zenon DEF Test!EmaUpdated, Engine!EmaUpdated
<1>4. \A r, move, may : Test!Turned(r, move, may) = Engine!Turned(r, move, may)
  BY DEF Test!Turned, Engine!Turned
<1>5. \A r, price : Test!EmaDecided(r, price) = Engine!EmaDecided(r, price)
  BY <1>4, Zenon DEF Test!EmaDecided, Engine!EmaDecided, Test!Compared, Engine!Compared
<1>6. \A r, price : Test!BreakoutDecided(r, price) = Engine!BreakoutDecided(r, price)
  BY <1>4, Zenon DEF Test!BreakoutDecided, Engine!BreakoutDecided, Test!Compared, Engine!Compared
<1>7. \A r, x : Test!StreakUpdated(r, x) = Engine!StreakUpdated(r, x)
  BY DEF Test!StreakUpdated, Engine!StreakUpdated
<1>8. Test!BrickFed(which, s, brick) = Engine!BrickFed(which, s, brick)
  BY <1>3, <1>4, <1>5, <1>6, <1>7, Zenon DEF Test!BrickFed, Engine!BrickFed
<1>9. QED
  BY <1>5, <1>8 DEF Test!Asked, Engine!Asked

-----------------------------------------------------------------------------
(* The signals the rules make one after the other *)
IsManaged(f, n, rules, signal, high, context) ==
    f = [i \in 0..n |-> IF i = 0 THEN signal ELSE Test!Evaluated(rules[i], f[i - 1], high, context)]

LEMMA ManagedExist ==
    ASSUME NEW n \in Nat, NEW rules, NEW signal, NEW high, NEW context
    PROVE  \E f : IsManaged(f, n, rules, signal, high, context)
<1> DEFINE S == {m \in 0..n : \E f : IsManaged(f, m, rules, signal, high, context)}
<1>1. 0 \in S
  <2>1. IsManaged([i \in 0..0 |-> signal], 0, rules, signal, high, context)
    BY DEF IsManaged
  <2>2. QED
    BY <2>1
<1>2. ASSUME NEW m \in 0..(n - 1), m \in S
      PROVE  m + 1 \in S
  <2>1. PICK t : IsManaged(t, m, rules, signal, high, context)
    BY <1>2
  <2> DEFINE u == [i \in 0..(m + 1) |-> IF i = m + 1 THEN Test!Evaluated(rules[m + 1], t[m], high, context) ELSE t[i]]
  <2>2. ASSUME NEW i \in 0..(m + 1)
        PROVE  u[i] = IF i = 0 THEN signal ELSE Test!Evaluated(rules[i], u[i - 1], high, context)
    BY <2>1 DEF IsManaged
  <2>3. u = [i \in 0..(m + 1) |-> u[i]]
    OBVIOUS
  <2> HIDE DEF u
  <2>4. IsManaged(u, m + 1, rules, signal, high, context)
    BY <2>2, <2>3, Zenon DEF IsManaged
  <2>5. QED
    BY <2>4
<1> HIDE DEF S
<1>3. 0..n \subseteq S
  BY <1>1, <1>2, UpTo
<1>4. QED
  BY <1>3 DEF S

LEMMA ManagedUnfold ==
    ASSUME NEW rules, Len(rules) \in Nat, NEW signal, NEW high, NEW context
    PROVE  \E f : /\ f[0] = signal /\ f[Len(rules)] = Test!Managed(rules, signal, high, context)
                  /\ \A i \in 0..(Len(rules) - 1) : f[i + 1] = Test!Evaluated(rules[i + 1], f[i], high, context)
<1> DEFINE after[i \in 0..Len(rules)] == IF i = 0 THEN signal ELSE Test!Evaluated(rules[i], after[i - 1], high, context)
<1>1. after = CHOOSE f : IsManaged(f, Len(rules), rules, signal, high, context)
  BY DEF IsManaged
<1>2. IsManaged(after, Len(rules), rules, signal, high, context)
  BY <1>1, ManagedExist
<1>3. Test!Managed(rules, signal, high, context) = after[Len(rules)]
  BY DEF Test!Managed
<1> HIDE DEF after
<1>4. PICK f : f = after
  OBVIOUS
<1>5. f = [i \in 0..Len(rules) |-> IF i = 0 THEN signal ELSE Test!Evaluated(rules[i], f[i - 1], high, context)]
  BY <1>2, <1>4 DEF IsManaged
<1>6. f[0] = signal
  BY <1>5
<1>7. ASSUME NEW i \in 0..(Len(rules) - 1) PROVE f[i + 1] = Test!Evaluated(rules[i + 1], f[i], high, context)
  <2>1. i + 1 \in 0..Len(rules) /\ i + 1 # 0 /\ (i + 1) - 1 = i
    OBVIOUS
  <2>2. QED
    BY <1>5, <2>1
<1>8. QED
  BY <1>3, <1>4, <1>6, <1>7, Zenon

(* Rules that take a position out *)
TakesOut(rule, high, context) ==
    rule.kind # "max_open_positions" /\ context.open /\ Test!Fires(rule, high, context)

(* What the rules make of a signal: an exit where a rule that looks at the *)
(* position fires, no entry where any does, and otherwise nothing.         *)
LEMMA ManagedTells ==
    ASSUME NEW rules, Len(rules) \in Nat, NEW signal, NEW high, NEW context
    PROVE  LET m == Test!Managed(rules, signal, high, context) IN
           /\ rules = <<>> => m = signal
           /\ m = "exit" /\ signal # "exit" => \E i \in 1..Len(rules) : TakesOut(rules[i], high, context)
           /\ \A i \in 1..Len(rules) : TakesOut(rules[i], high, context) => m = "exit"
           /\ \A i \in 1..Len(rules) : Test!Fires(rules[i], high, context) => m \notin {"buy", "sell"}
<1>1. PICK f : /\ f[0] = signal /\ f[Len(rules)] = Test!Managed(rules, signal, high, context)
               /\ \A i \in 0..(Len(rules) - 1) : f[i + 1] = Test!Evaluated(rules[i + 1], f[i], high, context)
  BY ManagedUnfold
<1>2. PICK n : n = Len(rules)
  OBVIOUS
<1>3. n \in Nat /\ \A i \in 0..(n - 1) : i + 1 \in 1..n /\ f[i + 1] = Test!Evaluated(rules[i + 1], f[i], high, context)
  BY <1>1, <1>2
<1> DEFINE Fired(k) == \E i \in 1..k : Test!Fires(rules[i], high, context)
           Out(k) == \E i \in 1..k : TakesOut(rules[i], high, context)
           Right(k) == /\ f[k] = "exit" /\ signal # "exit" => Out(k)
                       /\ Out(k) => f[k] = "exit"
                       /\ Fired(k) => f[k] \notin {"buy", "sell"}
           S == {k \in 0..n : Right(k)}
<1>4. 0 \in S
  <2>1. ~Out(0) /\ ~Fired(0)
    OBVIOUS
  <2> HIDE DEF Out, Fired
  <2>2. QED
    BY <1>1, <1>3, <2>1
<1>5. ASSUME NEW k \in 0..(n - 1), k \in S PROVE k + 1 \in S
  <2>1. k + 1 \in 0..n /\ k \in Nat /\ \A i : i \in 1..(k + 1) <=> i \in 1..k \/ i = k + 1
    BY <1>3
  <2>2. /\ Out(k + 1) <=> Out(k) \/ TakesOut(rules[k + 1], high, context)
        /\ Fired(k + 1) <=> Fired(k) \/ Test!Fires(rules[k + 1], high, context)
    BY <2>1
  <2>3. Right(k)
    BY <1>5
  <2> HIDE DEF Out, Fired
  <2>4. f[k + 1] = Test!Evaluated(rules[k + 1], f[k], high, context)
    BY <1>3
  <2>5. Right(k + 1)
    BY <2>2, <2>3, <2>4 DEF Test!Evaluated, Test!IsEntry, TakesOut
  <2>6. QED
    BY <2>1, <2>5
<1>6. Right(n)
  <2> HIDE DEF Right
  <2>1. 0..n \subseteq S
    <3> HIDE DEF S
    <3>1. QED
      BY <1>3, <1>4, <1>5, UpTo, Zenon
  <2>2. n \in 0..n
    BY <1>3
  <2>3. QED
    BY <2>1, <2>2
<1>7. rules = <<>> => n = 0
  BY <1>2
<1>8. QED
  BY <1>1, <1>2, <1>6, <1>7

(* A sum with one value more *)
LEMMA SumOfMore ==
    ASSUME NEW old, NEW new, Len(old) \in Nat, Len(new) = Len(old) + 1, \A i \in 1..Len(old) : new[i] = old[i]
    PROVE  Test!SumOf(new) = Test!SumOf(old) + new[Len(new)]
<1>1. \A values, n : Test!Total(values, n) = Total(values, n)
  BY DEF Test!Total, Test!RunningTotals, Total, RunningTotals
<1>2. PICK n : n = Len(old)
  OBVIOUS
<1>3. Total(new, n + 1) = Total(old, n) + new[n + 1]
  BY <1>2, TotalNext, Zenon
<1>4. QED
  BY <1>1, <1>2, <1>3 DEF Test!SumOf

LEMMA SumOfNone == Test!SumOf(<<>>) = 0
<1>1. \A values, n : Test!Total(values, n) = Total(values, n)
  BY DEF Test!Total, Test!RunningTotals, Total, RunningTotals
<1>2. Len(<<>>) = 0
  OBVIOUS
<1>3. Total(<<>>, 0) = 0
  BY TotalsUnfold DEF Total
<1>4. QED
  BY <1>1, <1>2, <1>3 DEF Test!SumOf

LEMMA SumOfType ==
    ASSUME NEW s, Len(s) \in Nat, \A i \in 1..Len(s) : s[i] \in Int
    PROVE  Test!SumOf(s) \in Int
<1>1. \A values, n : Test!Total(values, n) = Total(values, n)
  BY DEF Test!Total, Test!RunningTotals, Total, RunningTotals
<1>2. Total(s, Len(s)) \in Int
  BY TotalSame
<1>3. QED
  BY <1>1, <1>2 DEF Test!SumOf

LEMMA SizesOfTests ==
    /\ Slip \in Nat /\ Fee \in Nat /\ Capital \in Nat \ {0} /\ MaxBricks \in Nat
    /\ NoValue \notin Nat /\ NoValue \notin Test!Order
    /\ \A b \in Bricks : b.close \in Nat /\ b.close > Slip
    /\ \A s \in Setups :
           /\ s.kind \in Test!Kinds /\ s.forced \in BOOLEAN
           /\ s.rules \in Seq([kind : Test!RuleKinds, limit : Nat])
           /\ s.quantity = NoValue \/ s.quantity \in Nat
           /\ s.percent \in Nat /\ s.leverage \in Nat
BY ResearchInstance, Zenon DEF Test!BacktestConstants

-----------------------------------------------------------------------------
(* What the fill of an order does to the ledger *)

(* The order with its fill *)
FilledAt(ord, price) == Test!Complete(Test!Submit(ord), [price |-> price, qty |-> ord.qty, cost |-> Fee])

LEMMA ExecutedIsFilled ==
    ASSUME NEW ord \in Test!Order, NEW price \in Nat, price > Slip
    PROVE  LET x == Test!Executed(ord, price)
               at == IF ord.side = "buy" THEN price + Slip ELSE price - Slip
           IN /\ x = FilledAt(ord, at) /\ at \in Nat /\ at > 0
              /\ x \in Test!Order /\ Test!HasFill(x)
              /\ x.status = "filled" /\ x.side = ord.side /\ x.qty = ord.qty /\ x.ref = ord.ref
              /\ x.reserved = ord.reserved
              /\ x.fill = [price |-> at, qty |-> ord.qty, cost |-> Fee]
<1>0. Slip \in Nat /\ Fee \in Nat
  BY SizesOfTests
<1>1. PICK at : at = IF ord.side = "buy" THEN price + Slip ELSE price - Slip
  OBVIOUS
<1>2. at \in Nat /\ at > 0 /\ ~(price <= 0)
  BY <1>0, <1>1
<1>3. PICK f : f = [price |-> at, qty |-> ord.qty, cost |-> Fee]
  BY Zenon
<1>4. f \in Test!Fill /\ f # Test!NoFill
  BY <1>0, <1>2, <1>3 DEF Test!Fill, Test!NoFill, Test!Order
<1>5. PICK x : x = Test!Complete(Test!Submit(ord), f)
  OBVIOUS
<1>6. /\ x \in Test!Order /\ x.fill = f /\ x.status = "filled" /\ x.side = ord.side /\ x.qty = ord.qty
      /\ x.ref = ord.ref /\ x.reserved = ord.reserved
  BY <1>4, <1>5, Zenon DEF Test!Complete, Test!Submit, Test!Order, Test!OrderStatus
<1>7. Test!Executed(ord, price) = x
  BY <1>0, <1>1, <1>2, <1>3, <1>5 DEF Test!Executed
<1>8. QED
  BY <1>1, <1>2, <1>3, <1>4, <1>5, <1>6, <1>7 DEF FilledAt, Test!HasFill

(* A purchase by a ledger that holds nothing *)
LEMMA BuyBooked ==
    ASSUME NEW pf \in Test!Ledger, ~Test!IsOpen(pf), pf.basis = 0, pf.entryCost = 0,
           NEW x \in Test!Order, x.side = "buy", Test!HasFill(x), pf.reserved = x.reserved, x.fill.qty > 0
    PROVE  LET after == Test!LedgerAfter(pf, x) cost == x.fill.price * x.fill.qty IN
           /\ cost \in Nat /\ after \in Test!Ledger /\ after.reserved = 0 /\ after.realized = pf.realized
           /\ Test!Unaffordable(pf, x) =>
                  /\ after.cash = pf.cash /\ after.qty = 0 /\ after.basis = 0 /\ after.entryCost = 0
           /\ ~Test!Unaffordable(pf, x) =>
                  /\ after.cash = pf.cash - (cost + x.fill.cost) /\ after.qty = x.fill.qty
                  /\ after.basis = cost /\ after.entryCost = x.fill.cost
<1>1. x.fill.price \in Nat /\ x.fill.qty \in Nat /\ x.fill.cost \in Nat /\ x.reserved \in Nat
  BY DEF Test!Order, Test!Fill
<1>2. PICK cost : cost = x.fill.price * x.fill.qty
  OBVIOUS
<1>3. cost \in Nat
  BY <1>1, <1>2
<1>4. pf.qty = 0 /\ pf.cash \in Int /\ pf.realized \in Int
  BY DEF Test!IsOpen, Test!Ledger
<1>5. Test!Release(pf, x.reserved) = [pf EXCEPT !.reserved = 0]
  BY <1>1 DEF Test!Release, Test!Ledger
<1>6. [pf EXCEPT !.reserved = 0] \in Test!Ledger
  BY DEF Test!Ledger
<1>7. CASE Test!Unaffordable(pf, x)
  <2>1. Test!LedgerAfter(pf, x) = [pf EXCEPT !.reserved = 0]
    BY <1>5, <1>7 DEF Test!LedgerAfter
  <2>2. QED
    BY <2>1, <1>2, <1>3, <1>4, <1>6, <1>7 DEF Test!Ledger
<1>8. CASE ~Test!Unaffordable(pf, x)
  <2>1. Test!TotalCost(x.fill) = cost + x.fill.cost
    BY <1>2 DEF Test!TotalCost
  <2>2. PICK spent : spent = pf.cash - (cost + x.fill.cost)
    OBVIOUS
  <2>3. spent \in Int
    BY <2>2, <1>1, <1>3, <1>4
  <2>4. PICK freed : freed = [pf EXCEPT !.reserved = 0]
    BY Zenon
  <2>5. /\ freed \in Test!Ledger /\ freed.cash = pf.cash /\ freed.reserved = 0
        /\ freed.qty = 0 /\ freed.basis = 0 /\ freed.entryCost = 0 /\ freed.realized = pf.realized
    BY <2>4, <1>4, <1>6 DEF Test!Ledger
  <2>6. PICK paid : paid = [freed EXCEPT !.cash = spent]
    BY Zenon
  <2>7. /\ paid \in Test!Ledger /\ paid.cash = spent /\ paid.reserved = 0
        /\ paid.qty = 0 /\ paid.basis = 0 /\ paid.entryCost = 0 /\ paid.realized = pf.realized
    BY <2>3, <2>5, <2>6 DEF Test!Ledger
  <2>8. Test!LedgerAfter(pf, x) = Test!OpenLong(paid, x.fill)
    <3>1. [freed EXCEPT !.cash = @ - Test!TotalCost(x.fill)] = paid
      BY <2>1, <2>2, <2>5, <2>6
    <3>2. Test!LedgerAfter(pf, x) = Test!OpenLong([freed EXCEPT !.cash = @ - Test!TotalCost(x.fill)], x.fill)
      BY <1>5, <1>8, <2>4 DEF Test!LedgerAfter
    <3>3. QED
      BY <3>1, <3>2
  <2>9. Test!OpenLong(paid, x.fill) = [paid EXCEPT !.qty = paid.qty + x.fill.qty, !.basis = paid.basis + cost,
                                                   !.entryCost = paid.entryCost + x.fill.cost]
    BY <1>2 DEF Test!OpenLong
  <2>10. paid.qty + x.fill.qty = x.fill.qty /\ paid.basis + cost = cost /\ paid.entryCost + x.fill.cost = x.fill.cost
    BY <2>7, <1>1, <1>3
  <2>11. PICK after : after = [paid EXCEPT !.qty = x.fill.qty, !.basis = cost, !.entryCost = x.fill.cost]
    OBVIOUS
  <2>12. /\ after \in Test!Ledger /\ after.reserved = 0 /\ after.realized = pf.realized /\ after.cash = spent
         /\ after.qty = x.fill.qty /\ after.basis = cost /\ after.entryCost = x.fill.cost
    BY <2>7, <2>11, <1>1, <1>3, Zenon DEF Test!Ledger
  <2>13. Test!LedgerAfter(pf, x) = after
    BY <2>8, <2>9, <2>10, <2>11, Zenon
  <2>14. QED
    BY <2>2, <2>12, <2>13, <1>2, <1>3, <1>8
<1>9. QED
  BY <1>7, <1>8

(* A sale of all that is held *)
LEMMA SellBooked ==
    ASSUME NEW pf \in Test!Ledger, Test!IsOpen(pf),
           NEW x \in Test!Order, x.side # "buy", Test!HasFill(x), x.fill.qty = pf.qty
    PROVE  LET after == Test!LedgerAfter(pf, x) worth == x.fill.price * pf.qty IN
           /\ worth \in Nat /\ after \in Test!Ledger /\ after.reserved = pf.reserved
           /\ after.qty = 0 /\ after.basis = 0 /\ after.entryCost = 0
           /\ after.cash = pf.cash + (worth - x.fill.cost)
           /\ after.realized = pf.realized + worth - pf.basis - pf.entryCost - x.fill.cost
           /\ ~Test!Unaffordable(pf, x)
<1>1. /\ x.fill.price \in Nat /\ x.fill.qty \in Nat /\ x.fill.cost \in Nat
      /\ pf.qty \in Nat /\ pf.cash \in Int /\ pf.realized \in Int /\ pf.basis \in Nat /\ pf.entryCost \in Nat
  BY DEF Test!Order, Test!Fill, Test!Ledger
<1>2. PICK worth : worth = x.fill.price * pf.qty
  OBVIOUS
<1>3. worth \in Nat
  BY <1>1, <1>2
<1>4. ~Test!Unaffordable(pf, x)
  BY DEF Test!Unaffordable
<1>5. Test!Proceeds(x.fill) = worth - x.fill.cost
  BY <1>2 DEF Test!Proceeds
<1>6. PICK paid : paid = [pf EXCEPT !.cash = @ + Test!Proceeds(x.fill)]
  BY Zenon
<1>7. /\ paid \in Test!Ledger /\ paid.cash = pf.cash + (worth - x.fill.cost) /\ paid.reserved = pf.reserved
      /\ paid.qty = pf.qty /\ paid.basis = pf.basis /\ paid.entryCost = pf.entryCost /\ paid.realized = pf.realized
  BY <1>1, <1>3, <1>5, <1>6 DEF Test!Ledger
<1>8. Test!LedgerAfter(pf, x) = Test!ClosePosition(paid, x.fill)
  BY <1>4, <1>6 DEF Test!LedgerAfter
<1>9. PICK gain : gain = pf.realized + worth - pf.basis - pf.entryCost - x.fill.cost
  OBVIOUS
<1>10. gain \in Int
  BY <1>1, <1>3, <1>9
<1>11. Test!ClosePosition(paid, x.fill) = [paid EXCEPT !.qty = 0, !.basis = 0, !.entryCost = 0, !.realized = gain]
  BY <1>2, <1>7, <1>9 DEF Test!ClosePosition, Test!IsOpen, Test!Ledger
<1>12. [paid EXCEPT !.qty = 0, !.basis = 0, !.entryCost = 0, !.realized = gain] \in Test!Ledger
  BY <1>7, <1>10, Zenon DEF Test!Ledger
<1>13. QED
  BY <1>2, <1>3, <1>4, <1>7, <1>8, <1>9, <1>11, <1>12 DEF Test!Ledger

LEMMA SameTestCardinality == \A S : Test!Cardinality(S) = Cardinality(S)
BY DEF Test!Cardinality, Cardinality

(* What a book must be to account for a run *)
Nets(b) == [i \in DOMAIN b.trades |-> b.trades[i].net]
Grosses(b) == [i \in DOMAIN b.trades |-> b.trades[i].gross]
FilledIds(b) == {id \in DOMAIN b.orders : b.orders[id].status = "filled"}

BookSound(b) ==
    /\ b \in Test!Book
    /\ ~Test!IsOpen(b.ledger) => b.ledger.basis = 0 /\ b.ledger.entryCost = 0
    /\ Test!Balanced(b.ledger, Capital)
    /\ b.ledger.realized = Test!SumOf(Nets(b))
    /\ b.charged = Fee * Cardinality(FilledIds(b))
    /\ Test!SumOf(Grosses(b)) = Test!SumOf(Nets(b)) + b.charged - b.ledger.entryCost

(* An order that waits to be filled: what is reserved is its own, a        *)
(* purchase finds nothing held, and a sale is of all that is.              *)
Waits(b, id) ==
    /\ id \in DOMAIN b.orders /\ b.orders[id].status = "created"
    /\ b.ledger.reserved = b.orders[id].reserved
    /\ b.orders[id].side = "buy" => ~Test!IsOpen(b.ledger) /\ b.orders[id].qty > 0
    /\ b.orders[id].side = "sell" =>
           Test!IsOpen(b.ledger) /\ b.orders[id].qty = b.ledger.qty /\ b.orders[id].reserved = 0

LEMMA FilledCount ==
    ASSUME NEW b, b.orders \in Seq(Test!Order)
    PROVE  IsFiniteSet(FilledIds(b)) /\ Cardinality(FilledIds(b)) \in Nat
<1>1. FilledIds(b) \subseteq 1..Len(b.orders) /\ Len(b.orders) \in Nat
  BY DEF FilledIds
<1>2. IsFiniteSet(1..Len(b.orders))
  BY <1>1, FS_Interval
<1>3. IsFiniteSet(FilledIds(b))
  BY <1>1, <1>2, FS_Subset
<1>4. QED
  BY <1>3, FS_CardinalityType

(* The orders of a book with one of them changed: one more is filled if    *)
(* the new one is.                                                         *)
LEMMA FilledChange ==
    ASSUME NEW b, b.orders \in Seq(Test!Order), NEW id \in DOMAIN b.orders, b.orders[id].status = "created",
           NEW c, NEW y, c.orders = [b.orders EXCEPT ![id] = y]
    PROVE  /\ y.status = "filled" => Cardinality(FilledIds(c)) = Cardinality(FilledIds(b)) + 1
           /\ y.status # "filled" => FilledIds(c) = FilledIds(b)
<1>1. DOMAIN c.orders = DOMAIN b.orders /\ c.orders[id] = y /\ \A i \in DOMAIN b.orders \ {id} : c.orders[i] = b.orders[i]
  OBVIOUS
<1>2. id \notin FilledIds(b)
  BY DEF FilledIds
<1>3. ASSUME y.status = "filled" PROVE FilledIds(c) = FilledIds(b) \cup {id}
  BY <1>1, <1>3 DEF FilledIds
<1>4. ASSUME y.status # "filled" PROVE FilledIds(c) = FilledIds(b)
  BY <1>1, <1>4 DEF FilledIds
<1>5. Cardinality(FilledIds(b) \cup {id}) = Cardinality(FilledIds(b)) + 1
  BY <1>2, FilledCount, FS_AddElement, Zenon
<1>6. QED
  BY <1>3, <1>4, <1>5, Zenon

LEMMA OneMoreFee ==
    ASSUME NEW n \in Nat
    PROVE  Fee * n \in Nat /\ Fee * (n + 1) = Fee * n + Fee
<1>1. Fee \in Nat
  BY SizesOfTests
<1>2. QED
  BY <1>1

LEMMA SumsAreNumbers ==
    ASSUME NEW b \in Test!Book
    PROVE  Test!SumOf(Nets(b)) \in Int /\ Test!SumOf(Grosses(b)) \in Int
<1>1. b.trades \in Seq(Test!Trade)
  BY DEF Test!Book
<1>2. PICK n : n = Len(b.trades)
  BY Zenon
<1>0. n \in Nat /\ DOMAIN b.trades = 1..n
  BY <1>1, <1>2
<1>3. \A i \in 1..n : b.trades[i].net \in Int /\ b.trades[i].gross \in Int
  <2>1. \A i \in 1..n : b.trades[i] \in Test!Trade
    BY <1>0, <1>1
  <2>2. \A x \in Test!Trade : x.net \in Int /\ x.gross \in Int
    BY DEF Test!Trade
  <2>3. QED
    BY <2>1, <2>2
<1>4. Nets(b) = [i \in 1..n |-> b.trades[i].net] /\ Grosses(b) = [i \in 1..n |-> b.trades[i].gross]
  BY <1>0 DEF Nets, Grosses
<1>5. /\ Len(Nets(b)) = n /\ Len(Grosses(b)) = n
      /\ \A i \in 1..n : Nets(b)[i] \in Int /\ Grosses(b)[i] \in Int
  BY <1>0, <1>3, <1>4
<1>6. ASSUME NEW s, Len(s) = n, \A i \in 1..n : s[i] \in Int
      PROVE  Test!SumOf(s) \in Int
  BY <1>0, <1>6, SumOfType
<1>7. QED
  BY <1>5, <1>6

(* One trade more *)
LEMMA OneMoreTrade ==
    ASSUME NEW b \in Test!Book, NEW trade \in Test!Trade, NEW c, c.trades = Append(b.trades, trade)
    PROVE  /\ Test!SumOf(Nets(c)) = Test!SumOf(Nets(b)) + trade.net
           /\ Test!SumOf(Grosses(c)) = Test!SumOf(Grosses(b)) + trade.gross
<1>1. b.trades \in Seq(Test!Trade)
  BY DEF Test!Book
<1>2. PICK n : n = Len(b.trades)
  OBVIOUS
<1>3. /\ n \in Nat /\ DOMAIN b.trades = 1..n /\ DOMAIN c.trades = 1..(n + 1) /\ c.trades[n + 1] = trade
      /\ \A i \in 1..n : c.trades[i] = b.trades[i]
  BY <1>1, <1>2
<1>4. /\ Nets(b) = [i \in 1..n |-> b.trades[i].net]
      /\ Nets(c) = [i \in 1..(n + 1) |-> c.trades[i].net]
      /\ Grosses(b) = [i \in 1..n |-> b.trades[i].gross]
      /\ Grosses(c) = [i \in 1..(n + 1) |-> c.trades[i].gross]
  BY <1>3 DEF Nets, Grosses
<1>5. /\ Len(Nets(b)) = n /\ Len(Nets(c)) = n + 1 /\ Nets(c)[n + 1] = trade.net
      /\ \A i \in 1..n : Nets(c)[i] = Nets(b)[i]
      /\ Len(Grosses(b)) = n /\ Len(Grosses(c)) = n + 1 /\ Grosses(c)[n + 1] = trade.gross
      /\ \A i \in 1..n : Grosses(c)[i] = Grosses(b)[i]
  BY <1>3, <1>4
<1>6. ASSUME NEW old, NEW new, Len(old) = n, Len(new) = n + 1, \A i \in 1..n : new[i] = old[i]
      PROVE  Test!SumOf(new) = Test!SumOf(old) + new[n + 1]
  BY <1>3, <1>6, SumOfMore
<1>7. Test!SumOf(Nets(c)) = Test!SumOf(Nets(b)) + trade.net
  BY <1>5, <1>6
<1>8. Test!SumOf(Grosses(c)) = Test!SumOf(Grosses(b)) + trade.gross
  BY <1>5, <1>6
<1>9. QED
  BY <1>7, <1>8

LEMMA BookFields ==
    ASSUME NEW b \in Test!Book
    PROVE  /\ b.ledger \in Test!Ledger /\ b.trades \in Seq(Test!Trade) /\ b.curve \in Seq(Int)
           /\ b.charged \in Nat /\ b.slipped \in Nat /\ b.entryBar \in Nat /\ b.orders \in Seq(Test!Order)
BY DEF Test!Book

(* What the fill of a waiting order leaves *)
FillLeaves(b, id, price, bar, c) ==
    /\ BookSound(c) /\ c.curve = b.curve /\ c.ledger.reserved = 0 /\ c.entryBar <= bar
    /\ c.orders \in Seq(Test!Order) /\ Len(c.orders) = Len(b.orders)
    /\ \A i \in DOMAIN b.orders \ {id} : c.orders[i] = b.orders[i]
    /\ c.orders[id].status \in {"filled", "rejected"} /\ c.orders[id].ref = b.orders[id].ref
    /\ c.orders[id].fill.price \in {price + Slip, price - Slip}
    /\ b.orders[id].side = "sell" => ~Test!IsOpen(c.ledger)
    /\ b.orders[id].side = "buy" =>
           /\ Test!IsOpen(c.ledger) <=> c.orders[id].status = "filled"
           /\ Test!IsOpen(c.ledger) => c.entryBar = bar

(* The sums of a book whose trades are the same *)
LEMMA SameTrades ==
    ASSUME NEW b, NEW c, c.trades = b.trades
    PROVE  Nets(c) = Nets(b) /\ Grosses(c) = Grosses(b)
BY DEF Nets, Grosses

(* A sound book is one whose figures are *)
FiguresAgree(cash, basis, entryCost, realized, nets, grosses, charged, count) ==
    /\ cash + basis + entryCost = Capital + realized
    /\ realized = nets /\ charged = Fee * count
    /\ grosses = nets + charged - entryCost

LEMMA SoundFigures ==
    ASSUME NEW b \in Test!Book
    PROVE  BookSound(b) <=>
             /\ ~Test!IsOpen(b.ledger) => b.ledger.basis = 0 /\ b.ledger.entryCost = 0
             /\ FiguresAgree(b.ledger.cash, b.ledger.basis, b.ledger.entryCost, b.ledger.realized,
                             Test!SumOf(Nets(b)), Test!SumOf(Grosses(b)), b.charged, Cardinality(FilledIds(b)))
BY DEF BookSound, FiguresAgree, Test!Balanced

LEMMA FiguresOfBuy ==
    ASSUME NEW cash \in Int, NEW realized \in Int, NEW nets \in Int, NEW grosses \in Int, NEW count \in Nat,
           NEW charged \in Nat, NEW cost \in Nat, FiguresAgree(cash, 0, 0, realized, nets, grosses, charged, count)
    PROVE  FiguresAgree(cash - (cost + Fee), cost, Fee, realized, nets, grosses, charged + Fee, count + 1)
<1>1. Fee \in Nat /\ Capital \in Nat /\ Fee * (count + 1) = Fee * count + Fee
  BY SizesOfTests, OneMoreFee
<1>2. charged + Fee = Fee * (count + 1)
  BY <1>1 DEF FiguresAgree
<1>3. cash = Capital + realized /\ realized = nets /\ grosses = nets + charged
  BY <1>1 DEF FiguresAgree
<1>4. cash - (cost + Fee) + cost + Fee = Capital + realized /\ grosses = nets + (charged + Fee) - Fee
  BY <1>1, <1>3
<1>5. QED
  BY <1>2, <1>3, <1>4 DEF FiguresAgree

LEMMA FiguresOfSell ==
    ASSUME NEW cash \in Int, NEW basis \in Nat, NEW entry \in Nat, NEW realized \in Int, NEW nets \in Int,
           NEW grosses \in Int, NEW count \in Nat, NEW charged \in Nat, NEW worth \in Nat,
           FiguresAgree(cash, basis, entry, realized, nets, grosses, charged, count)
    PROVE  FiguresAgree(cash + (worth - Fee), 0, 0, realized + worth - basis - entry - Fee,
                        nets + (worth - basis - entry - Fee), grosses + (worth - basis), charged + Fee, count + 1)
<1>1. Fee \in Nat /\ Capital \in Nat /\ Fee * (count + 1) = Fee * count + Fee
  BY SizesOfTests, OneMoreFee
<1>2. charged + Fee = Fee * (count + 1)
  BY <1>1 DEF FiguresAgree
<1>3. cash + basis + entry = Capital + realized /\ realized = nets /\ grosses = nets + charged - entry
  BY <1>1 DEF FiguresAgree
<1>4. cash + (worth - Fee) + 0 + 0 = Capital + (realized + worth - basis - entry - Fee)
  BY <1>1, <1>3
<1>5. realized + worth - basis - entry - Fee = nets + (worth - basis - entry - Fee)
  BY <1>1, <1>3
<1>6. grosses + (worth - basis) = (nets + (worth - basis - entry - Fee)) + (charged + Fee) - 0
  BY <1>1, <1>3
<1>7. QED
  BY <1>2, <1>4, <1>5, <1>6 DEF FiguresAgree

(* What is known of a waiting order that is executed *)
LEMMA ExecutedWaiting ==
    ASSUME NEW b, BookSound(b), NEW id, Waits(b, id), NEW price \in Nat, price > Slip,
           NEW x, x = Test!Executed(b.orders[id], price)
    PROVE  /\ b \in Test!Book /\ id \in DOMAIN b.orders /\ b.orders[id] \in Test!Order
           /\ x \in Test!Order /\ Test!HasFill(x) /\ x.status = "filled" /\ x.side = b.orders[id].side
           /\ x.ref = b.orders[id].ref /\ x.reserved = b.orders[id].reserved
           /\ x.fill.qty = b.orders[id].qty /\ x.fill.cost = Fee
           /\ x.fill.price = IF b.orders[id].side = "buy" THEN price + Slip ELSE price - Slip
           /\ x.fill.price \in Nat /\ x.fill.qty \in Nat
           /\ Slip \in Nat /\ Fee \in Nat /\ Slip * x.fill.qty \in Nat
           /\ b.orders[id].status = "created"
<1>1. b \in Test!Book /\ id \in DOMAIN b.orders /\ b.orders[id] \in Test!Order /\ b.orders[id].status = "created"
  BY BookFields DEF BookSound, Waits
<1>2. PICK o \in Test!Order : o = b.orders[id]
  BY <1>1
<1>3. PICK at : at = IF o.side = "buy" THEN price + Slip ELSE price - Slip
  OBVIOUS
<1>4. /\ x \in Test!Order /\ Test!HasFill(x) /\ x.status = "filled" /\ x.side = o.side /\ at \in Nat
      /\ x.ref = o.ref /\ x.reserved = o.reserved /\ x.fill = [price |-> at, qty |-> o.qty, cost |-> Fee]
  BY <1>2, <1>3, ExecutedIsFilled
<1>5. x.fill.price = at /\ x.fill.qty = o.qty /\ x.fill.cost = Fee /\ o.qty \in Nat
  BY <1>4 DEF Test!Order
<1>6. Slip \in Nat /\ Fee \in Nat /\ Slip * o.qty \in Nat
  BY <1>5, SizesOfTests
<1>7. QED
  BY <1>1, <1>2, <1>3, <1>4, <1>5, <1>6

LEMMA BuySettled ==
    ASSUME NEW b, BookSound(b), NEW id, Waits(b, id), b.orders[id].side = "buy",
           NEW price \in Nat, price > Slip, NEW bar \in Nat, b.entryBar <= bar
    PROVE  FillLeaves(b, id, price, bar, Test!Settled(b, id, price, bar))
<1>1. PICK x : x = Test!Executed(b.orders[id], price)
  OBVIOUS
<1>2. PICK pf, qty, at, cost : pf = b.ledger /\ qty = x.fill.qty /\ at = x.fill.price /\ cost = at * qty
  OBVIOUS
<1>3. /\ b \in Test!Book /\ id \in DOMAIN b.orders /\ x \in Test!Order /\ Test!HasFill(x) /\ x.status = "filled"
      /\ x.side = "buy" /\ x.ref = b.orders[id].ref /\ x.reserved = b.orders[id].reserved
      /\ qty = b.orders[id].qty /\ x.fill.cost = Fee /\ at = price + Slip /\ at \in Nat /\ qty \in Nat
      /\ Fee \in Nat /\ Slip * qty \in Nat /\ b.orders[id].status = "created"
  BY <1>1, <1>2, ExecutedWaiting
<1>4. /\ pf \in Test!Ledger /\ b.trades \in Seq(Test!Trade) /\ b.charged \in Nat /\ b.slipped \in Nat
      /\ b.entryBar \in Nat /\ b.orders \in Seq(Test!Order)
  BY <1>2, <1>3, BookFields
<1>5. ~Test!IsOpen(pf) /\ pf.basis = 0 /\ pf.entryCost = 0 /\ pf.reserved = x.reserved /\ qty > 0
  BY <1>2, <1>3 DEF BookSound, Waits
<1>6. PICK l : l = Test!LedgerAfter(pf, x)
  OBVIOUS
<1>7. /\ cost \in Nat /\ l \in Test!Ledger /\ l.reserved = 0 /\ l.realized = pf.realized
      /\ Test!Unaffordable(pf, x) => l.cash = pf.cash /\ l.qty = 0 /\ l.basis = 0 /\ l.entryCost = 0
      /\ ~Test!Unaffordable(pf, x) =>
             l.cash = pf.cash - (cost + Fee) /\ l.qty = qty /\ l.basis = cost /\ l.entryCost = Fee
  <2>1. x.fill.qty > 0 /\ x.fill.price * x.fill.qty = cost
    BY <1>2, <1>5
  <2>2. LET after == Test!LedgerAfter(pf, x) total == x.fill.price * x.fill.qty IN
        /\ total \in Nat /\ after \in Test!Ledger /\ after.reserved = 0 /\ after.realized = pf.realized
        /\ Test!Unaffordable(pf, x) =>
               /\ after.cash = pf.cash /\ after.qty = 0 /\ after.basis = 0 /\ after.entryCost = 0
        /\ ~Test!Unaffordable(pf, x) =>
               /\ after.cash = pf.cash - (total + x.fill.cost) /\ after.qty = x.fill.qty
               /\ after.basis = total /\ after.entryCost = x.fill.cost
    BY <2>1, <1>3, <1>4, <1>5, BuyBooked, Zenon
  <2>3. QED
    BY <2>1, <2>2, <1>2, <1>3, <1>6
<1>8. PICK y : y = Test!OrderAfter(pf, x)
  OBVIOUS
<1>9. /\ y \in Test!Order /\ y.ref = x.ref /\ y.fill = x.fill
      /\ y.status = IF Test!Unaffordable(pf, x) THEN "rejected" ELSE "filled"
  BY <1>3, <1>8, Zenon DEF Test!OrderAfter, Test!Reject, Test!Order, Test!OrderStatus, Test!RejectReason
<1>10. PICK os : os = [b.orders EXCEPT ![id] = y]
  BY Zenon
<1>11. /\ os \in Seq(Test!Order) /\ Len(os) = Len(b.orders) /\ os[id] = y
       /\ \A i \in DOMAIN b.orders \ {id} : os[i] = b.orders[i]
  BY <1>3, <1>4, <1>9, <1>10
<1>12. PICK c : c = Test!Settled(b, id, price, bar)
  OBVIOUS
<1>13. PICK cash, realized, nets, grosses, count, charged :
          /\ cash = pf.cash /\ realized = pf.realized /\ nets = Test!SumOf(Nets(b)) /\ grosses = Test!SumOf(Grosses(b))
          /\ count = Cardinality(FilledIds(b)) /\ charged = b.charged
  OBVIOUS
<1>14. /\ cash \in Int /\ realized \in Int /\ nets \in Int /\ grosses \in Int /\ count \in Nat /\ charged \in Nat
  BY <1>3, <1>4, <1>13, SumsAreNumbers, FilledCount, Zenon DEF Test!Ledger
<1>15. FiguresAgree(cash, 0, 0, realized, nets, grosses, charged, count)
  BY <1>2, <1>3, <1>5, <1>13, SoundFigures
<1>16. PICK t : t = Test!TradeOf(b, x.fill, bar)
  OBVIOUS
<1>17. CASE Test!Unaffordable(pf, x)
  <2>1. c = [b EXCEPT !.ledger = l, !.orders = os, !.trades = b.trades, !.charged = b.charged,
                      !.slipped = b.slipped, !.entryBar = b.entryBar]
    BY <1>1, <1>2, <1>3, <1>6, <1>8, <1>10, <1>12, <1>17 DEF Test!Settled, Test!Applied
  <2>2. /\ c \in Test!Book /\ c.ledger = l /\ c.orders = os /\ c.trades = b.trades /\ c.charged = charged
        /\ c.entryBar = b.entryBar /\ c.curve = b.curve
    BY <2>1, <1>3, <1>4, <1>7, <1>11, <1>13, Zenon DEF Test!Book
  <2>3. FilledIds(c) = FilledIds(b)
    <3>1. y.status # "filled" /\ c.orders = [b.orders EXCEPT ![id] = y]
      BY <2>2, <1>9, <1>10, <1>17
    <3>2. DOMAIN c.orders = DOMAIN b.orders /\ \A i \in DOMAIN b.orders \ {id} : c.orders[i] = b.orders[i]
      BY <2>2, <1>3, <1>10
    <3>3. c.orders[id].status # "filled" /\ b.orders[id].status # "filled"
      BY <3>1, <1>3
    <3>4. QED
      BY <3>2, <3>3 DEF FilledIds
  <2>4. Nets(c) = Nets(b) /\ Grosses(c) = Grosses(b)
    BY <2>2, SameTrades
  <2>5. l.basis = 0 /\ l.entryCost = 0 /\ l.cash = cash /\ l.realized = realized
    BY <1>7, <1>13, <1>17
  <2>6. BookSound(c)
    BY <2>2, <2>3, <2>4, <2>5, <1>13, <1>15, SoundFigures
  <2>7. ~Test!IsOpen(l)
    BY <1>7, <1>17 DEF Test!IsOpen
  <2>8. y.status = "rejected" /\ y.ref = b.orders[id].ref /\ y.fill.price = price + Slip
    BY <1>2, <1>3, <1>9, <1>17, Zenon
  <2>9. QED
    BY <2>2, <2>6, <2>7, <2>8, <1>7, <1>11, <1>12 DEF FillLeaves
<1>18. CASE ~Test!Unaffordable(pf, x)
  <2>1. c = [b EXCEPT !.ledger = l, !.orders = os, !.trades = b.trades, !.charged = b.charged + Fee,
                      !.slipped = b.slipped + Slip * x.fill.qty, !.entryBar = bar]
    BY <1>1, <1>2, <1>3, <1>5, <1>6, <1>8, <1>10, <1>12, <1>18, Zenon DEF Test!Settled, Test!Applied
  <2>2. PICK more, slips : more = b.charged + Fee /\ slips = b.slipped + Slip * x.fill.qty
    OBVIOUS
  <2>3. more \in Nat /\ slips \in Nat
    <3>1. Slip * x.fill.qty = Slip * qty
      BY <1>2
    <3>2. PICK u, v : u = Slip * qty /\ v = b.slipped
      OBVIOUS
    <3>3. u \in Nat /\ v \in Nat /\ slips = v + u
      <4>1. u \in Nat /\ v \in Nat
        BY <3>2, <1>3, <1>4
      <4>2. QED
        BY <4>1, <2>2, <3>1, <3>2
    <3>4. more \in Nat
      <4>1. PICK w : w = b.charged
        OBVIOUS
      <4>2. w \in Nat /\ Fee \in Nat
        BY <4>1, <1>3, <1>4
      <4>3. QED
        BY <4>1, <4>2, <2>2
    <3>5. QED
      BY <3>3, <3>4
  <2>4. /\ c \in Test!Book /\ c.ledger = l /\ c.orders = os /\ c.trades = b.trades /\ c.charged = more
        /\ c.entryBar = bar /\ c.curve = b.curve
    BY <2>1, <2>2, <2>3, <1>3, <1>4, <1>7, <1>11, Zenon DEF Test!Book
  <2>5. Cardinality(FilledIds(c)) = count + 1
    <3>1. y.status = "filled" /\ c.orders = [b.orders EXCEPT ![id] = y]
      BY <2>4, <1>9, <1>10, <1>18
    <3>2. b.orders \in Seq(Test!Order) /\ id \in DOMAIN b.orders /\ b.orders[id].status = "created"
      BY <1>3, <1>4
    <3>3. Cardinality(FilledIds(c)) = Cardinality(FilledIds(b)) + 1
      BY <3>1, <3>2, FilledChange
    <3>4. QED
      BY <3>3, <1>13
  <2>6. Nets(c) = Nets(b) /\ Grosses(c) = Grosses(b)
    BY <2>4, SameTrades
  <2>7. l.basis = cost /\ l.entryCost = Fee /\ l.cash = cash - (cost + Fee) /\ l.realized = realized /\ l.qty = qty
    BY <1>7, <1>13, <1>18
  <2>8. FiguresAgree(cash - (cost + Fee), cost, Fee, realized, nets, grosses, charged + Fee, count + 1)
    BY <1>7, <1>14, <1>15, FiguresOfBuy, Zenon
  <2>9. Test!IsOpen(l)
    BY <2>7, <1>5 DEF Test!IsOpen
  <2>10. BookSound(c)
    BY <2>2, <2>4, <2>5, <2>6, <2>7, <2>8, <2>9, <1>13, SoundFigures
  <2>11. y.status = "filled" /\ y.ref = b.orders[id].ref /\ y.fill.price = price + Slip
    BY <1>2, <1>3, <1>9, <1>18, Zenon
  <2>12. QED
    BY <2>4, <2>9, <2>10, <2>11, <1>7, <1>11, <1>12 DEF FillLeaves
<1>19. QED
  BY <1>12, <1>17, <1>18

LEMMA SellSettled ==
    ASSUME NEW b, BookSound(b), NEW id, Waits(b, id), b.orders[id].side = "sell",
           NEW price \in Nat, price > Slip, NEW bar \in Nat, b.entryBar <= bar
    PROVE  FillLeaves(b, id, price, bar, Test!Settled(b, id, price, bar))
<1>1. PICK x : x = Test!Executed(b.orders[id], price)
  OBVIOUS
<1>2. PICK pf, qty, at, worth : pf = b.ledger /\ qty = x.fill.qty /\ at = x.fill.price /\ worth = at * qty
  OBVIOUS
<1>3. /\ b \in Test!Book /\ id \in DOMAIN b.orders /\ x \in Test!Order /\ Test!HasFill(x) /\ x.status = "filled"
      /\ x.side = "sell" /\ x.ref = b.orders[id].ref /\ qty = b.orders[id].qty /\ x.fill.cost = Fee
      /\ at = price - Slip /\ at \in Nat /\ qty \in Nat /\ Fee \in Nat /\ Slip * qty \in Nat
      /\ b.orders[id].status = "created"
  BY <1>1, <1>2, ExecutedWaiting
<1>4. /\ pf \in Test!Ledger /\ b.trades \in Seq(Test!Trade) /\ b.charged \in Nat /\ b.slipped \in Nat
      /\ b.entryBar \in Nat /\ b.orders \in Seq(Test!Order)
  BY <1>2, <1>3, BookFields
<1>5. Test!IsOpen(pf) /\ pf.qty = qty /\ pf.reserved = 0
  BY <1>2, <1>3 DEF Waits
<1>6. PICK l : l = Test!LedgerAfter(pf, x)
  OBVIOUS
<1>7. PICK cash, basis, entry, realized, nets, grosses, count, charged :
          /\ cash = pf.cash /\ basis = pf.basis /\ entry = pf.entryCost
          /\ realized = pf.realized /\ nets = Test!SumOf(Nets(b)) /\ grosses = Test!SumOf(Grosses(b))
          /\ count = Cardinality(FilledIds(b)) /\ charged = b.charged
  OBVIOUS
<1>8. /\ cash \in Int /\ basis \in Nat /\ entry \in Nat /\ realized \in Int /\ nets \in Int /\ grosses \in Int
      /\ count \in Nat /\ charged \in Nat
  BY <1>3, <1>4, <1>7, SumsAreNumbers, FilledCount, Zenon DEF Test!Ledger
<1>9. FiguresAgree(cash, basis, entry, realized, nets, grosses, charged, count)
  BY <1>2, <1>3, <1>7, SoundFigures
<1>10. /\ worth \in Nat /\ l \in Test!Ledger /\ l.reserved = 0 /\ l.qty = 0 /\ l.basis = 0 /\ l.entryCost = 0
       /\ l.cash = cash + (worth - Fee) /\ l.realized = realized + worth - basis - entry - Fee
       /\ ~Test!Unaffordable(pf, x)
  <2>1. x.side # "buy" /\ x.fill.qty = pf.qty /\ x.fill.price * pf.qty = worth
    BY <1>2, <1>3, <1>5
  <2>2. LET after == Test!LedgerAfter(pf, x) total == x.fill.price * pf.qty IN
        /\ total \in Nat /\ after \in Test!Ledger /\ after.reserved = pf.reserved
        /\ after.qty = 0 /\ after.basis = 0 /\ after.entryCost = 0
        /\ after.cash = pf.cash + (total - x.fill.cost)
        /\ after.realized = pf.realized + total - pf.basis - pf.entryCost - x.fill.cost
        /\ ~Test!Unaffordable(pf, x)
    BY <2>1, <1>3, <1>4, <1>5, SellBooked, Zenon
  <2>3. QED
    BY <2>1, <2>2, <1>3, <1>5, <1>6, <1>7
<1>11. Test!OrderAfter(pf, x) = x
  BY <1>10 DEF Test!OrderAfter
<1>12. PICK os : os = [b.orders EXCEPT ![id] = x]
  BY Zenon
<1>13. /\ os \in Seq(Test!Order) /\ Len(os) = Len(b.orders) /\ os[id] = x
       /\ \A i \in DOMAIN b.orders \ {id} : os[i] = b.orders[i]
  BY <1>3, <1>4, <1>12
<1>14. PICK t : t = Test!TradeOf(b, x.fill, bar)
  OBVIOUS
<1>15. /\ t \in Test!Trade /\ t.gross = worth - basis /\ t.net = worth - basis - entry - Fee
  <2>1. PICK g : g = worth - basis
    OBVIOUS
  <2>2. t = [qty |-> qty, gross |-> g, net |-> g - entry - Fee, bars |-> bar - b.entryBar, at |-> bar]
    BY <2>1, <1>2, <1>3, <1>5, <1>7, <1>14, Zenon DEF Test!TradeOf
  <2>3. g \in Int /\ g - entry - Fee \in Int /\ bar - b.entryBar \in Nat
    <3>1. PICK e : e = b.entryBar
      OBVIOUS
    <3>2. e \in Nat /\ e <= bar
      BY <3>1, <1>4
    <3>3. bar - e \in Nat
      BY <3>2
    <3>4. g \in Int /\ g - entry - Fee \in Int
      BY <2>1, <1>3, <1>8, <1>10
    <3>5. QED
      BY <3>1, <3>3, <3>4
  <2>4. QED
    BY <2>1, <2>2, <2>3, <1>3 DEF Test!Trade
<1>16. PICK c : c = Test!Settled(b, id, price, bar)
  OBVIOUS
<1>17. c = [b EXCEPT !.ledger = l, !.orders = os, !.trades = Append(b.trades, t), !.charged = b.charged + Fee,
                     !.slipped = b.slipped + Slip * x.fill.qty, !.entryBar = b.entryBar]
  BY <1>1, <1>2, <1>3, <1>5, <1>6, <1>10, <1>11, <1>12, <1>14, <1>16, Zenon DEF Test!Settled, Test!Applied
<1>18. PICK more, slips, ts : more = b.charged + Fee /\ slips = b.slipped + Slip * x.fill.qty /\ ts = Append(b.trades, t)
  BY Zenon
<1>19. more \in Nat /\ slips \in Nat /\ ts \in Seq(Test!Trade)
  <2>1. Slip * x.fill.qty = Slip * qty
    BY <1>2
  <2>2. PICK u, v : u = Slip * qty /\ v = b.slipped
    OBVIOUS
  <2>3. u \in Nat /\ v \in Nat /\ slips = v + u
    <3>1. u \in Nat /\ v \in Nat
      BY <2>2, <1>3, <1>4
    <3>2. QED
      BY <3>1, <1>18, <2>1, <2>2
  <2>4. more \in Nat
    <3>1. PICK w : w = b.charged
      OBVIOUS
    <3>2. w \in Nat /\ Fee \in Nat
      BY <3>1, <1>3, <1>4
    <3>3. QED
      BY <3>1, <3>2, <1>18
  <2>5. ts \in Seq(Test!Trade)
    BY <1>4, <1>15, <1>18
  <2>6. QED
    BY <2>3, <2>4, <2>5
<1>20. /\ c \in Test!Book /\ c.ledger = l /\ c.orders = os /\ c.trades = ts /\ c.charged = more
       /\ c.entryBar = b.entryBar /\ c.curve = b.curve
  BY <1>3, <1>4, <1>10, <1>13, <1>17, <1>18, <1>19, Zenon DEF Test!Book
<1>21. Cardinality(FilledIds(c)) = count + 1
  <2>1. x.status = "filled" /\ c.orders = [b.orders EXCEPT ![id] = x]
    BY <1>3, <1>12, <1>20
  <2>2. b.orders \in Seq(Test!Order) /\ id \in DOMAIN b.orders /\ b.orders[id].status = "created"
    BY <1>3, <1>4
  <2>3. Cardinality(FilledIds(c)) = Cardinality(FilledIds(b)) + 1
    BY <2>1, <2>2, FilledChange
  <2>4. QED
    BY <2>3, <1>7
<1>22. Test!SumOf(Nets(c)) = nets + t.net /\ Test!SumOf(Grosses(c)) = grosses + t.gross
  BY <1>3, <1>7, <1>15, <1>18, <1>20, OneMoreTrade
<1>23. FiguresAgree(cash + (worth - Fee), 0, 0, realized + worth - basis - entry - Fee,
                    nets + (worth - basis - entry - Fee), grosses + (worth - basis), charged + Fee, count + 1)
  BY <1>8, <1>9, <1>10, FiguresOfSell, Zenon
<1>24. more = charged + Fee
  BY <1>7, <1>18
<1>25. BookSound(c)
  BY <1>10, <1>15, <1>20, <1>21, <1>22, <1>23, <1>24, SoundFigures
<1>26. ~Test!IsOpen(l)
  BY <1>10 DEF Test!IsOpen
<1>27. x.fill.price = price - Slip
  BY <1>2, <1>3
<1>28. QED
  BY <1>3, <1>10, <1>13, <1>16, <1>20, <1>25, <1>26, <1>27 DEF FillLeaves

LEMMA SettledKeeps ==
    ASSUME NEW b, BookSound(b), NEW id, Waits(b, id),
           NEW price \in Nat, price > Slip, NEW bar \in Nat, b.entryBar <= bar
    PROVE  FillLeaves(b, id, price, bar, Test!Settled(b, id, price, bar))
<1>1. b.orders[id] \in Test!Order
  BY BookFields DEF BookSound, Waits
<1>2. b.orders[id].side \in {"buy", "sell"}
  BY <1>1 DEF Test!Order, Test!OrderSide
<1>3. QED
  BY <1>2, BuySettled, SellSettled

(* Books that differ in what is reserved, in the curve and in orders that  *)
(* are not filled are sound together.                                      *)
LEMMA SoundTogether ==
    ASSUME NEW b, BookSound(b), NEW c \in Test!Book, NEW pf, pf = b.ledger, NEW l, l = c.ledger,
           l.cash = pf.cash, l.qty = pf.qty, l.basis = pf.basis, l.entryCost = pf.entryCost, l.realized = pf.realized,
           c.trades = b.trades, c.charged = b.charged, FilledIds(c) = FilledIds(b)
    PROVE  BookSound(c)
<1>1. b \in Test!Book
  BY DEF BookSound
<1>2. Nets(c) = Nets(b) /\ Grosses(c) = Grosses(b)
  BY SameTrades
<1>3. Test!IsOpen(l) <=> Test!IsOpen(pf)
  BY DEF Test!IsOpen
<1>4. QED
  BY <1>1, <1>2, <1>3, SoundFigures

(* An order is recorded and waits. *)
LEMMA RecordedKeeps ==
    ASSUME NEW b, BookSound(b), b.ledger.reserved = 0, NEW ord \in Test!Order, ord.status = "created",
           ord.side = "buy" => ~Test!IsOpen(b.ledger) /\ ord.qty > 0,
           ord.side = "sell" => Test!IsOpen(b.ledger) /\ ord.qty = b.ledger.qty /\ ord.reserved = 0,
           NEW c, c = Test!Recorded(b, ord), NEW id, id = Len(b.orders) + 1
    PROVE  /\ BookSound(c) /\ Waits(c, id)
           /\ c.orders = Append(b.orders, ord) /\ c.trades = b.trades /\ c.curve = b.curve /\ c.entryBar = b.entryBar
           /\ c.ledger = [b.ledger EXCEPT !.reserved = ord.reserved]
<1>1. b \in Test!Book
  BY DEF BookSound
<1>2. PICK pf, os, r : pf = b.ledger /\ os = b.orders /\ r = ord.reserved
  OBVIOUS
<1>3. pf \in Test!Ledger /\ os \in Seq(Test!Order) /\ r \in Nat
  BY <1>1, <1>2, BookFields, Zenon DEF Test!Order
<1>4. PICK l, more : l = [pf EXCEPT !.reserved = r] /\ more = Append(os, ord)
  BY Zenon
<1>5. /\ l \in Test!Ledger /\ l.reserved = r /\ l.cash = pf.cash /\ l.qty = pf.qty /\ l.basis = pf.basis
      /\ l.entryCost = pf.entryCost /\ l.realized = pf.realized
  BY <1>3, <1>4, Zenon DEF Test!Ledger
<1>6. /\ more \in Seq(Test!Order) /\ DOMAIN os = 1..Len(os) /\ DOMAIN more = 1..id /\ id \in Nat /\ id > Len(os)
      /\ more[id] = ord /\ \A i \in DOMAIN os : more[i] = os[i]
  BY <1>2, <1>3, <1>4
<1>7. Test!Reserve(pf, r) = l
  <2>1. pf.reserved + r = r
    BY <1>2, <1>3
  <2>2. QED
    BY <2>1, <1>4 DEF Test!Reserve
<1>8. c = [b EXCEPT !.orders = more, !.ledger = l]
  BY <1>2, <1>4, <1>7 DEF Test!Recorded
<1>9. /\ c \in Test!Book /\ c.ledger = l /\ c.orders = more /\ c.trades = b.trades /\ c.charged = b.charged
      /\ c.curve = b.curve /\ c.entryBar = b.entryBar
  BY <1>1, <1>5, <1>6, <1>8, Zenon DEF Test!Book
<1>10. FilledIds(c) = FilledIds(b)
  <2>1. \A i : i \in 1..id <=> i \in DOMAIN os \/ i = id
    BY <1>3, <1>6, <1>2
  <2>2. ord.status # "filled" /\ id \notin DOMAIN os
    BY <1>6
  <2>3. QED
    BY <2>1, <2>2, <1>2, <1>6, <1>9 DEF FilledIds
<1>11. BookSound(c)
  BY <1>2, <1>5, <1>9, <1>10, SoundTogether
<1>12. Test!IsOpen(l) <=> Test!IsOpen(pf)
  BY <1>5 DEF Test!IsOpen
<1>13. Waits(c, id)
  BY <1>2, <1>5, <1>6, <1>9, <1>12 DEF Waits
<1>14. QED
  BY <1>2, <1>4, <1>9, <1>11, <1>13

(* The value at a close joins the curve. *)
LEMMA MarkedKeeps ==
    ASSUME NEW b, BookSound(b), NEW price \in Nat, NEW c, c = Test!Marked(b, price)
    PROVE  /\ BookSound(c) /\ c.ledger = b.ledger /\ c.orders = b.orders /\ c.trades = b.trades
           /\ c.entryBar = b.entryBar /\ c.curve = Append(b.curve, Test!Equity(b, price))
           /\ Test!Equity(b, price) \in Int
<1>1. b \in Test!Book
  BY DEF BookSound
<1>2. PICK pf, e, cash, qty : pf = b.ledger /\ e = Test!Equity(b, price) /\ cash = pf.cash /\ qty = pf.qty
  OBVIOUS
<1>3. cash \in Int /\ qty \in Nat /\ b.curve \in Seq(Int)
  BY <1>1, <1>2, BookFields DEF Test!Ledger
<1>4. e = cash + qty * price
  BY <1>2 DEF Test!Equity
<1>5. PICK worth : worth = qty * price
  OBVIOUS
<1>6. worth \in Nat /\ e = cash + worth
  BY <1>3, <1>4, <1>5
<1>7. e \in Int
  BY <1>3, <1>6
<1>8. Append(b.curve, e) \in Seq(Int)
  BY <1>3, <1>7
<1>9. c = [b EXCEPT !.curve = Append(b.curve, e)]
  BY <1>2 DEF Test!Marked
<1>10. /\ c \in Test!Book /\ c.ledger = pf /\ c.orders = b.orders /\ c.trades = b.trades /\ c.charged = b.charged
       /\ c.curve = Append(b.curve, e) /\ c.entryBar = b.entryBar
  BY <1>1, <1>2, <1>8, <1>9, Zenon DEF Test!Book
<1>11. FilledIds(c) = FilledIds(b)
  BY <1>10 DEF FilledIds
<1>12. BookSound(c)
  BY <1>2, <1>10, <1>11, SoundTogether
<1>13. QED
  BY <1>2, <1>7, <1>10, <1>12

(* What an order that is never filled leaves *)
Cancelled(b, id) ==
    [b EXCEPT !.orders[id] = Test!Cancel(@), !.ledger = Test!Release(@, b.orders[id].reserved)]

LEMMA CancelledKeeps ==
    ASSUME NEW b, BookSound(b), NEW id, Waits(b, id),
           NEW c, c = Cancelled(b, id)
    PROVE  /\ BookSound(c) /\ c.ledger = [b.ledger EXCEPT !.reserved = 0]
           /\ c.trades = b.trades /\ c.curve = b.curve /\ c.entryBar = b.entryBar
           /\ Len(c.orders) = Len(b.orders) /\ c.orders[id].status = "cancelled" /\ c.orders[id].ref = b.orders[id].ref
           /\ \A i \in DOMAIN b.orders \ {id} : c.orders[i] = b.orders[i]
<1>1. b \in Test!Book /\ id \in DOMAIN b.orders
  BY DEF BookSound, Waits
<1>2. PICK pf, os, o, r : pf = b.ledger /\ os = b.orders /\ o = os[id] /\ r = pf.reserved
  OBVIOUS
<1>3. pf \in Test!Ledger /\ os \in Seq(Test!Order) /\ o \in Test!Order /\ r \in Nat /\ r = o.reserved
  BY <1>1, <1>2, BookFields DEF Test!Ledger, Waits
<1>4. PICK l, y, after : l = [pf EXCEPT !.reserved = 0] /\ y = [o EXCEPT !.status = "cancelled"] /\ after = [os EXCEPT ![id] = y]
  BY Zenon
<1>5. /\ l \in Test!Ledger /\ l.reserved = 0 /\ l.cash = pf.cash /\ l.qty = pf.qty /\ l.basis = pf.basis
      /\ l.entryCost = pf.entryCost /\ l.realized = pf.realized
  BY <1>3, <1>4, Zenon DEF Test!Ledger
<1>6. y \in Test!Order /\ y.status = "cancelled" /\ y.ref = o.ref
  BY <1>3, <1>4, Zenon DEF Test!Order, Test!OrderStatus
<1>7. /\ after \in Seq(Test!Order) /\ Len(after) = Len(os) /\ after[id] = y
      /\ \A i \in DOMAIN os \ {id} : after[i] = os[i]
  BY <1>1, <1>2, <1>3, <1>4, <1>6
<1>8. Test!Release(pf, o.reserved) = l
  BY <1>2, <1>3, <1>4 DEF Test!Release
<1>9. c = [b EXCEPT !.orders = after, !.ledger = l]
  BY <1>1, <1>2, <1>4, <1>8 DEF Cancelled, Test!Cancel, Test!Book
<1>10. /\ c \in Test!Book /\ c.ledger = l /\ c.orders = after /\ c.trades = b.trades /\ c.charged = b.charged
       /\ c.curve = b.curve /\ c.entryBar = b.entryBar
  BY <1>1, <1>5, <1>7, <1>9, Zenon DEF Test!Book
<1>11. FilledIds(c) = FilledIds(b)
  <2>1. o.status # "filled"
    BY <1>2 DEF Waits
  <2>2. DOMAIN after = DOMAIN os
    BY <1>4
  <2>3. QED
    BY <2>1, <2>2, <1>2, <1>6, <1>7, <1>10 DEF FilledIds
<1>12. BookSound(c)
  <2>1. /\ c \in Test!Book /\ pf = b.ledger /\ l = c.ledger /\ c.trades = b.trades /\ c.charged = b.charged
        /\ l.cash = pf.cash /\ l.qty = pf.qty /\ l.basis = pf.basis /\ l.entryCost = pf.entryCost
        /\ l.realized = pf.realized
    BY <1>2, <1>5, <1>10
  <2>2. QED
    BY <2>1, <1>11, SoundTogether
<1>13. QED
  BY <1>2, <1>4, <1>6, <1>7, <1>10, <1>12

-----------------------------------------------------------------------------
(* The backtest's invariant *)
TestTyped ==
    /\ setup \in Setups /\ DOMAIN tested = StrategyFields
    /\ bricks \in Seq(Bricks) /\ wanted \in Seq(Test!Holdings) /\ Len(wanted) = Len(bricks)
    /\ tested.position = IF bricks = <<>> THEN "flat" ELSE wanted[Len(bricks)]
    /\ made \in Seq(Nat) /\ done \in Seq(Nat)
    /\ Len(made) = Len(book.orders) /\ Len(done) = Len(book.orders)

(* The books tell the bricks so far. *)
BooksTrue ==
    /\ BookSound(book) /\ book.entryBar <= Len(bricks)
    /\ bricks = <<>> =>
           /\ book.orders = <<>> /\ book.curve = <<>> /\ book.ledger = Test!NewLedger(Capital)
    /\ bricks # <<>> =>
           book.curve # <<>> /\ book.curve[Len(book.curve)] = Test!Equity(book, bricks[Len(bricks)].close)

(* The order that waits is the last one, made on the last brick. *)
WaitingTrue ==
    /\ pending = 0 => book.ledger.reserved = 0
    /\ pending # 0 =>
           /\ Waits(book, pending) /\ pending = Len(book.orders) /\ made[pending] = Len(bricks)
           /\ report = Test!NoReport

(* An order is priced on its brick and settled with the next one. *)
OrdersTold ==
    \A id \in 1..Len(book.orders) :
        /\ made[id] \in 1..Len(bricks) /\ book.orders[id].ref = bricks[made[id]].close
        /\ Test!IsActive(book.orders[id]) <=> id = pending
        /\ report = Test!NoReport /\ made[id] = Len(bricks) => id = pending
        /\ book.orders[id].status = "filled" =>
               /\ done[id] \in 1..Len(bricks)
               /\ \/ done[id] = made[id] + 1
                  \/ done[id] = made[id] /\ report # Test!NoReport /\ id = Len(book.orders)
               /\ book.orders[id].fill.price \in {bricks[done[id]].close + Slip, bricks[done[id]].close - Slip}

EndsSettled ==
    report # Test!NoReport =>
        /\ pending = 0 /\ report = Test!Metrics(book.curve, book.trades, Capital)
        /\ setup.forced => ~Test!IsOpen(book.ledger)

(* No order of a brick was ever filled. *)
NothingBought(bar) == \A id \in 1..Len(book.orders) : made[id] = bar => book.orders[id].status = "rejected"

(* The strategy is long since a brick, and nothing was bought on it. *)
Unentered(n) ==
    \E e \in 1..n : /\ e = 1 \/ wanted[e - 1] # "long"
                    /\ \A i \in e..n : wanted[i] = "long"
                    /\ NothingBought(e)

(* Without rules, a position is open one brick after the strategy wants it *)
TradesFollow ==
    setup.rules = <<>> /\ report = Test!NoReport =>
        LET n == Len(bricks) IN
        /\ Test!IsOpen(book.ledger) =>
               n > 1 /\ wanted[n - 1] = "long" /\ wanted[n] = IF pending = 0 THEN "long" ELSE "flat"
        /\ ~Test!IsOpen(book.ledger) /\ pending # 0 =>
               n > 0 /\ wanted[n] = "long" /\ (n > 1 => wanted[n - 1] # "long")
        /\ ~Test!IsOpen(book.ledger) /\ pending = 0 =>
               /\ n > 0 /\ wanted[n] = "long" => Unentered(n)
               /\ n > 1 /\ wanted[n - 1] = "long" => Unentered(n - 1)

Trails == \E i \in DOMAIN setup.rules : Test!IsTrailing(setup.rules[i])

(* The trailing stop remembers the highest close of the exposure. *)
StopsTrail ==
    Trails /\ report = Test!NoReport =>
        IF Test!IsOpen(book.ledger)
        THEN /\ book.entryBar \in 1..Len(bricks)
             /\ \E i \in book.entryBar..Len(bricks) : highest = bricks[i].close
             /\ \A i \in book.entryBar..Len(bricks) : bricks[i].close <= highest
        ELSE highest = NoValue

BacktestSafe ==
    TestTyped /\ BooksTrue /\ WaitingTrue /\ OrdersTold /\ EndsSettled /\ TradesFollow /\ StopsTrail
        /\ Test!RulesAreObeyed

-----------------------------------------------------------------------------
(* What is known of an order the signals make *)
OrderTells(order, signal, b, price) ==
    \/ order = NoValue /\ (signal = "exit" => ~Test!IsOpen(b.ledger))
    \/ /\ order \in Test!Order /\ order.status = "created" /\ order.ref = price
       /\ \/ order.side = "buy" /\ signal = "buy" /\ ~Test!IsOpen(b.ledger) /\ order.qty > 0
          \/ /\ order.side = "sell" /\ signal = "exit" /\ Test!IsOpen(b.ledger)
             /\ order.qty = b.ledger.qty /\ order.reserved = 0

LEMMA QuantityIsNumber ==
    ASSUME setup \in Setups, NEW b \in Test!Book, NEW price \in Nat, price > Slip
    PROVE  Test!EntryQuantity(b, price) \in Int
<1>1. /\ setup.quantity = NoValue \/ setup.quantity \in Nat
      /\ setup.percent \in Nat /\ setup.leverage \in Nat /\ Slip \in Nat
  BY SizesOfTests
<1>2. PICK lev, pct, cash, kept : lev = setup.leverage /\ pct = setup.percent /\ cash = b.ledger.cash /\ kept = b.ledger.reserved
  OBVIOUS
<1>3. lev \in Nat /\ pct \in Nat /\ cash \in Int /\ kept \in Nat
  BY <1>1, <1>2, BookFields DEF Test!Ledger
<1>4. PICK m : m = (cash - kept) * lev
  OBVIOUS
<1>5. m \in Int
  BY <1>3, <1>4
<1>6. PICK k : k = m * pct
  OBVIOUS
<1>7. k \in Int
  BY <1>3, <1>5, <1>6
<1>8. PICK d : d = 100 * price
  OBVIOUS
<1>9. d \in Nat /\ d > 0
  BY <1>1, <1>8
<1>10. k \div d \in Int
  BY <1>7, <1>9
<1>11. setup.quantity = NoValue => Test!EntryQuantity(b, price) = k \div d
  BY <1>1, <1>2, <1>4, <1>6, <1>8 DEF Test!EntryQuantity
<1>12. setup.quantity # NoValue => Test!EntryQuantity(b, price) = setup.quantity
  BY DEF Test!EntryQuantity
<1>13. QED
  BY <1>1, <1>10, <1>11, <1>12

LEMMA SaleIsOrder ==
    ASSUME NEW b \in Test!Book, NEW price \in Nat
    PROVE  LET ord == Test!NewOrder("sell", "asset", b.ledger.qty, price) IN
           /\ ord \in Test!Order /\ ord.status = "created" /\ ord.ref = price /\ ord.side = "sell"
           /\ ord.qty = b.ledger.qty /\ ord.reserved = 0
<1>1. b.ledger.qty \in Nat
  BY BookFields DEF Test!Ledger
<1>2. QED
  BY <1>1 DEF Test!NewOrder, Test!Order, Test!OrderStatus, Test!OrderSide, Test!RejectReason, Test!NoFill, Test!Fill

LEMMA OrderIsTold ==
    ASSUME setup \in Setups, NEW b \in Test!Book, NEW price \in Nat, price > Slip, NEW signal
    PROVE  OrderTells(Test!OrderFromSignal(signal, b, price), signal, b, price)
<1>1. PICK qty : qty = Test!EntryQuantity(b, price)
  OBVIOUS
<1>2. qty \in Int
  BY <1>1, QuantityIsNumber
<1>3. CASE signal = "buy" /\ ~Test!IsOpen(b.ledger) /\ qty > 0
  <2>1. PICK worth : worth = qty * price
    OBVIOUS
  <2>2. qty \in Nat /\ worth \in Nat
    BY <2>1, <1>2, <1>3
  <2>3. PICK ord : ord = [Test!NewOrder("buy", "asset", qty, price) EXCEPT !.reserved = worth]
    BY Zenon
  <2>4. ord \in Test!Order /\ ord.status = "created" /\ ord.ref = price /\ ord.side = "buy" /\ ord.qty = qty
    BY <2>2, <2>3, Zenon DEF Test!NewOrder, Test!Order, Test!OrderStatus, Test!OrderSide, Test!RejectReason, Test!NoFill, Test!Fill
  <2>5. Test!OrderFromSignal(signal, b, price) = ord
    BY <1>1, <1>3, <2>1, <2>3 DEF Test!OrderFromSignal
  <2>6. QED
    BY <1>3, <2>4, <2>5 DEF OrderTells
<1>4. CASE signal = "exit" /\ Test!IsOpen(b.ledger)
  <2>1. Test!OrderFromSignal(signal, b, price) = Test!NewOrder("sell", "asset", b.ledger.qty, price)
    BY <1>4 DEF Test!OrderFromSignal
  <2>2. QED
    BY <1>4, <2>1, SaleIsOrder DEF OrderTells
<1>5. CASE ~(signal = "buy" /\ ~Test!IsOpen(b.ledger) /\ qty > 0) /\ ~(signal = "exit" /\ Test!IsOpen(b.ledger))
  <2>1. Test!OrderFromSignal(signal, b, price) = NoValue
    BY <1>1, <1>5 DEF Test!OrderFromSignal
  <2>2. QED
    BY <1>5, <2>1 DEF OrderTells
<1>6. QED
  BY <1>3, <1>4, <1>5

-----------------------------------------------------------------------------
(* What a brick finds before it decides: the order that waited is settled  *)
Found(price, bar, marked) ==
    /\ price \in Nat /\ price > Slip /\ bar = Len(bricks) + 1 /\ report = Test!NoReport
    /\ BookSound(marked) /\ marked.ledger.reserved = 0 /\ marked.entryBar <= bar
    /\ marked.curve # <<>> /\ marked.curve[Len(marked.curve)] = Test!Equity(marked, price)
    /\ Len(marked.orders) = Len(book.orders)
    /\ \A i \in 1..Len(book.orders) : i # pending => marked.orders[i] = book.orders[i]
    /\ pending = 0 => marked.ledger = book.ledger /\ marked.entryBar = book.entryBar
    /\ pending # 0 =>
           /\ marked.orders[pending].status \in {"filled", "rejected"}
           /\ marked.orders[pending].ref = book.orders[pending].ref
           /\ marked.orders[pending].fill.price \in {price + Slip, price - Slip}
           /\ book.orders[pending].side = "sell" => ~Test!IsOpen(marked.ledger)
           /\ book.orders[pending].side = "buy" =>
                  /\ Test!IsOpen(marked.ledger) <=> marked.orders[pending].status = "filled"
                  /\ Test!IsOpen(marked.ledger) => marked.entryBar = bar

(* What it decides *)
Decided(price, marked, turn, high, signal, order) ==
    /\ Told(tested, turn)
    /\ high = Test!Highest(highest, Test!Context(marked, price))
    /\ signal = Test!Managed(setup.rules, turn.signal, high, Test!Context(marked, price))
    /\ OrderTells(order, signal, marked, price)

(* The book it leaves *)
Leaves(price, marked, order, left, id) ==
    /\ BookSound(left) /\ left.curve = marked.curve /\ left.entryBar = marked.entryBar
    /\ left.ledger.cash = marked.ledger.cash /\ left.ledger.qty = marked.ledger.qty
    /\ left.ledger.realized = marked.ledger.realized
    /\ order = NoValue => left = marked
    /\ order # NoValue => Waits(left, id) /\ Len(left.orders) = id /\ left.orders[id] = order
    /\ \A i \in 1..Len(book.orders) : left.orders[i] = marked.orders[i]
    /\ id = Len(book.orders) + 1

Taken(brick, price, bar, turn, high, order, left, id) ==
    /\ brick \in Bricks /\ price = brick.close /\ bricks' = Append(bricks, brick)
    /\ tested' = turn /\ wanted' = Append(wanted, turn.position)
    /\ highest' = IF Trails THEN high ELSE highest
    /\ left = book' /\ pending' = IF order = NoValue THEN 0 ELSE id
    /\ made' = IF order = NoValue THEN made ELSE Append(made, bar)
    /\ done' = LET settled == IF pending = 0 THEN done ELSE [done EXCEPT ![pending] = bar]
               IN IF order = NoValue THEN settled ELSE Append(settled, 0)
    /\ setup' = setup /\ report' = report

LEMMA FoundBefore ==
    ASSUME BacktestSafe, report = Test!NoReport, NEW price \in Nat, price > Slip, NEW bar, bar = Len(bricks) + 1,
           NEW marked, marked = Test!Marked(Test!FilledBefore(book, price, bar), price)
    PROVE  Found(price, bar, marked)
<1>1. BookSound(book) /\ book \in Test!Book /\ book.entryBar <= Len(bricks) /\ bar \in Nat /\ Len(bricks) \in Nat
  BY DEF BacktestSafe, BooksTrue, BookSound, TestTyped
<1>2. book.entryBar <= bar
  BY <1>1, BookFields
<1>3. PICK filled : filled = Test!FilledBefore(book, price, bar)
  OBVIOUS
<1>4. DOMAIN book.orders = 1..Len(book.orders)
  BY <1>1, BookFields
<1>5. ASSUME pending = 0
      PROVE  filled = book /\ book.ledger.reserved = 0
  BY <1>3, <1>5 DEF Test!FilledBefore, BacktestSafe, WaitingTrue
<1>6. ASSUME pending # 0
      PROVE  FillLeaves(book, pending, price, bar, filled) /\ pending \in DOMAIN book.orders
  <2>1. Waits(book, pending)
    BY <1>6 DEF BacktestSafe, WaitingTrue
  <2>2. filled = Test!Settled(book, pending, price, bar)
    BY <1>3, <1>6 DEF Test!FilledBefore
  <2>3. QED
    BY <2>1, <2>2, <1>1, <1>2, SettledKeeps DEF Waits
<1>7. BookSound(filled)
  BY <1>1, <1>5, <1>6 DEF FillLeaves
<1>8. /\ BookSound(marked) /\ marked.ledger = filled.ledger /\ marked.orders = filled.orders
      /\ marked.entryBar = filled.entryBar /\ marked.curve = Append(filled.curve, Test!Equity(filled, price))
      /\ Test!Equity(filled, price) \in Int
  BY <1>3, <1>7, MarkedKeeps
<1>9. Test!Equity(filled, price) = Test!Equity(marked, price)
  BY <1>8 DEF Test!Equity
<1>10. marked.curve # <<>> /\ marked.curve[Len(marked.curve)] = Test!Equity(marked, price)
  <2>1. filled \in Test!Book
    BY <1>7 DEF BookSound
  <2>2. filled.curve \in Seq(Int)
    BY <2>1, BookFields
  <2>3. PICK s, e : s = filled.curve /\ e = Test!Equity(filled, price)
    OBVIOUS
  <2>4. Append(s, e) # <<>> /\ Append(s, e)[Len(Append(s, e))] = e
    BY <1>8, <2>2, <2>3
  <2>5. QED
    BY <1>8, <1>9, <2>3, <2>4
<1>11. CASE pending = 0
  BY <1>1, <1>2, <1>5, <1>8, <1>10, <1>11 DEF Found
<1>12. CASE pending # 0
  <2>1. FillLeaves(book, pending, price, bar, filled)
    BY <1>6, <1>12
  <2>2. /\ filled.ledger.reserved = 0 /\ filled.entryBar <= bar /\ Len(filled.orders) = Len(book.orders)
        /\ \A i \in 1..Len(book.orders) : i # pending => filled.orders[i] = book.orders[i]
    BY <2>1, <1>4 DEF FillLeaves
  <2>3. /\ filled.orders[pending].status \in {"filled", "rejected"}
        /\ filled.orders[pending].ref = book.orders[pending].ref
        /\ filled.orders[pending].fill.price \in {price + Slip, price - Slip}
        /\ book.orders[pending].side = "sell" => ~Test!IsOpen(filled.ledger)
        /\ book.orders[pending].side = "buy" =>
               /\ Test!IsOpen(filled.ledger) <=> filled.orders[pending].status = "filled"
               /\ Test!IsOpen(filled.ledger) => filled.entryBar = bar
    BY <2>1 DEF FillLeaves
  <2>4. QED
    BY <2>2, <2>3, <1>8, <1>10, <1>12, Zenon DEF Found
<1>13. QED
  BY <1>11, <1>12

LEMMA LeavesAfter ==
    ASSUME BacktestSafe, NEW price, NEW bar, NEW marked, Found(price, bar, marked),
           NEW signal, NEW order, OrderTells(order, signal, marked, price),
           NEW left, left = IF order = NoValue THEN marked ELSE Test!Recorded(marked, order)
    PROVE  Leaves(price, marked, order, left, Len(book.orders) + 1)
<1>1. /\ BookSound(marked) /\ marked \in Test!Book /\ marked.ledger.reserved = 0
      /\ Len(marked.orders) = Len(book.orders)
  BY DEF Found, BookSound
<1>2. PICK id : id = Len(book.orders) + 1
  OBVIOUS
<1>3. marked.ledger \in Test!Ledger /\ marked.orders \in Seq(Test!Order) /\ id = Len(marked.orders) + 1
  BY <1>1, <1>2, BookFields
<1>4. CASE order = NoValue
  BY <1>1, <1>2, <1>4 DEF Leaves
<1>5. CASE order # NoValue
  <2>1. /\ order \in Test!Order /\ order.status = "created"
        /\ order.side = "buy" => ~Test!IsOpen(marked.ledger) /\ order.qty > 0
        /\ order.side = "sell" => Test!IsOpen(marked.ledger) /\ order.qty = marked.ledger.qty /\ order.reserved = 0
    BY <1>5 DEF OrderTells
  <2>2. left = Test!Recorded(marked, order)
    BY <1>5
  <2>3. /\ BookSound(left) /\ Waits(left, id)
        /\ left.orders = Append(marked.orders, order) /\ left.curve = marked.curve /\ left.entryBar = marked.entryBar
        /\ left.ledger = [marked.ledger EXCEPT !.reserved = order.reserved]
    BY <2>1, <2>2, <1>1, <1>3, RecordedKeeps
  <2>4. /\ left.ledger.cash = marked.ledger.cash /\ left.ledger.qty = marked.ledger.qty
        /\ left.ledger.realized = marked.ledger.realized
    BY <2>3, <1>3, Zenon DEF Test!Ledger
  <2>5. PICK os : os = marked.orders
    OBVIOUS
  <2>6. /\ Len(Append(os, order)) = id /\ Append(os, order)[id] = order
        /\ \A i \in 1..Len(os) : Append(os, order)[i] = os[i]
    BY <2>1, <2>5, <1>3
  <2>7. QED
    BY <2>3, <2>4, <2>5, <2>6, <1>1, <1>2, <1>5 DEF Leaves
<1>6. QED
  BY <1>4, <1>5

LEMMA BrickIsTaken ==
    ASSUME BacktestSafe, NEW brick \in Bricks, Test!OnBrick(brick)
    PROVE  \E price, bar, marked, turn, high, signal, order, left, id :
               /\ Found(price, bar, marked) /\ Decided(price, marked, turn, high, signal, order)
               /\ Leaves(price, marked, order, left, id) /\ Taken(brick, price, bar, turn, high, order, left, id)
<1>1. PICK price, bar, marked : /\ price = brick.close /\ bar = Len(bricks) + 1
                                /\ marked = Test!Marked(Test!FilledBefore(book, price, bar), price)
  OBVIOUS
<1>2. PICK turn : turn = Test!Asked(setup.kind, Test!BrickFed(setup.kind, tested, brick))
  OBVIOUS
<1>3. PICK high : high = Test!Highest(highest, Test!Context(marked, price))
  OBVIOUS
<1>4. PICK signal : signal = Test!Managed(setup.rules, turn.signal, high, Test!Context(marked, price))
  OBVIOUS
<1>5. PICK order, id, left : /\ order = Test!OrderFromSignal(signal, marked, price) /\ id = Len(book.orders) + 1
                             /\ left = IF order = NoValue THEN marked ELSE Test!Recorded(marked, order)
  OBVIOUS
<1>6. price \in Nat /\ price > Slip
  BY <1>1, SizesOfTests
<1>7. /\ report = Test!NoReport /\ bricks' = Append(bricks, brick)
      /\ tested' = turn /\ wanted' = Append(wanted, turn.position)
      /\ highest' = IF Trails THEN high ELSE highest
      /\ book' = left /\ pending' = IF order = NoValue THEN 0 ELSE id
      /\ made' = IF order = NoValue THEN made ELSE Append(made, bar)
      /\ done' = LET settled == IF pending = 0 THEN done ELSE [done EXCEPT ![pending] = bar]
                 IN IF order = NoValue THEN settled ELSE Append(settled, 0)
      /\ setup' = setup /\ report' = report
  BY <1>1, <1>2, <1>3, <1>4, <1>5 DEF Test!OnBrick, Trails
<1>8. Found(price, bar, marked)
  BY <1>1, <1>6, <1>7, FoundBefore
<1>9. setup \in Setups /\ DOMAIN tested = StrategyFields /\ marked \in Test!Book
  BY <1>8 DEF BacktestSafe, TestTyped, Found, BookSound
<1>10. Told(tested, turn)
  <2>1. setup.kind \in Engine!Kinds
    BY <1>9, SizesOfTests DEF Test!Kinds, Engine!Kinds
  <2>2. turn = Engine!Asked(setup.kind, Engine!BrickFed(setup.kind, tested, brick))
    BY <1>2, SameFed
  <2>3. QED
    BY <2>1, <2>2, <1>9, FedTells
<1>11. OrderTells(order, signal, marked, price)
  BY <1>5, <1>6, <1>9, OrderIsTold
<1>12. Decided(price, marked, turn, high, signal, order)
  BY <1>3, <1>4, <1>10, <1>11 DEF Decided
<1>13. Leaves(price, marked, order, left, id)
  BY <1>5, <1>8, <1>11, LeavesAfter
<1>14. Taken(brick, price, bar, turn, high, order, left, id)
  BY <1>1, <1>7 DEF Taken
<1>15. QED
  BY <1>8, <1>12, <1>13, <1>14

-----------------------------------------------------------------------------
(* A brick keeps the invariant, part by part. *)
LEMMA BrickKeepsTyped ==
    ASSUME BacktestSafe, NEW brick, NEW price, NEW bar, NEW marked, NEW turn, NEW high, NEW signal, NEW order, NEW left, NEW id,
           Found(price, bar, marked), Decided(price, marked, turn, high, signal, order),
           Leaves(price, marked, order, left, id), Taken(brick, price, bar, turn, high, order, left, id)
    PROVE  /\ TestTyped'
           /\ Len(bricks') = bar /\ bricks'[bar] = brick /\ \A i \in 1..Len(bricks) : bricks'[i] = bricks[i]
           /\ wanted'[bar] = turn.position /\ \A i \in 1..Len(bricks) : wanted'[i] = wanted[i]
           /\ \A i \in 1..Len(book.orders) : made'[i] = made[i] /\ (i # pending => done'[i] = done[i])
           /\ pending # 0 => done'[pending] = bar
           /\ order # NoValue => made'[id] = bar
           /\ Len(left.orders) = IF order = NoValue THEN Len(book.orders) ELSE id
           /\ bar = Len(bricks) + 1 /\ Len(bricks) \in Nat /\ Len(book.orders) \in Nat /\ id = Len(book.orders) + 1
           /\ pending \in 0..Len(book.orders)
<1>1. TestTyped /\ WaitingTrue /\ BookSound(book) /\ book \in Test!Book
  BY DEF BacktestSafe, BooksTrue, BookSound
<1>2. PICK n, m, old, held : n = Len(bricks) /\ m = Len(book.orders) /\ old = bricks /\ held = wanted
  BY Zenon
<1>3. n \in Nat /\ m \in Nat /\ old \in Seq(Bricks) /\ held \in Seq(Test!Holdings) /\ Len(held) = n /\ Len(old) = n /\ DOMAIN book.orders = 1..m
  BY <1>1, <1>2, BookFields DEF TestTyped
<1>4. bar = n + 1 /\ id = m + 1 /\ brick \in Bricks
  BY <1>2 DEF Found, Leaves, Taken
<1>5. pending \in 0..m
  BY <1>1, <1>2, <1>3 DEF WaitingTrue, Waits
<1>6. /\ bricks' \in Seq(Bricks) /\ Len(bricks') = bar /\ bricks'[bar] = brick
      /\ \A i \in 1..n : bricks'[i] = bricks[i]
  <2>1. bricks' = Append(old, brick)
    BY <1>2 DEF Taken
  <2>2. QED
    BY <2>1, <1>2, <1>3, <1>4
<1>7. turn.position \in Test!Holdings
  <2>1. tested.position \in Test!Holdings
    <3>1. CASE old = <<>>
      BY <3>1, <1>1, <1>2 DEF TestTyped, Test!Holdings
    <3>2. CASE old # <<>>
      <4>1. n \in 1..n /\ held[n] \in Test!Holdings
        BY <3>2, <1>3
      <4>2. QED
        BY <4>1, <3>2, <1>1, <1>2 DEF TestTyped
    <3>3. QED
      BY <3>1, <3>2
  <2>2. Told(tested, turn)
    BY DEF Decided
  <2>3. QED
    BY <2>1, <2>2 DEF Told, Test!Holdings
<1>8. /\ wanted' \in Seq(Test!Holdings) /\ Len(wanted') = bar /\ wanted'[bar] = turn.position
      /\ \A i \in 1..n : wanted'[i] = wanted[i]
  <2>1. wanted' = Append(held, turn.position)
    BY <1>2 DEF Taken
  <2>2. QED
    BY <2>1, <1>2, <1>3, <1>4, <1>7
<1>9. PICK ms, ds : ms = made /\ ds = done
  OBVIOUS
<1>10. ms \in Seq(Nat) /\ ds \in Seq(Nat) /\ Len(ms) = m /\ Len(ds) = m
  BY <1>1, <1>2, <1>9 DEF TestTyped
<1>11. Len(left.orders) = IF order = NoValue THEN m ELSE id
  BY <1>2 DEF Leaves, Found
<1>12. /\ made' \in Seq(Nat) /\ Len(made') = Len(left.orders)
       /\ order # NoValue => made'[id] = bar
       /\ \A i \in 1..m : made'[i] = ms[i]
  <2>1. made' = IF order = NoValue THEN ms ELSE Append(ms, bar)
    BY <1>9 DEF Taken
  <2>2. QED
    BY <2>1, <1>3, <1>4, <1>10, <1>11
<1>13. PICK settled : settled = IF pending = 0 THEN ds ELSE [ds EXCEPT ![pending] = bar]
  BY Zenon
<1>14. /\ settled \in Seq(Nat) /\ Len(settled) = m /\ \A i \in 1..m : i # pending => settled[i] = ds[i]
       /\ pending # 0 => settled[pending] = bar
  <2>1. CASE pending = 0
    BY <2>1, <1>10, <1>13
  <2>2. CASE pending # 0
    <3>1. pending \in 1..m
      BY <2>2, <1>3, <1>5
    <3>2. PICK p : p = pending
      OBVIOUS
    <3>3. settled = [ds EXCEPT ![p] = bar] /\ p \in 1..m
      BY <2>2, <3>1, <3>2, <1>13
    <3>4. settled \in Seq(Nat) /\ Len(settled) = m /\ settled[p] = bar /\ \A i \in 1..m : i # p => settled[i] = ds[i]
      BY <3>3, <1>3, <1>4, <1>10
    <3>5. QED
      BY <3>2, <3>4
  <2>3. QED
    BY <2>1, <2>2
<1>15. /\ done' \in Seq(Nat) /\ Len(done') = Len(left.orders)
       /\ \A i \in 1..m : done'[i] = settled[i]
  <2>1. done' = IF order = NoValue THEN settled ELSE Append(settled, 0)
    BY <1>9, <1>13 DEF Taken
  <2>2. QED
    BY <2>1, <1>3, <1>4, <1>11, <1>14
<1>16. TestTyped'
  <2>1. setup' \in Setups /\ DOMAIN tested' = StrategyFields /\ tested'.position = wanted'[bar]
    BY <1>1, <1>8 DEF TestTyped, Taken, Decided, Told
  <2>2. Len(made') = Len(book'.orders) /\ Len(done') = Len(book'.orders)
    BY <1>12, <1>15 DEF Taken
  <2>3. bricks' # <<>>
    BY <1>3, <1>4, <1>6
  <2>4. QED
    BY <2>1, <2>2, <2>3, <1>6, <1>8, <1>12, <1>15 DEF TestTyped
<1>17. /\ \A i \in 1..m : made'[i] = made[i] /\ (i # pending => done'[i] = done[i])
       /\ pending # 0 => done'[pending] = bar
  <2>1. pending # 0 => pending \in 1..m
    BY <1>3, <1>5
  <2>2. QED
    BY <2>1, <1>9, <1>12, <1>14, <1>15
<1>18. QED
  BY <1>2, <1>3, <1>4, <1>5, <1>6, <1>8, <1>11, <1>12, <1>16, <1>17, Zenon

LEMMA BrickKeepsBooks ==
    ASSUME BacktestSafe, NEW brick, NEW price, NEW bar, NEW marked, NEW turn, NEW high, NEW signal, NEW order, NEW left, NEW id,
           Found(price, bar, marked), Decided(price, marked, turn, high, signal, order),
           Leaves(price, marked, order, left, id), Taken(brick, price, bar, turn, high, order, left, id)
    PROVE  BooksTrue' /\ WaitingTrue'
<1>1. /\ Len(bricks') = bar /\ bricks'[bar] = brick /\ bar = Len(bricks) + 1 /\ Len(bricks) \in Nat
      /\ Len(book.orders) \in Nat /\ id = Len(book.orders) + 1
      /\ order # NoValue => made'[id] = bar
  BY BrickKeepsTyped
<1>2. /\ book' = left /\ price = brick.close /\ pending' = IF order = NoValue THEN 0 ELSE id
      /\ report' = Test!NoReport
  BY DEF Taken, Found
<1>3. /\ BookSound(left) /\ left.curve = marked.curve /\ left.entryBar = marked.entryBar
      /\ left.ledger.cash = marked.ledger.cash /\ left.ledger.qty = marked.ledger.qty
      /\ order = NoValue => left = marked
      /\ order # NoValue => Waits(left, id) /\ Len(left.orders) = id
  BY DEF Leaves
<1>4. /\ marked.entryBar <= bar /\ marked.ledger.reserved = 0
      /\ marked.curve # <<>> /\ marked.curve[Len(marked.curve)] = Test!Equity(marked, price)
  BY DEF Found
<1>5. Test!Equity(left, price) = Test!Equity(marked, price)
  BY <1>3 DEF Test!Equity
<1>6. bricks' # <<>>
  <2>1. Len(<<>>) = 0 /\ bar > 0
    BY <1>1
  <2>2. QED
    BY <2>1, <1>1
<1>7. BooksTrue'
  <2>2. BookSound(book')
    BY <1>2, <1>3
  <2>3. book'.entryBar <= Len(bricks')
    BY <1>1, <1>2, <1>3, <1>4
  <2>4. book'.curve # <<>> /\ book'.curve[Len(book'.curve)] = Test!Equity(book', bricks'[Len(bricks')].close)
    BY <1>1, <1>2, <1>3, <1>4, <1>5
  <2>5. QED
    BY <2>2, <2>3, <2>4, <1>6 DEF BooksTrue, Test!Equity
<1>8. WaitingTrue'
  <2>1. CASE order = NoValue
    BY <2>1, <1>2, <1>3, <1>4 DEF WaitingTrue
  <2>2. CASE order # NoValue
    <3>1. pending' = id /\ id # 0
      BY <2>2, <1>1, <1>2
    <3>2. Waits(left, id) /\ id = Len(left.orders)
      BY <2>2, <1>3
    <3>3. made'[pending'] = Len(bricks') /\ report' = Test!NoReport
      BY <2>2, <3>1, <1>1, <1>2
    <3>4. QED
      BY <3>1, <3>2, <3>3, <1>2 DEF WaitingTrue, Waits
  <2>3. QED
    BY <2>1, <2>2
<1>9. QED
  BY <1>7, <1>8

LEMMA BrickKeepsOrders ==
    ASSUME BacktestSafe, NEW brick, NEW price, NEW bar, NEW marked, NEW turn, NEW high, NEW signal, NEW order, NEW left, NEW id,
           Found(price, bar, marked), Decided(price, marked, turn, high, signal, order),
           Leaves(price, marked, order, left, id), Taken(brick, price, bar, turn, high, order, left, id)
    PROVE  OrdersTold'
<1>1. PICK n, m, p, new, was, at, ended : n = Len(bricks) /\ m = Len(book.orders) /\ p = pending /\ new = bricks' /\ was = book.orders
                                   /\ at = made /\ ended = done
  BY Zenon
<1>2. /\ Len(new) = bar /\ new[bar] = brick /\ \A i \in 1..n : new[i] = bricks[i]
      /\ \A i \in 1..m : made'[i] = at[i] /\ (i # p => done'[i] = ended[i])
      /\ p # 0 => done'[p] = bar
      /\ order # NoValue => made'[id] = bar
      /\ Len(left.orders) = IF order = NoValue THEN m ELSE id
      /\ bar = n + 1 /\ n \in Nat /\ m \in Nat /\ id = m + 1 /\ p \in 0..m
  BY <1>1, BrickKeepsTyped
<1>3. /\ book' = left /\ price = brick.close /\ pending' = IF order = NoValue THEN 0 ELSE id
      /\ report' = Test!NoReport /\ report = Test!NoReport
  BY DEF Taken, Found
<1>4. /\ \A i \in 1..m : left.orders[i] = marked.orders[i]
      /\ \A i \in 1..m : i # p => marked.orders[i] = was[i]
      /\ order # NoValue => left.orders[id] = order
  BY <1>1 DEF Leaves, Found
<1>5. ASSUME NEW i \in 1..m
      PROVE  /\ at[i] \in 1..n /\ was[i].ref = bricks[at[i]].close
             /\ Test!IsActive(was[i]) <=> i = p
             /\ at[i] = n => i = p
             /\ was[i].status = "filled" => /\ ended[i] \in 1..n /\ ended[i] = at[i] + 1
                                            /\ was[i].fill.price \in {bricks[ended[i]].close + Slip, bricks[ended[i]].close - Slip}
  BY <1>1, <1>3 DEF BacktestSafe, OrdersTold
<1> DEFINE Right(i) ==
        /\ made'[i] \in 1..bar /\ left.orders[i].ref = new[made'[i]].close
        /\ Test!IsActive(left.orders[i]) <=> i = pending'
        /\ made'[i] = bar => i = pending'
        /\ left.orders[i].status = "filled" =>
               /\ done'[i] \in 1..bar /\ done'[i] = made'[i] + 1
               /\ left.orders[i].fill.price \in {new[done'[i]].close + Slip, new[done'[i]].close - Slip}
<1>6. ASSUME NEW i \in 1..m, i # p PROVE Right(i)
  <2>1. left.orders[i] = was[i] /\ made'[i] = at[i] /\ done'[i] = ended[i] /\ i # pending'
    BY <1>2, <1>3, <1>4, <1>6
  <2>2. at[i] \in 1..n /\ at[i] \in 1..bar /\ at[i] # bar /\ new[at[i]] = bricks[at[i]]
    BY <1>2, <1>5
  <2>3. was[i].status = "filled" => ended[i] \in 1..bar /\ new[ended[i]] = bricks[ended[i]]
    BY <1>2, <1>5
  <2>4. QED
    BY <2>1, <2>2, <2>3, <1>5, <1>6
<1>7. ASSUME p # 0 PROVE Right(p)
  <2>1. p \in 1..m /\ p # pending'
    BY <1>2, <1>3, <1>7
  <2>2. /\ marked.orders[p].status \in {"filled", "rejected"}
        /\ marked.orders[p].ref = was[p].ref
        /\ marked.orders[p].fill.price \in {price + Slip, price - Slip}
    BY <1>1, <1>7 DEF Found
  <2>3. at[p] = n
    BY <1>1, <1>7 DEF BacktestSafe, WaitingTrue
  <2>4. left.orders[p] = marked.orders[p] /\ made'[p] = n /\ done'[p] = bar /\ n \in 1..n
    BY <2>1, <2>3, <1>2, <1>4, <1>5, <1>7
  <2>5. ~Test!IsActive(left.orders[p])
    BY <2>2, <2>4 DEF Test!IsActive
  <2>6. was[p].ref = new[n].close /\ new[bar].close = price /\ n \in 1..bar /\ n # bar /\ bar \in 1..bar
    BY <2>1, <2>3, <2>4, <1>2, <1>3, <1>5
  <2>7. QED
    BY <2>1, <2>2, <2>4, <2>5, <2>6, <1>2
<1>8. ASSUME order # NoValue PROVE Right(id)
  <2>1. order.status = "created" /\ order.ref = price
    BY <1>8 DEF Decided, OrderTells
  <2>2. left.orders[id] = order /\ made'[id] = bar /\ pending' = id /\ bar \in 1..bar /\ new[bar].close = price
    BY <1>2, <1>3, <1>4, <1>8
  <2>3. Test!IsActive(order)
    BY <2>1 DEF Test!IsActive
  <2>4. QED
    BY <2>1, <2>2, <2>3
<1>9. \A i \in 1..Len(left.orders) : Right(i)
  <2> HIDE DEF Right
  <2>1. ASSUME NEW i \in 1..Len(left.orders) PROVE i \in 1..m \/ (i = id /\ order # NoValue)
    BY <1>2
  <2>2. \A i \in 1..m : i # p => Right(i)
    BY <1>6
  <2>3. QED
    BY <2>1, <2>2, <1>2, <1>7, <1>8
<1>10. QED
  BY <1>1, <1>2, <1>3, <1>9, Zenon DEF OrdersTold

(* How the fill of the order that waited moves the position *)
LEMMA OpenedBy ==
    ASSUME BacktestSafe, NEW price, NEW bar, NEW marked, Found(price, bar, marked)
    PROVE  /\ pending = 0 => marked.ledger = book.ledger /\ marked.entryBar = book.entryBar
           /\ pending # 0 /\ Test!IsOpen(book.ledger) => ~Test!IsOpen(marked.ledger)
           /\ pending # 0 /\ ~Test!IsOpen(book.ledger) =>
                  /\ Test!IsOpen(marked.ledger) => marked.entryBar = bar
                  /\ ~Test!IsOpen(marked.ledger) => marked.orders[pending].status = "rejected"
<1>1. CASE pending = 0
  BY <1>1 DEF Found
<1>2. CASE pending # 0
  <2>1. Waits(book, pending) /\ book \in Test!Book
    BY <1>2 DEF BacktestSafe, WaitingTrue, BooksTrue, BookSound
  <2>2. book.orders[pending] \in Test!Order
    BY <2>1, BookFields DEF Waits
  <2>3. book.orders[pending].side \in {"buy", "sell"}
    BY <2>2 DEF Test!Order, Test!OrderSide
  <2>4. /\ marked.orders[pending].status \in {"filled", "rejected"}
        /\ book.orders[pending].side = "sell" => ~Test!IsOpen(marked.ledger)
        /\ book.orders[pending].side = "buy" =>
               /\ Test!IsOpen(marked.ledger) <=> marked.orders[pending].status = "filled"
               /\ Test!IsOpen(marked.ledger) => marked.entryBar = bar
    BY <1>2 DEF Found
  <2>5. /\ book.orders[pending].side = "buy" => ~Test!IsOpen(book.ledger)
        /\ book.orders[pending].side = "sell" => Test!IsOpen(book.ledger)
    BY <2>1 DEF Waits
  <2>6. QED
    BY <2>3, <2>4, <2>5, <1>2
<1>3. QED
  BY <1>1, <1>2

LEMMA BrickKeepsTrades ==
    ASSUME BacktestSafe, NEW brick, NEW price, NEW bar, NEW marked, NEW turn, NEW high, NEW signal, NEW order, NEW left, NEW id,
           Found(price, bar, marked), Decided(price, marked, turn, high, signal, order),
           Leaves(price, marked, order, left, id), Taken(brick, price, bar, turn, high, order, left, id)
    PROVE  TradesFollow'
<1> SUFFICES ASSUME setup.rules = <<>>
             PROVE  TradesFollow'
  BY Zenon DEF TradesFollow, Taken
<1>1. PICK n, m, p, held, at, was : n = Len(bricks) /\ m = Len(book.orders) /\ p = pending /\ held = wanted /\ at = made /\ was = book.orders
  BY Zenon
<1>2. /\ Len(bricks') = bar /\ wanted'[bar] = turn.position /\ \A i \in 1..n : wanted'[i] = held[i]
      /\ \A i \in 1..m : made'[i] = at[i]
      /\ Len(left.orders) = IF order = NoValue THEN m ELSE id
      /\ bar = n + 1 /\ n \in Nat /\ m \in Nat /\ id = m + 1 /\ p \in 0..m
  BY <1>1, BrickKeepsTyped
<1>3. /\ book' = left /\ pending' = IF order = NoValue THEN 0 ELSE id
      /\ report' = Test!NoReport /\ report = Test!NoReport
  BY DEF Taken, Found
<1>4. /\ \A i \in 1..m : i # p => left.orders[i] = was[i]
      /\ p # 0 => left.orders[p] = marked.orders[p]
      /\ order = NoValue => left = marked
      /\ Test!IsOpen(left.ledger) <=> Test!IsOpen(marked.ledger)
  BY <1>1, <1>2 DEF Leaves, Found, Test!IsOpen
<1>5. /\ Test!IsOpen(book.ledger) => n > 1 /\ held[n - 1] = "long" /\ held[n] = IF p = 0 THEN "long" ELSE "flat"
      /\ ~Test!IsOpen(book.ledger) /\ p # 0 => n > 0 /\ held[n] = "long" /\ (n > 1 => held[n - 1] # "long")
      /\ ~Test!IsOpen(book.ledger) /\ p = 0 => (n > 0 /\ held[n] = "long" => Unentered(n))
  BY <1>1, <1>3 DEF BacktestSafe, TradesFollow
<1>6. /\ p = 0 => marked.ledger = book.ledger
      /\ p # 0 /\ Test!IsOpen(book.ledger) => ~Test!IsOpen(marked.ledger)
      /\ p # 0 /\ ~Test!IsOpen(book.ledger) /\ ~Test!IsOpen(marked.ledger) => left.orders[p].status = "rejected"
  BY <1>1, <1>4, OpenedBy
<1>7. signal = turn.signal
  <2>1. PICK rules, asked, context : rules = setup.rules /\ asked = turn.signal /\ context = Test!Context(marked, price)
    OBVIOUS
  <2>2. rules = <<>> /\ Len(rules) \in Nat
    BY <2>1
  <2>3. Test!Managed(rules, asked, high, context) = asked
    BY <2>2, ManagedTells
  <2>4. QED
    BY <2>1, <2>3 DEF Decided
<1>8. tested.position = IF n = 0 THEN "flat" ELSE held[n]
  <2>1. n = 0 <=> bricks = <<>>
    BY <1>1 DEF BacktestSafe, TestTyped
  <2>2. QED
    BY <2>1, <1>1 DEF BacktestSafe, TestTyped
<1>9. /\ \/ turn.signal = "hold" /\ turn.position = tested.position
         \/ turn.signal = "exit" /\ turn.position = "flat" /\ tested.position # "flat"
         \/ turn.signal = "buy"  /\ turn.position = "long" /\ tested.position = "flat"
         \/ turn.signal = "sell" /\ turn.position = "short" /\ tested.position = "flat"
      /\ \/ order = NoValue /\ (signal = "exit" => ~Test!IsOpen(marked.ledger))
         \/ order # NoValue /\ signal = "buy" /\ ~Test!IsOpen(marked.ledger)
         \/ order # NoValue /\ signal = "exit" /\ Test!IsOpen(marked.ledger)
  <2>1. NoValue \notin Test!Order
    BY SizesOfTests
  <2>2. QED
    BY <2>1 DEF Decided, Told, OrderTells
<1>10. ASSUME Test!IsOpen(left.ledger)
       PROVE  /\ bar > 1 /\ wanted'[bar - 1] = "long" /\ wanted'[bar] = IF pending' = 0 THEN "long" ELSE "flat"
  <2>1. n > 0 /\ held[n] = "long"
    BY <1>2, <1>4, <1>5, <1>6, <1>10
  <2>2. bar > 1 /\ bar - 1 = n /\ n \in 1..n /\ id # 0
    BY <2>1, <1>2
  <2>3. QED
    BY <2>1, <2>2, <1>2, <1>3, <1>4, <1>7, <1>8, <1>9, <1>10
<1>11. ASSUME ~Test!IsOpen(left.ledger), pending' # 0
       PROVE  bar > 0 /\ wanted'[bar] = "long" /\ (bar > 1 => wanted'[bar - 1] # "long")
  <2>1. turn.position = "long" /\ tested.position = "flat"
    BY <1>3, <1>4, <1>7, <1>9, <1>11
  <2>2. bar > 1 => bar - 1 = n /\ n \in 1..n /\ held[n] = "flat"
    BY <2>1, <1>2, <1>8
  <2>3. QED
    BY <2>1, <2>2, <1>2
<1> DEFINE Bought(e) == \A i \in 1..Len(left.orders) : made'[i] = e => left.orders[i].status = "rejected"
           Since(e, k) == (e = 1 \/ wanted'[e - 1] # "long") /\ (\A i \in e..k : wanted'[i] = "long") /\ Bought(e)
<1>12. ASSUME ~Test!IsOpen(left.ledger), pending' = 0
       PROVE  n > 0 /\ held[n] = "long" => \E e \in 1..n : Since(e, n)
  <2> SUFFICES ASSUME n > 0, held[n] = "long" PROVE \E e \in 1..n : Since(e, n)
    OBVIOUS
  <2>1. order = NoValue /\ Len(left.orders) = m
    BY <1>2, <1>3, <1>12
  <2>2. ~Test!IsOpen(book.ledger)
    BY <1>4, <1>5, <1>6, <1>12
  <2>3. CASE p = 0
    <3>1. Unentered(n)
      BY <2>2, <2>3, <1>5
    <3>2. PICK e \in 1..n : /\ e = 1 \/ held[e - 1] # "long"
                            /\ \A i \in e..n : held[i] = "long"
                            /\ \A i \in 1..m : at[i] = e => was[i].status = "rejected"
      BY <3>1, <1>1 DEF Unentered, NothingBought
    <3>3. e = 1 \/ wanted'[e - 1] # "long"
      BY <3>2, <1>2
    <3>4. \A i \in e..n : wanted'[i] = "long"
      BY <3>2, <1>2
    <3>5. Bought(e)
      BY <2>1, <2>3, <3>2, <1>2, <1>4
    <3>6. QED
      BY <3>3, <3>4, <3>5
  <2>4. CASE p # 0
    <3>1. n > 1 => held[n - 1] # "long"
      BY <2>2, <2>4, <1>5
    <3>2. n = 1 \/ wanted'[n - 1] # "long"
      BY <3>1, <1>2
    <3>3. \A i \in n..n : wanted'[i] = "long"
      BY <1>2
    <3>4. \A i \in 1..m : at[i] = n => i = p
      BY <1>1, <1>3 DEF BacktestSafe, OrdersTold
    <3>5. left.orders[p].status = "rejected"
      BY <2>2, <2>4, <1>4, <1>6, <1>12
    <3>6. Bought(n)
      BY <2>1, <3>4, <3>5, <1>2
    <3>7. n \in 1..n
      BY <1>2
    <3>8. QED
      BY <3>2, <3>3, <3>6, <3>7
  <2>5. QED
    BY <2>3, <2>4
<1>13. ASSUME ~Test!IsOpen(left.ledger), pending' = 0, wanted'[bar] = "long"
       PROVE  \E e \in 1..bar : Since(e, bar)
  <2>1. CASE n > 0 /\ held[n] = "long"
    <3>1. PICK e \in 1..n : Since(e, n)
      BY <2>1, <1>12, <1>13
    <3>2. \A i \in e..bar : wanted'[i] = "long"
      BY <3>1, <1>2, <1>13
    <3>3. e \in 1..bar
      BY <1>2
    <3>4. QED
      BY <3>1, <3>2, <3>3
  <2>2. CASE ~(n > 0 /\ held[n] = "long")
    <3>1. bar = 1 \/ wanted'[bar - 1] # "long"
      BY <2>2, <1>2
    <3>2. \A i \in bar..bar : wanted'[i] = "long"
      BY <1>2, <1>13
    <3>3. \A i \in 1..m : at[i] \in 1..n
      BY <1>1 DEF BacktestSafe, OrdersTold
    <3>4. Len(left.orders) = m
      BY <1>2, <1>3, <1>13
    <3>5. Bought(bar)
      BY <3>3, <3>4, <1>2
    <3>6. bar \in 1..bar
      BY <1>2
    <3>7. QED
      BY <3>1, <3>2, <3>5, <3>6
  <2>3. QED
    BY <2>1, <2>2
<1>14. ASSUME ~Test!IsOpen(left.ledger), pending' = 0
       PROVE  /\ bar > 0 /\ wanted'[bar] = "long" => Unentered(bar)'
              /\ bar > 1 /\ wanted'[bar - 1] = "long" => Unentered(bar - 1)'
  <2>1. ASSUME NEW k, \E e \in 1..k : Since(e, k)
        PROVE  Unentered(k)'
    BY <2>1, <1>3 DEF Unentered, NothingBought
  <2>2. bar > 1 => bar - 1 = n /\ n > 0 /\ wanted'[n] = held[n]
    BY <1>2
  <2> HIDE DEF Since
  <2>3. QED
    BY <2>1, <2>2, <1>12, <1>13, <1>14
<1>15. QED
  BY <1>2, <1>3, <1>10, <1>11, <1>14 DEF TradesFollow

LEMMA ClosesAreNumbers ==
    ASSUME TestTyped, NEW i \in 1..Len(bricks)
    PROVE  bricks[i].close \in Nat
<1>1. bricks[i] \in Bricks
  BY DEF TestTyped
<1>2. QED
  BY <1>1, SizesOfTests

LEMMA BrickKeepsStops ==
    ASSUME BacktestSafe, NEW brick, NEW price, NEW bar, NEW marked, NEW turn, NEW high, NEW signal, NEW order, NEW left, NEW id,
           Found(price, bar, marked), Decided(price, marked, turn, high, signal, order),
           Leaves(price, marked, order, left, id), Taken(brick, price, bar, turn, high, order, left, id)
    PROVE  StopsTrail'
<1> SUFFICES ASSUME Trails
             PROVE  StopsTrail'
  BY DEF StopsTrail, Taken, Trails
<1>1. PICK n, old, new, was, first : /\ n = Len(bricks) /\ old = bricks /\ new = bricks' /\ was = highest /\ first = left.entryBar
  BY Zenon
<1>2. /\ Len(new) = bar /\ new[bar] = brick /\ \A i \in 1..n : new[i] = old[i]
      /\ bar = n + 1 /\ n \in Nat
  BY <1>1, BrickKeepsTyped
<1>3. /\ book' = left /\ price = brick.close /\ highest' = high /\ price \in Nat
      /\ report = Test!NoReport /\ left.entryBar = marked.entryBar
      /\ Test!IsOpen(left.ledger) <=> Test!IsOpen(marked.ledger)
  BY DEF Taken, Found, Leaves, Test!IsOpen
<1>4. \A i \in 1..n : old[i].close \in Nat
  BY <1>1, ClosesAreNumbers DEF BacktestSafe
<1>5. high = IF ~Test!IsOpen(marked.ledger) THEN NoValue
             ELSE IF was = NoValue \/ price > was THEN price ELSE was
  BY <1>1 DEF Decided, Test!Highest, Test!Context
<1>6. IF Test!IsOpen(book.ledger)
      THEN /\ book.entryBar \in 1..n
           /\ \E i \in book.entryBar..n : was = old[i].close
           /\ \A i \in book.entryBar..n : old[i].close <= was
      ELSE was = NoValue
  BY <1>1, <1>3 DEF BacktestSafe, StopsTrail
<1>7. CASE ~Test!IsOpen(left.ledger)
  BY <1>3, <1>5, <1>7 DEF StopsTrail
<1>8. CASE Test!IsOpen(left.ledger)
  <2>1. /\ first \in 1..bar
        /\ \E i \in first..bar : high = new[i].close
        /\ \A i \in first..bar : new[i].close <= high
    <3>1. CASE pending = 0
      <4>1. Test!IsOpen(book.ledger) /\ first = book.entryBar
        BY <3>1, <1>1, <1>3, <1>8 DEF Found
      <4>2. PICK i \in first..n : was = old[i].close
        BY <4>1, <1>6
      <4>3. first \in 1..n /\ i \in 1..n /\ was \in Nat /\ \A j \in first..n : old[j].close <= was
        BY <4>1, <4>2, <1>4, <1>6
      <4>4. high = IF price > was THEN price ELSE was
        BY <4>3, <1>3, <1>5, <1>8, SizesOfTests
      <4>5. \A j \in first..bar : new[j].close <= high
        <5>1. ASSUME NEW j \in first..n PROVE new[j].close <= high
          <6>1. j \in 1..n
            BY <4>3
          <6>2. new[j].close = old[j].close /\ old[j].close \in Nat /\ old[j].close <= was
            BY <6>1, <4>3, <1>2, <1>4
          <6>3. QED
            BY <6>2, <4>3, <4>4, <1>3
        <5>2. new[bar].close <= high
          BY <4>3, <4>4, <1>2, <1>3
        <5>3. \A j \in first..bar : j \in first..n \/ j = bar
          BY <4>3, <1>2
        <5>4. QED
          BY <5>1, <5>2, <5>3
      <4>6. new[i].close = was /\ new[bar].close = price /\ i \in first..bar /\ bar \in first..bar /\ first \in 1..bar
        BY <4>2, <4>3, <1>2, <1>3
      <4>7. QED
        BY <4>4, <4>5, <4>6
    <3>2. CASE pending # 0
      <4>1. ~Test!IsOpen(book.ledger) /\ first = bar
        BY <3>2, <1>1, <1>3, <1>8, OpenedBy
      <4>2. high = price
        BY <4>1, <1>3, <1>5, <1>6, <1>8
      <4>3. \A j \in first..bar : j = bar
        BY <4>1, <1>2
      <4>4. new[bar].close = high /\ high <= high /\ bar \in first..bar /\ first \in 1..bar
        BY <4>1, <4>2, <1>2, <1>3
      <4>5. QED
        BY <4>3, <4>4
    <3>3. QED
      BY <3>1, <3>2
  <2>2. QED
    BY <2>1, <1>1, <1>2, <1>3, <1>8 DEF StopsTrail
<1>9. QED
  BY <1>7, <1>8

(* A rule takes a position out where the market has reached it. *)
Reaches(rule, price, top, gain) ==
    CASE rule.kind = "stop_loss"   -> price <= rule.limit
      [] rule.kind = "take_profit" -> price >= rule.limit
      [] Test!IsTrailing(rule)     -> price <= Test!TrailStop(rule, top)
      [] rule.kind = "max_daily_loss" -> gain <= 0 - rule.limit
      [] OTHER -> FALSE

LEMMA ReachedFires ==
    ASSUME NEW rule \in [kind : Test!RuleKinds, limit : Nat], NEW price, NEW high, NEW context, NEW top, NEW gain,
           context.price = price, context.pnl = gain
    PROVE  /\ context.open /\ (Test!IsTrailing(rule) => top = high) =>
                  (Reaches(rule, price, top, gain) <=> TakesOut(rule, high, context))
           /\ rule.kind = "max_daily_loss" => (Reaches(rule, 0, top, gain) <=> Test!Fires(rule, high, context))
<1>1. rule.kind \in {"stop_loss", "take_profit", "trailing_amount", "trailing_percent", "max_daily_loss", "max_open_positions"}
  BY DEF Test!RuleKinds
<1>2. CASE rule.kind = "stop_loss"
  BY <1>2 DEF Reaches, TakesOut, Test!Fires, Test!IsTrailing
<1>3. CASE rule.kind = "take_profit"
  BY <1>3 DEF Reaches, TakesOut, Test!Fires, Test!IsTrailing
<1>4. CASE rule.kind \in {"trailing_amount", "trailing_percent"}
  <2>1. Test!IsTrailing(rule)
    BY <1>4 DEF Test!IsTrailing
  <2>2. Reaches(rule, price, top, gain) <=> price <= Test!TrailStop(rule, top)
    BY <2>1, <1>4 DEF Reaches
  <2>3. context.open => (Test!Fires(rule, high, context) <=> price <= Test!TrailStop(rule, high))
    BY <2>1, <1>4, Zenon DEF Test!Fires
  <2>4. QED
    BY <2>1, <2>2, <2>3, <1>4 DEF TakesOut
<1>5. CASE rule.kind = "max_daily_loss"
  BY <1>5 DEF Reaches, TakesOut, Test!Fires, Test!IsTrailing
<1>6. CASE rule.kind = "max_open_positions"
  BY <1>6 DEF Reaches, TakesOut, Test!Fires, Test!IsTrailing
<1>7. QED
  BY <1>1, <1>2, <1>3, <1>4, <1>5, <1>6

LEMMA BrickKeepsRules ==
    ASSUME BacktestSafe, NEW brick, NEW price, NEW bar, NEW marked, NEW turn, NEW high, NEW signal, NEW order, NEW left, NEW id,
           Found(price, bar, marked), Decided(price, marked, turn, high, signal, order),
           Leaves(price, marked, order, left, id), Taken(brick, price, bar, turn, high, order, left, id)
    PROVE  Test!RulesAreObeyed'
<1>1. PICK rules, new, first, gain, top, context :
         /\ rules = setup.rules /\ new = bricks' /\ first = left.entryBar /\ gain = left.ledger.realized
         /\ top = Test!Max({new[i].close : i \in first..bar}) /\ context = Test!Context(marked, price)
  BY Zenon
<1>2. Len(new) = bar /\ new[bar] = brick /\ bar \in Nat /\ bar > 0 /\ id # 0
  BY <1>1, BrickKeepsTyped
<1>3. /\ book' = left /\ price = brick.close /\ price \in Nat /\ setup' = setup /\ tested' = turn
      /\ pending' = IF order = NoValue THEN 0 ELSE id
      /\ order # NoValue => left.orders[id] = order
      /\ report' = Test!NoReport /\ left.ledger.realized = marked.ledger.realized
      /\ Test!IsOpen(left.ledger) <=> Test!IsOpen(marked.ledger)
      /\ highest' = IF Trails THEN high ELSE highest
  BY DEF Taken, Found, Leaves, Test!IsOpen
<1>4. rules \in Seq([kind : Test!RuleKinds, limit : Nat])
  BY <1>1, SizesOfTests, Zenon DEF BacktestSafe, TestTyped
<1>5. /\ context.price = price /\ context.pnl = gain
      /\ context.open <=> Test!IsOpen(left.ledger)
  BY <1>1, <1>3 DEF Test!Context
<1>6. ASSUME NEW rule, NEW p
      PROVE  Test!Reached(rule, p)' <=> Reaches(rule, p, top, gain)
  BY <1>1, <1>2, <1>3 DEF Test!Reached, Reaches
<1>7. ASSUME NEW i \in DOMAIN rules, Test!IsTrailing(rules[i]), Test!IsOpen(left.ledger)
      PROVE  top = high
  <2>1. Trails /\ Trails'
    BY <1>1, <1>3, <1>7 DEF Trails
  <2>2. StopsTrail' /\ TestTyped'
    BY BrickKeepsStops, BrickKeepsTyped
  <2>3. /\ first \in 1..bar
        /\ \E k \in first..bar : high = new[k].close
        /\ \A k \in first..bar : new[k].close <= high
    BY <2>1, <2>2, <1>1, <1>2, <1>3, <1>7 DEF StopsTrail
  <2>4. \A k \in 1..bar : new[k].close \in Nat
    <3>1. new \in Seq(Bricks)
      BY <2>2, <1>1 DEF TestTyped
    <3>2. \A k \in 1..bar : new[k] \in Bricks
      BY <3>1, <1>2
    <3>3. QED
      BY <3>2, SizesOfTests
  <2>5. PICK S : S = {new[k].close : k \in first..bar}
    BY Zenon
  <2>6. S \in SUBSET Int /\ high \in S /\ \A y \in S : y <= high
    BY <2>3, <2>4, <2>5, <1>2
  <2>7. QED
    BY <2>5, <2>6, <1>1, GreatestIs
<1>8. ASSUME NEW i \in DOMAIN rules
      PROVE  /\ Test!IsOpen(left.ledger) => (Test!Reached(rules[i], price)' <=> TakesOut(rules[i], high, context))
             /\ rules[i].kind = "max_daily_loss" /\ Test!Reached(rules[i], 0)' => Test!Fires(rules[i], high, context)
  <2>1. rules[i] \in [kind : Test!RuleKinds, limit : Nat]
    <3>1. PICK T : T = [kind : Test!RuleKinds, limit : Nat]
      BY Zenon
    <3>2. rules \in Seq(T)
      BY <3>1, <1>4
    <3>3. i \in 1..Len(rules)
      BY <3>2
    <3>4. rules[i] \in T
      BY <3>2, <3>3
    <3>5. QED
      BY <3>1, <3>4
  <2>2. QED
    BY <2>1, <1>5, <1>6, <1>7, ReachedFires
<1>9. /\ signal = "exit" /\ turn.signal # "exit" => \E i \in 1..Len(rules) : TakesOut(rules[i], high, context)
      /\ \A i \in 1..Len(rules) : TakesOut(rules[i], high, context) => signal = "exit"
      /\ \A i \in 1..Len(rules) : Test!Fires(rules[i], high, context) => signal \notin {"buy", "sell"}
      /\ DOMAIN rules = 1..Len(rules)
  <2>1. Len(rules) \in Nat /\ DOMAIN rules = 1..Len(rules)
    BY <1>4
  <2>2. signal = Test!Managed(rules, turn.signal, high, context)
    BY <1>1 DEF Decided
  <2>3. QED
    BY <2>1, <2>2, ManagedTells
<1>10. \/ order = NoValue /\ (signal = "exit" => ~Test!IsOpen(left.ledger))
       \/ order # NoValue /\ order.side = "buy" /\ signal = "buy" /\ ~Test!IsOpen(left.ledger)
       \/ order # NoValue /\ order.side = "sell" /\ signal = "exit" /\ Test!IsOpen(left.ledger)
  BY <1>3, SizesOfTests DEF Decided, OrderTells
<1>11. ASSUME pending' # 0, book'.orders[pending'].side = "sell", turn.signal # "exit"
       PROVE  \E i \in DOMAIN rules : Test!Reached(rules[i], price)'
  <2>1. order # NoValue /\ order.side = "sell"
    BY <1>3, <1>11
  <2>2. signal = "exit" /\ Test!IsOpen(left.ledger)
    BY <2>1, <1>10
  <2>3. PICK i \in DOMAIN rules : TakesOut(rules[i], high, context)
    BY <2>2, <1>9, <1>11
  <2>4. QED
    BY <2>2, <2>3, <1>8
<1>12. ASSUME NEW i \in DOMAIN rules
       PROVE  IF Test!IsOpen(left.ledger)
              THEN Test!Reached(rules[i], price)' => pending' # 0 /\ book'.orders[pending'].side = "sell"
              ELSE rules[i].kind = "max_daily_loss" /\ Test!Reached(rules[i], 0)' => pending' = 0
  <2>1. CASE Test!IsOpen(left.ledger)
    <3> SUFFICES ASSUME Test!Reached(rules[i], price)'
                 PROVE  pending' # 0 /\ book'.orders[pending'].side = "sell"
      BY <2>1
    <3>1. signal = "exit"
      BY <2>1, <1>8, <1>9
    <3>2. order # NoValue /\ order.side = "sell"
      BY <2>1, <3>1, <1>10
    <3>3. QED
      BY <3>2, <1>2, <1>3
  <2>2. CASE ~Test!IsOpen(left.ledger)
    <3> SUFFICES ASSUME rules[i].kind = "max_daily_loss", Test!Reached(rules[i], 0)'
                 PROVE  pending' = 0
      BY <2>2
    <3>1. signal \notin {"buy", "sell"}
      BY <1>8, <1>9
    <3>2. order = NoValue
      BY <2>2, <3>1, <1>10
    <3>3. QED
      BY <3>2, <1>3
  <2>3. QED
    BY <2>1, <2>2
<1>13. Test!Last(new).close = price
  BY <1>2, <1>3 DEF Test!Last
<1>14. QED
  BY <1>1, <1>3, <1>6, <1>11, <1>12, <1>13 DEF Test!RulesAreObeyed, Test!Orders

LEMMA MetricsTell ==
    ASSUME NEW b, NEW m, m = Test!Metrics(b.curve, b.trades, Capital)
    PROVE  /\ m # Test!NoReport
           /\ m.pnl = (IF b.curve = <<>> THEN Capital ELSE b.curve[Len(b.curve)]) - Capital
           /\ m.net = Test!SumOf(Nets(b)) /\ m.gross = Test!SumOf(Grosses(b))
<1>1. /\ m.pnl = (IF b.curve = <<>> THEN Capital ELSE Test!Last(b.curve)) - Capital
      /\ m.net = Test!SumOf([i \in DOMAIN b.trades |-> b.trades[i].net])
      /\ m.gross = Test!SumOf([i \in DOMAIN b.trades |-> b.trades[i].gross])
      /\ "pnl" \in DOMAIN m
  BY DEF Test!Metrics
<1>2. m # Test!NoReport
  BY <1>1 DEF Test!NoReport
<1>3. QED
  BY <1>1, <1>2 DEF Test!Last, Nets, Grosses

(* The book without the order that waits *)
Unburdened(c) ==
    /\ BookSound(c) /\ c.ledger.reserved = 0
    /\ c.ledger.cash = book.ledger.cash /\ c.ledger.qty = book.ledger.qty
    /\ c.curve = book.curve /\ c.entryBar = book.entryBar
    /\ Len(c.orders) = Len(book.orders)
    /\ \A i \in 1..Len(book.orders) : i # pending => c.orders[i] = book.orders[i]
    /\ pending # 0 => c.orders[pending].status = "cancelled" /\ c.orders[pending].ref = book.orders[pending].ref

LEMMA WithoutPendingKeeps ==
    ASSUME BacktestSafe, NEW c, c = Test!WithoutPending(book)
    PROVE  Unburdened(c)
<1>1. BookSound(book) /\ book \in Test!Book
  BY DEF BacktestSafe, BooksTrue, BookSound
<1>2. DOMAIN book.orders = 1..Len(book.orders) /\ book.ledger \in Test!Ledger
  BY <1>1, BookFields
<1>3. CASE pending = 0
  BY <1>1, <1>3 DEF Unburdened, Test!WithoutPending, BacktestSafe, WaitingTrue
<1>4. CASE pending # 0
  <2>1. Waits(book, pending)
    BY <1>4 DEF BacktestSafe, WaitingTrue
  <2>2. c = Cancelled(book, pending)
    BY <1>4 DEF Test!WithoutPending, Cancelled
  <2>3. /\ BookSound(c) /\ c.ledger = [book.ledger EXCEPT !.reserved = 0]
        /\ c.curve = book.curve /\ c.entryBar = book.entryBar
        /\ Len(c.orders) = Len(book.orders)
        /\ c.orders[pending].status = "cancelled" /\ c.orders[pending].ref = book.orders[pending].ref
        /\ \A i \in DOMAIN book.orders \ {pending} : c.orders[i] = book.orders[i]
    <3>1. /\ BookSound(c) /\ c.ledger = [book.ledger EXCEPT !.reserved = 0]
          /\ c.trades = book.trades /\ c.curve = book.curve /\ c.entryBar = book.entryBar
          /\ Len(c.orders) = Len(book.orders)
          /\ c.orders[pending].status = "cancelled" /\ c.orders[pending].ref = book.orders[pending].ref
          /\ \A i \in DOMAIN book.orders \ {pending} : c.orders[i] = book.orders[i]
      <4>1. PICK b, p : b = book /\ p = pending
        OBVIOUS
      <4>2. BookSound(b) /\ Waits(b, p) /\ c = Cancelled(b, p)
        BY <4>1, <2>1, <2>2, <1>1
      <4>3. /\ BookSound(c) /\ c.ledger = [b.ledger EXCEPT !.reserved = 0]
            /\ c.trades = b.trades /\ c.curve = b.curve /\ c.entryBar = b.entryBar
            /\ Len(c.orders) = Len(b.orders)
            /\ c.orders[p].status = "cancelled" /\ c.orders[p].ref = b.orders[p].ref
            /\ \A i \in DOMAIN b.orders \ {p} : c.orders[i] = b.orders[i]
        BY <4>2, CancelledKeeps
      <4>4. QED
        BY <4>1, <4>3
    <3>2. QED
      BY <3>1
  <2>4. c.ledger.reserved = 0 /\ c.ledger.cash = book.ledger.cash /\ c.ledger.qty = book.ledger.qty
    BY <2>3, <1>2 DEF Test!Ledger
  <2>5. QED
    BY <2>3, <2>4, <1>2 DEF Unburdened
<1>5. QED
  BY <1>3, <1>4

(* The book a run ends with *)
Ended(final, n, m, id) ==
    /\ n = Len(bricks) /\ m = Len(book.orders) /\ id = m + 1 /\ n \in Nat /\ m \in Nat
    /\ BookSound(final) /\ final.ledger.reserved = 0 /\ final.entryBar <= n
    /\ n = 0 => final = book
    /\ n > 0 => final.curve # <<>> /\ final.curve[Len(final.curve)] = Test!Equity(final, bricks[n].close)
    /\ setup.forced => ~Test!IsOpen(final.ledger)
    /\ Len(final.orders) \in {m, id}
    /\ \A i \in 1..m : i # pending => final.orders[i] = book.orders[i]
    /\ pending # 0 => final.orders[pending].status = "cancelled" /\ final.orders[pending].ref = book.orders[pending].ref
    /\ Len(final.orders) = id =>
           /\ n > 0 /\ final.orders[id].ref = bricks[n].close /\ final.orders[id].status \in {"filled", "rejected"}
           /\ final.orders[id].fill.price \in {bricks[n].close + Slip, bricks[n].close - Slip}

LEMMA FinalBook ==
    ASSUME BacktestSafe, NEW final, final = Test!ForcedOut(Test!WithoutPending(book))
    PROVE  \E n, m, id : Ended(final, n, m, id)
<1>1. PICK n, m, id, c : n = Len(bricks) /\ m = Len(book.orders) /\ id = m + 1 /\ c = Test!WithoutPending(book)
  BY Zenon
<1>2. BookSound(book) /\ book \in Test!Book /\ book.entryBar <= n /\ n \in Nat /\ TestTyped
  BY <1>1 DEF BacktestSafe, BooksTrue, BookSound, TestTyped
<1>3. m \in Nat /\ book.ledger \in Test!Ledger
  BY <1>1, <1>2, BookFields
<1>4. Unburdened(c)
  BY <1>1, WithoutPendingKeeps
<1>5. n = 0 <=> bricks = <<>>
  BY <1>1, <1>2 DEF TestTyped
<1>6. n = 0 => book.orders = <<>> /\ book.ledger = Test!NewLedger(Capital)
  BY <1>5 DEF BacktestSafe, BooksTrue
<1>7. n > 0 => book.curve # <<>> /\ book.curve[Len(book.curve)] = Test!Equity(book, bricks[n].close)
  BY <1>1, <1>5 DEF BacktestSafe, BooksTrue
<1>8. Test!IsOpen(c.ledger) <=> Test!IsOpen(book.ledger)
  BY <1>4 DEF Unburdened, Test!IsOpen
<1>9. n = 0 => c = book /\ ~Test!IsOpen(book.ledger)
  <2>1. pending # 0 => pending \in DOMAIN book.orders
    BY DEF BacktestSafe, WaitingTrue, Waits
  <2>2. n = 0 => pending = 0
    BY <2>1, <1>6
  <2>3. QED
    BY <2>2, <1>1, <1>6 DEF Test!WithoutPending, Test!NewLedger, Test!IsOpen
<1>10. CASE ~(setup.forced /\ bricks # <<>> /\ Test!IsOpen(c.ledger))
  <2>1. final = c
    BY <1>1, <1>10 DEF Test!ForcedOut
  <2>2. Test!Equity(final, bricks[n].close) = Test!Equity(book, bricks[n].close)
    BY <2>1, <1>4 DEF Test!Equity, Unburdened
  <2>3. n = 0 => final = book
    BY <2>1, <1>9
  <2>4. n > 0 => final.curve # <<>> /\ final.curve[Len(final.curve)] = Test!Equity(final, bricks[n].close)
    BY <2>1, <2>2, <1>4, <1>7 DEF Unburdened
  <2>5. setup.forced => ~Test!IsOpen(final.ledger)
    BY <2>1, <1>5, <1>8, <1>9, <1>10
  <2>6. Len(final.orders) = m /\ m # id
    BY <2>1, <1>1, <1>3, <1>4 DEF Unburdened
  <2>7. Ended(final, n, m, id)
    BY <2>1, <2>3, <2>4, <2>5, <2>6, <1>1, <1>2, <1>3, <1>4 DEF Ended, Unburdened
  <2>8. QED
    BY <2>7
<1>11. CASE setup.forced /\ bricks # <<>> /\ Test!IsOpen(c.ledger)
  <2>1. PICK price, ord, r, s : /\ price = bricks[n].close /\ ord = Test!NewOrder("sell", "asset", c.ledger.qty, price)
                                /\ r = Test!Recorded(c, ord) /\ s = Test!Settled(r, id, price, n)
    OBVIOUS
  <2>2. final = Test!Marked(s, price)
    <3>1. Len(c.orders) + 1 = id
      BY <1>1, <1>4 DEF Unburdened
    <3>2. QED
      BY <2>1, <3>1, <1>1, <1>11 DEF Test!ForcedOut
  <2>3. n > 0 /\ n \in 1..n
    BY <1>2, <1>5, <1>11
  <2>4. price \in Nat /\ price > Slip
    <3>1. bricks[n] \in Bricks
      BY <2>3, <1>1, <1>2 DEF TestTyped
    <3>2. QED
      BY <2>1, <3>1, SizesOfTests
  <2>5. c \in Test!Book /\ BookSound(c) /\ c.ledger.reserved = 0 /\ Len(c.orders) = m
    BY <1>1, <1>4 DEF Unburdened, BookSound
  <2>6. /\ ord \in Test!Order /\ ord.status = "created" /\ ord.ref = price /\ ord.side = "sell"
        /\ ord.qty = c.ledger.qty /\ ord.reserved = 0
    BY <2>1, <2>4, <2>5, SaleIsOrder
  <2>7. /\ BookSound(r) /\ Waits(r, id) /\ r.orders = Append(c.orders, ord) /\ r.entryBar = c.entryBar
    <3>1. /\ ord.side = "buy" => ~Test!IsOpen(c.ledger) /\ ord.qty > 0
          /\ ord.side = "sell" => Test!IsOpen(c.ledger) /\ ord.qty = c.ledger.qty /\ ord.reserved = 0
      BY <2>6, <1>11
    <3>2. r = Test!Recorded(c, ord) /\ id = Len(c.orders) + 1
      BY <2>1, <2>5, <1>1
    <3>3. /\ BookSound(r) /\ Waits(r, id)
          /\ r.orders = Append(c.orders, ord) /\ r.trades = c.trades /\ r.curve = c.curve /\ r.entryBar = c.entryBar
          /\ r.ledger = [c.ledger EXCEPT !.reserved = ord.reserved]
      <4>1. PICK b, ledger : b = c /\ ledger = b.ledger
        OBVIOUS
      <4>2. /\ BookSound(b) /\ b.ledger.reserved = 0 /\ ord \in Test!Order /\ ord.status = "created"
            /\ ord.side = "buy" => ~Test!IsOpen(b.ledger) /\ ord.qty > 0
            /\ ord.side = "sell" => Test!IsOpen(b.ledger) /\ ord.qty = b.ledger.qty /\ ord.reserved = 0
            /\ r = Test!Recorded(b, ord) /\ id = Len(b.orders) + 1
        BY <4>1, <3>1, <3>2, <2>5, <2>6
      <4>3. BookSound(r) /\ Waits(r, id)
        BY <4>2, RecordedKeeps, Zenon
      <4>4. /\ r.orders = Append(b.orders, ord) /\ r.trades = b.trades /\ r.curve = b.curve /\ r.entryBar = b.entryBar
            /\ r.ledger = [b.ledger EXCEPT !.reserved = ord.reserved]
        BY <4>2, RecordedKeeps
      <4>5. QED
        BY <4>1, <4>3, <4>4
    <3>4. QED
      BY <3>3
  <2>8. c.orders \in Seq(Test!Order)
    BY <2>5, BookFields
  <2>9. PICK os : os = c.orders
    OBVIOUS
  <2>10. /\ Len(Append(os, ord)) = id /\ Append(os, ord)[id] = ord /\ DOMAIN Append(os, ord) = 1..id
         /\ \A i \in 1..m : Append(os, ord)[i] = os[i]
    BY <2>5, <2>6, <2>8, <2>9, <1>1, <1>3
  <2>11. Len(r.orders) = id /\ r.orders[id] = ord /\ DOMAIN r.orders = 1..id /\ \A i \in 1..m : r.orders[i] = c.orders[i]
    BY <2>7, <2>9, <2>10, Zenon
  <2>12. r.entryBar <= n
    BY <2>7, <1>2, <1>4 DEF Unburdened
  <2>13. FillLeaves(r, id, price, n, s)
    BY <2>1, <2>4, <2>7, <2>12, <1>2, SettledKeeps
  <2>14. /\ BookSound(s) /\ s.ledger.reserved = 0 /\ s.entryBar <= n /\ Len(s.orders) = id
         /\ \A i \in 1..m : s.orders[i] = c.orders[i]
         /\ s.orders[id].status \in {"filled", "rejected"} /\ s.orders[id].ref = price
         /\ s.orders[id].fill.price \in {price + Slip, price - Slip}
         /\ ~Test!IsOpen(s.ledger)
    <3>1. \A i \in 1..m : i \in DOMAIN r.orders \ {id}
      BY <2>11, <1>1, <1>3
    <3>2. QED
      BY <2>6, <2>11, <2>13, <3>1 DEF FillLeaves
  <2>15. /\ BookSound(final) /\ final.ledger = s.ledger /\ final.orders = s.orders /\ final.entryBar = s.entryBar
         /\ final.curve = Append(s.curve, Test!Equity(s, price)) /\ Test!Equity(s, price) \in Int
    <3>1. BookSound(s) /\ price \in Nat
      BY <2>4, <2>14
    <3>2. QED
      BY <3>1, <2>2, MarkedKeeps, Zenon
  <2>16. final.curve # <<>> /\ final.curve[Len(final.curve)] = Test!Equity(final, price)
    <3>1. s \in Test!Book
      BY <2>14 DEF BookSound
    <3>2. s.curve \in Seq(Int)
      BY <3>1, BookFields
    <3>3. PICK t, e : t = s.curve /\ e = Test!Equity(s, price)
      OBVIOUS
    <3>4. Append(t, e) # <<>> /\ Append(t, e)[Len(Append(t, e))] = e
      BY <2>15, <3>2, <3>3
    <3>5. Test!Equity(final, price) = e
      BY <2>15, <3>3 DEF Test!Equity
    <3>6. QED
      BY <2>15, <3>3, <3>4, <3>5
  <2>17. /\ \A i \in 1..m : i # pending => c.orders[i] = book.orders[i]
         /\ pending # 0 => c.orders[pending].status = "cancelled" /\ c.orders[pending].ref = book.orders[pending].ref
    BY <1>1, <1>4 DEF Unburdened
  <2>18. pending # 0 => pending \in 1..m
    <3>1. DOMAIN book.orders = 1..m
      BY <1>1, <1>2, BookFields
    <3>2. QED
      BY <3>1 DEF BacktestSafe, WaitingTrue, Waits
  <2>19. /\ \A i \in 1..m : i # pending => final.orders[i] = book.orders[i]
         /\ pending # 0 => final.orders[pending].status = "cancelled" /\ final.orders[pending].ref = book.orders[pending].ref
    BY <2>14, <2>15, <2>17, <2>18
  <2>20. Ended(final, n, m, id)
    <3>1. BookSound(final) /\ final.ledger.reserved = 0 /\ final.entryBar <= n /\ ~Test!IsOpen(final.ledger)
      BY <2>14, <2>15
    <3>2. /\ Len(final.orders) = id /\ final.orders[id].ref = price /\ final.orders[id].status \in {"filled", "rejected"}
          /\ final.orders[id].fill.price \in {price + Slip, price - Slip}
      BY <2>14, <2>15
    <3>3. QED
      BY <3>1, <3>2, <2>1, <2>3, <2>16, <2>19, <1>1, <1>2, <1>3 DEF Ended
  <2>21. QED
    BY <2>20
<1>12. QED
  BY <1>10, <1>11

-----------------------------------------------------------------------------
(* The end of a run keeps the invariant. *)
LEMMA FinishKeepsOrders ==
    ASSUME BacktestSafe, report = Test!NoReport, NEW final, NEW n, NEW m, NEW id, Ended(final, n, m, id),
           book' = final, pending' = 0, report' # Test!NoReport, bricks' = bricks,
           made' = IF Len(final.orders) > m THEN Append(made, n) ELSE made,
           done' = IF Len(final.orders) > m THEN Append(done, n) ELSE done
    PROVE  OrdersTold' /\ made' \in Seq(Nat) /\ done' \in Seq(Nat)
               /\ Len(made') = Len(final.orders) /\ Len(done') = Len(final.orders)
<1>1. PICK old, was, at, ended, p : old = bricks /\ was = book.orders /\ at = made /\ ended = done /\ p = pending
  OBVIOUS
<1>2. /\ n = Len(old) /\ m = Len(was) /\ id = m + 1 /\ n \in Nat /\ m \in Nat
      /\ Len(final.orders) \in {m, id}
      /\ \A i \in 1..m : i # p => final.orders[i] = was[i]
      /\ p # 0 => final.orders[p].status = "cancelled" /\ final.orders[p].ref = was[p].ref
      /\ Len(final.orders) = id =>
             /\ n > 0 /\ final.orders[id].ref = old[n].close /\ final.orders[id].status \in {"filled", "rejected"}
             /\ final.orders[id].fill.price \in {old[n].close + Slip, old[n].close - Slip}
  BY <1>1 DEF Ended
<1>3. /\ at \in Seq(Nat) /\ ended \in Seq(Nat) /\ Len(at) = m /\ Len(ended) = m
  BY <1>1, <1>2 DEF BacktestSafe, TestTyped
<1>4. ASSUME NEW i \in 1..m
      PROVE  /\ at[i] \in 1..n /\ was[i].ref = old[at[i]].close
             /\ Test!IsActive(was[i]) <=> i = p
             /\ was[i].status = "filled" => /\ ended[i] \in 1..n /\ ended[i] = at[i] + 1
                                            /\ was[i].fill.price \in {old[ended[i]].close + Slip, old[ended[i]].close - Slip}
  BY <1>1, <1>2 DEF BacktestSafe, OrdersTold
<1>5. Len(final.orders) > m <=> Len(final.orders) = id
  BY <1>2
<1>6. /\ made' \in Seq(Nat) /\ done' \in Seq(Nat) /\ Len(made') = Len(final.orders) /\ Len(done') = Len(final.orders)
      /\ \A i \in 1..m : made'[i] = at[i] /\ done'[i] = ended[i]
      /\ Len(final.orders) = id => made'[id] = n /\ done'[id] = n
  <2>1. CASE Len(final.orders) = id
    <3>1. made' = Append(at, n) /\ done' = Append(ended, n)
      BY <2>1, <1>1, <1>5
    <3>2. ASSUME NEW s \in Seq(Nat), Len(s) = m
          PROVE  /\ Append(s, n) \in Seq(Nat) /\ Len(Append(s, n)) = id /\ Append(s, n)[id] = n
                 /\ \A i \in 1..m : Append(s, n)[i] = s[i]
      BY <3>2, <1>2
    <3>3. QED
      BY <2>1, <3>1, <3>2, <1>3, Zenon
  <2>2. CASE Len(final.orders) # id
    <3>1. made' = at /\ done' = ended /\ Len(final.orders) = m
      BY <2>2, <1>1, <1>2, <1>5
    <3>2. QED
      BY <2>2, <3>1, <1>3
  <2>3. QED
    BY <2>1, <2>2, Zenon
<1> DEFINE Right(i) ==
        /\ made'[i] \in 1..n /\ final.orders[i].ref = old[made'[i]].close
        /\ ~Test!IsActive(final.orders[i]) /\ i # 0
        /\ final.orders[i].status = "filled" =>
               /\ done'[i] \in 1..n
               /\ done'[i] = made'[i] + 1 \/ (done'[i] = made'[i] /\ i = Len(final.orders))
               /\ final.orders[i].fill.price \in {old[done'[i]].close + Slip, old[done'[i]].close - Slip}
<1>7. ASSUME NEW i \in 1..m, i # p PROVE Right(i)
  <2>1. final.orders[i] = was[i] /\ made'[i] = at[i] /\ done'[i] = ended[i] /\ i # 0
    BY <1>2, <1>6, <1>7
  <2>2. QED
    BY <2>1, <1>4, <1>7, Zenon
<1>8. ASSUME p \in 1..m PROVE Right(p)
  <2>1. final.orders[p].status = "cancelled" /\ final.orders[p].ref = was[p].ref /\ made'[p] = at[p] /\ p # 0
    <3>1. p # 0
      BY <1>2, <1>8
    <3>2. QED
      BY <3>1, <1>2, <1>6, <1>8, Zenon
  <2>2. ~Test!IsActive(final.orders[p])
    BY <2>1 DEF Test!IsActive
  <2>3. QED
    BY <2>1, <2>2, <1>4, <1>8, Zenon
<1>9. ASSUME Len(final.orders) = id PROVE Right(id)
  <2>1. n \in 1..n /\ id # 0
    BY <1>2, <1>9
  <2>2. ~Test!IsActive(final.orders[id])
    BY <1>2, <1>9 DEF Test!IsActive
  <2>3. made'[id] = n /\ done'[id] = n
    BY <1>6, <1>9
  <2>4. /\ final.orders[id].ref = old[n].close
        /\ final.orders[id].fill.price \in {old[n].close + Slip, old[n].close - Slip}
    BY <1>2, <1>9
  <2>5. QED
    BY <2>1, <2>2, <2>3, <2>4, <1>9
<1>10. \A i \in 1..Len(final.orders) : Right(i)
  <2> HIDE DEF Right
  <2>1. ASSUME NEW i \in 1..Len(final.orders) PROVE i \in 1..m \/ (i = id /\ Len(final.orders) = id)
    BY <1>2
  <2>2. QED
    BY <2>1, <1>7, <1>8, <1>9
<1>11. OrdersTold'
  BY <1>1, <1>2, <1>10, Zenon DEF OrdersTold
<1>12. QED
  BY <1>6, <1>11

LEMMA FinishKeeps ==
    ASSUME BacktestSafe, Test!Finish
    PROVE  BacktestSafe'
<1>1. PICK final : final = Test!ForcedOut(Test!WithoutPending(book))
  OBVIOUS
<1>2. PICK n, m, id : Ended(final, n, m, id)
  BY <1>1, FinalBook
<1>3. n = Len(bricks) /\ m = Len(book.orders) /\ n \in Nat
  BY <1>2 DEF Ended
<1>4. /\ report = Test!NoReport /\ book' = final /\ pending' = 0
      /\ report' = Test!Metrics(final.curve, final.trades, Capital)
      /\ made' = IF Len(final.orders) > m THEN Append(made, n) ELSE made
      /\ done' = IF Len(final.orders) > m THEN Append(done, n) ELSE done
      /\ setup' = setup /\ tested' = tested /\ highest' = highest /\ bricks' = bricks /\ wanted' = wanted
  BY <1>1, <1>3 DEF Test!Finish
<1>5. report' # Test!NoReport
  BY <1>4, MetricsTell
<1>6. /\ OrdersTold' /\ made' \in Seq(Nat) /\ done' \in Seq(Nat)
      /\ Len(made') = Len(final.orders) /\ Len(done') = Len(final.orders)
  BY <1>2, <1>4, <1>5, FinishKeepsOrders
<1>7. TestTyped'
  BY <1>4, <1>6 DEF BacktestSafe, TestTyped
<1>8. BooksTrue'
  <2>1. BookSound(book') /\ book'.entryBar <= Len(bricks')
    BY <1>2, <1>3, <1>4 DEF Ended
  <2>2. n = 0 <=> bricks = <<>>
    BY <1>3 DEF BacktestSafe, TestTyped
  <2>3. bricks' = <<>> => book' = book /\ book.orders = <<>> /\ book.curve = <<>> /\ book.ledger = Test!NewLedger(Capital)
    BY <2>2, <1>2, <1>4 DEF Ended, BacktestSafe, BooksTrue
  <2>4. bricks' # <<>> =>
            book'.curve # <<>> /\ book'.curve[Len(book'.curve)] = Test!Equity(book', bricks'[Len(bricks')].close)
    BY <2>2, <1>2, <1>3, <1>4 DEF Ended
  <2>5. QED
    BY <2>1, <2>3, <2>4 DEF BooksTrue, Test!NewLedger, Test!Equity
<1>9. WaitingTrue'
  BY <1>2, <1>4 DEF Ended, WaitingTrue
<1>10. EndsSettled'
  <2>1. setup'.forced => ~Test!IsOpen(book'.ledger)
    BY <1>2, <1>4 DEF Ended
  <2>2. pending' = 0 /\ report' = Test!Metrics(book'.curve, book'.trades, Capital)
    BY <1>4
  <2>3. QED
    BY <2>1, <2>2 DEF EndsSettled, Test!IsOpen
<1>11. TradesFollow' /\ StopsTrail' /\ Test!RulesAreObeyed'
  BY <1>5 DEF TradesFollow, StopsTrail, Test!RulesAreObeyed
<1>12. QED
  BY <1>6, <1>7, <1>8, <1>9, <1>10, <1>11 DEF BacktestSafe

LEMMA BrickKeeps ==
    ASSUME BacktestSafe, NEW brick \in Bricks, Test!OnBrick(brick)
    PROVE  BacktestSafe'
<1>1. PICK price, bar, marked, turn, high, signal, order, left, id :
          /\ Found(price, bar, marked) /\ Decided(price, marked, turn, high, signal, order)
          /\ Leaves(price, marked, order, left, id) /\ Taken(brick, price, bar, turn, high, order, left, id)
  BY BrickIsTaken
<1>2. TestTyped' /\ BooksTrue' /\ WaitingTrue' /\ OrdersTold'
  BY <1>1, BrickKeepsTyped, BrickKeepsBooks, BrickKeepsOrders
<1>3. TradesFollow' /\ StopsTrail' /\ Test!RulesAreObeyed'
  BY <1>1, BrickKeepsTrades, BrickKeepsStops, BrickKeepsRules
<1>4. EndsSettled'
  BY <1>1 DEF EndsSettled, Taken, Found
<1>5. QED
  BY <1>2, <1>3, <1>4 DEF BacktestSafe

LEMMA FreshKeeps ==
    ASSUME Test!Init
    PROVE  BacktestSafe
<1>1. /\ setup \in Setups /\ tested = Test!Fresh /\ highest = NoValue
      /\ book = [ledger |-> Test!NewLedger(Capital), trades |-> <<>>, curve |-> <<>>,
                 charged |-> 0, slipped |-> 0, entryBar |-> 0, orders |-> <<>>]
      /\ pending = 0 /\ report = Test!NoReport
      /\ bricks = <<>> /\ made = <<>> /\ done = <<>> /\ wanted = <<>>
  BY DEF Test!Init
<1>2. Capital \in Nat /\ Fee \in Nat
  BY SizesOfTests
<1>3. PICK pf : pf = Test!NewLedger(Capital)
  OBVIOUS
<1>4. /\ pf \in Test!Ledger /\ pf.cash = Capital /\ pf.qty = 0 /\ pf.basis = 0 /\ pf.entryCost = 0
      /\ pf.realized = 0 /\ pf.reserved = 0
  BY <1>2, <1>3 DEF Test!NewLedger, Test!Ledger
<1>5. /\ book.ledger = pf /\ book.trades = <<>> /\ book.curve = <<>> /\ book.charged = 0
      /\ book.entryBar = 0 /\ book.orders = <<>>
  BY <1>1, <1>3
<1>6. book \in Test!Book
  BY <1>1, <1>3, <1>4 DEF Test!Book
<1>7. ~Test!IsOpen(pf)
  BY <1>4 DEF Test!IsOpen
<1>8. BookSound(book)
  <2>1. Nets(book) = <<>> /\ Grosses(book) = <<>>
    BY <1>5 DEF Nets, Grosses
  <2>2. FilledIds(book) = {}
    BY <1>5 DEF FilledIds
  <2>3. Cardinality({}) = 0
    BY FS_EmptySet
  <2>4. Fee * 0 = 0
    BY <1>2
  <2>5. Test!SumOf(Nets(book)) = 0 /\ Test!SumOf(Grosses(book)) = 0 /\ book.charged = Fee * Cardinality(FilledIds(book))
    BY <2>1, <2>2, <2>3, <2>4, <1>5, SumOfNone
  <2>6. QED
    BY <2>5, <1>2, <1>4, <1>5, <1>6, <1>7 DEF BookSound, Test!Balanced
<1>9. TestTyped
  <2>1. DOMAIN tested = StrategyFields /\ tested.position = "flat"
    BY <1>1 DEF Test!Fresh, StrategyFields
  <2>2. QED
    BY <2>1, <1>1, <1>5 DEF TestTyped
<1>10. BooksTrue /\ WaitingTrue
  BY <1>1, <1>3, <1>4, <1>5, <1>8 DEF BooksTrue, WaitingTrue
<1>11. OrdersTold /\ EndsSettled
  BY <1>1, <1>5 DEF OrdersTold, EndsSettled
<1>12. TradesFollow /\ StopsTrail /\ Test!RulesAreObeyed
  BY <1>1, <1>5, <1>7 DEF TradesFollow, StopsTrail, Test!RulesAreObeyed
<1>13. QED
  BY <1>9, <1>10, <1>11, <1>12 DEF BacktestSafe

LEMMA IdleKeeps ==
    ASSUME BacktestSafe, UNCHANGED backtestVars
    PROVE  BacktestSafe'
<1>1. TestTyped' /\ BooksTrue' /\ WaitingTrue'
  BY DEF BacktestSafe, backtestVars, TestTyped, BooksTrue, WaitingTrue
<1>2. OrdersTold' /\ EndsSettled'
  BY DEF BacktestSafe, backtestVars, OrdersTold, EndsSettled
<1>3. TradesFollow' /\ StopsTrail'
  BY DEF BacktestSafe, backtestVars, TradesFollow, Unentered, NothingBought, StopsTrail, Trails
<1>4. Test!RulesAreObeyed'
  BY Zenon DEF BacktestSafe, backtestVars, Test!RulesAreObeyed, Test!Reached, Test!Orders
<1>5. QED
  BY <1>1, <1>2, <1>3, <1>4 DEF BacktestSafe

-----------------------------------------------------------------------------
(* The invariant implies what a backtest promises. *)
LEMMA TellsFills ==
    ASSUME BacktestSafe
    PROVE  Test!FilledOnNextBrick
<1>1. OrdersTold
  BY DEF BacktestSafe
<1>2. DOMAIN book.orders = 1..Len(book.orders)
  BY BookFields DEF BacktestSafe, BooksTrue, BookSound
<1>3. QED
  BY <1>1, <1>2, Zenon DEF OrdersTold, Test!FilledOnNextBrick, Test!Orders, Test!Filled, Test!Forced

LEMMA TellsBooks ==
    ASSUME BacktestSafe
    PROVE  Test!BooksBalance
<1>1. BookSound(book) /\ book \in Test!Book /\ TestTyped
  BY DEF BacktestSafe, BooksTrue, BookSound
<1>2. book.ledger \in Test!Ledger /\ DOMAIN book.orders = 1..Len(book.orders)
  BY <1>1, BookFields
<1>3. book.ledger.reserved = IF pending = 0 THEN 0 ELSE book.orders[pending].reserved
  BY DEF BacktestSafe, WaitingTrue, Waits
<1>4. /\ Test!Balanced(book.ledger, Capital) /\ book.ledger.realized = Test!SumOf(Nets(book))
      /\ book.charged = Fee * Cardinality(FilledIds(book))
  BY <1>1 DEF BookSound
<1>5. Test!Cardinality(FilledIds(book)) = Cardinality(FilledIds(book))
  BY SameTestCardinality
<1>6. ASSUME bricks # <<>>
      PROVE  Test!Last(book.curve) =
               Capital + book.ledger.realized
                   + (Test!Last(bricks).close * book.ledger.qty - book.ledger.basis - book.ledger.entryCost)
  <2>1. PICK price, cash, qty, basis, entry, realized :
           /\ price = bricks[Len(bricks)].close /\ cash = book.ledger.cash /\ qty = book.ledger.qty
           /\ basis = book.ledger.basis /\ entry = book.ledger.entryCost /\ realized = book.ledger.realized
    OBVIOUS
  <2>2. Len(bricks) \in 1..Len(bricks)
    BY <1>1, <1>6 DEF TestTyped
  <2>3. /\ price \in Nat /\ cash \in Int /\ qty \in Nat /\ basis \in Nat /\ entry \in Nat /\ realized \in Int
    BY <2>1, <2>2, <1>1, <1>2, ClosesAreNumbers DEF Test!Ledger
  <2>4. PICK worth : worth = qty * price
    OBVIOUS
  <2>5. worth \in Nat /\ price * qty = worth
    BY <2>3, <2>4
  <2>6. cash + basis + entry = Capital + realized /\ Capital \in Nat
    BY <2>1, <1>4, SizesOfTests DEF Test!Balanced
  <2>7. Test!Last(book.curve) = cash + worth
    BY <2>1, <2>4, <1>6 DEF BacktestSafe, BooksTrue, Test!Last, Test!Equity
  <2>8. cash + worth = Capital + realized + (worth - basis - entry)
    BY <2>3, <2>5, <2>6
  <2>9. QED
    BY <2>1, <2>5, <2>7, <2>8 DEF Test!Last
<1>7. QED
  BY <1>3, <1>4, <1>5, <1>6 DEF Test!BooksBalance, Test!Orders, Test!Filled, Nets, FilledIds

LEMMA TellsTrades ==
    ASSUME BacktestSafe
    PROVE  Test!PositionFollowsStrategy
<1>1. PICK n, held : n = Len(bricks) /\ held = wanted
  BY Zenon
<1>2. n \in Nat /\ Len(held) = n
  BY <1>1 DEF BacktestSafe, TestTyped
<1>3. PICK k, begun : k = n - 1 /\ begun = {i \in 1..k : held[i] = "long" /\ (i = 1 \/ held[i - 1] # "long")}
  BY Zenon
<1>4. DOMAIN book.orders = 1..Len(book.orders)
  BY BookFields DEF BacktestSafe, BooksTrue, BookSound
<1> SUFFICES ASSUME setup.rules = <<>>, report = Test!NoReport, k > 0
             PROVE  IF Test!IsOpen(book.ledger) THEN held[k] = "long"
                    ELSE held[k] = "long" => NothingBought(Test!Max(begun))
  BY <1>1, <1>2, <1>3, <1>4 DEF Test!PositionFollowsStrategy, Test!Orders, NothingBought
<1>5. n > 1 /\ k \in Int
  BY <1>2, <1>3
<1>6. /\ Test!IsOpen(book.ledger) => held[k] = "long"
      /\ ~Test!IsOpen(book.ledger) /\ pending # 0 => held[k] # "long"
      /\ ~Test!IsOpen(book.ledger) /\ pending = 0 => (held[k] = "long" => Unentered(k))
  BY <1>1, <1>3, <1>5 DEF BacktestSafe, TradesFollow
<1>7. ASSUME Unentered(k)
      PROVE  NothingBought(Test!Max(begun))
  <2>1. PICK e \in 1..k : /\ e = 1 \/ held[e - 1] # "long"
                          /\ \A i \in e..k : held[i] = "long"
                          /\ NothingBought(e)
    BY <1>1, <1>7 DEF Unentered
  <2>2. e \in begun
    BY <2>1, <1>3, <1>5
  <2>3. ASSUME NEW y \in begun PROVE y <= e
    <3>1. y \in 1..k /\ (y = 1 \/ held[y - 1] # "long")
      BY <1>3
    <3>2. y > e => y # 1 /\ y - 1 \in e..k
      BY <3>1, <2>1, <1>5
    <3>3. QED
      BY <3>1, <3>2, <2>1
  <2>4. begun \in SUBSET Int
    BY <1>3
  <2>5. Test!Max(begun) = e
    BY <2>2, <2>3, <2>4, GreatestIs
  <2>6. QED
    BY <2>1, <2>5
<1>8. QED
  BY <1>6, <1>7

LEMMA TellsEnd ==
    ASSUME BacktestSafe
    PROVE  Test!RunIsAccounted
<1> SUFFICES ASSUME report # Test!NoReport
             PROVE  /\ \A id \in DOMAIN book.orders : ~Test!IsActive(book.orders[id])
                    /\ book.ledger.reserved = 0
                    /\ setup.forced => ~Test!IsOpen(book.ledger) /\ report.pnl = report.net
                    /\ report.gross - report.net <= book.charged
  BY DEF Test!RunIsAccounted, Test!Orders
<1>1. /\ pending = 0 /\ report = Test!Metrics(book.curve, book.trades, Capital)
      /\ setup.forced => ~Test!IsOpen(book.ledger)
  BY DEF BacktestSafe, EndsSettled
<1>2. BookSound(book) /\ book \in Test!Book /\ TestTyped
  BY DEF BacktestSafe, BooksTrue, BookSound
<1>3. DOMAIN book.orders = 1..Len(book.orders) /\ book.ledger \in Test!Ledger /\ book.charged \in Nat
  BY <1>2, BookFields
<1>4. ASSUME NEW id \in DOMAIN book.orders
      PROVE  ~Test!IsActive(book.orders[id])
  BY <1>1, <1>3 DEF BacktestSafe, OrdersTold
<1>5. book.ledger.reserved = 0
  BY <1>1 DEF BacktestSafe, WaitingTrue
<1>6. PICK nets, grosses, entry, cash, basis, realized, charged :
         /\ nets = Test!SumOf(Nets(book)) /\ grosses = Test!SumOf(Grosses(book)) /\ entry = book.ledger.entryCost
         /\ cash = book.ledger.cash /\ basis = book.ledger.basis /\ realized = book.ledger.realized /\ charged = book.charged
  OBVIOUS
<1>7. /\ nets \in Int /\ grosses \in Int /\ entry \in Nat /\ cash \in Int /\ basis \in Nat /\ realized \in Int
      /\ charged \in Nat /\ Capital \in Nat
  BY <1>2, <1>3, <1>6, SumsAreNumbers, SizesOfTests DEF Test!Ledger
<1>8. /\ grosses = nets + charged - entry /\ realized = nets /\ cash + basis + entry = Capital + realized
      /\ ~Test!IsOpen(book.ledger) => basis = 0 /\ entry = 0
  BY <1>2, <1>6 DEF BookSound, Test!Balanced
<1>9. /\ report.pnl = (IF book.curve = <<>> THEN Capital ELSE book.curve[Len(book.curve)]) - Capital
      /\ report.net = nets /\ report.gross = grosses
  BY <1>1, <1>6, MetricsTell
<1>10. report.gross - report.net <= book.charged
  <2>1. report.net = nets /\ report.gross = nets + charged - entry /\ book.charged = charged
    BY <1>6, <1>8, <1>9
  <2>2. (nets + charged - entry) - nets <= charged
    BY <1>7
  <2>3. QED
    BY <2>1, <2>2
<1>11. ASSUME setup.forced
       PROVE  report.pnl = report.net
  <2>1. ~Test!IsOpen(book.ledger) /\ basis = 0 /\ entry = 0
    BY <1>1, <1>8, <1>11
  <2>2. CASE bricks = <<>>
    <3>1. book.curve = <<>> /\ realized = 0
      BY <2>2, <1>6 DEF BacktestSafe, BooksTrue, Test!NewLedger
    <3>2. QED
      BY <3>1, <1>7, <1>8, <1>9
  <2>3. CASE bricks # <<>>
    <3>1. PICK price, qty : price = bricks[Len(bricks)].close /\ qty = book.ledger.qty
      OBVIOUS
    <3>2. Len(bricks) \in 1..Len(bricks)
      BY <2>3, <1>2 DEF TestTyped
    <3>3. price \in Nat /\ qty = 0
      BY <2>1, <3>1, <3>2, <1>2, <1>3, ClosesAreNumbers DEF Test!IsOpen, Test!Ledger
    <3>4. qty * price = 0
      BY <3>3
    <3>5. book.curve # <<>> /\ book.curve[Len(book.curve)] = cash + qty * price
      BY <2>3, <3>1, <1>6 DEF BacktestSafe, BooksTrue, Test!Equity
    <3>6. book.curve[Len(book.curve)] = cash
      BY <3>4, <3>5, <1>7
    <3>7. QED
      BY <2>1, <3>5, <3>6, <1>7, <1>8, <1>9
  <2>4. QED
    BY <2>2, <2>3
<1>12. QED
  BY <1>1, <1>4, <1>5, <1>10, <1>11

LEMMA TradingTold ==
    ASSUME EngineTells, BacktestSafe
    PROVE  TradingIsHonest
<1>1. Engine!PositionTellsSignals
  BY EngineTellsSignals
<1>2. Test!FilledOnNextBrick /\ Test!BooksBalance /\ Test!PositionFollowsStrategy /\ Test!RunIsAccounted
  BY TellsFills, TellsBooks, TellsTrades, TellsEnd
<1>3. Test!RulesAreObeyed
  BY DEF BacktestSafe
<1>4. QED
  BY <1>1, <1>2, <1>3 DEF TradingIsHonest

LEMMA TradingInit ==
    ASSUME Init
    PROVE  EngineTells /\ BacktestSafe
<1>1. Engine!Init /\ Test!Init
  BY DEF Init
<1>2. EngineTells
  <2>1. kind \in Engine!Kinds /\ strategy = Engine!Fresh /\ started = FALSE /\ signals = <<>>
    BY <1>1 DEF Engine!Init
  <2>2. signals \in Seq(Engine!Signals)
    BY <2>1
  <2>3. DOMAIN strategy = StrategyFields
    BY <2>1, FreshTells
  <2>4. QED
    BY <2>1, <2>2, <2>3, Zenon DEF EngineTells
<1>3. QED
  BY <1>1, <1>2, FreshKeeps

LEMMA TradingStep ==
    ASSUME EngineTells, BacktestSafe, [Next]_mcVars
    PROVE  EngineTells' /\ BacktestSafe'
<1>1. ASSUME UNCHANGED strategyVars PROVE EngineTells'
  BY <1>1 DEF EngineTells, strategyVars, HeldAfter
<1>2. ASSUME UNCHANGED backtestVars PROVE BacktestSafe'
  BY <1>2, IdleKeeps
<1>3. CASE StrategyStep
  <2>1. Engine!Next /\ UNCHANGED backtestVars
    BY <1>3 DEF StrategyStep
  <2>2. QED
    BY <2>1, <1>2, EngineStepTells
<1>4. CASE BacktestStep
  <2>1. Test!Next /\ UNCHANGED strategyVars
    BY <1>4 DEF BacktestStep
  <2>2. BacktestSafe'
    BY <2>1, BrickKeeps, FinishKeeps DEF Test!Next
  <2>3. QED
    BY <2>1, <2>2, <1>1
<1>5. CASE ResearchStep \/ RankingStep \/ SimulationStep \/ MarkStep \/ SellStep \/ LifecycleStep \/ UNCHANGED mcVars
  <2>1. UNCHANGED strategyVars /\ UNCHANGED backtestVars
    BY <1>5 DEF ResearchStep, RankingStep, SimulationStep, MarkStep, SellStep, LifecycleStep, mcVars
  <2>2. QED
    BY <2>1, <1>1, <1>2
<1>6. QED
  BY <1>3, <1>4, <1>5 DEF Next

(* What a strategy signals is what becomes of its position in every call   *)
(* of its engine (process_brick, start, reset, shutdown), and a backtest's *)
(* books, waiting order, trades, trailing stops and rules fit together     *)
(* after every brick and at its end (run, apply_order).                    *)
THEOREM TradingInvariant == Spec => [](EngineTells /\ BacktestSafe)
<1>1. Init => EngineTells /\ BacktestSafe
  BY TradingInit
<1>2. EngineTells /\ BacktestSafe /\ [Next]_mcVars => EngineTells' /\ BacktestSafe'
  BY TradingStep
<1>3. QED
  BY <1>1, <1>2, PTL DEF Spec

(* A strategy reports the position its signals made; a backtest fills with *)
(* the brick after the one that signalled (run), its cash, basis, trades   *)
(* and costs account for its capital (apply_order), the portfolio's        *)
(* position is the strategy's but for the orders that were turned away     *)
(* (_order_from_signal), a rule that fires is obeyed on the brick it fires *)
(* (RiskManager.evaluate), and at the end nothing waits.                   *)
THEOREM TradingHonest == Spec => []TradingIsHonest
<1>1. EngineTells /\ BacktestSafe => TradingIsHonest
  BY TradingTold
<1>2. QED
  BY <1>1, TradingInvariant, PTL
=============================================================================
