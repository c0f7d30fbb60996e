-------------------------- MODULE ProcessingPipeline --------------------------
(***************************************************************************)
(* The processing pipeline (pipeline/): stages ordered by a graph of       *)
(* edges, run one after the other on one context, a stage that raises      *)
(* being tried again; chart/pipeline.py is one of its stages.  A handler   *)
(* of the pipeline's events may raise, which ends the run.                 *)
(***************************************************************************)
EXTENDS Naturals, Sequences, SequencesExt, FiniteSets

CONSTANTS StageCount, MaxEdges, RetryCount, MaxRuns

PipelineConstants ==
    StageCount \in Nat \ {0} /\ MaxEdges \in Nat /\ RetryCount \in Nat /\ MaxRuns \in Nat

VARIABLES
    edges,              \* ProcessingGraph._edges, in the order they were added
    todo,               \* the stages the run has still to do
    attempt,            \* the retries of the stage that is tried, Waiting or Ordering
    holds,              \* the stages whose output is in the context
    ran,                \* the results: [stage, status, retries]
    told,               \* the events published
    result,             \* of the run: status, "running", "raised" or "none"
    runs

pipelineVars == <<edges, todo, attempt, holds, ran, told, result, runs>>

Stages == 1..StageCount
Waiting == RetryCount + 1
Ordering == RetryCount + 2

PipelineTypeOK ==
    /\ edges \in Seq(Stages \X Stages) /\ Len(edges) <= MaxEdges
    /\ todo \in Seq(Stages) /\ attempt \in 0..Ordering /\ holds \subseteq Stages
    /\ result \in {"none", "running", "success", "failed", "raised"} /\ runs \in 0..MaxRuns

PipelineInit ==
    /\ edges = <<>> /\ todo = <<>> /\ attempt = Waiting /\ holds = {}
    /\ ran = <<>> /\ told = <<>> /\ result = "none" /\ runs = 0

-----------------------------------------------------------------------------
(* The stages are ordered once the handlers of the run's first event have  *)
(* returned: edges added later are for the next run, and left to its end.  *)
(* An edge from a stage to itself changes no order.                        *)
AddEdge(source, target) ==
    /\ result # "running" \/ attempt = Ordering
    /\ source # target /\ Len(edges) < MaxEdges
    /\ edges' = Append(edges, <<source, target>>)
    /\ UNCHANGED <<todo, attempt, holds, ran, told, result, runs>>

TargetsOf(stage) ==
    LET ofStage == SelectSeq(edges, LAMBDA e : e[1] = stage) IN [i \in DOMAIN ofStage |-> ofStage[i][2]]

Walk == [visited : SUBSET Stages, order : Seq(Stages)]

(* A stage is appended after all that is behind it *)
Visit[walk \in Walk, stage \in Stages] ==
    IF stage \in walk.visited THEN walk
    ELSE LET beyond == FoldLeft(LAMBDA w, target : Visit[w, target],
                                [walk EXCEPT !.visited = @ \cup {stage}], TargetsOf(stage))
         IN [beyond EXCEPT !.order = Append(@, stage)]

StagesLeft == FoldLeft(LAMBDA w, stage : Visit[w, stage], [visited |-> {}, order |-> <<>>], [s \in Stages |-> s]).order

(* Mutant: the order in which the stages were left, not its reverse. *)
StagesAsLeft == StagesLeft

OrderedStages == Reverse(StagesLeft)

Run ==
    /\ result # "running" /\ runs < MaxRuns /\ runs' = runs + 1
    /\ attempt' = Ordering /\ holds' = {} /\ ran' = <<>> /\ told' = <<<<"PipelineStarted">>>>
    /\ result' = "running" /\ UNCHANGED <<edges, todo>>

OrderStages ==
    /\ result = "running" /\ attempt = Ordering /\ attempt' = Waiting
    /\ todo' = OrderedStages
    /\ UNCHANGED <<edges, holds, ran, told, result, runs>>

StartStage ==
    /\ result = "running" /\ attempt = Waiting /\ todo # <<>>
    /\ attempt' = 0 /\ told' = Append(told, <<"PipelineStageStarted", Head(todo)>>)
    /\ UNCHANGED <<edges, todo, holds, ran, result, runs>>

Recorded(status) == ran' = Append(ran, [stage |-> Head(todo), status |-> status, retries |-> attempt])

(* The run ends with the result of the stage that failed *)
Fails(event) ==
    /\ Recorded("failed") /\ result' = "failed" /\ attempt' = Waiting /\ todo' = <<>>
    /\ told' = told \o <<<<event, Head(todo)>>, <<"PipelineError", Head(todo)>>>>

Trying == result = "running" /\ attempt <= RetryCount

(* Mutant: the retries are counted from one. *)
RetriesLeftOnce == attempt + 1 < RetryCount

RetriesLeft == attempt + 1 <= RetryCount

(* What an attempt that raises wrote to the context stays there *)
StageRaises ==
    /\ Trying /\ holds' \in {holds, holds \cup {Head(todo)}}
    /\ \/ RetriesLeft /\ attempt' = attempt + 1 /\ UNCHANGED <<todo, ran, told, result>>
       \/ ~RetriesLeft /\ Fails("PipelineStageFailed")
    /\ UNCHANGED <<edges, runs>>

(* A failure that is returned is not tried again, and told as completed    *)
StageReturnsFailure ==
    /\ Trying /\ holds' \in {holds, holds \cup {Head(todo)}}
    /\ Fails("PipelineStageCompleted")
    /\ UNCHANGED <<edges, runs>>

(* Mutant: a context of the stage's own is forgotten. *)
MergedNothing(status) == IF status = "none" THEN {} ELSE holds

(* What the stage returned is merged, be it the same context or another.   *)
(* A chart stage that misses its configuration or candles is skipped.      *)
Merged(status) == IF status = "success" THEN holds \cup {Head(todo)} ELSE holds

StageReturns(status) ==
    /\ Trying /\ Recorded(status) /\ holds' = Merged(status)
    /\ told' = Append(told, <<"PipelineStageCompleted", Head(todo)>>)
    /\ todo' = Tail(todo) /\ attempt' = Waiting
    /\ UNCHANGED <<edges, result, runs>>

RunCompletes ==
    /\ result = "running" /\ attempt = Waiting /\ todo = <<>>
    /\ told' = Append(told, <<"PipelineCompleted">>) /\ result' = "success"
    /\ UNCHANGED <<edges, todo, attempt, holds, ran, runs>>

(* A handler of an event raised: so does run *)
HandlerRaises ==
    /\ result = "running" /\ result' = "raised" /\ todo' = <<>> /\ attempt' = Waiting
    /\ UNCHANGED <<edges, holds, ran, told, runs>>

PipelineNext ==
    \/ \E source, target \in Stages : AddEdge(source, target)
    \/ Run \/ OrderStages \/ StartStage \/ StageRaises \/ StageReturnsFailure
    \/ \E status \in {"success", "skipped"} : StageReturns(status)
    \/ RunCompletes \/ HandlerRaises

PipelineSpec == PipelineInit /\ [][PipelineNext]_pipelineVars

-----------------------------------------------------------------------------
Acyclic(pairs) ==
    \E rank \in [Stages -> Stages] : \A e \in Range(pairs) : rank[e[1]] < rank[e[2]]

(* Where the edges make an order, a stage is tried when all the stages it  *)
(* has an edge from have returned, and what they made is in the context    *)
(* (get_ordered_stages and run).                                           *)
InputsAreReady ==
    Trying /\ Acyclic(edges) => \A e \in Range(edges) : e[2] = Head(todo) =>
        \E i \in DOMAIN ran : /\ ran[i].stage = e[1] /\ ran[i].status # "failed"
                              /\ ran[i].status = "success" => e[1] \in holds

(* Every stage has its turn once, whatever the edges, unless one before it *)
(* failed (run).                                                           *)
StagesRunOnce ==
    /\ \A i, j \in DOMAIN ran : ran[i].stage = ran[j].stage => i = j
    /\ result = "success" => {ran[i].stage : i \in DOMAIN ran} = Stages

(* One that raised was tried RetryCount times more and no stage more       *)
(* often, and the first that fails is the last that runs (_run_stage).     *)
RetriesAsConfigured ==
    /\ \A i \in DOMAIN ran : ran[i].retries <= RetryCount
    /\ \A i \in DOMAIN ran : ran[i].status = "failed" => i = Len(ran) /\ result = "failed"
    /\ result = "failed" /\ told[Len(told) - 1][1] = "PipelineStageFailed" => Last(ran).retries = RetryCount

(* Between the first event of a run and the last, every stage that was     *)
(* started is told to have ended before the next one starts (run).         *)
EventsTellRun == result \in {"success", "failed"} =>
    /\ Len(told) = 2 * Len(ran) + 2
    /\ told[Len(told)][1] = (IF result = "success" THEN "PipelineCompleted" ELSE "PipelineError")
    /\ \A i \in DOMAIN ran :
           /\ told[2 * i] = <<"PipelineStageStarted", ran[i].stage>>
           /\ told[2 * i + 1] \in {<<"PipelineStageCompleted", ran[i].stage>>, <<"PipelineStageFailed", ran[i].stage>>}
=============================================================================
