---------------------------- MODULE AnalyticsRuns ----------------------------
(***************************************************************************)
(* The aggregates of analytics (analytics/domain/entities.py): a report,   *)
(* and the run that makes it.  Neither changes: each operation makes a     *)
(* copy, any copy can be used again, and only a copy that is built by the  *)
(* constructor is checked.                                                 *)
(***************************************************************************)
EXTENDS Integers, Sequences, SequencesExt, FiniteSets

CONSTANTS Members, RunTimes, MaxCopies

VARIABLES
    reports,            \* [status, members, from] of each copy
    runs                \* [status, created, started, completed, report, error, from]

runVars == <<reports, runs>>

Never == -1             \* None, for a time, a report or an error
Statuses == {"created", "running", "completed", "failed"}

RunsTypeOK ==
    /\ \A i \in DOMAIN reports : reports[i].status \in {"draft", "final", "archived"} /\ reports[i].from < i
    /\ \A i \in DOMAIN runs : runs[i].status \in Statuses /\ runs[i].from < i
    /\ Len(reports) + Len(runs) <= MaxCopies + 2

(* AnalyticsRun._validate_lifecycle *)
RunFits(run) ==
    LET ended == run.status \in {"completed", "failed"} IN
    /\ run.started # Never => run.started >= run.created
    /\ run.completed # Never =>
           run.completed >= (IF run.started # Never THEN run.started ELSE run.created)
    /\ run.started # Never <=> run.status # "created"
    /\ run.completed # Never <=> ended
    /\ run.report # Never <=> run.status = "completed"
    /\ run.error # Never <=> run.status = "failed"

(* AnalyticsReport._validate_unique_members *)
ReportFits(report) == IsInjective(report.members)

RunsInit ==
    /\ \E t \in RunTimes : runs = <<[status |-> "created", created |-> t, started |-> Never, completed |-> Never,
                                     report |-> Never, error |-> Never, from |-> 0]>>
    /\ \E m \in Members : reports = <<[status |-> "draft", members |-> <<m>>, from |-> 0]>>

CopyRun(run) ==
    /\ RunFits(run) /\ Len(runs) + Len(reports) < MaxCopies + 2
    /\ runs' = Append(runs, run) /\ UNCHANGED reports
CopyReport(report) ==
    /\ Len(runs) + Len(reports) < MaxCopies + 2
    /\ reports' = Append(reports, report) /\ UNCHANGED runs

StartRun(i, at) ==
    /\ runs[i].status = "created"
    /\ CopyRun([runs[i] EXCEPT !.status = "running", !.started = at, !.from = i])

(* A run that was not started has started when it was created *)
StartOf(run) == IF run.started # Never THEN run.started ELSE run.created

CompleteRun(i, k, at) ==
    /\ runs[i].status \in {"created", "running"}
    /\ CopyRun([runs[i] EXCEPT !.status = "completed", !.started = StartOf(runs[i]), !.completed = at,
                               !.report = k, !.from = i])

(* Mutant: a run that is failed again starts again. *)
FailRestarted(i, at) ==
    /\ runs[i].status # "completed"
    /\ CopyRun([runs[i] EXCEPT !.status = "failed", !.started = runs[i].created, !.completed = at,
                               !.error = at, !.from = i])

(* A run may fail again, with another error *)
FailRun(i, at) ==
    /\ runs[i].status # "completed"
    /\ CopyRun([runs[i] EXCEPT !.status = "failed", !.started = StartOf(runs[i]), !.completed = at,
                               !.error = at, !.from = i])

(* Mutant: an archived report can be made final again. *)
FinalizeAny(i) == CopyReport([reports[i] EXCEPT !.status = "final", !.from = i])

(* add_strategy_analytics, finalize and archive copy without the checks    *)
AddMember(i, m) == CopyReport([reports[i] EXCEPT !.members = Append(@, m), !.from = i])

Finalize(i) ==
    /\ reports[i].status # "archived"
    /\ CopyReport([reports[i] EXCEPT !.status = "final", !.from = i])

Archive(i) == CopyReport([reports[i] EXCEPT !.status = "archived", !.from = i])

(* create_report *)
CreateReport(ms) ==
    LET report == [status |-> "draft", members |-> ms, from |-> 0]
    IN ReportFits(report) /\ CopyReport(report)

RunsNext ==
    \/ \E i \in DOMAIN runs, at \in RunTimes :
           StartRun(i, at) \/ FailRun(i, at) \/ (\E k \in DOMAIN reports : CompleteRun(i, k, at))
    \/ \E i \in DOMAIN reports :
           Finalize(i) \/ Archive(i) \/ (\E m \in Members : AddMember(i, m))
    \/ \E m, n \in Members : CreateReport(<<m, n>>)

RunsSpec == RunsInit /\ [][RunsNext]_runVars

-----------------------------------------------------------------------------
(* The copies that led to one *)
LineOf(copies, i) ==
    LET line[k \in 0..i] == IF k = 0 THEN {} ELSE {k} \cup line[copies[k].from] IN line[i]

(* Whatever copies are used again: a run has started once and ended one    *)
(* way, in the order of its times, and a report that was archived is not   *)
(* published again; a report lists something twice only if it was added    *)
(* to one that was checked (start, complete, fail, finalize, _validate_    *)
(* unique_members).                                                        *)
CopiesKeepHistory ==
    /\ \A i \in DOMAIN runs :
           LET line == {runs[k] : k \in LineOf(runs, i)}
               starts == {r.started : r \in line} \ {Never}
           IN /\ Cardinality(starts) <= 1 /\ \A t \in starts : t >= runs[i].created
              /\ Cardinality({r.created : r \in line}) = 1
              /\ ~({"completed", "failed"} \subseteq {r.status : r \in line})
              /\ Cardinality({r \in line : r.status = "completed"}) <= 1
              /\ runs[i].status = "running" => runs[i].completed = Never
    /\ \A i \in DOMAIN reports :
           LET line == LineOf(reports, i) IN
           /\ \A k \in line : reports[k].status = "archived" /\ k < i => reports[i].status = "archived"
           /\ ~IsInjective(reports[i].members) => \E k \in line : k < i /\ Len(reports[k].members) < Len(reports[i].members)
=============================================================================
