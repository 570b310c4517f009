-------------------------------- MODULE Pipeline --------------------------------
(* main.py and the commands its stages are: build the graph, detect, evaluate, *)
(* report, each reading what the one before left in Neo4j or in a file.  Any   *)
(* command may die at any point, and the next one finds what is left.  What    *)
(* the evaluation makes of a graph is Evaluation's subject; here a result is   *)
(* known by the graph it was computed from, a report by that of its results.   *)
EXTENDS GraphLoad

VARIABLES
  command,  \* the running command, or the last one, and its options
  script,   \* the stages it still has to run, the first one under way
  phase,    \* how far that stage is: "begin", "computed", or its file is "open"
  held,     \* the graph the stage's data in memory come from
  results,  \* eval_results.json
  report,   \* report.md
  outcome,  \* how the last command ended, "running" before it did
  since     \* history: what happened after the last evaluation that returned

fileVars == <<held, results, report>>
pipelineVars == <<command, script, phase, held, results, report, outcome, since>>

\* What detection and scoring read of the database.
GraphOf(d) == [accounts |-> d.accounts, tx |-> d.tx]

\* A file is missing, torn (opened for writing, not written yet) or whole.
Missing  == [state |-> "missing", of |-> GraphOf(Empty)]
Torn     == [state |-> "torn", of |-> GraphOf(Empty)]
Whole(g) == [state |-> "whole", of |-> g]

PipelineInit ==
  /\ Init
  /\ command = [name |-> "none", wipe |-> FALSE]
  /\ script = <<>> /\ phase = "begin" /\ held = GraphOf(Empty)
  /\ results = Missing /\ report = Missing
  /\ outcome = "completed"
  /\ since = {"never"}

--------------------------------------------------------------------------------
(* Commands.                                                                   *)

\* Bugs the runs must notice: the report before the evaluation, results taken for
\* whole when they are only there, and (below) a wipe that does not look at
\* --skip-build.
ReportFirst(skipBuild) ==
  IF skipBuild THEN <<"detect", "report", "metrics">>
  ELSE <<"build", "detect", "report", "metrics">>
ResultsExist == results.state # "missing"

\* main: the stages in order, the first left out by --skip-build.
Stages(skipBuild) ==
  IF skipBuild THEN <<"detect", "metrics", "report">>
  ELSE <<"build", "detect", "metrics", "report">>

Run(name, wipe, stages) ==
  /\ script = <<>>
  /\ command' = [name |-> name, wipe |-> wipe]
  /\ script' = stages
  /\ outcome' = "running"
  /\ since' = IF Head(stages) = "build" THEN since \cup {"build"} ELSE since
  /\ UNCHANGED <<phase, fileVars>>

\* main.py wipes unless told --no-wipe; build_graph.py only when told --wipe.
RunPipeline(p, noWipe) == Run("main", ~noWipe, Stages(FALSE)) /\ Start(p, ~noWipe)

WipeAndSkipBuild ==
  /\ Run("main", FALSE, Stages(TRUE))
  /\ db' = Empty
  /\ UNCHANGED <<plan, stage, pos, verdict, sources>>

RunSkippingBuild == Run("main", FALSE, Stages(TRUE)) /\ UNCHANGED vars

RunBuild(p, wipe) == Run("build", wipe, <<"build">>) /\ Start(p, wipe)

RunAlone(name) == Run(name, FALSE, <<name>>) /\ UNCHANGED vars

--------------------------------------------------------------------------------
(* Stages.                                                                     *)

At(stageName, where) == script # <<>> /\ Head(script) = stageName /\ phase = where

\* The stage returns, and with the last one the command.
Return(left) ==
  /\ script' = left
  /\ phase' = "begin"
  /\ outcome' = IF left = <<>> THEN "completed" ELSE "running"

\* build_graph.main up to its check.
Build ==
  /\ At("build", "begin")
  /\ Wipe \/ Plant \/ LoadBatch \/ NextQuery
  /\ UNCHANGED pipelineVars

\* A mismatch is printed, and the stage returns all the same.
EndBuild ==
  /\ At("build", "begin")
  /\ VerifyLoad
  /\ Return(Tail(script))
  /\ UNCHANGED <<command, fileVars, since>>

\* detection.main prints its candidates and the spot check, and keeps nothing.
DetectAndPrint ==
  /\ At("detect", "begin")
  /\ Return(Tail(script))
  /\ UNCHANGED <<vars, command, fileVars, since>>

\* run_evaluation: candidates and ring tags are read, and hours later scored; the
\* JSON text is complete before the file is opened.
Evaluate ==
  /\ At("metrics", "begin")
  /\ held' = GraphOf(db)
  /\ phase' = "computed"
  /\ UNCHANGED <<vars, command, script, results, report, outcome, since>>

\* report.main exits when there are no results, and json.loads raises when they are
\* torn.
Readable == results.state = "whole"

LoadResults ==
  /\ At("report", "begin")
  /\ Readable
  /\ held' = results.of
  /\ phase' = "computed"
  /\ UNCHANGED <<vars, command, script, results, report, outcome, since>>

RefuseReport ==
  /\ At("report", "begin")
  /\ ~Readable
  /\ script' = <<>>
  /\ outcome' = "refused"
  /\ UNCHANGED <<vars, command, phase, fileVars, since>>

\* write_text: the file is truncated when it is opened.
Open ==
  /\ phase = "computed"
  /\ phase' = "open"
  /\ results' = IF Head(script) = "metrics" THEN Torn ELSE results
  /\ report'  = IF Head(script) = "report" THEN Torn ELSE report
  /\ UNCHANGED <<vars, command, script, held, outcome, since>>

Write ==
  /\ phase = "open"
  /\ results' = IF Head(script) = "metrics" THEN Whole(held) ELSE results
  /\ report'  = IF Head(script) = "report" THEN Whole(held) ELSE report
  /\ held' = GraphOf(Empty)
  /\ since' = IF Head(script) = "metrics" THEN {} ELSE since
  /\ Return(Tail(script))
  /\ UNCHANGED <<vars, command>>

\* The process is killed, or an exception ends it.
Die ==
  /\ script # <<>>
  /\ IF Head(script) = "build" THEN Crash ELSE UNCHANGED vars
  /\ script' = <<>>
  /\ phase' = "begin"
  /\ held' = GraphOf(Empty)
  /\ outcome' = "died"
  /\ since' = IF Head(script) = "metrics" THEN since \cup {"death"} ELSE since
  /\ UNCHANGED <<command, results, report>>

Command ==
  \/ \E p \in Plans, flag \in BOOLEAN : RunPipeline(p, flag) \/ RunBuild(p, flag)
  \/ RunSkippingBuild
  \/ \E name \in {"detect", "metrics", "report"} : RunAlone(name)

Work ==
  \/ Build
  \/ EndBuild
  \/ DetectAndPrint
  \/ Evaluate
  \/ LoadResults
  \/ RefuseReport
  \/ Open
  \/ Write

PipelineNext == Command \/ Work \/ Die

PipelineSpec == PipelineInit /\ [][PipelineNext]_<<vars, pipelineVars>>

--------------------------------------------------------------------------------
(* Properties.                                                                 *)

\* A command that says it is done has done its work on what is there: main's
\* results and report are of the graph in the database, which is the planted one
\* after a wipe; an evaluation's results are of that graph, and a report alone is
\* of the results it found, whatever died before it.
CompletedMeansDone ==
  outcome = "completed" =>
    /\ command.name = "main" =>
         results = Whole(GraphOf(db)) /\ report = Whole(GraphOf(db))
    /\ command.name = "main" /\ command.wipe => db = Image(plan)
    /\ command.name = "metrics" => results = Whole(GraphOf(db))
    /\ command.name = "report" => results.state = "whole" /\ report = results

\* No report is ever rendered from missing or torn results, and one that is left
\* by a command that died or refused is torn or the one there was before.
ReportsComeFromResults ==
  [][report' # report =>
       \/ report' = Torn
       \/ results.state = "whole" /\ report' = results]_<<vars, pipelineVars>>

\* A report is refused only when it is run alone, and only before any evaluation
\* has returned or after one has died since: what other commands do, and a report
\* that died, never cost the results.  Nor does a report run alone look at the
\* database, it renders what it finds: that is of the graph there now unless a build
\* has begun since the last evaluation that returned; dead evaluations, detections
\* and --skip-build leave it true.
LoneReportIsJustified ==
  /\ outcome = "refused" => command.name = "report" /\ since \cap {"never", "death"} # {}
  /\ outcome = "completed" /\ command.name = "report" /\ "build" \notin since =>
       report = Whole(GraphOf(db))

\* MERGE makes equal parallel transactions one.
NoParallels(p) == Cardinality(DOMAIN Image(p).tx) = Len(p.edges)

\* No stage asks what verify_load printed.  Still, when the last build printed PASS,
\* what a command that completed has scored is the planted graph, with --skip-build
\* or alone as well, whatever loads died before; and a wiping main always prints
\* PASS -- for graphs without equal parallel transactions.
PassedIsScored ==
  outcome = "completed" =>
    /\ command.name \in {"main", "metrics"} /\ verdict = "PASS" /\ NoParallels(plan) =>
         results = Whole(GraphOf(Image(plan)))
    /\ command.name = "main" /\ command.wipe /\ NoParallels(plan) => verdict = "PASS"
================================================================================
