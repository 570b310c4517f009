---------------------------- MODULE PipelineProofs -----------------------------
(* What main.py and its stages promise each other holds for every plan, every  *)
(* batch size and every way in which commands may die and be run again.        *)
EXTENDS Pipeline, GraphLoadProofs

--------------------------------------------------------------------------------
(* A build inside the pipeline is a load.                                      *)

LEMMA PipelineStepIsLoadStep ==
  ASSUME [PipelineNext]_<<vars, pipelineVars>>
  PROVE  [Next]_vars
<1>1. ASSUME NEW p \in Plans, NEW flag \in BOOLEAN, RunPipeline(p, flag) \/ RunBuild(p, flag)
      PROVE  Next
  <2>1. Start(p, ~flag) \/ Start(p, flag)
    BY <1>1 DEF RunPipeline, RunBuild
  <2>2. (~flag) \in BOOLEAN
    BY Zenon
  <2> QED BY <2>1, <2>2 DEF Next
<1>2. CASE RunSkippingBuild
  BY <1>2 DEF RunSkippingBuild
<1>3. ASSUME NEW name \in {"detect", "metrics", "report"}, RunAlone(name)
      PROVE  UNCHANGED vars
  BY <1>3 DEF RunAlone
<1>4. CASE Build \/ EndBuild
  BY <1>4 DEF Build, EndBuild, Next
<1>5. CASE DetectAndPrint \/ Evaluate \/ LoadResults \/ RefuseReport \/ Open \/ Write
  BY <1>5 DEF DetectAndPrint, Evaluate, LoadResults, RefuseReport, Open, Write
<1>6. CASE Die
  BY <1>6 DEF Die, Next
<1>7. CASE UNCHANGED <<vars, pipelineVars>>
  BY <1>7
<1> QED BY <1>1, <1>2, <1>3, <1>4, <1>5, <1>6, <1>7 DEF PipelineNext, Command, Work

--------------------------------------------------------------------------------
(* The inductive invariant.                                                    *)

\* What a command may still have to run.
ScriptsOf(name) ==
  CASE name = "none" -> {<<>>}
    [] name = "main" -> {<<"build", "detect", "metrics", "report">>,
                         <<"detect", "metrics", "report">>, <<"metrics", "report">>,
                         <<"report">>, <<>>}
    [] name \notin {"none", "main"} -> {<<name>>, <<>>}

\* The stage under way.
Now == IF script = <<>> THEN "none" ELSE Head(script)

Names == {"none", "main", "build", "detect", "metrics", "report"}

\* A command and its script fit, as do a stage and its phase, and a file is missing,
\* torn or whole.
ScriptFits ==
  /\ command = [name |-> command.name, wipe |-> command.wipe]
  /\ command.name \in Names
  /\ script \in ScriptsOf(command.name)
  /\ phase \in {"begin", "computed", "open"}
  /\ phase # "begin" => Now \in {"metrics", "report"}
  /\ outcome = "running" <=> script # <<>>
  /\ results.state \in {"missing", "torn", "whole"}
  /\ report.state \in {"missing", "torn", "whole"}
  /\ results = [state |-> results.state, of |-> results.of]

\* What a stage holds in memory is of the database as it is, or of the results file.
HeldIsCurrent ==
  phase # "begin" =>
    /\ Now = "metrics" => held = GraphOf(db)
    /\ Now = "report" => results = Whole(held)

\* Under main the results a report is made of are those of this database.
ResultsAreMains ==
  command.name = "main" /\ Now = "report" => results = Whole(GraphOf(db))

\* The plan of the last build is loaded, with nothing else.
WipedAndLoaded == stage = "done" /\ sources = {plan} /\ db = Image(plan)

\* A wiping main starts from nothing, loads its plan before anything reads it, and
\* its build runs to the end.
WipedBuild ==
  command.name = "main" /\ command.wipe =>
    /\ Now = "build" => \/ stage = "wipe"
                        \/ stage = "plant" /\ sources = {}
                        \/ stage \notin {"idle", "wipe", "plant"} /\ sources = {plan}
    /\ Now \in {"detect", "metrics", "report"} => WipedAndLoaded
    /\ outcome = "completed" => WipedAndLoaded

\* No build has a verdict before its end.
VerdictComesLast == verdict # "none" => stage = "done"

\* Results are missing before the first evaluation has returned, and torn when one
\* is writing or has died.
ResultsAreThere ==
  /\ results.state = "missing" => "never" \in since
  /\ results.state = "torn" =>
       \/ since \cap {"never", "death"} # {}
       \/ Now = "metrics" /\ phase = "open"

\* Results are of this database until a build begins.
ResultsAreCurrent ==
  /\ Now = "build" => "build" \in since
  /\ "build" \notin since => results \in {Missing, Torn, Whole(GraphOf(db))}

\* A refusal has a cause, and a completed lone report is of this database until then.
RefusedForCause ==
  outcome = "refused" => command.name = "report" /\ since \cap {"never", "death"} # {}

StaleOnlyAfterABuild ==
  outcome = "completed" /\ command.name = "report" /\ "build" \notin since =>
    report = Whole(GraphOf(db))

PipelineInv ==
  /\ LoadInv
  /\ ScriptFits
  /\ HeldIsCurrent
  /\ ResultsAreMains
  /\ WipedBuild
  /\ VerdictComesLast
  /\ ResultsAreThere
  /\ ResultsAreCurrent
  /\ CompletedMeansDone
  /\ RefusedForCause
  /\ StaleOnlyAfterABuild

--------------------------------------------------------------------------------
(* Scripts.                                                                    *)

\* The stage that follows.
Following(name, now) ==
  IF name # "main" THEN "none"
  ELSE CASE now = "build" -> "detect" [] now = "detect" -> "metrics"
         [] now = "metrics" -> "report" [] now = "report" -> "none"

NowOf(s) == IF s = <<>> THEN "none" ELSE Head(s)

LEMMA TailFits ==
  ASSUME NEW name \in Names, NEW s \in ScriptsOf(name), s # <<>>
  PROVE  /\ Tail(s) \in ScriptsOf(name)
         /\ NowOf(Tail(s)) = Following(name, Head(s))
         /\ Head(s) \in {"build", "detect", "metrics", "report"}
         /\ name # "main" => Head(s) = name
<1>1. CASE name = "main"
  <2>1. CASE s = <<"build", "detect", "metrics", "report">>
    <3>1. Tail(s) = <<"detect", "metrics", "report">> /\ Head(s) = "build"
      BY <2>1
    <3>2. Head(<<"detect", "metrics", "report">>) = "detect"
          /\ <<"detect", "metrics", "report">> # <<>>
      OBVIOUS
    <3>3. NowOf(Tail(s)) = Following(name, Head(s))
      BY <1>1, <3>1, <3>2, Zenon DEF NowOf, Following
    <3>4. Tail(s) \in ScriptsOf(name)
      BY <1>1, <3>1 DEF ScriptsOf
    <3> QED BY <1>1, <3>1, <3>3, <3>4, Zenon
  <2>2. CASE s = <<"detect", "metrics", "report">>
    <3>1. Tail(s) = <<"metrics", "report">> /\ Head(s) = "detect"
      BY <2>2
    <3>2. Head(<<"metrics", "report">>) = "metrics" /\ <<"metrics", "report">> # <<>>
      OBVIOUS
    <3>3. NowOf(Tail(s)) = Following(name, Head(s))
      BY <1>1, <3>1, <3>2 DEF NowOf, Following
    <3>4. Tail(s) \in ScriptsOf(name)
      BY <1>1, <3>1 DEF ScriptsOf
    <3> QED BY <1>1, <3>1, <3>3, <3>4, Zenon
  <2>3. CASE s = <<"metrics", "report">>
    <3>1. Tail(s) = <<"report">> /\ Head(s) = "metrics"
      BY <2>3
    <3> QED BY <1>1, <3>1 DEF ScriptsOf, NowOf, Following
  <2>4. CASE s = <<"report">>
    <3>1. Tail(s) = <<>> /\ Head(s) = "report"
      BY <2>4
    <3> QED BY <1>1, <3>1 DEF ScriptsOf, NowOf, Following
  <2> QED BY <1>1, <2>1, <2>2, <2>3, <2>4 DEF ScriptsOf
<1>2. CASE name # "main"
  <2>1. s = <<name>> /\ name # "none"
    BY <1>2 DEF ScriptsOf
  <2>2. Tail(s) = <<>> /\ Head(s) = name
    BY <2>1
  <2> QED BY <1>2, <2>1, <2>2 DEF ScriptsOf, NowOf, Following, Names
<1> QED BY <1>1, <1>2

--------------------------------------------------------------------------------
(* What a step does to the script.                                             *)

LEMMA NowFacts ==
  ASSUME ScriptFits, script # <<>>
  PROVE  /\ Now = Head(script)
         /\ Now \in {"build", "detect", "metrics", "report"}
         /\ command.name # "main" => Now = command.name
         /\ outcome = "running"
BY TailFits DEF ScriptFits, Now

\* A command begins with its first stage.
LEMMA RunFacts ==
  ASSUME ScriptFits,
         NEW name \in Names, NEW wipe, NEW stages \in ScriptsOf(name), stages # <<>>,
         Run(name, wipe, stages)
  PROVE  /\ ScriptFits'
         /\ command'.name = name /\ command'.wipe = wipe
         /\ Now' = Head(stages)
         /\ phase' = "begin"
         /\ outcome' = "running"
         /\ UNCHANGED <<held, results, report>>
         /\ phase = "begin"
         /\ since' = IF Head(stages) = "build" THEN since \cup {"build"} ELSE since
<1>1. phase = "begin"
  BY DEF ScriptFits, Run, Now
<1>2. /\ command' = [name |-> name, wipe |-> wipe]
      /\ script' = stages
      /\ outcome' = "running"
      /\ UNCHANGED <<phase, held, results, report>>
      /\ since' = IF Head(stages) = "build" THEN since \cup {"build"} ELSE since
  BY DEF Run, fileVars
<1>3. Now' = Head(stages)
  BY <1>2 DEF Now
<1> QED BY <1>1, <1>2, <1>3 DEF ScriptFits

\* A stage that returns is followed by the next one, and the last one by the end.
LEMMA ReturnFacts ==
  ASSUME ScriptFits, script # <<>>, Return(Tail(script)), UNCHANGED command
  PROVE  /\ Now' = Following(command.name, Now)
         /\ script' \in ScriptsOf(command.name)
         /\ phase' = "begin"
         /\ outcome' = "running" <=> script' # <<>>
         /\ outcome' = "completed" => Now' = "none"
<1>1. /\ Tail(script) \in ScriptsOf(command.name)
      /\ NowOf(Tail(script)) = Following(command.name, Head(script))
  BY TailFits DEF ScriptFits
<1>2. /\ script' = Tail(script)
      /\ phase' = "begin"
      /\ outcome' = IF script' = <<>> THEN "completed" ELSE "running"
  BY DEF Return
<1>3. Now' = NowOf(Tail(script))
  BY <1>2 DEF Now, NowOf
<1>4. outcome' = "completed" => Now' = "none"
  BY <1>2 DEF Now
<1> QED BY <1>1, <1>2, <1>3, <1>4, NowFacts

\* The file operations, by the stage they serve.
LEMMA OpenFacts ==
  ASSUME ScriptFits, Open
  PROVE  /\ Now \in {"metrics", "report"} /\ script # <<>>
         /\ Now' = Now
         /\ UNCHANGED <<vars, command, script, held, outcome, since>>
         /\ phase = "computed" /\ phase' = "open"
         /\ Now = "metrics" => results' = Torn /\ report' = report
         /\ Now = "report" => results' = results /\ report' = Torn
<1>1. /\ phase = "computed" /\ phase' = "open"
      /\ UNCHANGED <<vars, command, script, held, outcome, since>>
      /\ results' = IF Head(script) = "metrics" THEN Torn ELSE results
      /\ report'  = IF Head(script) = "report" THEN Torn ELSE report
  BY DEF Open
<1>2. Now \in {"metrics", "report"} /\ script # <<>>
  BY <1>1 DEF ScriptFits, Now
<1>3. Now' = Now /\ Now = Head(script)
  BY <1>1, <1>2 DEF Now
<1> QED BY <1>1, <1>2, <1>3

LEMMA WriteFacts ==
  ASSUME ScriptFits, Write
  PROVE  /\ Now \in {"metrics", "report"} /\ script # <<>>
         /\ Now' = Following(command.name, Now)
         /\ UNCHANGED <<vars, command>>
         /\ phase = "open"
         /\ Now = "metrics" => results' = Whole(held) /\ report' = report
         /\ Now = "report" => results' = results /\ report' = Whole(held)
         /\ since' = IF Now = "metrics" THEN {} ELSE since
<1>1. /\ phase = "open"
      /\ UNCHANGED <<vars, command>>
      /\ Return(Tail(script))
      /\ results' = IF Head(script) = "metrics" THEN Whole(held) ELSE results
      /\ report'  = IF Head(script) = "report" THEN Whole(held) ELSE report
      /\ since' = IF Head(script) = "metrics" THEN {} ELSE since
  BY DEF Write
<1>2. Now \in {"metrics", "report"} /\ script # <<>>
  BY <1>1 DEF ScriptFits, Now
<1>3. Now = Head(script)
  BY <1>2 DEF Now
<1> QED BY <1>1, <1>2, <1>3, ReturnFacts

--------------------------------------------------------------------------------
(* Every step keeps the invariant, one conjunct at a time.                     *)

\* A command that starts, with the load it starts or none.
LEMMA CommandFacts ==
  ASSUME ScriptFits, Command
  PROVE  /\ ScriptFits'
         /\ Now' \in {"build", "detect", "metrics", "report"}
         /\ command'.name = "main" => Now' \in {"build", "detect"}
         /\ command'.name = "main" /\ command'.wipe => Now' = "build" /\ stage' = "wipe"
         /\ phase = "begin" /\ phase' = "begin"
         /\ outcome' = "running"
         /\ UNCHANGED results
         /\ Now' = "build" => since' = since \cup {"build"}
         /\ Now' # "build" => UNCHANGED <<vars, since>>
<1>1. ASSUME NEW p \in Plans, NEW flag \in BOOLEAN, RunPipeline(p, flag)
      PROVE  /\ ScriptFits' /\ phase' = "begin" /\ outcome' = "running"
             /\ command'.name = "main" /\ Now' = "build"
             /\ command'.wipe => stage' = "wipe"
             /\ phase = "begin" /\ UNCHANGED results /\ since' = since \cup {"build"}
  <2>1. Run("main", ~flag, Stages(FALSE)) /\ Start(p, ~flag)
    BY <1>1 DEF RunPipeline
  <2>2. Stages(FALSE) \in ScriptsOf("main") /\ Stages(FALSE) # <<>> /\ Head(Stages(FALSE)) = "build"
    BY DEF Stages, ScriptsOf
  <2>5. ASSUME NEW wipe, Run("main", wipe, Stages(FALSE))
        PROVE  /\ ScriptFits' /\ phase' = "begin" /\ outcome' = "running"
               /\ command'.name = "main" /\ command'.wipe = wipe /\ Now' = "build"
               /\ phase = "begin" /\ UNCHANGED results /\ since' = since \cup {"build"}
    <3>1. Stages(FALSE) # <<>> /\ "main" \in Names
      BY <2>2 DEF Names
    <3> DEFINE stages == Stages(FALSE)
    <3> HIDE DEF stages
    <3>2. /\ ScriptFits' /\ phase' = "begin" /\ outcome' = "running"
          /\ command'.name = "main" /\ command'.wipe = wipe /\ Now' = Head(stages)
          /\ phase = "begin" /\ UNCHANGED results
          /\ since' = IF Head(stages) = "build" THEN since \cup {"build"} ELSE since
      BY <2>2, <2>5, <3>1, RunFacts DEF stages
    <3> QED BY <2>2, <3>2 DEF stages
  <2>3. /\ ScriptFits' /\ phase' = "begin" /\ outcome' = "running"
        /\ command'.name = "main" /\ command'.wipe = ~flag /\ Now' = "build"
        /\ phase = "begin" /\ UNCHANGED results /\ since' = since \cup {"build"}
    BY <2>1, <2>5, Zenon
  <2>4. ~flag => stage' = "wipe"
    BY <2>1 DEF Start
  <2> QED BY <2>3, <2>4
<1>2. ASSUME NEW p \in Plans, NEW flag \in BOOLEAN, RunBuild(p, flag)
      PROVE  /\ ScriptFits' /\ phase' = "begin" /\ outcome' = "running"
             /\ command'.name = "build" /\ Now' = "build"
             /\ phase = "begin" /\ UNCHANGED results /\ since' = since \cup {"build"}
  <2>1. Run("build", flag, <<"build">>)
    BY <1>2 DEF RunBuild
  <2>2. <<"build">> \in ScriptsOf("build") /\ <<"build">> # <<>> /\ Head(<<"build">>) = "build"
    BY DEF ScriptsOf
  <2> QED BY <2>1, <2>2, RunFacts DEF Names
<1>3. ASSUME RunSkippingBuild
      PROVE  /\ ScriptFits' /\ phase' = "begin" /\ outcome' = "running"
             /\ command'.name = "main" /\ command'.wipe = FALSE /\ Now' = "detect"
             /\ phase = "begin" /\ UNCHANGED <<results, vars, since>>
  <2>1. Run("main", FALSE, Stages(TRUE)) /\ UNCHANGED vars
    BY <1>3 DEF RunSkippingBuild
  <2>2. Stages(TRUE) \in ScriptsOf("main") /\ Stages(TRUE) # <<>> /\ Head(Stages(TRUE)) = "detect"
    BY DEF Stages, ScriptsOf
  <2>3. "main" \in Names
    BY DEF Names
  <2> DEFINE stages == Stages(TRUE)
  <2> HIDE DEF stages
  <2>4. /\ ScriptFits' /\ phase' = "begin" /\ outcome' = "running"
        /\ command'.name = "main" /\ command'.wipe = FALSE /\ Now' = Head(stages)
        /\ phase = "begin" /\ UNCHANGED results
        /\ since' = IF Head(stages) = "build" THEN since \cup {"build"} ELSE since
    BY <2>1, <2>2, <2>3, RunFacts DEF stages
  <2>5. since' = since
    BY <2>2, <2>4 DEF stages
  <2> QED BY <2>1, <2>2, <2>4, <2>5 DEF stages
<1>4. ASSUME NEW name \in {"detect", "metrics", "report"}, RunAlone(name)
      PROVE  /\ ScriptFits' /\ phase' = "begin" /\ outcome' = "running"
             /\ command'.name = name /\ Now' = name
             /\ phase = "begin" /\ UNCHANGED <<results, vars, since>>
  <2>1. Run(name, FALSE, <<name>>) /\ UNCHANGED vars
    BY <1>4 DEF RunAlone
  <2>2. <<name>> \in ScriptsOf(name) /\ <<name>> # <<>> /\ Head(<<name>>) = name
    BY DEF ScriptsOf
  <2> QED BY <2>1, <2>2, RunFacts DEF Names
<1> QED BY <1>1, <1>2, <1>3, <1>4 DEF Command

LEMMA ScriptFitsStep ==
  ASSUME ScriptFits, PipelineNext
  PROVE  ScriptFits'
<1>1. CASE Command
  BY <1>1, CommandFacts
<1>2. CASE Build
  BY <1>2 DEF Build, pipelineVars, fileVars, ScriptFits, Now
<1>3. CASE EndBuild \/ DetectAndPrint
  <2>1. /\ script # <<>> /\ Return(Tail(script))
        /\ UNCHANGED <<command, results, report>>
    BY <1>3 DEF EndBuild, DetectAndPrint, At, fileVars
  <2> QED BY <2>1, ReturnFacts DEF ScriptFits
<1>4. CASE Evaluate
  <2>1. /\ Now = "metrics" /\ phase' = "computed"
        /\ UNCHANGED <<command, script, results, report, outcome>>
    BY <1>4 DEF Evaluate, At, Now
  <2>2. Now' = "metrics"
    BY <2>1 DEF Now
  <2> QED BY <2>1, <2>2 DEF ScriptFits
<1>5. CASE LoadResults
  <2>1. /\ Now = "report" /\ phase' = "computed"
        /\ UNCHANGED <<command, script, results, report, outcome>>
    BY <1>5 DEF LoadResults, At, Now
  <2>2. Now' = "report"
    BY <2>1 DEF Now
  <2> QED BY <2>1, <2>2 DEF ScriptFits
<1>6. CASE RefuseReport \/ Die
  <2>1. /\ script # <<>> /\ script' = <<>> /\ phase' = "begin" /\ outcome' # "running"
        /\ UNCHANGED <<command, results, report>>
    BY <1>6 DEF RefuseReport, Die, At, fileVars
  <2>2. command.name # "none" /\ <<>> \in ScriptsOf(command.name)
    BY <2>1 DEF ScriptFits, ScriptsOf, Names
  <2> QED BY <2>1, <2>2 DEF ScriptFits
<1>7. CASE Open
  <2>1. /\ Now' = Now /\ Now \in {"metrics", "report"} /\ phase' = "open"
        /\ UNCHANGED <<command, script, outcome>>
        /\ results' \in {results, Torn} /\ report' \in {report, Torn}
    BY <1>7, OpenFacts
  <2> QED BY <2>1 DEF ScriptFits, Torn
<1>8. CASE Write
  <2>1. Return(Tail(script)) /\ UNCHANGED command
    BY <1>8 DEF Write
  <2>2. /\ script # <<>>
        /\ results' \in {results, Whole(held)} /\ report' \in {report, Whole(held)}
    BY <1>8, WriteFacts
  <2> QED BY <2>1, <2>2, ReturnFacts DEF ScriptFits, Whole
<1> QED BY <1>1, <1>2, <1>3, <1>4, <1>5, <1>6, <1>7, <1>8 DEF PipelineNext, Work


LEMMA HeldIsCurrentStep ==
  ASSUME PipelineInv, PipelineNext
  PROVE  HeldIsCurrent'
<1> USE DEF PipelineInv
<1>1. CASE Command
  BY <1>1, CommandFacts DEF HeldIsCurrent
<1>2. CASE Build
  BY <1>2 DEF Build, At, pipelineVars, HeldIsCurrent
<1>3. CASE EndBuild \/ DetectAndPrint \/ RefuseReport \/ Write \/ Die
  <2>1. phase' = "begin"
    BY <1>3 DEF EndBuild, DetectAndPrint, RefuseReport, Write, Die, Return, At
  <2> QED BY <2>1 DEF HeldIsCurrent
<1>4. CASE Evaluate
  <2>1. Now' = "metrics" /\ held' = GraphOf(db) /\ db' = db
    BY <1>4 DEF Evaluate, At, Now, vars
  <2>2. GraphOf(db') = GraphOf(db)
    BY <2>1
  <2> QED BY <2>1, <2>2 DEF HeldIsCurrent
<1>5. CASE LoadResults
  <2>1. Now' = "report" /\ results.state = "whole" /\ held' = results.of /\ results' = results
    BY <1>5 DEF LoadResults, At, Now, Readable
  <2>2. results = Whole(results.of)
    BY <2>1 DEF ScriptFits, Whole
  <2> QED BY <2>1, <2>2 DEF HeldIsCurrent, Whole
<1>6. CASE Open
  <2>1. /\ Now' = Now /\ phase # "begin" /\ UNCHANGED <<vars, held>>
        /\ Now = "report" => results' = results
    BY <1>6, OpenFacts
  <2>2. GraphOf(db') = GraphOf(db)
    BY <2>1 DEF vars
  <2> QED BY <2>1, <2>2 DEF HeldIsCurrent, Whole
<1> QED BY <1>1, <1>2, <1>3, <1>4, <1>5, <1>6 DEF PipelineNext, Work

LEMMA ResultsAreMainsStep ==
  ASSUME PipelineInv, PipelineNext
  PROVE  ResultsAreMains'
<1> USE DEF PipelineInv
<1> SUFFICES ASSUME command'.name = "main", Now' = "report"
             PROVE  results' = Whole(GraphOf(db'))
  BY DEF ResultsAreMains
<1>1. CASE Command
  BY <1>1, CommandFacts
<1>2. CASE Build
  BY <1>2 DEF Build, At, pipelineVars, Now
<1>3. CASE EndBuild \/ DetectAndPrint
  <2>1. /\ script # <<>> /\ Return(Tail(script)) /\ Now \in {"build", "detect"}
        /\ UNCHANGED command
    BY <1>3 DEF EndBuild, DetectAndPrint, At, Now
  <2> QED BY <2>1, ReturnFacts DEF Following
<1>4. CASE Evaluate
  BY <1>4 DEF Evaluate, At, Now
<1>5. CASE RefuseReport \/ Die
  BY <1>5 DEF RefuseReport, Die, Now
<1>6. CASE LoadResults
  BY <1>6 DEF LoadResults, ResultsAreMains, Now, vars
<1>7. CASE Open
  BY <1>7, OpenFacts DEF ResultsAreMains, vars
<1>8. CASE Write
  <2>1. /\ Now \in {"metrics", "report"}
        /\ Now' = Following(command.name, Now)
        /\ command' = command /\ db' = db /\ phase = "open"
        /\ Now = "metrics" => results' = Whole(held)
    BY <1>8, WriteFacts DEF vars
  <2>2. Now = "metrics"
    BY <2>1 DEF Following
  <2>3. held = GraphOf(db)
    BY <2>1, <2>2 DEF HeldIsCurrent
  <2> QED BY <2>1, <2>2, <2>3
<1> QED BY <1>1, <1>2, <1>3, <1>4, <1>5, <1>6, <1>7, <1>8 DEF PipelineNext, Work

LEMMA WipedBuildStep ==
  ASSUME PipelineInv, PipelineNext
  PROVE  WipedBuild'
<1> USE DEF PipelineInv
<1> SUFFICES ASSUME command'.name = "main", command'.wipe
             PROVE  /\ Now' = "build" => \/ stage' = "wipe"
                                         \/ stage' = "plant" /\ sources' = {}
                                         \/ /\ stage' \notin {"idle", "wipe", "plant"}
                                            /\ sources' = {plan'}
                    /\ Now' \in {"detect", "metrics", "report"} => WipedAndLoaded'
                    /\ outcome' = "completed" => WipedAndLoaded'
  BY DEF WipedBuild
<1>1. CASE Command
  BY <1>1, CommandFacts
<1>2. CASE Build
  <2>1. /\ Now = "build" /\ Now' = "build" /\ command' = command /\ outcome' = outcome
        /\ script # <<>>
        /\ Wipe \/ Plant \/ LoadBatch \/ NextQuery
    BY <1>2 DEF Build, At, Now, pipelineVars
  <2>2. \/ stage = "wipe"
        \/ stage = "plant" /\ sources = {}
        \/ stage \notin {"idle", "wipe", "plant"} /\ sources = {plan}
    BY <2>1 DEF WipedBuild
  <2>3. outcome' # "completed"
    BY <2>1, NowFacts
  <2>4. \/ stage' = "wipe"
        \/ stage' = "plant" /\ sources' = {}
        \/ stage' \notin {"idle", "wipe", "plant"} /\ sources' = {plan'}
    <3>1. CASE Wipe
      BY <3>1 DEF Wipe
    <3>2. CASE Plant
      BY <2>2, <3>2 DEF Plant
    <3>3. CASE LoadBatch
      BY <2>2, <3>3 DEF LoadBatch, Queries
    <3>4. CASE NextQuery
      BY <2>2, <3>4 DEF NextQuery, Queries, After
    <3> QED BY <2>1, <3>1, <3>2, <3>3, <3>4
  <2> QED BY <2>1, <2>3, <2>4
<1>3. CASE EndBuild
  <2>1. /\ script # <<>> /\ Return(Tail(script)) /\ Now = "build" /\ command' = command
        /\ VerifyLoad
    BY <1>3 DEF EndBuild, At, Now
  <2>2. Now' = "detect"
    BY <2>1, ReturnFacts DEF Following
  <2>3. stage = "verify" /\ stage' = "done" /\ UNCHANGED <<plan, db, sources>>
    BY <2>1 DEF VerifyLoad
  <2>4. sources = {plan}
    BY <2>1, <2>3 DEF WipedBuild
  <2>5. db = Image(plan)
    BY <2>3, <2>4, LoadInvIsExact DEF LoadIsExact, Loaded
  <2>6. Image(plan') = Image(plan)
    BY <2>3
  <2> QED BY <2>2, <2>3, <2>4, <2>5, <2>6 DEF WipedAndLoaded
<1>4. CASE DetectAndPrint \/ Evaluate \/ LoadResults \/ Open \/ Write
  <2>1. /\ Now \in {"detect", "metrics", "report"}
        /\ Now' # "build"
        /\ UNCHANGED <<plan, db, command, stage, sources>>
    <3>1. CASE DetectAndPrint
      <4>1. script # <<>> /\ Return(Tail(script)) /\ Now = "detect" /\ UNCHANGED <<plan, db, command, stage, sources>>
        BY <3>1 DEF DetectAndPrint, At, Now, vars
      <4> QED BY <4>1, ReturnFacts DEF Following
    <3>2. CASE Evaluate
      BY <3>2 DEF Evaluate, At, Now, vars
    <3>3. CASE LoadResults
      BY <3>3 DEF LoadResults, At, Now, vars
    <3>4. CASE Open
      BY <3>4, OpenFacts DEF vars
    <3>5. CASE Write
      <4>1. /\ Now \in {"metrics", "report"} /\ Now' = Following(command.name, Now)
            /\ UNCHANGED <<plan, db, command, stage, sources>>
        BY <3>5, WriteFacts DEF vars
      <4> QED BY <4>1 DEF Following
    <3> QED BY <1>4, <3>1, <3>2, <3>3, <3>4, <3>5
  <2>2. WipedAndLoaded
    BY <2>1 DEF WipedBuild
  <2>3. Image(plan') = Image(plan)
    BY <2>1
  <2> QED BY <2>1, <2>2, <2>3 DEF WipedAndLoaded
<1>5. CASE RefuseReport \/ Die
  BY <1>5 DEF RefuseReport, Die, Now
<1> QED BY <1>1, <1>2, <1>3, <1>4, <1>5 DEF PipelineNext, Work

LEMMA CompletedStep ==
  ASSUME PipelineInv, PipelineNext
  PROVE  CompletedMeansDone'
<1> USE DEF PipelineInv
<1>0. ScriptFits'
  BY ScriptFitsStep
<1>1. CASE Command
  BY <1>1, CommandFacts DEF CompletedMeansDone
<1>2. CASE Build \/ Evaluate \/ LoadResults \/ Open
  <2>1. script # <<>> /\ outcome' = outcome
    BY <1>2, OpenFacts DEF Build, Evaluate, LoadResults, At, pipelineVars
  <2> QED BY <2>1 DEF ScriptFits, CompletedMeansDone
<1>3. CASE EndBuild \/ DetectAndPrint
  <2>1. /\ script # <<>> /\ Return(Tail(script)) /\ Now \in {"build", "detect"}
        /\ command' = command
    BY <1>3 DEF EndBuild, DetectAndPrint, At, Now
  <2>2. /\ Now' = Following(command.name, Now)
        /\ outcome' = "completed" => Now' = "none"
        /\ command.name # "main" => Now = command.name
    BY <2>1, ReturnFacts, NowFacts
  <2>3. outcome' = "completed" => command'.name \in {"build", "detect"}
    BY <2>1, <2>2 DEF Following
  <2> QED BY <2>3 DEF CompletedMeansDone
<1>4. CASE RefuseReport \/ Die
  BY <1>4 DEF RefuseReport, Die, CompletedMeansDone
<1>5. CASE Write
  <2>1. /\ Now \in {"metrics", "report"} /\ script # <<>> /\ phase = "open"
        /\ Now' = Following(command.name, Now)
        /\ UNCHANGED <<plan, db, command>>
        /\ Now = "metrics" => results' = Whole(held) /\ report' = report
        /\ Now = "report" => results' = results /\ report' = Whole(held)
    BY <1>5, WriteFacts DEF vars
  <2>2. /\ outcome' = "completed" => Now' = "none"
        /\ command.name # "main" => Now = command.name
    BY <1>5, <2>1, ReturnFacts, NowFacts DEF Write
  <2>3. GraphOf(db') = GraphOf(db) /\ Image(plan') = Image(plan)
    BY <2>1
  <2>4. CASE Now = "metrics"
    <3>1. results' = Whole(GraphOf(db'))
      BY <2>1, <2>3, <2>4 DEF HeldIsCurrent
    <3>2. outcome' = "completed" => command'.name = "metrics"
      BY <2>1, <2>2, <2>4 DEF Following
    <3> QED BY <3>1, <3>2 DEF CompletedMeansDone
  <2>5. CASE Now = "report"
    <3>1. results = Whole(held) /\ results' = results /\ report' = results'
      BY <2>1, <2>5 DEF HeldIsCurrent
    <3>2. results'.state = "whole"
      BY <3>1 DEF Whole
    <3>3. command'.name = "main" => results' = Whole(GraphOf(db')) /\ report' = Whole(GraphOf(db'))
      BY <2>1, <2>3, <2>5, <3>1 DEF ResultsAreMains
    <3>4. command'.name = "main" /\ command'.wipe => db' = Image(plan')
      BY <2>1, <2>3, <2>5 DEF WipedBuild, WipedAndLoaded
    <3>5. command'.name # "metrics"
      BY <2>1, <2>2, <2>5
    <3> QED BY <3>1, <3>2, <3>3, <3>4, <3>5 DEF CompletedMeansDone
  <2> QED BY <2>1, <2>4, <2>5
<1> QED BY <1>1, <1>2, <1>3, <1>4, <1>5 DEF PipelineNext, Work

\* A verdict is printed when the build is at its end, and forgotten with the next.
LEMMA VerdictComesLastStep ==
  ASSUME VerdictComesLast, [Next]_vars
  PROVE  VerdictComesLast'
<1>1. CASE Wipe \/ Plant \/ LoadBatch \/ NextQuery \/ Crash
  <2>1. stage # "done" /\ verdict' = verdict
    BY <1>1 DEF Wipe, Plant, LoadBatch, NextQuery, Crash, Queries
  <2> QED BY <2>1 DEF VerdictComesLast
<1>2. CASE VerifyLoad
  BY <1>2 DEF VerifyLoad, VerdictComesLast
<1>3. ASSUME NEW p \in Plans, NEW wipe \in BOOLEAN, Start(p, wipe) PROVE verdict' = "none"
  BY <1>3 DEF Start
<1>4. CASE UNCHANGED vars
  BY <1>4 DEF vars, VerdictComesLast
<1> QED BY <1>1, <1>2, <1>3, <1>4 DEF Next, VerdictComesLast

\* Steps that leave the results, by what they read of the state.
LEMMA ResultsKept ==
  ASSUME PipelineNext, ScriptFits, ~Open, ~Write
  PROVE  /\ results' = results
         /\ phase = "begin" \/ Die
         /\ since \subseteq since'
<1>1. CASE Command
  BY <1>1, CommandFacts
<1>2. CASE Build \/ EndBuild \/ DetectAndPrint \/ Evaluate \/ LoadResults \/ RefuseReport
  BY <1>2 DEF Build, EndBuild, DetectAndPrint, Evaluate, LoadResults, RefuseReport, At,
              pipelineVars, fileVars
<1>3. CASE Die
  BY <1>3 DEF Die
<1> QED BY <1>1, <1>2, <1>3 DEF PipelineNext, Work

LEMMA ResultsAreThereStep ==
  ASSUME PipelineInv, PipelineNext
  PROVE  ResultsAreThere'
<1> USE DEF PipelineInv
<1>1. CASE Open
  BY <1>1, OpenFacts DEF ResultsAreThere, Torn
<1>2. CASE Write
  BY <1>2, WriteFacts DEF ResultsAreThere, Whole
<1>3. CASE Die
  <2>1. /\ results' = results
        /\ Now = "metrics" => since' = since \cup {"death"}
        /\ since \subseteq since'
    BY <1>3 DEF Die, Now
  <2> QED BY <2>1 DEF ResultsAreThere
<1>4. CASE ~Open /\ ~Write /\ ~Die
  BY <1>4, ResultsKept DEF ResultsAreThere
<1> QED BY <1>1, <1>2, <1>3, <1>4

LEMMA ResultsAreCurrentStep ==
  ASSUME PipelineInv, PipelineNext
  PROVE  ResultsAreCurrent'
<1> USE DEF PipelineInv
<1>1. CASE Command
  <2>1. CASE Now' = "build"
    BY <1>1, <2>1, CommandFacts DEF ResultsAreCurrent
  <2>2. CASE Now' # "build"
    <3>1. /\ results' = results /\ since' = since /\ db' = db
      BY <1>1, <2>2, CommandFacts DEF vars
    <3>2. GraphOf(db') = GraphOf(db)
      BY <3>1
    <3> QED BY <2>2, <3>1, <3>2 DEF ResultsAreCurrent, Missing, Torn, Whole
  <2> QED BY <2>1, <2>2
<1>2. CASE Now = "build" /\ ~Command
  <2>1. since' = since
    <3>1. ~Open /\ ~Write
      BY <1>2, OpenFacts, WriteFacts
    <3> QED BY <1>2, <3>1 DEF PipelineNext, Work, Build, EndBuild, DetectAndPrint, Evaluate, LoadResults,
               RefuseReport, Die, Now, pipelineVars
  <2> QED BY <1>2, <2>1 DEF ResultsAreCurrent
<1>3. CASE Now # "build" /\ ~Command
  <2>1. db' = db /\ script # <<>>
    <3>1. CASE Open \/ Write
      BY <3>1, OpenFacts, WriteFacts DEF vars
    <3>2. CASE ~Open /\ ~Write
      BY <1>3, <3>2 DEF PipelineNext, Work, Build, EndBuild, DetectAndPrint, Evaluate, LoadResults,
                        RefuseReport, Die, At, Now, vars
    <3> QED BY <3>1, <3>2
  <2>2. GraphOf(db') = GraphOf(db) /\ Whole(GraphOf(db')) = Whole(GraphOf(db))
    BY <2>1
  <2>3. Now' # "build"
    <3>1. CASE Open \/ Evaluate \/ LoadResults
      BY <1>3, <3>1, OpenFacts DEF Evaluate, LoadResults, Now
    <3>2. CASE Write
      BY <3>2, WriteFacts DEF Following
    <3>3. CASE Build \/ EndBuild
      BY <1>3, <3>3 DEF Build, EndBuild, At, Now
    <3>4. CASE DetectAndPrint
      <4>1. script # <<>> /\ Return(Tail(script)) /\ Now = "detect" /\ UNCHANGED command
        BY <3>4 DEF DetectAndPrint, At, Now
      <4> QED BY <4>1, ReturnFacts DEF Following
    <3>5. CASE RefuseReport \/ Die
      BY <3>5 DEF RefuseReport, Die, Now
    <3> QED BY <1>3, <3>1, <3>2, <3>3, <3>4, <3>5 DEF PipelineNext, Work
  <2>4. CASE Open
    <3>1. since' = since /\ results' \in {results, Torn}
      BY <2>4, OpenFacts
    <3> QED BY <2>2, <2>3, <3>1 DEF ResultsAreCurrent, Missing, Torn
  <2>5. CASE Write
    <3>1. CASE Now = "metrics"
      <4>1. results' = Whole(held) /\ held = GraphOf(db)
        BY <2>5, <3>1, WriteFacts DEF HeldIsCurrent
      <4>2. results' = Whole(GraphOf(db'))
        BY <2>2, <4>1
      <4> QED BY <2>3, <4>2 DEF ResultsAreCurrent
    <3>2. CASE Now # "metrics"
      <4>1. since' = since /\ results' = results
        BY <2>5, <3>2, WriteFacts
      <4> QED BY <2>2, <2>3, <4>1 DEF ResultsAreCurrent, Missing, Torn
    <3> QED BY <3>1, <3>2
  <2>6. CASE ~Open /\ ~Write
    <3>1. results' = results /\ since \subseteq since'
      BY <2>6, ResultsKept
    <3> QED BY <2>2, <2>3, <3>1 DEF ResultsAreCurrent, Missing, Torn
  <2> QED BY <2>4, <2>5, <2>6
<1> QED BY <1>1, <1>2, <1>3

\* How a command ends: by its last stage's return, a refusal or a death.
LEMMA EndFacts ==
  ASSUME ScriptFits, PipelineNext
  PROVE  /\ outcome' = "refused" => RefuseReport
         /\ outcome' = "completed" =>
              (EndBuild \/ DetectAndPrint \/ Write) /\ Now' = "none"
<1>1. CASE Command
  BY <1>1, CommandFacts
<1>2. CASE Build \/ Evaluate \/ LoadResults \/ Open
  <2>1. script # <<>> /\ outcome' = outcome
    BY <1>2, OpenFacts DEF Build, Evaluate, LoadResults, At, pipelineVars
  <2> QED BY <2>1, NowFacts
<1>3. CASE EndBuild \/ DetectAndPrint \/ Write
  <2>1. script # <<>> /\ Return(Tail(script)) /\ UNCHANGED command
    BY <1>3, WriteFacts DEF EndBuild, DetectAndPrint, Write, At
  <2>2. outcome' \in {"completed", "running"}
    BY <2>1 DEF Return
  <2> QED BY <1>3, <2>1, <2>2, ReturnFacts
<1>4. CASE RefuseReport \/ Die
  BY <1>4 DEF RefuseReport, Die
<1> QED BY <1>1, <1>2, <1>3, <1>4 DEF PipelineNext, Work

LEMMA RefusedStep ==
  ASSUME PipelineInv, PipelineNext
  PROVE  RefusedForCause'
<1> USE DEF PipelineInv
<1> SUFFICES ASSUME outcome' = "refused"
             PROVE  command'.name = "report" /\ since' \cap {"never", "death"} # {}
  BY DEF RefusedForCause
<1>1. RefuseReport
  BY EndFacts
<1>2. /\ Now = "report" /\ script # <<>> /\ results.state # "whole"
      /\ command' = command /\ since' = since
  BY <1>1 DEF RefuseReport, Readable, At, Now
<1>3. command.name = "report"
  BY <1>2, NowFacts DEF ResultsAreMains, Whole
<1>4. since \cap {"never", "death"} # {}
  BY <1>2 DEF ResultsAreThere, ScriptFits
<1> QED BY <1>2, <1>3, <1>4

LEMMA StaleStep ==
  ASSUME PipelineInv, PipelineNext
  PROVE  StaleOnlyAfterABuild'
<1> USE DEF PipelineInv
<1> SUFFICES ASSUME outcome' = "completed", command'.name = "report", "build" \notin since'
             PROVE  report' = Whole(GraphOf(db'))
  BY DEF StaleOnlyAfterABuild
<1>1. Write /\ command.name = "report" /\ Now = "report"
  <2>1. EndBuild \/ DetectAndPrint \/ Write
    BY EndFacts
  <2>2. script # <<>> /\ command' = command
    BY <2>1, WriteFacts DEF EndBuild, DetectAndPrint, At
  <2>3. Now = "report"
    BY <2>2, NowFacts
  <2>4. ~EndBuild /\ ~DetectAndPrint
    BY <2>3 DEF EndBuild, DetectAndPrint, At, Now
  <2> QED BY <2>1, <2>2, <2>3, <2>4
<1>2. /\ since' = since /\ db' = db /\ report' = Whole(held) /\ phase # "begin"
  BY <1>1, WriteFacts DEF vars
<1>3. results = Whole(held)
  BY <1>1, <1>2 DEF HeldIsCurrent
<1>4. results \in {Missing, Torn, Whole(GraphOf(db))}
  BY <1>2 DEF ResultsAreCurrent
<1>5. results = Whole(GraphOf(db))
  BY <1>3, <1>4 DEF Missing, Torn, Whole
<1>6. GraphOf(db') = GraphOf(db)
  BY <1>2
<1> QED BY <1>2, <1>3, <1>5, <1>6

\* The rows a passing check has seen are all there is.
LEMMA PipelineInvScoresWhatPassed ==
  ASSUME PipelineInv
  PROVE  PassedIsScored
<1> USE DEF PipelineInv
<1> SUFFICES ASSUME outcome = "completed", NoParallels(plan)
             PROVE  /\ command.name \in {"main", "metrics"} /\ verdict = "PASS" =>
                         results = Whole(GraphOf(Image(plan)))
                    /\ command.name = "main" /\ command.wipe => verdict = "PASS"
  BY DEF PassedIsScored
<1>1. stage = "done" =>
        /\ verdict = "PASS" => db.accounts = Image(plan).accounts /\ db.tx = Image(plan).tx
        /\ sources = {plan} => verdict = "PASS"
  BY LoadInvIsRight DEF VerifyIsRight, NoParallels
<1>2. ASSUME command.name \in {"main", "metrics"}, verdict = "PASS"
      PROVE  results = Whole(GraphOf(Image(plan)))
  <2>1. results = Whole(GraphOf(db))
    BY <1>2 DEF CompletedMeansDone
  <2>2. GraphOf(db) = GraphOf(Image(plan))
    BY <1>1, <1>2 DEF VerdictComesLast, GraphOf
  <2> QED BY <2>1, <2>2
<1>3. ASSUME command.name = "main", command.wipe PROVE verdict = "PASS"
  BY <1>1, <1>3 DEF WipedBuild, WipedAndLoaded
<1> QED BY <1>2, <1>3

LEMMA LoadInvStep ==
  ASSUME LoadInv, [Next]_vars
  PROVE  LoadInv'
<1>1. CASE Next
  BY <1>1, TypeStep, DbTypeStep, PlanKnownStep, CommittedStep, NothingElseStep, VerdictStep
  DEF LoadInv
<1>2. CASE UNCHANGED vars
  BY <1>2, StutterLoadInv
<1> QED BY <1>1, <1>2

LEMMA PipelineStep ==
  ASSUME PipelineInv, [PipelineNext]_<<vars, pipelineVars>>
  PROVE  PipelineInv'
<1>1. LoadInv' /\ VerdictComesLast'
  BY PipelineStepIsLoadStep, LoadInvStep, VerdictComesLastStep DEF PipelineInv
<1>2. CASE PipelineNext
  <2>1. ScriptFits' /\ HeldIsCurrent' /\ ResultsAreMains' /\ WipedBuild' /\ CompletedMeansDone'
    BY <1>2, ScriptFitsStep, HeldIsCurrentStep, ResultsAreMainsStep, WipedBuildStep, CompletedStep
    DEF PipelineInv
  <2>2. ResultsAreThere' /\ ResultsAreCurrent' /\ RefusedForCause' /\ StaleOnlyAfterABuild'
    BY <1>2, ResultsAreThereStep, ResultsAreCurrentStep, RefusedStep, StaleStep
  <2> QED BY <1>1, <2>1, <2>2 DEF PipelineInv
<1>3. CASE UNCHANGED <<vars, pipelineVars>>
  <2>1. Now' = Now /\ GraphOf(db') = GraphOf(db) /\ Image(plan') = Image(plan)
    BY <1>3 DEF Now, vars, pipelineVars
  <2>2. UNCHANGED <<plan, stage, db, sources, command, script, phase, held, results, report,
                    outcome, since>>
    BY <1>3 DEF vars, pipelineVars, fileVars
  <2>3. ScriptFits'
    BY <2>1, <2>2 DEF PipelineInv, ScriptFits
  <2>4. HeldIsCurrent' /\ ResultsAreMains' /\ ResultsAreCurrent'
    BY <2>1, <2>2 DEF PipelineInv, HeldIsCurrent, ResultsAreMains, ResultsAreCurrent, Missing,
                      Torn, Whole
  <2>5. WipedBuild'
    BY <2>1, <2>2 DEF PipelineInv, WipedBuild, WipedAndLoaded
  <2>6. CompletedMeansDone' /\ StaleOnlyAfterABuild'
    BY <2>1, <2>2 DEF PipelineInv, CompletedMeansDone, StaleOnlyAfterABuild, Whole
  <2>7. ResultsAreThere' /\ RefusedForCause'
    BY <2>1, <2>2 DEF PipelineInv, ResultsAreThere, RefusedForCause
  <2> QED BY <1>1, <2>3, <2>4, <2>5, <2>6, <2>7 DEF PipelineInv
<1> QED BY <1>2, <1>3

LEMMA PipelineBegins == PipelineInit => PipelineInv
<1> SUFFICES ASSUME PipelineInit PROVE PipelineInv
  OBVIOUS
<1>1. LoadInv
  BY InitLoadInv DEF PipelineInit
<1>2. /\ command = [name |-> "none", wipe |-> FALSE]
      /\ script = <<>> /\ phase = "begin"
      /\ results = Missing /\ report = Missing
      /\ outcome = "completed" /\ verdict = "none"
      /\ since = {"never"}
  BY DEF PipelineInit, Init
<1>3. ScriptFits
  BY <1>2 DEF ScriptFits, ScriptsOf, Names, Missing
<1>4. HeldIsCurrent /\ ResultsAreMains /\ WipedBuild /\ CompletedMeansDone
  BY <1>2 DEF HeldIsCurrent, ResultsAreMains, WipedBuild, CompletedMeansDone
<1>5. ResultsAreThere /\ ResultsAreCurrent /\ VerdictComesLast
  BY <1>2 DEF ResultsAreThere, ResultsAreCurrent, VerdictComesLast, Now, Missing
<1>6. RefusedForCause /\ StaleOnlyAfterABuild
  BY <1>2 DEF RefusedForCause, StaleOnlyAfterABuild
<1> QED BY <1>1, <1>3, <1>4, <1>5, <1>6 DEF PipelineInv

--------------------------------------------------------------------------------
(* What the pipeline promises.                                                 *)

\* The inductive invariant, of every behaviour: what a stage holds and what the
\* files say is of the graph it should be, stage after stage.
THEOREM PipelineInvariant == PipelineSpec => []PipelineInv
BY PipelineBegins, PipelineStep, PTL DEF PipelineSpec

\* main.py: a command that says it is done has done its work on the graph that is
\* there, for every plan and batch size and whatever died before it.
THEOREM CompletedIsDone == PipelineSpec => []CompletedMeansDone
<1>1. PipelineInv => CompletedMeansDone
  BY DEF PipelineInv
<1> QED BY <1>1, PipelineInvariant, PTL

\* report.main, metrics.save: a report is refused only alone, before any evaluation
\* has returned or after one died since, and only a build can leave it behind the
\* database, whatever else ran or died.
THEOREM LoneReportsAreJustified == PipelineSpec => []LoneReportIsJustified
<1>1. PipelineInv => LoneReportIsJustified
  BY DEF PipelineInv, RefusedForCause, StaleOnlyAfterABuild, LoneReportIsJustified
<1> QED BY <1>1, PipelineInvariant, PTL

\* verify_load, main: after a printed PASS every completed evaluation is of the
\* planted graph, and a wiping main prints it.
THEOREM ScoredWhatPassed == PipelineSpec => []PassedIsScored
BY PipelineInvScoresWhatPassed, PipelineInvariant, PTL

\* report.main: a report is torn or made of whole results, step by step.
THEOREM ReportsAreOfResults == PipelineSpec => ReportsComeFromResults
<1>1. ASSUME PipelineInv, [PipelineNext]_<<vars, pipelineVars>>
      PROVE  [report' # report =>
                \/ report' = Torn
                \/ results.state = "whole" /\ report' = results]_<<vars, pipelineVars>>
  <2> SUFFICES ASSUME PipelineNext, report' # report
               PROVE  \/ report' = Torn
                      \/ results.state = "whole" /\ report' = results
    BY <1>1 DEF pipelineVars, fileVars
  <2>1. Open \/ Write
    <3>1. \/ report' = report \/ Open \/ Write
      BY DEF PipelineNext, Command, Work, RunPipeline, RunBuild, RunSkippingBuild, RunAlone, Run,
             Build, EndBuild, DetectAndPrint, Evaluate, LoadResults, RefuseReport, Die,
             pipelineVars, fileVars
    <3> QED BY <3>1
  <2>2. ASSUME Open PROVE report' = Torn
    BY <1>1, <2>2, OpenFacts DEF PipelineInv
  <2>3. ASSUME Write PROVE results.state = "whole" /\ report' = results
    <3>1. Now = "report" /\ report' = Whole(held) /\ phase # "begin"
      BY <1>1, <2>3, WriteFacts DEF PipelineInv
    <3>2. results = Whole(held)
      BY <1>1, <3>1 DEF PipelineInv, HeldIsCurrent
    <3> QED BY <3>1, <3>2 DEF Whole
  <2> QED BY <2>1, <2>2, <2>3
<1> QED BY <1>1, PipelineInvariant, PTL DEF PipelineSpec, ReportsComeFromResults

================================================================================
