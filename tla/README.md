# Abuse Ring Sentinel: TLA+ specifications and proofs

The program plants synthetic collusion rings into a PaySim transaction graph,
loads the graph into Neo4j, detects candidate rings with Cypher queries, lets an
LLM agent judge every candidate, and scores those judgments against the planted
truth. This directory specifies the whole chain: the planting (overlapping rings), the
load into Neo4j (what is left of it when it dies and is run again), the detection (what
it makes of small graphs, and of what was planted), the agent that judges (what a
verdict may rest on, what a failed LLM call may and may not do), the evaluation and its
report (how repeated, partly failing runs become numbers), and the pipeline of commands
that pass the database and the result files on.

Paths below are relative to the repository (`src/agent/nodes.py`); in
`PROJECT.json` they carry the prefix of the checkout, `src/`.

## Inventory

| Component | State it keeps | Operations | Modelled in |
|---|---|---|---|
| LLM retry loop (`src/agent/retry.py`) | loop variable, sleep | `invoke_with_retry` | `InvokeWithRetry` |
| Nodes and routers (`src/agent/nodes.py`) | none; they map `RingState` to an update | `detect_node`, `diagnose_node`, `verify_node`, `decide_node`, two routers | `Agent`, `Verdicts` |
| Guardrails (`src/agent/guardrails.py`) | none | `input_guardrail`, `output_guardrail` | `Agent`, `Verdicts` |
| Agent graph (`src/agent/graph_state.py`) | one checkpoint per thread, in memory | `build_graph`, `run_agent`, `resume` | `Agent`, `AgentContract` |
| Evaluation (`src/eval/metrics.py`) | records, counters, results file | `label_candidate`, `run_candidate_repeated`, `run_stability_experiment`, `run_evaluation`, `save`, `load` | `Evaluation`; `Pipeline` (the file) |
| Report (`src/eval/report.py`) | report file | `generate_report`, `main` | `Evaluation`; `Pipeline` (the file) |
| Detection (`src/detection/detection.py`) | none; reads Neo4j | three detectors, `detect_candidates`, the spot check | `Detection`, `PlantedDetection` |
| Planting (`src/data/plant_rings.py`) | the graph being built, the random generator | four planters, `plant_rings`, `_assign_splits` | `Planting`, `PlantedDetection` |
| Graph load (`src/data/build_graph.py`) | Neo4j | `build_graph`, `verify_load`, `--wipe` | `GraphLoad` |
| PaySim loading (`src/data/load_paysim.py`) | none | reads and types a CSV | not modelled: pure I/O |
| Pipeline (`main.py`) | none; the stages share Neo4j and two files | the four stages in order, `--no-wipe`, `--skip-build` | `Pipeline` |
| Smoke tests (`src/agent/smoke_test*.py`) | none | one `run_agent` call each | not modelled: manual scripts |

Calls go one way: `main` -> `metrics` -> `run_agent` -> the compiled LangGraph app
-> a node -> `invoke_with_retry` -> Groq. The process is sequential; what makes it
hard is not threads but failure and reuse: a provider that refuses calls for hours,
an exception that leaves the graph in the middle, a checkpoint that outlives the
call that wrote it, a human between two halves of a run, and an evaluation that has
to tell "the agent said no" from "nobody answered". What makes each part correct:

* **Retry loop** - gives up after exactly `MAX_RETRIES` refusals, never sleeps after
  the last one, settles always.
* **Agent** - flags a ring only on a grounded "Yes" of the same run above both
  floors; an absent answer is never a judgment, nor the reverse; no call the routers
  should have prevented; nothing is decided before it was approved; a thread used
  again remembers nothing.
* **Evaluation** - failed runs do not vote; the stored diagnosis supports the verdict
  it is shown with; every candidate and every run is counted exactly once; an outage
  does not stop the batch.
* **Load** - after a load everything planted is in the database as planted, whatever
  was there before; a load that died and was run again leaves nothing twice; a PASS of
  `verify_load` can be believed.
* **Planting** - rings may overlap, yet tags and devices agree as far as they can; every
  kind of ring is on both sides of the split.
* **Detection** - every simple cycle is found, once, with evidence that goes round it; no
  fan-in that passes the filters is dropped by the floor; what is planted is found unless
  its accounts were used again, and an untouched ring is scored as itself; the order of
  the rows decides the evidence only where transactions are parallel.
* **Report** - no failed run is hidden behind a stable verdict.
* **Pipeline** - a command that says it is done has done its work on what is there; no
  report is made of a missing or torn results file, or refused for another cause; a report
  is only stale after a build; what is scored after a printed PASS is the planted graph.

The hazards the properties are aimed at are listed, each at its line, in
`PROJECT.json` under `hazards`.

## Modules

* **`Verdicts`** holds what the others share: the verdicts, the two score floors, the
  reading of a diagnosis (`Q1Answer` is `_Q1_ANSWER_RE`), and `Promise`, the verdict
  a run owes for the answers it got. Scores are integers in ten-thousandths, the
  precision detection rounds to. A diagnosis is the sequence of the tokens the regex
  can tell apart, with the answer a reader would take from it (`stated`), which the
  program does not know.
* **`InvokeWithRetry`** is one call of `invoke_with_retry`: `Begin`, then `Answer`,
  `Refuse` and `Wake` in turn, `RefuseLast`, or `Escape` for any exception that is no
  rate limit, and `Deliver` when the caller takes the outcome. `refused` and `slept`
  are histories.
* **`AgentContract`** is the abstract specification: a run hears a diagnosis or a
  refusal, hears the fact check, pauses for approval when there is something to
  review, and concludes with `Promise`. It knows no node, checkpoint or retry.
* **`Agent`** is the compiled graph. `state` and `next` are LangGraph's checkpoints
  (per thread, `RingState` and the node it stands before), `invocation` is the
  `app.invoke` under way, and the variables of `InvokeWithRetry` (instantiated) are
  the LLM call under way. One action per node, router decision included: `Detect`,
  `CallLLM`, `AwaitLLM`, `DiagnoseAnswered`, `DiagnoseFailed`, `DiagnoseRaises`,
  `VerifyAnswered`, `VerifyFailed`, `Interrupt`, `AutoResume`, `Decide`, `Return`;
  the callers' are `RunAgent` and `Resume`. `heard` and `outcome` are histories: the
  LLM's answers and what the caller knows. LangGraph is external; what is assumed of
  it is that `invoke(input)` replaces the fields the input names and starts at the
  entry node, that `invoke(None)` goes on from the checkpoint, past an interrupt it
  stands at, and that an exception leaves the checkpoint before the node that raised.
* **`Evaluation`** is `run_evaluation`, one step per agent run. What a run may return
  is not guessed: it is `Promise` over `CompleteTranscripts`, exactly what `Agent` is
  proved to return (`ReturnsWhatItOwes`), or `_run_one`'s failed result for an
  exception. Its last part is `generate_report`, a function of the result: table rows,
  banner and worked examples as records, without their prose. Rates (precision,
  recall, flip rate) are kept as their numerators and denominators. The thread id is fresh for every run, so no state is shared.
* **`GraphLoad`** is `main` of `build_graph.py`: `Start`, `Wipe`, `Plant`, then one
  `LoadBatch` per transaction and `NextQuery` between the three queries, and
  `VerifyLoad`; `Crash` anywhere in between, after which any plan may be loaded, with
  or without `--wipe`. `db` is Neo4j: three functions, from what a query MERGEs on to
  the properties it SETs. Neo4j is external; what is assumed of it is what the queries
  say, and that a transaction happens or does not. A plan is what `plant_rings` hands
  over: nodes and edges in iteration order, and the rings. `sources` is a history: the
  plans since the last wipe.
* **`Planting`** is `plant_rings`: one action per planter, each a whole ring, in the
  order of the loops; `Raise` when the generator has not enough to draw from; and
  `AssignSplits`. A ring's id is its counter. The random generator is a choice
  (the constant operators `RandInt` and `Draw`); the amount of a cycle is drawn from
  `CycleAmounts`, and any other payment is worth `Amount`, as detection reads no amounts but
  those of cycles.
* **`Detection`** is `detect_candidates` on a graph: one step per detector. Each query is
  the set of its rows: devices with their accounts, destinations with their transfers,
  closed paths without a repeated relationship. Rows come in no order, so
  `CircularFlowChoices` gives every candidate list that keeping the first row of a key
  may yield; of two rows with equal keys `OneOfEach` keeps either. Scores are in
  ten-thousandths; `FlowScore` (one minus a coefficient of variation, a root) is cut to
  hundredths. A candidate keeps the transactions its
  evidence was computed from as a set; their order in the evidence is left out.
* **`PlantedDetection`** composes the two: `Plant` is a step of `Planting`, and once that
  is done `Detect` a step of an instance of `Detection` on what was planted (`Stored`:
  what `GraphLoad` shows a load to leave). `Label` is `label_candidate`, `SpotCheckFinds`
  is `evaluate_against_ground_truth`. `CandidatesOf` a ring are those of its device, of its
  payout account, or once round its cycle; `WithinLimits` are the rings detection looks
  for, `DrawnLater` the accounts that later rings of a type took, and `DrawnAgain` those
  that any later ring took.
* **`Pipeline`** extends `GraphLoad` with the commands: `main.py` with its options and
  each stage run on its own. A command is the script of stages it still has to run;
  builds are the steps of `GraphLoad`, the other stages read (`Evaluate`, `LoadResults`),
  then `Open` their file and `Write` it; `Die` ends a command anywhere. `since` is a
  history: whether a build has begun, or an evaluation died, since one last returned. Results are
  known by the graph they were computed from, a report by that of its results:
  what the evaluation computes is the subject of `Evaluation`.
* **`RetryProofs`**, **`AgentProofs`**, **`GraphLoadProofs`**, **`PipelineProofs`**,
  **`PlantingProofs`**, **`DetectionProofs`** and **`EvaluationProofs`** hold the theorems,
  each about the module it is named after (`PlantingProofs` also about `PlantedDetection`),
  and **`OrderLemmas`** what they share about numbers, least and largest elements, ranks,
  sums and flattened sequences. **`MCRetry`**, **`MCAgent`**,
  **`MCEvaluation`**, **`MCGraphLoad`**, **`MCDetection`**, **`MCPlanting`** and
  **`MCPipeline`** the instances TLC checks. `Planting` and `PlantedDetection` are checked
  together in `MCPlanting`.

Definitions at the head of a module named as bugs ("Bugs the runs must notice") are
wrong variants of the code's definitions: each property has one that breaks it, so
that a property no bug can break does not stay unnoticed.

## Runs

| Run | Checks | Bounds |
|---|---|---|
| `retry` | `RetryInv`, `GivesUpOnlyAtTheLimit`, `SleepBudget`, `CallSettles` | the code's constants (8 requests, 5 s, 30 s); hints below the minimum, between the delays and above the cap |
| `agent` | `FlagJustified`, `ReturnsWhatItOwes`, `FailureIsNoVerdict`, `NoCallInVain`, `PausedIsReviewable`, `AgentInv`, `ImplementsContract` | two threads (symmetric), four candidates, four texts, two requests per call |
| `agent_liveness` | `ImplementsFairContract`, `AutoRunConcludes` | two threads, a candidate on each side of the input floor, one text |
| `agent_echo` | `UnclearNeverFlagged`, violated | one thread, with the echoing text |
| `evaluation` | `FailedRunsDoNotVote`, `VoteIsRespected`, `ExampleSupportsVerdict`, `BorderlineIsClosest`, `ScoresAddUp`, `FailuresAreVisible`, `EvaluationEnds` | four batches of up to three candidates, three main runs, two stability runs, one stability candidate |
| `report_negative` | `NegativeExampleDeclined`, violated | one candidate |
| `graph_load` | `LoadIsComplete`, `LoadIsExact`, `VerifyIsRight` | three plans, batches of two rows; any number of loads, crashes and wipes |
| `pipeline` | `CompletedMeansDone`, `ReportsComeFromResults`, `LoneReportIsJustified`, `PassedIsScored` | two plans of two accounts and of one, batches of one row; any number of commands and deaths |
| `detection` | `CyclesFoundOnce`, `EvidenceGoesRound`, `ScoresFitFloors` | the code's limits; every part of eight transactions among four accounts, of six with parallels and a loop, of ten transfers into one account; rings of five to seven; every choice of devices for four accounts |
| `fan_in` | `GroupsHaveThreeMembers`, violated | the fan-in graphs of `detection` |
| `planting` | `DeviceKnowsItsRing`, `SplitsStratified`, `PlantedRingsFound`, `IsolatedRingsScored`, `MissedOnlyIfRedrawn` | six customers and a merchant, two device rings, a payout ring, a cycle and a cluster, three draws of members each, lowest and highest delays and factors, an amount of zero or 60 for the cycle; fan-ins of at most three, cycles of at most four |
| `planting_match` | `FirstHitIsTheMatch`, violated | one ring of each of three kinds |

Why the bounds are enough. *Agent*: threads share nothing but the process, so two show
every interference (one paused or finished while another runs; one reused); the
candidates lie on either side of both floors, as close as detection's scores come; the
texts give each of the parser's answers, one of them for want of the number. Two
requests per call contain a retried and an exhausted call; how many there are is the
business of `retry`, which uses the real number. Nothing is bounded in time: runs may
follow one another on the two threads for ever. *Evaluation*: three runs contain a
majority, a three-way tie, a two-way tie beside a failed run, and no completed run at
all (the code uses five and six; the loop does not look at the number). The batches
hold a planted test ring, a train ring, a legitimate cluster, an untagged fan-in at
the flag floor, one below it and a cycle below the input floor; two of them have the same
score, so the stability experiment must choose between equals by their order. *Graph load*: the plans
are one with an account in two rings and a payout ring, one of another sample that
shares accounts and a payment with it, and one with two equal transactions; a batch of
two ends inside every query of the first, so crashes leave every kind of prefix. The
database only holds what the plans can put there, so the state space is finite without
any bound on the number of loads. *Detection*: the graphs hold simple cycles of every
length up to one too long, cycles that share accounts and legs, figures of eight, two
transactions between two accounts, an account that pays itself, fan-ins on either side of
every filter (two and three transfers, eight and nine, windows of 59, 60 and 61 steps) and
groups of none to four on a device. *Planting*: with six customers, rings of three share
most of their accounts or none, as the draw goes (the first, the last, or all but the
first, backwards); in the real data overlaps are rare. Detection's limits are set close
to the rings' size of three: cycles of four, one hop to spare, and fan-ins of three, so
that a single leg of a cycle shows what takes three with the code's own limit of eight
(its rings have up to six payers) unless it already breaks the window. Twelve is a size no sample can have: the generator
raises. The kinds planted are a bound (`Kinds`; the code plants all six): the payout
account is drawn by the later cycle and cluster, and device rings overwrite each other.
A cycle's amount is 60, whose shares differ,
or zero, the one value for which detection has a case of its own (`detection.py:146`).
*Pipeline*: two plans show what of a graph was left by another; a batch of one row lets a
build die between any two.

The deadlock check is off only for the evaluation, the detection and the planting, which
end.

## Fairness

`InvokeWithRetry` assumes that a request in flight gets some reply (the Groq client
has a timeout) and that `time.sleep` returns. `Agent!FairSpec` assumes that the
process keeps running while it has something to do: weak fairness of `Proceed`, which
is one sequential program. Nothing is assumed of callers: no run is ever submitted or
approved because fairness says so, and so a paused run may wait for ever.
`Evaluation` assumes the same of its loop; that each of its agent runs comes back is
`ImplementsFairContract`. `Pipeline`, `GraphLoad`, `Planting` and
`Detection` state safety only, and assume none.

## What is proved

For all values of the constants, from `RetryAssumption` and `AgentAssumption`:

* `RetryInvariant`, and from it `RetryTypeCorrect`, `RetryGivesUpOnlyAtTheLimit` and
  `RetrySleepBudget`. The budget is not inductive alone: the strengthening relates
  `refused`, `attempt` and `slept` phase by phase (a sleeping call has slept once more
  than its loop variable says), and the step for `Refuse` needs that one more delay is
  at most one more `LongestDelay` (`DelayBound`, `OneMoreDelay`).
* `AgentInvariant`: `TypeOK /\ AgentInv` is inductive. `AgentInv` has three parts.
  `CheckpointMatchesTranscript` says at each node what the checkpoint contains in
  terms of what the LLM said in the *latest* run of the thread; this is what makes the
  reuse of a thread safe. `CallerView` ties what the caller knows to where the
  checkpoint stands; `InvocationInOrder` ties the invocation and the LLM call to the
  node. The node functions are dealt with by lemmas (`NodesKeepType`,
  `DecideKeepsPromise`), threads a step does not touch by `OtherThreadsKeep`.
* From it: `AgentTypeCorrect`, `AgentReturnsWhatItOwes`, `AgentFlagsJustified`,
  `AgentFailuresAreNoVerdicts`, `AgentCallsNothingInVain`, `AgentPausesReviewable`.
* `AgentImplementsContract`: `Spec => Contract!Spec` under the refinement mapping in
  `Agent` (a run is "approved" while its invocation is automatic or past the
  interrupt). Node steps that gather nothing are stutters, the others map to one
  contract step each.

* `LoadInvariant`, from `LoadAssumption` (account ids are numbers and differ, edges join
  accounts of the plan, a tag names one of its rings: what `plant_rings` builds, which
  `DetectionLeavesPlanting` and `PlantingTypes` show). `LoadIsComplete` speaks of the end of
  a load only; the invariant, `LoadInv`, says row by row what is there at any moment:
  `CommittedIsThere` that the rows committed so far are in the database with the
  properties of the last row of their key (`Carries`), `NothingElseIsThere` that whatever
  is there came from a row of some plan since the last wipe, and `VerdictIsCurrent` what
  the counts were made of. It needs the lemma that merging two batches is merging them at
  once (`MergeInBatches`, `MergeChunk`) and that a relationship whose accounts are there
  always matches (`MatchedChunk`); that a later load of the same plan adds nothing follows,
  as the same keys get the same last properties. From it: `LoadTypes`, `LoadsAreComplete`,
  `LoadsAreExact` and `VerifiesRightly`; the last one counts, by a bijection of keys and
  rows (`CountByKey`, `KeysDistinct`).
* `PipelineInvariant`: `ScriptFits` (a command and what is left of its script), with
  `HeldIsCurrent` (a stage about to write holds results of the database as it is, or what
  the file said), `ResultsAreMains` (when `main.py` reaches its report, the results file is of
  the database as it is) and `WipedBuild` (a `main.py` that wipes has its own plan as the only
  source, and the database is that plan's image when the next stage reads it),
  `VerdictComesLast`, and two parts that say what `since` knows: `ResultsAreThere` (missing or
  torn results have a cause in it) and `ResultsAreCurrent` (without a build, whole results are
  of the database as it is). From it `CompletedIsDone`, `LoneReportsAreJustified`,
  `ReportsAreOfResults` and, with `VerifiesRightly`, `ScoredWhatPassed`:
  no stage reads the verdict of `verify_load`, but when it was PASS what the next stages
  score is the planted graph, leftovers and `--skip-build` or not.
* `PlantingInvariant`, from `PlantingAssumption` (`random.randint` returns a number of its
  range): the types, `Lists` (the rings are a sequence of records, and every account is one
  of the data or the payout account numbered after a ring, which is why a new payout account
  is new), `DeviceKnowsItsRing` and `SplitsCounted` (the share of test rings of every stratum
  once the splits are assigned). Detection of what was planted needs the rest: `LastDevice`
  (an account's device is that of the last device ring that drew it), `Finite`,
  `PayoutsAreNew` (a payout account is its ring's alone until a later ring draws it) and
  `LegsAreOfRings` (every payer of a payout ring pays once, within sixty steps of the others;
  each member of a cycle pays the next, the amount drawn or a share of it).
  `DeviceKnowsItsRing` is inductive, but only account by account (`DeviceKnown`): a device
  ring gives its members its device and its tag, any later ring changes the tag alone, and
  the payout account of a new ring is in no ring yet. From it `PlantingTypes`, `DevicesKnowTheirRings` and `SplitsAreStratified`;
  `DetectionLeavesPlanting` carries them to the composition.
* `PlantedInvariant`, from `PlantedAssumption` (positive limits) besides: `PlantingInv`, and
  once planting is done the inductive invariant of `Detection` on the graph it left, which
  that graph allows (`PlantedIsGraph`). So every theorem about detection is one about planted
  rings (`DetectionHoldsOfPlanted`). The theorems of `DetectionProofs` are brought in by an instance;
  the lemmas `SameDetection` and those before it say that it and the instance in
  `PlantedDetection` say the same.
* From it `WhatIsPlantedIsFound`, type by type of ring. A circular ring is a simple cycle of
  the graph (`RingIsSimpleCycle`), so the theorem on simple cycles gives it one candidate, and any
  order that follows its payments is a rotation of it (`CycleIsRound`). Whatever factors its legs
  drew, the smallest is at least a quarter of the largest (`FactorPowers`, `LegsAreEven`), and
  such a cycle passes the input guardrail (`CircularScores`); with an amount of zero it never
  does (`LegsOfNothing`, `NoMoneyNoScore`). A device ring that has two members
  with its device is a group of that device (`MembersKeepDevice`, `DeviceFound`). A payout account that
  no cycle went through has exactly its own transfers, which pass every filter
  (`OwnPayoutLegs`, `PayoutFound`). The theorem has a hypothesis, `DetectionLimits`: the fan-in limits and
  the cycle length of `detection.py:21-24` or narrower ones, the window of sixty steps as it is (a smaller
  one misses subtle payout rings, a larger one also finds groups below the score floor), and `CycleAmounts` of zero or at
  least three, because the model's amounts are whole and rounded down (the shares of one or two
  would be nothing).
* Also from it `MissedOnlyWhenRedrawn`, about the spot check: an account that no later ring drew
  carries its ring's tag (`LastTag`), and is a member of any candidate of the ring
  (`KeepsItsOwn`). It has no hypothesis about limits.
* Also from it `IsolatedRingsAreScored`: an isolated ring's members have its tag alone
  (`IsolatedTags`), so whichever of them comes first, the label is the ring's
  (`IsolatedLabel`). It only needs a window of at least the sixty steps that planting uses.
* `DetectionInvariant`, from `DetectionAssumption` (a finite graph whose transactions join
  its accounts, positive limits). `DetectionInv` keeps for every candidate what it was made of:
  the accounts of one device (`GroupsADevice`), the transfers into one account (`FansIn`),
  or a closed trail (`GoesRound`); it says that no two candidates of a detector share a
  key, and that a detector that is done has missed no closed trail (`NoneMissed`). Its main
  lemmas are about the operators: `TrailsAreTrails` (the paths the query enumerates are exactly the
  trails within the limit), `OneOfEachPicks` (keeping the first row of each key keeps one
  row of each), `RotationFacts` and `CanonicalStartsSmallest` (the canonical cycle is a
  rotation that starts with the smallest account), `SortedValuesFacts`, `QuotientBounds`. For
  `CyclesAreFoundOnce` a simple cycle is walked as a trail (`SimpleCycleIsWalked`), the walk's
  canonical rotation is the candidate's key, and a cycle without repetition has one
  rotation that starts with its smallest account (`OneSmallestRotation`).
  The same theorem bounds how often a closed walk that passes an account again is reported
  (`RotationStartsSmallest`, `OneForEachPassing`). That a cycle's evidence does not depend
  on the order of the rows is part of `EvidenceIsARound`: legs that go round, where every hop has
  one transaction, are all the transactions there are.
  `DetectionTypes` and `ScoresFit` follow too. `ScoresFit` has a
  hypothesis: fan-ins of at least three and at most eight transfers within sixty steps,
  the defaults of `detection.py:21-23`. With other limits the floor does drop fan-ins that
  pass the filters.

* `EvaluationInvariant`, from `EvaluationAssumption`: a batch is a sequence of candidates
  with distinct ids and scores between 0 and 1 (`DetectionTypes` shows that of every list
  of candidates), at least one run per candidate is asked for, and a diagnosis is not
  `None`. `EvalInv` keeps what the properties of the end need at every step: `UnderWay` (runs
  wait to be recorded only while a candidate is under way), `Recorded` (a record's verdict,
  its numbers of runs and its diagnosis are those of some runs of an eligible candidate of
  the batch), `RecordedOnce` (records and the candidates still to do have distinct ids) and
  `Counted` (the runs made are those recorded and those of the candidate under way, and so
  are the failed ones); `ChosenFirst` and `SummaryIsCurrent` tie the queue and the summary to
  the records. What the code computes is dealt with by lemmas: `TheVoteIsAVote` and
  `VotersVoteOnce` on the majority vote (of the most frequent verdicts the one seen first), `BorderlineFacts` on
  the selection, of equals by their order (by
  `RanksAreDense` every rank up to their number is taken), and lemmas on the fold the sums are
  made of, which `SumUnfolds` shows to be a sum: `SumAppends` (a list's total grows by what is
  appended), `SumIsZero`, and `SumOfSizes` (the sizes of groups add up), by which the rows of
  the breakdown account for the cells. That a record's group tells its truth
  (`GroupsAreOfOneTruth`) is why no row mixes positives and negatives. From it
  `EvaluationTypeOK`, `FailedRunsNeverVote`, `ExamplesSupportVerdicts`, `BorderlineChosen`,
  `ScoresAlwaysAddUp`, `FailuresAreAlwaysVisible` and, of
  `RecordMain`, `VotesAreRespected`.

The agent's theorems do not depend on `RetryAssumption`: whatever the retry loop's
constants, it only hands over "answered", "exhausted" or "raised".

The prover has no induction over data, so facts about all lengths or all batches are put as
sets of numbers: `NumbersByInduction` (a set that holds 0, and n + 1 with n, holds every
number) is itself proved from the least element of a set of numbers. `SubsetsByInduction` is
the same for the subsets of a finite set.

Three theorems have a hypothesis beside the named assumptions, each met by the program's
defaults: `ScoresFit`, `WhatIsPlantedIsFound` and `IsolatedRingsAreScored`. The first two are
about how the limits of one program lie to the scores and draws of another, and would be
false for other limits.

Only model-checked: the liveness properties (`CallSettles`, `ImplementsFairContract`,
`AutoRunConcludes`, `EvaluationEnds`), which rest on fairness and are out of the prover's
reach. Every safety invariant and action property that a passing run checks is proved, and
so is the agent's refinement of its contract.

Two limits of `verify_load` that the properties of `GraphLoad` spell out. Two equal
transactions between the same accounts become one relationship, so it reports a
mismatch for a load that did all it could: `VerifyIsRight` is stated for graphs without
them. And it does not compare the `SHARES_PAYOUT` count or any tag with the graph: a
PASS says that accounts and transactions are exactly the planted ones (their tags are,
too, because every load writes them all), but a payout pair of an earlier load may be
left.

## Findings

* `agent_echo`: a diagnosis that repeats the prompt's question "(Yes/No/Unclear)"
  before answering "Unclear" is read as "Yes" (`nodes.py:165`), against the promise of
  `decide_node`'s docstring (`nodes.py:188-190`).
* `report_negative`: the "False positive, correctly declined" example is chosen
  without looking at its verdict (`report.py:53-56`), so a flagged negative may be
  shown under that heading.
* `planting_match`: `label_candidate` relies on planting not reusing accounts
  (`metrics.py:149-151`), but every planter draws from all customers
  (`plant_rings.py:102`, `137`, `171`, `203`). A device group can be labelled with
  another ring, and scored by that ring's split. `build_graph.py:73-74` does know of
  the collision and calls it rare.
* `fan_in`: a fan-in counts transfers (`detection.py:69`), so one account that pays three
  times is a group of three with repeated members, where the docstring speaks of accounts
  and members (`detection.py:84-89`).

Two more places where a docstring says more than the code does, seen while modelling.
The legs of a subtle cycle have each a factor of their own (`plant_rings.py:178`), so the
amount may grow from one hop to the next, against `plant_rings.py:168-169`;
`PlantedRingsFound` shows that detection finds such a cycle all the same. And
`_canonical_cycle` "collapses" only cycles that pass their smallest account once
(`detection.py:119-125`): a figure of eight through it may be reported once per loop it
may start with. `CyclesFoundOnce` promises one candidate to simple cycles only, and to any
other closed walk at most one for each time it passes its smallest account.

What `planting` shows of overlaps: a payout ring whose payout account became a hop of a
cycle can be missed (its fan-in grows by a transfer, or by steps), a device ring is
missed when all but one of its members got another device; nothing else that is planted
is missed, for any graph, schedule and draw (`WhatIsPlantedIsFound`, the amounts of cycles being
zero or at least three). What is found reaches the agent, with two exceptions. The candidate of
a cycle is computed from one payment per hop, and where its members pay each other otherwise
too, any of these may be taken: `PlantedRingsFound` promises a cycle a score only when its
candidate is made of the ring's own legs. And `load_paysim` drops no transaction of zero, so
the amount drawn for a ring may be zero: such a cycle is found, but the mean of its legs is zero,
`detection.py:146` makes that a score of zero, and the input guardrail discards it. The spot check, finally, may call a ring MISSED that was found,
since an account's tag is that of its last ring, but only if every account of the
ring, its payout account aside, was drawn again (`MissedOnlyWhenRedrawn`).

## Plan

The order in which the parts were taken: the agent and its contract, then the retry loop it
waits for, the evaluation of its verdicts, the load, the pipeline around them, and last
planting and detection with their composition; each with its runs first and its proofs after. Every
component that keeps or changes state is modelled. Left to TLC are the liveness properties;
a change to the code should be followed here in the same order: the definition `PROJECT.json` maps to
the changed lines, the runs of its module, then the proofs.

## Not modelled

The text of prompts and reasons and the prose of the report; logging; configuration from the
environment; the LLM's reasoning (any answer is possible). `load_paysim` reads and
types a CSV and the smoke tests call `run_agent` once: neither keeps state. A database
that fails in the middle of a query is a death of the process, which is what an uncaught
exception makes of it. The in-memory checkpointer loses paused threads with the process, and nothing
in the code claims otherwise, so the agent has no crash action.
