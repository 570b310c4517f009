------------------------------- MODULE Evaluation ------------------------------
(* run_evaluation (src/eval/metrics.py): every eligible candidate goes        *)
(* through the agent several times, the completed runs vote, the records are  *)
(* scored, and the borderline candidates are run again.  One step is one call *)
(* of _run_one; what such a call may return is what Agent is shown to return  *)
(* (ReturnsWhatItOwes), or the failed result made of an escaped exception.    *)
EXTENDS Verdicts

CONSTANTS
  Batches,             \* sequences of candidates detection may hand over
  RingTags,            \* account -> the tag of the ring it was planted in
  MainRuns,            \* MAIN_EVAL_RUNS
  StabilityRuns,       \* STABILITY_RUNS
  StabilityCandidates  \* STABILITY_CANDIDATES

ASSUME EvaluationAssumption ==
  /\ MainRuns \in Nat \ {0}
  /\ StabilityRuns \in Nat \ {0}
  /\ StabilityCandidates \in Nat
  /\ Diagnoses \subseteq DiagnosisTexts \ {None}
  /\ \A batch \in Batches :
       /\ batch \in Seq(ToSet(batch))
       /\ \A c \in ToSet(batch) : c.method \in Methods /\ c.score \in Scores
       /\ \A i, j \in DOMAIN batch : batch[i].candidate_id = batch[j].candidate_id => i = j

VARIABLES
  candidates, \* the batch under evaluation
  stage,      \* "main", "stability" or "done"
  todo,       \* candidates the main loop has not finished
  results,    \* results of the candidate being run, in order
  records,    \* CandidateRecords
  excluded,   \* n_excluded_train
  queue,      \* records the stability experiment has not finished
  stability,  \* StabilityResults
  summary,    \* the EvalResult's numbers, None before the end
  calls       \* agent runs made, and failed, so far (history)

vars == <<candidates, stage, todo, results, records, excluded, queue, stability, summary,
          calls>>

NoVerdict == "insufficient_data"

--------------------------------------------------------------------------------
(* Bugs the run must notice: failed runs that vote, the first run shown as the *)
(* example, unscored records counted as declined, the stability runs left out  *)
(* of either total, the last candidates instead of the closest.  Others stand  *)
(* before the definitions they change.                                         *)
AlwaysSucceeded(r) == TRUE
MainFailures(recs, stab) == SumFunction([i \in DOMAIN recs |-> recs[i].n_failed])
FirstRun(runs, modal) == runs[1]
AllRecords(recs) == DOMAIN recs
MainRunsOnly(recs, stab) == SumFunction([i \in DOMAIN recs |-> recs[i].n_runs])
LastK(recs) ==
  LET pool    == {i \in DOMAIN recs : recs[i].method = "shared_payout"}
      k       == Min({Cardinality(pool), StabilityCandidates})
      nth(n)  == CHOOSE i \in pool : Cardinality({j \in pool : j > i}) = n - 1
  IN  [n \in 1..k |-> recs[nth(n)]]

--------------------------------------------------------------------------------
(* One agent run.                                                             *)

\* What _run_one makes of an exception that escaped the graph.
FailedRun ==
  [verdict |-> RunFailed, run_failed |-> TRUE, diagnosis |-> None, is_grounded |-> FALSE]

\* _run_one: the final state run_agent returns, or FailedRun; nothing can raise
\* where no LLM is called.
RunOne ==
  [c \in UNION {ToSet(batch) : batch \in Batches} |->
     {[verdict |-> Promise(c, h), run_failed |-> ACallFailed(h),
       diagnosis |-> h.text, is_grounded |-> h.verify = "grounded"] :
         h \in CompleteTranscripts(c)}
     \cup (IF AboveFloor(c) THEN {FailedRun} ELSE {})]

Succeeded(r) == ~r.run_failed /\ r.verdict # RunFailed

--------------------------------------------------------------------------------
(* The runs of one candidate.                                                 *)

\* The runs that produced a verdict, by their position.
Completed(runs) == {i \in DOMAIN runs : Succeeded(runs[i])}

Votes(runs, v) == Cardinality({i \in Completed(runs) : runs[i].verdict = v})

\* A bug the run must notice: of two verdicts as common, the one seen last.
LastSeenVote(runs) ==
  LET leaders == {i \in Completed(runs) : \A j \in Completed(runs) :
                    Votes(runs, runs[j].verdict) <= Votes(runs, runs[i].verdict)}
  IN  IF leaders = {} THEN NoVerdict ELSE runs[Max(leaders)].verdict

\* _majority_vote: the most common verdict of the completed runs, the first seen
\* among equals (Counter.most_common); no completed run, no verdict.
MajorityVote(runs) ==
  LET leaders == {i \in Completed(runs) : \A j \in Completed(runs) :
                    Votes(runs, runs[j].verdict) <= Votes(runs, runs[i].verdict)}
  IN  IF leaders = {} THEN NoVerdict ELSE runs[Min(leaders)].verdict

\* run_candidate_repeated, with flip_rate's numerator.
RepeatedRun(runs) ==
  LET modal       == MajorityVote(runs)
      n_succeeded == Cardinality(Completed(runs))
  IN  [modal       |-> modal,
       flips       |-> n_succeeded - Votes(runs, modal),
       n_runs      |-> Len(runs),
       n_succeeded |-> n_succeeded,
       n_failed    |-> Cardinality(DOMAIN runs \ Completed(runs))]

\* The run whose diagnosis is stored: the first completed one that agrees with
\* the vote, or the first attempt when none completed.
Representative(runs, modal) ==
  LET agreeing == {i \in Completed(runs) : runs[i].verdict = modal}
  IN  runs[IF agreeing = {} THEN 1 ELSE Min(agreeing)]

--------------------------------------------------------------------------------
(* Labels and records.                                                        *)

\* label_candidate: the tag of the first member that has one.
Label(c) ==
  LET hit == SelectInSeq(c.members, LAMBDA m : m \in DOMAIN RingTags)
  IN  IF hit = 0
      THEN [ring_id |-> None, ring_type |-> None, difficulty |-> None,
            truth |-> "negative", eligible |-> TRUE]
      ELSE LET tag == RingTags[c.members[hit]]
           IN  [ring_id |-> tag.ring_id, ring_type |-> tag.ring_type,
                difficulty |-> tag.difficulty,
                truth |-> IF tag.ring_type = "legit_cluster" THEN "negative" ELSE "positive",
                eligible |-> tag.split = "test"]

Record(c, runs) ==
  LET label == Label(c)
      run   == RepeatedRun(runs)
      shown == Representative(runs, run.modal)
  IN  [candidate_id |-> c.candidate_id, method |-> c.method, score |-> c.score,
       payout |-> c.payout,
       ring_id |-> label.ring_id, ring_type |-> label.ring_type,
       difficulty |-> label.difficulty, truth |-> label.truth,
       predicted |-> run.modal, flips |-> run.flips,
       n_runs |-> run.n_runs, n_failed |-> run.n_failed,
       diagnosis |-> shown.diagnosis, is_grounded |-> shown.is_grounded]

\* A StabilityResult.
StabilityResult(record, runs) ==
  LET run == RepeatedRun(runs)
  IN  [candidate_id |-> record.candidate_id, modal |-> run.modal, flips |-> run.flips,
       n_runs |-> run.n_runs, n_failed |-> run.n_failed]

--------------------------------------------------------------------------------
(* Scores.                                                                    *)

\* The records with a verdict, by their position.
Scoreable(recs) == {i \in DOMAIN recs : recs[i].predicted # NoVerdict}

\* compute_metrics: the records of a truth, flagged or not.
Cell(recs, truth, flagged) ==
  {i \in Scoreable(recs) :
     recs[i].truth = truth /\ (recs[i].predicted = "ring_flagged" <=> flagged)}

Metrics(recs) ==
  [tp |-> Cardinality(Cell(recs, "positive", TRUE)),
   fn |-> Cardinality(Cell(recs, "positive", FALSE)),
   fp |-> Cardinality(Cell(recs, "negative", TRUE)),
   tn |-> Cardinality(Cell(recs, "negative", FALSE))]

\* The group a record is counted in, and compute_breakdown's rows by group.
Group(r) ==
  IF r.truth = "positive" THEN <<r.ring_type, r.difficulty>>
  ELSE IF r.ring_type # None THEN <<r.ring_type>> ELSE <<"no_ring (coincidental)">>

GroupRow(recs, g) ==
  LET rows == {i \in Scoreable(recs) : Group(recs[i]) = g}
  IN  [kind |-> recs[Min(rows)].truth, n |-> Cardinality(rows),
       n_flagged |-> Cardinality({i \in rows : recs[i].predicted = "ring_flagged"})]

Breakdown(recs) ==
  [g \in {Group(recs[i]) : i \in Scoreable(recs)} |-> GroupRow(recs, g)]

\* A stable sort by the distance to the flag floor: which of two records is first.
Distance(r) ==
  LET d == r.score - FlagScoreFloor("shared_payout") IN IF d < 0 THEN -d ELSE d

Closer(recs, i, j) ==
  \/ Distance(recs[i]) < Distance(recs[j])
  \/ Distance(recs[i]) = Distance(recs[j]) /\ i < j

\* select_borderline: the shared_payout records closest to the flag floor, in order.
SelectBorderline(recs) ==
  LET pool   == {i \in DOMAIN recs : recs[i].method = "shared_payout"}
      k      == IF Cardinality(pool) < StabilityCandidates
                THEN Cardinality(pool) ELSE StabilityCandidates
      nth(n) == CHOOSE i \in pool : Cardinality({j \in pool : Closer(recs, j, i)}) = n - 1
  IN  [n \in 1..k |-> recs[nth(n)]]

\* n_runs_attempted and n_runs_failed, across records and stability results.
RunsAttempted(recs, stab) ==
  SumFunction([i \in DOMAIN recs |-> recs[i].n_runs])
    + SumFunction([i \in DOMAIN stab |-> stab[i].n_runs])

RunsFailed(recs, stab) ==
  SumFunction([i \in DOMAIN recs |-> recs[i].n_failed])
    + SumFunction([i \in DOMAIN stab |-> stab[i].n_failed])

--------------------------------------------------------------------------------
Init ==
  /\ stage = "main"
  /\ candidates \in Batches
  /\ todo = candidates
  /\ results = <<>> /\ records = <<>> /\ excluded = 0
  /\ queue = <<>> /\ stability = <<>> /\ summary = None
  /\ calls = [made |-> 0, failed |-> 0]

\* A call of _run_one returns r.
Return(r) ==
  /\ results' = Append(results, r)
  /\ calls' = [made   |-> calls.made + 1,
               failed |-> calls.failed + IF Succeeded(r) THEN 0 ELSE 1]

\* Two bugs the run must notice: a train candidate left out without being
\* counted, and a candidate recorded only when one of its runs completed.
SilentExclude ==
  /\ stage = "main" /\ todo # <<>>
  /\ ~Label(Head(todo)).eligible
  /\ todo' = Tail(todo)
  /\ UNCHANGED <<candidates, stage, results, records, excluded, queue, stability, summary,
                 calls>>
DemandingRecordMain ==
  /\ stage = "main" /\ todo # <<>>
  /\ Len(results) = MainRuns
  /\ \E i \in DOMAIN results : Succeeded(results[i])
  /\ records' = Append(records, Record(Head(todo), results))
  /\ todo' = Tail(todo)
  /\ results' = <<>>
  /\ UNCHANGED <<candidates, stage, excluded, queue, stability, summary, calls>>

\* A candidate whose matched ring is in the train split is left out.
Exclude ==
  /\ stage = "main" /\ todo # <<>>
  /\ ~Label(Head(todo)).eligible
  /\ excluded' = excluded + 1
  /\ todo' = Tail(todo)
  /\ UNCHANGED <<candidates, stage, results, records, queue, stability, summary, calls>>

RunMain(r) ==
  /\ stage = "main" /\ todo # <<>>
  /\ Label(Head(todo)).eligible
  /\ Len(results) < MainRuns
  /\ Return(r)
  /\ UNCHANGED <<candidates, stage, todo, records, excluded, queue, stability, summary>>

RecordMain ==
  /\ stage = "main" /\ todo # <<>>
  /\ Len(results) = MainRuns
  /\ records' = Append(records, Record(Head(todo), results))
  /\ todo' = Tail(todo)
  /\ results' = <<>>
  /\ UNCHANGED <<candidates, stage, excluded, queue, stability, summary, calls>>

\* candidates_by_id
CandidateOf(record) ==
  candidates[SelectLastInSeq(candidates, LAMBDA c :
               c.candidate_id = record.candidate_id /\ Label(c).eligible)]

\* The main loop is over; the borderline records are run again.
StartStability ==
  /\ stage = "main" /\ todo = <<>>
  /\ stage' = "stability"
  /\ queue' = SelectBorderline(records)
  /\ UNCHANGED <<candidates, todo, results, records, excluded, stability, summary, calls>>

RunStability(r) ==
  /\ stage = "stability" /\ queue # <<>>
  /\ Len(results) < StabilityRuns
  /\ Return(r)
  /\ UNCHANGED <<candidates, stage, todo, records, excluded, queue, stability, summary>>

RecordStability ==
  /\ stage = "stability" /\ queue # <<>>
  /\ Len(results) = StabilityRuns
  /\ stability' = Append(stability, StabilityResult(Head(queue), results))
  /\ queue' = Tail(queue)
  /\ results' = <<>>
  /\ UNCHANGED <<candidates, stage, todo, records, excluded, summary, calls>>

\* The EvalResult's numbers.
EvalResult ==
  [metrics   |-> Metrics(records),
   breakdown |-> Breakdown(records),
   total     |-> Len(candidates),
   excluded  |-> excluded,
   eligible  |-> Len(records),
   unscored  |-> Cardinality({i \in DOMAIN records : records[i].predicted = NoVerdict}),
   attempted |-> RunsAttempted(records, stability),
   failed    |-> RunsFailed(records, stability)]

Finish ==
  /\ stage = "stability" /\ queue = <<>>
  /\ stage' = "done"
  /\ summary' = EvalResult
  /\ UNCHANGED <<candidates, todo, results, records, excluded, queue, stability, calls>>

Next ==
  \/ Exclude
  \/ /\ stage = "main" /\ todo # <<>>
     /\ \E r \in RunOne[Head(todo)] : RunMain(r)
  \/ RecordMain
  \/ StartStability
  \/ /\ stage = "stability" /\ queue # <<>>
     /\ \E r \in RunOne[CandidateOf(Head(queue))] : RunStability(r)
  \/ RecordStability
  \/ Finish

\* The process runs on; every agent run comes back (Agent's ImplementsFairContract).
Spec == Init /\ [][Next]_vars /\ WF_vars(Next)

--------------------------------------------------------------------------------
(* The report (src/eval/report.py): what its tables, its run-health banner and *)
(* its two worked examples say.                                               *)

\* A table row: how many runs completed, with a warning unless all did, the
\* verdict, or "insufficient data", and the flips among the completed runs.
TableRow(r, verdict) ==
  [candidate_id |-> r.candidate_id,
   n_runs       |-> r.n_runs,
   completed    |-> r.n_runs - r.n_failed,
   warned       |-> r.n_failed # 0,
   verdict      |-> IF verdict = NoVerdict THEN "insufficient data" ELSE verdict,
   flips        |-> IF r.n_failed = r.n_runs THEN None ELSE r.flips]

FirstOf(recs, Test(_)) ==
  LET i == SelectInSeq(recs, Test) IN IF i = 0 THEN None ELSE recs[i]

PositiveExample(recs) ==
  LET flagged(r) == r.truth = "positive" /\ r.predicted = "ring_flagged"
      obvious    == FirstOf(recs, LAMBDA r : flagged(r) /\ r.difficulty = "obvious")
  IN  IF obvious # None THEN obvious ELSE FirstOf(recs, flagged)

\* The payout account the report prefers to show (C680344850).
PreferredPayout == "C680344850"

NegativeExample(recs) ==
  LET unplanted(r) == r.truth = "negative" /\ r.ring_id = None
      preferred    == FirstOf(recs, LAMBDA r : unplanted(r) /\ r.payout = PreferredPayout)
  IN  IF preferred # None THEN preferred ELSE FirstOf(recs, unplanted)

WorkedExample(record) ==
  IF record = None THEN None
  ELSE [candidate_id |-> record.candidate_id, verdict |-> record.predicted,
        diagnosis |-> record.diagnosis, warned |-> record.n_failed # 0]

\* generate_report
Report(recs, stab, sum) ==
  [banner    |-> sum.failed # 0,
   metrics   |-> sum.metrics,
   scored    |-> sum.eligible - sum.unscored,
   table     |-> [i \in DOMAIN recs |-> TableRow(recs[i], recs[i].predicted)],
   breakdown |-> sum.breakdown,
   stability |-> [i \in DOMAIN stab |-> TableRow(stab[i], stab[i].modal)],
   positive  |-> WorkedExample(PositiveExample(recs)),
   negative  |-> WorkedExample(NegativeExample(recs))]

--------------------------------------------------------------------------------
(* Properties.                                                                *)

Predictions == Judgments \cup {NoVerdict}

\* Every variable keeps its type; no run is left over between candidates, and
\* the main loop never loses one.
TypeOK ==
  /\ candidates \in Batches
  /\ stage \in {"main", "stability", "done"}
  /\ Len(results) <= IF stage = "main" THEN MainRuns ELSE StabilityRuns
  /\ \A i \in DOMAIN records : records[i].predicted \in Predictions
  /\ \A i \in DOMAIN stability : stability[i].modal \in Predictions
  /\ Len(records) + excluded + Len(todo) = Len(candidates)

\* "Failed runs are not votes": a candidate is without a verdict exactly when
\* none of its runs completed, and a failed run never becomes its verdict.
FailedRunsDoNotVote ==
  /\ \A i \in DOMAIN records :
       records[i].predicted = NoVerdict <=> records[i].n_failed = records[i].n_runs
  /\ \A i \in DOMAIN stability :
       stability[i].modal = NoVerdict <=> stability[i].n_failed = stability[i].n_runs
  /\ \A i \in DOMAIN records : records[i].predicted # RunFailed

\* The stored diagnosis is one a reader can follow to the verdict: a flag is
\* shown with a grounded text that reads as a yes, a clearance with one that
\* reads as a no.
ExampleSupportsVerdict ==
  \A i \in DOMAIN records :
    LET r == records[i]
    IN  r.predicted \in {"ring_flagged", "cleared"} =>
          /\ r.diagnosis # None /\ r.is_grounded
          /\ Q1Answer(r.diagnosis.words) =
               IF r.predicted = "ring_flagged" THEN "yes" ELSE "no"

\* Whenever a candidate is recorded, a judgment that more than half of its
\* completed runs reached is its verdict, no other judgment beat it, and of two
\* that are level the one reached first is the verdict.
VoteIsRespected ==
  [][\A v \in Judgments :
       Len(records') > Len(records) =>
         LET completed == {i \in DOMAIN results : Succeeded(results[i])}
             votes(w)  == Cardinality({i \in completed : results[i].verdict = w})
             winner    == records'[Len(records')].predicted
         IN  /\ 2 * votes(v) > Cardinality(completed) => winner = v
             /\ votes(v) > 0 => votes(winner) >= votes(v)
             /\ votes(v) = votes(winner) =>
                  \A i \in completed : results[i].verdict = v =>
                    \E j \in completed : j <= i /\ results[j].verdict = winner]_vars

\* The candidates chosen for the stability experiment are closer to the flag floor
\* than any left out, or as close and recorded earlier, and nothing but fewer
\* candidates makes them fewer.
BorderlineIsClosest ==
  stage = "stability" /\ stability = <<>> =>
    LET distance(r) == IF r.score < 4000 THEN 4000 - r.score ELSE r.score - 4000
        payout == {i \in DOMAIN records : records[i].method = "shared_payout"}
        chosen == {i \in payout : records[i] \in ToSet(queue)}
    IN  /\ Len(queue) = Cardinality(chosen)
        /\ \A i \in chosen, j \in payout \ chosen :
             /\ Len(queue) = StabilityCandidates
             /\ \/ distance(records[i]) < distance(records[j])
                \/ distance(records[i]) = distance(records[j]) /\ i < j

\* The four cells, the rows of the breakdown and the counts of left-out
\* candidates account for every candidate exactly once, and the run-health numbers
\* are the runs that were really made and those that really failed, stability runs
\* included.
ScoresAddUp ==
  stage = "done" =>
    LET m            == summary.metrics
        rows         == summary.breakdown
        kind(k)      == {g \in DOMAIN rows : rows[g].kind = k}
        n(k)         == SumFunction([g \in kind(k) |-> rows[g].n])
        n_flagged(k) == SumFunction([g \in kind(k) |-> rows[g].n_flagged])
    IN  /\ m.tp + m.fn + m.fp + m.tn + summary.unscored = summary.eligible
        /\ summary.eligible + summary.excluded = summary.total
        /\ n("positive") = m.tp + m.fn /\ n_flagged("positive") = m.tp
        /\ n("negative") = m.fp + m.tn /\ n_flagged("negative") = m.fp
        /\ summary.attempted = calls.made /\ summary.failed = calls.failed

\* "A reader can never mistake repeated infrastructure failures for a stable,
\* unanimous verdict" (src/eval/report.py:33-35): whenever a run failed the banner
\* stands and a row warns, the rows show all the failures there were, a row
\* without a warning has the verdict of every run it names, and the worked example
\* and the row of a candidate warn alike.
FailuresAreVisible ==
  stage = "done" =>
    LET page       == Report(records, stability, summary)
        missing(t) == SumFunction([i \in DOMAIN t |-> t[i].n_runs - t[i].completed])
        rows       == ToSet(page.table) \cup ToSet(page.stability)
    IN  /\ page.banner <=> calls.failed > 0
        /\ page.banner <=> \E row \in rows : row.warned
        /\ missing(page.table) + missing(page.stability) = calls.failed
        /\ \A row \in rows : row.verdict \notin Judgments => row.warned /\ row.flips = None
        /\ \A shown \in {page.positive, page.negative} \ {None} :
             \E row \in ToSet(page.table) :
               row.candidate_id = shown.candidate_id /\ row.warned = shown.warned

\* An outage does not stop the batch: the evaluation ends even when every run
\* fails.
EvaluationEnds == <>(stage = "done")

\* The report's heading "False positive, correctly declined": the negative it
\* shows was declined.
NegativeExampleDeclined ==
  stage = "done" =>
    LET shown == Report(records, stability, summary).negative
    IN  shown # None => shown.verdict \in {"cleared", "needs_more_data"}
================================================================================
