---------------------------- MODULE EvaluationProofs ----------------------------
(* What the evaluation counts, votes and shows holds for every batch of        *)
(* candidates, every number of runs and whatever each of them returns.         *)
EXTENDS Evaluation, OrderLemmas, SequenceTheorems

--------------------------------------------------------------------------------
(* Sums over lists and groups.                                                 *)

\* One more value at the end of a list adds itself to the sum.
LEMMA SumAppends ==
  ASSUME NEW n \in Nat, NEW f, NEW g, \A i \in 1..(n + 1) : f[i] \in Nat,
         \A i \in 1..n : g[i] = f[i]
  PROVE  SumFunctionOnSet(f, 1..(n + 1)) = SumFunctionOnSet(g, 1..n) + f[n + 1]
<1> DEFINE S == 1..(n + 1)
           T == 1..n
<1>1. IsFiniteSet(S) /\ IsFiniteSet(T)
  BY FS_Interval
<1>2. n + 1 \in S /\ S \ {n + 1} = T
  OBVIOUS
<1>3. \A i \in S : f[i] \in Nat
  OBVIOUS
<1>4. \A i \in T : f[i] \in Nat /\ f[i] = g[i]
  OBVIOUS
<1> HIDE DEF S, T
<1>5. /\ SumFunctionOnSet(f, S) = f[n + 1] + SumFunctionOnSet(f, S \ {n + 1})
      /\ SumFunctionOnSet(f, S \ {n + 1}) \in Nat
  BY <1>1, <1>2, <1>3, SumAdds
<1>6. SumFunctionOnSet(f, T) = SumFunctionOnSet(g, T)
  BY <1>1, <1>4, SumsAgree
<1> DEFINE a == SumFunctionOnSet(f, T)
<1>7. a \in Nat /\ SumFunctionOnSet(f, S) = f[n + 1] + a
  BY <1>2, <1>5
<1>8. f[n + 1] \in Nat
  BY <1>2, <1>3
<1>9. SumFunctionOnSet(f, S) = a + f[n + 1]
  <2> HIDE DEF a
  <2> QED BY <1>7, <1>8
<1> QED BY <1>6, <1>9 DEF S, T

\* What of T is in one of the groups K.
InGroups(T, group, K) == {i \in T : group[i] \in K}

\* The sizes of the groups a set falls into add up to what the groups hold.
LEMMA SumOfSizes ==
  ASSUME NEW T, IsFiniteSet(T), NEW group, NEW K, IsFiniteSet(K), NEW size,
         \A g \in K : size[g] = Cardinality(InGroups(T, group, {g}))
  PROVE  SumFunctionOnSet(size, K) = Cardinality(InGroups(T, group, K))
<1> USE DEF InGroups
<1> DEFINE In(L) == {i \in T : group[i] \in L}
           Of(g) == {i \in T : group[i] \in {g}}
           Q == {L \in SUBSET K : SumFunctionOnSet(size, L) = Cardinality(In(L))}
<1>1. \A L : IsFiniteSet(In(L)) /\ In(L) \subseteq T
  BY FS_Subset
<1>2. \A g : IsFiniteSet(Of(g)) /\ Cardinality(Of(g)) \in Nat
  BY FS_Subset, FS_CardinalityType
<1>3. {} \in Q
  <2>1. In({}) = {}
    OBVIOUS
  <2>2. Cardinality(In({})) = 0
    BY <2>1, FS_EmptySet
  <2> HIDE DEF In
  <2> QED BY <2>2, SumOfNothing
<1>4. ASSUME NEW L \in SUBSET K, NEW y \in K \ L, L \in Q
      PROVE  L \cup {y} \in Q
  <2> DEFINE M == L \cup {y}
  <2>1. M \in SUBSET K /\ y \in M /\ M \ {y} = L /\ IsFiniteSet(M)
    BY FS_Subset
  <2>2. \A g \in M : size[g] \in Nat
    BY <1>2
  <2>3. In(M) = In(L) \cup Of(y) /\ In(L) \cap Of(y) = {}
    OBVIOUS
  <2>4. size[y] = Cardinality(Of(y))
    OBVIOUS
  <2> HIDE DEF M, In, Of
  <2>5. SumFunctionOnSet(size, M) = size[y] + SumFunctionOnSet(size, L)
    BY <2>1, <2>2, SumAdds
  <2>6. Cardinality(In(M)) = Cardinality(In(L)) + Cardinality(Of(y))
    <3>1. Cardinality(In(L) \cup Of(y))
            = Cardinality(In(L)) + Cardinality(Of(y)) - Cardinality(In(L) \cap Of(y))
      BY <1>1, <1>2, FS_Union
    <3>2. Cardinality(In(L) \cap Of(y)) = 0
      BY <2>3, FS_EmptySet
    <3>3. Cardinality(In(L)) \in Nat /\ Cardinality(Of(y)) \in Nat
      BY <1>1, <1>2, FS_CardinalityType
    <3> QED BY <2>3, <3>1, <3>2, <3>3
  <2>7. Cardinality(In(L)) \in Nat /\ Cardinality(Of(y)) \in Nat
    BY <1>1, <1>2, FS_CardinalityType
  <2>8. SumFunctionOnSet(size, L) = Cardinality(In(L))
    BY <1>4
  <2>9. SumFunctionOnSet(size, M) = Cardinality(In(M))
    BY <2>4, <2>5, <2>6, <2>7, <2>8
  <2> QED BY <2>1, <2>9 DEF M
<1>5. K \in Q
  <2> HIDE DEF Q
  <2> QED BY <1>3, <1>4, SubsetsByInduction
<1> QED BY <1>5

--------------------------------------------------------------------------------
(* One run, and what a candidate's runs amount to.                             *)

\* What any agent run may return.
RunResults == UNION {RunOne[c] : c \in DOMAIN RunOne}

\* A text a reader can follow to the verdict.
Supports(verdict, diagnosis, grounded) ==
  verdict \in {"ring_flagged", "cleared"} =>
    /\ diagnosis # None /\ grounded
    /\ Q1Answer(diagnosis.words) = IF verdict = "ring_flagged" THEN "yes" ELSE "no"

\* A run that succeeded has a judgment, and a flag or a clearance its text.
LEMMA RunsAreJudged ==
  ASSUME NEW r \in RunResults, Succeeded(r)
  PROVE  r.verdict \in Judgments /\ Supports(r.verdict, r.diagnosis, r.is_grounded)
<1>1. PICK c \in DOMAIN RunOne : r \in RunOne[c]
  BY DEF RunResults
<1> DEFINE Returned == {[verdict |-> Promise(c, h), run_failed |-> ACallFailed(h),
                         diagnosis |-> h.text, is_grounded |-> h.verify = "grounded"] :
                           h \in CompleteTranscripts(c)}
<1>2. r \in Returned \/ r = FailedRun
  BY <1>1 DEF RunOne
<1>3. r # FailedRun
  BY DEF Succeeded, FailedRun
<1>4. PICK h \in CompleteTranscripts(c) :
        r = [verdict |-> Promise(c, h), run_failed |-> ACallFailed(h),
             diagnosis |-> h.text, is_grounded |-> h.verify = "grounded"]
  BY <1>2, <1>3
<1>5. /\ r.verdict = Promise(c, h) /\ r.diagnosis = h.text
      /\ r.is_grounded = (h.verify = "grounded")
  BY <1>4
<1>6. r.verdict # RunFailed
  BY DEF Succeeded
<1>7. r.verdict \in Judgments
  BY <1>5, <1>6 DEF Promise, Judgments, RunFailed
<1>8. ASSUME r.verdict \in {"ring_flagged", "cleared"}
      PROVE  IF r.verdict = "ring_flagged" THEN Flaggable(c, h) ELSE Clearable(c, h)
  BY <1>5, <1>8 DEF Promise, RunFailed
<1>9. ASSUME h.diagnose = "answered"
      PROVE  h.text # None
  <2>1. h.text \in Diagnoses
    BY <1>9 DEF CompleteTranscripts, Silence
  <2> QED BY <2>1, EvaluationAssumption DEF EvaluationAssumption
<1>10. Supports(r.verdict, r.diagnosis, r.is_grounded)
  <2> SUFFICES ASSUME r.verdict \in {"ring_flagged", "cleared"}
               PROVE  /\ r.diagnosis # None /\ r.is_grounded
                      /\ Q1Answer(r.diagnosis.words)
                           = IF r.verdict = "ring_flagged" THEN "yes" ELSE "no"
    BY DEF Supports
  <2>1. h.diagnose = "answered" /\ h.verify = "grounded"
    BY <1>8 DEF Flaggable, Clearable
  <2>2. Q1Answer(h.text.words) = IF r.verdict = "ring_flagged" THEN "yes" ELSE "no"
    BY <1>8 DEF Flaggable, Clearable
  <2> QED BY <1>5, <1>9, <2>1, <2>2
<1> QED BY <1>7, <1>10

\* The vote goes to the first of the completed runs that no other outvotes, and to
\* nothing when none completed.
LEMMA TheVoteIsAVote ==
  ASSUME NEW runs \in Seq(RunResults)
  PROVE  LET winner == MajorityVote(runs)
         IN  /\ Completed(runs) = {} => winner = NoVerdict
             /\ Completed(runs) # {} =>
                  /\ winner \in Judgments
                  /\ \E i \in Completed(runs) : runs[i].verdict = winner
                  /\ \A j \in Completed(runs) : Votes(runs, runs[j].verdict) <= Votes(runs, winner)
                  /\ \A j \in Completed(runs) :
                       Votes(runs, runs[j].verdict) = Votes(runs, winner) =>
                         \E i \in Completed(runs) : i <= j /\ runs[i].verdict = winner
<1> DEFINE done == Completed(runs)
           votes(i) == Votes(runs, runs[i].verdict)
           leaders == {i \in done : \A j \in done : votes(j) <= votes(i)}
<1>1. MajorityVote(runs) = IF leaders = {} THEN NoVerdict ELSE runs[Min(leaders)].verdict
  BY DEF MajorityVote
<1>2. IsFiniteSet(done) /\ done \in SUBSET Nat /\ done \in SUBSET DOMAIN runs
  <2>1. DOMAIN runs = 1..Len(runs) /\ Len(runs) \in Nat
    OBVIOUS
  <2>2. IsFiniteSet(1..Len(runs))
    BY <2>1, FS_Interval
  <2>3. done \in SUBSET (1..Len(runs))
    BY <2>1 DEF Completed
  <2> QED BY <2>1, <2>2, <2>3, FS_Subset
<1>3. \A i \in done : votes(i) \in Nat
  <2> SUFFICES ASSUME NEW i \in done PROVE votes(i) \in Nat
    OBVIOUS
  <2> DEFINE same == {j \in Completed(runs) : runs[j].verdict = runs[i].verdict}
  <2>1. same \in SUBSET done
    OBVIOUS
  <2>2. IsFiniteSet(same)
    BY <1>2, <2>1, FS_Subset
  <2>3. Cardinality(same) \in Nat
    BY <2>2, FS_CardinalityType
  <2> QED BY <2>3 DEF Votes
<1>4. \A i \in done : runs[i].verdict \in Judgments
  <2>1. \A i \in done : runs[i] \in RunResults /\ Succeeded(runs[i])
    BY <1>2 DEF Completed
  <2> HIDE DEF done
  <2> QED BY <2>1, RunsAreJudged
<1> HIDE DEF done, votes
<1>5. done = {} => leaders = {}
  OBVIOUS
<1>6. ASSUME done # {}
      PROVE  leaders # {}
  <2> DEFINE f == [i \in done |-> votes(i)]
  <2>1. IsFiniteSet({f[i] : i \in done})
    <3>1. DOMAIN f = done /\ f = [i \in done |-> f[i]]
      OBVIOUS
    <3> HIDE DEF f
    <3> QED BY <1>2, <3>1, ImageIsFinite
  <2> DEFINE V == {f[i] : i \in done}
  <2>2. \A i \in done : f[i] = votes(i) /\ f[i] \in Nat
    BY <1>3
  <2>3. IsFiniteSet(V)
    BY <2>1
  <2> HIDE DEF f
  <2>4. V \in SUBSET Int /\ V # {}
    BY <1>6, <2>2
  <2>5. Max(V) \in V /\ \A v \in V : v <= Max(V)
    <3> HIDE DEF V
    <3> QED BY <2>3, <2>4, EndsOfFiniteSet
  <2>6. PICK i \in done : f[i] = Max(V)
    BY <2>5
  <2>7. \A j \in done : f[j] <= f[i]
    BY <2>5, <2>6
  <2>8. \A j \in done : votes(j) <= votes(i)
    BY <2>2, <2>7
  <2> QED BY <2>8
<1>7. ASSUME done # {}
      PROVE  Min(leaders) \in leaders /\ \A i \in leaders : Min(leaders) <= i
  <2>1. leaders \in SUBSET Nat /\ leaders # {}
    BY <1>2, <1>6, <1>7
  <2> HIDE DEF leaders
  <2> QED BY <2>1, MinOfNumbers
<1>8. ASSUME done # {}
      PROVE  LET winner == MajorityVote(runs)
             IN  /\ winner \in Judgments
                 /\ \E i \in done : runs[i].verdict = winner
                 /\ \A j \in done : Votes(runs, runs[j].verdict) <= Votes(runs, winner)
                 /\ \A j \in done :
                      Votes(runs, runs[j].verdict) = Votes(runs, winner) =>
                        \E i \in done : i <= j /\ runs[i].verdict = winner
  <2> DEFINE i == Min(leaders)
  <2>1. i \in leaders /\ MajorityVote(runs) = runs[i].verdict /\ \A j \in leaders : i <= j
    BY <1>1, <1>6, <1>7, <1>8
  <2>2. i \in done /\ \A j \in done : votes(j) <= votes(i)
    BY <2>1
  <2> HIDE DEF i
  <2>3. runs[i].verdict \in Judgments
    BY <1>4, <2>2
  <2>4. \A j \in done : votes(j) = votes(i) => i <= j
    <3> SUFFICES ASSUME NEW j \in done, votes(j) = votes(i) PROVE i <= j
      OBVIOUS
    <3>1. j \in leaders
      BY <2>2
    <3> QED BY <2>1, <3>1
  <2> QED BY <2>1, <2>2, <2>3, <2>4 DEF votes
<1> QED BY <1>1, <1>5, <1>8 DEF done

\* The failed runs are those that did not complete.
Failed(runs) == Cardinality(DOMAIN runs \ Completed(runs))

\* The runs that failed are the runs without those that completed.
LEMMA FailuresAreRuns ==
  ASSUME NEW runs \in Seq(RunResults)
  PROVE  /\ IsFiniteSet(Completed(runs)) /\ Cardinality(Completed(runs)) \in Nat
         /\ Failed(runs) \in 0..Len(runs)
         /\ Failed(runs) = Len(runs) <=> Completed(runs) = {}
<1> DEFINE D == DOMAIN runs
           C == Completed(runs)
           n == Len(runs)
<1>1. n \in Nat /\ D = 1..n
  OBVIOUS
<1>2. IsFiniteSet(D) /\ Cardinality(D) = n
  <2> HIDE DEF D, n
  <2> QED BY <1>1, FS_Interval
<1>3. C \in SUBSET D /\ D \cap C = C
  BY DEF Completed
<1> HIDE DEF C, D, n
<1>4. IsFiniteSet(C) /\ Cardinality(C) \in Nat /\ Cardinality(C) <= n
  <2>1. IsFiniteSet(C) /\ Cardinality(C) <= Cardinality(D)
    BY <1>2, <1>3, FS_Subset
  <2> QED BY <1>2, <2>1, FS_CardinalityType
<1>5. Cardinality(D \ C) = n - Cardinality(C)
  BY <1>2, <1>3, FS_Difference
<1>6. Cardinality(C) = 0 <=> C = {}
  BY <1>4, FS_EmptySet
<1> QED BY <1>1, <1>4, <1>5, <1>6 DEF Failed, C, D, n

\* A verdict and the numbers of runs it is shown with: it is none exactly when none
\* of them completed.
Told(verdict, n_runs, n_failed) ==
  /\ verdict \in Predictions
  /\ n_runs \in Nat \ {0}
  /\ n_failed \in 0..n_runs
  /\ verdict = NoVerdict <=> n_failed = n_runs

\* run_candidate_repeated gives the vote with the numbers of its runs.
LEMMA RepeatedRunTells ==
  ASSUME NEW runs \in Seq(RunResults), runs # <<>>
  PROVE  LET run == RepeatedRun(runs)
         IN  /\ run.modal = MajorityVote(runs)
             /\ run.n_runs = Len(runs) /\ run.n_failed = Failed(runs)
             /\ Told(run.modal, run.n_runs, run.n_failed)
<1> DEFINE run == RepeatedRun(runs)
<1>1. run.modal = MajorityVote(runs) /\ run.n_runs = Len(runs) /\ run.n_failed = Failed(runs)
  BY DEF RepeatedRun, Failed
<1>2. Len(runs) \in Nat \ {0}
  OBVIOUS
<1>3. NoVerdict \notin Judgments
  BY DEF NoVerdict, Judgments
<1>4. /\ Completed(runs) = {} => MajorityVote(runs) = NoVerdict
      /\ Completed(runs) # {} => MajorityVote(runs) \in Judgments
  BY TheVoteIsAVote
<1>5. /\ Failed(runs) \in 0..Len(runs)
      /\ Failed(runs) = Len(runs) <=> Completed(runs) = {}
  BY FailuresAreRuns
<1> HIDE DEF run
<1>6. MajorityVote(runs) \in Predictions
  BY <1>4 DEF Predictions
<1>7. MajorityVote(runs) = NoVerdict <=> Failed(runs) = Len(runs)
  BY <1>3, <1>4, <1>5
<1>8. Told(run.modal, run.n_runs, run.n_failed)
  BY <1>1, <1>2, <1>5, <1>6, <1>7 DEF Told
<1> QED BY <1>1, <1>8 DEF run

\* A record made of a candidate's runs.
Sound(r) ==
  /\ r.truth \in {"positive", "negative"}
  /\ r.score \in Int
  /\ Told(r.predicted, r.n_runs, r.n_failed)
  /\ Supports(r.predicted, r.diagnosis, r.is_grounded)

\* Every record the main loop makes is one.
LEMMA RecordsAreSound ==
  ASSUME NEW c, c.score \in Int, NEW runs \in Seq(RunResults), runs # <<>>
  PROVE  LET r == Record(c, runs)
         IN  /\ Sound(r)
             /\ r.candidate_id = c.candidate_id
             /\ r.predicted = MajorityVote(runs)
             /\ r.n_runs = Len(runs) /\ r.n_failed = Failed(runs)
<1> DEFINE r == Record(c, runs)
           run == RepeatedRun(runs)
           label == Label(c)
           shown == Representative(runs, run.modal)
<1>1. /\ r.candidate_id = c.candidate_id /\ r.score = c.score
      /\ r.truth = label.truth /\ r.predicted = run.modal
      /\ r.n_runs = run.n_runs /\ r.n_failed = run.n_failed
      /\ r.diagnosis = shown.diagnosis /\ r.is_grounded = shown.is_grounded
  BY DEF Record
<1>2. label.truth \in {"positive", "negative"}
  BY DEF Label
<1>3. /\ run.modal = MajorityVote(runs)
      /\ run.n_runs = Len(runs) /\ run.n_failed = Failed(runs)
      /\ Told(run.modal, run.n_runs, run.n_failed)
  BY RepeatedRunTells
<1>4. ASSUME run.modal \in {"ring_flagged", "cleared"}
      PROVE  Supports(run.modal, shown.diagnosis, shown.is_grounded)
  <2> DEFINE agreeing == {i \in Completed(runs) : runs[i].verdict = MajorityVote(runs)}
  <2>1. Completed(runs) # {}
    BY <1>3, <1>4, TheVoteIsAVote DEF NoVerdict
  <2>2. agreeing # {}
    BY <2>1, TheVoteIsAVote
  <2>3. shown = runs[Min(agreeing)]
    BY <1>3, <2>2 DEF Representative
  <2>4. agreeing \in SUBSET Nat /\ agreeing \in SUBSET Completed(runs)
    BY DEF Completed
  <2>5. Min(agreeing) \in agreeing
    <3> HIDE DEF agreeing
    <3> QED BY <2>2, <2>4, MinOfNumbers
  <2> DEFINE i == Min(agreeing)
  <2>6. i \in Completed(runs) /\ runs[i].verdict = run.modal
    BY <1>3, <2>5
  <2> HIDE DEF i
  <2>7. runs[i] \in RunResults /\ Succeeded(runs[i])
    BY <2>6 DEF Completed
  <2>8. Supports(runs[i].verdict, runs[i].diagnosis, runs[i].is_grounded)
    BY <2>7, RunsAreJudged
  <2> QED BY <2>3, <2>6, <2>8 DEF i
<1>5. Supports(run.modal, shown.diagnosis, shown.is_grounded)
  BY <1>4 DEF Supports
<1> HIDE DEF r, run, shown, label
<1>6. Sound(r)
  BY <1>1, <1>2, <1>3, <1>5 DEF Sound
<1> QED BY <1>1, <1>3, <1>6 DEF r

\* So is a stability result.
LEMMA StabilityIsTold ==
  ASSUME NEW record, NEW runs \in Seq(RunResults), runs # <<>>
  PROVE  LET s == StabilityResult(record, runs)
         IN  /\ Told(s.modal, s.n_runs, s.n_failed)
             /\ s.n_runs = Len(runs) /\ s.n_failed = Failed(runs)
<1> DEFINE s == StabilityResult(record, runs)
           run == RepeatedRun(runs)
<1>1. s.modal = run.modal /\ s.n_runs = run.n_runs /\ s.n_failed = run.n_failed
  BY DEF StabilityResult
<1>2. /\ run.n_runs = Len(runs) /\ run.n_failed = Failed(runs)
      /\ Told(run.modal, run.n_runs, run.n_failed)
  BY RepeatedRunTells
<1> HIDE DEF s, run
<1> QED BY <1>1, <1>2 DEF s

--------------------------------------------------------------------------------
(* The candidates closest to the floor.                                        *)

\* The chosen records are the payout records of the lowest ranks: each is chosen
\* once, and none that is left out is closer.
LEMMA BorderlineFacts ==
  ASSUME NEW recs, recs \in Seq(ToSet(recs)), \A i \in DOMAIN recs : recs[i].score \in Int
  PROVE  LET pool == {i \in DOMAIN recs : recs[i].method = "shared_payout"}
         IN  \E k \in Nat : \E order :
               /\ SelectBorderline(recs) = [n \in 1..k |-> recs[order[n]]]
               /\ \A n \in 1..k : order[n] \in pool
               /\ \A m, n \in 1..k : order[m] = order[n] => m = n
               /\ \A j \in pool : (\A n \in 1..k : order[n] # j) =>
                    /\ k = StabilityCandidates
                    /\ \A n \in 1..k : Closer(recs, order[n], j)
<1> DEFINE pool == {i \in DOMAIN recs : recs[i].method = "shared_payout"}
           all == Cardinality(pool)
           k == IF all < StabilityCandidates THEN all ELSE StabilityCandidates
           Before(i) == {j \in pool : Closer(recs, j, i)}
           rank(i) == Cardinality(Before(i))
           nth(n) == CHOOSE i \in pool : rank(i) = n - 1
           order == [n \in 1..k |-> nth(n)]
           dist(i) == Distance(recs[i])
<1>1. SelectBorderline(recs) = [n \in 1..k |-> recs[nth(n)]]
  BY DEF SelectBorderline
<1>2. IsFiniteSet(pool) /\ pool \in SUBSET Nat /\ pool \in SUBSET DOMAIN recs
  <2> DEFINE n == Len(recs)
             D == 1..n
  <2>1. DOMAIN recs = D /\ n \in Nat
    OBVIOUS
  <2> HIDE DEF n
  <2>2. IsFiniteSet(D) /\ D \in SUBSET Nat
    BY <2>1, FS_Interval
  <2>3. pool \in SUBSET D
    BY <2>1
  <2> HIDE DEF D
  <2> QED BY <2>1, <2>2, <2>3, FS_Subset
<1>3. \A i \in pool : dist(i) \in Int
  <2> SUFFICES ASSUME NEW i \in pool PROVE dist(i) \in Int
    OBVIOUS
  <2>1. recs[i].score \in Int
    OBVIOUS
  <2> QED BY <2>1 DEF Distance, FlagScoreFloor
<1>4. \A i, j \in pool : Closer(recs, i, j) <=> dist(i) < dist(j) \/ (dist(i) = dist(j) /\ i < j)
  BY DEF Closer
<1> HIDE DEF pool, dist
<1>5. all \in Nat
  BY <1>2, FS_CardinalityType
<1> HIDE DEF all
<1>6. k \in Nat /\ k <= all /\ k <= StabilityCandidates
      /\ (k < all => k = StabilityCandidates)
  BY <1>5, EvaluationAssumption DEF EvaluationAssumption
<1>7. \A i \in pool : ~Closer(recs, i, i)
  <2> SUFFICES ASSUME NEW i \in pool PROVE ~Closer(recs, i, i)
    OBVIOUS
  <2>1. i \in Nat /\ dist(i) \in Int
    BY <1>2, <1>3
  <2> QED BY <1>4, <2>1
<1>8. \A i, j \in pool : i # j => Closer(recs, i, j) \/ Closer(recs, j, i)
  BY <1>2, <1>3, <1>4
<1>9. \A h, i, j \in pool : Closer(recs, h, i) /\ Closer(recs, i, j) => Closer(recs, h, j)
  <2> SUFFICES ASSUME NEW h \in pool, NEW i \in pool, NEW j \in pool,
                      Closer(recs, h, i), Closer(recs, i, j)
               PROVE  Closer(recs, h, j)
    OBVIOUS
  <2>1. {h, i, j} \subseteq Nat
    BY <1>2
  <2>2. {dist(h), dist(i), dist(j)} \subseteq Int
    BY <1>3
  <2>3. dist(h) < dist(i) \/ (dist(h) = dist(i) /\ h < i)
    BY <1>4
  <2>4. dist(i) < dist(j) \/ (dist(i) = dist(j) /\ i < j)
    BY <1>4
  <2>5. dist(h) < dist(j) \/ (dist(h) = dist(j) /\ h < j)
    BY <2>1, <2>2, <2>3, <2>4
  <2> QED BY <1>4, <2>5
<1>10. \A i \in pool : IsFiniteSet(Before(i)) /\ rank(i) \in Nat
  BY <1>2, FS_Subset, FS_CardinalityType
<1>11. ASSUME NEW i \in pool, NEW j \in pool, Closer(recs, i, j)
       PROVE  rank(i) < rank(j)
  <2>1. Before(i) \in SUBSET Before(j) /\ i \in Before(j) /\ i \notin Before(i)
    BY <1>7, <1>9, <1>11
  <2> HIDE DEF Before
  <2>2. rank(i) <= rank(j) /\ rank(i) # rank(j)
    BY <1>10, <2>1, FS_Subset
  <2> QED BY <1>10, <2>2
<1>12. \A n \in 1..all : \E i \in pool : rank(i) = n - 1
  <2> DEFINE R == {p \in pool \X pool : Closer(recs, p[1], p[2])}
  <2>1. \A i, j \in pool : <<i, j>> \in R <=> Closer(recs, i, j)
    OBVIOUS
  <2> HIDE DEF R
  <2>2. /\ \A i \in pool : <<i, i>> \notin R
        /\ \A i, j \in pool : i # j => <<i, j>> \in R \/ <<j, i>> \in R
        /\ \A h, i, j \in pool : <<h, i>> \in R /\ <<i, j>> \in R => <<h, j>> \in R
    BY <1>7, <1>8, <1>9, <2>1
  <2>3. \A n \in 1..all : \E i \in pool : Cardinality({j \in pool : <<j, i>> \in R}) = n - 1
    BY <1>2, <2>2, RanksAreDense, ZenonT(60) DEF all
  <2>4. \A i \in pool : Before(i) = {j \in pool : <<j, i>> \in R}
    BY <2>1
  <2> HIDE DEF Before
  <2> QED BY <2>3, <2>4
<1> HIDE DEF Before, rank, k
<1>13. \A n \in 1..k : nth(n) \in pool /\ rank(nth(n)) = n - 1
  <2> SUFFICES ASSUME NEW n \in 1..k PROVE nth(n) \in pool /\ rank(nth(n)) = n - 1
    OBVIOUS
  <2>1. n \in 1..all
    BY <1>5, <1>6
  <2>2. \E i \in pool : rank(i) = n - 1
    BY <1>12, <2>1
  <2> QED BY <2>2
<1> HIDE DEF nth
<1>14. \A n \in 1..k : order[n] \in pool /\ rank(order[n]) = n - 1
  BY <1>13
<1>15. [n \in 1..k |-> recs[nth(n)]] = [n \in 1..k |-> recs[order[n]]]
  OBVIOUS
<1> HIDE DEF order
<1>16. \A m, n \in 1..k : order[m] = order[n] => m = n
  <2> SUFFICES ASSUME NEW m \in 1..k, NEW n \in 1..k, order[m] = order[n] PROVE m = n
    OBVIOUS
  <2>1. rank(order[m]) = m - 1 /\ rank(order[n]) = n - 1
    BY <1>14
  <2>2. m - 1 = n - 1
    BY <2>1
  <2> QED BY <1>6, <2>2
<1>17. ASSUME NEW j \in pool, \A n \in 1..k : order[n] # j
       PROVE  /\ k = StabilityCandidates
              /\ \A n \in 1..k : Closer(recs, order[n], j)
  <2>1. ASSUME NEW n \in 1..k
        PROVE  Closer(recs, order[n], j)
    <3>1. order[n] \in pool /\ order[n] # j
      BY <1>14, <1>17
    <3>2. CASE Closer(recs, j, order[n])
      <4>1. rank(j) < n - 1 /\ rank(j) \in Nat
        BY <1>10, <1>11, <1>14, <3>1, <3>2
      <4>2. PICK m \in 1..k : m = rank(j) + 1
        BY <1>6, <4>1
      <4>3. order[m] \in pool /\ rank(order[m]) = rank(j)
        BY <1>6, <1>14, <4>1, <4>2
      <4>4. order[m] # j
        BY <1>17
      <4>5. rank(order[m]) < rank(j) \/ rank(j) < rank(order[m])
        BY <1>8, <1>11, <4>3, <4>4
      <4> QED BY <4>1, <4>3, <4>5
    <3> QED BY <1>8, <3>1, <3>2
  <2>2. k < all
    <3> DEFINE D == 1..k
               T == {order[n] : n \in D}
    <3>1. IsFiniteSet(D) /\ Cardinality(D) = k
      BY <1>6, FS_Interval
    <3>2. T \in SUBSET pool /\ j \in pool \ T
      BY <1>14, <1>17
    <3>3. Cardinality(T) = k /\ IsFiniteSet(T)
      <4> DEFINE f == [n \in D |-> order[n]]
      <4>1. f \in Bijection(D, T)
        BY <1>16 DEF Bijection, Injection, Surjection, IsInjective
      <4> HIDE DEF f, T, D
      <4>2. ExistsBijection(D, T)
        BY <4>1 DEF ExistsBijection
      <4> QED BY <3>1, <4>2, FS_Bijection
    <3> HIDE DEF T
    <3>4. k <= all /\ k # all
      BY <1>2, <3>2, <3>3, FS_Subset DEF all
    <3> QED BY <1>5, <1>6, <3>4
  <2> QED BY <1>6, <2>1, <2>2
<1>18. SelectBorderline(recs) = [n \in 1..k |-> recs[order[n]]]
  BY <1>1, <1>15
<1> QED BY <1>6, <1>14, <1>16, <1>17, <1>18 DEF pool

--------------------------------------------------------------------------------
(* The inductive invariant.                                                    *)

\* The batch, the candidates left of it and the runs of the one under way.
UnderWay ==
  /\ candidates \in Batches
  /\ todo \in Seq(ToSet(candidates))
  /\ queue \in Seq(ToSet(records))
  /\ results \in Seq(RunResults)
  /\ results # <<>> =>
       \/ stage = "main" /\ todo # <<>> /\ Label(Head(todo)).eligible
       \/ stage = "stability" /\ queue # <<>>
  /\ stage = "main" => queue = <<>> /\ stability = <<>>
  /\ stage # "main" => todo = <<>>
  /\ stage = "done" => queue = <<>>

\* A record is made of the runs of a candidate of this batch, a stability result of
\* those of a record.
Recorded ==
  /\ records \in Seq(ToSet(records))
  /\ \A i \in DOMAIN records :
       /\ Sound(records[i])
       /\ \E c \in ToSet(candidates) :
            Label(c).eligible /\ c.candidate_id = records[i].candidate_id
  /\ stability \in Seq(ToSet(stability))
  /\ \A i \in DOMAIN stability :
       Told(stability[i].modal, stability[i].n_runs, stability[i].n_failed)

\* No candidate is recorded, or left to be, twice.
RecordedOnce ==
  /\ \A i, j \in DOMAIN records :
       records[i].candidate_id = records[j].candidate_id => i = j
  /\ \A i, j \in DOMAIN todo : todo[i].candidate_id = todo[j].candidate_id => i = j
  /\ \A i \in DOMAIN records, j \in DOMAIN todo :
       records[i].candidate_id # todo[j].candidate_id

\* The runs made so far are those recorded, and those of the candidate under way.
Counted ==
  /\ excluded \in Nat
  /\ calls = [made |-> calls.made, failed |-> calls.failed]
  /\ calls.made = RunsAttempted(records, stability) + Len(results)
  /\ calls.failed = RunsFailed(records, stability) + Failed(results)

\* Until its first candidate is done the queue is what was chosen.
ChosenFirst == stage = "stability" /\ stability = <<>> => queue = SelectBorderline(records)

\* The numbers at the end are those of the records as they are.
SummaryIsCurrent == stage = "done" => summary = EvalResult

EvalInv ==
  /\ TypeOK
  /\ UnderWay
  /\ Recorded
  /\ RecordedOnce
  /\ Counted
  /\ ChosenFirst
  /\ SummaryIsCurrent

--------------------------------------------------------------------------------
(* The invariant is one.                                                       *)

\* Every element of a sequence is one of its set.
LEMMA SeqIsOfItsSet ==
  ASSUME NEW S, NEW s \in Seq(S)
  PROVE  s \in Seq(ToSet(s)) /\ ToSet(s) \subseteq S
<1>1. s \in Seq(ToSet(s))
  BY DEF ToSet
<1> QED BY <1>1 DEF ToSet

\* What is appended to a list of things that satisfy something joins its set.
LEMMA ListGrows ==
  ASSUME NEW s, s \in Seq(ToSet(s)), NEW e
  PROVE  LET more == Append(s, e)
         IN  /\ more \in Seq(ToSet(more))
             /\ Len(more) = Len(s) + 1 /\ Len(s) \in Nat
             /\ DOMAIN more = 1..(Len(s) + 1) /\ DOMAIN s = 1..Len(s)
             /\ \A i \in DOMAIN s : more[i] = s[i]
             /\ more[Len(s) + 1] = e
             /\ ToSet(s) \subseteq ToSet(more)
<1> DEFINE T == ToSet(s) \cup {e}
           more == Append(s, e)
           n == Len(s)
<1>1. s \in Seq(T) /\ e \in T
  OBVIOUS
<1> HIDE DEF T
<1>2. /\ more \in Seq(T) /\ Len(more) = n + 1
      /\ \A i \in 1..n : more[i] = s[i]
      /\ more[n + 1] = e
  BY <1>1, AppendProperties
<1>3. n \in Nat /\ DOMAIN s = 1..n
  BY <1>1
<1>4. DOMAIN more = 1..(n + 1)
  BY <1>2
<1> HIDE DEF more
<1>5. more \in Seq(ToSet(more))
  BY <1>2, SeqIsOfItsSet
<1>6. ToSet(s) \subseteq ToSet(more)
  <2> SUFFICES ASSUME NEW x \in ToSet(s) PROVE x \in ToSet(more)
    OBVIOUS
  <2>1. PICK i \in 1..n : x = s[i]
    BY <1>3 DEF ToSet
  <2>2. i \in DOMAIN more /\ more[i] = x
    BY <1>2, <1>3, <1>4, <2>1
  <2> QED BY <2>2 DEF ToSet
<1> QED BY <1>2, <1>3, <1>4, <1>5, <1>6 DEF more, n

\* Sums over a list grow with it.
LEMMA TotalsGrow ==
  ASSUME NEW s, s \in Seq(ToSet(s)), NEW e,
         \A i \in DOMAIN s : s[i].n_runs \in Nat /\ s[i].n_failed \in Nat,
         e.n_runs \in Nat, e.n_failed \in Nat
  PROVE  LET more == Append(s, e)
         IN  /\ SumFunction([i \in DOMAIN more |-> more[i].n_runs])
                  = SumFunction([i \in DOMAIN s |-> s[i].n_runs]) + e.n_runs
             /\ SumFunction([i \in DOMAIN more |-> more[i].n_failed])
                  = SumFunction([i \in DOMAIN s |-> s[i].n_failed]) + e.n_failed
<1> DEFINE more == Append(s, e)
           n == Len(s)
           made == [i \in DOMAIN more |-> more[i].n_runs]
           madeBefore == [i \in DOMAIN s |-> s[i].n_runs]
           failed == [i \in DOMAIN more |-> more[i].n_failed]
           failedBefore == [i \in DOMAIN s |-> s[i].n_failed]
<1>1. /\ n \in Nat /\ DOMAIN more = 1..(n + 1) /\ DOMAIN s = 1..n
      /\ \A i \in 1..n : more[i] = s[i]
      /\ more[n + 1] = e
  BY ListGrows
<1> HIDE DEF more, n
<1>2. /\ DOMAIN made = 1..(n + 1) /\ DOMAIN madeBefore = 1..n
      /\ DOMAIN failed = 1..(n + 1) /\ DOMAIN failedBefore = 1..n
  BY <1>1
<1>3. /\ \A i \in 1..(n + 1) : made[i] \in Nat /\ failed[i] \in Nat
      /\ \A i \in 1..n : madeBefore[i] = made[i] /\ failedBefore[i] = failed[i]
      /\ made[n + 1] = e.n_runs /\ failed[n + 1] = e.n_failed
  <2>1. \A i \in 1..(n + 1) : made[i] = more[i].n_runs /\ failed[i] = more[i].n_failed
    BY <1>1
  <2>2. \A i \in 1..n : madeBefore[i] = s[i].n_runs /\ failedBefore[i] = s[i].n_failed
    BY <1>1
  <2>3. \A i \in 1..n : s[i].n_runs \in Nat /\ s[i].n_failed \in Nat
    BY <1>1
  <2> HIDE DEF made, madeBefore, failed, failedBefore
  <2>4. n + 1 \in 1..(n + 1) /\ \A i \in 1..(n + 1) : i \in 1..n \/ i = n + 1
    BY <1>1
  <2>5. \A i \in 1..n : i \in 1..(n + 1)
    BY <1>1
  <2>6. made[n + 1] = e.n_runs /\ failed[n + 1] = e.n_failed
    BY <1>1, <2>1, <2>4
  <2>7. \A i \in 1..n : madeBefore[i] = made[i] /\ failedBefore[i] = failed[i]
    BY <1>1, <2>1, <2>2, <2>5
  <2>8. \A i \in 1..(n + 1) : made[i] \in Nat /\ failed[i] \in Nat
    <3> SUFFICES ASSUME NEW i \in 1..(n + 1) PROVE made[i] \in Nat /\ failed[i] \in Nat
      OBVIOUS
    <3>1. CASE i \in 1..n
      BY <2>2, <2>3, <2>7, <3>1
    <3>2. CASE i = n + 1
      BY <2>6, <3>2
    <3> QED BY <2>4, <3>1, <3>2
  <2> QED BY <2>6, <2>7, <2>8
<1> HIDE DEF made, madeBefore, failed, failedBefore
<1>4. SumFunctionOnSet(made, 1..(n + 1)) = SumFunctionOnSet(madeBefore, 1..n) + made[n + 1]
  BY <1>1, <1>3, SumAppends
<1>5. SumFunctionOnSet(failed, 1..(n + 1)) = SumFunctionOnSet(failedBefore, 1..n) + failed[n + 1]
  BY <1>1, <1>3, SumAppends
<1>6. /\ SumFunction(made) = SumFunction(madeBefore) + e.n_runs
      /\ SumFunction(failed) = SumFunction(failedBefore) + e.n_failed
  BY <1>2, <1>3, <1>4, <1>5 DEF SumFunction
<1> QED BY <1>6 DEF made, madeBefore, failed, failedBefore, more

\* One more run is one more failed run unless it succeeded.
LEMMA FailuresGrow ==
  ASSUME NEW runs \in Seq(RunResults), NEW r \in RunResults
  PROVE  /\ Append(runs, r) \in Seq(RunResults) /\ Append(runs, r) # <<>>
         /\ Len(Append(runs, r)) = Len(runs) + 1
         /\ Failed(Append(runs, r)) = Failed(runs) + IF Succeeded(r) THEN 0 ELSE 1
<1> DEFINE more == Append(runs, r)
           n == Len(runs)
           F == DOMAIN runs \ Completed(runs)
           G == DOMAIN more \ Completed(more)
<1>1. /\ more \in Seq(RunResults) /\ more # <<>> /\ Len(more) = n + 1
      /\ \A i \in 1..n : more[i] = runs[i]
      /\ more[n + 1] = r
  BY AppendProperties
<1>2. n \in Nat /\ DOMAIN runs = 1..n /\ DOMAIN more = 1..(n + 1)
  BY <1>1
<1> HIDE DEF more, n
<1>3. \A i : i \in F <=> i \in 1..n /\ ~Succeeded(runs[i])
  BY <1>2 DEF Completed
<1>4. \A i : i \in G <=> i \in 1..(n + 1) /\ ~Succeeded(more[i])
  BY <1>2 DEF Completed
<1>5. \A i : i \in 1..(n + 1) <=> i \in 1..n \/ i = n + 1
  BY <1>2
<1>6. \A i \in 1..n : Succeeded(more[i]) <=> Succeeded(runs[i])
  BY <1>1
<1>7. G = IF Succeeded(r) THEN F ELSE F \cup {n + 1}
  <2> HIDE DEF F, G
  <2>1. \A i : i \in G <=> i \in F \/ (i = n + 1 /\ ~Succeeded(r))
    BY <1>1, <1>3, <1>4, <1>5, <1>6
  <2> QED BY <2>1
<1>8. IsFiniteSet(F) /\ n + 1 \notin F
  <2>1. IsFiniteSet(1..n)
    BY <1>2, FS_Interval
  <2>2. F \in SUBSET (1..n)
    BY <1>3
  <2>3. n + 1 \notin 1..n
    BY <1>2
  <2> HIDE DEF F
  <2> QED BY <2>1, <2>2, <2>3, FS_Subset
<1>9. Cardinality(G) = Cardinality(F) + IF Succeeded(r) THEN 0 ELSE 1
  <2> HIDE DEF F, G
  <2>1. CASE Succeeded(r)
    BY <1>7, <1>8, <2>1, FS_CardinalityType
  <2>2. CASE ~Succeeded(r)
    <3>1. Cardinality(F \cup {n + 1}) = Cardinality(F) + 1
      BY <1>8, FS_AddElement
    <3> QED BY <1>7, <2>2, <3>1
  <2> QED BY <2>1, <2>2
<1> QED BY <1>1, <1>9 DEF Failed, F, G, more, n

\* candidates_by_id has the candidate of every record.
LEMMA CandidateIsThere ==
  ASSUME candidates \in Batches, NEW record,
         \E c \in ToSet(candidates) :
           Label(c).eligible /\ c.candidate_id = record.candidate_id
  PROVE  CandidateOf(record) \in DOMAIN RunOne
<1> DEFINE n == Len(candidates)
           I == {i \in 1..n : candidates[i].candidate_id = record.candidate_id
                                /\ Label(candidates[i]).eligible}
<1>1. candidates \in Seq(ToSet(candidates))
  BY EvaluationAssumption DEF EvaluationAssumption
<1>2. n \in Nat /\ DOMAIN candidates = 1..n
  BY <1>1
<1>3. I # {}
  <2>1. PICK i \in DOMAIN candidates :
          /\ Label(candidates[i]).eligible
          /\ candidates[i].candidate_id = record.candidate_id
    BY DEF ToSet
  <2>2. i \in I
    BY <1>2, <2>1
  <2> QED BY <2>2
<1>4. CandidateOf(record) = candidates[Max(I)]
  BY <1>3 DEF CandidateOf, SelectLastInSeq
<1>5. I \in SUBSET (1..n)
  OBVIOUS
<1> HIDE DEF I, n
<1>6. Max(I) \in 1..n
  BY <1>2, <1>3, <1>5, MaxOfNumbers
<1>7. candidates[Max(I)] \in ToSet(candidates)
  BY <1>2, <1>6 DEF ToSet
<1> QED BY <1>4, <1>7 DEF RunOne

\* A step is one of the seven actions, and a run returns what a run may return.
LEMMA Steps ==
  ASSUME EvalInv, Next
  PROVE  \/ Exclude
         \/ \E r \in RunResults : RunMain(r)
         \/ RecordMain
         \/ StartStability
         \/ \E r \in RunResults : RunStability(r)
         \/ RecordStability
         \/ Finish
<1>1. ASSUME stage = "main", todo # <<>>, NEW r \in RunOne[Head(todo)]
      PROVE  r \in RunResults
  <2>1. candidates \in Batches /\ todo \in Seq(ToSet(candidates))
    BY DEF EvalInv, UnderWay
  <2>2. Head(todo) \in ToSet(candidates)
    BY <1>1, <2>1
  <2>3. Head(todo) \in DOMAIN RunOne
    BY <2>1, <2>2 DEF RunOne
  <2> QED BY <1>1, <2>3 DEF RunResults
<1>2. ASSUME stage = "stability", queue # <<>>, NEW r \in RunOne[CandidateOf(Head(queue))]
      PROVE  r \in RunResults
  <2>1. candidates \in Batches /\ queue \in Seq(ToSet(records))
    BY DEF EvalInv, UnderWay
  <2>2. Head(queue) \in ToSet(records)
    BY <1>2, <2>1
  <2>3. PICK i \in DOMAIN records : records[i] = Head(queue)
    BY <2>2 DEF ToSet
  <2>4. \E c \in ToSet(candidates) :
          Label(c).eligible /\ c.candidate_id = Head(queue).candidate_id
    BY <2>3 DEF EvalInv, Recorded
  <2>5. CandidateOf(Head(queue)) \in DOMAIN RunOne
    BY <2>1, <2>4, CandidateIsThere
  <2> QED BY <1>2, <2>5 DEF RunResults
<1> QED BY <1>1, <1>2 DEF Next

\* What the records and the stability results add up to.
LEMMA TotalsAreNumbers ==
  ASSUME Recorded
  PROVE  /\ SumFunction([i \in DOMAIN records |-> records[i].n_runs]) \in Nat
         /\ SumFunction([i \in DOMAIN records |-> records[i].n_failed]) \in Nat
         /\ SumFunction([i \in DOMAIN stability |-> stability[i].n_runs]) \in Nat
         /\ SumFunction([i \in DOMAIN stability |-> stability[i].n_failed]) \in Nat
         /\ RunsAttempted(records, stability) \in Nat
         /\ RunsFailed(records, stability) \in Nat
<1>1. ASSUME NEW s, s \in Seq(ToSet(s)),
             \A i \in DOMAIN s : s[i].n_runs \in Nat /\ s[i].n_failed \in Nat
      PROVE  /\ SumFunction([i \in DOMAIN s |-> s[i].n_runs]) \in Nat
             /\ SumFunction([i \in DOMAIN s |-> s[i].n_failed]) \in Nat
  <2> DEFINE D == DOMAIN s
             made == [i \in D |-> s[i].n_runs]
             lost == [i \in D |-> s[i].n_failed]
  <2>1. IsFiniteSet(D)
    <3>1. D = 1..Len(s) /\ Len(s) \in Nat
      BY <1>1
    <3> HIDE DEF D
    <3> QED BY <3>1, FS_Interval
  <2>2. \A i \in D : made[i] \in Nat /\ lost[i] \in Nat
    BY <1>1
  <2>3. DOMAIN made = D /\ DOMAIN lost = D
    OBVIOUS
  <2> HIDE DEF made, lost, D
  <2>4. SumFunctionOnSet(made, D) \in Nat /\ SumFunctionOnSet(lost, D) \in Nat
    BY <2>1, <2>2, SumIsZero
  <2> QED BY <2>3, <2>4 DEF SumFunction, made, lost, D
<1>2. \A i \in DOMAIN records : records[i].n_runs \in Nat /\ records[i].n_failed \in Nat
  BY DEF Recorded, Sound, Told
<1>3. \A i \in DOMAIN stability : stability[i].n_runs \in Nat /\ stability[i].n_failed \in Nat
  BY DEF Recorded, Told
<1>4. records \in Seq(ToSet(records)) /\ stability \in Seq(ToSet(stability))
  BY DEF Recorded
<1>5. /\ SumFunction([i \in DOMAIN records |-> records[i].n_runs]) \in Nat
      /\ SumFunction([i \in DOMAIN records |-> records[i].n_failed]) \in Nat
  BY <1>1, <1>2, <1>4
<1>6. /\ SumFunction([i \in DOMAIN stability |-> stability[i].n_runs]) \in Nat
      /\ SumFunction([i \in DOMAIN stability |-> stability[i].n_failed]) \in Nat
  BY <1>1, <1>3, <1>4
<1> QED BY <1>5, <1>6 DEF RunsAttempted, RunsFailed

\* What is left of a list when its first element is done.
LEMMA ListShrinks ==
  ASSUME NEW S, NEW s \in Seq(S), s # <<>>
  PROVE  /\ Tail(s) \in Seq(S) /\ Len(s) \in Nat /\ Len(Tail(s)) = Len(s) - 1
         /\ 1 \in DOMAIN s /\ s[1] = Head(s) /\ Head(s) \in S
         /\ \A i \in DOMAIN Tail(s) : i # 0 /\ i + 1 # 1 /\ i + 1 \in DOMAIN s /\ Tail(s)[i] = s[i + 1]
<1>1. Len(s) \in Nat \ {0} /\ DOMAIN s = 1..Len(s)
  OBVIOUS
<1>2. Tail(s) \in Seq(S) /\ Len(Tail(s)) = Len(s) - 1 /\ Head(s) = s[1] /\ Head(s) \in S
  OBVIOUS
<1>3. DOMAIN Tail(s) = 1..(Len(s) - 1)
  BY <1>2
<1>4. ASSUME NEW i \in DOMAIN Tail(s)
      PROVE  i # 0 /\ i + 1 # 1 /\ i + 1 \in DOMAIN s /\ Tail(s)[i] = s[i + 1]
  <2>1. i \in 1..(Len(s) - 1)
    BY <1>3
  <2>2. i # 0 /\ i + 1 # 1 /\ i + 1 \in 1..Len(s)
    BY <1>1, <2>1
  <2> QED BY <1>1, <2>1, <2>2
<1> QED BY <1>1, <1>2, <1>4

\* The candidates left are told apart, and the first is none of the others.
LEMMA TodoShrinks ==
  ASSUME EvalInv, todo # <<>>
  PROVE  /\ Tail(todo) \in Seq(ToSet(candidates))
         /\ Len(todo) \in Nat /\ Len(Tail(todo)) = Len(todo) - 1
         /\ Head(todo) \in ToSet(candidates) /\ Head(todo).score \in Int
         /\ \A i, j \in DOMAIN Tail(todo) :
              Tail(todo)[i].candidate_id = Tail(todo)[j].candidate_id => i = j
         /\ \A i \in DOMAIN Tail(todo) : Tail(todo)[i].candidate_id # Head(todo).candidate_id
         /\ \A i \in DOMAIN records :
              /\ records[i].candidate_id # Head(todo).candidate_id
              /\ \A j \in DOMAIN Tail(todo) :
                   records[i].candidate_id # Tail(todo)[j].candidate_id
<1> DEFINE S == ToSet(candidates)
<1>1. todo \in Seq(S) /\ candidates \in Batches
  BY DEF EvalInv, UnderWay
<1>2. /\ \A i, j \in DOMAIN todo : todo[i].candidate_id = todo[j].candidate_id => i = j
      /\ \A i \in DOMAIN records, j \in DOMAIN todo :
           records[i].candidate_id # todo[j].candidate_id
  BY DEF EvalInv, RecordedOnce
<1>3. \A c \in S : c.score \in Int
  <2>1. \A c \in S : c.score \in Scores
    BY <1>1, EvaluationAssumption DEF EvaluationAssumption
  <2>2. Scores \subseteq Int
    BY DEF Scores
  <2> QED BY <2>1, <2>2
<1> HIDE DEF S
<1>4. /\ Tail(todo) \in Seq(S) /\ Len(todo) \in Nat /\ Len(Tail(todo)) = Len(todo) - 1
      /\ 1 \in DOMAIN todo /\ todo[1] = Head(todo) /\ Head(todo) \in S
      /\ \A i \in DOMAIN Tail(todo) :
           i # 0 /\ i + 1 # 1 /\ i + 1 \in DOMAIN todo /\ Tail(todo)[i] = todo[i + 1]
  BY <1>1, ListShrinks
<1>5. \A i, j \in DOMAIN Tail(todo) :
        Tail(todo)[i].candidate_id = Tail(todo)[j].candidate_id => i = j
  <2> SUFFICES ASSUME NEW i \in DOMAIN Tail(todo), NEW j \in DOMAIN Tail(todo),
                      Tail(todo)[i].candidate_id = Tail(todo)[j].candidate_id
               PROVE  i = j
    OBVIOUS
  <2>1. i + 1 = j + 1
    BY <1>2, <1>4
  <2>2. i \in Int /\ j \in Int
    BY <1>4
  <2> QED BY <2>1, <2>2
<1>6. \A i \in DOMAIN Tail(todo) : Tail(todo)[i].candidate_id # Head(todo).candidate_id
  BY <1>2, <1>4
<1>7. \A i \in DOMAIN records :
        /\ records[i].candidate_id # Head(todo).candidate_id
        /\ \A j \in DOMAIN Tail(todo) : records[i].candidate_id # Tail(todo)[j].candidate_id
  BY <1>2, <1>4
<1> QED BY <1>3, <1>4, <1>5, <1>6, <1>7 DEF S

\* Leaving a train candidate out keeps the invariant.
LEMMA ExcludeStep ==
  ASSUME EvalInv, Exclude
  PROVE  EvalInv'
<1>1. /\ stage = "main" /\ todo # <<>> /\ ~Label(Head(todo)).eligible
      /\ excluded' = excluded + 1 /\ todo' = Tail(todo)
      /\ UNCHANGED <<candidates, stage, results, records, queue, stability, summary, calls>>
  BY DEF Exclude
<1>2. results = <<>>
  BY <1>1 DEF EvalInv, UnderWay
<1>3. TypeOK'
  <2>1. Len(records') + excluded' + Len(todo') = Len(candidates')
    <3>1. Len(records) \in Nat /\ excluded \in Nat
      BY DEF EvalInv, Recorded, Counted
    <3>2. Len(records) + excluded + Len(todo) = Len(candidates)
      BY DEF EvalInv, TypeOK
    <3>3. Len(todo) \in Nat /\ Len(Tail(todo)) = Len(todo) - 1
      BY <1>1, TodoShrinks
    <3> QED BY <1>1, <3>1, <3>2, <3>3
  <2> QED BY <1>1, <2>1 DEF EvalInv, TypeOK
<1>4. UnderWay'
  BY <1>1, <1>2, TodoShrinks DEF EvalInv, UnderWay
<1>5. Recorded'
  BY <1>1 DEF EvalInv, Recorded
<1>6. RecordedOnce'
  BY <1>1, TodoShrinks DEF EvalInv, RecordedOnce
<1>7. Counted'
  BY <1>1 DEF EvalInv, Counted
<1> QED BY <1>1, <1>3, <1>4, <1>5, <1>6, <1>7 DEF EvalInv, ChosenFirst, SummaryIsCurrent

\* So does one more run, in either round.
LEMMA RunStep ==
  ASSUME EvalInv, NEW r \in RunResults, RunMain(r) \/ RunStability(r)
  PROVE  EvalInv'
<1>1. /\ Return(r)
      /\ UNCHANGED <<candidates, stage, todo, records, excluded, queue, stability, summary>>
      /\ \/ /\ stage = "main" /\ todo # <<>> /\ Label(Head(todo)).eligible
            /\ Len(results) < MainRuns
         \/ /\ stage = "stability" /\ queue # <<>>
            /\ Len(results) < StabilityRuns
  BY DEF RunMain, RunStability
<1>2. results \in Seq(RunResults)
  BY DEF EvalInv, UnderWay
<1>3. /\ results' \in Seq(RunResults) /\ Len(results') = Len(results) + 1
      /\ Failed(results') = Failed(results) + IF Succeeded(r) THEN 0 ELSE 1
  BY <1>1, <1>2, FailuresGrow DEF Return
<1>4. TypeOK'
  <2>1. Len(results') <= IF stage = "main" THEN MainRuns ELSE StabilityRuns
    <3>1. Len(results) \in Nat /\ MainRuns \in Nat /\ StabilityRuns \in Nat
      BY <1>2, EvaluationAssumption DEF EvaluationAssumption
    <3> QED BY <1>1, <1>3, <3>1
  <2> QED BY <1>1, <2>1 DEF EvalInv, TypeOK
<1>5. UnderWay'
  BY <1>1, <1>3 DEF EvalInv, UnderWay
<1>6. Recorded'
  BY <1>1 DEF EvalInv, Recorded
<1>7. RecordedOnce'
  BY <1>1 DEF EvalInv, RecordedOnce
<1>8. Counted'
  <2> DEFINE a == RunsAttempted(records, stability)
             f == RunsFailed(records, stability)
  <2>1. /\ calls'.made = calls.made + 1
        /\ calls'.failed = calls.failed + IF Succeeded(r) THEN 0 ELSE 1
        /\ calls' = [made |-> calls'.made, failed |-> calls'.failed]
    BY <1>1 DEF Return
  <2>2. calls.made = a + Len(results) /\ calls.failed = f + Failed(results)
    BY DEF EvalInv, Counted
  <2>3. a \in Nat /\ f \in Nat
    BY TotalsAreNumbers DEF EvalInv
  <2>4. Len(results) \in Nat /\ Failed(results) \in Nat
    BY <1>2, FailuresAreRuns
  <2> HIDE DEF a, f
  <2>5. calls'.made = a + Len(results') /\ calls'.failed = f + Failed(results')
    BY <1>3, <2>1, <2>2, <2>3, <2>4
  <2> QED BY <1>1, <2>1, <2>5 DEF EvalInv, Counted, a, f
<1>9. ChosenFirst' /\ SummaryIsCurrent'
  BY <1>1 DEF EvalInv, ChosenFirst, SummaryIsCurrent
<1> QED BY <1>4, <1>5, <1>6, <1>7, <1>8, <1>9 DEF EvalInv

\* So does recording a candidate.
LEMMA RecordMainStep ==
  ASSUME EvalInv, RecordMain
  PROVE  EvalInv'
<1> DEFINE rec == Record(Head(todo), results)
           n == Len(records)
<1>1. /\ stage = "main" /\ todo # <<>> /\ Len(results) = MainRuns
      /\ records' = Append(records, rec) /\ todo' = Tail(todo) /\ results' = <<>>
      /\ UNCHANGED <<candidates, stage, excluded, queue, stability, summary, calls>>
  BY DEF RecordMain
<1>2. results \in Seq(RunResults) /\ queue = <<>> /\ stability = <<>>
  BY <1>1 DEF EvalInv, UnderWay
<1>3. results # <<>>
  BY <1>1, EvaluationAssumption DEF EvaluationAssumption
<1>4. Label(Head(todo)).eligible
  BY <1>1, <1>3 DEF EvalInv, UnderWay
<1>5. /\ Head(todo) \in ToSet(candidates) /\ Head(todo).score \in Int
      /\ Tail(todo) \in Seq(ToSet(candidates))
      /\ Len(todo) \in Nat /\ Len(Tail(todo)) = Len(todo) - 1
  BY <1>1, TodoShrinks
<1>6. /\ Sound(rec) /\ rec.candidate_id = Head(todo).candidate_id
      /\ rec.n_runs = Len(results) /\ rec.n_failed = Failed(results)
  BY <1>2, <1>3, <1>5, RecordsAreSound
<1>7. records \in Seq(ToSet(records))
  BY DEF EvalInv, Recorded
<1> HIDE DEF rec
<1>8. /\ records' \in Seq(ToSet(records'))
      /\ Len(records') = n + 1 /\ n \in Nat
      /\ DOMAIN records' = 1..(n + 1) /\ DOMAIN records = 1..n
      /\ \A i \in DOMAIN records : records'[i] = records[i]
      /\ records'[n + 1] = rec
  BY <1>1, <1>7, ListGrows
<1>9. \A i \in DOMAIN records' : i \in DOMAIN records \/ (i = n + 1 /\ records'[i] = rec)
  BY <1>8
<1> HIDE DEF n
<1>10. Recorded'
  <2>1. ASSUME NEW i \in DOMAIN records'
        PROVE  /\ Sound(records'[i])
               /\ \E c \in ToSet(candidates) :
                    Label(c).eligible /\ c.candidate_id = records'[i].candidate_id
    <3>1. CASE i \in DOMAIN records
      BY <1>8, <3>1 DEF EvalInv, Recorded
    <3>2. CASE i = n + 1 /\ records'[i] = rec
      BY <1>4, <1>5, <1>6, <3>2
    <3> QED BY <1>9, <3>1, <3>2
  <2> QED BY <1>1, <1>8, <2>1 DEF EvalInv, Recorded
<1>11. TypeOK'
  <2>1. \A i \in DOMAIN records' : records'[i].predicted \in Predictions
    BY <1>10 DEF Recorded, Sound, Told
  <2>2. Len(records') + excluded + Len(Tail(todo)) = Len(candidates)
    <3>1. n + excluded + Len(todo) = Len(candidates) /\ excluded \in Nat
      BY DEF EvalInv, TypeOK, Counted, n
    <3> QED BY <1>5, <1>8, <3>1
  <2>3. Len(results') <= IF stage' = "main" THEN MainRuns ELSE StabilityRuns
    BY <1>1, EvaluationAssumption DEF EvaluationAssumption
  <2> QED BY <1>1, <2>1, <2>2, <2>3 DEF EvalInv, TypeOK
<1>12. UnderWay'
  BY <1>1, <1>2, <1>5 DEF EvalInv, UnderWay
<1>13. RecordedOnce'
  <2>1. /\ \A i, j \in DOMAIN Tail(todo) :
             Tail(todo)[i].candidate_id = Tail(todo)[j].candidate_id => i = j
        /\ \A i \in DOMAIN Tail(todo) : Tail(todo)[i].candidate_id # rec.candidate_id
        /\ \A i \in DOMAIN records :
             /\ records[i].candidate_id # rec.candidate_id
             /\ \A j \in DOMAIN Tail(todo) :
                  records[i].candidate_id # Tail(todo)[j].candidate_id
    BY <1>1, <1>6, TodoShrinks
  <2>2. \A i, j \in DOMAIN records : records[i].candidate_id = records[j].candidate_id => i = j
    BY DEF EvalInv, RecordedOnce
  <2>3. \A i, j \in DOMAIN records' :
          records'[i].candidate_id = records'[j].candidate_id => i = j
    BY <1>8, <1>9, <2>1, <2>2
  <2>4. \A i \in DOMAIN records', j \in DOMAIN Tail(todo) :
          records'[i].candidate_id # Tail(todo)[j].candidate_id
    BY <1>8, <1>9, <2>1
  <2> QED BY <1>1, <2>1, <2>3, <2>4 DEF RecordedOnce
<1>14. Counted'
  <2> DEFINE made == SumFunction([i \in DOMAIN records |-> records[i].n_runs])
             lost == SumFunction([i \in DOMAIN records |-> records[i].n_failed])
             again == SumFunction([i \in DOMAIN stability |-> stability[i].n_runs])
             lostAgain == SumFunction([i \in DOMAIN stability |-> stability[i].n_failed])
  <2>1. /\ made \in Nat /\ lost \in Nat /\ again \in Nat /\ lostAgain \in Nat
    BY TotalsAreNumbers DEF EvalInv
  <2>2. /\ rec.n_runs \in Nat /\ rec.n_failed \in Nat
        /\ \A i \in DOMAIN records : records[i].n_runs \in Nat /\ records[i].n_failed \in Nat
    BY <1>6 DEF EvalInv, Recorded, Sound, Told
  <2>3. /\ SumFunction([i \in DOMAIN records' |-> records'[i].n_runs]) = made + rec.n_runs
        /\ SumFunction([i \in DOMAIN records' |-> records'[i].n_failed]) = lost + rec.n_failed
    BY <1>1, <1>7, <2>2, TotalsGrow
  <2>4. /\ RunsAttempted(records', stability') = (made + rec.n_runs) + again
        /\ RunsFailed(records', stability') = (lost + rec.n_failed) + lostAgain
    BY <1>1, <2>3 DEF RunsAttempted, RunsFailed
  <2>5. /\ calls.made = (made + again) + rec.n_runs
        /\ calls.failed = (lost + lostAgain) + rec.n_failed
    BY <1>6 DEF EvalInv, Counted, RunsAttempted, RunsFailed
  <2>6. Len(results') = 0 /\ Failed(results') = 0
    <3>1. DOMAIN results' \ Completed(results') = {}
      BY <1>1
    <3> QED BY <1>1, <3>1, FS_EmptySet DEF Failed
  <2> HIDE DEF made, lost, again, lostAgain
  <2>7. /\ calls.made = RunsAttempted(records', stability') + Len(results')
        /\ calls.failed = RunsFailed(records', stability') + Failed(results')
    <3> DEFINE a == RunsAttempted(records', stability')
               b == RunsFailed(records', stability')
               lens == Len(results')
               fails == Failed(results')
    <3>1. lens = 0 /\ fails = 0
      BY <2>6
    <3>2. a = (made + rec.n_runs) + again /\ b = (lost + rec.n_failed) + lostAgain
      BY <2>4
    <3> HIDE DEF a, b, lens, fails
    <3>3. calls.made = a + lens /\ calls.failed = b + fails
      BY <2>1, <2>2, <2>5, <3>1, <3>2
    <3> QED BY <3>3 DEF a, b, lens, fails
  <2> QED BY <1>1, <2>7 DEF EvalInv, Counted
<1>15. ChosenFirst' /\ SummaryIsCurrent'
  BY <1>1 DEF ChosenFirst, SummaryIsCurrent
<1> QED BY <1>10, <1>11, <1>12, <1>13, <1>14, <1>15 DEF EvalInv

\* So does choosing the candidates that are run again.
LEMMA StartStabilityStep ==
  ASSUME EvalInv, StartStability
  PROVE  EvalInv'
<1>1. /\ stage = "main" /\ todo = <<>> /\ stage' = "stability"
      /\ queue' = SelectBorderline(records)
      /\ UNCHANGED <<candidates, todo, results, records, excluded, stability, summary, calls>>
  BY DEF StartStability
<1>2. results = <<>> /\ stability = <<>>
  BY <1>1 DEF EvalInv, UnderWay
<1>3. queue' \in Seq(ToSet(records))
  <2>1. records \in Seq(ToSet(records)) /\ \A i \in DOMAIN records : records[i].score \in Int
    BY DEF EvalInv, Recorded, Sound
  <2>2. PICK k \in Nat : \E order :
          /\ SelectBorderline(records) = [n \in 1..k |-> records[order[n]]]
          /\ \A n \in 1..k : order[n] \in DOMAIN records
    BY <2>1, BorderlineFacts
  <2>3. PICK order :
          /\ SelectBorderline(records) = [n \in 1..k |-> records[order[n]]]
          /\ \A n \in 1..k : order[n] \in DOMAIN records
    BY <2>2
  <2>4. \A n \in 1..k : records[order[n]] \in ToSet(records)
    BY <2>3 DEF ToSet
  <2> QED BY <1>1, <2>3, <2>4
<1>4. TypeOK'
  <2>1. Len(results') <= IF stage' = "main" THEN MainRuns ELSE StabilityRuns
    BY <1>1, <1>2, EvaluationAssumption DEF EvaluationAssumption
  <2> QED BY <1>1, <2>1 DEF EvalInv, TypeOK
<1>5. UnderWay'
  BY <1>1, <1>2, <1>3 DEF EvalInv, UnderWay
<1>6. Recorded' /\ RecordedOnce' /\ Counted'
  BY <1>1 DEF EvalInv, Recorded, RecordedOnce, Counted
<1>7. ChosenFirst' /\ SummaryIsCurrent'
  BY <1>1 DEF ChosenFirst, SummaryIsCurrent
<1> QED BY <1>4, <1>5, <1>6, <1>7 DEF EvalInv

\* So does the end of a candidate's second round.
LEMMA RecordStabilityStep ==
  ASSUME EvalInv, RecordStability
  PROVE  EvalInv'
<1> DEFINE again == StabilityResult(Head(queue), results)
           n == Len(stability)
<1>1. /\ stage = "stability" /\ queue # <<>> /\ Len(results) = StabilityRuns
      /\ stability' = Append(stability, again) /\ queue' = Tail(queue) /\ results' = <<>>
      /\ UNCHANGED <<candidates, stage, todo, records, excluded, summary, calls>>
  BY DEF RecordStability
<1>2. results \in Seq(RunResults) /\ results # <<>>
  BY <1>1, EvaluationAssumption DEF EvalInv, UnderWay, EvaluationAssumption
<1>3. /\ Told(again.modal, again.n_runs, again.n_failed)
      /\ again.n_runs = Len(results) /\ again.n_failed = Failed(results)
  BY <1>2, StabilityIsTold
<1>4. stability \in Seq(ToSet(stability))
  BY DEF EvalInv, Recorded
<1> HIDE DEF again
<1>5. /\ stability' \in Seq(ToSet(stability'))
      /\ n \in Nat /\ Len(stability') = n + 1
      /\ DOMAIN stability' = 1..(n + 1) /\ DOMAIN stability = 1..n
      /\ \A i \in DOMAIN stability : stability'[i] = stability[i]
      /\ stability'[n + 1] = again
  BY <1>1, <1>4, ListGrows
<1>6. \A i \in DOMAIN stability' :
        i \in DOMAIN stability \/ (i = n + 1 /\ stability'[i] = again)
  BY <1>5
<1>7. stability' # <<>>
  BY <1>5
<1> HIDE DEF n
<1>8. Recorded'
  <2>1. ASSUME NEW i \in DOMAIN stability'
        PROVE  Told(stability'[i].modal, stability'[i].n_runs, stability'[i].n_failed)
    <3>1. CASE i \in DOMAIN stability
      BY <1>5, <3>1 DEF EvalInv, Recorded
    <3>2. CASE i = n + 1 /\ stability'[i] = again
      BY <1>3, <3>2
    <3> QED BY <1>6, <3>1, <3>2
  <2> QED BY <1>1, <1>5, <2>1 DEF EvalInv, Recorded
<1>9. TypeOK'
  <2>1. \A i \in DOMAIN stability' : stability'[i].modal \in Predictions
    BY <1>8 DEF Recorded, Told
  <2>2. Len(results') <= IF stage' = "main" THEN MainRuns ELSE StabilityRuns
    BY <1>1, EvaluationAssumption DEF EvaluationAssumption
  <2> QED BY <1>1, <2>1, <2>2 DEF EvalInv, TypeOK
<1>10. UnderWay'
  <2>1. queue \in Seq(ToSet(records))
    BY DEF EvalInv, UnderWay
  <2>2. Tail(queue) \in Seq(ToSet(records))
    BY <1>1, <2>1, ListShrinks
  <2> QED BY <1>1, <2>2 DEF EvalInv, UnderWay
<1>11. RecordedOnce'
  BY <1>1 DEF EvalInv, RecordedOnce
<1>12. Counted'
  <2> DEFINE made == SumFunction([i \in DOMAIN records |-> records[i].n_runs])
             lost == SumFunction([i \in DOMAIN records |-> records[i].n_failed])
             more == SumFunction([i \in DOMAIN stability |-> stability[i].n_runs])
             lostMore == SumFunction([i \in DOMAIN stability |-> stability[i].n_failed])
  <2>1. /\ made \in Nat /\ lost \in Nat /\ more \in Nat /\ lostMore \in Nat
    BY TotalsAreNumbers DEF EvalInv
  <2>2. /\ again.n_runs \in Nat /\ again.n_failed \in Nat
        /\ \A i \in DOMAIN stability : stability[i].n_runs \in Nat /\ stability[i].n_failed \in Nat
    BY <1>3 DEF EvalInv, Recorded, Told
  <2>3. /\ SumFunction([i \in DOMAIN stability' |-> stability'[i].n_runs]) = more + again.n_runs
        /\ SumFunction([i \in DOMAIN stability' |-> stability'[i].n_failed])
             = lostMore + again.n_failed
    BY <1>1, <1>4, <2>2, TotalsGrow
  <2>4. /\ RunsAttempted(records', stability') = made + (more + again.n_runs)
        /\ RunsFailed(records', stability') = lost + (lostMore + again.n_failed)
    BY <1>1, <2>3 DEF RunsAttempted, RunsFailed
  <2>5. /\ calls.made = (made + more) + again.n_runs
        /\ calls.failed = (lost + lostMore) + again.n_failed
    BY <1>3 DEF EvalInv, Counted, RunsAttempted, RunsFailed
  <2>6. Len(results') = 0 /\ Failed(results') = 0
    <3>1. DOMAIN results' \ Completed(results') = {}
      BY <1>1
    <3> QED BY <1>1, <3>1, FS_EmptySet DEF Failed
  <2> HIDE DEF made, lost, more, lostMore
  <2>7. /\ calls.made = RunsAttempted(records', stability') + Len(results')
        /\ calls.failed = RunsFailed(records', stability') + Failed(results')
    <3> DEFINE a == RunsAttempted(records', stability')
               b == RunsFailed(records', stability')
               lens == Len(results')
               fails == Failed(results')
    <3>1. lens = 0 /\ fails = 0
      BY <2>6
    <3>2. a = made + (more + again.n_runs) /\ b = lost + (lostMore + again.n_failed)
      BY <2>4
    <3> HIDE DEF a, b, lens, fails
    <3>3. calls.made = a + lens /\ calls.failed = b + fails
      BY <2>1, <2>2, <2>5, <3>1, <3>2
    <3> QED BY <3>3 DEF a, b, lens, fails
  <2> QED BY <1>1, <2>7 DEF EvalInv, Counted
<1>13. ChosenFirst' /\ SummaryIsCurrent'
  BY <1>1, <1>7 DEF ChosenFirst, SummaryIsCurrent
<1> QED BY <1>8, <1>9, <1>10, <1>11, <1>12, <1>13 DEF EvalInv

\* And so does the summary at the end.
LEMMA FinishStep ==
  ASSUME EvalInv, Finish
  PROVE  EvalInv'
<1>1. /\ stage = "stability" /\ queue = <<>> /\ stage' = "done" /\ summary' = EvalResult
      /\ UNCHANGED <<candidates, todo, results, records, excluded, queue, stability, calls>>
  BY DEF Finish
<1>2. TypeOK'
  BY <1>1 DEF EvalInv, TypeOK
<1>3. UnderWay'
  BY <1>1 DEF EvalInv, UnderWay
<1>4. Recorded' /\ RecordedOnce' /\ Counted'
  BY <1>1 DEF EvalInv, Recorded, RecordedOnce, Counted
<1>5. EvalResult' = EvalResult
  BY <1>1 DEF EvalResult
<1>6. ChosenFirst' /\ SummaryIsCurrent'
  BY <1>1, <1>5 DEF ChosenFirst, SummaryIsCurrent
<1> QED BY <1>2, <1>3, <1>4, <1>6 DEF EvalInv

\* The evaluation starts in the invariant.
LEMMA EvaluationStarts ==
  ASSUME Init
  PROVE  EvalInv
<1>1. /\ stage = "main" /\ candidates \in Batches /\ todo = candidates
      /\ results = <<>> /\ records = <<>> /\ excluded = 0
      /\ queue = <<>> /\ stability = <<>>
      /\ calls = [made |-> 0, failed |-> 0]
  BY DEF Init
<1>2. /\ candidates \in Seq(ToSet(candidates))
      /\ \A i, j \in DOMAIN candidates :
           candidates[i].candidate_id = candidates[j].candidate_id => i = j
  BY <1>1, EvaluationAssumption DEF EvaluationAssumption
<1>3. Len(candidates) \in Nat
  BY <1>2
<1>4. DOMAIN records = {} /\ DOMAIN stability = {} /\ Len(records) = 0
  BY <1>1
<1>5. TypeOK
  <2>1. Len(results) <= IF stage = "main" THEN MainRuns ELSE StabilityRuns
    BY <1>1, EvaluationAssumption DEF EvaluationAssumption
  <2> QED BY <1>1, <1>3, <1>4, <2>1 DEF TypeOK
<1>6. UnderWay
  BY <1>1, <1>2 DEF UnderWay
<1>7. Recorded
  BY <1>1, <1>4 DEF Recorded
<1>8. RecordedOnce
  BY <1>1, <1>2, <1>4 DEF RecordedOnce
<1>9. Counted
  <2>1. SumFunction([i \in DOMAIN records |-> records[i].n_runs]) = 0
    BY <1>4, SumOfNothing DEF SumFunction
  <2>2. SumFunction([i \in DOMAIN records |-> records[i].n_failed]) = 0
    BY <1>4, SumOfNothing DEF SumFunction
  <2>3. SumFunction([i \in DOMAIN stability |-> stability[i].n_runs]) = 0
    BY <1>4, SumOfNothing DEF SumFunction
  <2>4. SumFunction([i \in DOMAIN stability |-> stability[i].n_failed]) = 0
    BY <1>4, SumOfNothing DEF SumFunction
  <2>5. Len(results) = 0 /\ Failed(results) = 0
    <3>1. DOMAIN results \ Completed(results) = {}
      BY <1>1
    <3> QED BY <1>1, <3>1, FS_EmptySet DEF Failed
  <2>6. /\ calls.made = RunsAttempted(records, stability) + Len(results)
        /\ calls.failed = RunsFailed(records, stability) + Failed(results)
    BY <1>1, <2>1, <2>2, <2>3, <2>4, <2>5 DEF RunsAttempted, RunsFailed
  <2> QED BY <1>1, <2>6 DEF Counted
<1> QED BY <1>1, <1>5, <1>6, <1>7, <1>8, <1>9 DEF EvalInv, ChosenFirst, SummaryIsCurrent

\* Every step keeps the invariant.
LEMMA EvaluationKeeps ==
  ASSUME EvalInv, [Next]_vars
  PROVE  EvalInv'
<1>1. CASE Next
  BY <1>1, Steps, ExcludeStep, RunStep, RecordMainStep, StartStabilityStep,
     RecordStabilityStep, FinishStep
<1>2. CASE UNCHANGED vars
  <2>1. UNCHANGED <<candidates, stage, todo, results, records, excluded, queue, stability,
                    summary, calls>>
    BY <1>2 DEF vars
  <2>2. TypeOK' /\ UnderWay'
    BY <2>1 DEF EvalInv, TypeOK, UnderWay
  <2>3. Recorded' /\ RecordedOnce' /\ Counted'
    BY <2>1 DEF EvalInv, Recorded, RecordedOnce, Counted
  <2>4. EvalResult' = EvalResult
    BY <2>1 DEF EvalResult
  <2>5. ChosenFirst' /\ SummaryIsCurrent'
    BY <2>1, <2>4 DEF EvalInv, ChosenFirst, SummaryIsCurrent
  <2> QED BY <2>2, <2>3, <2>5 DEF EvalInv
<1> QED BY <1>1, <1>2

\* Whatever the runs return, the evaluation keeps its invariant.
THEOREM EvaluationInvariant == Spec => []EvalInv
<1>1. Init => EvalInv
  BY EvaluationStarts
<1>2. EvalInv /\ [Next]_vars => EvalInv'
  BY EvaluationKeeps
<1> QED BY <1>1, <1>2, PTL DEF Spec

\* Every variable keeps its type, no run is left over between candidates and no
\* candidate is lost.
THEOREM EvaluationTypeOK == Spec => []TypeOK
<1>1. EvalInv => TypeOK
  BY DEF EvalInv
<1> QED BY <1>1, EvaluationInvariant, PTL

\* Failed runs are no votes: no verdict means no completed run, whatever failed.
THEOREM FailedRunsNeverVote == Spec => []FailedRunsDoNotVote
<1>1. EvalInv => FailedRunsDoNotVote
  <2> SUFFICES ASSUME EvalInv PROVE FailedRunsDoNotVote
    OBVIOUS
  <2>1. \A i \in DOMAIN records : Told(records[i].predicted, records[i].n_runs, records[i].n_failed)
    BY DEF EvalInv, Recorded, Sound
  <2>2. \A i \in DOMAIN stability :
          Told(stability[i].modal, stability[i].n_runs, stability[i].n_failed)
    BY DEF EvalInv, Recorded
  <2>3. RunFailed \notin Predictions
    BY DEF RunFailed, Predictions, Judgments, NoVerdict
  <2> QED BY <2>1, <2>2, <2>3 DEF FailedRunsDoNotVote, Told
<1> QED BY <1>1, EvaluationInvariant, PTL

\* A flag is stored with a grounded yes and a clearance with a grounded no, whichever
\* of its runs the record shows.
THEOREM ExamplesSupportVerdicts == Spec => []ExampleSupportsVerdict
<1>1. EvalInv => ExampleSupportsVerdict
  BY DEF EvalInv, Recorded, Sound, Supports, ExampleSupportsVerdict
<1> QED BY <1>1, EvaluationInvariant, PTL

\* The candidates run again are closer to the flag floor than any left out, or as
\* close and recorded earlier.
THEOREM BorderlineChosen == Spec => []BorderlineIsClosest
<1>1. EvalInv => BorderlineIsClosest
  <2> DEFINE distance(r) == IF r.score < 4000 THEN 4000 - r.score ELSE r.score - 4000
             payout == {i \in DOMAIN records : records[i].method = "shared_payout"}
             chosen == {i \in payout : records[i] \in ToSet(queue)}
  <2> SUFFICES ASSUME EvalInv, stage = "stability", stability = <<>>
               PROVE  /\ Len(queue) = Cardinality(chosen)
                      /\ \A i \in chosen, j \in payout \ chosen :
                           /\ Len(queue) = StabilityCandidates
                           /\ \/ distance(records[i]) < distance(records[j])
                              \/ distance(records[i]) = distance(records[j]) /\ i < j
    BY DEF BorderlineIsClosest
  <2>1. records \in Seq(ToSet(records)) /\ \A i \in DOMAIN records : records[i].score \in Int
    BY DEF EvalInv, Recorded, Sound
  <2>2. queue = SelectBorderline(records)
    BY DEF EvalInv, ChosenFirst
  <2>3. \A i, j \in DOMAIN records : records[i] = records[j] => i = j
    BY DEF EvalInv, RecordedOnce
  <2>4. PICK k \in Nat : \E order :
          /\ SelectBorderline(records) = [n \in 1..k |-> records[order[n]]]
          /\ \A n \in 1..k : order[n] \in payout
          /\ \A m, n \in 1..k : order[m] = order[n] => m = n
          /\ \A j \in payout : (\A n \in 1..k : order[n] # j) =>
               /\ k = StabilityCandidates
               /\ \A n \in 1..k : Closer(records, order[n], j)
    BY <2>1, BorderlineFacts
  <2>5. PICK order :
          /\ SelectBorderline(records) = [n \in 1..k |-> records[order[n]]]
          /\ \A n \in 1..k : order[n] \in payout
          /\ \A m, n \in 1..k : order[m] = order[n] => m = n
          /\ \A j \in payout : (\A n \in 1..k : order[n] # j) =>
               /\ k = StabilityCandidates
               /\ \A n \in 1..k : Closer(records, order[n], j)
    BY <2>4
  <2> DEFINE D == 1..k
             f == [n \in D |-> order[n]]
  <2>6. Len(queue) = k /\ DOMAIN queue = D /\ \A n \in D : queue[n] = records[order[n]]
    BY <2>2, <2>5
  <2>7. \A i : i \in chosen <=> \E n \in D : i = order[n]
    <3>1. ASSUME NEW i \in chosen
          PROVE  \E n \in D : i = order[n]
      <4>1. PICK n \in D : queue[n] = records[i]
        BY <2>6 DEF ToSet
      <4>2. order[n] \in DOMAIN records /\ i \in DOMAIN records /\ records[order[n]] = records[i]
        BY <2>5, <2>6, <4>1
      <4> QED BY <2>3, <4>2
    <3>2. ASSUME NEW n \in D
          PROVE  order[n] \in chosen
      <4>1. records[order[n]] \in ToSet(queue)
        BY <2>6 DEF ToSet
      <4> QED BY <2>5, <4>1
    <3> QED BY <3>1, <3>2
  <2>8. \A r : r.score \in Int => distance(r) = Distance(r)
    BY DEF Distance, FlagScoreFloor
  <2>9. payout \subseteq DOMAIN records /\ chosen \subseteq payout
    OBVIOUS
  <2> HIDE DEF chosen, payout, distance
  <2>10. Cardinality(chosen) = k
    <3>1. IsFiniteSet(D) /\ Cardinality(D) = k
      BY FS_Interval
    <3>2. f \in Bijection(D, chosen)
      BY <2>5, <2>7 DEF Bijection, Injection, Surjection, IsInjective
    <3> HIDE DEF f, D
    <3>3. ExistsBijection(D, chosen)
      BY <3>2 DEF ExistsBijection
    <3> QED BY <3>1, <3>3, FS_Bijection
  <2>11. ASSUME NEW i \in chosen, NEW j \in payout \ chosen
         PROVE  /\ k = StabilityCandidates
                /\ \/ distance(records[i]) < distance(records[j])
                   \/ distance(records[i]) = distance(records[j]) /\ i < j
    <3>1. \A n \in D : order[n] # j
      BY <2>7
    <3>2. PICK n \in D : i = order[n]
      BY <2>7
    <3>3. k = StabilityCandidates /\ Closer(records, i, j)
      BY <2>5, <3>1, <3>2
    <3>4. records[i].score \in Int /\ records[j].score \in Int
      BY <2>1, <2>9
    <3> QED BY <2>8, <3>3, <3>4 DEF Closer
  <2> QED BY <2>6, <2>10, <2>11
<1> QED BY <1>1, EvaluationInvariant, PTL

\* At the end the numbers of the report are those of the runs made.
LEMMA NumbersAtTheEnd ==
  ASSUME EvalInv, stage = "done"
  PROVE  /\ summary = EvalResult
         /\ calls.made = RunsAttempted(records, stability)
         /\ calls.failed = RunsFailed(records, stability)
<1>1. summary = EvalResult
  BY DEF EvalInv, SummaryIsCurrent
<1>2. results = <<>>
  BY DEF EvalInv, UnderWay
<1>3. Len(results) = 0 /\ Failed(results) = 0
  <2>1. DOMAIN results \ Completed(results) = {}
    BY <1>2
  <2> QED BY <1>2, <2>1, FS_EmptySet DEF Failed
<1>4. RunsAttempted(records, stability) \in Nat /\ RunsFailed(records, stability) \in Nat
  BY TotalsAreNumbers DEF EvalInv
<1>5. /\ calls.made = RunsAttempted(records, stability) + Len(results)
      /\ calls.failed = RunsFailed(records, stability) + Failed(results)
  BY DEF EvalInv, Counted
<1> QED BY <1>1, <1>3, <1>4, <1>5

\* Two verdicts never have more votes between them than there are voters.
LEMMA VotersVoteOnce ==
  ASSUME NEW runs \in Seq(RunResults), NEW v, NEW w, v # w
  PROVE  /\ Votes(runs, v) \in Nat /\ Votes(runs, w) \in Nat
         /\ Votes(runs, v) + Votes(runs, w) <= Cardinality(Completed(runs))
         /\ Votes(runs, v) > 0 => \E i \in Completed(runs) : runs[i].verdict = v
<1> DEFINE C == Completed(runs)
           V == {i \in C : runs[i].verdict = v}
           W == {i \in C : runs[i].verdict = w}
<1>1. Votes(runs, v) = Cardinality(V) /\ Votes(runs, w) = Cardinality(W)
  BY DEF Votes
<1>2. IsFiniteSet(C)
  BY FailuresAreRuns
<1>3. V \in SUBSET C /\ W \in SUBSET C /\ V \cup W \in SUBSET C /\ V \cap W = {}
  OBVIOUS
<1>4. V # {} => \E i \in C : runs[i].verdict = v
  OBVIOUS
<1> HIDE DEF C, V, W
<1>5. /\ IsFiniteSet(V) /\ IsFiniteSet(W) /\ Cardinality(C) \in Nat
      /\ Cardinality(V) \in Nat /\ Cardinality(W) \in Nat
  BY <1>2, <1>3, FS_Subset, FS_CardinalityType
<1>6. Cardinality(V \cup W) <= Cardinality(C)
  BY <1>2, <1>3, FS_Subset
<1>7. Cardinality(V \cap W) = 0
  BY <1>3, FS_EmptySet
<1>8. Cardinality(V \cup W) = Cardinality(V) + Cardinality(W) - Cardinality(V \cap W)
  BY <1>5, FS_Union
<1>9. Cardinality(V) > 0 => V # {}
  BY FS_EmptySet
<1> QED BY <1>1, <1>4, <1>5, <1>6, <1>7, <1>8, <1>9 DEF C

\* A judgment more than half of the completed runs reached is the verdict, none beat
\* the verdict, and none that is level with it was reached first.
THEOREM VotesAreRespected == Spec => VoteIsRespected
<1> DEFINE Respected ==
      \A v \in Judgments :
        Len(records') > Len(records) =>
          LET completed == {i \in DOMAIN results : Succeeded(results[i])}
              votes(w)  == Cardinality({i \in completed : results[i].verdict = w})
              winner    == records'[Len(records')].predicted
          IN  /\ 2 * votes(v) > Cardinality(completed) => winner = v
              /\ votes(v) > 0 => votes(winner) >= votes(v)
              /\ votes(v) = votes(winner) =>
                   \A i \in completed : results[i].verdict = v =>
                     \E j \in completed : j <= i /\ results[j].verdict = winner
<1>1. EvalInv /\ [Next]_vars => Respected
  <2> DEFINE winner == records'[Len(records')].predicted
             completed == {i \in DOMAIN results : Succeeded(results[i])}
             votes(w) == Cardinality({i \in completed : results[i].verdict = w})
  <2> SUFFICES ASSUME EvalInv, [Next]_vars, NEW v \in Judgments, Len(records') > Len(records)
               PROVE  /\ 2 * votes(v) > Cardinality(completed) => winner = v
                      /\ votes(v) > 0 => votes(winner) >= votes(v)
                      /\ votes(v) = votes(winner) =>
                           \A i \in completed : results[i].verdict = v =>
                             \E j \in completed : j <= i /\ results[j].verdict = winner
    OBVIOUS
  <2>1. RecordMain
    <3>1. Len(records) \in Nat
      BY DEF EvalInv, Recorded
    <3>2. records' # records
      BY <3>1
    <3> QED BY <3>2 DEF Next, vars, Exclude, RunMain, RecordMain, StartStability, RunStability,
                       RecordStability, Finish
  <2>2. /\ Len(results) = MainRuns /\ todo # <<>>
        /\ records' = Append(records, Record(Head(todo), results))
    BY <2>1 DEF RecordMain
  <2>3. results \in Seq(RunResults) /\ results # <<>>
    BY <2>2, EvaluationAssumption DEF EvalInv, UnderWay, EvaluationAssumption
  <2>4. winner = MajorityVote(results)
    <3> DEFINE rec == Record(Head(todo), results)
    <3>1. rec.predicted = MajorityVote(results)
      <4>1. Head(todo).score \in Int
        BY <2>2, TodoShrinks
      <4> QED BY <2>3, <4>1, RecordsAreSound
    <3>2. records \in Seq(ToSet(records))
      BY DEF EvalInv, Recorded
    <3> HIDE DEF rec
    <3>3. records' = Append(records, rec)
      BY <2>2 DEF rec
    <3>4. Len(records') = Len(records) + 1 /\ records'[Len(records) + 1] = rec
      BY <3>2, <3>3, ListGrows
    <3> QED BY <3>1, <3>4
  <2>5. completed = Completed(results)
    BY DEF Completed
  <2>6. \A w : votes(w) = Votes(results, w)
    BY <2>5 DEF Votes
  <2> HIDE DEF winner, completed, votes
  <2>7. /\ Votes(results, v) \in Nat /\ Cardinality(Completed(results)) \in Nat
        /\ Votes(results, v) > 0 => \E i \in Completed(results) : results[i].verdict = v
    <3>1. v # NoVerdict
      BY DEF Judgments, NoVerdict
    <3> QED BY <2>3, <3>1, VotersVoteOnce, FailuresAreRuns
  <2>8. Votes(results, v) > 0 => Votes(results, winner) >= Votes(results, v)
    <3> SUFFICES ASSUME Votes(results, v) > 0
                 PROVE  Votes(results, v) <= Votes(results, winner)
      OBVIOUS
    <3>1. PICK i \in Completed(results) : results[i].verdict = v
      BY <2>7
    <3> QED BY <2>3, <2>4, <3>1, TheVoteIsAVote
  <2>9. ASSUME 2 * Votes(results, v) > Cardinality(Completed(results)), winner # v
        PROVE  FALSE
    <3>1. /\ Votes(results, winner) \in Nat
          /\ Votes(results, v) + Votes(results, winner) <= Cardinality(Completed(results))
      BY <2>3, <2>9, VotersVoteOnce
    <3>2. Votes(results, v) > 0
      BY <2>7, <2>9
    <3> QED BY <2>7, <2>8, <2>9, <3>1, <3>2
  <2>10. ASSUME Votes(results, v) = Votes(results, winner),
                NEW i \in Completed(results), results[i].verdict = v
         PROVE  \E j \in Completed(results) : j <= i /\ results[j].verdict = winner
    BY <2>3, <2>4, <2>10, TheVoteIsAVote
  <2> QED BY <2>5, <2>6, <2>8, <2>9, <2>10
<1>2. Spec => [][Respected]_vars
  <2> HIDE DEF Respected
  <2> QED BY <1>1, EvaluationInvariant, PTL DEF Spec
<1> QED BY <1>2, PTL DEF VoteIsRespected

\* The sizes of two halves add up to the whole.
LEMMA Halves ==
  ASSUME NEW S, IsFiniteSet(S), NEW A, NEW B, S = A \cup B, A \cap B = {}
  PROVE  /\ Cardinality(A) \in Nat /\ Cardinality(B) \in Nat
         /\ Cardinality(S) = Cardinality(A) + Cardinality(B)
<1>1. IsFiniteSet(A) /\ IsFiniteSet(B)
  BY FS_Subset
<1>2. Cardinality(A \cup B) = Cardinality(A) + Cardinality(B) - Cardinality(A \cap B)
  BY <1>1, FS_Union
<1>3. Cardinality(A \cap B) = 0
  BY FS_EmptySet
<1>4. Cardinality(A) \in Nat /\ Cardinality(B) \in Nat
  BY <1>1, FS_CardinalityType
<1> QED BY <1>2, <1>3, <1>4

\* Only records of the same truth share a group.
LEMMA GroupsAreOfOneTruth ==
  ASSUME NEW r, NEW s, r.truth \in {"positive", "negative"},
         s.truth \in {"positive", "negative"}, Group(r) = Group(s)
  PROVE  r.truth = s.truth
<1>1. ASSUME NEW t, t.truth \in {"positive", "negative"}
      PROVE  Len(Group(t)) = IF t.truth = "positive" THEN 2 ELSE 1
  <2>1. CASE t.truth = "positive"
    <3>1. Group(t) = <<t.ring_type, t.difficulty>>
      BY <2>1 DEF Group
    <3> QED BY <2>1, <3>1
  <2>2. CASE t.truth = "negative"
    <3>1. Group(t) = <<t.ring_type>> \/ Group(t) = <<"no_ring (coincidental)">>
      BY <2>2 DEF Group
    <3> QED BY <2>2, <3>1
  <2> QED BY <1>1, <2>1, <2>2
<1>2. Len(Group(r)) = Len(Group(s))
  OBVIOUS
<1> QED BY <1>1, <1>2

\* The records a truth's rows of the breakdown stand for.
LEMMA RowsAreOfTheirKind ==
  ASSUME NEW recs, recs \in Seq(ToSet(recs)),
         \A i \in DOMAIN recs : recs[i].truth \in {"positive", "negative"},
         NEW k \in {"positive", "negative"}
  PROVE  LET rows == Breakdown(recs)
             kind == {g \in DOMAIN rows : rows[g].kind = k}
         IN  /\ SumFunction([g \in kind |-> rows[g].n])
                  = Cardinality({i \in Scoreable(recs) : recs[i].truth = k})
             /\ SumFunction([g \in kind |-> rows[g].n_flagged]) = Cardinality(Cell(recs, k, TRUE))
<1> DEFINE I == Scoreable(recs)
           F == {i \in I : recs[i].predicted = "ring_flagged"}
           group == [i \in DOMAIN recs |-> Group(recs[i])]
           rows == Breakdown(recs)
           kind == {g \in DOMAIN rows : rows[g].kind = k}
           size == [g \in kind |-> rows[g].n]
           flagged == [g \in kind |-> rows[g].n_flagged]
           G == {Group(recs[i]) : i \in I}
<1>1. I \in SUBSET DOMAIN recs /\ IsFiniteSet(I) /\ I \in SUBSET Nat
  <2> DEFINE D == 1..Len(recs)
  <2>1. DOMAIN recs = D /\ Len(recs) \in Nat
    OBVIOUS
  <2>2. I \in SUBSET D
    BY <2>1 DEF Scoreable
  <2>3. IsFiniteSet(D) /\ D \in SUBSET Nat
    BY <2>1, FS_Interval
  <2> HIDE DEF I, D
  <2> QED BY <2>1, <2>2, <2>3, FS_Subset
<1>2. IsFiniteSet(F)
  BY <1>1, FS_Subset
<1>3. IsFiniteSet(G)
  <2> DEFINE f == [i \in I |-> Group(recs[i])]
  <2>1. f \in Surjection(I, G)
    BY DEF Surjection
  <2> HIDE DEF f, G, I
  <2> QED BY <1>1, <2>1, FS_Surjection
<1>4. DOMAIN rows = G /\ \A g \in G : rows[g] = GroupRow(recs, g)
  BY DEF Breakdown
<1>5. \A g \in G :
        /\ rows[g].kind = recs[Min({i \in I : group[i] = g})].truth
        /\ rows[g].n = Cardinality({i \in I : group[i] = g})
        /\ rows[g].n_flagged = Cardinality({i \in F : group[i] = g})
  <2> SUFFICES ASSUME NEW g \in G
               PROVE  /\ rows[g].kind = recs[Min({i \in I : group[i] = g})].truth
                      /\ rows[g].n = Cardinality({i \in I : group[i] = g})
                      /\ rows[g].n_flagged = Cardinality({i \in F : group[i] = g})
    OBVIOUS
  <2> DEFINE T == {i \in I : Group(recs[i]) = g}
  <2>1. T = {i \in I : group[i] = g}
    BY <1>1
  <2>2. {i \in T : recs[i].predicted = "ring_flagged"} = {i \in F : group[i] = g}
    BY <1>1
  <2>3. rows[g] = [kind |-> recs[Min(T)].truth, n |-> Cardinality(T),
                   n_flagged |-> Cardinality({i \in T : recs[i].predicted = "ring_flagged"})]
    BY <1>4 DEF GroupRow
  <2> DEFINE Tf == {i \in T : recs[i].predicted = "ring_flagged"}
  <2>4. /\ rows[g].kind = recs[Min(T)].truth /\ rows[g].n = Cardinality(T)
        /\ rows[g].n_flagged = Cardinality(Tf)
    <3> HIDE DEF T, rows
    <3> QED BY <2>3
  <2>5. Tf = {i \in F : group[i] = g}
    BY <2>2
  <2> HIDE DEF T, Tf, rows, group, F, I
  <2> QED BY <2>1, <2>4, <2>5
<1>6. ASSUME NEW i \in I
      PROVE  group[i] \in G /\ rows[group[i]].kind = recs[i].truth
  <2> DEFINE g == group[i]
             T == {j \in I : group[j] = g}
  <2>1. g \in G /\ i \in T
    BY <1>1
  <2>2. T \in SUBSET Nat /\ T # {}
    BY <1>1, <2>1
  <2>3. Min(T) \in T
    <3> HIDE DEF T
    <3> QED BY <2>2, MinOfNumbers
  <2> DEFINE first == Min(T)
  <2>4. first \in I /\ group[first] = g
    BY <2>3
  <2> HIDE DEF first
  <2>5. Group(recs[first]) = Group(recs[i]) /\ first \in DOMAIN recs /\ i \in DOMAIN recs
    BY <1>1, <2>4
  <2>6. recs[first].truth = recs[i].truth
    BY <2>5, GroupsAreOfOneTruth
  <2>7. rows[g].kind = recs[first].truth
    BY <1>5, <2>1 DEF first
  <2> QED BY <2>1, <2>6, <2>7
<1> HIDE DEF group, rows, F, G
<1>7. IsFiniteSet(kind) /\ kind \subseteq G
  BY <1>3, <1>4, FS_Subset
<1>8. \A i \in I : group[i] \in kind <=> recs[i].truth = k
  BY <1>4, <1>6
<1>9. \A g \in kind :
        /\ size[g] = Cardinality({i \in I : group[i] = g})
        /\ flagged[g] = Cardinality({i \in F : group[i] = g})
  <2> SUFFICES ASSUME NEW g \in kind
               PROVE  /\ size[g] = Cardinality({i \in I : group[i] = g})
                      /\ flagged[g] = Cardinality({i \in F : group[i] = g})
    OBVIOUS
  <2>1. size[g] = rows[g].n /\ flagged[g] = rows[g].n_flagged /\ g \in G
    BY <1>4
  <2> HIDE DEF kind, size, flagged
  <2> QED BY <1>5, <2>1
<1>x. \A g : /\ InGroups(I, group, {g}) = {i \in I : group[i] = g}
            /\ InGroups(F, group, {g}) = {i \in F : group[i] = g}
  BY DEF InGroups
<1>10. DOMAIN size = kind /\ DOMAIN flagged = kind
  OBVIOUS
<1> HIDE DEF size, flagged, kind, I
<1>11. SumFunctionOnSet(size, kind) = Cardinality(InGroups(I, group, kind))
  <2>1. \A g \in kind : size[g] = Cardinality(InGroups(I, group, {g}))
    BY <1>9, <1>x
  <2>2. IsFiniteSet(I) /\ IsFiniteSet(kind)
    BY <1>1, <1>7
  <2> QED BY ONLY <2>1, <2>2, SumOfSizes
<1>12. SumFunctionOnSet(flagged, kind) = Cardinality(InGroups(F, group, kind))
  <2>1. \A g \in kind : flagged[g] = Cardinality(InGroups(F, group, {g}))
    BY <1>9, <1>x
  <2>2. IsFiniteSet(F) /\ IsFiniteSet(kind)
    BY <1>2, <1>7
  <2> QED BY ONLY <2>1, <2>2, SumOfSizes
<1>13. InGroups(I, group, kind) = {i \in I : recs[i].truth = k}
  BY <1>8 DEF InGroups
<1>14. InGroups(F, group, kind) = Cell(recs, k, TRUE)
  BY <1>8 DEF InGroups, F, I, Cell
<1>15. SumFunction(size) = Cardinality({i \in I : recs[i].truth = k})
  BY <1>10, <1>11, <1>13 DEF SumFunction
<1>16. SumFunction(flagged) = Cardinality(Cell(recs, k, TRUE))
  BY <1>10, <1>12, <1>14 DEF SumFunction
<1> QED BY <1>15, <1>16 DEF size, flagged, kind, rows, I

\* The four cells and the unscored records are all of the records.
LEMMA CellsAreAllRecords ==
  ASSUME NEW recs, recs \in Seq(ToSet(recs)),
         \A i \in DOMAIN recs : recs[i].truth \in {"positive", "negative"}
  PROVE  LET m == Metrics(recs)
             of(k) == Cardinality({i \in Scoreable(recs) : recs[i].truth = k})
         IN  /\ {m.tp, m.fn, m.fp, m.tn} \subseteq Nat
             /\ of("positive") = m.tp + m.fn /\ of("negative") = m.fp + m.tn
             /\ m.tp + m.fn + m.fp + m.tn
                  + Cardinality({i \in DOMAIN recs : recs[i].predicted = NoVerdict}) = Len(recs)
<1> DEFINE I == Scoreable(recs)
           D == DOMAIN recs
           n == Len(recs)
           U == {i \in D : recs[i].predicted = NoVerdict}
           P == {i \in I : recs[i].truth = "positive"}
           N == {i \in I : recs[i].truth = "negative"}
           tp == Cell(recs, "positive", TRUE)
           fn == Cell(recs, "positive", FALSE)
           fp == Cell(recs, "negative", TRUE)
           tn == Cell(recs, "negative", FALSE)
<1>1. IsFiniteSet(D) /\ Cardinality(D) = n
  <2>1. D = 1..n /\ n \in Nat
    OBVIOUS
  <2> HIDE DEF D, n
  <2> QED BY <2>1, FS_Interval
<1>2. D = U \cup I /\ U \cap I = {}
  BY DEF Scoreable
<1>3. I = P \cup N /\ P \cap N = {}
  BY DEF Scoreable
<1>4. P = tp \cup fn /\ tp \cap fn = {}
  BY DEF Cell
<1>5. N = fp \cup tn /\ fp \cap tn = {}
  BY DEF Cell
<1>6. LET m == Metrics(recs)
      IN  m.tp = Cardinality(tp) /\ m.fn = Cardinality(fn)
            /\ m.fp = Cardinality(fp) /\ m.tn = Cardinality(tn)
  BY DEF Metrics
<1> HIDE DEF D, n, U, I, P, N, tp, fn, fp, tn
<1>7. /\ Cardinality(U) \in Nat /\ Cardinality(I) \in Nat
      /\ n = Cardinality(U) + Cardinality(I)
  <2>1. /\ Cardinality(U) \in Nat /\ Cardinality(I) \in Nat
        /\ Cardinality(D) = Cardinality(U) + Cardinality(I)
    BY ONLY <1>1, <1>2, Halves
  <2> QED BY <1>1, <2>1
<1>8. IsFiniteSet(I)
  BY <1>1, <1>2, FS_Subset
<1>9. Cardinality(I) = Cardinality(P) + Cardinality(N)
  BY ONLY <1>3, <1>8, Halves
<1>10. IsFiniteSet(P) /\ IsFiniteSet(N)
  BY <1>3, <1>8, FS_Subset
<1>11. /\ Cardinality(tp) \in Nat /\ Cardinality(fn) \in Nat
       /\ Cardinality(P) = Cardinality(tp) + Cardinality(fn)
  BY ONLY <1>4, <1>10, Halves
<1>12. /\ Cardinality(fp) \in Nat /\ Cardinality(tn) \in Nat
       /\ Cardinality(N) = Cardinality(fp) + Cardinality(tn)
  BY ONLY <1>5, <1>10, Halves
<1>13. Cardinality(tp) + Cardinality(fn) + Cardinality(fp) + Cardinality(tn) + Cardinality(U) = n
  BY <1>7, <1>9, <1>11, <1>12
<1> QED BY <1>6, <1>11, <1>12, <1>13 DEF P, N, U, D, n, I

\* The cells, the rows of the breakdown and the counts of those left out account for
\* every candidate once, and the run-health numbers for every run.
THEOREM ScoresAlwaysAddUp == Spec => []ScoresAddUp
<1>1. EvalInv => ScoresAddUp
  <2> SUFFICES ASSUME EvalInv, stage = "done"
               PROVE  ScoresAddUp
    BY DEF ScoresAddUp
  <2>1. summary = EvalResult
    BY NumbersAtTheEnd
  <2>2. /\ records \in Seq(ToSet(records))
        /\ \A i \in DOMAIN records : records[i].truth \in {"positive", "negative"}
    BY DEF EvalInv, Recorded, Sound
  <2> DEFINE m == Metrics(records)
             rows == Breakdown(records)
             kind(k) == {g \in DOMAIN rows : rows[g].kind = k}
             n(k) == SumFunction([g \in kind(k) |-> rows[g].n])
             n_flagged(k) == SumFunction([g \in kind(k) |-> rows[g].n_flagged])
             U == {i \in DOMAIN records : records[i].predicted = NoVerdict}
  <2>3. /\ summary.metrics = m /\ summary.breakdown = rows
        /\ summary.total = Len(candidates) /\ summary.excluded = excluded
        /\ summary.eligible = Len(records) /\ summary.unscored = Cardinality(U)
    BY <2>1 DEF EvalResult
  <2>4. /\ Cardinality({i \in Scoreable(records) : records[i].truth = "positive"}) = m.tp + m.fn
        /\ Cardinality({i \in Scoreable(records) : records[i].truth = "negative"}) = m.fp + m.tn
        /\ m.tp + m.fn + m.fp + m.tn + Cardinality(U) = Len(records)
    BY <2>2, CellsAreAllRecords
  <2>5. m.tp = Cardinality(Cell(records, "positive", TRUE))
        /\ m.fp = Cardinality(Cell(records, "negative", TRUE))
    BY DEF Metrics
  <2>6. /\ n("positive") = Cardinality({i \in Scoreable(records) : records[i].truth = "positive"})
        /\ n_flagged("positive") = Cardinality(Cell(records, "positive", TRUE))
    BY <2>2, RowsAreOfTheirKind
  <2>7. /\ n("negative") = Cardinality({i \in Scoreable(records) : records[i].truth = "negative"})
        /\ n_flagged("negative") = Cardinality(Cell(records, "negative", TRUE))
    BY <2>2, RowsAreOfTheirKind
  <2>8. Len(records) + excluded = Len(candidates)
    <3>1. todo = <<>> /\ Len(records) + excluded + Len(todo) = Len(candidates)
      BY DEF EvalInv, UnderWay, TypeOK
    <3>2. Len(records) \in Nat /\ excluded \in Nat
      BY <2>2 DEF EvalInv, Counted
    <3> QED BY <3>1, <3>2
  <2>9. /\ n("positive") = m.tp + m.fn /\ n_flagged("positive") = m.tp
        /\ n("negative") = m.fp + m.tn /\ n_flagged("negative") = m.fp
    <3> HIDE DEF m, n, n_flagged
    <3> QED BY <2>4, <2>5, <2>6, <2>7
  <2>10. summary.attempted = calls.made /\ summary.failed = calls.failed
    BY NumbersAtTheEnd DEF EvalResult
  <2> HIDE DEF m, rows, U
  <2> QED BY <2>3, <2>4, <2>8, <2>9, <2>10 DEF ScoresAddUp
<1> QED BY <1>1, EvaluationInvariant, PTL

\* The worked examples are of records.
LEMMA ExamplesAreRecords ==
  ASSUME NEW recs, recs \in Seq(ToSet(recs)),
         NEW shown \in {PositiveExample(recs), NegativeExample(recs)}, shown # None
  PROVE  \E i \in DOMAIN recs : shown = recs[i]
<1> DEFINE n == Len(recs)
<1>1. n \in Nat /\ DOMAIN recs = 1..n
  OBVIOUS
<1>2. ASSUME NEW I \in SUBSET (1..n), I # {}
      PROVE  Min(I) \in DOMAIN recs
  <2>1. I \in SUBSET Nat
    BY <1>1
  <2> HIDE DEF n
  <2> QED BY <1>1, <1>2, <2>1, MinOfNumbers
<1> DEFINE Is(r) == r = None \/ \E i \in DOMAIN recs : r = recs[i]
<1>3. ASSUME NEW I \in SUBSET (1..n), NEW j, j = IF I # {} THEN Min(I) ELSE 0
      PROVE  Is(IF j = 0 THEN None ELSE recs[j])
  BY <1>2, <1>3
<1>4. CASE shown = PositiveExample(recs)
  <2> DEFINE flagged(r) == r.truth = "positive" /\ r.predicted = "ring_flagged"
             J == {i \in 1..n : flagged(recs[i])}
             I == {i \in 1..n : flagged(recs[i]) /\ recs[i].difficulty = "obvious"}
             i == IF I # {} THEN Min(I) ELSE 0
             j == IF J # {} THEN Min(J) ELSE 0
             better == IF i = 0 THEN None ELSE recs[i]
             other == IF j = 0 THEN None ELSE recs[j]
  <2>1. I \in SUBSET (1..n) /\ J \in SUBSET (1..n)
    OBVIOUS
  <2>2. shown = IF better # None THEN better ELSE other
    BY <1>4 DEF PositiveExample, FirstOf, SelectInSeq
  <2>3. Is(better) /\ Is(other)
    <3> HIDE DEF I, J, Is
    <3> QED BY <1>3, <2>1
  <2> HIDE DEF better, other
  <2> QED BY <2>2, <2>3
<1>5. CASE shown = NegativeExample(recs)
  <2> DEFINE unplanted(r) == r.truth = "negative" /\ r.ring_id = None
             J == {i \in 1..n : unplanted(recs[i])}
             I == {i \in 1..n : unplanted(recs[i]) /\ recs[i].payout = PreferredPayout}
             i == IF I # {} THEN Min(I) ELSE 0
             j == IF J # {} THEN Min(J) ELSE 0
             better == IF i = 0 THEN None ELSE recs[i]
             other == IF j = 0 THEN None ELSE recs[j]
  <2>1. I \in SUBSET (1..n) /\ J \in SUBSET (1..n)
    OBVIOUS
  <2>2. shown = IF better # None THEN better ELSE other
    BY <1>5 DEF NegativeExample, FirstOf, SelectInSeq
  <2>3. Is(better) /\ Is(other)
    <3> HIDE DEF I, J, Is
    <3> QED BY <1>3, <2>1
  <2> HIDE DEF better, other
  <2> QED BY <2>2, <2>3
<1> QED BY <1>4, <1>5

\* A row shows its failures, and no verdict but with a warning.
LEMMA RowsWarn ==
  ASSUME NEW r, NEW verdict, Told(verdict, r.n_runs, r.n_failed)
  PROVE  LET row == TableRow(r, verdict)
         IN  /\ row.warned = (r.n_failed # 0)
             /\ row.n_runs - row.completed = r.n_failed
             /\ row.verdict \notin Judgments => row.warned /\ row.flips = None
             /\ row.candidate_id = r.candidate_id
<1> DEFINE row == TableRow(r, verdict)
<1>1. /\ row.warned = (r.n_failed # 0) /\ row.candidate_id = r.candidate_id
      /\ row.n_runs = r.n_runs /\ row.completed = r.n_runs - r.n_failed
      /\ row.verdict = IF verdict = NoVerdict THEN "insufficient data" ELSE verdict
      /\ row.flips = IF r.n_failed = r.n_runs THEN None ELSE r.flips
  BY DEF TableRow
<1>2. /\ verdict \in Judgments \/ verdict = NoVerdict
      /\ r.n_runs \in Nat \ {0} /\ r.n_failed \in Nat
      /\ verdict = NoVerdict <=> r.n_failed = r.n_runs
  BY DEF Told, Predictions
<1> HIDE DEF row
<1>3. row.n_runs - row.completed = r.n_failed
  <2>1. \A a, b \in Nat : a - (a - b) = b
    OBVIOUS
  <2>2. row.n_runs - row.completed = r.n_runs - (r.n_runs - r.n_failed)
    BY <1>1
  <2> QED BY <1>2, <2>1, <2>2
<1>4. row.verdict \notin Judgments => r.n_failed = r.n_runs
  BY <1>1, <1>2
<1>5. r.n_failed = r.n_runs => r.n_failed # 0
  BY <1>2
<1>6. row.verdict \notin Judgments => row.warned /\ row.flips = None
  BY <1>1, <1>4, <1>5
<1> QED BY <1>1, <1>3, <1>6 DEF row

\* A table's missing runs are the failures of its list, and it warns if there are any.
LEMMA TablesShowFailures ==
  ASSUME NEW list, list \in Seq(ToSet(list)), NEW table, DOMAIN table = DOMAIN list,
         \A i \in DOMAIN list :
           /\ list[i].n_failed \in Nat
           /\ table[i].warned = (list[i].n_failed # 0)
           /\ table[i].n_runs - table[i].completed = list[i].n_failed
  PROVE  LET failures == SumFunction([i \in DOMAIN list |-> list[i].n_failed])
         IN  /\ failures \in Nat
             /\ SumFunction([i \in DOMAIN table |-> table[i].n_runs - table[i].completed]) = failures
             /\ failures # 0 <=> \E row \in ToSet(table) : row.warned
<1> DEFINE D == DOMAIN list
           lost == [i \in D |-> list[i].n_failed]
           missing == [i \in D |-> table[i].n_runs - table[i].completed]
<1>1. IsFiniteSet(D)
  <2>1. D = 1..Len(list) /\ Len(list) \in Nat
    OBVIOUS
  <2> HIDE DEF D
  <2> QED BY <2>1, FS_Interval
<1>2. \A i \in D : lost[i] \in Nat /\ missing[i] \in Nat /\ missing[i] = lost[i]
  OBVIOUS
<1>3. DOMAIN lost = D /\ DOMAIN missing = D
  OBVIOUS
<1>4. (\E row \in ToSet(table) : row.warned) <=> \E i \in D : lost[i] # 0
  <2>1. \A i \in D : table[i].warned = (lost[i] # 0)
    OBVIOUS
  <2>2. ToSet(table) = {table[i] : i \in D}
    BY DEF ToSet
  <2> HIDE DEF lost, D
  <2> QED BY <2>1, <2>2
<1> HIDE DEF D, lost, missing
<1>5. /\ SumFunctionOnSet(lost, D) \in Nat
      /\ SumFunctionOnSet(lost, D) = 0 <=> \A i \in D : lost[i] = 0
  BY <1>1, <1>2, SumIsZero
<1>6. SumFunctionOnSet(missing, D) = SumFunctionOnSet(lost, D)
  BY <1>1, <1>2, SumsAgree
<1>7. /\ SumFunction(lost) \in Nat
      /\ SumFunction(missing) = SumFunction(lost)
      /\ SumFunction(lost) # 0 <=> \E row \in ToSet(table) : row.warned
  BY <1>3, <1>4, <1>5, <1>6 DEF SumFunction
<1> QED BY <1>7 DEF D, lost, missing

\* No failed run is hidden by the report: its banner, its rows and its worked examples
\* tell of every one.
THEOREM FailuresAreAlwaysVisible == Spec => []FailuresAreVisible
<1>1. EvalInv => FailuresAreVisible
  <2> DEFINE page == Report(records, stability, summary)
             missing(t) == SumFunction([i \in DOMAIN t |-> t[i].n_runs - t[i].completed])
             main == page.table
             again == page.stability
             rows == ToSet(main) \cup ToSet(again)
             lost == SumFunction([i \in DOMAIN records |-> records[i].n_failed])
             lostAgain == SumFunction([i \in DOMAIN stability |-> stability[i].n_failed])
  <2> SUFFICES ASSUME EvalInv, stage = "done"
               PROVE  /\ page.banner <=> calls.failed > 0
                      /\ page.banner <=> \E row \in rows : row.warned
                      /\ missing(main) + missing(again) = calls.failed
                      /\ \A row \in rows :
                           row.verdict \notin Judgments => row.warned /\ row.flips = None
                      /\ \A shown \in {page.positive, page.negative} \ {None} :
                           \E row \in ToSet(main) :
                             row.candidate_id = shown.candidate_id /\ row.warned = shown.warned
    BY DEF FailuresAreVisible
  <2>1. /\ records \in Seq(ToSet(records))
        /\ \A i \in DOMAIN records :
             Told(records[i].predicted, records[i].n_runs, records[i].n_failed)
        /\ stability \in Seq(ToSet(stability))
        /\ \A i \in DOMAIN stability :
             Told(stability[i].modal, stability[i].n_runs, stability[i].n_failed)
    BY DEF EvalInv, Recorded, Sound
  <2>2. summary.failed = calls.failed /\ calls.failed = lost + lostAgain
    BY NumbersAtTheEnd DEF EvalResult, RunsFailed
  <2>3. /\ page.banner = (summary.failed # 0)
        /\ main = [i \in DOMAIN records |-> TableRow(records[i], records[i].predicted)]
        /\ again = [i \in DOMAIN stability |-> TableRow(stability[i], stability[i].modal)]
        /\ page.positive = WorkedExample(PositiveExample(records))
        /\ page.negative = WorkedExample(NegativeExample(records))
    BY DEF Report
  <2> HIDE DEF page
  <2>4. /\ DOMAIN main = DOMAIN records
        /\ \A i \in DOMAIN records :
             /\ main[i].warned = (records[i].n_failed # 0)
             /\ main[i].n_runs - main[i].completed = records[i].n_failed
             /\ main[i].verdict \notin Judgments => main[i].warned /\ main[i].flips = None
             /\ main[i].candidate_id = records[i].candidate_id
    BY <2>1, <2>3, RowsWarn
  <2>5. /\ DOMAIN again = DOMAIN stability
        /\ \A i \in DOMAIN stability :
             /\ again[i].warned = (stability[i].n_failed # 0)
             /\ again[i].n_runs - again[i].completed = stability[i].n_failed
             /\ again[i].verdict \notin Judgments => again[i].warned /\ again[i].flips = None
    BY <2>1, <2>3, RowsWarn
  <2> HIDE DEF main, again
  <2>6. /\ lost \in Nat /\ missing(main) = lost
        /\ lost # 0 <=> \E row \in ToSet(main) : row.warned
    <3>1. \A i \in DOMAIN records : records[i].n_failed \in Nat
      BY <2>1 DEF Told
    <3> QED BY <2>1, <2>4, <3>1, TablesShowFailures
  <2>7. /\ lostAgain \in Nat /\ missing(again) = lostAgain
        /\ lostAgain # 0 <=> \E row \in ToSet(again) : row.warned
    <3>1. \A i \in DOMAIN stability : stability[i].n_failed \in Nat
      BY <2>1 DEF Told
    <3> QED BY <2>1, <2>5, <3>1, TablesShowFailures
  <2>8. \A row \in rows : row.verdict \notin Judgments => row.warned /\ row.flips = None
    BY <2>4, <2>5 DEF ToSet
  <2>9. ASSUME NEW shown \in {page.positive, page.negative} \ {None}
        PROVE  \E row \in ToSet(main) :
                 row.candidate_id = shown.candidate_id /\ row.warned = shown.warned
    <3>1. PICK record \in {PositiveExample(records), NegativeExample(records)} :
            shown = WorkedExample(record)
      BY <2>3
    <3>2. record # None
      BY <3>1 DEF WorkedExample
    <3>3. PICK i \in DOMAIN records : record = records[i]
      BY <2>1, <3>2, ExamplesAreRecords
    <3>4. shown.candidate_id = record.candidate_id /\ shown.warned = (record.n_failed # 0)
      BY <3>1, <3>2 DEF WorkedExample
    <3>5. main[i] \in ToSet(main)
      BY <2>4 DEF ToSet
    <3> QED BY <2>4, <3>3, <3>4, <3>5
  <2> HIDE DEF lost, lostAgain, missing
  <2>10. /\ page.banner <=> calls.failed > 0
         /\ page.banner <=> lost # 0 \/ lostAgain # 0
         /\ missing(main) + missing(again) = calls.failed
    <3>1. /\ summary.failed # 0 <=> calls.failed > 0
          /\ summary.failed # 0 <=> lost # 0 \/ lostAgain # 0
          /\ missing(main) + missing(again) = calls.failed
      BY <2>2, <2>6, <2>7
    <3>2. page.banner <=> summary.failed # 0
      BY <2>3, Zenon
    <3> QED BY <3>1, <3>2
  <2>11. page.banner <=> \E row \in rows : row.warned
    <3>1. (\E row \in rows : row.warned)
            <=> (\E row \in ToSet(main) : row.warned) \/ (\E row \in ToSet(again) : row.warned)
      OBVIOUS
    <3> HIDE DEF rows
    <3> QED BY <2>6, <2>7, <2>10, <3>1
  <2> QED BY <2>8, <2>9, <2>10, <2>11
<1> QED BY <1>1, EvaluationInvariant, PTL

================================================================================
