------------------------------- MODULE AgentProofs ------------------------------
(* The agent's safety properties and its implementation of the contract, for  *)
(* all sets of threads, candidates and diagnoses and all retry parameters.    *)
EXTENDS Agent, TLAPS

Inv == TypeOK /\ AgentInv

\* The phases of a call.
USE DEF Retry!Phases, Retry!Settled, RunFailed

\* The contract's copy of Verdicts says what the agent's says.
LEMMA SameReading ==
  /\ \A words : Contract!Q1Answer(words) = Q1Answer(words)
  /\ \A method : Contract!FlagScoreFloor(method) = FlagScoreFloor(method)
  BY DEF Contract!Q1Answer, Q1Answer, Contract!FlagScoreFloor, FlagScoreFloor,
         Contract!SelectInSeq, SelectInSeq, Contract!SelectInSubSeq, SelectInSubSeq,
         Contract!Min, Min, Contract!Answers, Answers

\* So do its transcripts and its promises.
LEMMA SameTerms ==
  /\ Contract!Silence = Silence
  /\ \A c : Contract!AboveFloor(c) <=> AboveFloor(c)
  /\ \A c, h : Contract!Promise(c, h) = Promise(c, h)
<1>1. Contract!Silence = Silence
  BY DEF Contract!Silence, Silence
<1>2. \A c : Contract!AboveFloor(c) <=> AboveFloor(c)
  BY DEF Contract!AboveFloor, AboveFloor, Contract!ScoreFloor, ScoreFloor
<1>3. \A h : Contract!ACallFailed(h) <=> ACallFailed(h)
  BY DEF Contract!ACallFailed, ACallFailed
<1>4. \A c, h : Contract!Flaggable(c, h) <=> Flaggable(c, h)
  BY <1>2, SameReading DEF Contract!Flaggable, Flaggable
<1>5. \A c, h : Contract!Clearable(c, h) <=> Clearable(c, h)
  BY <1>2, SameReading DEF Contract!Clearable, Clearable
<1>6. \A c, h : Contract!Promise(c, h) = Promise(c, h)
  BY <1>2, <1>3, <1>4, <1>5 DEF Contract!Promise, Promise, Contract!RunFailed, RunFailed
<1> QED
  BY <1>1, <1>2, <1>6

\* A node keeps the state a RingState.
LEMMA NodesKeepType ==
  ASSUME NEW s \in RingStates
  PROVE  /\ DetectNode(s) \in RingStates
         /\ \A d \in Diagnoses : DiagnoseNode(s, d) \in RingStates
         /\ DiagnoseFailedNode(s) \in RingStates
         /\ \A j \in {"grounded", "ungrounded"} : VerifyNode(s, j) \in RingStates
         /\ VerifyFailedNode(s) \in RingStates
         /\ DecideNode(s) \in RingStates
<1> USE DEF RingStates, Verdicts, Judgments, RunFailed
<1>1. DetectNode(s) \in RingStates
  BY DEF DetectNode
<1>2. \A d \in Diagnoses : DiagnoseNode(s, d) \in RingStates
  BY DEF DiagnoseNode
<1>3. DiagnoseFailedNode(s) \in RingStates
  BY DEF DiagnoseFailedNode
<1>4. \A j \in {"grounded", "ungrounded"} : VerifyNode(s, j) \in RingStates
  BY DEF VerifyNode
<1>5. VerifyFailedNode(s) \in RingStates
  BY DEF VerifyFailedNode
<1>6. DecideNode(s) \in RingStates
  BY DEF DecideNode
<1> QED
  BY <1>1, <1>2, <1>3, <1>4, <1>5, <1>6

\* Scores and flag floors are numbers.
LEMMA ScoresAreNumbers ==
  ASSUME NEW c \in CandidateRings
  PROVE  c.score \in Int /\ FlagScoreFloor(c.method) \in Int
<1>1. c.score \in Scores
  BY DEF CandidateRings
<1>2. \A n \in Scores : n \in Int
  BY DEF Scores
<1>3. FlagScoreFloor(c.method) \in Int
  BY DEF FlagScoreFloor
<1> QED
  BY <1>1, <1>2, <1>3

\* decide_node returns the verdict the contract promises, when the state it is
\* given matches the LLM's answers.
LEMMA DecideKeepsPromise ==
  ASSUME NEW s \in RingStates, NEW h \in Transcripts,
         s.candidate \in Candidates,
         AboveFloor(s.candidate),
         h.diagnose = "answered",
         s.diagnosis = h.text,
         h.verify # "none",
         s.run_failed <=> h.verify = "failed",
         h.verify # "failed" => s.grounded = h.verify
  PROVE  /\ DecideNode(s).verdict = Promise(s.candidate, h)
         /\ DecideNode(s).candidate = s.candidate
<1> DEFINE c      == s.candidate
           answer == Q1Answer(s.diagnosis.words)
<1>1. c.score \in Int /\ FlagScoreFloor(c.method) \in Int
  BY ScoresAreNumbers, AgentAssumption
<1>2. DecideNode(s).candidate = c
  BY DEF DecideNode, RingStates
<1>3. CASE s.run_failed
  <2>1. DecideNode(s).verdict = RunFailed
    BY <1>3 DEF DecideNode, RingStates
  <2>2. ACallFailed(h)
    BY <1>3 DEF ACallFailed
  <2>3. ~Flaggable(c, h) /\ ~Clearable(c, h)
    BY <1>3 DEF Flaggable, Clearable
  <2> QED
    BY <1>2, <2>1, <2>2, <2>3 DEF Promise
<1>4. CASE ~s.run_failed
  <2>1. ~ACallFailed(h) /\ s.grounded = h.verify
    BY <1>4 DEF ACallFailed
  <2>2. DecideNode(s).verdict =
          IF s.grounded # "grounded" THEN "needs_more_data"
          ELSE IF answer = "yes" /\ c.score < FlagScoreFloor(c.method) THEN "needs_more_data"
          ELSE IF answer = "yes" THEN "ring_flagged"
          ELSE IF answer = "no" THEN "cleared"
          ELSE "needs_more_data"
    BY <1>4 DEF DecideNode, RingStates
  <2>3. Flaggable(c, h) <=>
          s.grounded = "grounded" /\ answer = "yes" /\ ~(c.score < FlagScoreFloor(c.method))
    BY <1>1, <2>1 DEF Flaggable, AboveFloor
  <2>4. Clearable(c, h) <=> s.grounded = "grounded" /\ answer = "no"
    BY <2>1 DEF Clearable
  <2> QED
    BY <1>2, <2>1, <2>2, <2>3, <2>4 DEF Promise
<1> QED
  BY <1>3, <1>4

--------------------------------------------------------------------------------
\* The initial states are well typed.
LEMMA InitTypes == Init => TypeOK
  BY DEF Init, TypeOK, InitialState, RingStates, NoInvocation, Invocations, Silence,
         Transcripts, Outcomes, Retry!Init

\* Every step keeps every variable's type.
LEMMA StepTypes == Inv /\ [Next]_vars => TypeOK'
<1> SUFFICES ASSUME Inv, [Next]_vars PROVE TypeOK'
  OBVIOUS
<1> USE AgentAssumption DEF Inv, TypeOK, Invocations, Nodes, NoInvocation, Outcomes, At
<1>1. ASSUME NEW t \in Threads, NEW c \in Candidates, NEW auto \in BOOLEAN,
             RunAgent(t, c, auto)
      PROVE  TypeOK'
  BY <1>1 DEF RunAgent, retryVars, InitialState, RingStates, Silence, Transcripts
<1>2. ASSUME NEW t \in Threads, Resume(t) PROVE TypeOK'
  BY <1>2 DEF Resume, retryVars
<1>3. CASE AwaitLLM
  BY <1>3 DEF AwaitLLM, Retry!Reply, Retry!Answer, Retry!RefuseLast, Retry!Refuse,
              Retry!Escape, Retry!Wake
<1>4. ASSUME NEW t \in Threads, Detect(t) PROVE TypeOK'
  BY <1>4, NodesKeepType DEF Detect, retryVars, RouteAfterDetect
<1>5. ASSUME NEW t \in Threads, CallLLM(t) PROVE TypeOK'
  BY <1>5 DEF CallLLM, Retry!Begin
<1>6. ASSUME NEW t \in Threads, NEW d \in Diagnoses, DiagnoseAnswered(t, d) PROVE TypeOK'
  <2>1. state' \in [Threads -> RingStates]
    BY <1>6, NodesKeepType DEF DiagnoseAnswered
  <2>2. next' \in [Threads -> {"none", "end"} \cup Nodes]
    BY <1>6 DEF DiagnoseAnswered, RouteAfterDiagnose
  <2>3. heard' \in [Threads -> Transcripts]
    <3>1. heard[t] \in Transcripts
      OBVIOUS
    <3>2. [heard[t] EXCEPT !.diagnose = "answered", !.text = d] \in Transcripts
      BY <3>1 DEF Transcripts
    <3> QED
      BY <1>6, <3>2 DEF DiagnoseAnswered
  <2> QED
    BY <1>6, <2>1, <2>2, <2>3 DEF DiagnoseAnswered, Retry!Deliver
<1>7. ASSUME NEW t \in Threads, DiagnoseFailed(t) PROVE TypeOK'
  <2>1. state' \in [Threads -> RingStates]
    BY <1>7, NodesKeepType DEF DiagnoseFailed
  <2>2. next' \in [Threads -> {"none", "end"} \cup Nodes]
    BY <1>7 DEF DiagnoseFailed, RouteAfterDiagnose
  <2>3. heard' \in [Threads -> Transcripts]
    <3>1. heard[t] \in Transcripts
      OBVIOUS
    <3>2. [heard[t] EXCEPT !.diagnose = "failed"] \in Transcripts
      BY <3>1 DEF Transcripts
    <3>3. heard' = [heard EXCEPT ![t] = [heard[t] EXCEPT !.diagnose = "failed"]]
      BY <1>7 DEF DiagnoseFailed
    <3> QED
      BY <3>2, <3>3
  <2> QED
    BY <1>7, <2>1, <2>2, <2>3 DEF DiagnoseFailed, Retry!Deliver
<1>8. ASSUME NEW t \in Threads, DiagnoseRaises(t) PROVE TypeOK'
  BY <1>8 DEF DiagnoseRaises, Retry!Deliver
<1>9. ASSUME NEW t \in Threads, NEW j \in {"grounded", "ungrounded"}, VerifyAnswered(t, j)
      PROVE  TypeOK'
  BY <1>9, NodesKeepType DEF VerifyAnswered, Retry!Deliver, Transcripts
<1>10. ASSUME NEW t \in Threads, VerifyFailed(t) PROVE TypeOK'
  BY <1>10, NodesKeepType DEF VerifyFailed, Retry!Deliver, Transcripts
<1>11. ASSUME NEW t \in Threads, Interrupt(t) PROVE TypeOK'
  BY <1>11 DEF Interrupt, retryVars
<1>12. ASSUME NEW t \in Threads, AutoResume(t) PROVE TypeOK'
  BY <1>12 DEF AutoResume, retryVars
<1>13. ASSUME NEW t \in Threads, Decide(t) PROVE TypeOK'
  BY <1>13, NodesKeepType DEF Decide, retryVars
<1>14. ASSUME NEW t \in Threads, Return(t) PROVE TypeOK'
  <2>1. state[t].verdict \in Verdicts
    BY <1>14 DEF Return, AgentInv, CheckpointMatchesTranscript, Promise,
                 Verdicts, Judgments
  <2> QED
    BY <1>14, <2>1 DEF Return, retryVars
<1>15. CASE UNCHANGED vars
  BY <1>15 DEF vars, retryVars
<1> QED
  BY <1>1, <1>2, <1>3, <1>4, <1>5, <1>6, <1>7, <1>8, <1>9, <1>10, <1>11, <1>12,
     <1>13, <1>14, <1>15 DEF Next, Proceed, Call

--------------------------------------------------------------------------------
(* The inductive invariant.                                                   *)

\* When the contract lets a run end without approval.
LEMMA NothingToReviewMeans ==
  ASSUME NEW t \in Threads
  PROVE  Contract!NothingToReview(t) <=>
           ~AboveFloor(state[t].candidate) \/ heard[t].diagnose = "failed"
  BY SameTerms DEF Contract!NothingToReview

\* A thread a step leaves alone keeps its part of the invariant.
LEMMA OtherThreadsKeep ==
  ASSUME Inv, NEW u \in Threads,
         state'[u] = state[u], next'[u] = next[u],
         heard'[u] = heard[u], outcome'[u] = outcome[u],
         invocation'.thread = u <=> invocation.thread = u
  PROVE  CheckpointMatchesTranscript(u)' /\ CallerView(u)'
<1>2. CheckpointMatchesTranscript(u) /\ CallerView(u)
  BY DEF Inv, AgentInv
<1>3. CheckpointMatchesTranscript(u)'
  BY <1>2 DEF CheckpointMatchesTranscript
<1>4. CallerView(u)'
  BY <1>2 DEF CallerView
<1> QED
  BY <1>3, <1>4

\* Every step keeps the invariant.
LEMMA StepInvariant == Inv /\ [Next]_vars => AgentInv'
<1> SUFFICES ASSUME Inv, [Next]_vars PROVE AgentInv'
  OBVIOUS
<1> USE AgentAssumption DEF Inv, TypeOK, Invocations, Nodes, NoInvocation, Outcomes, At
<1>0. /\ \A t \in Threads : CheckpointMatchesTranscript(t) /\ CallerView(t)
      /\ InvocationInOrder
  BY DEF AgentInv
<1>1. ASSUME NEW t \in Threads, NEW c \in Candidates, NEW auto \in BOOLEAN, RunAgent(t, c, auto)
      PROVE  AgentInv'
  <2>1. CheckpointMatchesTranscript(t)'
    BY <1>0, <1>1 DEF CheckpointMatchesTranscript, RunAgent, InitialState, Silence
  <2>2. CallerView(t)'
    BY <1>0, <1>1 DEF CallerView, CheckpointMatchesTranscript, InvocationInOrder,
       RunAgent, Verdicts, Judgments
  <2>3. ASSUME NEW u \in Threads, u # t PROVE CheckpointMatchesTranscript(u)' /\ CallerView(u)'
    BY <1>1, <2>3, OtherThreadsKeep DEF RunAgent
  <2>4. InvocationInOrder'
    BY <1>0, <1>1 DEF InvocationInOrder, CheckpointMatchesTranscript, CallerView,
       Contract!NothingToReview, Contract!AboveFloor, RunAgent, retryVars
  <2> QED
    BY <2>1, <2>2, <2>3, <2>4 DEF AgentInv
<1>2. ASSUME NEW t \in Threads, Resume(t)
      PROVE  AgentInv'
  <2>1. CheckpointMatchesTranscript(t)'
    BY <1>0, <1>2 DEF CheckpointMatchesTranscript, Resume
  <2>2. CallerView(t)'
    BY <1>0, <1>2 DEF CallerView, CheckpointMatchesTranscript, InvocationInOrder,
       Resume, Verdicts, Judgments
  <2>3. ASSUME NEW u \in Threads, u # t PROVE CheckpointMatchesTranscript(u)' /\ CallerView(u)'
    BY <1>2, <2>3, OtherThreadsKeep DEF Resume
  <2>4. InvocationInOrder'
    <3>1. phase' = "idle" /\ next' = next
      BY <1>0, <1>2 DEF Resume, retryVars, InvocationInOrder
    <3>2. invocation' = [thread |-> t, auto |-> FALSE, approved |-> next[t] = "decide"]
      BY <1>2 DEF Resume
    <3>3. invocation'.thread = t /\ (invocation'.approved <=> next[t] = "decide")
      BY <3>2
    <3>4. next[t] # "end"
      BY <1>2 DEF Resume
    <3> QED
      BY <3>1, <3>3, <3>4 DEF InvocationInOrder
  <2> QED
    BY <2>1, <2>2, <2>3, <2>4 DEF AgentInv
<1>3. ASSUME NEW t \in Threads, Detect(t)
      PROVE  AgentInv'
  <2>0. /\ state[t].candidate \in Candidates
        /\ state[t] = InitialState(state[t].candidate)
        /\ heard[t] = Silence
        /\ heard'[t] = Silence
        /\ state'[t] = DetectNode(state[t])
    BY <1>0, <1>3 DEF Detect, CheckpointMatchesTranscript
  <2>1. CheckpointMatchesTranscript(t)'
    <3>1. /\ state'[t].candidate = state[t].candidate
          /\ state'[t].run_failed = FALSE
      BY <2>0 DEF DetectNode, InitialState
    <3>2. CASE AboveFloor(state[t].candidate)
      <4>1. state'[t].verdict = None /\ state'[t].passed = "passed"
        BY <2>0, <3>2 DEF DetectNode, InputGuardrail, InitialState, AboveFloor
      <4>2. next'[t] = "diagnose"
        BY <1>3, <4>1 DEF Detect, RouteAfterDetect
      <4> QED
        BY <2>0, <3>1, <3>2, <4>1, <4>2 DEF CheckpointMatchesTranscript
    <3>3. CASE ~AboveFloor(state[t].candidate)
      <4>1. state'[t].verdict = "needs_more_data" /\ state'[t].passed = "rejected"
        BY <2>0, <3>3 DEF DetectNode, InputGuardrail, InitialState, AboveFloor
      <4>2. next'[t] = "end"
        BY <1>3, <4>1 DEF Detect, RouteAfterDetect
      <4>3. Promise(state'[t].candidate, heard'[t]) = "needs_more_data"
        BY <3>1, <3>3
           DEF Promise, Flaggable, Clearable
      <4>4. heard'[t] \in CompleteTranscripts(state'[t].candidate)
        BY <2>0, <3>1, <3>3 DEF CompleteTranscripts
      <4> QED
        BY <2>0, <3>1, <4>1, <4>2, <4>3, <4>4
           DEF CheckpointMatchesTranscript, ACallFailed, Silence
    <3> QED
      BY <3>2, <3>3
  <2>2. CallerView(t)'
    BY <1>0, <1>3 DEF CallerView, CheckpointMatchesTranscript, InvocationInOrder,
       Detect, RouteAfterDetect, Verdicts, Judgments
  <2>3. ASSUME NEW u \in Threads, u # t PROVE CheckpointMatchesTranscript(u)' /\ CallerView(u)'
    BY <1>3, <2>3, OtherThreadsKeep DEF Detect, RouteAfterDetect
  <2>4. InvocationInOrder'
    <3>1. phase' = "idle" /\ invocation' = invocation /\ invocation.thread = t
      BY <1>0, <1>3 DEF Detect, retryVars, InvocationInOrder
    <3>2. ~invocation.approved
      BY <1>0, <1>3 DEF Detect, InvocationInOrder
    <3>3. next'[t] = "end" => Contract!NothingToReview(t)'
      <4>1. next'[t] = "end" => ~AboveFloor(state'[t].candidate)
        BY <1>0, <1>3, <2>0
           DEF Detect, DetectNode, InputGuardrail, RouteAfterDetect, InitialState,
               AboveFloor, TypeOK
      <4> QED
        BY <4>1, SameTerms DEF Contract!NothingToReview
    <3> QED
      BY <3>1, <3>2, <3>3 DEF InvocationInOrder
  <2> QED
    BY <2>1, <2>2, <2>3, <2>4 DEF AgentInv
<1>4. ASSUME NEW t \in Threads, NEW d \in Diagnoses, DiagnoseAnswered(t, d)
      PROVE  AgentInv'
  <2>1. CheckpointMatchesTranscript(t)'
    BY <1>0, <1>4 DEF CheckpointMatchesTranscript, DiagnoseAnswered, DiagnoseNode,
       RouteAfterDiagnose, RingStates, Silence, Transcripts
  <2>2. CallerView(t)'
    BY <1>0, <1>4 DEF CallerView, CheckpointMatchesTranscript, InvocationInOrder,
       DiagnoseAnswered, RouteAfterDiagnose, Verdicts, Judgments
  <2>3. ASSUME NEW u \in Threads, u # t PROVE CheckpointMatchesTranscript(u)' /\ CallerView(u)'
    BY <1>4, <2>3, OtherThreadsKeep DEF DiagnoseAnswered, RouteAfterDiagnose
  <2>4. InvocationInOrder'
    <3>1. phase' = "idle" /\ invocation' = invocation /\ invocation.thread = t
      BY <1>4 DEF DiagnoseAnswered, Retry!Deliver
    <3>2. ~invocation.approved
      BY <1>0, <1>4 DEF DiagnoseAnswered, InvocationInOrder
    <3>3. next'[t] # "end"
      BY <1>0, <1>4, <2>1
         DEF DiagnoseAnswered, DiagnoseNode, RouteAfterDiagnose, RingStates,
             CheckpointMatchesTranscript
    <3> QED
      BY <3>1, <3>2, <3>3 DEF InvocationInOrder
  <2> QED
    BY <2>1, <2>2, <2>3, <2>4 DEF AgentInv
<1>5. ASSUME NEW t \in Threads, DiagnoseFailed(t)
      PROVE  AgentInv'
  <2>1. CheckpointMatchesTranscript(t)'
    <3>1. /\ state[t].candidate \in Candidates /\ AboveFloor(state[t].candidate)
          /\ heard[t] = Silence
      BY <1>0, <1>5 DEF CheckpointMatchesTranscript, DiagnoseFailed
    <3>2. /\ state'[t].candidate = state[t].candidate
          /\ state'[t].run_failed = TRUE /\ state'[t].verdict = RunFailed
      BY <1>5 DEF DiagnoseFailed, DiagnoseFailedNode, RingStates
    <3>3. next'[t] = "end"
      BY <1>5, <3>2 DEF DiagnoseFailed, RouteAfterDiagnose
    <3>4. heard'[t] = [diagnose |-> "failed", text |-> None, verify |-> "none"]
      BY <1>0, <1>5, <3>1 DEF DiagnoseFailed, Silence
    <3>5. heard'[t] \in CompleteTranscripts(state'[t].candidate)
      BY <3>1, <3>2, <3>4 DEF CompleteTranscripts
    <3>6. Promise(state'[t].candidate, heard'[t]) = RunFailed
      BY <3>1, <3>2, <3>4 DEF Promise, ACallFailed, Flaggable, Clearable
    <3> QED
      BY <3>1, <3>2, <3>3, <3>5, <3>6 DEF CheckpointMatchesTranscript
  <2>2. CallerView(t)'
    BY <1>0, <1>5 DEF CallerView, CheckpointMatchesTranscript, InvocationInOrder,
       DiagnoseFailed, RouteAfterDiagnose, Verdicts, Judgments
  <2>3. ASSUME NEW u \in Threads, u # t PROVE CheckpointMatchesTranscript(u)' /\ CallerView(u)'
    BY <1>5, <2>3, OtherThreadsKeep DEF DiagnoseFailed, RouteAfterDiagnose
  <2>4. InvocationInOrder'
    BY <1>0, <1>5 DEF InvocationInOrder, CheckpointMatchesTranscript, CallerView,
       Contract!NothingToReview, Contract!AboveFloor, DiagnoseFailed,
       RouteAfterDiagnose, Retry!Deliver
  <2> QED
    BY <2>1, <2>2, <2>3, <2>4 DEF AgentInv
<1>6. ASSUME NEW t \in Threads, DiagnoseRaises(t)
      PROVE  AgentInv'
  <2>1. CheckpointMatchesTranscript(t)'
    BY <1>0, <1>6 DEF CheckpointMatchesTranscript, DiagnoseRaises
  <2>2. CallerView(t)'
    BY <1>0, <1>6 DEF CallerView, CheckpointMatchesTranscript, InvocationInOrder,
       DiagnoseRaises, Verdicts, Judgments
  <2>3. ASSUME NEW u \in Threads, u # t PROVE CheckpointMatchesTranscript(u)' /\ CallerView(u)'
    BY <1>6, <2>3, OtherThreadsKeep DEF DiagnoseRaises
  <2>4. InvocationInOrder'
    BY <1>0, <1>6 DEF InvocationInOrder, CheckpointMatchesTranscript, CallerView,
       Contract!NothingToReview, Contract!AboveFloor, DiagnoseRaises, Retry!Deliver
  <2> QED
    BY <2>1, <2>2, <2>3, <2>4 DEF AgentInv
<1>7. ASSUME NEW t \in Threads, NEW j \in {"grounded", "ungrounded"}, VerifyAnswered(t, j)
      PROVE  AgentInv'
  <2>1. CheckpointMatchesTranscript(t)'
    BY <1>0, <1>7 DEF CheckpointMatchesTranscript, VerifyAnswered, VerifyNode,
       RingStates, Transcripts
  <2>2. CallerView(t)'
    BY <1>0, <1>7 DEF CallerView, CheckpointMatchesTranscript, InvocationInOrder,
       VerifyAnswered, Verdicts, Judgments
  <2>3. ASSUME NEW u \in Threads, u # t PROVE CheckpointMatchesTranscript(u)' /\ CallerView(u)'
    BY <1>7, <2>3, OtherThreadsKeep DEF VerifyAnswered
  <2>4. InvocationInOrder'
    BY <1>0, <1>7 DEF InvocationInOrder, CheckpointMatchesTranscript, CallerView,
       Contract!NothingToReview, Contract!AboveFloor, VerifyAnswered, Retry!Deliver
  <2> QED
    BY <2>1, <2>2, <2>3, <2>4 DEF AgentInv
<1>8. ASSUME NEW t \in Threads, VerifyFailed(t)
      PROVE  AgentInv'
  <2>1. CheckpointMatchesTranscript(t)'
    BY <1>0, <1>8 DEF CheckpointMatchesTranscript, VerifyFailed, VerifyFailedNode,
       RingStates, Transcripts
  <2>2. CallerView(t)'
    BY <1>0, <1>8 DEF CallerView, CheckpointMatchesTranscript, InvocationInOrder,
       VerifyFailed, Verdicts, Judgments
  <2>3. ASSUME NEW u \in Threads, u # t PROVE CheckpointMatchesTranscript(u)' /\ CallerView(u)'
    BY <1>8, <2>3, OtherThreadsKeep DEF VerifyFailed
  <2>4. InvocationInOrder'
    BY <1>0, <1>8 DEF InvocationInOrder, CheckpointMatchesTranscript, CallerView,
       Contract!NothingToReview, Contract!AboveFloor, VerifyFailed, Retry!Deliver
  <2> QED
    BY <2>1, <2>2, <2>3, <2>4 DEF AgentInv
<1>9. ASSUME NEW t \in Threads, Interrupt(t)
      PROVE  AgentInv'
  <2>1. CheckpointMatchesTranscript(t)'
    BY <1>0, <1>9 DEF CheckpointMatchesTranscript, Interrupt
  <2>2. CallerView(t)'
    BY <1>0, <1>9 DEF CallerView, CheckpointMatchesTranscript, InvocationInOrder,
       Interrupt, Verdicts, Judgments
  <2>3. ASSUME NEW u \in Threads, u # t PROVE CheckpointMatchesTranscript(u)' /\ CallerView(u)'
    BY <1>9, <2>3, OtherThreadsKeep DEF Interrupt
  <2>4. InvocationInOrder'
    BY <1>0, <1>9 DEF InvocationInOrder, CheckpointMatchesTranscript, CallerView,
       Contract!NothingToReview, Contract!AboveFloor, Interrupt, retryVars
  <2> QED
    BY <2>1, <2>2, <2>3, <2>4 DEF AgentInv
<1>10. ASSUME NEW t \in Threads, AutoResume(t)
      PROVE  AgentInv'
  <2>1. CheckpointMatchesTranscript(t)'
    BY <1>0, <1>10 DEF CheckpointMatchesTranscript, AutoResume
  <2>2. CallerView(t)'
    BY <1>0, <1>10 DEF CallerView, CheckpointMatchesTranscript, InvocationInOrder,
       AutoResume, Verdicts, Judgments
  <2>3. ASSUME NEW u \in Threads, u # t PROVE CheckpointMatchesTranscript(u)' /\ CallerView(u)'
    BY <1>10, <2>3, OtherThreadsKeep DEF AutoResume
  <2>4. InvocationInOrder'
    BY <1>0, <1>10 DEF InvocationInOrder, CheckpointMatchesTranscript, CallerView,
       Contract!NothingToReview, Contract!AboveFloor, AutoResume, retryVars
  <2> QED
    BY <2>1, <2>2, <2>3, <2>4 DEF AgentInv
<1>11. ASSUME NEW t \in Threads, Decide(t)
      PROVE  AgentInv'
  <2>0. DecideNode(state[t]).verdict = Promise(state[t].candidate, heard[t])
        /\ DecideNode(state[t]).candidate = state[t].candidate
    BY <1>0, <1>11, DecideKeepsPromise DEF Decide, CheckpointMatchesTranscript
  <2>a. heard[t] \in CompleteTranscripts(state[t].candidate)
    BY <1>0, <1>11 DEF Decide, CheckpointMatchesTranscript, CompleteTranscripts, Transcripts
  <2>1. CheckpointMatchesTranscript(t)'
    BY <1>0, <1>11, <2>0, <2>a DEF CheckpointMatchesTranscript, Decide
  <2>2. CallerView(t)'
    BY <1>0, <1>11, <2>0, <2>a DEF CallerView, CheckpointMatchesTranscript,
       InvocationInOrder, Decide, Verdicts, Judgments
  <2>3. ASSUME NEW u \in Threads, u # t PROVE CheckpointMatchesTranscript(u)' /\ CallerView(u)'
    BY <1>11, <2>3, OtherThreadsKeep DEF Decide
  <2>4. InvocationInOrder'
    BY <1>0, <1>11, <2>0, <2>a DEF InvocationInOrder, CheckpointMatchesTranscript,
       CallerView, Contract!NothingToReview, Contract!AboveFloor, Decide, retryVars
  <2> QED
    BY <2>1, <2>2, <2>3, <2>4 DEF AgentInv
<1>12. ASSUME NEW t \in Threads, Return(t)
      PROVE  AgentInv'
  <2>1. CheckpointMatchesTranscript(t)'
    BY <1>0, <1>12 DEF CheckpointMatchesTranscript, Return
  <2>2. CallerView(t)'
    BY <1>0, <1>12 DEF CallerView, CheckpointMatchesTranscript, InvocationInOrder,
       Return, Promise, Verdicts, Judgments
  <2>3. ASSUME NEW u \in Threads, u # t PROVE CheckpointMatchesTranscript(u)' /\ CallerView(u)'
    BY <1>12, <2>3, OtherThreadsKeep DEF Return
  <2>4. InvocationInOrder'
    BY <1>0, <1>12 DEF InvocationInOrder, CheckpointMatchesTranscript, CallerView,
       Contract!NothingToReview, Contract!AboveFloor, Return, retryVars
  <2> QED
    BY <2>1, <2>2, <2>3, <2>4 DEF AgentInv
<1>13. ASSUME NEW t \in Threads, CallLLM(t) PROVE AgentInv'
  <2>1. ASSUME NEW u \in Threads PROVE CheckpointMatchesTranscript(u)' /\ CallerView(u)'
    BY <1>13, OtherThreadsKeep DEF CallLLM
  <2>2. InvocationInOrder'
    BY <1>0, <1>13 DEF CallLLM, InvocationInOrder, Contract!NothingToReview
  <2> QED
    BY <2>1, <2>2 DEF AgentInv
<1>14. CASE AwaitLLM
  <2>1. ASSUME NEW u \in Threads PROVE CheckpointMatchesTranscript(u)' /\ CallerView(u)'
    BY <1>14, OtherThreadsKeep DEF AwaitLLM
  <2>2. phase # "idle"
    BY <1>14 DEF AwaitLLM, Retry!Reply, Retry!Answer, Retry!RefuseLast, Retry!Refuse,
                 Retry!Escape, Retry!Wake
  <2>3. InvocationInOrder'
    BY <1>0, <1>14, <2>2 DEF AwaitLLM, InvocationInOrder, Contract!NothingToReview
  <2> QED
    BY <2>1, <2>3 DEF AgentInv
<1>15. CASE UNCHANGED vars
  <2>1. ASSUME NEW u \in Threads PROVE CheckpointMatchesTranscript(u)' /\ CallerView(u)'
    BY <1>15, OtherThreadsKeep DEF vars
  <2>2. InvocationInOrder'
    BY <1>0, <1>15 DEF vars, retryVars, InvocationInOrder, Contract!NothingToReview
  <2> QED
    BY <2>1, <2>2 DEF AgentInv
<1> QED
  BY <1>1, <1>2, <1>3, <1>4, <1>5, <1>6, <1>7, <1>8, <1>9, <1>10, <1>11, <1>12,
     <1>13, <1>14, <1>15 DEF Next, Proceed, Call

\* The invariant holds in every state: what a checkpoint holds is what the LLM
\* said in the latest run of its thread.
THEOREM AgentInvariant == Spec => []Inv
<1>1. Init => Inv
  <2>1. Init => AgentInv
    BY AgentAssumption
       DEF Init, AgentInv, CheckpointMatchesTranscript, CallerView, InvocationInOrder,
           NoInvocation, Retry!Init, Verdicts, Judgments
  <2> QED
    BY <2>1, InitTypes DEF Inv
<1>2. Inv /\ [Next]_vars => Inv'
  BY StepTypes, StepInvariant DEF Inv
<1> QED
  BY <1>1, <1>2, PTL DEF Spec
--------------------------------------------------------------------------------
(* The safety properties.                                                     *)

\* RingState, checkpoints and callers: the checkpoint of every thread says what the
\* LLM said in its latest run, and the caller knows what the checkpoint says.
THEOREM AgentCheckpointsMatch == Spec => []AgentInv
<1>1. Inv => AgentInv
  BY DEF Inv
<1> QED
  BY <1>1, AgentInvariant, PTL


\* Type correctness of the agent.
THEOREM AgentTypeCorrect == Spec => []TypeOK
<1>1. Inv => TypeOK
  BY DEF Inv
<1> QED
  BY <1>1, AgentInvariant, PTL

\* A returned verdict is the one the contract promises for the run's candidate
\* and the answers its LLM calls gave.
LEMMA VerdictIsPromise ==
  ASSUME Inv, NEW t \in Threads, outcome[t] \in Verdicts
  PROVE  /\ outcome[t] = Promise(state[t].candidate, heard[t])
         /\ heard[t] \in CompleteTranscripts(state[t].candidate)
  BY DEF Inv, AgentInv, CallerView, CheckpointMatchesTranscript

\* A run that returns has heard all it needs, and returns what it owes.
THEOREM AgentReturnsWhatItOwes == Spec => []ReturnsWhatItOwes
<1>1. Inv => ReturnsWhatItOwes
  BY VerdictIsPromise DEF ReturnsWhatItOwes
<1> QED
  BY <1>1, AgentInvariant, PTL

\* No ring is flagged without a grounded "Yes" of the same run above both floors.
THEOREM AgentFlagsJustified == Spec => []FlagJustified
<1>1. Inv => FlagJustified
  <2> SUFFICES ASSUME Inv, NEW t \in Threads, outcome[t] = "ring_flagged"
               PROVE  Flaggable(state[t].candidate, heard[t])
    BY DEF FlagJustified
  <2>1. outcome[t] \in Verdicts
    BY DEF Verdicts, Judgments
  <2> QED
    BY <2>1, VerdictIsPromise DEF Promise
<1> QED
  BY <1>1, AgentInvariant, PTL

\* No LLM call is placed that the routers should have prevented.
THEOREM AgentCallsNothingInVain == Spec => []NoCallInVain
<1>1. Inv => NoCallInVain
  <2> SUFFICES ASSUME Inv, NEW t \in Threads, phase # "idle", invocation.thread = t
               PROVE  /\ AboveFloor(state[t].candidate)
                      /\ heard[t].verify = "none"
                      /\ heard[t].diagnose \in {"none", "answered"}
                      /\ heard[t].diagnose = "answered" <=> next[t] = "verify"
    BY DEF NoCallInVain
  <2>1. next[t] = "diagnose" \/ next[t] = "verify"
    BY DEF Inv, AgentInv, InvocationInOrder, At
  <2> QED
    BY <2>1 DEF Inv, AgentInv, CheckpointMatchesTranscript, Silence
<1> QED
  BY <1>1, AgentInvariant, PTL

\* What waits for a reviewer is complete and undecided.
THEOREM AgentPausesReviewable == Spec => []PausedIsReviewable
<1>1. Inv => PausedIsReviewable
  BY AgentAssumption
     DEF Inv, AgentInv, CallerView, CheckpointMatchesTranscript, PausedIsReviewable
<1> QED
  BY <1>1, AgentInvariant, PTL

\* A run ends "run_failed" exactly when one of its LLM calls got no answer.
THEOREM AgentFailuresAreNoVerdicts == Spec => []FailureIsNoVerdict
<1>1. Inv => FailureIsNoVerdict
  <2> SUFFICES ASSUME Inv, NEW t \in Threads, outcome[t] \in Verdicts
               PROVE  outcome[t] = RunFailed <=> ACallFailed(heard[t])
    BY DEF FailureIsNoVerdict
  <2> DEFINE c == state[t].candidate
             h == heard[t]
  <2>1. outcome[t] = Promise(c, h)
    BY VerdictIsPromise
  <2>2. ACallFailed(h) => AboveFloor(c)
    BY VerdictIsPromise DEF CompleteTranscripts, ACallFailed, Silence
  <2>3. Flaggable(c, h) \/ Clearable(c, h) => ~ACallFailed(h)
    BY DEF Flaggable, Clearable, ACallFailed
  <2> QED
    BY <2>1, <2>2, <2>3 DEF Promise
<1> QED
  BY <1>1, AgentInvariant, PTL

--------------------------------------------------------------------------------
(* The refinement.                                                            *)

\* The abstract outcome of a thread, as the instance computes it.
AbstractOutcome(t) ==
  IF outcome[t] = "running" /\ (invocation.auto \/ invocation.approved)
  THEN "approved" ELSE outcome[t]

\* A step that leaves every thread's candidate, answers and abstract outcome
\* alone is a stutter of the contract.
LEMMA Stutter ==
  ASSUME \A t \in Threads : state'[t].candidate = state[t].candidate,
         \A t \in Threads : AbstractOutcome(t)' = AbstractOutcome(t),
         heard' = heard
  PROVE  UNCHANGED Contract!vars
  BY DEF Contract!vars, AbstractOutcome

\* The initial states map to the contract's.
LEMMA InitRefines == Init => Contract!Init
  BY DEF Init, Contract!Init, InitialState, Silence, Contract!Silence

\* Every step maps to a step of the contract or to a stutter.
LEMMA StepRefines == Inv /\ Inv' /\ [Next]_vars => [Contract!Next]_Contract!vars
<1> SUFFICES ASSUME Inv, Inv', [Next]_vars PROVE [Contract!Next]_Contract!vars
  OBVIOUS
<1> USE AgentAssumption DEF AbstractOutcome
<1> DEFINE subject == [t \in Threads |-> state[t].candidate]
           abstract == [t \in Threads |-> AbstractOutcome(t)]
<1>0. /\ TypeOK /\ TypeOK'
      /\ \A t \in Threads : CheckpointMatchesTranscript(t) /\ CallerView(t)
      /\ InvocationInOrder
  BY DEF Inv, AgentInv
<1>a. ASSUME NEW t \in Threads, invocation.thread = t
      PROVE  Contract!Active(t)
  BY <1>0, <1>a DEF Contract!Active, CallerView
<1>b. ASSUME invocation.thread = None, NEW t \in Threads
      PROVE  outcome[t] # "running" /\ AbstractOutcome(t) = outcome[t]
  BY <1>0, <1>b DEF CallerView
<1>1. ASSUME NEW t \in Threads, NEW c \in Candidates, NEW auto \in BOOLEAN,
             RunAgent(t, c, auto)
      PROVE  Contract!Next
  <2>1. Contract!Start(t, c, auto)
    <3>1. ~Contract!Active(t)
      BY <1>0, <1>1, <1>b DEF RunAgent, NoInvocation, Contract!Active, TypeOK, Outcomes,
                              Verdicts, Judgments, RunFailed
    <3>2. subject' = [subject EXCEPT ![t] = c]
      BY <1>0, <1>1 DEF RunAgent, TypeOK, InitialState
    <3>3. heard' = [heard EXCEPT ![t] = Contract!Silence]
      BY <1>1 DEF RunAgent, Silence, Contract!Silence
    <3>4. abstract' = [abstract EXCEPT ![t] = IF auto THEN "approved" ELSE "running"]
      BY <1>0, <1>1, <1>b DEF RunAgent, TypeOK, NoInvocation
    <3> QED
      BY <3>1, <3>2, <3>3, <3>4 DEF Contract!Start
  <2> QED
    BY <2>1 DEF Contract!Next
<1>2. ASSUME NEW t \in Threads, Resume(t) PROVE Contract!Next
  <2>1. /\ outcome[t] = "paused" \/ outcome[t] = "raised"
        /\ AbstractOutcome(t) = outcome[t]
    BY <1>0, <1>2, <1>b DEF Resume, NoInvocation, CallerView, CheckpointMatchesTranscript,
                            TypeOK, Outcomes, Nodes
  <2>2. subject' = subject /\ heard' = heard
    BY <1>2 DEF Resume
  <2>3. CASE outcome[t] = "paused"
    <3>1. next[t] = "decide"
      BY <1>0, <2>3 DEF CallerView
    <3>2. abstract' = [abstract EXCEPT ![t] = "approved"]
      BY <1>0, <1>2, <1>b, <3>1 DEF Resume, TypeOK, NoInvocation
    <3>3. Contract!Approve(t)
      BY <2>1, <2>2, <2>3, <3>2 DEF Contract!Approve
    <3> QED
      BY <3>3 DEF Contract!Next
  <2>4. CASE outcome[t] = "raised"
    <3>1. next[t] = "diagnose"
      BY <1>0, <2>4 DEF CallerView
    <3>2. abstract' = [abstract EXCEPT ![t] = "running"]
      BY <1>0, <1>2, <1>b, <3>1 DEF Resume, TypeOK, NoInvocation
    <3>3. Contract!TakeUp(t)
      BY <2>1, <2>2, <2>4, <3>2 DEF Contract!TakeUp
    <3> QED
      BY <3>3 DEF Contract!Next
  <2> QED
    BY <2>1, <2>3, <2>4
<1>3. ASSUME NEW t \in Threads, Detect(t) PROVE UNCHANGED Contract!vars
  <2>1. \A u \in Threads : state'[u].candidate = state[u].candidate
    BY <1>0, <1>3 DEF Detect, DetectNode, TypeOK, RingStates
  <2> QED
    BY <1>3, <2>1, Stutter DEF Detect
<1>4. ASSUME NEW t \in Threads, CallLLM(t) PROVE UNCHANGED Contract!vars
  BY <1>4, Stutter DEF CallLLM
<1>5. CASE AwaitLLM
  BY <1>5, Stutter DEF AwaitLLM
<1>6. ASSUME NEW t \in Threads, NEW d \in Diagnoses, DiagnoseAnswered(t, d)
      PROVE  Contract!Next
  <2>1. Contract!Active(t) /\ Contract!AboveFloor(subject[t]) /\ heard[t].diagnose = "none"
    BY <1>0, <1>6, <1>a, SameTerms DEF DiagnoseAnswered, At, CheckpointMatchesTranscript, Silence
  <2>2. subject' = subject
    BY <1>0, <1>6 DEF DiagnoseAnswered, DiagnoseNode, TypeOK, RingStates
  <2>3. abstract' = abstract
    BY <1>6 DEF DiagnoseAnswered
  <2>4. Contract!HearDiagnosis(t, d)
    BY <1>6, <2>1, <2>2, <2>3 DEF DiagnoseAnswered, Contract!HearDiagnosis
  <2> QED
    BY <2>4 DEF Contract!Next, Contract!Advance
<1>7. ASSUME NEW t \in Threads, DiagnoseFailed(t) PROVE Contract!Next
  <2>1. Contract!Active(t) /\ Contract!AboveFloor(subject[t]) /\ heard[t] = Silence
    BY <1>0, <1>7, <1>a, SameTerms DEF DiagnoseFailed, At, CheckpointMatchesTranscript
  <2>2. subject' = subject
    BY <1>0, <1>7 DEF DiagnoseFailed, DiagnoseFailedNode, TypeOK, RingStates
  <2>3. abstract' = abstract
    BY <1>7 DEF DiagnoseFailed
  <2>4. Contract!HearRefusal(t)
    BY <1>7, <2>1, <2>2, <2>3 DEF DiagnoseFailed, Contract!HearRefusal, Silence
  <2> QED
    BY <2>4 DEF Contract!Next, Contract!Advance
<1>8. ASSUME NEW t \in Threads, DiagnoseRaises(t) PROVE Contract!Next
  <2>1. Contract!Active(t) /\ Contract!AboveFloor(subject[t]) /\ heard[t].diagnose = "none"
    BY <1>0, <1>8, <1>a, SameTerms DEF DiagnoseRaises, At, CheckpointMatchesTranscript, Silence
  <2>2. subject' = subject /\ heard' = heard
    BY <1>8 DEF DiagnoseRaises
  <2>3. abstract' = [abstract EXCEPT ![t] = "raised"]
    BY <1>0, <1>8 DEF DiagnoseRaises, At, TypeOK, CallerView
  <2>4. Contract!Raise(t)
    BY <2>1, <2>2, <2>3 DEF Contract!Raise
  <2> QED
    BY <2>4 DEF Contract!Next, Contract!Advance
<1>9. ASSUME NEW t \in Threads, NEW j \in {"grounded", "ungrounded"}, VerifyAnswered(t, j)
      PROVE  Contract!Next
  <2>1. /\ Contract!Active(t)
        /\ heard[t].diagnose = "answered" /\ heard[t].verify = "none"
    BY <1>0, <1>9, <1>a DEF VerifyAnswered, At, CheckpointMatchesTranscript
  <2>2. subject' = subject
    BY <1>0, <1>9 DEF VerifyAnswered, VerifyNode, TypeOK, RingStates
  <2>3. abstract' = abstract
    BY <1>9 DEF VerifyAnswered
  <2>4. Contract!HearVerify(t, j)
    BY <1>9, <2>1, <2>2, <2>3 DEF VerifyAnswered, Contract!HearVerify
  <2> QED
    BY <2>4 DEF Contract!Next, Contract!Advance
<1>10. ASSUME NEW t \in Threads, VerifyFailed(t) PROVE Contract!Next
  <2>1. /\ Contract!Active(t)
        /\ heard[t].diagnose = "answered" /\ heard[t].verify = "none"
    BY <1>0, <1>10, <1>a DEF VerifyFailed, At, CheckpointMatchesTranscript
  <2>2. subject' = subject
    BY <1>0, <1>10 DEF VerifyFailed, VerifyFailedNode, TypeOK, RingStates
  <2>3. abstract' = abstract
    BY <1>10 DEF VerifyFailed
  <2>4. Contract!HearVerify(t, "failed")
    BY <1>10, <2>1, <2>2, <2>3 DEF VerifyFailed, Contract!HearVerify
  <2> QED
    BY <2>4 DEF Contract!Next, Contract!Advance
<1>11. ASSUME NEW t \in Threads, Interrupt(t) PROVE Contract!Next
  <2>1. AbstractOutcome(t) = "running" /\ heard[t].verify # "none"
    BY <1>0, <1>11 DEF Interrupt, At, CallerView, CheckpointMatchesTranscript
  <2>2. subject' = subject /\ heard' = heard
    BY <1>11 DEF Interrupt
  <2>3. abstract' = [abstract EXCEPT ![t] = "paused"]
    BY <1>0, <1>11 DEF Interrupt, At, TypeOK, CallerView
  <2>4. Contract!Pause(t)
    BY <2>1, <2>2, <2>3 DEF Contract!Pause
  <2> QED
    BY <2>4 DEF Contract!Next, Contract!Advance
<1>12. ASSUME NEW t \in Threads, AutoResume(t) PROVE UNCHANGED Contract!vars
  <2>1. \A u \in Threads : AbstractOutcome(u)' = AbstractOutcome(u)
    BY <1>0, <1>12 DEF AutoResume, TypeOK, Invocations
  <2> QED
    BY <1>12, <2>1, Stutter DEF AutoResume
<1>13. ASSUME NEW t \in Threads, Decide(t) PROVE UNCHANGED Contract!vars
  <2>1. \A u \in Threads : state'[u].candidate = state[u].candidate
    BY <1>0, <1>13 DEF Decide, DecideNode, TypeOK, RingStates
  <2> QED
    BY <1>13, <2>1, Stutter DEF Decide
<1>14. ASSUME NEW t \in Threads, Return(t) PROVE Contract!Next
  <2>1. Contract!Active(t) /\ Contract!Gathered(t)
    <3>1. heard[t] \in CompleteTranscripts(state[t].candidate)
      BY <1>0, <1>14 DEF Return, At, CheckpointMatchesTranscript
    <3>2. Contract!NothingToReview(t) \/ heard[t].verify # "none"
      BY <3>1, NothingToReviewMeans DEF CompleteTranscripts, Silence
    <3> QED
      BY <1>14, <1>a, <3>2 DEF Return, At, Contract!Gathered
  <2>2. AbstractOutcome(t) = "running" => Contract!NothingToReview(t)
    BY <1>0, <1>14 DEF Return, At, CallerView, InvocationInOrder
  <2>3. subject' = subject /\ heard' = heard
    BY <1>14 DEF Return
  <2>4. state[t].verdict = Promise(subject[t], heard[t])
    BY <1>0, <1>14 DEF Return, At, CheckpointMatchesTranscript
  <2>5. outcome'[t] = state[t].verdict /\ outcome'[t] # "running"
    <3>1. outcome'[t] = state[t].verdict
      BY <1>0, <1>14 DEF Return, TypeOK
    <3> QED
      BY <2>4, <3>1 DEF Promise
  <2>6. abstract' = [abstract EXCEPT ![t] = Contract!Promise(subject[t], heard[t])]
    BY <1>0, <1>14, <2>4, <2>5, SameTerms DEF Return, At, TypeOK, CallerView
  <2>7. Contract!Conclude(t)
    BY <2>1, <2>2, <2>3, <2>6 DEF Contract!Conclude
  <2> QED
    BY <2>7 DEF Contract!Next, Contract!Advance
<1>15. CASE UNCHANGED vars
  BY <1>15, Stutter DEF vars
<1> QED
  BY <1>1, <1>2, <1>3, <1>4, <1>5, <1>6, <1>7, <1>8, <1>9, <1>10, <1>11, <1>12,
     <1>13, <1>14, <1>15 DEF Next, Proceed, Call

\* The graph and its wrappers implement the contract: whatever happens inside, a
\* caller sees a run gather answers, wait for approval and return what it owes.
THEOREM AgentImplementsContract == Spec => ImplementsContract
<1>1. Inv /\ Inv' /\ [Next]_vars => [Contract!Next]_Contract!vars
  BY StepRefines
<1> QED
  BY InitRefines, <1>1, AgentInvariant, PTL DEF Spec, Contract!Spec, ImplementsContract
================================================================================
