---------------------------------- MODULE Agent ---------------------------------
(* The LangGraph agent: detect -> diagnose -> verify -> decide, compiled with *)
(* an interrupt before decide and an in-memory checkpoint per thread          *)
(* (graph_state.py), its four nodes (nodes.py), the guardrails they call      *)
(* (guardrails.py) and the retry loop around every LLM call (retry.py,        *)
(* module InvokeWithRetry).  One process runs one invocation at a time; any   *)
(* number of threads may be paused or finished beside it.                     *)
EXTENDS Verdicts

CONSTANTS
  Threads, Candidates,                               \* as in AgentContract
  MaxRetries, BaseDelay, MaxDelay, Hints, MaxHint    \* as in InvokeWithRetry

ASSUME AgentAssumption ==
  /\ Candidates \subseteq CandidateRings
  /\ Diagnoses \subseteq DiagnosisTexts
  /\ None \notin Diagnoses
  /\ None \notin Candidates
  /\ None \notin Threads
  /\ None \notin Verdicts

VARIABLES
  state,       \* thread -> its RingState checkpoint
  next,        \* thread -> the node its checkpoint stands before
  invocation,  \* the app.invoke under way: thread, run_agent's auto_resume, past the interrupt
  phase, attempt, refused, slept,  \* the retry loop of the LLM call under way
  heard,       \* thread -> the LLM's answers to its latest run (history)
  outcome      \* thread -> what the caller of its latest run knows (history)

retryVars == <<phase, attempt, refused, slept>>
vars == <<state, next, invocation, retryVars, heard, outcome>>

Retry == INSTANCE InvokeWithRetry

\* A thread's abstract state: run_agent with auto_resume approves in advance,
\* and a run past the interrupt has been approved.
Contract == INSTANCE AgentContract WITH
  subject <- [t \in Threads |-> state[t].candidate],
  outcome <- [t \in Threads |->
                IF /\ outcome[t] = "running"
                   /\ invocation.auto \/ invocation.approved
                THEN "approved" ELSE outcome[t]]

Nodes    == {"detect", "diagnose", "verify", "decide"}
Outcomes == {"idle", "running", "paused", "raised"} \cup Verdicts

--------------------------------------------------------------------------------
(* Bugs the runs must notice.  In the nodes: a router that returns its label  *)
(* instead of a node, or ignores run_failed; a fail-safe False not marked as  *)
(* a failure; a provisional verdict set at the start; a diagnosis taken at    *)
(* its word without the fact check.                                           *)
LabelAfterDetect(s) == IF s.passed = "passed" THEN "continue" ELSE "reject"
DeadEndAfterDetect(s) == IF s.passed = "passed" THEN "diagnose" ELSE "none"
AlwaysVerify(s) == "verify"
UnmarkedVerifyFailure(s) == [s EXCEPT !.grounded = "ungrounded"]
ProvisionalDetectNode(s) ==
  [s EXCEPT !.passed = IF s.candidate.score >= ScoreFloor THEN "passed" ELSE "rejected",
            !.verdict = "needs_more_data"]
UngroundedDecideNode(s) ==
  [s EXCEPT !.verdict = IF s.run_failed THEN RunFailed
                        ELSE IF Q1Answer(s.diagnosis.words) = "yes"
                        THEN "ring_flagged" ELSE "needs_more_data"]

\* In the calls: run_agent handing over the candidate but not a fresh state,
\* resuming a run nobody approved, or leaving an automatic run at the interrupt.
StaleRunAgent(t, candidate, auto) ==
  /\ invocation = [thread |-> None, auto |-> FALSE, approved |-> FALSE]
  /\ state' = [state EXCEPT ![t].candidate = candidate]
  /\ next' = [next EXCEPT ![t] = "detect"]
  /\ invocation' = [thread |-> t, auto |-> auto, approved |-> FALSE]
  /\ heard' = [heard EXCEPT ![t] = Silence]
  /\ outcome' = [outcome EXCEPT ![t] = "running"]
  /\ UNCHANGED retryVars

UnapprovedResume(t) ==
  /\ invocation.thread = t /\ next[t] = "decide" /\ ~invocation.approved
  /\ invocation' = [invocation EXCEPT !.approved = TRUE]
  /\ UNCHANGED <<state, next, retryVars, heard, outcome>>

AlwaysInterrupt(t) ==
  /\ invocation.thread = t /\ next[t] = "decide" /\ ~invocation.approved
  /\ invocation' = [thread |-> None, auto |-> FALSE, approved |-> FALSE]
  /\ outcome' = [outcome EXCEPT ![t] = "paused"]
  /\ UNCHANGED <<state, next, retryVars, heard>>

--------------------------------------------------------------------------------
(* RingState and the node functions.  A node returns the fields it updates;   *)
(* here it returns the updated state.                                         *)

\* initial_state: every field of the state is set, so nothing of an earlier run
\* of the same thread survives.
InitialState(candidate) ==
  [candidate  |-> candidate,
   passed     |-> "unset",       \* input_guardrail_passed
   diagnosis  |-> None,
   grounded   |-> "unset",       \* is_grounded
   verdict    |-> None,          \* final_verdict
   run_failed |-> FALSE]

InputGuardrail(candidate) == candidate.score >= ScoreFloor

DetectNode(s) ==
  LET passed == InputGuardrail(s.candidate)
  IN  [s EXCEPT !.passed  = IF passed THEN "passed" ELSE "rejected",
                !.verdict = IF passed THEN None ELSE "needs_more_data"]

RouteAfterDetect(s) == IF s.passed = "passed" THEN "diagnose" ELSE "end"

\* diagnose_node when the call returned a text, and when it raised LLMCallFailed.
DiagnoseNode(s, text) == [s EXCEPT !.diagnosis = text]

DiagnoseFailedNode(s) ==
  [s EXCEPT !.diagnosis = None, !.run_failed = TRUE, !.verdict = RunFailed]

RouteAfterDiagnose(s) == IF s.run_failed THEN "end" ELSE "verify"

\* verify_node: whatever the fact check raised, the output guardrail turns it
\* into "not grounded" with llm_failed set.
VerifyNode(s, judgment) ==
  [s EXCEPT !.grounded = judgment]

VerifyFailedNode(s) ==
  [s EXCEPT !.grounded = "ungrounded", !.run_failed = TRUE]

\* decide_node's early returns, in their order.
DecideNode(s) ==
  LET answer == Q1Answer(s.diagnosis.words)
      weak   == s.candidate.score < FlagScoreFloor(s.candidate.method)
  IN  [s EXCEPT !.verdict =
        IF s.run_failed THEN RunFailed
        ELSE IF s.grounded # "grounded" THEN "needs_more_data"
        ELSE IF answer = "yes" /\ weak THEN "needs_more_data"
        ELSE IF answer = "yes" THEN "ring_flagged"
        ELSE IF answer = "no" THEN "cleared"
        ELSE "needs_more_data"]

--------------------------------------------------------------------------------
NoInvocation == [thread |-> None, auto |-> FALSE, approved |-> FALSE]

At(t, node) == invocation.thread = t /\ next[t] = node

Init ==
  /\ state = [t \in Threads |-> InitialState(None)]
  /\ next = [t \in Threads |-> "none"]
  /\ invocation = NoInvocation
  /\ Retry!Init
  /\ heard = [t \in Threads |-> Silence]
  /\ outcome = [t \in Threads |-> "idle"]

\* run_agent invokes the app with a fresh state, on a new thread or a used one.
RunAgent(t, candidate, auto) ==
  /\ invocation = NoInvocation
  /\ state' = [state EXCEPT ![t] = InitialState(candidate)]
  /\ next' = [next EXCEPT ![t] = "detect"]
  /\ invocation' = [thread |-> t, auto |-> auto, approved |-> FALSE]
  /\ heard' = [heard EXCEPT ![t] = Silence]
  /\ outcome' = [outcome EXCEPT ![t] = "running"]
  /\ UNCHANGED retryVars

Detect(t) ==
  /\ At(t, "detect")
  /\ state' = [state EXCEPT ![t] = DetectNode(@)]
  /\ next' = [next EXCEPT ![t] = RouteAfterDetect(state'[t])]
  /\ UNCHANGED <<invocation, retryVars, heard, outcome>>

\* diagnose_node and output_guardrail place their LLM call.
CallLLM(t) ==
  /\ At(t, "diagnose") \/ At(t, "verify")
  /\ Retry!Begin
  /\ UNCHANGED <<state, next, invocation, heard, outcome>>

\* The retry loop goes on until the call is settled.
AwaitLLM ==
  /\ Retry!Reply \/ Retry!Wake
  /\ UNCHANGED <<state, next, invocation, heard, outcome>>

DiagnoseAnswered(t, text) ==
  /\ At(t, "diagnose")
  /\ phase = "answered"
  /\ Retry!Deliver
  /\ state' = [state EXCEPT ![t] = DiagnoseNode(@, text)]
  /\ next' = [next EXCEPT ![t] = RouteAfterDiagnose(state'[t])]
  /\ heard' = [heard EXCEPT ![t] = [@ EXCEPT !.diagnose = "answered", !.text = text]]
  /\ UNCHANGED <<invocation, outcome>>

DiagnoseFailed(t) ==
  /\ At(t, "diagnose")
  /\ phase = "exhausted"
  /\ Retry!Deliver
  /\ state' = [state EXCEPT ![t] = DiagnoseFailedNode(@)]
  /\ next' = [next EXCEPT ![t] = RouteAfterDiagnose(state'[t])]
  /\ heard' = [heard EXCEPT ![t].diagnose = "failed"]
  /\ UNCHANGED <<invocation, outcome>>

\* diagnose_node catches LLMCallFailed only: any other exception leaves the
\* graph and run_agent, and the checkpoint stays before diagnose.
DiagnoseRaises(t) ==
  /\ At(t, "diagnose")
  /\ phase = "raised"
  /\ Retry!Deliver
  /\ invocation' = NoInvocation
  /\ outcome' = [outcome EXCEPT ![t] = "raised"]
  /\ UNCHANGED <<state, next, heard>>

VerifyAnswered(t, judgment) ==
  /\ At(t, "verify")
  /\ phase = "answered"
  /\ Retry!Deliver
  /\ state' = [state EXCEPT ![t] = VerifyNode(@, judgment)]
  /\ next' = [next EXCEPT ![t] = "decide"]
  /\ heard' = [heard EXCEPT ![t].verify = judgment]
  /\ UNCHANGED <<invocation, outcome>>

VerifyFailed(t) ==
  /\ At(t, "verify")
  /\ phase \in {"exhausted", "raised"}
  /\ Retry!Deliver
  /\ state' = [state EXCEPT ![t] = VerifyFailedNode(@)]
  /\ next' = [next EXCEPT ![t] = "decide"]
  /\ heard' = [heard EXCEPT ![t].verify = "failed"]
  /\ UNCHANGED <<invocation, outcome>>

\* interrupt_before=["decide"]: the invocation returns without a verdict.
Interrupt(t) ==
  /\ At(t, "decide")
  /\ ~invocation.approved
  /\ ~invocation.auto
  /\ invocation' = NoInvocation
  /\ outcome' = [outcome EXCEPT ![t] = "paused"]
  /\ UNCHANGED <<state, next, retryVars, heard>>

\* The same with auto_resume: run_agent invokes the app again at once.
AutoResume(t) ==
  /\ At(t, "decide")
  /\ ~invocation.approved
  /\ invocation.auto
  /\ invocation' = [invocation EXCEPT !.approved = TRUE]
  /\ UNCHANGED <<state, next, retryVars, heard, outcome>>

Decide(t) ==
  /\ At(t, "decide")
  /\ invocation.approved
  /\ state' = [state EXCEPT ![t] = DecideNode(@)]
  /\ next' = [next EXCEPT ![t] = "end"]
  /\ UNCHANGED <<invocation, retryVars, heard, outcome>>

\* The graph has reached END and the final state goes to the caller.
Return(t) ==
  /\ At(t, "end")
  /\ invocation' = NoInvocation
  /\ outcome' = [outcome EXCEPT ![t] = state[t].verdict]
  /\ UNCHANGED <<state, next, retryVars, heard>>

\* resume(): the app goes on from the checkpoint, past the interrupt when it was
\* paused there, before diagnose when that node had raised.  On a thread that is
\* over, or was never run, it changes nothing.
Resume(t) ==
  /\ invocation = NoInvocation
  /\ next[t] \in Nodes
  /\ invocation' = [thread |-> t, auto |-> FALSE, approved |-> next[t] = "decide"]
  /\ outcome' = [outcome EXCEPT ![t] = "running"]
  /\ UNCHANGED <<state, next, retryVars, heard>>

\* What the process does by itself once it is called.
Proceed ==
  \/ AwaitLLM
  \/ \E t \in Threads :
       \/ Detect(t)
       \/ CallLLM(t)
       \/ \E d \in Diagnoses : DiagnoseAnswered(t, d)
       \/ DiagnoseFailed(t)
       \/ DiagnoseRaises(t)
       \/ \E judgment \in {"grounded", "ungrounded"} : VerifyAnswered(t, judgment)
       \/ VerifyFailed(t)
       \/ Interrupt(t)
       \/ AutoResume(t)
       \/ Decide(t)
       \/ Return(t)

\* What its callers do.
Call ==
  \E t \in Threads :
    \/ \E c \in Candidates, auto \in BOOLEAN : RunAgent(t, c, auto)
    \/ Resume(t)

Next == Proceed \/ Call

Spec == Init /\ [][Next]_vars

\* The process keeps running while it has something to do, and the Groq client
\* answers or times out: nothing but these two facts is assumed.
FairSpec == Spec /\ WF_vars(Proceed)

--------------------------------------------------------------------------------
(* Properties.                                                                *)

RingStates ==
  [candidate  : Candidates \cup {None},
   passed     : {"unset", "passed", "rejected"},
   diagnosis  : Diagnoses \cup {None},
   grounded   : {"unset", "grounded", "ungrounded"},
   verdict    : Verdicts \cup {None},
   run_failed : BOOLEAN]

Invocations == [thread : Threads \cup {None}, auto : BOOLEAN, approved : BOOLEAN]

\* Every variable keeps its type (RingState's declared fields included).
TypeOK ==
  /\ state \in [Threads -> RingStates]
  /\ next \in [Threads -> {"none", "end"} \cup Nodes]
  /\ invocation \in Invocations
  /\ phase \in Retry!Phases
  /\ heard \in [Threads -> Transcripts]
  /\ outcome \in [Threads -> Outcomes]

\* decide_node's rule: a run ends "ring_flagged" only when the LLM, in this very
\* run, gave a diagnosis that reads as a yes and judged it grounded, and the
\* candidate clears both score floors -- however often its thread was used
\* before, and whatever failed on the way.
FlagJustified ==
  \A t \in Threads :
    outcome[t] = "ring_flagged" => Flaggable(state[t].candidate, heard[t])

\* What the evaluation relies on: a run that returns has gathered every answer
\* its candidate calls for, and returns the verdict they lead to.
ReturnsWhatItOwes ==
  \A t \in Threads :
    outcome[t] \in Verdicts =>
      /\ heard[t] \in CompleteTranscripts(state[t].candidate)
      /\ outcome[t] = Promise(state[t].candidate, heard[t])

\* nodes.RUN_FAILED_VERDICT: an absent answer never passes for a judgment, nor
\* a judgment for an absent answer.
FailureIsNoVerdict ==
  \A t \in Threads :
    outcome[t] \in Verdicts =>
      (outcome[t] = RunFailed <=> ACallFailed(heard[t]))

\* No LLM request goes out for a candidate below the score floor, nor a fact
\* check for a diagnosis that was never given (route_after_detect,
\* route_after_diagnose).
NoCallInVain ==
  \A t \in Threads :
    phase # "idle" /\ invocation.thread = t =>
      /\ AboveFloor(state[t].candidate)
      /\ heard[t].verify = "none"
      /\ heard[t].diagnose \in {"none", "answered"}
      /\ heard[t].diagnose = "answered" <=> next[t] = "verify"

\* What a reviewer finds at the interrupt: a diagnosis and the outcome of its
\* fact check, both of the run under review, and no verdict yet.
PausedIsReviewable ==
  \A t \in Threads :
    outcome[t] = "paused" =>
      /\ next[t] = "decide"
      /\ state[t].verdict = None
      /\ state[t].diagnosis = heard[t].text
      /\ heard[t].text # None /\ heard[t].verify # "none"

\* The graph and its callers' wrappers implement the contract.
ImplementsContract == Contract!Spec

\* The same with the contract's fairness: what the contract owes, it delivers.
ImplementsFairContract == Contract!FairSpec

\* run_agent with auto_resume ends in a verdict or an exception: a batch never
\* finds its run waiting for a human.
AutoRunConcludes ==
  \A t \in Threads :
    invocation.thread = t /\ invocation.auto
      ~> outcome[t] \in Verdicts \cup {"raised"}

\* decide_node's docstring: an ambiguous ("Unclear") diagnosis never resolves
\* to "ring_flagged".
UnclearNeverFlagged ==
  \A t \in Threads :
    outcome[t] = "ring_flagged" => heard[t].text.stated # "unclear"

--------------------------------------------------------------------------------
(* The inductive invariant behind the safety properties.                      *)

\* A checkpoint holds what the LLM said in the latest run of its thread, and
\* nothing else, at each place of the graph.
CheckpointMatchesTranscript(t) ==
  LET s == state[t]
      h == heard[t]
  IN  /\ next[t] = "none" => outcome[t] = "idle"
      /\ next[t] # "none" => s.candidate \in Candidates
      /\ next[t] = "detect" => s = InitialState(s.candidate) /\ h = Silence
      /\ next[t] \in {"diagnose", "verify", "decide"} =>
           /\ AboveFloor(s.candidate)
           /\ s.verdict = None
      /\ next[t] = "diagnose" =>
           /\ h = Silence
           /\ ~s.run_failed
      /\ next[t] \in {"verify", "decide"} =>
           /\ h.diagnose = "answered"
           /\ h.text \in Diagnoses
           /\ s.diagnosis = h.text
      /\ next[t] = "verify" => h.verify = "none" /\ ~s.run_failed
      /\ next[t] = "decide" =>
           /\ h.verify # "none"
           /\ s.run_failed <=> h.verify = "failed"
           /\ h.verify # "failed" => s.grounded = h.verify
      /\ next[t] = "end" =>
           /\ h \in CompleteTranscripts(s.candidate)
           /\ s.verdict = Promise(s.candidate, h)

\* Where a thread stands for its caller follows from its checkpoint and from
\* whether it is being run.
CallerView(t) ==
  /\ outcome[t] = "running" <=> invocation.thread = t
  /\ invocation.thread = t => next[t] # "none"
  /\ outcome[t] = "paused" => next[t] = "decide"
  /\ outcome[t] = "raised" => next[t] = "diagnose"
  /\ outcome[t] \in Verdicts => next[t] = "end" /\ outcome[t] = state[t].verdict
  /\ outcome[t] = "idle" => next[t] = "none"

\* The one invocation: the retry loop is its node's, the interrupt was passed
\* only before decide, and an end it has reached was approved or needs nobody's
\* approval.
InvocationInOrder ==
  /\ invocation.thread = None => invocation = NoInvocation
  /\ phase # "idle" => \E t \in Threads : At(t, "diagnose") \/ At(t, "verify")
  /\ \A t \in Threads :
       invocation.thread = t =>
         /\ invocation.approved => next[t] \in {"decide", "end"}
         /\ next[t] = "end" =>
              invocation.auto \/ invocation.approved \/ Contract!NothingToReview(t)

AgentInv ==
  /\ \A t \in Threads : CheckpointMatchesTranscript(t) /\ CallerView(t)
  /\ InvocationInOrder
================================================================================
