----------------------------- MODULE AgentContract -----------------------------
(* What the ring agent promises its callers, whatever its graph looks like:   *)
(* which LLM answers a run may gather, when a human has to approve, and which *)
(* verdict the answers gathered so far lead to.  No node, no checkpoint, no   *)
(* retry: those are Agent's business.                                         *)
EXTENDS Verdicts

CONSTANTS
  Threads,    \* thread ids
  Candidates  \* candidate rings that may be submitted

VARIABLES
  subject,  \* thread -> the candidate of its latest run
  heard,    \* thread -> what the LLM has answered in that run
  outcome   \* thread -> where that run stands, or the verdict it returned

vars == <<subject, heard, outcome>>

Open     == {"running", "approved", "paused", "raised"}
Outcomes == {"idle"} \cup Open \cup Verdicts

--------------------------------------------------------------------------------
\* A run with no diagnosis to look at needs no approval.
NothingToReview(t) ==
  ~AboveFloor(subject[t]) \/ heard[t].diagnose = "failed"

Gathered(t) == NothingToReview(t) \/ heard[t].verify # "none"

Active(t) == outcome[t] \in {"running", "approved"}

--------------------------------------------------------------------------------
Init ==
  /\ subject \in [Threads -> {None}]
  /\ heard = [t \in Threads |-> Silence]
  /\ outcome = [t \in Threads |-> "idle"]

\* A caller submits a candidate, approving the verdict beforehand or not; what
\* the thread held before is forgotten.
Start(t, c, approved) ==
  /\ ~Active(t)
  /\ subject' = [subject EXCEPT ![t] = c]
  /\ heard' = [heard EXCEPT ![t] = Silence]
  /\ outcome' = [outcome EXCEPT ![t] = IF approved THEN "approved" ELSE "running"]

\* The LLM is asked for a diagnosis only above the score floor, and once: it
\* gives one, or the call fails.
HearDiagnosis(t, text) ==
  /\ Active(t)
  /\ AboveFloor(subject[t])
  /\ heard[t].diagnose = "none"
  /\ heard' = [heard EXCEPT ![t] = [@ EXCEPT !.diagnose = "answered", !.text = text]]
  /\ UNCHANGED <<subject, outcome>>

HearRefusal(t) ==
  /\ Active(t)
  /\ AboveFloor(subject[t])
  /\ heard[t].diagnose = "none"
  /\ heard' = [heard EXCEPT ![t].diagnose = "failed"]
  /\ UNCHANGED <<subject, outcome>>

\* The fact check is asked for only about a diagnosis, and once.
HearVerify(t, reply) ==
  /\ Active(t)
  /\ heard[t].diagnose = "answered"
  /\ heard[t].verify = "none"
  /\ heard' = [heard EXCEPT ![t].verify = reply]
  /\ UNCHANGED <<subject, outcome>>

\* An unapproved run stops once everything is there for the human to inspect.
Pause(t) ==
  /\ outcome[t] = "running"
  /\ heard[t].verify # "none"
  /\ outcome' = [outcome EXCEPT ![t] = "paused"]
  /\ UNCHANGED <<subject, heard>>

Approve(t) ==
  /\ outcome[t] = "paused"
  /\ outcome' = [outcome EXCEPT ![t] = "approved"]
  /\ UNCHANGED <<subject, heard>>

\* An error that is no rate limit ends the run before it has a diagnosis.
Raise(t) ==
  /\ Active(t)
  /\ AboveFloor(subject[t])
  /\ heard[t].diagnose = "none"
  /\ outcome' = [outcome EXCEPT ![t] = "raised"]
  /\ UNCHANGED <<subject, heard>>

\* Such a run may be taken up again, without approval.
TakeUp(t) ==
  /\ outcome[t] = "raised"
  /\ outcome' = [outcome EXCEPT ![t] = "running"]
  /\ UNCHANGED <<subject, heard>>

\* The run returns the verdict it owes, never before it was approved.
Conclude(t) ==
  /\ Active(t)
  /\ Gathered(t)
  /\ outcome[t] = "running" => NothingToReview(t)
  /\ outcome' = [outcome EXCEPT ![t] = Promise(subject[t], heard[t])]
  /\ UNCHANGED <<subject, heard>>

Advance(t) ==
  \/ \E d \in Diagnoses : HearDiagnosis(t, d)
  \/ HearRefusal(t)
  \/ \E reply \in {"grounded", "ungrounded", "failed"} : HearVerify(t, reply)
  \/ Pause(t)
  \/ Raise(t)
  \/ Conclude(t)

Next ==
  \E t \in Threads :
    \/ \E c \in Candidates, approved \in BOOLEAN : Start(t, c, approved)
    \/ Advance(t)
    \/ Approve(t)
    \/ TakeUp(t)

Spec == Init /\ [][Next]_vars

\* A run that is neither paused nor over moves on.
FairSpec == Spec /\ \A t \in Threads : WF_vars(Advance(t))
================================================================================
