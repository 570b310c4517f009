---------------------------- MODULE InvokeWithRetry ----------------------------
(* invoke_with_retry (src/agent/retry.py): one LLM call, repeated while       *)
(* Groq refuses it for its rate limit.  Times are milliseconds.               *)
EXTENDS Integers

CONSTANTS
  None,        \* the refusal names no wait of the form "try again in Xms"
  MaxRetries,  \* requests sent before giving up
  BaseDelay,   \* first exponential delay
  MaxDelay,    \* cap of the exponential delay
  Hints,       \* waits a refusal may name
  MaxHint      \* a bound on them

ASSUME RetryAssumption ==
  /\ MaxRetries \in Nat \ {0}
  /\ BaseDelay \in Nat
  /\ MaxDelay \in Nat
  /\ MaxHint \in Nat
  /\ Hints \subseteq 0..MaxHint
  /\ None \notin Hints

VARIABLES
  phase,    \* where the call stands
  attempt,  \* the loop variable
  refused,  \* rate-limit errors received by this call
  slept     \* milliseconds this call has slept

vars == <<phase, attempt, refused, slept>>

Settled == {"answered", "exhausted", "raised"}
Phases  == {"idle", "trying", "sleeping"} \cup Settled

Init ==
  /\ phase = "idle"
  /\ attempt = 0
  /\ refused = 0
  /\ slept = 0

--------------------------------------------------------------------------------
(* Bugs a run must notice: the backoff without its cap, the loop starting     *)
(* over or skipping an attempt after a sleep, a call given up one early.      *)

UncappedDelay(hint, a) == IF hint # None THEN hint ELSE BaseDelay * 2^a

StartOverWake ==
  /\ phase = "sleeping"
  /\ phase' = "trying"
  /\ attempt' = 0 /\ refused' = 0 /\ slept' = 0

SkippingWake ==
  /\ phase = "sleeping"
  /\ phase' = "trying"
  /\ attempt' = attempt + 2
  /\ UNCHANGED <<refused, slept>>

EarlyRefuseLast ==
  /\ phase = "trying"
  /\ attempt >= MaxRetries - 2
  /\ phase' = "exhausted"
  /\ refused' = refused + 1
  /\ UNCHANGED <<attempt, slept>>

--------------------------------------------------------------------------------
MinDelay == 1000

\* The wait named by the error is honoured, but never below a second; without
\* one the delay doubles with every attempt up to MaxDelay.
Delay(hint, a) ==
  LET backoff == BaseDelay * 2^a
  IN  IF hint # None
      THEN IF hint < MinDelay THEN MinDelay ELSE hint
      ELSE IF backoff < MaxDelay THEN backoff ELSE MaxDelay

\* A caller enters the loop.
Begin ==
  /\ phase = "idle"
  /\ phase' = "trying"
  /\ UNCHANGED <<attempt, refused, slept>>

\* fn() returns.
Answer ==
  /\ phase = "trying"
  /\ phase' = "answered"
  /\ UNCHANGED <<attempt, refused, slept>>

\* fn() raises groq.RateLimitError on the last attempt: LLMCallFailed.
RefuseLast ==
  /\ phase = "trying"
  /\ attempt = MaxRetries - 1
  /\ phase' = "exhausted"
  /\ refused' = refused + 1
  /\ UNCHANGED <<attempt, slept>>

\* fn() raises groq.RateLimitError earlier: sleep before the next attempt.
Refuse(hint) ==
  /\ phase = "trying"
  /\ attempt # MaxRetries - 1
  /\ phase' = "sleeping"
  /\ refused' = refused + 1
  /\ slept' = slept + Delay(hint, attempt)
  /\ UNCHANGED attempt

\* time.sleep returns and the loop goes round.
Wake ==
  /\ phase = "sleeping"
  /\ phase' = "trying"
  /\ attempt' = attempt + 1
  /\ UNCHANGED <<refused, slept>>

\* fn() raises anything else: no handler here, the exception leaves the loop.
Escape ==
  /\ phase = "trying"
  /\ phase' = "raised"
  /\ UNCHANGED <<attempt, refused, slept>>

\* The caller takes the result or the exception; the loop's frame is gone.
Deliver ==
  /\ phase \in Settled
  /\ phase' = "idle"
  /\ attempt' = 0
  /\ refused' = 0
  /\ slept' = 0

\* The provider's reply to the request in flight.
Reply ==
  \/ Answer
  \/ RefuseLast
  \/ \E hint \in Hints \cup {None} : Refuse(hint)
  \/ Escape

Next == Begin \/ Reply \/ Wake \/ Deliver

\* The Groq client times out and the sleep is finite, so a request in flight is
\* answered in some way and a sleeper wakes.  Nobody has to place a call.
Fairness == WF_vars(Reply) /\ WF_vars(Wake)

Spec == Init /\ [][Next]_vars /\ Fairness

--------------------------------------------------------------------------------
\* Every variable keeps its type.
TypeOK ==
  /\ phase \in Phases
  /\ attempt \in 0..(MaxRetries - 1)
  /\ refused \in 0..MaxRetries
  /\ slept \in Int

\* LLMCallFailed is raised exactly for a call all of whose MaxRetries requests
\* were refused; a call that is answered, or still open, has one left.
GivesUpOnlyAtTheLimit ==
  phase # "idle" => (phase = "exhausted" <=> refused = MaxRetries)

LongestDelay ==
  IF MaxHint < MaxDelay
  THEN IF MaxDelay < MinDelay THEN MinDelay ELSE MaxDelay
  ELSE IF MaxHint < MinDelay THEN MinDelay ELSE MaxHint

\* A call sleeps only between two requests, so at most MaxRetries - 1 times: the
\* last refusal is reported at once.  retry.py's docstring prices an exhausted
\* call at MAX_RETRIES x MAX_DELAY.
SleepBudget == slept <= (MaxRetries - 1) * LongestDelay

\* Every call that is placed settles: the loop has no way to wait for ever.
CallSettles == phase = "trying" ~> phase \in Settled

\* The inductive invariant behind the safety properties: between the loop
\* variable, the refusals and the sleeps.
RetryInv ==
  /\ TypeOK
  /\ phase = "idle" => attempt = 0 /\ refused = 0 /\ slept = 0
  /\ phase \in {"trying", "answered", "raised"} => refused = attempt
  /\ phase = "sleeping" => refused = attempt + 1 /\ attempt < MaxRetries - 1
  /\ phase = "exhausted" => refused = attempt + 1 /\ attempt = MaxRetries - 1
  /\ slept <= (IF phase = "sleeping" THEN attempt + 1 ELSE attempt) * LongestDelay
================================================================================
