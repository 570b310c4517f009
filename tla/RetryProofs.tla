------------------------------- MODULE RetryProofs ------------------------------
(* InvokeWithRetry for every number of retries and every delay.               *)
EXTENDS InvokeWithRetry, TLAPS

\* Every delay the loop computes, hinted or not, stays below LongestDelay.
LEMMA DelayBound ==
  ASSUME NEW hint \in Hints \cup {None}, NEW a \in Nat
  PROVE  Delay(hint, a) \in Int /\ Delay(hint, a) <= LongestDelay
<1>1. BaseDelay * 2^a \in Int
  <2>1. 2^a \in Int
    OBVIOUS
  <2> QED
    BY <2>1, RetryAssumption
<1>2. hint # None => hint \in 0..MaxHint
  BY RetryAssumption
<1> QED
  BY <1>1, <1>2, RetryAssumption DEF Delay, LongestDelay, MinDelay

\* One more delay keeps the sum under one more LongestDelay.
LEMMA OneMoreDelay ==
  ASSUME NEW sum \in Int, NEW n \in Nat, NEW d \in Int,
         sum <= n * LongestDelay, d <= LongestDelay
  PROVE  sum + d <= (n + 1) * LongestDelay
<1> DEFINE longest == LongestDelay
<1>1. longest \in Int
  BY RetryAssumption DEF LongestDelay, MinDelay
<1>2. (n + 1) * longest = n * longest + longest
  BY <1>1
<1>3. n * longest \in Int
  BY <1>1
<1> QED
  BY <1>1, <1>2, <1>3

\* The relation between attempts, refusals and sleeps holds in every state.
THEOREM RetryInvariant == Spec => []RetryInv
<1> USE RetryAssumption
<1>1. Init => RetryInv
  BY DEF Init, RetryInv, TypeOK, Phases, Settled, LongestDelay, MinDelay
<1>2. RetryInv /\ [Next]_vars => RetryInv'
  <2> SUFFICES ASSUME RetryInv, [Next]_vars PROVE RetryInv'
    OBVIOUS
  <2> DEFINE longest == LongestDelay
  <2>0. longest \in Int
    BY DEF LongestDelay, MinDelay
  <2>1. CASE Begin
    BY <2>1, <2>0 DEF Begin, RetryInv, TypeOK, Phases, Settled
  <2>2. CASE Answer
    BY <2>2, <2>0 DEF Answer, RetryInv, TypeOK, Phases, Settled
  <2>3. CASE RefuseLast
    BY <2>3, <2>0 DEF RefuseLast, RetryInv, TypeOK, Phases, Settled
  <2>4. ASSUME NEW hint \in Hints \cup {None}, Refuse(hint) PROVE RetryInv'
    <3>1. attempt \in Nat /\ slept \in Int /\ slept <= attempt * LongestDelay
      BY <2>4 DEF Refuse, RetryInv, TypeOK
    <3>2. Delay(hint, attempt) \in Int /\ Delay(hint, attempt) <= LongestDelay
      BY <3>1, DelayBound
    <3>3. slept' <= (attempt + 1) * LongestDelay
      BY <2>4, <3>1, <3>2, OneMoreDelay DEF Refuse
    <3>4. slept' \in Int
      BY <2>4, <3>1, <3>2 DEF Refuse
    <3> QED
      BY <2>4, <3>3, <3>4 DEF Refuse, RetryInv, TypeOK, Phases, Settled
  <2>5. CASE Escape
    BY <2>5, <2>0 DEF Escape, RetryInv, TypeOK, Phases, Settled
  <2>6. CASE Wake
    BY <2>6, <2>0 DEF Wake, RetryInv, TypeOK, Phases, Settled
  <2>7. CASE Deliver
    BY <2>7, <2>0 DEF Deliver, RetryInv, TypeOK, Phases, Settled
  <2>8. CASE UNCHANGED vars
    BY <2>8 DEF vars, RetryInv, TypeOK
  <2> QED
    BY <2>1, <2>2, <2>3, <2>4, <2>5, <2>6, <2>7, <2>8 DEF Next, Reply
<1> QED
  BY <1>1, <1>2, PTL DEF Spec

\* Type correctness of the retry loop.
THEOREM RetryTypeCorrect == Spec => []TypeOK
<1>1. RetryInv => TypeOK
  BY DEF RetryInv
<1> QED
  BY <1>1, RetryInvariant, PTL

\* invoke_with_retry gives up exactly when all MaxRetries requests were refused.
THEOREM RetryGivesUpOnlyAtTheLimit == Spec => []GivesUpOnlyAtTheLimit
<1>1. RetryInv => GivesUpOnlyAtTheLimit
  BY RetryAssumption DEF RetryInv, TypeOK, GivesUpOnlyAtTheLimit, Phases, Settled
<1> QED
  BY <1>1, RetryInvariant, PTL

\* A call never sleeps more than MaxRetries - 1 times the longest delay.
THEOREM RetrySleepBudget == Spec => []SleepBudget
<1>1. RetryInv => SleepBudget
  <2> SUFFICES ASSUME RetryInv PROVE SleepBudget
    OBVIOUS
  <2> DEFINE longest == LongestDelay
             sleeps == IF phase = "sleeping" THEN attempt + 1 ELSE attempt
  <2>1. longest \in Nat
    BY RetryAssumption DEF LongestDelay, MinDelay
  <2>2. sleeps \in Nat /\ sleeps <= MaxRetries - 1 /\ slept \in Int
    BY RetryAssumption DEF RetryInv, TypeOK
  <2>3. slept <= sleeps * longest
    BY DEF RetryInv
  <2> HIDE DEF longest, sleeps
  <2>4. sleeps * longest <= (MaxRetries - 1) * longest
    BY <2>1, <2>2, RetryAssumption
  <2>5. (MaxRetries - 1) * longest \in Int /\ sleeps * longest \in Int
    BY <2>1, <2>2, RetryAssumption
  <2>6. slept <= (MaxRetries - 1) * longest
    BY <2>2, <2>3, <2>4, <2>5
  <2> QED
    BY <2>6 DEF SleepBudget, longest
<1> QED
  BY <1>1, RetryInvariant, PTL
================================================================================
