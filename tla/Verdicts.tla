-------------------------------- MODULE Verdicts --------------------------------
(* What the agent, its contract and the evaluation share: the verdicts a run  *)
(* can end with, the two score floors, the reading of a diagnosis, and the    *)
(* verdict a run owes for the answers the LLM gave it.  Suspicion scores are  *)
(* fractions in [0, 1]; they are modelled as integers in ten-thousandths, so  *)
(* 0.05 is 500 and 0.4 is 4000.                                               *)
EXTENDS Integers, Sequences, SequencesExt

CONSTANTS
  None,      \* Python's None
  Diagnoses  \* texts the LLM may produce

Methods == {"shared_device", "shared_payout", "circular_flow"}

\* The three judgments, and the sentinel of a run that produced none.
Judgments == {"ring_flagged", "cleared", "needs_more_data"}
RunFailed == "run_failed"
Verdicts  == Judgments \cup {RunFailed}

Scores == 0..10000

\* guardrails.SCORE_FLOOR: below it a candidate never reaches the LLM.
ScoreFloor == 500

\* nodes.FLAG_SCORE_FLOOR.get(method, 0.0)
FlagScoreFloor(method) == IF method = "shared_payout" THEN 4000 ELSE 0

--------------------------------------------------------------------------------
(* A diagnosis is free text.  The parser sees only the question mark "1." and *)
(* the words yes, no and unclear, in any case and wherever they stand, so a   *)
(* text is the sequence of those tokens ("other" stands for the rest).        *)

Answers == {"yes", "no", "unclear"}
Tokens  == {"1.", "other"} \cup Answers

(* What _Q1_ANSWER_RE finds: the first of the three words that follows the    *)
(* first "1." of the text, across lines; "unclear" when there is no match.    *)
Q1Answer(words) ==
  LET mark == SelectInSeq(words, LAMBDA w : w = "1.")
      hit  == SelectInSubSeq(words, mark + 1, Len(words), LAMBDA w : w \in Answers)
  IN  IF mark = 0 \/ hit = 0 THEN "unclear" ELSE words[hit]

(* A diagnosis with the answer a reader takes from it.  The program keeps the *)
(* text only; "stated" lets a property compare what was said with what the    *)
(* parser read.                                                               *)
DiagnosisTexts == [words : Seq(Tokens), stated : Answers]

(* A candidate ring as the agent's decisions see it.                          *)
CandidateRings == [method : Methods, score : Scores]

--------------------------------------------------------------------------------
(* What the LLM has answered in one run.                                      *)

Transcripts ==
  [diagnose : {"none", "answered", "failed"},
   text     : Diagnoses \cup {None},
   verify   : {"none", "grounded", "ungrounded", "failed"}]

Silence == [diagnose |-> "none", text |-> None, verify |-> "none"]

AboveFloor(c) == c.score >= ScoreFloor

ACallFailed(h) == h.diagnose = "failed" \/ h.verify = "failed"

\* Grounded and read as a "Yes", with a score that clears the method's own floor.
Flaggable(c, h) ==
  /\ AboveFloor(c)
  /\ c.score >= FlagScoreFloor(c.method)
  /\ h.diagnose = "answered"
  /\ h.verify = "grounded"
  /\ Q1Answer(h.text.words) = "yes"

Clearable(c, h) ==
  /\ AboveFloor(c)
  /\ h.diagnose = "answered"
  /\ h.verify = "grounded"
  /\ Q1Answer(h.text.words) = "no"

\* The verdict a run owes, as a function of the candidate and the LLM's answers.
Promise(c, h) ==
  CASE ~AboveFloor(c)                  -> "needs_more_data"
    [] AboveFloor(c) /\ ACallFailed(h) -> RunFailed
    [] Flaggable(c, h)                 -> "ring_flagged"
    [] Clearable(c, h)                 -> "cleared"
    [] OTHER                           -> "needs_more_data"

\* Everything a run that returns can have been told: nothing below the floor,
\* a refused diagnosis, or a diagnosis and the fate of its fact check.
CompleteTranscripts(c) ==
  IF AboveFloor(c)
  THEN {[diagnose |-> "failed", text |-> None, verify |-> "none"]}
         \cup [diagnose : {"answered"}, text : Diagnoses,
               verify : {"grounded", "ungrounded", "failed"}]
  ELSE {Silence}
================================================================================
