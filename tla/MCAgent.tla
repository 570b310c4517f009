--------------------------------- MODULE MCAgent --------------------------------
(* The agent on two threads.                                                  *)
EXTENDS Agent, TLC

MCSymmetry == Permutations(Threads)

\* On either side of the input floor and of shared_payout's flag floor, as close
\* as detection's scores come (8 payers within 15 steps score exactly 0.4; only a
\* cycle can score below 0.05).
MCCandidates ==
  {[method |-> "circular_flow", score |-> 499],
   [method |-> "shared_payout", score |-> 3977],
   [method |-> "shared_payout", score |-> 4000],
   [method |-> "circular_flow", score |-> 500]}

\* A text in the form the prompt asks for, with the words after its answer.
Numbered(answer) == [words |-> <<"1.", answer, "other", "no">>, stated |-> answer]

\* A text without the number, which the parser cannot read.
Unnumbered == [words |-> <<"yes", "other">>, stated |-> "yes"]

MCDiagnoses == {Numbered("yes"), Numbered("no"), Numbered("unclear"), Unnumbered}

\* The question repeated before its answer.
EchoedUnclear ==
  [words |-> <<"1.", "other", "yes", "no", "unclear", "other", "unclear">>,
   stated |-> "unclear"]

MCEchoDiagnoses == MCDiagnoses \cup {EchoedUnclear}

\* One candidate on each side of the input floor, one text: what a run waits for
\* does not depend on more.
MCLiveCandidates ==
  {[method |-> "circular_flow", score |-> 499], [method |-> "circular_flow", score |-> 500]}
MCLiveDiagnoses == {Numbered("yes")}

\* Rate limits name no wait here: MCRetry covers the hints.
MCHints == {}
================================================================================
