------------------------------ MODULE MCEvaluation ------------------------------
(* Small batches of candidates through the evaluation.                        *)
EXTENDS Evaluation

Says(answer) == [words |-> <<"1.", answer>>, stated |-> answer]

\* With the fact check these two texts lead to every verdict; an ungrounded one
\* to "needs_more_data".
MCDiagnoses == {Says("yes"), Says("no")}

Tag(ring, type, difficulty, split) ==
  [ring_id |-> ring, ring_type |-> type, difficulty |-> difficulty, split |-> split]

\* One account of each planted ring.
MCRingTags ==
  [a \in {"payer", "looper", "family"} |->
     CASE a = "payer"  -> Tag("shared_payout-1", "shared_payout", "obvious", "test")
       [] a = "looper" -> Tag("circular_flow-1", "circular_flow", "subtle", "train")
       [] a = "family" -> Tag("legit_cluster-1", "legit_cluster", "obvious", "test")]

\* The members that matter for the label, and a score detection can give.
Ring(id, method, score, member, payout) ==
  [candidate_id |-> id, method |-> method, score |-> score,
   members |-> <<"stranger", member>>, payout |-> payout]

Planted == Ring("p", "shared_payout", 4545, "payer", "x")
Twin    == Ring("w", "shared_payout", 4545, "stranger", "z")
Train   == Ring("t", "circular_flow", 10000, "looper", None)
Family  == Ring("f", "shared_device", 8000, "family", None)
Fan     == Ring("c", "shared_payout", 4000, "stranger", "y")
Known   == Ring("d", "shared_payout", 2885, "stranger", PreferredPayout)
Faint   == Ring("e", "circular_flow", 499, "stranger", None)

\* A planted ring and a coincidental fan-in as far from the flag floor; a
\* legitimate cluster with a train ring; a fan-in at the flag floor, the report's
\* known fan-in and a cycle below the input floor; nothing at all.
MCBatches ==
  {<<Planted, Twin>>, <<Family, Train>>, <<Fan, Known, Faint>>, <<>>}

\* One coincidental fan-in is enough for the report's choice.
MCFanBatches == {<<Fan>>}
================================================================================
