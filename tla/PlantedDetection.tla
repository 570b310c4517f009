---------------------------- MODULE PlantedDetection ----------------------------
(* plant_rings and then detect_candidates on what was planted: which rings are *)
(* found, and what the evaluation takes their candidates for.  The load in     *)
(* between is GraphLoad's Image: the graph as planted, equal transactions made *)
(* one, and every account with the tag of its last ring.                       *)
EXTENDS Planting

CONSTANTS MinFaninSize, MaxFaninSize, MaxFaninStepWindow, MinCycleLen, MaxCycleLen

ASSUME PlantedAssumption ==
  /\ {MinFaninSize, MaxFaninSize, MinCycleLen} \subseteq Nat \ {0}
  /\ MaxCycleLen \in Nat /\ MaxCycleLen >= MinCycleLen
  /\ MaxFaninStepWindow \in Nat

VARIABLES pending, candidates

\* A leg as the load stores it, and the relationships of the loaded graph.
StoredLeg(leg) ==
  [from |-> leg.from, to |-> leg.to, amount |-> leg.amount, step |-> leg.step, type |-> leg.type]

Stored == Transactions \cup {StoredLeg(leg) : leg \in legs}

Detection == INSTANCE Detection WITH accounts <- nodes, tx <- Stored, Graphs <- {}

PlantedInit ==
  /\ Init
  /\ pending = Detection!Detectors
  /\ candidates = {}

Plant == Next /\ UNCHANGED <<pending, candidates>>

Detect == stage = "done" /\ UNCHANGED vars /\ Detection!Next

PlantedNext == Plant \/ Detect

PlantedSpec == PlantedInit /\ [][PlantedNext]_<<vars, pending, candidates>>

--------------------------------------------------------------------------------
(* What the evaluation and the spot check see.                                 *)

HasTag(account) == \E r \in DOMAIN rings : account \in rings[r].members

\* label_candidate: the ring of the first member that has a tag.
Label(c) ==
  LET hit == SelectInSeq(c.members, HasTag)
  IN  IF hit = 0 THEN None ELSE RingTag(c.members[hit])

\* A bug the run must notice: only the account the label is taken from is looked up.
FirstMemberFinds(r) ==
  \E c \in candidates :
    /\ c.method = rings[r].ring_type
    /\ HasTag(c.members[1]) /\ RingTag(c.members[1]) = r

\* evaluate_against_ground_truth: a ring is FOUND if a candidate of its method has
\* one of the accounts that carry its tag.
SpotCheckFinds(r) ==
  \E c \in candidates :
    /\ c.method = rings[r].ring_type
    /\ \E a \in ToSet(c.members) : HasTag(a) /\ RingTag(a) = r

--------------------------------------------------------------------------------
(* Properties.                                                                 *)

\* The rings of the sizes that detection looks for: with too few or too many accounts
\* a ring passes no filter, and a cluster is not to be found.
WithinLimits(r) ==
  LET size == Cardinality(rings[r].members)
  IN  CASE rings[r].ring_type = "shared_device" -> size > 1
        [] rings[r].ring_type = "shared_payout" -> size - 1 \in MinFaninSize..MaxFaninSize
        [] rings[r].ring_type = "circular_flow" -> size \in MinCycleLen..MaxCycleLen
        [] rings[r].ring_type = "legit_cluster" -> FALSE

Route(transactions) == {<<t.from, t.to>> : t \in transactions}

\* The ring's members in an order in which each pays the next.
GoesRound(members, r) ==
  /\ IsInjective(members) /\ ToSet(members) = rings[r].members
  /\ \A i \in DOMAIN members : <<members[i], members[(i % Len(members)) + 1]>> \in Route(LegsOf(r))

\* The candidate a ring was planted to become: of its device, of its payout
\* account, or once round its cycle.
IsOf(c, r) ==
  /\ c.method = rings[r].ring_type
  /\ CASE c.method = "shared_device" -> c.key = <<r>>
       [] c.method = "shared_payout" -> c.key = <<PayoutAccount(r)>>
       [] c.method = "circular_flow" -> GoesRound(c.members, r)

CandidatesOf(r) == {c \in candidates : IsOf(c, r)}

OwnLegs(r) == {StoredLeg(leg) : leg \in LegsOf(r)}

\* The accounts that rings of a type planted later have as members.
DrawnLater(r, type) ==
  UNION {rings[s].members : s \in {s \in DOMAIN rings : s > r /\ rings[s].ring_type = type}}

\* The accounts that rings planted later have as members, whatever their type.
DrawnAgain(r) == UNION {rings[s].members : s \in {s \in DOMAIN rings : s > r}}

Detected == stage = "done" /\ pending = <<>>

ReachesAgent(c) == c.score >= Detection!Verdicts!ScoreFloor

\* What is planted is found, whatever else its members are part of.  A circular ring
\* is found once.  The others are only missed where their accounts were used again: a
\* payout ring when a cycle went through its payout account, a device ring when all
\* but one of its members were given another device.  And what is found passes the
\* input guardrail: whatever factors the legs of a cycle drew, its amounts are even
\* enough, unless other payments between its members were taken for them.  Only a
\* cycle of no money never does: the amount is drawn from all of the data's, of which
\* load_paysim drops none, and with a mean of zero the score is zero
\* (src/detection/detection.py:146), however even the legs.
PlantedRingsFound ==
  Detected =>
    \A r \in DOMAIN rings :
      LET type == rings[r].ring_type
      IN  /\ WithinLimits(r) /\ type = "circular_flow" => Cardinality(CandidatesOf(r)) = 1
          /\ WithinLimits(r) /\ type = "shared_payout" /\ CandidatesOf(r) = {} =>
               PayoutAccount(r) \in DrawnLater(r, "circular_flow")
          /\ type = "shared_device" /\ CandidatesOf(r) = {} =>
               Cardinality(rings[r].members \ DrawnLater(r, "shared_device")) <= 1
          /\ \A c \in CandidatesOf(r) :
               /\ type # "circular_flow" => ReachesAgent(c)
               /\ type = "circular_flow" /\ c.legs \subseteq OwnLegs(r) =>
                    (ReachesAgent(c) <=> \E t \in c.legs : t.amount > 0)

\* A ring that shares no account with another is scored as it was planted: it has
\* its candidate, which carries the ring's own label and so its split, and is FOUND
\* by the spot check.
IsolatedRingsScored ==
  Detected =>
    \A r \in DOMAIN rings :
      /\ WithinLimits(r)
      /\ \A s \in DOMAIN rings \ {r} : rings[s].members \cap rings[r].members = {}
      => /\ SpotCheckFinds(r)
         /\ \E c \in CandidatesOf(r) :
              Label(c) = r /\ ToSet(c.members) = rings[r].members \ {PayoutAccount(r)}

\* A ring that was found can read MISSED in the spot check, or be left out of its
\* list, as the tag of an account is that of its last ring only.  It takes more than
\* an overlap: every account the candidate could be known by, which are all but the
\* payout account, was drawn again by a later ring.
MissedOnlyIfRedrawn ==
  Detected =>
    \A r \in DOMAIN rings :
      WithinLimits(r) /\ CandidatesOf(r) # {} /\ ~SpotCheckFinds(r) =>
        rings[r].members \ {PayoutAccount(r)} \subseteq DrawnAgain(r)

\* "Ring planting doesn't reuse accounts across rings, so the first hit is the
\* match" (src/eval/metrics.py:149-151): the label of a device group is the ring
\* that planted it.
FirstHitIsTheMatch ==
  Detected =>
    \A r \in DOMAIN rings : rings[r].ring_type = "shared_device" =>
      \A c \in CandidatesOf(r) : Label(c) = r
================================================================================
