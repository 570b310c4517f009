------------------------------- MODULE Detection -------------------------------
(* detect_candidates (src/detection/detection.py): three queries over the     *)
(* loaded graph, one after the other, and the candidates made of their rows.  *)
(* Accounts are numbers in the order of the strings they stand for; the       *)
(* TRANSACTED_WITH relationships are a set, as MERGE stores them.  Scores are *)
(* in ten-thousandths.                                                        *)
EXTENDS Integers, Sequences, FiniteSets, SequencesExt

CONSTANTS
  None,                        \* Cypher's null
  Graphs,                      \* graphs that may be loaded
  MinFaninSize, MaxFaninSize,  \* --min-fanin-size, --max-fanin-size
  MaxFaninStepWindow,          \* --max-fanin-step-window
  MinCycleLen, MaxCycleLen     \* --min-cycle-len, --max-cycle-len

ASSUME DetectionAssumption ==
  /\ {MinFaninSize, MaxFaninSize, MinCycleLen} \subseteq Nat \ {0}
  /\ MaxCycleLen \in Nat /\ MaxCycleLen >= MinCycleLen
  /\ MaxFaninStepWindow \in Nat
  /\ \A g \in Graphs :
       /\ DOMAIN g.accounts \subseteq Int /\ IsFiniteSet(DOMAIN g.accounts)
       /\ IsFiniteSet(g.tx)
       /\ \A t \in g.tx : {t.from, t.to} \subseteq DOMAIN g.accounts /\ t.step \in Nat

VARIABLES
  accounts,   \* account -> its kind and its device
  tx,         \* transactions: from, to, amount, step, type
  pending,    \* detectors that have not run yet
  candidates  \* the candidates so far

vars == <<accounts, tx, pending, candidates>>

Detectors == <<"shared_device", "shared_payout", "circular_flow">>

\* A candidate's id is its method and its key; its legs are the transactions its
\* evidence was computed from.
Candidate(method, key, members, legs, score) ==
  [method |-> method, key |-> key, members |-> members, legs |-> legs, score |-> score]

\* The values of a function, smallest first, repeats included.
SortedValues(key) ==
  [i \in 1..Cardinality(DOMAIN key) |->
     CHOOSE a \in {key[x] : x \in DOMAIN key} :
       /\ Cardinality({x \in DOMAIN key : key[x] < a}) < i
       /\ i <= Cardinality({x \in DOMAIN key : key[x] <= a})]

RoundDiv(a, b) == (2 * a + b) \div (2 * b)

\* Bugs the run must notice: a walk kept as it was found, a walk taken for the set
\* of its accounts, the destination counted as a payer, groups of one.
AsFound(members) == members
AsSet(members) == SortedValues(members)
CountedDestination(n, window) == RoundDiv(100000 * (n + 1), MaxFaninSize * (10 + window))
AnyDevice == {accounts[a].device_id : a \in DOMAIN accounts} \ {None}

--------------------------------------------------------------------------------
(* detect_shared_device.                                                       *)

GroupOf(device) == {a \in DOMAIN accounts : accounts[a].device_id = device}

SharedDevices ==
  {d \in {accounts[a].device_id : a \in DOMAIN accounts} \ {None} : Cardinality(GroupOf(d)) > 1}

DeviceScore(n) == IF 6000 + 1000 * n < 10000 THEN 6000 + 1000 * n ELSE 10000

SharedDeviceCandidates ==
  {Candidate("shared_device", <<d>>, SortedValues([a \in GroupOf(d) |-> a]), {},
             DeviceScore(Cardinality(GroupOf(d)))) : d \in SharedDevices}

--------------------------------------------------------------------------------
(* detect_shared_payout: a group is the transfers into one customer, so an     *)
(* account that pays twice is in it twice.                                     *)

TransfersTo(dest) == {t \in tx : t.to = dest /\ t.type = "TRANSFER"}

StepWindow(transfers) ==
  LET steps == {t.step : t \in transfers} IN Max(steps) - Min(steps)

\* A bug the run over planted rings must notice: limits that are themselves left out.
TightFanIns ==
  {dest \in {t.to : t \in tx} :
     /\ accounts[dest].kind = "C"
     /\ Cardinality(TransfersTo(dest)) > MinFaninSize
     /\ Cardinality(TransfersTo(dest)) <= MaxFaninSize
     /\ StepWindow(TransfersTo(dest)) <= MaxFaninStepWindow}

FanIns ==
  {dest \in {t.to : t \in tx} :
     /\ accounts[dest].kind = "C"
     /\ TransfersTo(dest) # {}
     /\ Cardinality(TransfersTo(dest)) \in MinFaninSize..MaxFaninSize
     /\ StepWindow(TransfersTo(dest)) <= MaxFaninStepWindow}

\* min(1, n / max_size) * 1 / (1 + window / 10), rounded to four digits.
PayoutScore(n, window) ==
  RoundDiv(100000 * (IF n < MaxFaninSize THEN n ELSE MaxFaninSize),
           MaxFaninSize * (10 + window))

SharedPayoutCandidates ==
  {Candidate("shared_payout", <<dest>>, SortedValues([t \in TransfersTo(dest) |-> t.from]), TransfersTo(dest),
             PayoutScore(Cardinality(TransfersTo(dest)), StepWindow(TransfersTo(dest)))) :
     dest \in FanIns}

--------------------------------------------------------------------------------
(* detect_circular_flow.                                                       *)

\* Paths of at most MaxCycleLen relationships, none taken twice; accounts may be
\* passed again.
Trails ==
  LET out == [a \in DOMAIN accounts |-> {t \in tx : t.from = a}]
      trails[n \in 1..MaxCycleLen] ==
        IF n = 1 THEN {<<t>> : t \in tx}
        ELSE LET shorter == trails[n - 1]
             IN  shorter \cup
                   UNION {{Append(p, t) : t \in out[Last(p).to] \ ToSet(p)} :
                            p \in {q \in shorter : Len(q) = n - 1}}
  IN  trails[MaxCycleLen]

\* The rows of _CIRCULAR_FLOW_QUERY: one for every account a closed path starts at.
CycleRows == {p \in Trails : Len(p) >= MinCycleLen /\ Last(p).to = Head(p).from}

\* s from its kth element on, then what comes before it.
Rotation(s, k) == SubSeq(s, k, Len(s)) \o SubSeq(s, 1, k - 1)

\* _canonical_cycle: the rotation that starts at the first smallest account.
Canonical(members) ==
  Rotation(members, SelectInSeq(members, LAMBDA a : a = Min(ToSet(members))))

KeyOf(row) == Canonical([i \in DOMAIN row |-> row[i].from])

\* k hundredths are at most one minus the coefficient of variation of n amounts.
Fits(k, n, sum, squares) ==
  (100 - k) * (100 - k) * sum * sum >= 10000 * (n * squares - sum * sum)

\* A bug the run over planted rings must notice: amounts of nothing count as even.
EvenIfNothing(legs) ==
  LET sum     == SumFunction([t \in legs |-> t.amount])
      squares == SumFunction([t \in legs |-> t.amount * t.amount])
  IN  100 * Cardinality({k \in 1..100 : Fits(k, Cardinality(legs), sum, squares)})

\* 1 - cv of the legs' amounts, 0 below and for no money at all; cut to hundredths,
\* of which those up to the score fit.
FlowScore(legs) ==
  LET sum     == SumFunction([t \in legs |-> t.amount])
      squares == SumFunction([t \in legs |-> t.amount * t.amount])
      steady  == {k \in 1..100 : Fits(k, Cardinality(legs), sum, squares)}
  IN  IF sum = 0 THEN 0 ELSE 100 * Cardinality(steady)

\* Every way to take one element of each set choices[k].
OneOfEach(choices) ==
  FoldSet(LAMBDA k, found : {f \cup {c} : f \in found, c \in choices[k]},
          {{}}, DOMAIN choices)

\* Rows come in any order and the first of a key is kept: any choice of a row for
\* each key may come of it.
CircularFlowChoices ==
  LET rows == {[key |-> KeyOf(p), legs |-> ToSet(p)] : p \in CycleRows}
  IN  OneOfEach([k \in {row.key : row \in rows} |->
                   {Candidate("circular_flow", k, k, row.legs, FlowScore(row.legs)) :
                      row \in {r \in rows : r.key = k}}])

--------------------------------------------------------------------------------
(* detect_candidates.                                                          *)

Init ==
  /\ \E g \in Graphs : accounts = g.accounts /\ tx = g.tx
  /\ pending = Detectors
  /\ candidates = {}

Run(method, found) ==
  /\ pending # <<>> /\ Head(pending) = method
  /\ candidates' = candidates \cup found
  /\ pending' = Tail(pending)
  /\ UNCHANGED <<accounts, tx>>

DetectSharedDevice == Run("shared_device", SharedDeviceCandidates)

DetectSharedPayout == Run("shared_payout", SharedPayoutCandidates)

DetectCircularFlow ==
  pending # <<>> /\ \E found \in CircularFlowChoices : Run("circular_flow", found)

Next ==
  \/ DetectSharedDevice
  \/ DetectSharedPayout
  \/ DetectCircularFlow

Spec == Init /\ [][Next]_vars

--------------------------------------------------------------------------------
(* Properties.                                                                 *)

Verdicts == INSTANCE Verdicts WITH Diagnoses <- {}

Found(method) == {c \in candidates : c.method = method}

\* The fewest members a candidate of each detector has.
FewestMembers(method) ==
  CASE method = "shared_device" -> 2
    [] method = "shared_payout" -> MinFaninSize
    [] method = "circular_flow" -> MinCycleLen

\* Candidates are made of accounts of the graph, in order where the code sorts
\* them; ids, by which the evaluation looks a candidate up again, are unique.
TypeOK ==
  /\ pending \in {Detectors, Tail(Detectors), Tail(Tail(Detectors)), <<>>}
  /\ \A c \in candidates :
       /\ c.method \in ToSet(Detectors) \ ToSet(pending)
       /\ ToSet(c.members) \subseteq DOMAIN accounts
       /\ Len(c.members) >= FewestMembers(c.method) /\ c.score \in Verdicts!Scores
       /\ c.legs \subseteq tx
       /\ c.method # "circular_flow" =>
            \A i \in 1..(Len(c.members) - 1) : c.members[i] <= c.members[i + 1]
  /\ \A c, d \in candidates : c.method = d.method /\ c.key = d.key => c = d

\* A sequence of distinct accounts each of which pays the next, and the last the
\* first.
SimpleCycles ==
  LET accountsOf(n) == {s \in [1..n -> DOMAIN accounts] : IsInjective(s)}
      longest       == IF Cardinality(DOMAIN accounts) < MaxCycleLen
                       THEN Cardinality(DOMAIN accounts) ELSE MaxCycleLen
  IN  {s \in UNION {accountsOf(n) : n \in MinCycleLen..longest} :
         \A i \in DOMAIN s :
           \E t \in tx : t.from = s[i] /\ t.to = s[(i % Len(s)) + 1]}

Rotations(s) == {Rotation(s, k) : k \in DOMAIN s}

\* "The same cycle found from two different starting nodes collapses to one
\* candidate" (src/detection/detection.py:120-122), and none is lost: a cycle of 3
\* to 6 distinct accounts has exactly one candidate, whatever else is in the
\* graph, and a candidate without repeated accounts is such a cycle.  A closed walk
\* that passes an account again does not collapse as well, but it is reported once
\* for each time it passes its smallest account at most.
CyclesFoundOnce ==
  pending = <<>> =>
    /\ \A s \in SimpleCycles :
         Cardinality({c \in Found("circular_flow") : c.members \in Rotations(s)}) = 1
    /\ \A c \in Found("circular_flow") : IsInjective(c.members) => c.members \in SimpleCycles
    /\ \A c \in Found("circular_flow") :
         Cardinality({d \in Found("circular_flow") : d.members \in Rotations(c.members)})
           <= Cardinality({i \in DOMAIN c.members : c.members[i] = Min(ToSet(c.members))})

\* Whichever row came first, the evidence of a cycle goes round its members: every
\* one of them pays the next with a leg of its own, and there is no other leg.  And
\* the order of the rows decides what the agent sees only of a cycle that runs over
\* two transactions between the same two accounts: without, its legs are all there
\* are on its way and its score is that of their amounts, from whichever account the
\* database starts and whatever other cycles there are.
EvidenceGoesRound ==
  \A c \in Found("circular_flow") :
    LET next(i)   == c.members[(i % Len(c.members)) + 1]
        steps     == {<<c.members[i], next(i)>> : i \in DOMAIN c.members}
        times(s)  == Cardinality({i \in DOMAIN c.members : <<c.members[i], next(i)>> = s})
        onItsWay  == {t \in tx : <<t.from, t.to>> \in steps}
    IN  /\ {<<t.from, t.to>> : t \in c.legs} = steps
        /\ \A s \in steps : Cardinality({t \in c.legs : <<t.from, t.to>> = s}) = times(s)
        /\ (\A t, u \in onItsWay : t.from = u.from /\ t.to = u.to => t = u) =>
             c.legs = onItsWay /\ c.score = FlowScore(onItsWay)

\* detect_candidates leaves all thresholding to the agent's two floors, and they fit
\* its scores.  What passes the hard filters of a fan-in, or shares a device, is
\* never discarded by SCORE_FLOOR, down to 3 payers 60 steps apart; and a flag needs
\* four transfers within fifteen steps, so that the smallest fan-ins never get
\* one, whatever the LLM says.
ScoresFitFloors ==
  /\ \A c \in Found("shared_payout") \cup Found("shared_device") :
       c.score >= Verdicts!ScoreFloor
  /\ \A c \in Found("shared_payout") :
       c.score >= Verdicts!FlagScoreFloor("shared_payout") =>
         Len(c.members) >= 4 /\ StepWindow(c.legs) <= 15

\* "Accounts fanning into the same ... account", "group size ... bounded to ... 3-8
\* members" (src/detection/detection.py:84-89): a group has that many accounts.
GroupsHaveThreeMembers ==
  \A c \in Found("shared_payout") : Cardinality(ToSet(c.members)) >= 3
================================================================================
