-------------------------------- MODULE Planting --------------------------------
(* plant_rings (src/data/plant_rings.py): one ring after another drawn over    *)
(* the customers of a transaction graph, then the rings split into train and   *)
(* test.  The random generator is a choice; accounts are numbers in the order  *)
(* of the strings they stand for, so that a payout account ("C-PAYOUT-...")    *)
(* comes before every customer and a customer before every merchant.           *)
EXTENDS Integers, Sequences, FiniteSets, SequencesExt

CONSTANTS
  None,                \* Python's None
  Transactions,        \* the data's transactions: from, to, amount, step, type
  Merchants,           \* the accounts among them whose name starts with "M"
  Kinds,               \* the <<ring type, difficulty>> pairs to plant, in order
  RingsPerKind,        \* rings_per_type_per_difficulty
  LegitClusters,       \* legit_clusters
  MinSize, MaxSize,    \* min_ring_size, max_ring_size
  TestTenths,          \* test_fraction, in tenths
  Amount,              \* the amount of a planted payment, of which detection reads none
  CycleAmounts,        \* the amounts of the data that are drawn for cycles
  RandInt(_, _),       \* what rng.randint(lo, hi) may draw, both ends included
  Draw(_, _)           \* what rng.sample(customers, k=size) may draw, in its order

\* The outcome of _PLANTERS and DIFFICULTIES.
AllKinds ==
  {"shared_device", "shared_payout", "circular_flow"} \X {"obvious", "subtle"}

Accounts == UNION {{t.from, t.to} : t \in Transactions}

ASSUME PlantingAssumption ==
  /\ None \notin Nat
  /\ IsFiniteSet(Transactions)
  /\ Transactions \subseteq [from : Nat \ {0}, to : Nat \ {0}, amount : Nat, step : Nat,
                             type : STRING]
  /\ Kinds \in Seq(AllKinds)
  /\ {RingsPerKind, LegitClusters} \subseteq Nat
  /\ MaxSize \in Nat /\ MinSize \in 1..MaxSize
  /\ TestTenths \in 0..10
  /\ Amount \in Nat /\ CycleAmounts \subseteq Nat
  /\ \A lo, hi \in 0..(743 + MaxSize) :
       lo <= hi => RandInt(lo, hi) # {} /\ RandInt(lo, hi) \subseteq lo..hi

VARIABLES
  nodes,  \* account -> its kind and its device
  legs,   \* the planted edges
  rings,  \* the rings so far, a ring's id being its counter
  stage   \* "planting", "done", or "raised" by the random generator

vars == <<nodes, legs, rings, stage>>

--------------------------------------------------------------------------------
\* The ring types and difficulties in the order of plant_rings' loops.
Schedule ==
  FlattenSeq([k \in DOMAIN Kinds |-> [i \in 1..RingsPerKind |-> Kinds[k]]])
    \o [i \in 1..LegitClusters |-> <<"legit_cluster", None>>]

Customers     == {a \in DOMAIN nodes : nodes[a].kind = "C"}
MerchantNodes == {a \in DOMAIN nodes : nodes[a].kind = "M"}

\* No customer has such a name; the names of two rings are in the order of their
\* counters, which have three digits.
PayoutAccount(ring) == ring - Len(Schedule) - 1

\* rng.sample(customers, k=size): distinct customers, in its order and without it.
Samples(size) ==
  {s \in Draw(Customers, size) : s \in [1..size -> Customers] /\ IsInjective(s)}

Groups(size) == {ToSet(s) : s \in Samples(size)}

Leg(from, to, amount, step, type, ring) ==
  [from |-> from, to |-> to, amount |-> amount, step |-> step, type |-> type,
   ring_id |-> ring]

LegsOf(ring) == {leg \in legs : leg.ring_id = ring}

Ring(type, difficulty, members) ==
  [ring_type |-> type, difficulty |-> difficulty, members |-> members, split |-> "train"]

\* The id of the ring being planted, its type and difficulty.
Counter == Len(rings) + 1

Turn(type, difficulty) ==
  /\ stage = "planting"
  /\ Counter <= Len(Schedule)
  /\ Schedule[Counter] = <<type, difficulty>>

Difficulties == {"obvious", "subtle"}

\* Bugs the runs must notice: a device once set is kept, the payout account is
\* left to add_edge, a cycle left open, a share of the rings without its lower bound.
KeepDevice(members, ring) ==
  [a \in DOMAIN nodes |->
     IF a \in members /\ nodes[a].device_id = None THEN [nodes[a] EXCEPT !.device_id = ring]
                                                   ELSE nodes[a]]
AddNameless(account) ==
  [a \in DOMAIN nodes \cup {account} |->
     IF a = account THEN [kind |-> None, device_id |-> None] ELSE nodes[a]]
OpenNext(members, i) == members[IF i = Len(members) THEN 2 ELSE i + 1]
NoMinimum(n) == (n * TestTenths) \div 10

--------------------------------------------------------------------------------
(* The planters.                                                               *)

\* Every member gets the ring's device, whatever device it had.
OnDevice(members, ring) ==
  [a \in DOMAIN nodes |->
     IF a \in members THEN [nodes[a] EXCEPT !.device_id = ring] ELSE nodes[a]]

\* An obvious ring's members also pay one merchant at about the same time.
PlantSharedDevice(difficulty) ==
  /\ Turn("shared_device", difficulty)
  /\ \E size \in RandInt(MinSize, MaxSize) :
     \E members \in Groups(size) :
       /\ nodes' = OnDevice(members, Counter)
       /\ IF difficulty = "obvious"
          THEN \E merchant \in MerchantNodes, base \in RandInt(1, 700),
                  delay \in [members -> RandInt(0, 3)] :
                 legs' = legs \cup {Leg(m, merchant, Amount, base + delay[m], "PAYMENT", Counter) :
                                      m \in members}
          ELSE legs' = legs
       /\ rings' = Append(rings, Ring("shared_device", difficulty, members))
  /\ UNCHANGED stage

PayoutWindow(difficulty) == IF difficulty = "obvious" THEN 5 ELSE 60

PayoutMembers(members, ring) == members \cup {PayoutAccount(ring)}

AddPayout(account) ==
  [a \in DOMAIN nodes \cup {account} |->
     IF a = account THEN [kind |-> "C", device_id |-> None] ELSE nodes[a]]

\* The payout account is new, and a customer like any other to later planters.
PlantSharedPayout(difficulty) ==
  /\ Turn("shared_payout", difficulty)
  /\ \E size \in RandInt(MinSize, MaxSize) :
     \E members \in Groups(size), base \in RandInt(1, 700) :
     \E delay \in [members -> RandInt(0, PayoutWindow(difficulty))] :
       /\ nodes' = AddPayout(PayoutAccount(Counter))
       /\ legs' = legs \cup {Leg(m, PayoutAccount(Counter), Amount, base + delay[m],
                                 "TRANSFER", Counter) : m \in members}
       /\ rings' = Append(rings, Ring("shared_payout", difficulty,
                                      PayoutMembers(members, Counter)))
  /\ UNCHANGED stage

NextMember(members, i) == members[(i % Len(members)) + 1]

\* The i-th leg's amount: a subtle ring draws its factor anew for each leg.
LegAmount(amount, difficulty, factor, i) ==
  IF difficulty = "obvious" THEN amount
  ELSE (amount * factor ^ (i - 1)) \div 100 ^ (i - 1)

PlantCircularFlow(difficulty) ==
  /\ Turn("circular_flow", difficulty)
  /\ \E size \in RandInt(MinSize, MaxSize) :
     \E members \in Samples(size), base \in RandInt(1, 700),
        gap \in IF difficulty = "obvious" THEN {1} ELSE RandInt(5, 20) :
     \E amount \in CycleAmounts, factor \in [1..size -> RandInt(85, 98)] :
       /\ legs' = legs \cup {Leg(members[i], NextMember(members, i),
                                 LegAmount(amount, difficulty, factor[i], i),
                                 base + (i - 1) * gap, "TRANSFER", Counter) :
                               i \in DOMAIN members}
       /\ rings' = Append(rings, Ring("circular_flow", difficulty, ToSet(members)))
  /\ UNCHANGED <<nodes, stage>>

PlantLegitCluster ==
  /\ Turn("legit_cluster", None)
  /\ \E size \in RandInt(MinSize, MaxSize) :
     \E members \in Groups(size), merchant \in MerchantNodes :
     \E step \in [members -> RandInt(1, 743)] :
       /\ legs' = legs \cup {Leg(m, merchant, Amount, step[m], "PAYMENT", Counter) :
                               m \in members}
       /\ rings' = Append(rings, Ring("legit_cluster", None, members \cup {merchant}))
  /\ UNCHANGED <<nodes, stage>>

\* rng.sample of more customers than there are, or rng.choice of no merchant.
\* (An obvious device ring has set its devices by then; nothing reads them.)
Raise ==
  /\ stage = "planting"
  /\ Counter <= Len(Schedule)
  /\ \/ \E size \in RandInt(MinSize, MaxSize) : size > Cardinality(Customers)
     \/ /\ MerchantNodes = {}
        /\ Schedule[Counter] \in {<<"shared_device", "obvious">>, <<"legit_cluster", None>>}
  /\ stage' = "raised"
  /\ UNCHANGED <<nodes, legs, rings>>

--------------------------------------------------------------------------------
(* _assign_splits.                                                             *)

\* round(n / 10), half to even.
RoundTenths(n) ==
  LET q == n \div 10
      r == n % 10
  IN  IF r > 5 \/ (r = 5 /\ q % 2 = 1) THEN q + 1 ELSE q

NumTest(n) ==
  IF n <= 1 THEN 0
  ELSE IF RoundTenths(n * TestTenths) > 1 THEN RoundTenths(n * TestTenths) ELSE 1

Stratum(ring) ==
  {r \in DOMAIN rings : /\ rings[r].ring_type = rings[ring].ring_type
                        /\ rings[r].difficulty = rings[ring].difficulty}

\* The shuffle puts any rings of a stratum first.
AssignSplits ==
  /\ stage = "planting"
  /\ Counter > Len(Schedule)
  /\ \E test \in SUBSET DOMAIN rings :
       /\ \A r \in DOMAIN rings : Cardinality(test \cap Stratum(r)) = NumTest(Cardinality(Stratum(r)))
       /\ rings' = [r \in DOMAIN rings |->
                      [rings[r] EXCEPT !.split = IF r \in test THEN "test" ELSE "train"]]
  /\ stage' = "done"
  /\ UNCHANGED <<nodes, legs>>

\* build_base_graph.
Init ==
  /\ nodes = [a \in Accounts |->
                [kind |-> IF a \in Merchants THEN "M" ELSE "C", device_id |-> None]]
  /\ legs = {}
  /\ rings = <<>>
  /\ stage = "planting"

Next ==
  \/ \E difficulty \in Difficulties : PlantSharedDevice(difficulty)
  \/ \E difficulty \in Difficulties : PlantSharedPayout(difficulty)
  \/ \E difficulty \in Difficulties : PlantCircularFlow(difficulty)
  \/ PlantLegitCluster
  \/ Raise
  \/ AssignSplits

Spec == Init /\ [][Next]_vars

--------------------------------------------------------------------------------
(* What the load makes of the rings: RingTag is _ring_tag_map, the last ring an *)
(* account is a member of.                                                     *)

RingTag(account) == Max({r \in DOMAIN rings : account \in rings[r].members})

--------------------------------------------------------------------------------
(* Properties.                                                                 *)

\* Every variable keeps its type, and the legs name planted rings and accounts
\* of the graph.
TypeOK ==
  /\ stage \in {"planting", "done", "raised"}
  /\ Len(rings) <= Len(Schedule)
  /\ \A r \in DOMAIN rings :
       /\ <<rings[r].ring_type, rings[r].difficulty>> = Schedule[r]
       /\ rings[r].members \subseteq DOMAIN nodes
       /\ rings[r].split \in {"train", "test"}
  /\ \A a \in DOMAIN nodes :
       nodes[a].kind \in {"C", "M"} /\ nodes[a].device_id \in DOMAIN rings \cup {None}
  /\ \A leg \in legs : {leg.from, leg.to} \subseteq DOMAIN nodes /\ leg.ring_id \in DOMAIN rings

\* However the rings overlap, the tag and the device of an account cannot
\* contradict each other by more than what was planted between them: the tag
\* names the ring of the device, or a ring of another type that drew the account
\* later; a member of a device ring has a device.
DeviceKnowsItsRing ==
  \A a \in DOMAIN nodes :
    LET drew == {r \in DOMAIN rings : rings[r].ring_type = "shared_device"
                                        /\ a \in rings[r].members}
    IN  IF drew = {} THEN nodes[a].device_id = None
        ELSE /\ nodes[a].device_id \in drew
             /\ RingTag(a) = nodes[a].device_id
                  \/ /\ RingTag(a) > nodes[a].device_id
                     /\ rings[RingTag(a)].ring_type # "shared_device"

\* "Both splits contain every kind of ring" (src/data/plant_rings.py:233), when
\* there are two of the kind and no more than half are asked for; the test share
\* is one ring or the nearest to that fraction.
SplitsStratified ==
  stage = "done" =>
    \A r \in DOMAIN rings :
      LET n    == Cardinality(Stratum(r))
          test == Cardinality({s \in Stratum(r) : rings[s].split = "test"})
      IN  n > 1 =>
            /\ TestTenths <= 5 => test \in 1..(n - 1)
            /\ test = 1 \/ 10 * test \in (n * TestTenths - 5)..(n * TestTenths + 5)
================================================================================
