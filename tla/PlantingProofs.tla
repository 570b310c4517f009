----------------------------- MODULE PlantingProofs -----------------------------
(* What plant_rings leaves in the graph holds for every transaction graph, every *)
(* schedule of rings and every outcome of the random generator.                *)
EXTENDS PlantedDetection, OrderLemmas

--------------------------------------------------------------------------------
(* The inductive invariant.                                                    *)

RingTypes == {"shared_device", "shared_payout", "circular_flow", "legit_cluster"}

RingRecords ==
  [ring_type : RingTypes, difficulty : Difficulties \cup {None}, members : SUBSET Int,
   split : {"train", "test"}]

\* Rings are a list, and the accounts are those of the data and of payout rings.
Lists ==
  /\ rings \in Seq(RingRecords)
  /\ DOMAIN nodes \subseteq Accounts \cup {PayoutAccount(r) : r \in DOMAIN rings}
  /\ \A a \in DOMAIN nodes :
       nodes[a] = [kind |-> nodes[a].kind, device_id |-> nodes[a].device_id]

TestRings(ring) == {s \in Stratum(ring) : rings[s].split = "test"}

\* Every stratum has its share of test rings.
SplitsCounted ==
  stage = "done" =>
    \A r \in DOMAIN rings : Cardinality(TestRings(r)) = NumTest(Cardinality(Stratum(r)))

\* The rings of an account, and the device rings among them.
RingsOf(a) == {r \in DOMAIN rings : a \in rings[r].members}
DeviceRings(a) == {r \in DOMAIN rings : rings[r].ring_type = "shared_device"
                                          /\ a \in rings[r].members}

\* The device of an account is that of the last device ring that drew it.
LastDevice == \A a \in DOMAIN nodes : \A r \in DeviceRings(a) : r <= nodes[a].device_id

\* The graph is finite and keeps the accounts of the data.
Finite ==
  /\ Accounts \subseteq DOMAIN nodes /\ IsFiniteSet(DOMAIN nodes)
  /\ IsFiniteSet(legs) /\ \A leg \in legs : leg.step \in Nat

\* Only a payout ring has a payout account, which is a customer's, and only the ring
\* itself and later ones have it as a member.
PayoutsAreNew ==
  \A r \in DOMAIN rings :
    /\ PayoutAccount(r) \in DOMAIN nodes =>
         rings[r].ring_type = "shared_payout" /\ nodes[PayoutAccount(r)].kind = "C"
    /\ \A s \in DOMAIN rings : PayoutAccount(r) \in rings[s].members => r <= s

\* What the legs of a ring are: each member of a payout ring pays once, within sixty
\* steps of the others, and every member of a circular one pays the next.
PayoutLegs(members, ring, own) ==
  /\ PayoutAccount(ring) \in members
  /\ \A leg \in own : /\ leg.type = "TRANSFER" /\ leg.to = PayoutAccount(ring)
                      /\ leg.from \in members \ {PayoutAccount(ring)}
  /\ \A m \in members \ {PayoutAccount(ring)} : \E leg \in own : leg.from = m
  /\ \A leg, other \in own : /\ leg.from = other.from => leg = other
                             /\ leg.step - other.step <= 60

CycleLegs(members, own) ==
  \E s \in [1..Cardinality(members) -> members], amount \in CycleAmounts :
    /\ IsInjective(s) /\ ToSet(s) = members
    /\ \A i \in DOMAIN s : \E leg \in own : leg.from = s[i] /\ leg.to = NextMember(s, i)
    /\ \A leg \in own : \E i \in DOMAIN s, factor \in 85..98 :
         /\ leg.from = s[i] /\ leg.to = NextMember(s, i)
         /\ leg.amount \in {amount, LegAmount(amount, "subtle", factor, i)}

LegsFit(type, members, ring, own) ==
  CASE type \in {"shared_device", "legit_cluster"} -> \A leg \in own : leg.type = "PAYMENT"
    [] type = "shared_payout" -> PayoutLegs(members, ring, own)
    [] type = "circular_flow" -> CycleLegs(members, own)

LegsAreOfRings ==
  \A r \in DOMAIN rings : LegsFit(rings[r].ring_type, rings[r].members, r, LegsOf(r))

PlantingInv ==
  /\ TypeOK
  /\ Lists
  /\ DeviceKnowsItsRing /\ LastDevice
  /\ SplitsCounted
  /\ Finite /\ PayoutsAreNew /\ LegsAreOfRings

--------------------------------------------------------------------------------
(* The lists.                                                                  *)

\* The schedule is a list.
LEMMA ScheduleLength == Len(Schedule) \in Nat
<1> DEFINE T == AllKinds \cup {<<"legit_cluster", None>>}
           planted == [k \in DOMAIN Kinds |-> [i \in 1..RingsPerKind |-> Kinds[k]]]
           legit == [i \in 1..LegitClusters |-> <<"legit_cluster", None>>]
<1>1. Kinds \in Seq(T) /\ RingsPerKind \in Nat /\ LegitClusters \in Nat
  BY PlantingAssumption DEF AllKinds
<1>2. legit \in Seq(T)
  BY <1>1
<1>3. planted \in Seq(Seq(T))
  <2> HIDE DEF T
  <2>1. Len(Kinds) \in Nat /\ DOMAIN Kinds = 1..Len(Kinds) /\ \A k \in 1..Len(Kinds) : Kinds[k] \in T
    BY <1>1
  <2>2. \A k \in 1..Len(Kinds) : [i \in 1..RingsPerKind |-> Kinds[k]] \in Seq(T)
    BY <1>1, <2>1
  <2> DEFINE Z == Seq(T)
  <2>3. planted = [k \in 1..Len(Kinds) |-> [i \in 1..RingsPerKind |-> Kinds[k]]]
    BY <2>1
  <2>4. \A k \in 1..Len(Kinds) : planted[k] \in Z
    BY <2>2, <2>3
  <2>5. planted = [k \in 1..Len(Kinds) |-> planted[k]]
    BY <2>3
  <2> HIDE DEF Z, planted
  <2>6. planted \in Seq(Z)
    BY <2>1, <2>4, <2>5
  <2> QED BY <2>6 DEF Z
<1>4. FlattenSeq(planted) \in Seq(T)
  <2> HIDE DEF T, planted
  <2> QED BY <1>3, FlattenSeqType
<1>5. Schedule = FlattenSeq(planted) \o legit
  BY DEF Schedule
<1> HIDE DEF T, planted, legit
<1> QED BY <1>2, <1>4, <1>5

\* A payout account is not an account of the data, nor another ring's.
LEMMA PayoutAccountIsNew ==
  ASSUME Lists, Counter <= Len(Schedule)
  PROVE  PayoutAccount(Counter) \in Int /\ PayoutAccount(Counter) \notin DOMAIN nodes
<1>1. Accounts \subseteq Nat \ {0}
  BY PlantingAssumption DEF Accounts
<1>2. Len(rings) \in Nat /\ DOMAIN rings = 1..Len(rings)
  BY DEF Lists
<1>3. PayoutAccount(Counter) \in Int /\ PayoutAccount(Counter) < 0
  BY <1>2, ScheduleLength DEF PayoutAccount, Counter
<1>4. \A r \in DOMAIN rings : PayoutAccount(r) # PayoutAccount(Counter)
  BY <1>2, ScheduleLength DEF PayoutAccount, Counter
<1> QED BY <1>1, <1>3, <1>4 DEF Lists

\* The accounts are numbers.
LEMMA AccountsAreNumbers ==
  ASSUME Lists
  PROVE  DOMAIN nodes \subseteq Int
<1>1. \A x \in Accounts : x \in Int
  BY PlantingAssumption DEF Accounts
<1>2. \A r \in DOMAIN rings : PayoutAccount(r) \in Int
  <2>1. DOMAIN rings = 1..Len(rings)
    BY DEF Lists
  <2> QED BY <2>1, ScheduleLength DEF PayoutAccount
<1>3. \A a \in DOMAIN nodes : a \in Accounts \/ \E r \in DOMAIN rings : a = PayoutAccount(r)
  BY DEF Lists
<1> SUFFICES ASSUME NEW a \in DOMAIN nodes PROVE a \in Int
  OBVIOUS
<1>4. CASE a \in Accounts
  BY <1>1, <1>4
<1>5. CASE a \notin Accounts
  BY <1>2, <1>3, <1>5
<1> QED BY <1>4, <1>5

\* The numbers the planters draw.
Within(lo, hi) == RandInt(lo, hi) \subseteq lo..hi

\* Whatever is drawn is within the bounds asked for.
LEMMA DrawnNumbers ==
  /\ RandInt(1, 700) \subseteq 1..700 /\ RandInt(1, 743) \subseteq 1..743
  /\ RandInt(5, 20) \subseteq 5..20 /\ RandInt(85, 98) \subseteq 85..98
  /\ RandInt(0, 3) \subseteq 0..3
  /\ \A difficulty : RandInt(0, PayoutWindow(difficulty)) \subseteq 0..60
<1>1. ASSUME NEW lo \in 0..743, NEW hi \in 0..743, lo <= hi
      PROVE  Within(lo, hi)
  <2>1. MaxSize \in Nat
    BY PlantingAssumption
  <2>2. lo \in 0..(743 + MaxSize) /\ hi \in 0..(743 + MaxSize)
    BY <2>1
  <2> QED BY <1>1, <2>2, PlantingAssumption DEF Within
<1> DEFINE D == 0..743
<1>2. \A lo, hi \in D : lo <= hi => Within(lo, hi)
  BY <1>1
<1>3. Within(1, 700)
  <2>1. 1 \in D /\ 700 \in D /\ 1 <= 700
    BY ONLY TRUE
  <2> HIDE DEF D
  <2> QED BY ONLY <1>2, <2>1, ZenonT(60)
<1>4. Within(1, 743)
  <2>1. 1 \in D /\ 743 \in D /\ 1 <= 743
    BY ONLY TRUE
  <2> HIDE DEF D
  <2> QED BY ONLY <1>2, <2>1, ZenonT(60)
<1>5. Within(5, 20)
  <2>1. 5 \in D /\ 20 \in D /\ 5 <= 20
    BY ONLY TRUE
  <2> HIDE DEF D
  <2> QED BY ONLY <1>2, <2>1, Zenon
<1>6. Within(85, 98)
  <2>1. 85 \in D /\ 98 \in D /\ 85 <= 98
    BY ONLY TRUE
  <2> HIDE DEF D
  <2> QED BY ONLY <1>2, <2>1, Zenon
<1>7. Within(0, 3)
  <2>1. 0 \in D /\ 3 \in D /\ 0 <= 3
    BY ONLY TRUE
  <2> HIDE DEF D
  <2> QED BY ONLY <1>2, <2>1, Zenon
<1>8. Within(0, 5)
  <2>1. 0 \in D /\ 5 \in D /\ 0 <= 5
    BY ONLY TRUE
  <2> HIDE DEF D
  <2> QED BY ONLY <1>2, <2>1, Zenon
<1>9. Within(0, 60)
  <2>1. 0 \in D /\ 60 \in D /\ 0 <= 60
    BY ONLY TRUE
  <2> HIDE DEF D
  <2> QED BY ONLY <1>2, <2>1, Zenon
<1>10. \A difficulty : RandInt(0, PayoutWindow(difficulty)) \subseteq 0..60
  <2>1. 0..5 \subseteq 0..60
    OBVIOUS
  <2> QED BY <1>8, <1>9, <2>1 DEF PayoutWindow, Within
<1> QED BY <1>3, <1>4, <1>5, <1>6, <1>7, <1>10 DEF Within

\* A sample is of distinct customers, as many as asked for.
LEMMA SamplesType ==
  ASSUME NEW size \in RandInt(MinSize, MaxSize)
  PROVE  /\ size \in Nat \ {0}
         /\ \A s \in Samples(size) :
              /\ s \in [1..size -> Customers] /\ Len(s) = size /\ IsInjective(s)
              /\ ToSet(s) \subseteq Customers /\ Cardinality(ToSet(s)) = size
         /\ \A members \in Groups(size) : members \subseteq Customers
         /\ Customers \subseteq DOMAIN nodes
<1>1. MinSize \in Nat \ {0} /\ MaxSize \in Nat /\ MinSize <= MaxSize
  BY PlantingAssumption
<1>2. RandInt(MinSize, MaxSize) \subseteq MinSize..MaxSize
  <2>1. MinSize \in 0..(743 + MaxSize) /\ MaxSize \in 0..(743 + MaxSize)
    BY <1>1
  <2> QED BY <1>1, <2>1, PlantingAssumption
<1>3. size \in Nat \ {0}
  BY <1>1, <1>2
<1>4. ASSUME NEW s \in Samples(size)
      PROVE  /\ s \in [1..size -> Customers] /\ Len(s) = size /\ IsInjective(s)
             /\ ToSet(s) \subseteq Customers /\ Cardinality(ToSet(s)) = size
  <2>1. s \in [1..size -> Customers] /\ IsInjective(s)
    BY DEF Samples
  <2>2. Len(s) = size
    BY <1>3, <2>1
  <2>3. ToSet(s) \subseteq Customers
    BY <2>1 DEF ToSet
  <2> DEFINE D == 1..size
             T == ToSet(s)
  <2>4. s \in Bijection(D, T)
    BY <2>1 DEF Bijection, Injection, Surjection, IsInjective, ToSet
  <2>5. IsFiniteSet(D) /\ Cardinality(D) = size
    <3>1. 1 \in Int /\ size \in Int /\ ~(1 > size) /\ size - 1 + 1 = size
      BY <1>3
    <3> QED BY <3>1, FS_Interval
  <2> HIDE DEF D, T
  <2>6. Cardinality(T) = size
    BY <2>4, <2>5, FS_Bijection DEF ExistsBijection
  <2> QED BY <2>1, <2>2, <2>3, <2>6 DEF T
<1>5. \A members \in Groups(size) : members \subseteq Customers
  BY <1>4 DEF Groups
<1> QED BY <1>3, <1>4, <1>5 DEF Customers

--------------------------------------------------------------------------------
(* What a planter does, whichever it is.                                       *)

\* One more ring, with its members in the graph, its legs between accounts of the
\* graph, and the change its type makes to the accounts.
Planted(type, difficulty, members) ==
  /\ type \in RingTypes /\ difficulty \in Difficulties \cup {None}
  /\ Turn(type, difficulty)
  /\ members \subseteq DOMAIN nodes'
  /\ rings' = Append(rings, Ring(type, difficulty, members))
  /\ stage' = stage
  /\ \E new : /\ legs' = legs \cup new /\ IsFiniteSet(new)
              /\ \A leg \in new : /\ {leg.from, leg.to} \subseteq DOMAIN nodes'
                                  /\ leg.ring_id = Counter /\ leg.step \in Nat
              /\ LegsFit(type, members, Counter, new)
  /\ nodes' = CASE type = "shared_device" -> OnDevice(members, Counter)
                [] type = "shared_payout" -> AddPayout(PayoutAccount(Counter))
                [] type \in {"circular_flow", "legit_cluster"} -> nodes

\* Payments of the members of a ring to a merchant.
PaymentsTo(merchant, members, step, ring) ==
  {Leg(m, merchant, Amount, step[m], "PAYMENT", ring) : m \in members}

ArePayments(new, ring) ==
  /\ IsFiniteSet(new)
  /\ \A leg \in new : /\ {leg.from, leg.to} \subseteq DOMAIN nodes
                      /\ leg.ring_id = ring /\ leg.step \in Nat
                      /\ leg.type = "PAYMENT"

\* Payments of accounts of the graph are legs of it.
LEMMA Payments ==
  ASSUME IsFiniteSet(DOMAIN nodes), NEW members, members \subseteq DOMAIN nodes,
         NEW merchant \in DOMAIN nodes, NEW step, \A m \in members : step[m] \in Nat,
         NEW ring
  PROVE  ArePayments(PaymentsTo(merchant, members, step, ring), ring)
<1> DEFINE f == [m \in members |-> Leg(m, merchant, Amount, step[m], "PAYMENT", ring)]
           new == {Leg(m, merchant, Amount, step[m], "PAYMENT", ring) : m \in members}
           img == {f[m] : m \in members}
<1>1. \A leg \in new : /\ {leg.from, leg.to} \subseteq DOMAIN nodes
                       /\ leg.ring_id = ring /\ leg.step \in Nat
                       /\ leg.type = "PAYMENT"
  BY DEF Leg
<1>2. IsFiniteSet(members)
  BY FS_Subset
<1>3. img = new
  OBVIOUS
<1>4. DOMAIN f = members /\ f = [m \in members |-> f[m]]
  OBVIOUS
<1> HIDE DEF f
<1>5. IsFiniteSet(img)
  BY <1>2, <1>4, ImageIsFinite
<1> QED BY <1>1, <1>3, <1>5 DEF PaymentsTo, ArePayments

\* What plant_shared_device_ring leaves.
LEMMA DevicePlanted ==
  ASSUME Finite, NEW difficulty \in Difficulties, PlantSharedDevice(difficulty)
  PROVE  \E members : Planted("shared_device", difficulty, members)
<1>1. PICK size, members :
        /\ size \in RandInt(MinSize, MaxSize) /\ members \in Groups(size)
        /\ nodes' = OnDevice(members, Counter)
        /\ IF difficulty = "obvious"
           THEN \E merchant \in MerchantNodes, base \in RandInt(1, 700),
                   delay \in [members -> RandInt(0, 3)] :
                  legs' = legs \cup {Leg(m, merchant, Amount, base + delay[m], "PAYMENT", Counter) :
                                       m \in members}
           ELSE legs' = legs
        /\ rings' = Append(rings, Ring("shared_device", difficulty, members))
  BY DEF PlantSharedDevice
<1>2. DOMAIN nodes' = DOMAIN nodes /\ members \subseteq DOMAIN nodes
  BY <1>1, SamplesType DEF OnDevice
<1>3. MerchantNodes \subseteq DOMAIN nodes
  BY DEF MerchantNodes
<1>4. \E new : /\ legs' = legs \cup new /\ IsFiniteSet(new)
               /\ \A leg \in new : /\ {leg.from, leg.to} \subseteq DOMAIN nodes
                                   /\ leg.ring_id = Counter /\ leg.step \in Nat
                                   /\ leg.type = "PAYMENT"
  <2>1. CASE difficulty = "obvious"
    <3>1. PICK merchant \in MerchantNodes, base \in RandInt(1, 700),
               delay \in [members -> RandInt(0, 3)] :
            legs' = legs \cup {Leg(m, merchant, Amount, base + delay[m], "PAYMENT", Counter) :
                                 m \in members}
      BY <1>1, <2>1
    <3> DEFINE step == [m \in members |-> base + delay[m]]
               new == PaymentsTo(merchant, members, step, Counter)
    <3>2. base \in Nat /\ \A m \in members : delay[m] \in Nat
      BY DrawnNumbers
    <3>3. \A m \in members : step[m] \in Nat
      BY <3>2
    <3>4. legs' = legs \cup new
      BY <3>1 DEF PaymentsTo
    <3> HIDE DEF step
    <3>5. ArePayments(new, Counter)
      <4>1. IsFiniteSet(DOMAIN nodes) /\ members \subseteq DOMAIN nodes /\ merchant \in DOMAIN nodes
        BY <1>2, <1>3 DEF Finite
      <4> QED BY ONLY <3>3, <4>1, Payments
    <3> HIDE DEF new
    <3> QED BY <3>4, <3>5 DEF ArePayments
  <2>2. CASE difficulty # "obvious"
    <3>1. legs' = legs \cup {}
      BY <1>1, <2>2
    <3> QED BY <3>1, FS_EmptySet
  <2> QED BY <2>1, <2>2
<1>5. Turn("shared_device", difficulty) /\ stage' = stage
  BY DEF PlantSharedDevice
<1>6. Planted("shared_device", difficulty, members)
  BY <1>1, <1>2, <1>4, <1>5 DEF Planted, RingTypes, LegsFit
<1> QED BY <1>6

\* What plant_shared_payout_ring leaves.
LEMMA PayoutPlanted ==
  ASSUME Finite, Lists, NEW difficulty \in Difficulties, PlantSharedPayout(difficulty)
  PROVE  \E members : Planted("shared_payout", difficulty, members)
<1> DEFINE P == PayoutAccount(Counter)
<1>0. PICK size \in RandInt(MinSize, MaxSize) :
        \E members \in Groups(size), base \in RandInt(1, 700) :
        \E delay \in [members -> RandInt(0, PayoutWindow(difficulty))] :
          /\ nodes' = AddPayout(P)
          /\ legs' = legs \cup {Leg(m, P, Amount, base + delay[m], "TRANSFER", Counter) :
                                  m \in members}
          /\ rings' = Append(rings, Ring("shared_payout", difficulty,
                                         PayoutMembers(members, Counter)))
  BY DEF PlantSharedPayout
<1>1. PICK members \in Groups(size), base \in RandInt(1, 700) :
        \E delay \in [members -> RandInt(0, PayoutWindow(difficulty))] :
          /\ nodes' = AddPayout(P)
          /\ legs' = legs \cup {Leg(m, P, Amount, base + delay[m], "TRANSFER", Counter) :
                                  m \in members}
          /\ rings' = Append(rings, Ring("shared_payout", difficulty,
                                         PayoutMembers(members, Counter)))
  BY <1>0
<1>2. PICK delay \in [members -> RandInt(0, PayoutWindow(difficulty))] :
        /\ nodes' = AddPayout(P)
        /\ legs' = legs \cup {Leg(m, P, Amount, base + delay[m], "TRANSFER", Counter) :
                                m \in members}
        /\ rings' = Append(rings, Ring("shared_payout", difficulty,
                                       PayoutMembers(members, Counter)))
  BY <1>1
<1>3. Turn("shared_payout", difficulty) /\ stage' = stage
  BY DEF PlantSharedPayout
<1>4. DOMAIN nodes' = DOMAIN nodes \cup {P} /\ members \subseteq DOMAIN nodes
  BY <1>2, SamplesType DEF AddPayout
<1>5. P \notin DOMAIN nodes
  BY <1>3, PayoutAccountIsNew DEF Turn
<1>6. base \in Nat /\ \A m \in members : delay[m] \in 0..60
  BY DrawnNumbers
<1> DEFINE f == [m \in members |-> Leg(m, P, Amount, base + delay[m], "TRANSFER", Counter)]
           new == {f[m] : m \in members}
<1>7. \A m \in members : /\ f[m].from = m /\ f[m].to = P /\ f[m].type = "TRANSFER"
                         /\ f[m].ring_id = Counter
                         /\ f[m].step = base + delay[m]
  BY DEF Leg
<1>8. legs' = legs \cup new
  BY <1>2
<1>9. DOMAIN f = members /\ f = [m \in members |-> f[m]]
  OBVIOUS
<1> HIDE DEF f
<1>10. IsFiniteSet(new)
  <2>1. IsFiniteSet(members)
    BY <1>4, FS_Subset DEF Finite
  <2> QED BY <1>9, <2>1, ImageIsFinite
<1>11. \A leg \in new : \E m \in members : leg = f[m]
  OBVIOUS
<1>12. \A m \in members : f[m] \in new
  OBVIOUS
<1> DEFINE all == PayoutMembers(members, Counter)
<1>13. all = members \cup {P} /\ all \ {P} = members /\ all \subseteq DOMAIN nodes'
  BY <1>4, <1>5 DEF PayoutMembers
<1> HIDE DEF P, new
<1>14. \A leg \in new : /\ {leg.from, leg.to} \subseteq DOMAIN nodes'
                        /\ leg.ring_id = Counter /\ leg.step \in Nat
  <2> TAKE leg \in new
  <2>1. PICK m \in members : leg = f[m]
    BY <1>11
  <2> QED BY <1>4, <1>6, <1>7, <2>1
<1>15. PayoutLegs(all, Counter, new)
  <2>1. \A leg \in new : /\ leg.type = "TRANSFER" /\ leg.to = P /\ leg.from \in all \ {P}
    BY <1>7, <1>11, <1>13
  <2>2. \A m \in all \ {P} : \E leg \in new : leg.from = m
    BY <1>7, <1>12, <1>13
  <2>3. ASSUME NEW leg \in new, NEW other \in new
        PROVE  /\ leg.from = other.from => leg = other
               /\ leg.step - other.step <= 60
    <3>1. PICK m \in members : leg = f[m]
      BY <1>11
    <3>2. PICK o \in members : other = f[o]
      BY <1>11
    <3> QED BY <1>6, <1>7, <3>1, <3>2
  <2> QED BY <1>13, <2>1, <2>2, <2>3 DEF PayoutLegs, P
<1>16. Planted("shared_payout", difficulty, all)
  <2> HIDE DEF all
  <2>1. LegsFit("shared_payout", all, Counter, new)
    BY <1>15 DEF LegsFit
  <2>2. rings' = Append(rings, Ring("shared_payout", difficulty, all))
    BY <1>2 DEF all
  <2>3. nodes' = AddPayout(PayoutAccount(Counter))
    BY <1>2 DEF P
  <2> QED BY <1>3, <1>8, <1>10, <1>13, <1>14, <2>1, <2>2, <2>3 DEF Planted, RingTypes
<1> QED BY <1>16

\* What plant_circular_flow_ring leaves.
LEMMA FlowPlanted ==
  ASSUME Finite, NEW difficulty \in Difficulties, PlantCircularFlow(difficulty)
  PROVE  \E members : Planted("circular_flow", difficulty, members)
<1> DEFINE Draws(s, base, gap, amount, factor) ==
             /\ legs' = legs \cup {Leg(s[i], NextMember(s, i),
                                       LegAmount(amount, difficulty, factor[i], i),
                                       base + (i - 1) * gap, "TRANSFER", Counter) :
                                     i \in DOMAIN s}
             /\ rings' = Append(rings, Ring("circular_flow", difficulty, ToSet(s)))
<1>0. PICK size \in RandInt(MinSize, MaxSize) :
      \E s \in Samples(size), base \in RandInt(1, 700),
         gap \in IF difficulty = "obvious" THEN {1} ELSE RandInt(5, 20) :
      \E amount \in CycleAmounts, factor \in [1..size -> RandInt(85, 98)] :
        Draws(s, base, gap, amount, factor)
  BY DEF PlantCircularFlow
<1> HIDE DEF Draws
<1>1. PICK s \in Samples(size), base \in RandInt(1, 700),
           gap \in IF difficulty = "obvious" THEN {1} ELSE RandInt(5, 20) :
        \E amount \in CycleAmounts, factor \in [1..size -> RandInt(85, 98)] :
          Draws(s, base, gap, amount, factor)
  BY <1>0
<1>2. PICK amount \in CycleAmounts, factor \in [1..size -> RandInt(85, 98)] :
        Draws(s, base, gap, amount, factor)
  BY <1>1
<1>3. /\ legs' = legs \cup {Leg(s[i], NextMember(s, i), LegAmount(amount, difficulty, factor[i], i),
                                base + (i - 1) * gap, "TRANSFER", Counter) : i \in DOMAIN s}
      /\ rings' = Append(rings, Ring("circular_flow", difficulty, ToSet(s)))
  BY <1>2 DEF Draws
<1>4. UNCHANGED <<nodes, stage>> /\ Turn("circular_flow", difficulty)
  BY DEF PlantCircularFlow
<1> DEFINE all == ToSet(s)
           D == 1..size
<1>5. /\ size \in Nat \ {0} /\ s \in [D -> Customers] /\ Len(s) = size /\ IsInjective(s)
      /\ all \subseteq Customers /\ Cardinality(all) = size /\ Customers \subseteq DOMAIN nodes
  BY SamplesType
<1>6. \A i \in D : (i % size) + 1 \in D
  BY <1>5
<1>7. \A i \in D : s[i] \in all /\ NextMember(s, i) \in all
  BY <1>5, <1>6 DEF NextMember, ToSet
<1>8. base \in Nat /\ gap \in Nat /\ \A i \in D : factor[i] \in 85..98
  <2>1. base \in Nat
    <3>1. RandInt(1, 700) \subseteq 1..700
      BY ZenonT(60), DrawnNumbers
    <3>2. base \in 1..700
      BY ZenonT(60), <3>1
    <3> QED BY ONLY <3>2
  <2>3. \A i \in D : factor[i] \in 85..98
    BY DrawnNumbers
  <2>2. {1} \subseteq Nat /\ RandInt(5, 20) \subseteq Nat
    BY DrawnNumbers
  <2> QED BY <2>1, <2>2, <2>3
<1> DEFINE f == [i \in D |-> Leg(s[i], NextMember(s, i), LegAmount(amount, difficulty, factor[i], i),
                                base + (i - 1) * gap, "TRANSFER", Counter)]
           new == {f[i] : i \in D}
<1>9. \A i \in D : /\ f[i].from = s[i] /\ f[i].to = NextMember(s, i)
                   /\ f[i].amount = LegAmount(amount, difficulty, factor[i], i)
                   /\ f[i].step = base + (i - 1) * gap /\ f[i].ring_id = Counter
  BY DEF Leg
<1>10. legs' = legs \cup new
  BY <1>3, <1>5
<1>11. DOMAIN f = D /\ f = [i \in D |-> f[i]]
  OBVIOUS
<1> HIDE DEF f
<1>12. IsFiniteSet(new)
  <2>1. IsFiniteSet(D)
    <3>1. 1 \in Int /\ size \in Int
      BY <1>5
    <3> QED BY <3>1, FS_Interval
  <2> HIDE DEF D
  <2> QED BY <1>11, <2>1, ImageIsFinite
<1>13. (\A leg \in new : \E i \in D : leg = f[i]) /\ \A i \in D : f[i] \in new
  OBVIOUS
<1> HIDE DEF new
<1>14. \A i \in D : base + (i - 1) * gap \in Nat
  <2> TAKE i \in D
  <2>1. (i - 1) * gap \in Nat
    <3>1. i - 1 \in Nat
      BY <1>5
    <3> QED BY <1>8, <3>1
  <2> QED BY <1>8, <2>1
<1>15. \A leg \in new : /\ {leg.from, leg.to} \subseteq DOMAIN nodes'
                        /\ leg.ring_id = Counter /\ leg.step \in Nat
  <2> TAKE leg \in new
  <2>1. PICK i \in D : leg = f[i]
    BY <1>13
  <2>2. leg.step = base + (i - 1) * gap /\ leg.ring_id = Counter
    BY <1>9, <2>1
  <2>3. leg.from = s[i] /\ leg.to = NextMember(s, i)
    BY <1>9, <2>1
  <2>4. {leg.from, leg.to} \subseteq DOMAIN nodes'
    BY <1>4, <1>5, <1>7, <2>3
  <2> QED BY <1>14, <2>2, <2>4
<1>16. CycleLegs(all, new)
  <2>1. s \in [D -> all] /\ DOMAIN s = D
    BY <1>5, <1>7
  <2>2. \A i \in D : \E leg \in new : leg.from = s[i] /\ leg.to = NextMember(s, i)
    BY <1>9, <1>13
  <2>3. \A leg \in new : \E i \in D, x \in 85..98 :
          /\ leg.from = s[i] /\ leg.to = NextMember(s, i)
          /\ leg.amount \in {amount, LegAmount(amount, "subtle", x, i)}
    <3> TAKE leg \in new
    <3>1. PICK i \in D : leg = f[i]
      BY <1>13
    <3>2. /\ leg.from = s[i] /\ leg.to = NextMember(s, i) /\ factor[i] \in 85..98
          /\ leg.amount = LegAmount(amount, difficulty, factor[i], i)
      BY <1>8, <1>9, <3>1
    <3>3. leg.amount \in {amount, LegAmount(amount, "subtle", factor[i], i)}
      BY <3>2 DEF LegAmount
    <3> HIDE DEF D
    <3> QED BY <3>2, <3>3
  <2> HIDE DEF D
  <2>4. s \in [1..Cardinality(all) -> all] /\ IsInjective(s) /\ ToSet(s) = all
    BY <1>5, <2>1 DEF D
  <2> QED BY <2>1, <2>2, <2>3, <2>4 DEF CycleLegs
<1>17. Planted("circular_flow", difficulty, all)
  <2>1. LegsFit("circular_flow", all, Counter, new)
    BY <1>16 DEF LegsFit
  <2>2. rings' = Append(rings, Ring("circular_flow", difficulty, all))
    BY <1>3
  <2>3. all \subseteq DOMAIN nodes'
    BY <1>4, <1>5
  <2> HIDE DEF all
  <2> QED BY <1>4, <1>10, <1>12, <1>15, <2>1, <2>2, <2>3 DEF Planted, RingTypes
<1> QED BY <1>17

\* What plant_legit_cluster leaves.
LEMMA ClusterPlanted ==
  ASSUME Finite, PlantLegitCluster
  PROVE  \E members : Planted("legit_cluster", None, members)
<1>0. PICK size \in RandInt(MinSize, MaxSize) :
        \E members \in Groups(size), merchant \in MerchantNodes :
        \E step \in [members -> RandInt(1, 743)] :
          /\ legs' = legs \cup {Leg(m, merchant, Amount, step[m], "PAYMENT", Counter) :
                                  m \in members}
          /\ rings' = Append(rings, Ring("legit_cluster", None, members \cup {merchant}))
  BY DEF PlantLegitCluster
<1>1. PICK members \in Groups(size), merchant \in MerchantNodes :
        \E step \in [members -> RandInt(1, 743)] :
          /\ legs' = legs \cup {Leg(m, merchant, Amount, step[m], "PAYMENT", Counter) :
                                  m \in members}
          /\ rings' = Append(rings, Ring("legit_cluster", None, members \cup {merchant}))
  BY <1>0
<1>2. PICK step \in [members -> RandInt(1, 743)] :
          /\ legs' = legs \cup {Leg(m, merchant, Amount, step[m], "PAYMENT", Counter) :
                                  m \in members}
          /\ rings' = Append(rings, Ring("legit_cluster", None, members \cup {merchant}))
  BY <1>1
<1> DEFINE new == PaymentsTo(merchant, members, step, Counter)
           all == members \cup {merchant}
<1>3. legs' = legs \cup new /\ rings' = Append(rings, Ring("legit_cluster", None, all))
  BY <1>2 DEF PaymentsTo
<1>4. UNCHANGED <<nodes, stage>> /\ Turn("legit_cluster", None)
  BY DEF PlantLegitCluster
<1>5. members \subseteq DOMAIN nodes /\ merchant \in DOMAIN nodes
  BY SamplesType DEF MerchantNodes
<1>6. \A m \in members : step[m] \in Nat
  BY DrawnNumbers
<1>7. ArePayments(new, Counter)
  <2>1. IsFiniteSet(DOMAIN nodes)
    BY DEF Finite
  <2> QED BY ONLY <1>5, <1>6, <2>1, Payments
<1> HIDE DEF new
<1>8. Planted("legit_cluster", None, all)
  <2>1. LegsFit("legit_cluster", all, Counter, new)
    BY <1>7 DEF LegsFit, ArePayments
  <2>2. all \subseteq DOMAIN nodes'
    BY <1>4, <1>5
  <2> HIDE DEF all
  <2> QED BY <1>3, <1>4, <1>7, <2>1, <2>2 DEF Planted, RingTypes, ArePayments
<1> QED BY <1>8

\* Every step plants a ring, is refused by the random generator, or splits.
LEMMA PlantingSteps ==
  ASSUME Finite, Lists, Next
  PROVE  \/ \E type, difficulty, members : Planted(type, difficulty, members)
         \/ Raise
         \/ AssignSplits
BY DevicePlanted, PayoutPlanted, FlowPlanted, ClusterPlanted DEF Next

\* What the ring a planter appends does to the list.
LEMMA PlantedRings ==
  ASSUME Lists, NEW type, NEW difficulty, NEW members, Planted(type, difficulty, members)
  PROVE  /\ Counter = Len(rings) + 1 /\ Len(rings) \in Nat /\ Counter <= Len(Schedule)
         /\ DOMAIN rings = 1..Len(rings) /\ DOMAIN rings' = DOMAIN rings \cup {Counter}
         /\ Len(rings') = Counter
         /\ \A r \in DOMAIN rings : rings'[r] = rings[r]
         /\ rings'[Counter] = Ring(type, difficulty, members)
         /\ DOMAIN nodes \subseteq DOMAIN nodes' /\ members \subseteq DOMAIN nodes'
         /\ stage = "planting" /\ stage' = "planting"
<1>1. /\ rings' = Append(rings, Ring(type, difficulty, members))
      /\ members \subseteq DOMAIN nodes'
      /\ stage = "planting" /\ stage' = "planting" /\ Counter <= Len(Schedule)
  BY DEF Planted, Turn
<1>2. rings \in Seq(RingRecords)
  BY DEF Lists
<1>3. DOMAIN nodes \subseteq DOMAIN nodes'
  BY DEF Planted, OnDevice, AddPayout, RingTypes
<1> QED BY <1>1, <1>2, <1>3 DEF Counter

\* What the split does to the list.
LEMMA SplitRings ==
  ASSUME Lists, AssignSplits
  PROVE  /\ UNCHANGED <<nodes, legs>> /\ stage' = "done"
         /\ DOMAIN rings' = DOMAIN rings /\ Len(rings') = Len(rings) /\ rings' \in Seq(RingRecords)
         /\ \A r \in DOMAIN rings : /\ rings'[r].ring_type = rings[r].ring_type
                                    /\ rings'[r].difficulty = rings[r].difficulty
                                    /\ rings'[r].members = rings[r].members
         /\ \E test \in SUBSET DOMAIN rings :
              /\ \A r \in DOMAIN rings :
                   Cardinality(test \cap Stratum(r)) = NumTest(Cardinality(Stratum(r)))
              /\ \A r \in DOMAIN rings : rings'[r].split = IF r \in test THEN "test" ELSE "train"
<1>1. PICK test \in SUBSET DOMAIN rings :
        /\ \A r \in DOMAIN rings :
             Cardinality(test \cap Stratum(r)) = NumTest(Cardinality(Stratum(r)))
        /\ rings' = [r \in DOMAIN rings |->
                       [rings[r] EXCEPT !.split = IF r \in test THEN "test" ELSE "train"]]
  BY DEF AssignSplits
<1>2. /\ Len(rings) \in Nat /\ DOMAIN rings = 1..Len(rings)
      /\ \A r \in DOMAIN rings : rings[r] \in RingRecords
  BY DEF Lists
<1>3. \A r \in DOMAIN rings :
        /\ rings'[r] \in RingRecords
        /\ rings'[r].ring_type = rings[r].ring_type
        /\ rings'[r].difficulty = rings[r].difficulty
        /\ rings'[r].members = rings[r].members
        /\ rings'[r].split = IF r \in test THEN "test" ELSE "train"
  BY <1>1, <1>2 DEF RingRecords
<1>4. DOMAIN rings' = 1..Len(rings) /\ rings' = [r \in 1..Len(rings) |-> rings'[r]]
  BY <1>1, <1>2
<1>5. rings' \in Seq(RingRecords) /\ Len(rings') = Len(rings)
  <2> HIDE DEF RingRecords
  <2> QED BY <1>2, <1>3, <1>4
<1>6. UNCHANGED <<nodes, legs>> /\ stage' = "done"
  BY DEF AssignSplits
<1> QED BY <1>1, <1>2, <1>3, <1>4, <1>5, <1>6

--------------------------------------------------------------------------------
(* Every step keeps the invariant, one conjunct at a time.                     *)

\* A ring planted keeps the types.
LEMMA PlantedType ==
  ASSUME TypeOK, Lists, NEW type, NEW difficulty, NEW members, Planted(type, difficulty, members)
  PROVE  TypeOK'
<1>1. /\ Counter = Len(rings) + 1 /\ Len(rings) \in Nat /\ Counter <= Len(Schedule)
      /\ DOMAIN rings = 1..Len(rings) /\ DOMAIN rings' = DOMAIN rings \cup {Counter}
      /\ Len(rings') = Counter
      /\ \A r \in DOMAIN rings : rings'[r] = rings[r]
      /\ rings'[Counter] = Ring(type, difficulty, members)
      /\ DOMAIN nodes \subseteq DOMAIN nodes' /\ members \subseteq DOMAIN nodes'
      /\ stage' = "planting"
  BY PlantedRings
<1>2. \A r \in DOMAIN rings' :
        /\ <<rings'[r].ring_type, rings'[r].difficulty>> = Schedule[r]
        /\ rings'[r].members \subseteq DOMAIN nodes'
        /\ rings'[r].split \in {"train", "test"}
  <2> TAKE r \in DOMAIN rings'
  <2>1. CASE r = Counter
    <3>1. Schedule[Counter] = <<type, difficulty>>
      BY DEF Planted, Turn
    <3> QED BY <1>1, <2>1, <3>1 DEF Ring
  <2>2. CASE r \in DOMAIN rings
    BY <1>1, <2>2 DEF TypeOK
  <2> QED BY <1>1, <2>1, <2>2
<1>3. \A a \in DOMAIN nodes' :
        nodes'[a].kind \in {"C", "M"} /\ nodes'[a].device_id \in DOMAIN rings' \cup {None}
  <2> SUFFICES ASSUME NEW a \in DOMAIN nodes'
               PROVE  /\ nodes'[a].kind \in {"C", "M"}
                      /\ nodes'[a].device_id \in DOMAIN rings' \cup {None}
    OBVIOUS
  <2>1. \A b \in DOMAIN nodes : /\ nodes[b] = [kind |-> nodes[b].kind,
                                              device_id |-> nodes[b].device_id]
                                /\ nodes[b].kind \in {"C", "M"}
                                /\ nodes[b].device_id \in DOMAIN rings \cup {None}
    BY DEF TypeOK, Lists
  <2>2. CASE type = "shared_device"
    <3>1. nodes' = OnDevice(members, Counter)
      BY <2>2 DEF Planted
    <3> QED BY <1>1, <2>1, <3>1 DEF OnDevice
  <2>3. CASE type = "shared_payout"
    <3>1. nodes' = AddPayout(PayoutAccount(Counter))
      BY <2>3 DEF Planted
    <3> QED BY <1>1, <2>1, <3>1 DEF AddPayout
  <2>4. CASE type \in {"circular_flow", "legit_cluster"}
    <3>1. nodes' = nodes
      BY <2>4 DEF Planted
    <3> QED BY <1>1, <2>1, <3>1
  <2> QED BY <2>2, <2>3, <2>4 DEF Planted, RingTypes
<1>4. \A leg \in legs' : {leg.from, leg.to} \subseteq DOMAIN nodes' /\ leg.ring_id \in DOMAIN rings'
  BY <1>1 DEF Planted, TypeOK
<1> QED BY <1>1, <1>2, <1>3, <1>4 DEF TypeOK

\* It is one more of the list.
LEMMA PlantedLists ==
  ASSUME TypeOK, Lists, NEW type, NEW difficulty, NEW members, Planted(type, difficulty, members)
  PROVE  Lists'
<1>1. /\ Len(rings) \in Nat /\ DOMAIN rings = 1..Len(rings)
      /\ DOMAIN rings' = DOMAIN rings \cup {Counter}
      /\ Counter <= Len(Schedule) /\ members \subseteq DOMAIN nodes'
  BY PlantedRings
<1>2. DOMAIN nodes' \subseteq Accounts \cup {PayoutAccount(r) : r \in DOMAIN rings'}
  <2>1. DOMAIN nodes' \subseteq DOMAIN nodes \cup {PayoutAccount(Counter)}
    BY DEF Planted, OnDevice, AddPayout, RingTypes
  <2> QED BY <1>1, <2>1 DEF Lists
<1>3. \A a \in DOMAIN nodes' :
        nodes'[a] = [kind |-> nodes'[a].kind, device_id |-> nodes'[a].device_id]
  <2>1. \A b \in DOMAIN nodes : nodes[b] = [kind |-> nodes[b].kind,
                                            device_id |-> nodes[b].device_id]
    BY DEF Lists
  <2>2. CASE type = "shared_device"
    BY <2>1, <2>2 DEF Planted, OnDevice
  <2>3. CASE type = "shared_payout"
    BY <2>1, <2>3 DEF Planted, AddPayout
  <2>4. CASE type \in {"circular_flow", "legit_cluster"}
    BY <2>1, <2>4 DEF Planted
  <2> QED BY <2>2, <2>3, <2>4 DEF Planted, RingTypes
<1>4. DOMAIN nodes' \subseteq Int
  <2>1. DOMAIN nodes' \subseteq DOMAIN nodes \cup {PayoutAccount(Counter)}
    BY DEF Planted, OnDevice, AddPayout, RingTypes
  <2> QED BY <1>1, <2>1, AccountsAreNumbers, PayoutAccountIsNew
<1>5. Ring(type, difficulty, members) \in RingRecords
  <2>1. members \in SUBSET Int
    BY <1>1, <1>4
  <2> QED BY <2>1 DEF Planted, Ring, RingRecords
<1>6. rings' \in Seq(RingRecords)
  <2>1. rings \in Seq(RingRecords) /\ rings' = Append(rings, Ring(type, difficulty, members))
    BY DEF Lists, Planted
  <2> HIDE DEF RingRecords
  <2> QED BY <1>5, <2>1
<1> QED BY <1>2, <1>3, <1>6 DEF Lists

DeviceKnown(a) ==
  IF DeviceRings(a) = {} THEN nodes[a].device_id = None
  ELSE /\ nodes[a].device_id \in DeviceRings(a)
       /\ \/ RingTag(a) = nodes[a].device_id
          \/ /\ RingTag(a) > nodes[a].device_id
             /\ rings[RingTag(a)].ring_type # "shared_device"

\* DeviceKnowsItsRing, an account at a time.
LEMMA DeviceByAccount == DeviceKnowsItsRing <=> \A a \in DOMAIN nodes : DeviceKnown(a)
BY DEF DeviceKnowsItsRing, DeviceKnown, DeviceRings

\* The ring just planted is the last of its members, and the others keep theirs.
LEMMA TagPlanted ==
  ASSUME Lists, NEW type, NEW difficulty, NEW members, Planted(type, difficulty, members), NEW a
  PROVE  /\ a \in members => RingTag(a)' = Counter
         /\ a \notin members => RingTag(a)' = RingTag(a)
         /\ RingsOf(a) # {} => RingTag(a) \in RingsOf(a)
         /\ DeviceRings(a)' = IF type = "shared_device" /\ a \in members
                              THEN DeviceRings(a) \cup {Counter} ELSE DeviceRings(a)
         /\ DeviceRings(a) \subseteq RingsOf(a) /\ RingsOf(a) \in SUBSET (1..Len(rings))
<1>1. /\ Counter = Len(rings) + 1 /\ Len(rings) \in Nat
      /\ DOMAIN rings = 1..Len(rings) /\ DOMAIN rings' = DOMAIN rings \cup {Counter}
      /\ \A r \in DOMAIN rings : rings'[r] = rings[r]
      /\ rings'[Counter] = Ring(type, difficulty, members)
  BY PlantedRings
<1>2. /\ rings'[Counter].ring_type = type /\ rings'[Counter].members = members
      /\ Counter \notin DOMAIN rings
  BY <1>1 DEF Ring
<1>3. RingsOf(a)' = IF a \in members THEN RingsOf(a) \cup {Counter} ELSE RingsOf(a)
  BY <1>1, <1>2 DEF RingsOf
<1>4. DeviceRings(a)' = IF type = "shared_device" /\ a \in members
                        THEN DeviceRings(a) \cup {Counter} ELSE DeviceRings(a)
  BY <1>1, <1>2 DEF DeviceRings
<1>5. RingTag(a) = Max(RingsOf(a)) /\ RingTag(a)' = Max(RingsOf(a)')
  BY DEF RingTag, RingsOf
<1>6. RingsOf(a) \in SUBSET (1..Len(rings)) /\ DeviceRings(a) \subseteq RingsOf(a)
  BY <1>1 DEF RingsOf, DeviceRings
<1>7. ASSUME a \in members PROVE RingTag(a)' = Counter
  <2> DEFINE I == RingsOf(a) \cup {Counter}
  <2>1. I \in SUBSET (1..Counter) /\ I # {} /\ Counter \in I /\ Counter \in Nat
    BY <1>1, <1>6
  <2>2. RingsOf(a)' = I
    BY <1>3, <1>7
  <2> HIDE DEF I
  <2>3. Max(I) \in I /\ \A i \in I : i <= Max(I)
    BY <2>1, MaxOfNumbers
  <2>5. Max(I) \in 1..Counter
    BY <2>1, <2>3
  <2>4. Max(I) = Counter
    BY <1>1, <2>1, <2>3, <2>5
  <2> QED BY <1>5, <2>2, <2>4
<1>8. ASSUME a \notin members PROVE RingTag(a)' = RingTag(a)
  BY <1>3, <1>5, <1>8
<1>9. ASSUME RingsOf(a) # {} PROVE RingTag(a) \in RingsOf(a)
  BY <1>1, <1>5, <1>6, <1>9, MaxOfNumbers
<1> QED BY <1>4, <1>6, <1>7, <1>8, <1>9

\* Only a device ring changes accounts that were there, and only the device of its
\* members.
LEMMA NodesPlanted ==
  ASSUME Lists, NEW type, NEW difficulty, NEW members, Planted(type, difficulty, members),
         NEW a \in DOMAIN nodes
  PROVE  /\ nodes'[a].kind = nodes[a].kind
         /\ ~(type = "shared_device" /\ a \in members) => nodes'[a] = nodes[a]
<1>1. nodes[a] = [kind |-> nodes[a].kind, device_id |-> nodes[a].device_id]
  BY DEF Lists
<1>2. CASE type = "shared_payout"
  <2>1. nodes' = AddPayout(PayoutAccount(Counter))
    BY <1>2 DEF Planted
  <2>2. a # PayoutAccount(Counter)
    BY PayoutAccountIsNew, PlantedRings
  <2> QED BY <2>1, <2>2 DEF AddPayout
<1>3. CASE type = "shared_device"
  <2>1. nodes' = OnDevice(members, Counter)
    BY <1>3 DEF Planted
  <2>2. nodes'[a] = IF a \in members THEN [nodes[a] EXCEPT !.device_id = Counter] ELSE nodes[a]
    BY <2>1 DEF OnDevice
  <2>3. [nodes[a] EXCEPT !.device_id = Counter].kind = nodes[a].kind
    BY <1>1
  <2> QED BY <1>3, <2>2, <2>3
<1>4. CASE type \in {"circular_flow", "legit_cluster"}
  BY <1>4 DEF Planted
<1>5. type \in RingTypes
  BY DEF Planted
<1> QED BY <1>2, <1>3, <1>4, <1>5 DEF RingTypes

\* What the legs of a ring are says nothing of the state.
LEMMA LegsFitLasts ==
  ASSUME NEW type, NEW members, NEW ring, NEW own
  PROVE  LegsFit(type, members, ring, own)' <=> LegsFit(type, members, ring, own)
BY DEF LegsFit, PayoutLegs, CycleLegs, PayoutAccount, Schedule, NextMember, LegAmount

\* Its members have its device, if it has one, and the others keep theirs.
LEMMA PlantedDevices ==
  ASSUME TypeOK, Lists, DeviceKnowsItsRing,
         NEW type, NEW difficulty, NEW members, Planted(type, difficulty, members)
  PROVE  DeviceKnowsItsRing'
<1> SUFFICES ASSUME NEW a \in DOMAIN nodes' PROVE DeviceKnown(a)'
  BY DEF DeviceKnowsItsRing, DeviceKnown, DeviceRings
<1>1. /\ Counter = Len(rings) + 1 /\ Len(rings) \in Nat
      /\ DOMAIN rings = 1..Len(rings) /\ DOMAIN rings' = DOMAIN rings \cup {Counter}
      /\ \A r \in DOMAIN rings : rings'[r] = rings[r]
      /\ rings'[Counter] = Ring(type, difficulty, members)
      /\ Counter <= Len(Schedule)
  BY PlantedRings
<1>2. /\ a \in members => RingTag(a)' = Counter
      /\ a \notin members => RingTag(a)' = RingTag(a)
      /\ RingsOf(a) # {} => RingTag(a) \in RingsOf(a)
      /\ DeviceRings(a)' = IF type = "shared_device" /\ a \in members
                           THEN DeviceRings(a) \cup {Counter} ELSE DeviceRings(a)
      /\ DeviceRings(a) \subseteq RingsOf(a) /\ RingsOf(a) \in SUBSET (1..Len(rings))
  BY TagPlanted
<1>3. a \in DOMAIN nodes => DeviceKnown(a)
  BY DeviceByAccount
<1>4. CASE type = "shared_device" /\ a \in members
  <2>1. nodes' = OnDevice(members, Counter)
    BY <1>4 DEF Planted
  <2>2. a \in DOMAIN nodes /\ nodes[a] = [kind |-> nodes[a].kind, device_id |-> nodes[a].device_id]
    BY <2>1 DEF OnDevice, Lists
  <2>3. nodes'[a].device_id = Counter
    BY <1>4, <2>1, <2>2 DEF OnDevice
  <2> QED BY <1>2, <1>4, <2>3 DEF DeviceKnown
<1>5. CASE ~(type = "shared_device" /\ a \in members) /\ a \in DOMAIN nodes
  <2>1. DeviceRings(a)' = DeviceRings(a)
    BY <1>2, <1>5
  <2>2. nodes'[a] = nodes[a]
    BY <1>5, NodesPlanted
  <2>3. CASE DeviceRings(a) = {}
    BY <1>3, <1>5, <2>1, <2>2, <2>3 DEF DeviceKnown
  <2>4. CASE DeviceRings(a) # {}
    <3>1. /\ nodes[a].device_id \in DeviceRings(a)
          /\ \/ RingTag(a) = nodes[a].device_id
             \/ /\ RingTag(a) > nodes[a].device_id
                /\ rings[RingTag(a)].ring_type # "shared_device"
      BY <1>3, <1>5, <2>4 DEF DeviceKnown
    <3>2. nodes'[a].device_id = nodes[a].device_id /\ nodes[a].device_id \in 1..Len(rings)
      BY <1>2, <2>2, <3>1
    <3>3. CASE a \in members
      <4>1. RingTag(a)' = Counter /\ type # "shared_device"
        BY <1>2, <1>5, <3>3
      <4>2. rings'[Counter].ring_type # "shared_device"
        BY <1>1, <4>1 DEF Ring
      <4>3. Counter > nodes'[a].device_id
        BY <1>1, <3>2
      <4> QED BY <2>1, <2>4, <3>1, <3>2, <4>1, <4>2, <4>3 DEF DeviceKnown
    <3>4. CASE a \notin members
      <4>1. RingTag(a)' = RingTag(a) /\ RingTag(a) \in DOMAIN rings
        BY <1>1, <1>2, <2>4, <3>4
      <4>2. rings'[RingTag(a)] = rings[RingTag(a)]
        BY <1>1, <4>1
      <4> QED BY <2>1, <2>4, <3>1, <3>2, <4>1, <4>2 DEF DeviceKnown
    <3> QED BY <3>3, <3>4
  <2> QED BY <2>3, <2>4
<1>6. CASE a \notin DOMAIN nodes
  <2>1. type = "shared_payout" /\ nodes' = AddPayout(PayoutAccount(Counter))
    BY <1>6 DEF Planted, OnDevice, RingTypes
  <2>2. nodes'[a].device_id = None
    BY <1>6, <2>1 DEF AddPayout
  <2>3. DeviceRings(a) = {}
    BY <1>6 DEF DeviceRings, TypeOK
  <2> QED BY <1>2, <2>1, <2>2, <2>3 DEF DeviceKnown
<1> QED BY <1>4, <1>5, <1>6 DEF Planted, OnDevice

\* A device ring just planted has the highest number.
LEMMA PlantedLastDevice ==
  ASSUME TypeOK, Lists, DeviceKnowsItsRing, LastDevice,
         NEW type, NEW difficulty, NEW members, Planted(type, difficulty, members)
  PROVE  LastDevice'
<1> SUFFICES ASSUME NEW a \in DOMAIN nodes', NEW r \in DeviceRings(a)'
             PROVE  r <= nodes'[a].device_id
  BY DEF LastDevice
<1>1. /\ Counter = Len(rings) + 1 /\ Len(rings) \in Nat /\ Counter <= Len(Schedule)
      /\ DOMAIN rings = 1..Len(rings)
  BY PlantedRings
<1>2. /\ DeviceRings(a)' = IF type = "shared_device" /\ a \in members
                           THEN DeviceRings(a) \cup {Counter} ELSE DeviceRings(a)
      /\ DeviceRings(a) \subseteq 1..Len(rings)
  BY TagPlanted
<1>3. CASE type = "shared_device" /\ a \in members
  <2>1. nodes' = OnDevice(members, Counter)
    BY <1>3 DEF Planted
  <2>2. a \in DOMAIN nodes /\ nodes[a] = [kind |-> nodes[a].kind, device_id |-> nodes[a].device_id]
    BY <2>1 DEF OnDevice, Lists
  <2>3. nodes'[a].device_id = Counter
    BY <1>3, <2>1, <2>2 DEF OnDevice
  <2> QED BY <1>1, <1>2, <1>3, <2>3
<1>4. CASE ~(type = "shared_device" /\ a \in members)
  <2>1. r \in DeviceRings(a)
    BY <1>2, <1>4
  <2>2. a \in DOMAIN nodes
    BY <2>1 DEF DeviceRings, TypeOK
  <2>3. nodes'[a] = nodes[a]
    BY <1>1, <1>4, <2>2, NodesPlanted
  <2> QED BY <2>1, <2>2, <2>3 DEF LastDevice
<1> QED BY <1>3, <1>4

\* The graph stays finite and keeps what it had.
LEMMA PlantedFinite ==
  ASSUME Lists, Finite, NEW type, NEW difficulty, NEW members, Planted(type, difficulty, members)
  PROVE  Finite'
<1>1. DOMAIN nodes \subseteq DOMAIN nodes' /\ DOMAIN nodes' \subseteq DOMAIN nodes \cup {PayoutAccount(Counter)}
  BY DEF Planted, OnDevice, AddPayout, RingTypes
<1>2. IsFiniteSet(DOMAIN nodes')
  <2>1. IsFiniteSet(DOMAIN nodes \cup {PayoutAccount(Counter)})
    BY FS_AddElement DEF Finite
  <2> QED BY <1>1, <2>1, FS_Subset
<1>3. PICK new : /\ legs' = legs \cup new /\ IsFiniteSet(new)
                 /\ \A leg \in new : leg.step \in Nat
  BY DEF Planted
<1>4. IsFiniteSet(legs')
  BY <1>3, FS_Union DEF Finite
<1> QED BY <1>1, <1>2, <1>3, <1>4 DEF Finite

\* The account of a payout ring appears with the ring.
LEMMA PlantedPayouts ==
  ASSUME TypeOK, Lists, PayoutsAreNew,
         NEW type, NEW difficulty, NEW members, Planted(type, difficulty, members)
  PROVE  PayoutsAreNew'
<1>1. /\ Counter = Len(rings) + 1 /\ Len(rings) \in Nat /\ Counter <= Len(Schedule)
      /\ DOMAIN rings = 1..Len(rings) /\ DOMAIN rings' = DOMAIN rings \cup {Counter}
      /\ \A r \in DOMAIN rings : rings'[r] = rings[r]
      /\ rings'[Counter] = Ring(type, difficulty, members)
      /\ members \subseteq DOMAIN nodes'
  BY PlantedRings
<1>2. rings'[Counter].ring_type = type /\ rings'[Counter].members = members
  BY <1>1 DEF Ring
<1>3. \A r, s \in DOMAIN rings' : PayoutAccount(r) = PayoutAccount(s) => r = s
  BY <1>1, ScheduleLength DEF PayoutAccount
<1>4. PayoutAccount(Counter) \notin DOMAIN nodes
  BY <1>1, PayoutAccountIsNew
<1> SUFFICES ASSUME NEW r \in DOMAIN rings'
             PROVE  /\ PayoutAccount(r) \in DOMAIN nodes' =>
                         /\ rings'[r].ring_type = "shared_payout"
                         /\ nodes'[PayoutAccount(r)].kind = "C"
                    /\ \A s \in DOMAIN rings' : PayoutAccount(r) \in rings'[s].members => r <= s
  BY DEF PayoutsAreNew, PayoutAccount, Schedule
<1>5. ASSUME PayoutAccount(r) \in DOMAIN nodes'
      PROVE  /\ rings'[r].ring_type = "shared_payout"
             /\ nodes'[PayoutAccount(r)].kind = "C"
  <2>1. CASE PayoutAccount(r) \in DOMAIN nodes
    <3>1. r \in DOMAIN rings
      BY <1>1, <1>4, <2>1
    <3>2. rings[r].ring_type = "shared_payout" /\ nodes[PayoutAccount(r)].kind = "C"
      BY <2>1, <3>1 DEF PayoutsAreNew
    <3>3. nodes'[PayoutAccount(r)].kind = nodes[PayoutAccount(r)].kind
      BY <1>1, <2>1, NodesPlanted
    <3> QED BY <1>1, <3>1, <3>2, <3>3
  <2>2. CASE PayoutAccount(r) \notin DOMAIN nodes
    <3>1. type = "shared_payout" /\ nodes' = AddPayout(PayoutAccount(Counter))
      BY <1>5, <2>2 DEF Planted, OnDevice, RingTypes
    <3>2. PayoutAccount(r) = PayoutAccount(Counter)
      BY <1>5, <2>2, <3>1 DEF AddPayout
    <3>3. r = Counter
      BY <1>1, <1>3, <3>2
    <3> QED BY <1>2, <1>5, <3>1, <3>3 DEF AddPayout
  <2> QED BY <2>1, <2>2
<1>6. ASSUME NEW s \in DOMAIN rings', PayoutAccount(r) \in rings'[s].members
      PROVE  r <= s
  <2>1. CASE s = Counter
    BY <1>1, <2>1
  <2>2. CASE s \in DOMAIN rings
    <3>1. PayoutAccount(r) \in rings[s].members /\ PayoutAccount(r) \in DOMAIN nodes
      BY <1>1, <1>6, <2>2 DEF TypeOK
    <3>2. r \in DOMAIN rings
      BY <1>1, <1>4, <3>1
    <3> QED BY <2>2, <3>1, <3>2 DEF PayoutsAreNew
  <2> QED BY <1>1, <2>1, <2>2
<1> QED BY <1>5, <1>6

\* The new ring's legs are the new legs.
LEMMA PlantedLegs ==
  ASSUME TypeOK, Lists, LegsAreOfRings,
         NEW type, NEW difficulty, NEW members, Planted(type, difficulty, members)
  PROVE  LegsAreOfRings'
<1>1. /\ Counter = Len(rings) + 1 /\ Len(rings) \in Nat /\ Counter <= Len(Schedule)
      /\ DOMAIN rings = 1..Len(rings) /\ DOMAIN rings' = DOMAIN rings \cup {Counter}
      /\ \A r \in DOMAIN rings : rings'[r] = rings[r]
      /\ rings'[Counter] = Ring(type, difficulty, members)
  BY PlantedRings
<1>2. rings'[Counter].ring_type = type /\ rings'[Counter].members = members
  BY <1>1 DEF Ring
<1>3. PICK new : /\ legs' = legs \cup new
                 /\ \A leg \in new : leg.ring_id = Counter
                 /\ LegsFit(type, members, Counter, new)
  BY DEF Planted
<1>4. \A leg \in legs : leg.ring_id \in DOMAIN rings
  BY DEF TypeOK
<1>5. \A r : r = Counter => LegsOf(r)' = new
  <2> SUFFICES ASSUME NEW r, r = Counter PROVE LegsOf(r)' = new
    OBVIOUS
  <2>1. LegsOf(r)' = {leg \in legs' : leg.ring_id = r}
    BY DEF LegsOf
  <2>2. \A leg \in legs : leg.ring_id # r
    BY <1>1, <1>4
  <2> QED BY <1>3, <2>1, <2>2
<1>6. \A r \in DOMAIN rings : LegsOf(r)' = LegsOf(r)
  BY <1>1, <1>3, <1>4 DEF LegsOf
<1> SUFFICES ASSUME NEW r \in DOMAIN rings'
             PROVE  LegsFit(rings'[r].ring_type, rings'[r].members, r, LegsOf(r)')
  BY LegsFitLasts DEF LegsAreOfRings
<1>7. CASE r = Counter
  <2>1. LegsOf(r)' = new /\ rings'[r].ring_type = type /\ rings'[r].members = members
    BY <1>2, <1>5, <1>7
  <2> QED BY <1>3, <1>7, <2>1
<1>8. CASE r \in DOMAIN rings
  BY <1>1, <1>6, <1>8 DEF LegsAreOfRings
<1> QED BY <1>1, <1>7, <1>8

\* _assign_splits changes the splits only, and gives each stratum its share.
LEMMA SplitStep ==
  ASSUME PlantingInv, AssignSplits
  PROVE  PlantingInv'
<1>1. /\ UNCHANGED <<nodes, legs>> /\ stage' = "done"
      /\ DOMAIN rings' = DOMAIN rings /\ Len(rings') = Len(rings) /\ rings' \in Seq(RingRecords)
      /\ \A r \in DOMAIN rings : /\ rings'[r].ring_type = rings[r].ring_type
                                 /\ rings'[r].difficulty = rings[r].difficulty
                                 /\ rings'[r].members = rings[r].members
  BY SplitRings DEF PlantingInv
<1>2. PICK test \in SUBSET DOMAIN rings :
        /\ \A r \in DOMAIN rings :
             Cardinality(test \cap Stratum(r)) = NumTest(Cardinality(Stratum(r)))
        /\ \A r \in DOMAIN rings : rings'[r].split = IF r \in test THEN "test" ELSE "train"
  BY SplitRings DEF PlantingInv
<1>3. TypeOK'
  <2>1. \A r \in DOMAIN rings' : rings'[r].split \in {"train", "test"}
    BY <1>1, <1>2
  <2>2. Len(rings') <= Len(Schedule)
    BY <1>1 DEF PlantingInv, TypeOK
  <2>3. \A r \in DOMAIN rings' : /\ <<rings'[r].ring_type, rings'[r].difficulty>> = Schedule[r]
                                 /\ rings'[r].members \subseteq DOMAIN nodes'
    BY <1>1 DEF PlantingInv, TypeOK
  <2>4. \A a \in DOMAIN nodes' :
          nodes'[a].kind \in {"C", "M"} /\ nodes'[a].device_id \in DOMAIN rings' \cup {None}
    BY <1>1 DEF PlantingInv, TypeOK
  <2>5. \A leg \in legs' : {leg.from, leg.to} \subseteq DOMAIN nodes' /\ leg.ring_id \in DOMAIN rings'
    BY <1>1 DEF PlantingInv, TypeOK
  <2> QED BY <1>1, <2>1, <2>2, <2>3, <2>4, <2>5 DEF TypeOK
<1>4. Lists'
  BY <1>1 DEF PlantingInv, Lists
<1>5. DeviceKnowsItsRing'
  <2> SUFFICES ASSUME NEW a \in DOMAIN nodes' PROVE DeviceKnown(a)'
    BY DEF DeviceKnowsItsRing, DeviceKnown, DeviceRings
  <2>1. DeviceKnown(a)
    BY <1>1, DeviceByAccount DEF PlantingInv
  <2>2. DeviceRings(a)' = DeviceRings(a) /\ RingsOf(a)' = RingsOf(a)
    BY <1>1 DEF DeviceRings, RingsOf
  <2>3. RingTag(a)' = RingTag(a)
    BY <2>2 DEF RingTag, RingsOf
  <2>4. DeviceRings(a) # {} => RingTag(a) \in DOMAIN rings
    <3>1. RingsOf(a) \in SUBSET (1..Len(rings)) /\ Len(rings) \in Nat /\ RingsOf(a) \subseteq DOMAIN rings
      BY DEF PlantingInv, Lists, RingsOf
    <3>2. DeviceRings(a) \subseteq RingsOf(a) /\ RingTag(a) = Max(RingsOf(a))
      BY DEF DeviceRings, RingsOf, RingTag
    <3> QED BY <3>1, <3>2, MaxOfNumbers
  <2> QED BY <1>1, <2>1, <2>2, <2>3, <2>4 DEF DeviceKnown
<1>6. SplitsCounted'
  <2> SUFFICES ASSUME NEW r \in DOMAIN rings
               PROVE  Cardinality(TestRings(r)') = NumTest(Cardinality(Stratum(r)'))
    BY <1>1 DEF SplitsCounted
  <2>1. Stratum(r)' = Stratum(r)
    BY <1>1 DEF Stratum
  <2>2. TestRings(r)' = test \cap Stratum(r)
    BY <1>1, <1>2, <2>1 DEF TestRings, Stratum
  <2> QED BY <1>2, <2>1, <2>2
<1>7. LastDevice'
  <2>1. \A a : DeviceRings(a)' = DeviceRings(a)
    BY <1>1 DEF DeviceRings
  <2> QED BY <1>1, <2>1 DEF PlantingInv, LastDevice
<1>8. Finite'
  BY <1>1 DEF PlantingInv, Finite
<1>9. PayoutsAreNew'
  BY <1>1 DEF PlantingInv, PayoutsAreNew, PayoutAccount, Schedule
<1>10. LegsAreOfRings'
  <2> SUFFICES ASSUME NEW r \in DOMAIN rings'
               PROVE  LegsFit(rings'[r].ring_type, rings'[r].members, r, LegsOf(r)')
    BY LegsFitLasts DEF LegsAreOfRings
  <2>1. LegsOf(r)' = LegsOf(r)
    BY <1>1 DEF LegsOf
  <2>2. rings'[r].ring_type = rings[r].ring_type /\ rings'[r].members = rings[r].members
    BY <1>1
  <2> QED BY <1>1, <2>1, <2>2 DEF PlantingInv, LegsAreOfRings
<1> QED BY <1>3, <1>4, <1>5, <1>6, <1>7, <1>8, <1>9, <1>10 DEF PlantingInv

\* Every step keeps the invariant.
LEMMA PlantingStep ==
  ASSUME PlantingInv, [Next]_vars
  PROVE  PlantingInv'
<1>1. ASSUME NEW type, NEW difficulty, NEW members, Planted(type, difficulty, members)
      PROVE  PlantingInv'
  <2>1. stage' = "planting"
    BY <1>1, PlantedRings DEF PlantingInv
  <2>2. TypeOK' /\ Lists' /\ DeviceKnowsItsRing' /\ LastDevice'
    BY <1>1, PlantedType, PlantedLists, PlantedDevices, PlantedLastDevice DEF PlantingInv
  <2>3. Finite' /\ PayoutsAreNew' /\ LegsAreOfRings'
    BY <1>1, PlantedFinite, PlantedPayouts, PlantedLegs DEF PlantingInv
  <2> QED BY <2>1, <2>2, <2>3 DEF PlantingInv, SplitsCounted
<1>2. ASSUME UNCHANGED <<nodes, legs, rings>>
      PROVE  /\ Lists' /\ DeviceKnowsItsRing' /\ LastDevice'
             /\ Finite' /\ PayoutsAreNew' /\ LegsAreOfRings'
  <2>1. Lists'
    BY <1>2 DEF PlantingInv, Lists, PayoutAccount, Schedule
  <2>6. DeviceKnowsItsRing'
    BY <1>2 DEF PlantingInv, DeviceKnowsItsRing, RingTag
  <2>2. LastDevice'
    <3>1. \A a : DeviceRings(a)' = DeviceRings(a)
      BY <1>2 DEF DeviceRings
    <3> QED BY <1>2, <3>1 DEF PlantingInv, LastDevice
  <2>3. Finite'
    BY <1>2 DEF PlantingInv, Finite
  <2>4. PayoutsAreNew'
    BY <1>2 DEF PlantingInv, PayoutsAreNew, PayoutAccount, Schedule
  <2>5. LegsAreOfRings'
    <3> SUFFICES ASSUME NEW r \in DOMAIN rings
                 PROVE  LegsFit(rings[r].ring_type, rings[r].members, r, LegsOf(r)')
      BY <1>2, LegsFitLasts DEF LegsAreOfRings
    <3>1. LegsOf(r)' = LegsOf(r)
      BY <1>2 DEF LegsOf
    <3> QED BY <3>1 DEF PlantingInv, LegsAreOfRings
  <2> QED BY <2>1, <2>2, <2>3, <2>4, <2>5, <2>6
<1>3. CASE Raise
  <2>1. UNCHANGED <<nodes, legs, rings>> /\ stage' = "raised"
    BY <1>3 DEF Raise
  <2> QED BY <1>2, <2>1 DEF PlantingInv, TypeOK, SplitsCounted
<1>4. CASE AssignSplits
  BY <1>4, SplitStep
<1>5. CASE UNCHANGED vars
  <2>1. UNCHANGED <<nodes, legs, rings>> /\ stage' = stage
    BY <1>5 DEF vars
  <2>2. TypeOK' /\ SplitsCounted'
    BY <2>1 DEF PlantingInv, TypeOK, SplitsCounted, TestRings, Stratum
  <2> QED BY <1>2, <2>1, <2>2 DEF PlantingInv
<1> QED BY <1>1, <1>3, <1>4, <1>5, PlantingSteps DEF PlantingInv

\* The data has finitely many accounts.
LEMMA AccountsAreFinite == IsFiniteSet(Accounts)
<1> DEFINE f == [t \in Transactions |-> t.from]
           g == [t \in Transactions |-> t.to]
           F == {f[t] : t \in Transactions}
           G == {g[t] : t \in Transactions}
<1>1. IsFiniteSet(Transactions)
  BY PlantingAssumption
<1>2. DOMAIN f = Transactions /\ f = [t \in Transactions |-> f[t]]
  OBVIOUS
<1>3. DOMAIN g = Transactions /\ g = [t \in Transactions |-> g[t]]
  OBVIOUS
<1>4. Accounts = F \cup G
  BY DEF Accounts
<1> HIDE DEF f, g
<1>5. IsFiniteSet(F) /\ IsFiniteSet(G)
  BY <1>1, <1>2, <1>3, ImageIsFinite
<1> HIDE DEF F, G
<1> QED BY <1>4, <1>5, FS_Union

\* build_base_graph gives it.
LEMMA PlantingBegins == Init => PlantingInv
<1> SUFFICES ASSUME Init PROVE PlantingInv
  OBVIOUS
<1>1. /\ nodes = [a \in Accounts |->
                    [kind |-> IF a \in Merchants THEN "M" ELSE "C", device_id |-> None]]
      /\ legs = {} /\ rings = <<>> /\ stage = "planting"
  BY DEF Init
<1>2. DOMAIN rings = {} /\ Len(rings) = 0 /\ rings \in Seq(RingRecords)
  BY <1>1
<1>3. TypeOK
  BY <1>1, <1>2, ScheduleLength DEF TypeOK
<1>4. Lists
  BY <1>1, <1>2 DEF Lists
<1>5. DeviceKnowsItsRing
  BY <1>1, <1>2 DEF DeviceKnowsItsRing
<1>6. Finite
  <2>1. IsFiniteSet(Accounts)
    BY AccountsAreFinite
  <2> QED BY <1>1, <2>1, FS_EmptySet DEF Finite
<1>7. LastDevice /\ PayoutsAreNew /\ LegsAreOfRings
  BY <1>1, <1>2 DEF LastDevice, DeviceRings, PayoutsAreNew, LegsAreOfRings
<1> QED BY <1>1, <1>3, <1>4, <1>5, <1>6, <1>7 DEF PlantingInv, SplitsCounted

--------------------------------------------------------------------------------
(* What planting promises.                                                     *)

\* The inductive invariant, of every schedule and every draw.
THEOREM PlantingInvariant == Spec => []PlantingInv
<1>1. PlantingInv /\ [Next]_vars => PlantingInv'
  BY PlantingStep
<1> QED BY <1>1, PlantingBegins, PTL DEF Spec

\* plant_rings: the rings are those of the schedule, and members, legs and devices
\* are of accounts and rings that are there.
THEOREM PlantingTypes == Spec => []TypeOK
<1>1. PlantingInv => TypeOK
  BY DEF PlantingInv
<1> QED BY <1>1, PlantingInvariant, PTL

\* plant_shared_device_ring and _ring_tag_map: however the rings overlap, device and
\* tag tell the same story.
THEOREM DevicesKnowTheirRings == Spec => []DeviceKnowsItsRing
<1>1. PlantingInv => DeviceKnowsItsRing
  BY DEF PlantingInv
<1> QED BY <1>1, PlantingInvariant, PTL

--------------------------------------------------------------------------------
(* The share of test rings.                                                    *)

\* round() is never off by more than half.
LEMMA RoundedToNearest ==
  ASSUME NEW m \in Nat
  PROVE  RoundTenths(m) \in Nat /\ 10 * RoundTenths(m) \in (m - 5)..(m + 5)
<1> DEFINE q == m \div 10
           r == m % 10
<1>1. q \in Nat /\ r \in 0..9 /\ m = 10 * q + r
  OBVIOUS
<1>2. RoundTenths(m) = IF r > 5 \/ (r = 5 /\ q % 2 = 1) THEN q + 1 ELSE q
  BY DEF RoundTenths
<1>3. \/ RoundTenths(m) = q + 1 /\ r >= 5
      \/ RoundTenths(m) = q /\ r <= 5
  BY <1>1, <1>2
<1> HIDE DEF q, r
<1> QED BY <1>1, <1>3

\* The share of a stratum is what SplitsStratified says of it.
LEMMA ShareOfTests ==
  ASSUME NEW n \in Nat, n > 1
  PROVE  /\ NumTest(n) \in Nat
         /\ TestTenths <= 5 => NumTest(n) \in 1..(n - 1)
         /\ NumTest(n) = 1 \/ 10 * NumTest(n) \in (n * TestTenths - 5)..(n * TestTenths + 5)
<1> DEFINE m == n * TestTenths
           R == RoundTenths(m)
<1>1. TestTenths \in {0, 1, 2, 3, 4, 5, 6, 7, 8, 9, 10}
  BY PlantingAssumption
<1>2. m \in Nat /\ (TestTenths <= 5 => m <= 5 * n)
  BY <1>1
<1>3. R \in Nat /\ 10 * R \in (m - 5)..(m + 5)
  BY <1>2, RoundedToNearest
<1>4. NumTest(n) = IF R > 1 THEN R ELSE 1
  BY DEF NumTest
<1> HIDE DEF m, R
<1>5. NumTest(n) \in Nat /\ (NumTest(n) = 1 \/ NumTest(n) = R)
  BY <1>3, <1>4
<1>6. TestTenths <= 5 => NumTest(n) \in 1..(n - 1)
  BY <1>2, <1>3, <1>4
<1> QED BY <1>3, <1>5, <1>6 DEF m

\* _assign_splits: "both splits contain every kind of ring", when there are two of
\* the kind and no more than half are asked for.
THEOREM SplitsAreStratified == Spec => []SplitsStratified
<1>1. PlantingInv => SplitsStratified
  <2> SUFFICES ASSUME PlantingInv, stage = "done", NEW r \in DOMAIN rings,
                      Cardinality(Stratum(r)) > 1
               PROVE  /\ TestTenths <= 5 =>
                           Cardinality(TestRings(r)) \in 1..(Cardinality(Stratum(r)) - 1)
                      /\ \/ Cardinality(TestRings(r)) = 1
                         \/ 10 * Cardinality(TestRings(r)) \in
                              (Cardinality(Stratum(r)) * TestTenths - 5)..
                                (Cardinality(Stratum(r)) * TestTenths + 5)
    BY DEF SplitsStratified, TestRings
  <2>1. Cardinality(TestRings(r)) = NumTest(Cardinality(Stratum(r)))
    BY DEF PlantingInv, SplitsCounted
  <2>2. Cardinality(Stratum(r)) \in Nat
    <3>1. Stratum(r) \subseteq 1..Len(rings) /\ Len(rings) \in Nat
      BY DEF Stratum, PlantingInv, Lists
    <3>2. IsFiniteSet(1..Len(rings))
      BY <3>1, FS_Interval
    <3>3. IsFiniteSet(Stratum(r))
      BY <3>1, <3>2, FS_Subset
    <3> QED BY <3>3, FS_CardinalityType
  <2> QED BY <2>1, <2>2, ShareOfTests
<1> QED BY <1>1, PlantingInvariant, PTL

--------------------------------------------------------------------------------
(* The detection that runs on what was planted is the one DetectionProofs is   *)
(* about: operator by operator, the two instances say the same.                *)

DP == INSTANCE DetectionProofs WITH accounts <- nodes, tx <- Stored, Graphs <- {}

\* Cardinalities, ends and elements of sets and sequences.
LEMMA SameHelpers ==
  /\ \A S : Detection!Cardinality(S) = DP!Cardinality(S)
  /\ \A S : Detection!Max(S) = DP!Max(S) /\ Detection!Min(S) = DP!Min(S)
  /\ \A s : Detection!ToSet(s) = DP!ToSet(s) /\ Detection!Last(s) = DP!Last(s)
BY Zenon DEF Detection!Cardinality, DP!Cardinality, Detection!Max, DP!Max,
   Detection!Min, DP!Min, Detection!ToSet, DP!ToSet, Detection!Last, DP!Last

\* Sums.
LEMMA SameSums == ASSUME NEW fun PROVE Detection!SumFunction(fun) = DP!SumFunction(fun)
BY DEF Detection!SumFunction, DP!SumFunction, Detection!SumFunctionOnSet, DP!SumFunctionOnSet,
   Detection!FoldFunctionOnSet, DP!FoldFunctionOnSet,
   Detection!MapThenFoldSet, DP!MapThenFoldSet

\* Candidates.
LEMMA SameCandidate ==
  ASSUME NEW method, NEW key, NEW members, NEW evidence, NEW score
  PROVE  Detection!Candidate(method, key, members, evidence, score) =
           DP!Candidate(method, key, members, evidence, score)
BY DEF Detection!Candidate, DP!Candidate

\* Sorted values.
LEMMA SameSorting ==
  ASSUME NEW key
  PROVE  Detection!SortedValues(key) = DP!SortedValues(key)
BY Zenon DEF Detection!SortedValues, DP!SortedValues, Detection!Cardinality, DP!Cardinality

\* The candidates of devices.
LEMMA SameDevices == Detection!SharedDeviceCandidates = DP!SharedDeviceCandidates
<1>1. \A n : Detection!DeviceScore(n) = DP!DeviceScore(n)
  BY DEF Detection!DeviceScore, DP!DeviceScore
<1>2. \A d : Detection!GroupOf(d) = DP!GroupOf(d)
  BY Zenon DEF Detection!GroupOf, DP!GroupOf
<1>3. Detection!SharedDevices = DP!SharedDevices
  BY Zenon, <1>2, SameHelpers DEF Detection!SharedDevices, DP!SharedDevices
<1> QED
  BY Zenon, <1>1, <1>2, <1>3, SameHelpers, SameSorting, SameCandidate
  DEF Detection!SharedDeviceCandidates, DP!SharedDeviceCandidates

\* The candidates of payout accounts.
LEMMA SamePayouts == Detection!SharedPayoutCandidates = DP!SharedPayoutCandidates
<1>1. \A n, w : Detection!PayoutScore(n, w) = DP!PayoutScore(n, w)
  BY DEF Detection!PayoutScore, DP!PayoutScore, Detection!RoundDiv, DP!RoundDiv
<1>2. \A d : Detection!TransfersTo(d) = DP!TransfersTo(d)
  BY Zenon DEF Detection!TransfersTo, DP!TransfersTo
<1>3. \A s : Detection!StepWindow(s) = DP!StepWindow(s)
  BY Zenon, SameHelpers DEF Detection!StepWindow, DP!StepWindow
<1>4. Detection!FanIns = DP!FanIns
  BY Zenon, <1>2, <1>3, SameHelpers DEF Detection!FanIns, DP!FanIns
<1> QED
  BY Zenon, <1>1, <1>2, <1>3, <1>4, SameHelpers, SameSorting, SameCandidate
  DEF Detection!SharedPayoutCandidates, DP!SharedPayoutCandidates

\* Choices of one element of each set.
LEMMA SameChoices ==
  ASSUME NEW choices
  PROVE  Detection!OneOfEach(choices) = DP!OneOfEach(choices)
<1> DEFINE x(s) == CHOOSE k \in s : TRUE
           With(k, sets) == {f \cup {c} : f \in sets, c \in choices[k]}
           whole == CHOOSE g : g = [s \in SUBSET DOMAIN choices |->
                                      IF s = {} THEN {{}} ELSE With(x(s), g[s \ {x(s)}])]
<1>1. Detection!OneOfEach(choices) = whole[DOMAIN choices]
  BY DEF Detection!OneOfEach, Detection!FoldSet, Detection!MapThenFoldSet
<1>2. DP!OneOfEach(choices) = whole[DOMAIN choices]
  BY DEF DP!OneOfEach, DP!FoldSet, DP!MapThenFoldSet
<1> QED BY <1>1, <1>2

\* The candidates of cycles.
LEMMA SameFlows == Detection!CircularFlowChoices = DP!CircularFlowChoices
<1>1. Detection!Trails = DP!Trails
  BY Zenon DEF Detection!Trails, DP!Trails, Detection!Last, DP!Last, Detection!ToSet, DP!ToSet
<1>2. Detection!CycleRows = DP!CycleRows
  BY Zenon, <1>1, SameHelpers DEF Detection!CycleRows, DP!CycleRows
<1>3. \A s, k : Detection!Rotation(s, k) = DP!Rotation(s, k)
  BY DEF Detection!Rotation, DP!Rotation
<1>4. \A s : Detection!Canonical(s) = DP!Canonical(s)
  BY Zenon, <1>3 DEF Detection!Canonical, DP!Canonical, Detection!SelectInSeq, DP!SelectInSeq,
     Detection!Min, DP!Min, Detection!ToSet, DP!ToSet
<1>5. \A p : Detection!KeyOf(p) = DP!KeyOf(p)
  BY Zenon, <1>4 DEF Detection!KeyOf, DP!KeyOf
<1>6. \A k, n, sum, squares : Detection!Fits(k, n, sum, squares) = DP!Fits(k, n, sum, squares)
  BY DEF Detection!Fits, DP!Fits
<1>7. \A s : Detection!FlowScore(s) = DP!FlowScore(s)
  BY Zenon, <1>6, SameSums, SameHelpers DEF Detection!FlowScore, DP!FlowScore
<1> DEFINE Row(p) == [key |-> Detection!KeyOf(p), legs |-> Detection!ToSet(p)]
           Of(row, k) == Detection!Candidate("circular_flow", k, k, row.legs, Detection!FlowScore(row.legs))
           rows == {Row(p) : p \in Detection!CycleRows}
           choices == [k \in {row.key : row \in rows} |->
                         {Of(row, k) : row \in {r \in rows : r.key = k}}]
<1>8. Detection!CircularFlowChoices = Detection!OneOfEach(choices)
  BY Zenon DEF Detection!CircularFlowChoices
<1>9. \A p : Row(p) = [key |-> DP!KeyOf(p), legs |-> DP!ToSet(p)]
  BY Zenon, <1>5, SameHelpers
<1>10. \A row, k :
         Of(row, k) = DP!Candidate("circular_flow", k, k, row.legs, DP!FlowScore(row.legs))
  BY Zenon, <1>7, SameCandidate
<1> HIDE DEF Row, Of
<1>11. rows = {[key |-> DP!KeyOf(p), legs |-> DP!ToSet(p)] : p \in DP!CycleRows}
  BY Zenon, <1>2, <1>9
<1> HIDE DEF rows
<1>12. choices = [k \in {row.key : row \in rows} |->
                    {DP!Candidate("circular_flow", k, k, row.legs, DP!FlowScore(row.legs)) :
                       row \in {r \in rows : r.key = k}}]
  BY Zenon, <1>10
<1> HIDE DEF choices
<1>13. DP!CircularFlowChoices = DP!OneOfEach(choices)
  BY Zenon, <1>11, <1>12 DEF DP!CircularFlowChoices
<1> QED BY <1>8, <1>13, SameChoices

\* The detectors and their steps.
LEMMA SameDetection == Detection!Detectors = DP!Detectors /\ (Detection!Next => DP!Next)
<1>1. \A method, found : Detection!Run(method, found) <=> DP!Run(method, found)
  BY Zenon DEF Detection!Run, DP!Run
<1>2. Detection!Detectors = DP!Detectors
  BY DEF Detection!Detectors, DP!Detectors
<1>3. Detection!DetectSharedDevice => DP!DetectSharedDevice
  BY <1>1, SameDevices DEF Detection!DetectSharedDevice, DP!DetectSharedDevice
<1>4. Detection!DetectSharedPayout => DP!DetectSharedPayout
  BY <1>1, SamePayouts DEF Detection!DetectSharedPayout, DP!DetectSharedPayout
<1>5. Detection!DetectCircularFlow => DP!DetectCircularFlow
  BY <1>1, SameFlows DEF Detection!DetectCircularFlow, DP!DetectCircularFlow
<1> QED BY <1>2, <1>3, <1>4, <1>5 DEF Detection!Next, DP!Next

--------------------------------------------------------------------------------
(* What holds while planted rings are being detected.                          *)

\* What detection assumes of its limits.
LEMMA SameAssumption == DP!DetectionAssumption
BY PlantedAssumption DEF DP!DetectionAssumption

PlantedInv ==
  /\ PlantingInv
  /\ IF stage = "done" THEN DP!DetectionInv
     ELSE pending = DP!Detectors /\ candidates = {}

\* The graph with its rings is one detection can run on.
LEMMA PlantedIsGraph == PlantingInv => DP!IsGraph
<1> SUFFICES ASSUME PlantingInv PROVE DP!IsGraph
  OBVIOUS
<1>1. DOMAIN nodes \in SUBSET Int
  BY AccountsAreNumbers DEF PlantingInv
<1>2. IsFiniteSet(DOMAIN nodes) /\ IsFiniteSet(legs) /\ IsFiniteSet(Transactions)
  BY PlantingAssumption DEF PlantingInv, Finite
<1>3. IsFiniteSet(Stored)
  <2> DEFINE f == [leg \in legs |-> StoredLeg(leg)]
             F == {f[leg] : leg \in legs}
  <2>1. DOMAIN f = legs /\ f = [leg \in legs |-> f[leg]]
    OBVIOUS
  <2>2. Stored = Transactions \cup F
    BY DEF Stored
  <2> HIDE DEF f
  <2>3. IsFiniteSet(F)
    BY <1>2, <2>1, ImageIsFinite
  <2> HIDE DEF F
  <2> QED BY <1>2, <2>2, <2>3, FS_Union
<1>4. \A t \in Transactions : {t.from, t.to} \subseteq DOMAIN nodes /\ t.step \in Nat
  BY PlantingAssumption DEF PlantingInv, Finite, Accounts
<1>5. \A leg \in legs : /\ {StoredLeg(leg).from, StoredLeg(leg).to} \subseteq DOMAIN nodes
                        /\ StoredLeg(leg).step \in Nat
  BY DEF PlantingInv, Finite, TypeOK, StoredLeg
<1>6. \A t \in Stored : {t.from, t.to} \subseteq DOMAIN nodes /\ t.step \in Nat
  BY <1>4, <1>5 DEF Stored
<1>7. \A S : IsFiniteSet(S) <=> DP!IsFiniteSet(S)
  BY Zenon DEF IsFiniteSet, DP!IsFiniteSet
<1>8. DP!IsFiniteSet(DOMAIN nodes) /\ DP!IsFiniteSet(Stored)
  BY <1>2, <1>3, <1>7
<1> QED BY <1>1, <1>6, <1>8 DEF DP!IsGraph

\* Detection starts on what planting leaves.
LEMMA DetectionCanStart ==
  PlantingInv /\ pending = DP!Detectors /\ candidates = {} => DP!DetectionInv
BY PlantedIsGraph, SameAssumption, DP!NothingFoundYet

\* Planting leaves detection waiting, and detection leaves the rings alone.
LEMMA PlantedStep ==
  ASSUME PlantedInv, [PlantedNext]_<<vars, pending, candidates>>
  PROVE  PlantedInv'
<1>1. PlantingInv'
  <2>1. [Next]_vars
    BY DEF PlantedNext, Plant, Detect
  <2> QED BY <2>1, PlantingStep DEF PlantedInv
<1>2. CASE Plant
  <2>1. stage = "planting" /\ UNCHANGED <<pending, candidates>>
    BY <1>2 DEF Plant, Next, PlantSharedDevice, PlantSharedPayout, PlantCircularFlow,
       PlantLegitCluster, Turn, Raise, AssignSplits
  <2>2. pending' = DP!Detectors /\ candidates' = {}
    BY <2>1 DEF PlantedInv
  <2>3. DP!Detectors' = DP!Detectors
    BY DEF DP!Detectors
  <2>4. (PlantingInv /\ pending = DP!Detectors /\ candidates = {} => DP!DetectionInv)'
    BY DetectionCanStart, PTL
  <2>5. DP!DetectionInv'
    BY <1>1, <2>2, <2>3, <2>4
  <2> QED BY <1>1, <2>2, <2>3, <2>5 DEF PlantedInv
<1>3. CASE UNCHANGED vars /\ (Detect \/ UNCHANGED <<pending, candidates>>)
  <2>1. UNCHANGED <<nodes, legs, stage>> /\ Stored' = Stored
    BY <1>3 DEF vars, Stored
  <2>2. CASE stage = "done"
    <3>1. [DP!Next]_(DP!vars)
      BY <1>3, <2>1, SameDetection DEF Detect, DP!vars
    <3>2. DP!DetectionInv
      BY <2>2 DEF PlantedInv
    <3>3. DP!DetectionInv'
      BY <3>1, <3>2, SameAssumption, DP!DetectionKeeps
    <3> QED BY <1>1, <2>1, <2>2, <3>3 DEF PlantedInv
  <2>3. CASE stage # "done"
    <3>1. UNCHANGED <<pending, candidates>>
      BY <1>3, <2>3 DEF Detect
    <3> QED BY <1>1, <2>1, <2>3, <3>1 DEF PlantedInv, DP!Detectors
  <2> QED BY <2>2, <2>3
<1> QED BY <1>2, <1>3 DEF PlantedNext, Detect, vars

\* The invariant of planting, and detection's while it runs.
THEOREM PlantedInvariant == PlantedSpec => []PlantedInv
<1>1. PlantedInit => PlantedInv
  BY PlantingBegins, SameDetection DEF PlantedInit, PlantedInv, Init
<1>2. PlantedInv /\ [PlantedNext]_<<vars, pending, candidates>> => PlantedInv'
  BY PlantedStep
<1> QED BY <1>1, <1>2, PTL DEF PlantedSpec

\* plant_rings and detect_candidates: what holds of planting holds while its rings
\* are being detected.
THEOREM DetectionLeavesPlanting ==
  PlantedSpec => [](TypeOK /\ DeviceKnowsItsRing /\ SplitsStratified)
<1>1. PlantedInit => Init
  BY DEF PlantedInit
<1>2. [PlantedNext]_<<vars, pending, candidates>> => [Next]_vars
  BY DEF PlantedNext, Plant, Detect
<1>3. PlantedSpec => Spec
  BY <1>1, <1>2, PTL DEF PlantedSpec, Spec
<1> QED BY <1>3, PlantingTypes, DevicesKnowTheirRings, SplitsAreStratified, PTL

\* detect_candidates on planted rings: what DetectionProofs shows of any loaded graph
\* holds of every graph that plant_rings leaves.
ShownOfGraphs == DP!TypeOK /\ DP!EvidenceGoesRound /\ DP!CyclesFoundOnce

THEOREM DetectionHoldsOfPlanted == PlantedSpec => [](stage = "done" => ShownOfGraphs)
<1>1. PlantedInv => (stage = "done" => ShownOfGraphs)
  <2> SUFFICES ASSUME PlantedInv, stage = "done"
               PROVE  ShownOfGraphs
    OBVIOUS
  <2>1. DP!DetectionInv
    BY DEF PlantedInv
  <2>2. DP!TypeOK /\ DP!EvidenceGoesRound
    BY <2>1, SameAssumption, DP!TypesFromInv, DP!EvidenceFromInv
  <2>3. DP!CyclesFoundOnce
    BY <2>1, SameAssumption, DP!CyclesFromInv
  <2> QED BY <2>2, <2>3 DEF ShownOfGraphs
<1> QED BY <1>1, PlantedInvariant, PTL

\* The helpers of detection are those of planting.
LEMMA SameSets ==
  /\ \A S : Cardinality(S) = DP!Cardinality(S)
  /\ \A S : IsFiniteSet(S) <=> DP!IsFiniteSet(S)
  /\ \A S : Max(S) = DP!Max(S) /\ Min(S) = DP!Min(S)
  /\ \A s : ToSet(s) = DP!ToSet(s)
  /\ \A f : IsInjective(f) <=> DP!IsInjective(f)
<1>1. \A S : Cardinality(S) = DP!Cardinality(S)
  BY Zenon DEF Cardinality, DP!Cardinality
<1>2. \A S : IsFiniteSet(S) <=> DP!IsFiniteSet(S)
  BY Zenon DEF IsFiniteSet, DP!IsFiniteSet
<1>3. \A S : Max(S) = DP!Max(S) /\ Min(S) = DP!Min(S)
  BY Zenon DEF Max, DP!Max, Min, DP!Min
<1>4. \A s : ToSet(s) = DP!ToSet(s)
  BY Zenon DEF ToSet, DP!ToSet
<1>5. \A f : IsInjective(f) <=> DP!IsInjective(f)
  BY Zenon DEF IsInjective, DP!IsInjective
<1> QED BY <1>1, <1>2, <1>3, <1>4, <1>5

--------------------------------------------------------------------------------
(* A cycle and its rotations.                                                  *)

\* Who is next in a rotation of a cycle is next in the cycle.
LEMMA RotationGoesRound ==
  ASSUME NEW T, NEW s \in Seq(T), NEW k \in 1..Len(s), NEW i \in 1..Len(s)
  PROVE  LET n == Len(s)
             m == DP!Rotation(s, k)
         IN  /\ m \in Seq(T) /\ Len(m) = n
             /\ \E j \in 1..n : m[i] = s[j] /\ m[(i % n) + 1] = s[(j % n) + 1]
<1> DEFINE n == Len(s)
           m == DP!Rotation(s, k)
           at(x) == IF x <= n - k + 1 THEN x + k - 1 ELSE x + k - 1 - n
<1>1. n \in Nat \ {0} /\ k \in 1..n /\ i \in 1..n
  OBVIOUS
<1>2. /\ m \in Seq(T) /\ Len(m) = n
      /\ \A x \in 1..n : m[x] = IF x <= n - k + 1 THEN s[x + k - 1] ELSE s[x + k - 1 - n]
  BY SameAssumption, DP!RotationFacts
<1> HIDE DEF n, m
<1>3. \A x \in 1..n : at(x) \in 1..n /\ m[x] = s[at(x)]
  BY <1>1, <1>2
<1>4. /\ (i % n) + 1 = IF i = n THEN 1 ELSE i + 1
      /\ (at(i) % n) + 1 = IF at(i) = n THEN 1 ELSE at(i) + 1
  <2>1. \A x \in 1..n : (x % n) + 1 = IF x = n THEN 1 ELSE x + 1
    BY <1>1, SameAssumption, DP!NextPlace
  <2> QED BY <1>1, <1>3, <2>1
<1>5. (i % n) + 1 \in 1..n /\ at((i % n) + 1) = (at(i) % n) + 1
  BY <1>1, <1>4
<1>6. m[i] = s[at(i)] /\ m[(i % n) + 1] = s[(at(i) % n) + 1] /\ at(i) \in 1..n
  <2> DEFINE j == (i % n) + 1
             l == (at(i) % n) + 1
  <2>1. at(i) \in 1..n /\ m[i] = s[at(i)]
    BY <1>1, <1>3
  <2>2. j \in 1..n /\ at(j) = l
    BY <1>5
  <2>3. m[j] = s[at(j)]
    <3> HIDE DEF j
    <3> QED BY <1>3, <2>2
  <2> QED BY <2>1, <2>2, <2>3
<1> QED BY <1>2, <1>6 DEF n, m

\* Whoever follows a cycle of distinct accounts walks one of its rotations.
LEMMA RoundIsRotation ==
  ASSUME NEW T, NEW s \in Seq(T), NEW m \in Seq(T), Len(m) = Len(s), Len(s) >= 1,
         IsInjective(s),
         \A i \in 1..Len(s) : \E j \in 1..Len(s) :
           m[i] = s[j] /\ m[(i % Len(s)) + 1] = s[(j % Len(s)) + 1]
  PROVE  m \in DP!Rotations(s)
<1> DEFINE n == Len(s)
<1>1. n \in Nat \ {0} /\ 1 \in 1..n /\ DOMAIN s = 1..n /\ DOMAIN m = 1..n
  OBVIOUS
<1>2. PICK k \in 1..n : m[1] = s[k]
  BY <1>1
<1> DEFINE r == DP!Rotation(s, k)
           Q == {x \in Nat : x + 1 <= n => m[x + 1] = r[x + 1]}
<1>3. r \in Seq(T) /\ Len(r) = n /\ DOMAIN r = 1..n
  <2>1. r \in Seq(T) /\ Len(r) = n
    BY <1>1, RotationGoesRound
  <2> HIDE DEF r, n
  <2> QED BY <2>1
<1>4. r[1] = s[k]
  <2>1. r[1] = IF 1 <= n - k + 1 THEN s[1 + k - 1] ELSE s[1 + k - 1 - n]
    BY <1>1, SameAssumption, DP!RotationFacts
  <2> HIDE DEF n, r
  <2> QED BY <1>1, <2>1
<1>5. \A i \in 1..n : \E j \in 1..n : r[i] = s[j] /\ r[(i % n) + 1] = s[(j % n) + 1]
  BY ZenonT(60), RotationGoesRound
<1> HIDE DEF r
<1>6. \A i \in 1..n : (i % n) + 1 = IF i = n THEN 1 ELSE i + 1
  <2> HIDE DEF n
  <2> QED BY <1>1, SameAssumption, DP!NextPlace
<1>7. 0 \in Q
  BY <1>2, <1>4
<1>8. ASSUME NEW x \in Nat, x \in Q
      PROVE  x + 1 \in Q
  <2> SUFFICES ASSUME x + 2 <= n PROVE m[x + 2] = r[x + 2]
    OBVIOUS
  <2> DEFINE i == x + 1
  <2>1. i \in 1..n /\ (i % n) + 1 = x + 2 /\ m[i] = r[i]
    <3> HIDE DEF n
    <3>1. i \in 1..n /\ i # n /\ i + 1 = x + 2 /\ i <= n
      BY <1>1
    <3>2. m[i] = r[i]
      BY <1>8, <3>1
    <3> HIDE DEF i
    <3> QED BY <1>6, <3>1, <3>2
  <2>2. PICK j \in 1..n : m[i] = s[j] /\ m[(i % n) + 1] = s[(j % n) + 1]
    BY <2>1
  <2>3. PICK l \in 1..n : r[i] = s[l] /\ r[(i % n) + 1] = s[(l % n) + 1]
    BY <1>5, <2>1
  <2>4. j = l
    BY <1>1, <2>1, <2>2, <2>3 DEF IsInjective
  <2> HIDE DEF i, n
  <2> QED BY <2>1, <2>2, <2>3, <2>4
<1>9. Nat \subseteq Q
  <2> HIDE DEF Q
  <2> QED BY <1>7, <1>8, NumbersByInduction
<1>10. \A i \in 1..n : m[i] = r[i]
  <2> SUFFICES ASSUME NEW i \in 1..n PROVE m[i] = r[i]
    OBVIOUS
  <2>1. i - 1 \in Nat /\ (i - 1) + 1 <= n /\ (i - 1) + 1 = i
    BY <1>1
  <2>2. i - 1 \in Q
    BY <1>9, <2>1
  <2> QED BY <2>1, <2>2
<1>11. m = r
  <2>1. m = [i \in 1..n |-> m[i]] /\ r = [i \in 1..n |-> r[i]]
    BY <1>1, <1>3
  <2> HIDE DEF n
  <2> QED BY <1>10, <2>1
<1> QED BY <1>1, <1>11 DEF DP!Rotations, r

\* An order of a circular ring's members in which every leg is from one to the next.
CycleOfRing(s, r) ==
  /\ s \in Seq(DOMAIN nodes) /\ Len(s) = Cardinality(rings[r].members)
  /\ IsInjective(s) /\ ToSet(s) = rings[r].members
  /\ \A i \in 1..Len(s) : \E leg \in LegsOf(r) : leg.from = s[i] /\ leg.to = s[(i % Len(s)) + 1]
  /\ \A leg \in LegsOf(r) : \E i \in 1..Len(s) :
       leg.from = s[i] /\ leg.to = s[(i % Len(s)) + 1]
  /\ \E amount \in CycleAmounts : \A leg \in LegsOf(r) : \E i \in 1..Len(s), factor \in 85..98 :
       leg.amount \in {amount, LegAmount(amount, "subtle", factor, i)}

\* A ring has finitely many members, all of them accounts.
LEMMA MembersAreFinite ==
  ASSUME PlantingInv, NEW r \in DOMAIN rings
  PROVE  /\ rings[r].members \subseteq DOMAIN nodes
         /\ IsFiniteSet(rings[r].members) /\ Cardinality(rings[r].members) \in Nat
<1>1. rings[r].members \subseteq DOMAIN nodes /\ IsFiniteSet(DOMAIN nodes)
  BY DEF PlantingInv, TypeOK, Finite
<1>2. IsFiniteSet(rings[r].members)
  BY <1>1, FS_Subset
<1> QED BY <1>1, <1>2, FS_CardinalityType

\* Every circular ring has such an order: the one it was drawn in.
LEMMA RingIsCycle ==
  ASSUME PlantingInv, NEW r \in DOMAIN rings, rings[r].ring_type = "circular_flow"
  PROVE  \E s : CycleOfRing(s, r)
<1> DEFINE members == rings[r].members
           n == Cardinality(members)
<1>1. LegsFit("circular_flow", members, r, LegsOf(r))
  BY DEF PlantingInv, LegsAreOfRings
<1>2. CycleLegs(members, LegsOf(r))
  BY <1>1 DEF LegsFit
<1>3. members \subseteq DOMAIN nodes /\ n \in Nat
  BY MembersAreFinite
<1>4. PICK s \in [1..n -> members], amount \in CycleAmounts :
        /\ IsInjective(s) /\ ToSet(s) = members
        /\ \A i \in DOMAIN s : \E leg \in LegsOf(r) : leg.from = s[i] /\ leg.to = NextMember(s, i)
        /\ \A leg \in LegsOf(r) : \E i \in DOMAIN s, factor \in 85..98 :
             /\ leg.from = s[i] /\ leg.to = NextMember(s, i)
             /\ leg.amount \in {amount, LegAmount(amount, "subtle", factor, i)}
  BY <1>2 DEF CycleLegs
<1> HIDE DEF members, n
<1>5. s \in Seq(DOMAIN nodes) /\ Len(s) = n /\ DOMAIN s = 1..Len(s)
  BY <1>3
<1>6. \A i : NextMember(s, i) = s[(i % Len(s)) + 1]
  BY DEF NextMember
<1>7. \A i \in 1..Len(s) : \E leg \in LegsOf(r) : leg.from = s[i] /\ leg.to = s[(i % Len(s)) + 1]
  BY ZenonT(60), <1>4, <1>5, <1>6
<1>8. \A leg \in LegsOf(r) : \E i \in 1..Len(s), factor \in 85..98 :
        /\ leg.from = s[i] /\ leg.to = s[(i % Len(s)) + 1]
        /\ leg.amount \in {amount, LegAmount(amount, "subtle", factor, i)}
  BY Zenon, <1>4, <1>5, <1>6
<1>9. \E cut \in CycleAmounts : \A leg \in LegsOf(r) : \E i \in 1..Len(s), factor \in 85..98 :
        leg.amount \in {cut, LegAmount(cut, "subtle", factor, i)}
  <2> WITNESS amount \in CycleAmounts
  <2> QED BY Zenon, <1>8
<1>10. \A leg \in LegsOf(r) : \E i \in 1..Len(s) :
        leg.from = s[i] /\ leg.to = s[(i % Len(s)) + 1]
  BY Zenon, <1>8
<1> QED BY ZenonT(60), <1>4, <1>5, <1>7, <1>9, <1>10 DEF CycleOfRing, members, n

\* A sequence without repeats is as long as its set.
LEMMA DistinctElements ==
  ASSUME NEW T, NEW s \in Seq(T), IsInjective(s)
  PROVE  Cardinality(ToSet(s)) = Len(s)
<1>1. Len(s) \in Nat /\ DOMAIN s = 1..Len(s) /\ ToSet(s) = {s[i] : i \in 1..Len(s)}
  BY DEF ToSet
<1> DEFINE n == Len(s)
           D == 1..n
<1>2. IsFiniteSet(D) /\ Cardinality(D) = n
  <2>1. 1 \in Int /\ n \in Int /\ (1 > n => n = 0) /\ n - 1 + 1 = n
    BY <1>1
  <2> HIDE DEF n
  <2> QED BY <2>1, FS_Interval DEF D
<1> HIDE DEF n, D
<1>3. s \in Bijection(D, ToSet(s))
  BY <1>1 DEF Bijection, Injection, Surjection, IsInjective, n, D
<1> QED BY <1>2, <1>3, FS_Bijection DEF ExistsBijection, n

\* Going round a ring is following a rotation of that order.
LEMMA CycleIsRound ==
  ASSUME NEW r, NEW s, CycleOfRing(s, r), NEW m \in Seq(DOMAIN nodes), Len(m) >= 1
  PROVE  GoesRound(m, r) <=> m \in DP!Rotations(s)
<1> DEFINE n == Len(s)
           step(i) == (i % Len(m)) + 1
<1>1. s \in Seq(DOMAIN nodes) /\ IsInjective(s) /\ ToSet(s) = rings[r].members
  BY DEF CycleOfRing
<1>2. /\ n \in Nat /\ DOMAIN s = 1..n /\ Len(m) \in Nat \ {0} /\ DOMAIN m = 1..Len(m)
      /\ ToSet(m) = {m[i] : i \in 1..Len(m)} /\ ToSet(s) = {s[i] : i \in 1..n}
  BY <1>1 DEF ToSet
<1>3. ASSUME GoesRound(m, r)
      PROVE  m \in DP!Rotations(s)
  <2>1. /\ IsInjective(m) /\ ToSet(m) = ToSet(s)
        /\ \A i \in 1..Len(m) : <<m[i], m[step(i)]>> \in Route(LegsOf(r))
    BY <1>1, <1>2, <1>3 DEF GoesRound
  <2>2. Len(m) = n
    BY <1>1, <2>1, DistinctElements
  <2>3. ASSUME NEW i \in 1..n
        PROVE  \E j \in 1..n : m[i] = s[j] /\ m[(i % n) + 1] = s[(j % n) + 1]
    <3>1. PICK leg \in LegsOf(r) : leg.from = m[i] /\ leg.to = m[(i % n) + 1]
      BY <2>1, <2>2 DEF Route
    <3>2. PICK j \in 1..n : leg.from = s[j] /\ leg.to = s[(j % n) + 1]
      BY <3>1 DEF CycleOfRing
    <3> QED BY <3>1, <3>2
  <2> QED BY <1>1, <1>2, <2>2, <2>3, RoundIsRotation
<1>4. ASSUME m \in DP!Rotations(s)
      PROVE  GoesRound(m, r)
  <2>1. PICK k \in 1..n : m = DP!Rotation(s, k)
    BY <1>2, <1>4 DEF DP!Rotations
  <2>2. ToSet(m) = ToSet(s) /\ IsInjective(m)
    <3>1. /\ DP!ToSet(DP!Rotation(s, k)) = DP!ToSet(s)
          /\ DP!IsInjective(s) => DP!IsInjective(DP!Rotation(s, k))
      BY <1>1, SameAssumption, DP!RotationKeepsElements
    <3> QED BY <1>1, <2>1, <3>1, SameSets
  <2>3. ASSUME NEW i \in DOMAIN m
        PROVE  <<m[i], m[(i % Len(m)) + 1]>> \in Route(LegsOf(r))
    <3>0. Len(m) = n /\ i \in 1..n
      <4>1. n >= 1 /\ 1 \in 1..n
        BY <1>2
      <4>2. Len(DP!Rotation(s, k)) = n
        BY <1>1, <4>1, RotationGoesRound
      <4> QED BY <1>2, <2>1, <4>2
    <3>1. PICK j \in 1..n : m[i] = s[j] /\ m[(i % n) + 1] = s[(j % n) + 1]
      BY <1>1, <2>1, <3>0, RotationGoesRound
    <3>2. PICK leg \in LegsOf(r) : leg.from = s[j] /\ leg.to = s[(j % n) + 1]
      BY DEF CycleOfRing
    <3> QED BY <3>0, <3>1, <3>2 DEF Route
  <2> QED BY <1>1, <2>2, <2>3 DEF GoesRound
<1> QED BY <1>3, <1>4

\* What is known of the candidates once detection may run.
LEMMA CandidatesExplained ==
  ASSUME PlantedInv, stage = "done"
  PROVE  /\ DP!DetectionInv /\ DP!IsGraph
         /\ \A c \in candidates : DP!Explained(c)
BY DEF PlantedInv, DP!DetectionInv

\* The candidates of a circular ring are those that follow its order.
LEMMA CandidatesOfCycle ==
  ASSUME PlantedInv, stage = "done", NEW r \in DOMAIN rings,
         rings[r].ring_type = "circular_flow", NEW s, CycleOfRing(s, r)
  PROVE  CandidatesOf(r) = {c \in DP!Found("circular_flow") : c.members \in DP!Rotations(s)}
<1>1. ASSUME NEW c \in candidates, c.method = "circular_flow"
      PROVE  IsOf(c, r) <=> c.members \in DP!Rotations(s)
  <2>1. DP!IsGraph /\ DP!GoesRound(c)
    BY <1>1, CandidatesExplained DEF DP!Explained
  <2>2. PICK q : DP!IsCycle(q) /\ c.members = DP!Payers(q)
    BY <2>1 DEF DP!GoesRound
  <2>3. c.members \in Seq(DOMAIN nodes) /\ Len(c.members) >= 1
    BY <2>1, <2>2, SameAssumption, DP!WalkFacts
  <2>4. GoesRound(c.members, r) <=> c.members \in DP!Rotations(s)
    BY <2>3, CycleIsRound
  <2> QED BY <1>1, <2>4 DEF IsOf
<1>2. ASSUME NEW c, IsOf(c, r)
      PROVE  c.method = "circular_flow"
  BY <1>2 DEF IsOf
<1> QED BY <1>1, <1>2 DEF CandidatesOf, DP!Found

\* That order is a cycle of the graph.
LEMMA RingIsSimpleCycle ==
  ASSUME PlantingInv, NEW r \in DOMAIN rings, NEW s, CycleOfRing(s, r),
         Len(s) \in MinCycleLen..MaxCycleLen
  PROVE  s \in DP!SimpleCycles
<1> DEFINE n == Len(s)
           longest == IF DP!Cardinality(DOMAIN nodes) < MaxCycleLen
                      THEN DP!Cardinality(DOMAIN nodes) ELSE MaxCycleLen
           accountsOf(l) == {x \in [1..l -> DOMAIN nodes] : DP!IsInjective(x)}
<1>1. /\ s \in Seq(DOMAIN nodes) /\ n \in Nat /\ DOMAIN s = 1..n
      /\ n = Cardinality(rings[r].members)
      /\ DP!IsInjective(s)
  BY SameSets DEF CycleOfRing
<1>2. n <= DP!Cardinality(DOMAIN nodes) /\ DP!Cardinality(DOMAIN nodes) \in Nat
  <2>1. IsFiniteSet(DOMAIN nodes) /\ rings[r].members \in SUBSET DOMAIN nodes
    BY DEF PlantingInv, TypeOK, Finite
  <2>2. n <= Cardinality(DOMAIN nodes) /\ Cardinality(DOMAIN nodes) \in Nat
    BY <1>1, <2>1, FS_Subset, FS_CardinalityType
  <2> QED BY <2>2, SameSets
<1>3. n \in MinCycleLen..longest
  BY <1>1, <1>2, PlantedAssumption
<1>4. s \in accountsOf(n)
  BY <1>1
<1>5. \A i \in DOMAIN s : \E t \in Stored : t.from = s[i] /\ t.to = s[(i % Len(s)) + 1]
  <2> SUFFICES ASSUME NEW i \in 1..n
               PROVE  \E t \in Stored : t.from = s[i] /\ t.to = s[(i % n) + 1]
    BY <1>1
  <2>1. PICK leg \in LegsOf(r) : leg.from = s[i] /\ leg.to = s[(i % n) + 1]
    BY DEF CycleOfRing
  <2>2. StoredLeg(leg) \in Stored /\ StoredLeg(leg).from = leg.from /\ StoredLeg(leg).to = leg.to
    BY DEF Stored, StoredLeg, LegsOf
  <2> QED BY <2>1, <2>2
<1>6. DP!SimpleCycles =
        {x \in UNION {accountsOf(l) : l \in MinCycleLen..longest} :
           \A i \in DOMAIN x : \E t \in Stored : t.from = x[i] /\ t.to = x[(i % Len(x)) + 1]}
  BY DEF DP!SimpleCycles
<1> HIDE DEF accountsOf, longest, n
<1>7. s \in UNION {accountsOf(l) : l \in MinCycleLen..longest}
  BY <1>3, <1>4
<1> QED BY <1>5, <1>6, <1>7

\* A circular ring has one candidate.
LEMMA CircularFoundOnce ==
  ASSUME PlantedInv, Detected, NEW r \in DOMAIN rings,
         rings[r].ring_type = "circular_flow", WithinLimits(r)
  PROVE  Cardinality(CandidatesOf(r)) = 1
<1>1. PlantingInv /\ stage = "done" /\ pending = <<>>
  BY DEF PlantedInv, Detected
<1>2. PICK s : CycleOfRing(s, r)
  BY <1>1, RingIsCycle
<1>3. Len(s) \in MinCycleLen..MaxCycleLen
  BY <1>2 DEF WithinLimits, CycleOfRing
<1>4. s \in DP!SimpleCycles
  BY <1>1, <1>2, <1>3, RingIsSimpleCycle
<1>5. DP!CyclesFoundOnce
  BY <1>1, CandidatesExplained, SameAssumption, DP!CyclesFromInv
<1>6. DP!Cardinality({c \in DP!Found("circular_flow") : c.members \in DP!Rotations(s)}) = 1
  BY <1>1, <1>4, <1>5 DEF DP!CyclesFoundOnce
<1>7. CandidatesOf(r) = {c \in DP!Found("circular_flow") : c.members \in DP!Rotations(s)}
  BY <1>1, <1>2, CandidatesOfCycle
<1> QED BY <1>6, <1>7, SameSets

\* The k-th power of a factor is a share of one, and no less than 44 hundredths.
EvenPower(factor, k) ==
  /\ factor ^ k \in Nat /\ 100 ^ k \in Nat \ {0}
  /\ factor ^ k <= 100 ^ k /\ 44 * 100 ^ k <= 100 * factor ^ k

\* Checked power by power: the provers know no law of exponents.
LEMMA FactorPowers == \A factor \in 85..98, k \in 0..5 : EvenPower(factor, k)
<1> DEFINE F == {85, 86, 87, 88, 89, 90, 91, 92, 93, 94, 95, 96, 97, 98}
           K == {0, 1, 2, 3, 4, 5}
<1>1. /\ EvenPower(85, 0) /\ EvenPower(85, 1) /\ EvenPower(85, 2) /\ EvenPower(85, 3) /\ EvenPower(85, 4) /\ EvenPower(85, 5)
      /\ EvenPower(86, 0) /\ EvenPower(86, 1) /\ EvenPower(86, 2) /\ EvenPower(86, 3) /\ EvenPower(86, 4) /\ EvenPower(86, 5)
      /\ EvenPower(87, 0) /\ EvenPower(87, 1) /\ EvenPower(87, 2) /\ EvenPower(87, 3) /\ EvenPower(87, 4) /\ EvenPower(87, 5)
      /\ EvenPower(88, 0) /\ EvenPower(88, 1) /\ EvenPower(88, 2) /\ EvenPower(88, 3) /\ EvenPower(88, 4) /\ EvenPower(88, 5)
      /\ EvenPower(89, 0) /\ EvenPower(89, 1) /\ EvenPower(89, 2) /\ EvenPower(89, 3) /\ EvenPower(89, 4) /\ EvenPower(89, 5)
      /\ EvenPower(90, 0) /\ EvenPower(90, 1) /\ EvenPower(90, 2) /\ EvenPower(90, 3) /\ EvenPower(90, 4) /\ EvenPower(90, 5)
      /\ EvenPower(91, 0) /\ EvenPower(91, 1) /\ EvenPower(91, 2) /\ EvenPower(91, 3) /\ EvenPower(91, 4) /\ EvenPower(91, 5)
      /\ EvenPower(92, 0) /\ EvenPower(92, 1) /\ EvenPower(92, 2) /\ EvenPower(92, 3) /\ EvenPower(92, 4) /\ EvenPower(92, 5)
      /\ EvenPower(93, 0) /\ EvenPower(93, 1) /\ EvenPower(93, 2) /\ EvenPower(93, 3) /\ EvenPower(93, 4) /\ EvenPower(93, 5)
      /\ EvenPower(94, 0) /\ EvenPower(94, 1) /\ EvenPower(94, 2) /\ EvenPower(94, 3) /\ EvenPower(94, 4) /\ EvenPower(94, 5)
      /\ EvenPower(95, 0) /\ EvenPower(95, 1) /\ EvenPower(95, 2) /\ EvenPower(95, 3) /\ EvenPower(95, 4) /\ EvenPower(95, 5)
      /\ EvenPower(96, 0) /\ EvenPower(96, 1) /\ EvenPower(96, 2) /\ EvenPower(96, 3) /\ EvenPower(96, 4) /\ EvenPower(96, 5)
      /\ EvenPower(97, 0) /\ EvenPower(97, 1) /\ EvenPower(97, 2) /\ EvenPower(97, 3) /\ EvenPower(97, 4) /\ EvenPower(97, 5)
      /\ EvenPower(98, 0) /\ EvenPower(98, 1) /\ EvenPower(98, 2) /\ EvenPower(98, 3) /\ EvenPower(98, 4) /\ EvenPower(98, 5)
  BY DEF EvenPower
<1>2. \A k \in K : /\ EvenPower(85, k) /\ EvenPower(86, k) /\ EvenPower(87, k)
                    /\ EvenPower(88, k) /\ EvenPower(89, k) /\ EvenPower(90, k)
                    /\ EvenPower(91, k) /\ EvenPower(92, k) /\ EvenPower(93, k)
                    /\ EvenPower(94, k) /\ EvenPower(95, k) /\ EvenPower(96, k)
                    /\ EvenPower(97, k) /\ EvenPower(98, k)
  BY <1>1
<1>4. \A factor \in F, k \in K : EvenPower(factor, k)
  BY <1>2
<1>3. 85..98 = F /\ 0..5 = K
  OBVIOUS
<1> HIDE DEF F, K
<1> QED BY <1>3, <1>4

\* No leg of a cycle of six is less than a quarter of the first.
LEMMA LegsAreEven ==
  ASSUME NEW amount \in Nat, amount >= 3, NEW factor \in 85..98, NEW i \in 1..6
  PROVE  LET a == LegAmount(amount, "subtle", factor, i)
         IN  a \in Nat /\ a <= amount /\ amount <= 4 * a
<1> DEFINE p == factor ^ (i - 1)
           q == 100 ^ (i - 1)
           x == amount * p
           y == amount * q
           a == x \div q
<1>1. /\ p \in Nat /\ q \in Nat \ {0}
      /\ p <= q /\ 44 * q <= 100 * p
  <2>1. i - 1 \in 0..5
    OBVIOUS
  <2>2. EvenPower(factor, i - 1)
    BY <2>1, FactorPowers
  <2> QED BY <2>2 DEF EvenPower
<1>2. LegAmount(amount, "subtle", factor, i) = a
  BY DEF LegAmount
<1>3. amount \in Nat
  OBVIOUS
<1> HIDE DEF p, q
<1>4. x \in Nat /\ y \in Nat /\ x <= y /\ 44 * y <= 100 * x
  BY <1>1, <1>3
<1> HIDE DEF x
<1>5. a \in Nat /\ q * a <= x /\ x < q * (a + 1)
  BY <1>1, <1>4
<1> HIDE DEF a
<1>6. a <= amount
  <2> SUFFICES ASSUME a >= amount + 1 PROVE FALSE
    BY <1>3, <1>5
  <2>1. q * (amount + 1) <= q * a
    BY <1>1, <1>3, <1>5
  <2>2. q * (amount + 1) = y + q
    BY <1>1, <1>3
  <2> HIDE DEF y
  <2> QED BY <1>1, <1>4, <1>5, <2>1, <2>2
<1>7. 44 * amount < 100 * (a + 1)
  <2> SUFFICES ASSUME 100 * (a + 1) <= 44 * amount PROVE FALSE
    BY <1>3, <1>5
  <2>1. q * (100 * (a + 1)) <= q * (44 * amount)
    BY <1>1, <1>3, <1>5
  <2>2. q * (100 * (a + 1)) = 100 * (q * (a + 1)) /\ q * (44 * amount) = 44 * y
    BY <1>1, <1>3, <1>5
  <2> DEFINE z == q * (a + 1)
  <2>3. z \in Nat
    BY <1>1, <1>5
  <2> HIDE DEF y, z
  <2> QED BY <1>4, <1>5, <2>1, <2>2, <2>3 DEF z
<1>8. amount <= 4 * a
  BY <1>3, <1>5, <1>7
<1> QED BY <1>2, <1>5, <1>6, <1>8

\* And of nothing there is nothing to share.
LEMMA LegsOfNothing ==
  ASSUME NEW factor \in 85..98, NEW i \in 1..6
  PROVE  LegAmount(0, "subtle", factor, i) = 0
<1> DEFINE p == factor ^ (i - 1)
           q == 100 ^ (i - 1)
<1>1. p \in Nat /\ q \in Nat \ {0}
  <2>1. i - 1 \in 0..5
    OBVIOUS
  <2>2. EvenPower(factor, i - 1)
    BY <2>1, FactorPowers
  <2> QED BY <2>2 DEF EvenPower
<1>2. LegAmount(0, "subtle", factor, i) = (0 * p) \div q
  BY DEF LegAmount
<1> HIDE DEF p, q
<1>3. 0 * p = 0
  BY <1>1
<1> QED BY <1>1, <1>2, <1>3

\* A cycle found with nothing but the ring's own legs has the amounts planted.
LEMMA CircularLegs ==
  ASSUME PlantedInv, stage = "done", MaxCycleLen <= 6,
         NEW r \in DOMAIN rings, rings[r].ring_type = "circular_flow",
         NEW c \in CandidatesOf(r), c.legs \subseteq OwnLegs(r)
  PROVE  /\ IsFiniteSet(c.legs) /\ c.legs # {}
         /\ c.score = DP!FlowScore(c.legs)
         /\ \E amount \in CycleAmounts : \A t \in c.legs : \E i \in 1..6, factor \in 85..98 :
              t.amount \in {amount, LegAmount(amount, "subtle", factor, i)}
<1>1. PlantingInv /\ DP!IsGraph
  BY CandidatesExplained DEF PlantedInv
<1>2. PICK s : CycleOfRing(s, r)
  BY <1>1, RingIsCycle
<1>3. c \in candidates /\ c.method = "circular_flow" /\ c.members \in DP!Rotations(s)
  BY <1>2, CandidatesOfCycle DEF DP!Found
<1>4. DP!GoesRound(c)
  BY <1>3, CandidatesExplained DEF DP!Explained
<1>5. PICK q : /\ DP!IsCycle(q) /\ c.members = DP!Payers(q)
               /\ c.legs = DP!ToSet(q) /\ c.score = DP!FlowScore(c.legs)
  BY <1>4 DEF DP!GoesRound
<1>6. Len(q) \in Nat /\ Len(q) >= 1 /\ Len(q) <= MaxCycleLen /\ Len(c.members) = Len(q) /\ q \in Seq(Stored)
  <2>1. Len(q) \in MinCycleLen..MaxCycleLen /\ q \in Seq(Stored)
    BY <1>5 DEF DP!IsCycle, DP!IsTrail
  <2>2. Len(DP!Payers(q)) = Len(q)
    BY <1>1, <1>5, SameAssumption, DP!WalkFacts
  <2> QED BY <1>5, <2>1, <2>2, PlantedAssumption
<1>7. Len(s) \in Nat /\ Len(s) <= 6
  <2>1. s \in Seq(DOMAIN nodes)
    BY <1>2 DEF CycleOfRing
  <2>2. PICK k \in 1..Len(s) : c.members = DP!Rotation(s, k)
    BY <1>3, <2>1 DEF DP!Rotations
  <2>3. Len(c.members) = Len(s)
    BY <2>1, <2>2, RotationGoesRound
  <2> QED BY <1>6, <2>1, <2>3, PlantedAssumption
<1> PICK amount \in CycleAmounts : \A leg \in LegsOf(r) : \E i \in 1..Len(s), factor \in 85..98 :
      leg.amount \in {amount, LegAmount(amount, "subtle", factor, i)}
  BY <1>2 DEF CycleOfRing
<1>8. ASSUME NEW t \in c.legs
      PROVE  \E i \in 1..6, factor \in 85..98 :
               t.amount \in {amount, LegAmount(amount, "subtle", factor, i)}
  <2>1. PICK leg \in LegsOf(r) : t = StoredLeg(leg)
    BY DEF OwnLegs
  <2>2. PICK i \in 1..Len(s), factor \in 85..98 :
          leg.amount \in {amount, LegAmount(amount, "subtle", factor, i)}
    BY <2>1
  <2>3. t.amount = leg.amount /\ i \in 1..6
    BY <1>7, <2>1 DEF StoredLeg
  <2> QED BY <2>2, <2>3
<1>9. DP!IsFiniteSet(c.legs) /\ c.legs # {}
  <2>1. q[1] \in c.legs
    BY <1>5, <1>6 DEF DP!ToSet
  <2>2. c.legs \subseteq Stored /\ IsFiniteSet(Stored)
    BY <1>1, <1>5, <1>6, SameSets DEF DP!ToSet, DP!IsGraph
  <2>3. IsFiniteSet(c.legs)
    BY <2>2, FS_Subset
  <2> QED BY <2>1, <2>3, SameSets
<1> QED BY <1>5, <1>8, <1>9, SameSets

\* score_floor: such a cycle passes if there is money in it, and only then.
LEMMA CircularScores ==
  ASSUME PlantedInv, stage = "done", MaxCycleLen <= 6,
         \A amount \in CycleAmounts : amount = 0 \/ amount >= 3,
         NEW r \in DOMAIN rings, rings[r].ring_type = "circular_flow",
         NEW c \in CandidatesOf(r), c.legs \subseteq OwnLegs(r)
  PROVE  ReachesAgent(c) <=> \E t \in c.legs : t.amount > 0
<1>1. /\ IsFiniteSet(c.legs) /\ c.legs # {} /\ c.score = DP!FlowScore(c.legs)
  BY CircularLegs
<1> PICK amount \in CycleAmounts : \A t \in c.legs : \E i \in 1..6, factor \in 85..98 :
      t.amount \in {amount, LegAmount(amount, "subtle", factor, i)}
  BY CircularLegs
<1>2. DP!IsFiniteSet(c.legs)
  BY <1>1, SameSets
<1>3. amount \in Nat /\ (amount = 0 \/ amount >= 3)
  BY PlantingAssumption
<1>4. CASE amount = 0
  <2>1. ASSUME NEW t \in c.legs PROVE t.amount = 0
    <3>1. PICK i \in 1..6, factor \in 85..98 :
            t.amount \in {amount, LegAmount(amount, "subtle", factor, i)}
      OBVIOUS
    <3> QED BY <1>4, <3>1, LegsOfNothing
  <2>2. DP!FlowScore(c.legs) = 0
    BY <1>2, <2>1, SameAssumption, DP!NoMoneyNoScore
  <2> QED BY <1>1, <2>1, <2>2 DEF ReachesAgent, Detection!Verdicts!ScoreFloor
<1>5. CASE amount >= 3
  <2>1. ASSUME NEW t \in c.legs
        PROVE  t.amount \in Nat /\ t.amount <= amount /\ amount <= 4 * t.amount
    <3>1. PICK i \in 1..6, factor \in 85..98 :
            t.amount \in {amount, LegAmount(amount, "subtle", factor, i)}
      OBVIOUS
    <3>2. CASE t.amount = amount
      BY <1>3, <3>2
    <3>3. CASE t.amount = LegAmount(amount, "subtle", factor, i)
      BY <1>3, <1>5, <3>3, LegsAreEven
    <3> QED BY <3>1, <3>2, <3>3
  <2>2. amount \in Nat \ {0}
    BY <1>3, <1>5
  <2>3. DP!FlowScore(c.legs) >= 500
    BY <1>1, <1>2, <2>1, <2>2, SameAssumption, DP!EvenCycleScores
  <2>4. \E t \in c.legs : t.amount > 0
    <3>1. PICK t \in c.legs : TRUE
      BY <1>1
    <3> QED BY <1>5, <2>1, <2>2, <3>1
  <2> QED BY <1>1, <2>3, <2>4 DEF ReachesAgent, Detection!Verdicts!ScoreFloor
<1> QED BY <1>3, <1>4, <1>5

--------------------------------------------------------------------------------
(* Device rings.                                                               *)

\* The members no later device ring drew still share the ring's device.
LEMMA MembersKeepDevice ==
  ASSUME PlantingInv, NEW r \in DOMAIN rings, rings[r].ring_type = "shared_device"
  PROVE  /\ rings[r].members \ DrawnLater(r, "shared_device") \subseteq DP!GroupOf(r)
         /\ DP!GroupOf(r) \subseteq rings[r].members
<1>1. DOMAIN rings \subseteq Nat /\ None \notin Nat
  BY PlantingAssumption DEF PlantingInv, Lists
<1>2. \A a \in DOMAIN nodes : DeviceKnown(a)
  BY DeviceByAccount DEF PlantingInv
<1>3. ASSUME NEW a \in rings[r].members, a \notin DrawnLater(r, "shared_device")
      PROVE  a \in DP!GroupOf(r)
  <2>1. a \in DOMAIN nodes /\ r \in DeviceRings(a)
    BY DEF PlantingInv, TypeOK, DeviceRings
  <2>2. nodes[a].device_id \in DeviceRings(a)
    BY <1>2, <2>1 DEF DeviceKnown
  <2>3. r <= nodes[a].device_id
    BY <2>1 DEF PlantingInv, LastDevice
  <2>4. ~(nodes[a].device_id > r)
    BY <1>3, <2>2 DEF DrawnLater, DeviceRings
  <2>5. nodes[a].device_id = r
    BY <1>1, <2>2, <2>3, <2>4 DEF DeviceRings
  <2> QED BY <2>1, <2>5 DEF DP!GroupOf
<1>4. ASSUME NEW a \in DP!GroupOf(r)
      PROVE  a \in rings[r].members
  <2>1. a \in DOMAIN nodes /\ nodes[a].device_id = r
    BY DEF DP!GroupOf
  <2>2. nodes[a].device_id \in DeviceRings(a)
    BY <1>1, <1>2, <2>1 DEF DeviceKnown
  <2> QED BY <2>1, <2>2 DEF DeviceRings
<1> QED BY <1>3, <1>4

\* The candidate of the group that has a ring's device.
DeviceCandidate(r) ==
  DP!Candidate("shared_device", <<r>>, DP!SortedValues([a \in DP!GroupOf(r) |-> a]), {},
               DP!DeviceScore(DP!Cardinality(DP!GroupOf(r))))

\* Two members with the device are enough for it.
LEMMA DeviceFound ==
  ASSUME PlantedInv, Detected, NEW r \in DOMAIN rings, rings[r].ring_type = "shared_device",
         Cardinality(rings[r].members \ DrawnLater(r, "shared_device")) > 1
  PROVE  DeviceCandidate(r) \in CandidatesOf(r)
<1> DEFINE M == rings[r].members \ DrawnLater(r, "shared_device")
           G == DP!GroupOf(r)
<1>1. PlantingInv /\ stage = "done" /\ pending = <<>> /\ DP!DetectionInv
  BY CandidatesExplained DEF PlantedInv, Detected
<1>2. G \subseteq rings[r].members /\ M \subseteq G
  BY <1>1, MembersKeepDevice
<1>3. IsFiniteSet(G) /\ IsFiniteSet(M)
  <2>1. IsFiniteSet(rings[r].members)
    BY <1>1, MembersAreFinite
  <2> HIDE DEF G
  <2> QED BY <1>2, <2>1, FS_Subset
<1> HIDE DEF G, M
<1>4. DP!Cardinality(G) > 1 /\ G # {}
  <2>1. Cardinality(M) <= Cardinality(G) /\ Cardinality(M) \in Nat /\ Cardinality(G) \in Nat
    BY <1>2, <1>3, FS_Subset, FS_CardinalityType
  <2>2. Cardinality(M) > 1
    BY DEF M
  <2>3. Cardinality(G) > 1
    BY <2>1, <2>2
  <2> QED BY <2>3, SameSets, FS_EmptySet
<1>5. r \in DP!SharedDevices
  <2>1. PICK a \in G : TRUE
    BY <1>4
  <2>2. a \in DOMAIN nodes /\ nodes[a].device_id = r
    BY <2>1 DEF G, DP!GroupOf
  <2>3. r # None
    BY <1>1, PlantingAssumption DEF PlantingInv, Lists
  <2> QED BY <1>4, <2>2, <2>3 DEF DP!SharedDevices, G
<1>6. DeviceCandidate(r) \in DP!SharedDeviceCandidates
  BY <1>5 DEF DP!SharedDeviceCandidates, DeviceCandidate
<1>7. DP!Found("shared_device") = DP!SharedDeviceCandidates
  BY <1>1 DEF DP!DetectionInv, DP!NoneMissed, DP!DoneBy, DP!Detectors
<1>8. DeviceCandidate(r) \in candidates
  BY <1>6, <1>7 DEF DP!Found
<1> QED BY <1>8 DEF CandidatesOf, IsOf, DeviceCandidate, DP!Candidate

\* score_floor: no device group is below it.
LEMMA DeviceScores ==
  ASSUME PlantedInv, stage = "done", NEW c \in candidates, c.method = "shared_device"
  PROVE  ReachesAgent(c)
<1>1. DP!GroupsADevice(c) /\ IsFiniteSet(DOMAIN nodes)
  BY CandidatesExplained DEF DP!Explained, PlantedInv, PlantingInv, Finite
<1>2. PICK G \in SUBSET DOMAIN nodes :
        DP!Cardinality(G) > 1 /\ c.score = DP!DeviceScore(DP!Cardinality(G))
  BY <1>1 DEF DP!GroupsADevice
<1>3. Cardinality(G) \in Nat
  BY <1>1, FS_Subset, FS_CardinalityType
<1>4. c.score >= 500
  BY <1>2, <1>3, SameSets DEF DP!DeviceScore
<1> QED BY <1>4 DEF ReachesAgent, Detection!Verdicts!ScoreFloor

--------------------------------------------------------------------------------
(* Payout rings.                                                               *)

\* Two rings have different payout accounts, and none is an account of the data.
LEMMA PayoutAccountsDiffer ==
  ASSUME PlantingInv
  PROVE  /\ \A r, s \in DOMAIN rings : PayoutAccount(r) = PayoutAccount(s) => r = s
         /\ \A r \in DOMAIN rings : PayoutAccount(r) \notin Accounts
<1>1. DOMAIN rings = 1..Len(rings) /\ Len(rings) \in Nat /\ Len(rings) <= Len(Schedule)
  BY DEF PlantingInv, Lists, TypeOK
<1>2. \A a \in Accounts : a \in Nat
  BY PlantingAssumption DEF Accounts
<1> QED BY <1>1, <1>2, ScheduleLength DEF PayoutAccount

\* What is transferred to a payout account is the ring's, as long as no cycle goes
\* through it.
LEMMA TransfersAreOwn ==
  ASSUME PlantingInv, NEW r \in DOMAIN rings, rings[r].ring_type = "shared_payout",
         PayoutAccount(r) \notin DrawnLater(r, "circular_flow")
  PROVE  DP!TransfersTo(PayoutAccount(r)) = OwnLegs(r)
<1> DEFINE P == PayoutAccount(r)
<1>1. PayoutLegs(rings[r].members, r, LegsOf(r))
  BY DEF PlantingInv, LegsAreOfRings, LegsFit
<1>2. ASSUME NEW leg \in LegsOf(r)
      PROVE  StoredLeg(leg) \in DP!TransfersTo(P)
  <2>1. leg \in legs /\ leg.type = "TRANSFER" /\ leg.to = P
    BY <1>1 DEF PayoutLegs, LegsOf
  <2> QED BY <2>1 DEF DP!TransfersTo, Stored, StoredLeg
<1>3. ASSUME NEW t \in DP!TransfersTo(P)
      PROVE  t \in OwnLegs(r)
  <2>1. t \in Stored /\ t.to = P /\ t.type = "TRANSFER"
    BY DEF DP!TransfersTo
  <2>2. t \notin Transactions
    BY <2>1, PayoutAccountsDiffer DEF Accounts
  <2>3. PICK leg \in legs : t = StoredLeg(leg)
    BY <2>1, <2>2 DEF Stored
  <2> DEFINE s == leg.ring_id
             own == LegsOf(s)
             drawn == rings[s].members
  <2>4. s \in DOMAIN rings /\ leg \in own /\ leg.to = P /\ leg.type = "TRANSFER"
    BY <2>1, <2>3 DEF PlantingInv, TypeOK, LegsOf, StoredLeg
  <2>5. LegsFit(rings[s].ring_type, drawn, s, own)
    BY <2>4 DEF PlantingInv, LegsAreOfRings
  <2>6. rings[s].ring_type \in RingTypes
    <3>1. rings \in Seq(RingRecords) /\ s \in DOMAIN rings
      BY <2>4 DEF PlantingInv, Lists
    <3>2. rings[s] \in RingRecords
      BY <3>1
    <3> QED BY <3>2 DEF RingRecords
  <2>7. CASE rings[s].ring_type \in {"shared_device", "legit_cluster"}
    BY <2>4, <2>5, <2>7 DEF LegsFit
  <2>8. CASE rings[s].ring_type = "shared_payout"
    <3>1. PayoutLegs(drawn, s, own)
      BY <2>5, <2>8 DEF LegsFit
    <3>2. leg.to = PayoutAccount(s)
      BY <2>4, <3>1 DEF PayoutLegs
    <3>3. s = r
      BY <2>4, <3>2, PayoutAccountsDiffer
    <3> QED BY <2>3, <2>4, <3>3 DEF OwnLegs
  <2>9. CASE rings[s].ring_type = "circular_flow"
    <3>1. PICK x : CycleOfRing(x, s)
      BY <2>4, <2>9, RingIsCycle
    <3>2. PICK i \in 1..Len(x) : leg.to = x[(i % Len(x)) + 1]
      BY <2>4, <3>1 DEF CycleOfRing
    <3>3. (i % Len(x)) + 1 \in DOMAIN x
      <4>1. Len(x) \in Nat \ {0} /\ i \in 1..Len(x) /\ DOMAIN x = 1..Len(x)
        <5>1. x \in Seq(DOMAIN nodes) /\ i \in 1..Len(x)
          BY <3>1, <3>2 DEF CycleOfRing
        <5> QED BY <5>1
      <4>2. (i % Len(x)) + 1 = IF i = Len(x) THEN 1 ELSE i + 1
        BY <4>1, SameAssumption, DP!NextPlace
      <4> DEFINE n == Len(x)
                 j == (i % n) + 1
      <4>3. n \in Nat \ {0} /\ i \in 1..n /\ j = (IF i = n THEN 1 ELSE i + 1)
        BY <4>1, <4>2
      <4> HIDE DEF n, j
      <4>4. j \in 1..n
        BY <4>3
      <4> QED BY <4>1, <4>4 DEF n, j
    <3>4. P \in rings[s].members
      <4> DEFINE j == (i % Len(x)) + 1
      <4>1. x[j] \in ToSet(x)
        <5> HIDE DEF j
        <5>1. j \in DOMAIN x
          BY <3>3 DEF j
        <5> QED BY <5>1 DEF ToSet
      <4>2. ToSet(x) = rings[s].members
        BY <3>1 DEF CycleOfRing
      <4> QED BY <2>4, <3>2, <4>1, <4>2
    <3>5. r <= s /\ r # s
      BY <2>4, <2>9, <3>4 DEF PlantingInv, PayoutsAreNew
    <3>6. s > r
      BY <2>4, <3>5 DEF PlantingInv, Lists
    <3> QED BY <2>4, <2>9, <3>4, <3>6 DEF DrawnLater
  <2> QED BY <2>6, <2>7, <2>8, <2>9 DEF RingTypes
<1> QED BY <1>2, <1>3 DEF OwnLegs

\* Every member but the account itself pays once, all within sixty steps.
LEMMA OwnPayoutLegs ==
  ASSUME PlantingInv, NEW r \in DOMAIN rings, rings[r].ring_type = "shared_payout"
  PROVE  LET P == PayoutAccount(r)
             payers == rings[r].members \ {P}
         IN  /\ P \in rings[r].members
             /\ IsFiniteSet(OwnLegs(r)) /\ IsFiniteSet(payers)
             /\ Cardinality(OwnLegs(r)) = Cardinality(rings[r].members) - 1
             /\ {t.from : t \in OwnLegs(r)} = payers
             /\ \A t \in OwnLegs(r) : t.to = P /\ t.type = "TRANSFER" /\ t.step \in Nat
             /\ \A t, u \in OwnLegs(r) : t.step - u.step <= 60
<1> DEFINE P == PayoutAccount(r)
           members == rings[r].members
           payers == members \ {P}
           own == OwnLegs(r)
<1>1. PayoutLegs(members, r, LegsOf(r))
  BY DEF PlantingInv, LegsAreOfRings, LegsFit
<1>2. P \in members
  BY <1>1 DEF PayoutLegs
<1>3. \A leg \in LegsOf(r) : leg.step \in Nat
  BY DEF PlantingInv, Finite, LegsOf
<1>4. \A t \in own : \E leg \in LegsOf(r) :
        /\ t = StoredLeg(leg)
        /\ t.from = leg.from /\ t.to = leg.to /\ t.step = leg.step /\ t.type = leg.type
  BY DEF OwnLegs, StoredLeg
<1>5. \A leg \in LegsOf(r) : StoredLeg(leg) \in own /\ StoredLeg(leg).from = leg.from
  BY DEF OwnLegs, StoredLeg
<1> HIDE DEF own
<1>6. \A t \in own : t.to = P /\ t.type = "TRANSFER" /\ t.step \in Nat /\ t.from \in payers
  BY <1>1, <1>3, <1>4 DEF PayoutLegs
<1>7. \A t, u \in own : t.step - u.step <= 60
  BY <1>1, <1>4 DEF PayoutLegs
<1>8. \A t, u \in own : t.from = u.from => t = u
  BY <1>1, <1>4 DEF PayoutLegs
<1>9. \A m \in payers : \E t \in own : t.from = m
  BY <1>1, <1>5 DEF PayoutLegs
<1>10. {t.from : t \in own} = payers
  BY <1>6, <1>9
<1>11. IsFiniteSet(members) /\ IsFiniteSet(payers) /\ Cardinality(payers) = Cardinality(members) - 1
  <2>1. IsFiniteSet(members)
    BY MembersAreFinite
  <2> HIDE DEF members, P
  <2> QED BY <1>2, <2>1, FS_RemoveElement
<1>12. IsFiniteSet(own) /\ Cardinality(own) = Cardinality(payers)
  <2> DEFINE f == [m \in payers |-> CHOOSE t \in own : t.from = m]
  <2>1. \A m \in payers : f[m] \in own /\ f[m].from = m
    BY <1>9
  <2>2. DOMAIN f = payers /\ f \in [payers -> own]
    BY <2>1
  <2> HIDE DEF f, payers
  <2>3. \A t \in own : f[t.from] = t /\ t.from \in payers
    BY <1>6, <1>8, <2>1
  <2>4. \A a, b \in payers : f[a] = f[b] => a = b
    BY <2>1
  <2>5. \A t \in own : \E m \in payers : f[m] = t
    BY <2>3
  <2>6. f \in Bijection(payers, own)
    BY <2>2, <2>4, <2>5 DEF Bijection, Injection, Surjection, IsInjective
  <2> QED BY <1>11, <2>6, FS_Bijection DEF ExistsBijection
<1> HIDE DEF P, members, payers
<1> QED BY <1>2, <1>6, <1>7, <1>10, <1>11, <1>12 DEF P, members, payers, own

\* The candidate of a payout account.
PayoutCandidate(P) ==
  DP!Candidate("shared_payout", <<P>>,
               DP!SortedValues([t \in DP!TransfersTo(P) |-> t.from]), DP!TransfersTo(P),
               DP!PayoutScore(DP!Cardinality(DP!TransfersTo(P)),
                              DP!StepWindow(DP!TransfersTo(P))))

\* A payout account no cycle goes through has its candidate.
LEMMA PayoutFound ==
  ASSUME PlantedInv, Detected, MaxFaninStepWindow >= 60,
         NEW r \in DOMAIN rings, rings[r].ring_type = "shared_payout", WithinLimits(r),
         PayoutAccount(r) \notin DrawnLater(r, "circular_flow")
  PROVE  PayoutCandidate(PayoutAccount(r)) \in CandidatesOf(r)
<1> DEFINE P == PayoutAccount(r)
           own == OwnLegs(r)
           steps == {t.step : t \in own}
<1>1. PlantingInv /\ stage = "done" /\ pending = <<>> /\ DP!DetectionInv
  BY CandidatesExplained DEF PlantedInv, Detected
<1>2. DP!TransfersTo(P) = own
  BY <1>1, TransfersAreOwn
<1>3. /\ P \in rings[r].members /\ IsFiniteSet(own)
      /\ Cardinality(own) = Cardinality(rings[r].members) - 1
      /\ \A t \in own : t.to = P /\ t.type = "TRANSFER" /\ t.step \in Nat
      /\ \A t, u \in own : t.step - u.step <= 60
  BY <1>1, OwnPayoutLegs
<1>4. Cardinality(own) \in MinFaninSize..MaxFaninSize
  BY <1>3 DEF WithinLimits
<1>5. nodes[P].kind = "C"
  <2>1. P \in DOMAIN nodes
    BY <1>1, <1>3 DEF PlantingInv, TypeOK
  <2> QED BY <1>1, <2>1 DEF PlantingInv, PayoutsAreNew
<1>6. own # {} /\ own \subseteq Stored
  <2>1. Cardinality(own) # 0
    BY <1>4, PlantedAssumption
  <2>2. own # {}
    BY <2>1, FS_EmptySet
  <2> QED BY <2>2 DEF OwnLegs, LegsOf, Stored
<1>7. P \in {t.to : t \in Stored}
  BY <1>3, <1>6
<1>8. Max(steps) - Min(steps) <= MaxFaninStepWindow
  <2>1. steps \subseteq Nat /\ steps # {} /\ IsFiniteSet(steps)
    <3> DEFINE f == [t \in own |-> t.step]
               F == {f[t] : t \in own}
    <3>1. DOMAIN f = own /\ f = [t \in own |-> f[t]] /\ F = steps
      OBVIOUS
    <3> HIDE DEF f, own
    <3>2. IsFiniteSet(F)
      BY <1>3, <3>1, ImageIsFinite
    <3> HIDE DEF F
    <3>3. steps \subseteq Nat
      BY <1>3
    <3>4. steps # {}
      BY <1>6
    <3> QED BY <3>1, <3>2, <3>3, <3>4
  <2>2. Max(steps) \in steps /\ Min(steps) \in steps
    <3>1. steps \in SUBSET Int
      BY <2>1
    <3> HIDE DEF steps
    <3> QED BY <2>1, <3>1, EndsOfFiniteSet
  <2>3. \A x, y \in steps : x - y <= 60 /\ x \in Nat /\ y \in Nat
    BY <1>3
  <2> HIDE DEF steps
  <2>4. Max(steps) - Min(steps) <= 60 /\ Max(steps) \in Nat /\ Min(steps) \in Nat
    BY <2>2, <2>3
  <2> QED BY <2>4, PlantedAssumption
<1>9. DP!StepWindow(DP!TransfersTo(P)) <= MaxFaninStepWindow
  <2>1. DP!StepWindow(own) = DP!Max(steps) - DP!Min(steps)
    BY DEF DP!StepWindow
  <2> QED BY <1>2, <1>8, <2>1, SameSets
<1>10. P \in DP!FanIns
  BY <1>2, <1>4, <1>5, <1>6, <1>7, <1>9, SameSets DEF DP!FanIns
<1>11. PayoutCandidate(P) \in DP!SharedPayoutCandidates
  BY <1>10 DEF DP!SharedPayoutCandidates, PayoutCandidate
<1>12. DP!Found("shared_payout") = DP!SharedPayoutCandidates
  BY <1>1 DEF DP!DetectionInv, DP!NoneMissed, DP!DoneBy, DP!Detectors
<1>13. PayoutCandidate(P) \in candidates
  BY <1>11, <1>12 DEF DP!Found
<1> QED BY <1>13 DEF CandidatesOf, IsOf, PayoutCandidate, DP!Candidate

\* score_floor: no fan-in of the sizes and window asked for is below it.
LEMMA PayoutScores ==
  ASSUME PlantedInv, stage = "done",
         MinFaninSize >= 3, MaxFaninSize <= 8, MaxFaninStepWindow <= 60,
         NEW c \in candidates, c.method = "shared_payout"
  PROVE  ReachesAgent(c)
<1> DEFINE n == DP!Cardinality(c.legs)
           w == DP!StepWindow(c.legs)
<1>1. n \in MinFaninSize..MaxFaninSize /\ w \in 0..MaxFaninStepWindow /\ c.score = DP!PayoutScore(n, w)
  BY CandidatesExplained DEF DP!Explained, DP!FansIn
<1> HIDE DEF n, w
<1>2. w \in 0..60
  BY <1>1, PlantedAssumption
<1>3. DP!PayoutScore(n, w) >= 500
  BY <1>1, <1>2, SameAssumption, DP!FanInReachesAgent
<1> QED BY <1>1, <1>3 DEF ReachesAgent, Detection!Verdicts!ScoreFloor

--------------------------------------------------------------------------------
(* What is planted is found.                                                   *)

\* The sizes, the window and the length of cycles that detection has by default or
\* anything narrower, and no money or some that can be shared in quarters.
DetectionLimits ==
  /\ MinFaninSize >= 3 /\ MaxFaninSize <= 8 /\ MaxFaninStepWindow = 60
  /\ MaxCycleLen <= 6
  /\ \A amount \in CycleAmounts : amount = 0 \/ amount >= 3

\* Type by type of ring.
LEMMA FoundFromInv ==
  ASSUME DetectionLimits
  PROVE  PlantedInv => PlantedRingsFound
<1> SUFFICES ASSUME PlantedInv, Detected, NEW r \in DOMAIN rings
             PROVE  LET type == rings[r].ring_type
                    IN  /\ WithinLimits(r) /\ type = "circular_flow" =>
                             Cardinality(CandidatesOf(r)) = 1
                        /\ WithinLimits(r) /\ type = "shared_payout" /\ CandidatesOf(r) = {} =>
                             PayoutAccount(r) \in DrawnLater(r, "circular_flow")
                        /\ type = "shared_device" /\ CandidatesOf(r) = {} =>
                             Cardinality(rings[r].members \ DrawnLater(r, "shared_device")) <= 1
                        /\ \A c \in CandidatesOf(r) :
                             /\ type # "circular_flow" => ReachesAgent(c)
                             /\ type = "circular_flow" /\ c.legs \subseteq OwnLegs(r) =>
                                  (ReachesAgent(c) <=> \E t \in c.legs : t.amount > 0)
  BY DEF PlantedRingsFound
<1> DEFINE type == rings[r].ring_type
           kept == rings[r].members \ DrawnLater(r, "shared_device")
<1>1. stage = "done"
  BY DEF Detected
<1>2. ASSUME WithinLimits(r), type = "circular_flow"
      PROVE  Cardinality(CandidatesOf(r)) = 1
  BY <1>2, CircularFoundOnce
<1>3. ASSUME WithinLimits(r), type = "shared_payout", CandidatesOf(r) = {}
      PROVE  PayoutAccount(r) \in DrawnLater(r, "circular_flow")
  <2>1. MaxFaninStepWindow >= 60
    BY DEF DetectionLimits
  <2> QED BY <1>3, <2>1, PayoutFound
<1>4. ASSUME type = "shared_device", CandidatesOf(r) = {}
      PROVE  Cardinality(kept) <= 1
  <2>1. ~(Cardinality(kept) > 1)
    BY <1>4, DeviceFound
  <2>2. Cardinality(kept) \in Nat
    <3>1. IsFiniteSet(rings[r].members)
      BY MembersAreFinite DEF PlantedInv
    <3>2. IsFiniteSet(kept)
      BY <3>1, FS_Subset
    <3> HIDE DEF kept
    <3> QED BY <3>2, FS_CardinalityType
  <2> HIDE DEF kept
  <2> QED BY <2>1, <2>2
<1>5. ASSUME NEW c \in CandidatesOf(r), type # "circular_flow"
      PROVE  ReachesAgent(c)
  <2>1. c \in candidates /\ c.method = type
    BY DEF CandidatesOf, IsOf
  <2>2. c.method \in {"shared_device", "shared_payout"}
    BY <1>1, <1>5, <2>1, CandidatesExplained DEF DP!DetectionInv, DP!DoneBy
  <2>3. CASE c.method = "shared_device"
    BY <1>1, <2>1, <2>3, DeviceScores
  <2>4. CASE c.method = "shared_payout"
    <3>1. MinFaninSize >= 3 /\ MaxFaninSize <= 8 /\ MaxFaninStepWindow <= 60
      BY DEF DetectionLimits
    <3> QED BY <1>1, <2>1, <2>4, <3>1, PayoutScores
  <2> QED BY <2>2, <2>3, <2>4
<1>6. ASSUME NEW c \in CandidatesOf(r), type = "circular_flow", c.legs \subseteq OwnLegs(r)
      PROVE  ReachesAgent(c) <=> \E t \in c.legs : t.amount > 0
  <2>1. MaxCycleLen <= 6 /\ \A amount \in CycleAmounts : amount = 0 \/ amount >= 3
    BY DEF DetectionLimits
  <2> QED BY <1>1, <1>6, <2>1, CircularScores
<1> QED BY <1>2, <1>3, <1>4, <1>5, <1>6

\* plant_rings and detect_candidates: whatever is drawn and however the rings overlap,
\* what was planted is found unless its accounts were used again, and passes the
\* input guardrail unless it is a cycle of no money.
THEOREM WhatIsPlantedIsFound ==
  ASSUME DetectionLimits
  PROVE  PlantedSpec => []PlantedRingsFound
<1>1. PlantedInv => PlantedRingsFound
  BY FoundFromInv
<1> QED BY <1>1, PlantedInvariant, PTL

--------------------------------------------------------------------------------
(* A ring of its own is scored as it was planted.                              *)

\* Sorting keeps the values.
LEMMA SortedElements ==
  ASSUME NEW key, IsFiniteSet(DOMAIN key), \A x \in DOMAIN key : key[x] \in Int
  PROVE  LET s == DP!SortedValues(key)
         IN  /\ s \in Seq(Int) /\ Len(s) = Cardinality(DOMAIN key)
             /\ ToSet(s) = {key[x] : x \in DOMAIN key}
<1> DEFINE s == DP!SortedValues(key)
           V == {key[x] : x \in DOMAIN key}
           n == DP!Cardinality(DOMAIN key)
<1>1. DP!IsFiniteSet(DOMAIN key)
  BY SameSets
<1>2. /\ n \in Nat /\ DOMAIN s = 1..n /\ s \in Seq(V) /\ Len(s) = n
      /\ \A x \in DOMAIN key : \E i \in 1..n : s[i] = key[x]
  BY <1>1, SameAssumption, DP!SortedValuesFacts
<1>3. V \subseteq Int
  OBVIOUS
<1> HIDE DEF s
<1>4. \A i \in 1..n : s[i] \in V
  <2> HIDE DEF V, n
  <2> QED BY <1>2
<1>5. ToSet(s) = V
  BY <1>2, <1>4 DEF ToSet
<1>6. s \in Seq(Int)
  <2>1. s = [i \in 1..n |-> s[i]]
    BY <1>2
  <2> HIDE DEF V, n
  <2>2. \A i \in 1..n : s[i] \in Int
    BY <1>3, <1>4
  <2> QED BY <1>2, <2>1, <2>2
<1>7. n = Cardinality(DOMAIN key)
  BY SameSets
<1> QED BY <1>2, <1>5, <1>6, <1>7 DEF s

\* A ring with no account in another.
Isolated(r) == \A s \in DOMAIN rings \ {r} : rings[s].members \cap rings[r].members = {}

\* Its accounts have its tag.
LEMMA IsolatedTags ==
  ASSUME PlantingInv, NEW r \in DOMAIN rings, Isolated(r), NEW a \in rings[r].members
  PROVE  HasTag(a) /\ RingTag(a) = r
<1>1. RingsOf(a) = {r}
  BY DEF RingsOf, Isolated
<1>2. Len(rings) \in Nat /\ DOMAIN rings = 1..Len(rings)
  BY DEF PlantingInv, Lists
<1>3. RingTag(a) = Max(RingsOf(a)) /\ RingsOf(a) \in SUBSET (1..Len(rings))
  BY <1>2 DEF RingTag, RingsOf
<1>4. Max(RingsOf(a)) \in RingsOf(a)
  BY <1>1, <1>2, <1>3, MaxOfNumbers
<1> QED BY <1>1, <1>3, <1>4 DEF HasTag

\* The sequence of a candidate's members is that of the ring's, but for the account
\* they pay.
ListsRing(c, r) ==
  /\ c.members \in Seq(Int) /\ Len(c.members) >= 1
  /\ ToSet(c.members) = rings[r].members \ {PayoutAccount(r)}

\* A candidate of all of them has the ring's label and is found.
LEMMA IsolatedLabel ==
  ASSUME PlantingInv, NEW r \in DOMAIN rings, Isolated(r),
         NEW c \in CandidatesOf(r), ListsRing(c, r)
  PROVE  Label(c) = r /\ SpotCheckFinds(r)
<1> DEFINE n == Len(c.members)
           hits == {i \in 1..n : HasTag(c.members[i])}
<1>1. n \in Nat /\ 1 \in 1..n /\ DOMAIN c.members = 1..n
  BY DEF ListsRing
<1>2. \A i \in 1..n : c.members[i] \in ToSet(c.members)
  BY <1>1 DEF ToSet
<1>3. \A i \in 1..n : HasTag(c.members[i]) /\ RingTag(c.members[i]) = r
  BY <1>2, IsolatedTags DEF ListsRing
<1>4. hits = 1..n
  BY <1>3
<1>5. SelectInSeq(c.members, HasTag) = IF hits # {} THEN Min(hits) ELSE 0
  BY DEF SelectInSeq
<1>6. Min(hits) \in hits
  <2>1. hits \in SUBSET Nat /\ hits # {}
    BY <1>1, <1>4
  <2> HIDE DEF hits
  <2> QED BY <2>1, MinOfNumbers
<1>7. Label(c) = r
  <2> DEFINE hit == SelectInSeq(c.members, HasTag)
  <2>1. hit \in 1..n /\ hit # 0
    <3>1. hits # {} /\ Min(hits) \in 1..n
      BY <1>1, <1>4, <1>6
    <3> HIDE DEF hits, n
    <3> QED BY <1>1, <1>5, <3>1
  <2>2. Label(c) = IF hit = 0 THEN None ELSE RingTag(c.members[hit])
    BY DEF Label
  <2> HIDE DEF hit
  <2> QED BY <1>3, <2>1, <2>2
<1>8. SpotCheckFinds(r)
  <2>1. c \in candidates /\ c.method = rings[r].ring_type
    BY DEF CandidatesOf, IsOf
  <2>2. c.members[1] \in ToSet(c.members) /\ HasTag(c.members[1]) /\ RingTag(c.members[1]) = r
    BY <1>1, <1>2, <1>3
  <2> QED BY <2>1, <2>2 DEF SpotCheckFinds
<1> QED BY <1>7, <1>8

\* Every ring of its own has such a candidate.
LEMMA IsolatedFound ==
  ASSUME PlantedInv, Detected, MaxFaninStepWindow >= 60,
         NEW r \in DOMAIN rings, WithinLimits(r), Isolated(r)
  PROVE  \E c \in CandidatesOf(r) : ListsRing(c, r)
<1> DEFINE members == rings[r].members
           P == PayoutAccount(r)
<1>1. PlantingInv /\ stage = "done" /\ DP!IsGraph
  BY CandidatesExplained DEF PlantedInv, Detected
<1>2. members \subseteq DOMAIN nodes /\ IsFiniteSet(members) /\ Cardinality(members) \in Nat
  BY <1>1, MembersAreFinite
<1>3. DOMAIN nodes \subseteq Int
  BY <1>1 DEF DP!IsGraph
<1>4. \A type : DrawnLater(r, type) \cap members = {}
  <2>1. \A s \in DOMAIN rings : s > r => s # r
    BY <1>1 DEF PlantingInv, Lists
  <2> QED BY <2>1 DEF DrawnLater, Isolated
<1>5. rings[r].ring_type # "shared_payout" => P \notin members
  BY <1>1, <1>2 DEF PlantingInv, PayoutsAreNew
<1>6. CASE rings[r].ring_type = "shared_device"
  <2> DEFINE G == DP!GroupOf(r)
             key == [a \in G |-> a]
             c == DeviceCandidate(r)
  <2>1. members \ DrawnLater(r, "shared_device") = members
    BY <1>4
  <2>2. Cardinality(members) > 1
    BY <1>6 DEF WithinLimits
  <2>3. c \in CandidatesOf(r)
    BY <1>6, <2>1, <2>2, DeviceFound
  <2>4. G = members
    BY <1>1, <1>6, <2>1, MembersKeepDevice
  <2>5. c.members = DP!SortedValues(key)
    BY DEF DeviceCandidate, DP!Candidate
  <2>6. DOMAIN key = members /\ (\A x \in DOMAIN key : key[x] \in Int) /\ {key[x] : x \in DOMAIN key} = members
    BY <1>2, <1>3, <2>4
  <2> HIDE DEF key
  <2>7. c.members \in Seq(Int) /\ Len(c.members) = Cardinality(members) /\ ToSet(c.members) = members
    BY ZenonT(60), <1>2, <2>5, <2>6, SortedElements
  <2>8. Len(c.members) >= 1
    BY <1>2, <2>2, <2>7
  <2> QED BY <1>5, <1>6, <2>3, <2>7, <2>8 DEF ListsRing
<1>7. CASE rings[r].ring_type = "shared_payout"
  <2> DEFINE own == OwnLegs(r)
             key == [t \in own |-> t.from]
             c == PayoutCandidate(P)
  <2>1. /\ P \in members /\ IsFiniteSet(own)
        /\ Cardinality(own) = Cardinality(members) - 1
        /\ {t.from : t \in own} = members \ {P}
    BY <1>1, <1>7, OwnPayoutLegs
  <2>2. P \notin DrawnLater(r, "circular_flow")
    BY <1>4, <2>1
  <2>3. c \in CandidatesOf(r)
    BY <1>7, <2>2, PayoutFound
  <2>4. DP!TransfersTo(P) = own
    BY <1>1, <1>7, <2>2, TransfersAreOwn
  <2>5. c.members = DP!SortedValues(key)
    BY <2>4 DEF PayoutCandidate, DP!Candidate
  <2>6. DOMAIN key = own /\ {key[x] : x \in DOMAIN key} = members \ {P}
    BY <2>1
  <2>7. \A x \in DOMAIN key : key[x] \in Int
    BY <1>2, <1>3, <2>6
  <2> HIDE DEF key, own
  <2>8. c.members \in Seq(Int) /\ Len(c.members) = Cardinality(own) /\ ToSet(c.members) = members \ {P}
    BY <2>1, <2>5, <2>6, <2>7, SortedElements
  <2>9. Len(c.members) >= 1
    <3>1. Cardinality(members) - 1 \in MinFaninSize..MaxFaninSize
      BY <1>7 DEF WithinLimits
    <3> QED BY <1>2, <2>1, <2>8, <3>1, PlantedAssumption
  <2> QED BY <2>3, <2>8, <2>9 DEF ListsRing
<1>8. CASE rings[r].ring_type = "circular_flow"
  <2>1. Cardinality(CandidatesOf(r)) = 1
    BY <1>8, CircularFoundOnce
  <2>2. PICK c \in CandidatesOf(r) : TRUE
    <3>1. Cardinality({}) = 0
      BY FS_EmptySet
    <3> QED BY <2>1, <3>1
  <2>3. c \in candidates /\ c.method = "circular_flow" /\ GoesRound(c.members, r)
    BY <1>8 DEF CandidatesOf, IsOf
  <2>4. ToSet(c.members) = members
    BY <2>3 DEF GoesRound
  <2>5. DP!GoesRound(c)
    BY <1>1, <2>3, CandidatesExplained DEF DP!Explained
  <2>6. PICK q : DP!IsCycle(q) /\ c.members = DP!Payers(q)
    BY <2>5 DEF DP!GoesRound
  <2>7. c.members \in Seq(DOMAIN nodes) /\ Len(c.members) >= 1
    BY <1>1, <2>6, SameAssumption, DP!WalkFacts
  <2>8. c.members \in Seq(Int)
    BY <1>3, <2>7
  <2> QED BY <1>5, <1>8, <2>4, <2>7, <2>8 DEF ListsRing
<1>9. rings[r].ring_type \in RingTypes /\ rings[r].ring_type # "legit_cluster"
  <2>1. rings[r].ring_type # "legit_cluster"
    BY DEF WithinLimits
  <2>2. rings \in Seq(RingRecords)
    BY <1>1 DEF PlantingInv, Lists
  <2>3. rings[r] \in RingRecords
    BY <2>2
  <2> QED BY <2>1, <2>3 DEF RingRecords
<1> QED BY <1>6, <1>7, <1>8, <1>9 DEF RingTypes

\* label_candidate and evaluate_against_ground_truth: whatever is drawn, a ring that
\* shares no account with another is found whole, with its own label.
THEOREM IsolatedRingsAreScored ==
  ASSUME MaxFaninStepWindow >= 60
  PROVE  PlantedSpec => []IsolatedRingsScored
<1>1. PlantedInv => IsolatedRingsScored
  <2> SUFFICES ASSUME PlantedInv, Detected, NEW r \in DOMAIN rings, WithinLimits(r), Isolated(r)
               PROVE  /\ SpotCheckFinds(r)
                      /\ \E c \in CandidatesOf(r) :
                           Label(c) = r /\ ToSet(c.members) = rings[r].members \ {PayoutAccount(r)}
    BY DEF IsolatedRingsScored, Isolated
  <2>1. PICK c \in CandidatesOf(r) : ListsRing(c, r)
    BY IsolatedFound
  <2>2. Label(c) = r /\ SpotCheckFinds(r)
    BY <2>1, IsolatedLabel DEF PlantedInv
  <2> QED BY <2>1, <2>2 DEF ListsRing
<1> QED BY <1>1, PlantedInvariant, PTL

--------------------------------------------------------------------------------
(* A found ring is only missed where its accounts were drawn again.            *)

\* An account no later ring drew has the ring's tag.
LEMMA LastTag ==
  ASSUME PlantingInv, NEW r \in DOMAIN rings, NEW a \in rings[r].members, a \notin DrawnAgain(r)
  PROVE  HasTag(a) /\ RingTag(a) = r
<1>1. Len(rings) \in Nat /\ DOMAIN rings = 1..Len(rings)
  BY DEF PlantingInv, Lists
<1>2. RingTag(a) = Max(RingsOf(a)) /\ RingsOf(a) \in SUBSET (1..Len(rings)) /\ r \in RingsOf(a)
  BY <1>1 DEF RingTag, RingsOf
<1>3. Max(RingsOf(a)) \in RingsOf(a) /\ r <= Max(RingsOf(a))
  BY <1>1, <1>2, MaxOfNumbers
<1>4. \A s \in RingsOf(a) : ~(s > r)
  BY DEF DrawnAgain, RingsOf
<1>5. Max(RingsOf(a)) = r
  BY <1>1, <1>2, <1>3, <1>4
<1> QED BY <1>2, <1>5 DEF HasTag

\* A candidate of the ring's device, or of its payout account, is the one detection
\* makes of it.
LEMMA CandidateIsItsGroup ==
  ASSUME PlantedInv, Detected, NEW r \in DOMAIN rings, NEW c \in CandidatesOf(r)
  PROVE  /\ rings[r].ring_type = "shared_device" => c = DeviceCandidate(r)
         /\ rings[r].ring_type = "shared_payout" => c = PayoutCandidate(PayoutAccount(r))
<1>1. DP!DetectionInv /\ pending = <<>>
  BY CandidatesExplained DEF PlantedInv, Detected
<1>2. /\ DP!Found("shared_device") = DP!SharedDeviceCandidates
      /\ DP!Found("shared_payout") = DP!SharedPayoutCandidates
  BY <1>1 DEF DP!DetectionInv, DP!NoneMissed, DP!DoneBy, DP!Detectors
<1>3. ASSUME rings[r].ring_type = "shared_device" PROVE c = DeviceCandidate(r)
  <2>1. c \in candidates /\ c.method = "shared_device" /\ c.key = <<r>>
    BY <1>3 DEF CandidatesOf, IsOf
  <2>2. PICK d \in DP!SharedDevices :
          c = DP!Candidate("shared_device", <<d>>, DP!SortedValues([a \in DP!GroupOf(d) |-> a]), {},
                           DP!DeviceScore(DP!Cardinality(DP!GroupOf(d))))
    BY <1>2, <2>1 DEF DP!Found, DP!SharedDeviceCandidates
  <2>3. c.key = <<d>>
    BY <2>2 DEF DP!Candidate
  <2>4. d = r
    BY <2>1, <2>3
  <2> QED BY <2>2, <2>4 DEF DeviceCandidate
<1>4. ASSUME rings[r].ring_type = "shared_payout" PROVE c = PayoutCandidate(PayoutAccount(r))
  <2>1. c \in candidates /\ c.method = "shared_payout" /\ c.key = <<PayoutAccount(r)>>
    BY <1>4 DEF CandidatesOf, IsOf
  <2>2. PICK d \in DP!FanIns : c = PayoutCandidate(d)
    BY <1>2, <2>1 DEF DP!Found, DP!SharedPayoutCandidates, PayoutCandidate
  <2>3. c.key = <<d>>
    BY <2>2 DEF PayoutCandidate, DP!Candidate
  <2>4. d = PayoutAccount(r)
    BY <2>1, <2>3
  <2> QED BY <2>2, <2>4
<1> QED BY <1>3, <1>4

\* It has every member no later ring drew.
LEMMA KeepsItsOwn ==
  ASSUME PlantedInv, Detected, NEW r \in DOMAIN rings, WithinLimits(r), NEW c \in CandidatesOf(r),
         NEW a \in rings[r].members \ {PayoutAccount(r)}, a \notin DrawnAgain(r)
  PROVE  a \in ToSet(c.members)
<1> DEFINE P == PayoutAccount(r)
           G == DP!GroupOf(r)
           T == DP!TransfersTo(P)
<1>1. PlantingInv /\ DP!IsGraph
  BY CandidatesExplained DEF PlantedInv, Detected
<1>2. DOMAIN nodes \subseteq Int /\ IsFiniteSet(rings[r].members) /\ IsFiniteSet(Stored)
  BY <1>1, MembersAreFinite, SameSets DEF DP!IsGraph
<1>3. CASE rings[r].ring_type = "shared_device"
  <2> DEFINE key == [x \in G |-> x]
  <2>1. a \notin DrawnLater(r, "shared_device")
    BY DEF DrawnAgain, DrawnLater
  <2>2. a \in G /\ G \subseteq rings[r].members /\ G \subseteq DOMAIN nodes
    BY <1>1, <1>3, <2>1, MembersKeepDevice DEF DP!GroupOf
  <2>3. IsFiniteSet(G)
    <3> HIDE DEF G
    <3> QED BY <1>2, <2>2, FS_Subset
  <2>4. c.members = DP!SortedValues(key)
    BY <1>3, CandidateIsItsGroup DEF DeviceCandidate, DP!Candidate
  <2> HIDE DEF G
  <2>5. DOMAIN key = G /\ \A x \in DOMAIN key : key[x] \in Int
    BY <1>2, <2>2
  <2>6. {key[x] : x \in DOMAIN key} = G
    BY <2>5
  <2> HIDE DEF key
  <2>7. ToSet(c.members) = G
    BY <2>3, <2>4, <2>5, <2>6, SortedElements
  <2> QED BY <2>2, <2>7
<1>4. CASE rings[r].ring_type = "shared_payout"
  <2> DEFINE own == OwnLegs(r)
             key == [t \in T |-> t.from]
  <2>1. {t.from : t \in own} = rings[r].members \ {P} /\ \A t \in own : t.to = P /\ t.type = "TRANSFER"
    BY <1>1, <1>4, OwnPayoutLegs
  <2>2. PICK t \in own : t.from = a
    BY <2>1
  <2>3. t \in T /\ T \subseteq Stored
    BY <2>1, <2>2 DEF DP!TransfersTo, OwnLegs, LegsOf, Stored
  <2>4. IsFiniteSet(T) /\ \A u \in T : u.from \in Int
    <3>1. \A u \in Stored : u.from \in DOMAIN nodes
      BY <1>1 DEF DP!IsGraph
    <3> HIDE DEF T
    <3> QED BY <1>2, <2>3, <3>1, FS_Subset
  <2>5. c.members = DP!SortedValues(key)
    BY <1>4, CandidateIsItsGroup DEF PayoutCandidate, DP!Candidate
  <2> HIDE DEF T
  <2>6. DOMAIN key = T /\ (\A x \in DOMAIN key : key[x] \in Int) /\ key[t] = a
    BY <2>2, <2>3, <2>4
  <2> HIDE DEF key
  <2>7. ToSet(c.members) = {key[x] : x \in DOMAIN key}
    BY <2>4, <2>5, <2>6, SortedElements
  <2> QED BY <2>3, <2>6, <2>7
<1>5. CASE rings[r].ring_type = "circular_flow"
  <2>1. GoesRound(c.members, r)
    BY <1>5 DEF CandidatesOf, IsOf
  <2> QED BY <2>1 DEF GoesRound
<1>6. rings[r].ring_type \in RingTypes /\ rings[r].ring_type # "legit_cluster"
  <2>1. rings[r].ring_type # "legit_cluster"
    BY DEF WithinLimits
  <2>2. rings \in Seq(RingRecords)
    BY <1>1 DEF PlantingInv, Lists
  <2>3. rings[r] \in RingRecords
    BY <2>2
  <2> QED BY <2>1, <2>3 DEF RingRecords
<1> QED BY <1>3, <1>4, <1>5, <1>6 DEF RingTypes

\* evaluate_against_ground_truth: whatever is drawn and however the rings overlap, a
\* found ring that reads MISSED has had all its accounts drawn again.
THEOREM MissedOnlyWhenRedrawn == PlantedSpec => []MissedOnlyIfRedrawn
<1>1. PlantedInv => MissedOnlyIfRedrawn
  <2> SUFFICES ASSUME PlantedInv, Detected, NEW r \in DOMAIN rings, WithinLimits(r),
                      NEW c \in CandidatesOf(r),
                      NEW a \in rings[r].members \ {PayoutAccount(r)}, a \notin DrawnAgain(r)
               PROVE  SpotCheckFinds(r)
    BY DEF MissedOnlyIfRedrawn
  <2>1. a \in ToSet(c.members)
    BY KeepsItsOwn
  <2>2. HasTag(a) /\ RingTag(a) = r
    BY LastTag DEF PlantedInv
  <2>3. c \in candidates /\ c.method = rings[r].ring_type
    BY DEF CandidatesOf, IsOf
  <2> QED BY <2>1, <2>2, <2>3 DEF SpotCheckFinds
<1> QED BY <1>1, PlantedInvariant, PTL

================================================================================
