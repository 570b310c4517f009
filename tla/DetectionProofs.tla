---------------------------- MODULE DetectionProofs ----------------------------
(* What detect_candidates promises, for every graph and all limits.           *)
EXTENDS Detection, OrderLemmas

--------------------------------------------------------------------------------
(* Rotations.                                                                  *)

\* The remainder that leads from a place of a round to the next.
LEMMA NextPlace ==
  ASSUME NEW n \in Nat \ {0}, NEW i \in 1..n
  PROVE  (i % n) + 1 = IF i = n THEN 1 ELSE i + 1
<1>1. CASE i = n
  <2>1. n % n = 0
    OBVIOUS
  <2> QED BY <1>1, <2>1
<1>2. CASE i < n
  <2>1. i % n = i
    BY <1>2
  <2> QED BY <1>2, <2>1
<1> QED BY <1>1, <1>2

\* A rotation has the elements it was made of, k - 1 places earlier.
LEMMA RotationFacts ==
  ASSUME NEW T, NEW s \in Seq(T), NEW k \in 1..Len(s)
  PROVE  LET n == Len(s)
             r == Rotation(s, k)
         IN  /\ r \in Seq(T) /\ Len(r) = n
             /\ \A i \in 1..n : r[i] = IF i <= n - k + 1 THEN s[i + k - 1] ELSE s[i + k - 1 - n]
<1> DEFINE n == Len(s)
           a == SubSeq(s, k, n)
           b == SubSeq(s, 1, k - 1)
<1>1. n \in Nat /\ k \in 1..n
  OBVIOUS
<1>2. a \in Seq(T) /\ Len(a) = n - k + 1 /\ \A i \in 1..(n - k + 1) : a[i] = s[i + k - 1]
  BY <1>1
<1>3. b \in Seq(T) /\ Len(b) = k - 1 /\ \A i \in 1..(k - 1) : b[i] = s[i]
  BY <1>1
<1>4. Rotation(s, k) = a \o b
  BY DEF Rotation
<1> HIDE DEF a, b
<1>5. a \o b \in Seq(T) /\ Len(a \o b) = n
  BY <1>1, <1>2, <1>3
<1>6. ASSUME NEW i \in 1..n
      PROVE  (a \o b)[i] = IF i <= n - k + 1 THEN s[i + k - 1] ELSE s[i + k - 1 - n]
  <2> HIDE DEF n
  <2>1. CASE i <= n - k + 1
    <3>1. (a \o b)[i] = a[i]
      BY <1>1, <1>2, <1>3, <2>1
    <3> QED BY <1>1, <1>2, <2>1, <3>1
  <2>2. CASE i > n - k + 1
    <3>1. (a \o b)[i] = b[i - (n - k + 1)]
      BY <1>1, <1>2, <1>3, <2>2
    <3>2. i - (n - k + 1) \in 1..(k - 1) /\ i - (n - k + 1) = i + k - 1 - n
      BY <1>1, <2>2
    <3>3. (a \o b)[i] = s[i + k - 1 - n]
      BY <1>3, <3>1, <3>2
    <3> QED BY <1>1, <2>2, <3>3
  <2>3. i <= n - k + 1 \/ i > n - k + 1
    BY <1>1
  <2> QED BY <2>1, <2>2, <2>3
<1> QED BY <1>4, <1>5, <1>6

\* A rotation has the same elements, each as often as before.
LEMMA RotationKeepsElements ==
  ASSUME NEW T, NEW s \in Seq(T), NEW k \in 1..Len(s)
  PROVE  /\ ToSet(Rotation(s, k)) = ToSet(s)
         /\ IsInjective(s) => IsInjective(Rotation(s, k))
<1> DEFINE n == Len(s)
           r == Rotation(s, k)
           at(i) == IF i <= n - k + 1 THEN i + k - 1 ELSE i + k - 1 - n
<1>1. n \in Nat /\ k \in 1..n /\ DOMAIN s = 1..n
  OBVIOUS
<1>2. Len(r) = n /\ r \in Seq(T) /\ \A i \in 1..n : r[i] = s[at(i)]
  BY RotationFacts
<1>3. DOMAIN r = 1..n
  BY <1>2
<1>4. \A i \in 1..n : at(i) \in 1..n
  BY <1>1
<1>5. \A j \in 1..n : \E i \in 1..n : at(i) = j
  <2> TAKE j \in 1..n
  <2> HIDE DEF n
  <2>1. CASE j >= k
    <3>1. j - k + 1 \in 1..n /\ at(j - k + 1) = j
      BY <1>1, <2>1
    <3> QED BY <3>1
  <2>2. CASE j < k
    <3>1. j - k + 1 + n \in 1..n /\ at(j - k + 1 + n) = j
      BY <1>1, <2>2
    <3> QED BY <3>1
  <2>3. j >= k \/ j < k
    BY <1>1
  <2> QED BY <2>1, <2>2, <2>3
<1>6. \A i, j \in 1..n : at(i) = at(j) => i = j
  <2> HIDE DEF n
  <2> QED BY <1>1
<1> HIDE DEF at, r, n
<1>7. ToSet(r) = ToSet(s)
  <2>1. ToSet(r) = {r[i] : i \in 1..n} /\ ToSet(s) = {s[i] : i \in 1..n}
    BY <1>1, <1>3 DEF ToSet
  <2>2. \A i \in 1..n : r[i] \in {s[j] : j \in 1..n}
    BY <1>2, <1>4
  <2>3. \A j \in 1..n : s[j] \in {r[i] : i \in 1..n}
    BY <1>2, <1>5
  <2> QED BY <2>1, <2>2, <2>3
<1>8. IsInjective(s) => IsInjective(r)
  BY <1>1, <1>2, <1>3, <1>4, <1>6 DEF IsInjective
<1> QED BY <1>7, <1>8 DEF r

--------------------------------------------------------------------------------
(* Closed trails, and what a walk that goes round them finds.                  *)

\* The accounts a path passes, in its order.
Payers(p) == [i \in DOMAIN p |-> p[i].from]

\* Transactions that follow one another, none taken twice.
IsTrail(p) ==
  /\ p \in Seq(tx) /\ Len(p) >= 1
  /\ IsInjective(p)
  /\ \A i \in 1..(Len(p) - 1) : p[i].to = p[i + 1].from

IsCycle(p) ==
  /\ IsTrail(p)
  /\ Len(p) \in MinCycleLen..MaxCycleLen
  /\ p[Len(p)].to = p[1].from

\* A cycle may be walked from any of its accounts.
LEMMA CycleFromAnyAccount ==
  ASSUME NEW p, IsCycle(p), NEW k \in 1..Len(p)
  PROVE  /\ IsCycle(Rotation(p, k))
         /\ ToSet(Rotation(p, k)) = ToSet(p)
         /\ Payers(Rotation(p, k)) = Rotation(Payers(p), k)
<1> DEFINE n == Len(p)
           r == Rotation(p, k)
           A == {p[i].from : i \in 1..n}
<1>1. p \in Seq(tx) /\ n \in Nat /\ n >= 1 /\ k \in 1..n /\ DOMAIN p = 1..n
  BY DEF IsCycle, IsTrail
<1>2. /\ Len(r) = n /\ r \in Seq(tx) /\ DOMAIN r = 1..n
      /\ \A i \in 1..n : r[i] = IF i <= n - k + 1 THEN p[i + k - 1] ELSE p[i + k - 1 - n]
  BY <1>1, RotationFacts
<1>3. ToSet(r) = ToSet(p) /\ IsInjective(r)
  BY <1>1, RotationKeepsElements DEF IsCycle, IsTrail
<1>4. p[n].to = p[1].from /\ \A i \in 1..(n - 1) : p[i].to = p[i + 1].from
  BY DEF IsCycle, IsTrail
<1>5. n \in MinCycleLen..MaxCycleLen
  BY DEF IsCycle
<1> HIDE DEF n, r
<1>6. ASSUME NEW i \in 1..(n - 1)
      PROVE  r[i].to = r[i + 1].from
  <2>1. i \in 1..n /\ i + 1 \in 1..n
    BY <1>1
  <2>2. CASE i + 1 <= n - k + 1
    <3>1. r[i] = p[i + k - 1] /\ r[i + 1] = p[(i + k - 1) + 1]
      BY <1>1, <1>2, <2>1, <2>2
    <3>2. i + k - 1 \in 1..(n - 1)
      BY <1>1, <2>2
    <3> QED BY <1>4, <3>1, <3>2
  <2>3. CASE i = n - k + 1
    <3>1. r[i] = p[n]
      <4>1. i <= n - k + 1 /\ i + k - 1 = n
        BY <1>1, <2>3
      <4> QED BY <1>2, <2>1, <4>1
    <3>2. r[i + 1] = p[1]
      <4>1. ~(i + 1 <= n - k + 1) /\ (i + 1) + k - 1 - n = 1
        BY <1>1, <2>3
      <4> QED BY <1>2, <2>1, <4>1
    <3> QED BY <1>4, <3>1, <3>2
  <2>4. CASE i > n - k + 1
    <3>1. r[i] = p[i + k - 1 - n] /\ r[i + 1] = p[(i + k - 1 - n) + 1]
      BY <1>1, <1>2, <2>1, <2>4
    <3>2. i + k - 1 - n \in 1..(n - 1)
      BY <1>1, <2>4
    <3> QED BY <1>4, <3>1, <3>2
  <2> QED BY <1>1, <2>2, <2>3, <2>4
<1>7. r[n].to = r[1].from
  <2>1. r[1] = p[k]
    BY <1>1, <1>2
  <2>2. CASE k = 1
    <3>1. r[n] = p[n]
      BY <1>1, <1>2, <2>2
    <3> QED BY <1>4, <2>1, <2>2, <3>1
  <2>3. CASE k # 1
    <3>1. r[n] = p[k - 1]
      BY <1>1, <1>2, <2>3
    <3>2. k - 1 \in 1..(n - 1) /\ (k - 1) + 1 = k
      BY <1>1, <2>3
    <3> QED BY <1>4, <2>1, <3>1, <3>2
  <2> QED BY <2>2, <2>3
<1>8. IsCycle(r)
  BY <1>1, <1>2, <1>3, <1>5, <1>6, <1>7 DEF IsCycle, IsTrail
<1>9. Payers(r) = Rotation(Payers(p), k)
  <2>1. Payers(p) \in Seq(A) /\ Len(Payers(p)) = n
    BY <1>1 DEF Payers
  <2> HIDE DEF A
  <2> DEFINE s == Rotation(Payers(p), k)
  <2>2. /\ Len(s) = n /\ s \in Seq(A)
        /\ \A i \in 1..n :
             s[i] = IF i <= n - k + 1 THEN Payers(p)[i + k - 1] ELSE Payers(p)[i + k - 1 - n]
    BY <1>1, <2>1, RotationFacts
  <2> HIDE DEF s
  <2>3. ASSUME NEW i \in 1..n
        PROVE  Payers(r)[i] = s[i]
    <3>1. Payers(r)[i] = r[i].from
      BY <1>2 DEF Payers
    <3>2. CASE i <= n - k + 1
      <4>1. i + k - 1 \in 1..n
        BY <1>1, <3>2
      <4> QED BY <1>1, <1>2, <2>2, <3>1, <3>2, <4>1 DEF Payers
    <3>3. CASE i > n - k + 1
      <4>1. i + k - 1 - n \in 1..n
        BY <1>1, <3>3
      <4>2. ~(i <= n - k + 1)
        BY <1>1, <3>3
      <4> QED BY <1>1, <1>2, <2>2, <3>1, <4>1, <4>2 DEF Payers
    <3>4. i <= n - k + 1 \/ i > n - k + 1
      BY <1>1
    <3> QED BY <3>2, <3>3, <3>4
  <2>4. Payers(r) = [i \in 1..n |-> Payers(r)[i]]
    BY <1>2 DEF Payers
  <2>5. s = [i \in 1..n |-> s[i]]
    BY <2>2
  <2>6. Payers(r) = s
    BY <2>3, <2>4, <2>5
  <2> QED BY <2>6 DEF s
<1> QED BY <1>3, <1>8, <1>9 DEF r

\* A trail goes on with a transaction it has not taken.
LEMMA TrailGoesOn ==
  ASSUME NEW q, IsTrail(q), NEW t \in tx, t.from = Last(q).to, t \notin ToSet(q)
  PROVE  IsTrail(Append(q, t)) /\ Len(Append(q, t)) = Len(q) + 1
<1> DEFINE n == Len(q)
           p == Append(q, t)
<1>1. q \in Seq(tx) /\ n \in Nat /\ n >= 1 /\ DOMAIN q = 1..n
  BY DEF IsTrail
<1>2. p \in Seq(tx) /\ Len(p) = n + 1 /\ DOMAIN p = 1..(n + 1)
  BY <1>1
<1>3. p[n + 1] = t /\ \A i \in 1..n : p[i] = q[i]
  BY <1>1
<1> HIDE DEF p, n
<1>4. \A i \in 1..n : q[i] # t
  BY <1>1 DEF ToSet
<1>5. IsInjective(p)
  <2> SUFFICES ASSUME NEW i \in 1..(n + 1), NEW j \in 1..(n + 1), p[i] = p[j]
               PROVE  i = j
    BY <1>2 DEF IsInjective
  <2>1. CASE i \in 1..n /\ j \in 1..n
    BY <1>1, <1>3, <2>1 DEF IsTrail, IsInjective
  <2>2. CASE i \in 1..n /\ j = n + 1
    BY <1>3, <1>4, <2>2
  <2>3. CASE i = n + 1 /\ j \in 1..n
    BY <1>3, <1>4, <2>3
  <2>4. CASE i = n + 1 /\ j = n + 1
    BY <2>4
  <2>5. (i \in 1..n \/ i = n + 1) /\ (j \in 1..n \/ j = n + 1)
    BY <1>1
  <2> QED BY <2>1, <2>2, <2>3, <2>4, <2>5
<1>6. \A i \in 1..n : p[i].to = p[i + 1].from
  <2> TAKE i \in 1..n
  <2>1. CASE i = n
    BY <1>1, <1>3, <2>1 DEF Last, n
  <2>2. CASE i # n
    <3>1. i \in 1..(n - 1) /\ i + 1 \in 1..n
      BY <1>1, <2>2
    <3> QED BY <1>3, <3>1 DEF IsTrail, n
  <2> QED BY <2>1, <2>2
<1>7. IsTrail(p)
  BY <1>1, <1>2, <1>5, <1>6 DEF IsTrail
<1> QED BY <1>2, <1>7 DEF p, n

\* A trail of more than one transaction is a shorter trail that goes on.
LEMMA TrailWentOn ==
  ASSUME NEW p, IsTrail(p), Len(p) >= 2
  PROVE  LET n == Len(p)
             q == SubSeq(p, 1, n - 1)
         IN  /\ IsTrail(q) /\ Len(q) = n - 1
             /\ p = Append(q, p[n]) /\ p[n] \in tx
             /\ p[n].from = Last(q).to /\ p[n] \notin ToSet(q)
<1> DEFINE n == Len(p)
           q == SubSeq(p, 1, n - 1)
<1>1. p \in Seq(tx) /\ n \in Nat /\ n >= 2 /\ DOMAIN p = 1..n
  BY DEF IsTrail
<1>2. /\ q \in Seq(tx) /\ Len(q) = n - 1 /\ DOMAIN q = 1..(n - 1)
      /\ \A i \in 1..(n - 1) : q[i] = p[i]
  BY <1>1
<1>3. p[n] \in tx
  BY <1>1
<1> HIDE DEF q, n
<1>4. p = Append(q, p[n])
  <2>1. Append(q, p[n]) \in Seq(tx) /\ Len(Append(q, p[n])) = n
    BY <1>1, <1>2, <1>3
  <2>2. \A i \in 1..n : Append(q, p[n])[i] = p[i]
    BY <1>1, <1>2, <1>3
  <2> DEFINE r == Append(q, p[n])
  <2>6. r \in Seq(tx) /\ Len(r) = n /\ Len(p) = n
    BY <2>1 DEF n
  <2> HIDE DEF r
  <2>7. r = [i \in 1..n |-> r[i]]
    BY <2>6
  <2>8. p = [i \in 1..n |-> p[i]]
    BY <1>1, <2>6
  <2>3. r = [i \in 1..n |-> r[i]] /\ p = [i \in 1..n |-> p[i]]
    BY <2>7, <2>8
  <2>4. \A i \in 1..n : r[i] = p[i]
    BY <2>2 DEF r
  <2>5. r = p
    BY <2>3, <2>4
  <2> QED BY <2>5 DEF r
<1>5. \A i, j \in 1..n : p[i] = p[j] => i = j
  BY <1>1 DEF IsTrail, IsInjective
<1>6. p[n] \notin ToSet(q)
  <2>1. \A i \in 1..(n - 1) : q[i] # p[n]
    BY <1>1, <1>2, <1>5
  <2> QED BY <1>2, <2>1 DEF ToSet
<1>7. \A i \in 1..(n - 1) : p[i].to = p[i + 1].from
  BY DEF IsTrail, n
<1>8. p[n].from = Last(q).to
  <2>1. q[n - 1] = p[n - 1] /\ n - 1 \in 1..(n - 1) /\ (n - 1) + 1 = n
    BY <1>1, <1>2
  <2> QED BY <1>2, <1>7, <2>1 DEF Last
<1>9. IsTrail(q)
  <2>1. IsInjective(q)
    BY <1>1, <1>2, <1>5 DEF IsInjective
  <2>2. \A i \in 1..(Len(q) - 1) : q[i].to = q[i + 1].from
    <3> TAKE i \in 1..(Len(q) - 1)
    <3>1. i \in 1..(n - 1) /\ i + 1 \in 1..(n - 1)
      BY <1>1, <1>2
    <3> QED BY <1>2, <1>7, <3>1
  <2> QED BY <1>1, <1>2, <2>1, <2>2 DEF IsTrail
<1> QED BY <1>2, <1>3, <1>4, <1>6, <1>8, <1>9 DEF q, n

\* Trails has all of them, up to its length.
LEMMA TrailsAreTrails ==
  ASSUME \A t \in tx : {t.from, t.to} \subseteq DOMAIN accounts
  PROVE  \A p : p \in Trails <=> IsTrail(p) /\ Len(p) <= MaxCycleLen
<1> DEFINE n == MaxCycleLen
           out == [a \in DOMAIN accounts |-> {t \in tx : t.from = a}]
           Further(p) == {Append(p, t) : t \in out[Last(p).to] \ ToSet(p)}
           Longer(shorter, m) == shorter \cup UNION {Further(p) : p \in {q \in shorter : Len(q) = m - 1}}
           First == {<<t>> : t \in tx}
           Unfolds(m, f) == f = [i \in 1..m |-> IF i = 1 THEN First ELSE Longer(f[i - 1], i)]
           Good(m) == \E f : Unfolds(m, f)
           whole == CHOOSE f : Unfolds(n, f)
<1>1. n \in Nat \ {0}
  BY DetectionAssumption
<1>2. Trails = whole[n]
  BY DEF Trails
<1> HIDE DEF First, Longer, n
<1>3. Good(0)
  <2> DEFINE e == [i \in 1..0 |-> IF i = 1 THEN First ELSE Longer({}, i)]
  <2>1. Unfolds(0, e)
    OBVIOUS
  <2> HIDE DEF Unfolds
  <2> QED BY <2>1
<1>4. ASSUME NEW m \in Nat, Good(m)
      PROVE  Good(m + 1)
  <2>1. PICK g : Unfolds(m, g)
    BY <1>4
  <2>2. \A i \in 1..m : g[i] = IF i = 1 THEN First ELSE Longer(g[i - 1], i)
    BY <2>1
  <2> DEFINE h == [i \in 1..(m + 1) |->
                     IF i <= m THEN g[i] ELSE IF i = 1 THEN First ELSE Longer(g[m], i)]
  <2>3. \A i \in 1..(m + 1) : h[i] = IF i = 1 THEN First ELSE Longer(h[i - 1], i)
    <3> TAKE i \in 1..(m + 1)
    <3>1. CASE i <= m
      BY <2>2, <3>1
    <3>2. CASE i = m + 1
      BY <3>2
    <3> QED BY <3>1, <3>2
  <2>4. Unfolds(m + 1, h)
    BY <2>3
  <2> HIDE DEF Unfolds, h
  <2> QED BY <2>4
<1>5. Good(n)
  <2> DEFINE S == {m \in Nat : Good(m)}
  <2> HIDE DEF Good
  <2>1. 0 \in S /\ \A m \in Nat : m \in S => m + 1 \in S
    BY <1>3, <1>4
  <2> HIDE DEF S
  <2>2. Nat \subseteq S
    BY <2>1, NumbersByInduction
  <2> QED BY <1>1, <2>2 DEF S
<1>6. Unfolds(n, whole)
  <2> HIDE DEF Unfolds
  <2> QED BY <1>5
<1>7. \A i \in 1..n : whole[i] = IF i = 1 THEN First ELSE Longer(whole[i - 1], i)
  <2> HIDE DEF whole
  <2> QED BY <1>6
<1> HIDE DEF whole
<1> DEFINE All(S, m) == \A p : p \in S <=> IsTrail(p) /\ Len(p) <= m
<1>8. All(First, 1)
  <2>1. ASSUME NEW t \in tx
        PROVE  IsTrail(<<t>>) /\ Len(<<t>>) <= 1
    BY DEF IsTrail, IsInjective
  <2>2. ASSUME NEW p, IsTrail(p), Len(p) <= 1
        PROVE  p \in First
    <3>1. p \in Seq(tx) /\ Len(p) \in Nat /\ Len(p) >= 1
      BY <2>2 DEF IsTrail
    <3>2. Len(p) <= 1
      BY <2>2
    <3>3. Len(p) = 1
      <4>1. \A k \in Nat : k >= 1 /\ k <= 1 => k = 1
        OBVIOUS
      <4>2. Len(p) \in Nat
        BY <3>1
      <4> QED BY <3>1, <3>2, <4>1, <4>2
    <3>4. p[1] \in tx
      BY <3>1, <3>3
    <3>5. p = <<p[1]>>
      BY <3>1, <3>3
    <3> QED BY <3>4, <3>5 DEF First
  <2>3. \A p \in First : IsTrail(p) /\ Len(p) <= 1
    BY <2>1 DEF First
  <2> QED BY <2>2, <2>3
<1>9. ASSUME NEW m \in Nat \ {0}, NEW S, All(S, m)
      PROVE  All(Longer(S, m + 1), m + 1)
  <2>1. ASSUME NEW p \in S
        PROVE  IsTrail(p) /\ Len(p) <= m + 1
    <3>1. IsTrail(p) /\ Len(p) <= m
      BY <1>9
    <3>2. Len(p) \in Nat
      BY <3>1 DEF IsTrail
    <3> QED BY <3>1, <3>2
  <2>2. ASSUME NEW q \in S, Len(q) = m, NEW t \in out[Last(q).to] \ ToSet(q)
        PROVE  IsTrail(Append(q, t)) /\ Len(Append(q, t)) <= m + 1
    <3>1. IsTrail(q)
      BY <1>9
    <3>2. Last(q) \in tx
      BY <3>1 DEF IsTrail, Last
    <3>3. t \in tx /\ t.from = Last(q).to /\ t \notin ToSet(q)
      BY <3>2
    <3>4. IsTrail(Append(q, t)) /\ Len(Append(q, t)) = Len(q) + 1
      BY <3>1, <3>3, TrailGoesOn
    <3> QED BY <2>2, <3>4
  <2>3. ASSUME NEW p, IsTrail(p), Len(p) <= m + 1
        PROVE  p \in Longer(S, m + 1)
    <3>1. Len(p) \in Nat
      BY <2>3 DEF IsTrail
    <3>2. CASE Len(p) <= m
      BY <1>9, <2>3, <3>2 DEF Longer
    <3>3. CASE Len(p) = m + 1
      <4> DEFINE q == SubSeq(p, 1, Len(p) - 1)
                 t == p[Len(p)]
      <4>1. /\ IsTrail(q) /\ Len(q) = m
            /\ p = Append(q, t) /\ t \in tx
            /\ t.from = Last(q).to /\ t \notin ToSet(q)
        BY <2>3, <3>3, TrailWentOn
      <4> HIDE DEF q, t
      <4>2. q \in S
        BY <1>9, <4>1
      <4>3. t \in out[Last(q).to]
        BY <4>1
      <4>4. p \in Further(q)
        BY <4>1, <4>3
      <4>5. q \in {r \in S : Len(r) = (m + 1) - 1}
        BY <4>1, <4>2
      <4> HIDE DEF Further, out
      <4> QED BY <4>4, <4>5 DEF Longer
    <3> QED BY <2>3, <3>1, <3>2, <3>3
  <2>4. ASSUME NEW p \in Longer(S, m + 1)
        PROVE  IsTrail(p) /\ Len(p) <= m + 1
    <3>1. CASE p \in S
      BY <2>1, <3>1
    <3>2. CASE p \notin S
      <4>1. PICK q \in {r \in S : Len(r) = (m + 1) - 1} : p \in Further(q)
        BY <3>2 DEF Longer
      <4>2. q \in S /\ Len(q) = m
        BY <4>1
      <4>3. PICK t \in out[Last(q).to] \ ToSet(q) : p = Append(q, t)
        BY <4>1
      <4> HIDE DEF out
      <4> QED BY <2>2, <4>2, <4>3
    <3> QED BY <3>1, <3>2
  <2> QED BY <2>3, <2>4
<1> DEFINE Q == {m \in Nat : m + 1 <= n => All(whole[m + 1], m + 1)}
<1> HIDE DEF All
<1>10. 0 \in Q
  BY <1>1, <1>7, <1>8
<1>11. ASSUME NEW m \in Nat, m \in Q
       PROVE  m + 1 \in Q
  <2> SUFFICES ASSUME m + 2 <= n
               PROVE  All(whole[m + 2], m + 2)
    BY <1>1
  <2>1. All(whole[m + 1], m + 1)
    BY <1>1, <1>11
  <2>2. whole[m + 2] = Longer(whole[m + 1], m + 2)
    <3>1. m + 2 \in 1..n /\ m + 2 # 1 /\ (m + 2) - 1 = m + 1
      BY <1>1
    <3> QED BY <1>7, <3>1
  <2>3. m + 1 \in Nat \ {0} /\ (m + 1) + 1 = m + 2
    OBVIOUS
  <2>4. All(Longer(whole[m + 1], (m + 1) + 1), (m + 1) + 1)
    BY <1>9, <2>1, <2>3
  <2> QED BY <2>2, <2>3, <2>4
<1>12. Nat \subseteq Q
  <2> HIDE DEF Q
  <2> QED BY <1>10, <1>11, NumbersByInduction
<1>13. All(whole[n], n)
  <2>1. n - 1 \in Nat /\ (n - 1) + 1 = n
    BY <1>1
  <2>2. n - 1 \in Q
    <3> HIDE DEF Q
    <3> QED BY <1>12, <2>1
  <2> QED BY <1>1, <2>1, <2>2
<1> QED BY <1>2, <1>13 DEF All, n

\* What OneOfEach takes is one element of each set of a finite choice.
LEMMA OneOfEachPicks ==
  ASSUME NEW choices, IsFiniteSet(DOMAIN choices), NEW found \in OneOfEach(choices)
  PROVE  \E pick : /\ \A k \in DOMAIN choices : pick[k] \in choices[k]
                   /\ found = {pick[k] : k \in DOMAIN choices}
<1> DEFINE S == DOMAIN choices
           n == Cardinality(S)
           x(s) == CHOOSE k \in s : TRUE
           With(k, sets) == {f \cup {c} : f \in sets, c \in choices[k]}
           Upto(m) == {s \in SUBSET S : Cardinality(s) <= m}
           Unfolds(D, g) == g = [s \in D |-> IF s = {} THEN {{}} ELSE With(x(s), g[s \ {x(s)}])]
           Good(m) == \E g : Unfolds(Upto(m), g)
           whole == CHOOSE g : Unfolds(SUBSET S, g)
           Picked(s, f) == \E pick : /\ \A k \in s : pick[k] \in choices[k]
                                     /\ f = {pick[k] : k \in s}
<1>0. \A k, sets : \A e \in With(k, sets) : \E g \in sets, c \in choices[k] : e = g \cup {c}
  OBVIOUS
<1>1. found \in whole[S]
  BY DEF OneOfEach, FoldSet, MapThenFoldSet
<1>2. n \in Nat /\ \A s \in SUBSET S : IsFiniteSet(s) /\ Cardinality(s) \in 0..n
  <2>1. n \in Nat
    BY FS_CardinalityType
  <2> SUFFICES ASSUME NEW s \in SUBSET S PROVE IsFiniteSet(s) /\ Cardinality(s) \in 0..n
    BY <2>1
  <2>2. IsFiniteSet(s) /\ Cardinality(s) <= n
    BY FS_Subset
  <2>3. Cardinality(s) \in Nat
    BY <2>2, FS_CardinalityType
  <2> HIDE DEF n
  <2> QED BY <2>1, <2>2, <2>3
<1> HIDE DEF With, n
<1>3. ASSUME NEW s \in SUBSET S, s # {}
      PROVE  /\ x(s) \in s /\ s \ {x(s)} \in SUBSET S
             /\ Cardinality(s \ {x(s)}) = Cardinality(s) - 1
  <2>1. x(s) \in s
    BY <1>3
  <2> HIDE DEF x
  <2>2. Cardinality(s \ {x(s)}) = Cardinality(s) - 1
    BY <1>2, <2>1, FS_RemoveElement
  <2> QED BY <2>1, <2>2
<1>4. \A s \in SUBSET S : s # {} => Cardinality(s) # 0
  BY <1>2, FS_EmptySet
<1> HIDE DEF x
<1>5. Good(0)
  <2> DEFINE e == [s \in Upto(0) |-> {{}}]
  <2>1. ASSUME NEW s \in Upto(0) PROVE s = {}
    BY <1>2, <1>4
  <2> HIDE DEF Upto
  <2>2. Unfolds(Upto(0), e)
    BY <2>1
  <2> HIDE DEF Unfolds, e
  <2> QED BY <2>2
<1>6. ASSUME NEW m \in Nat, Good(m)
      PROVE  Good(m + 1)
  <2>1. PICK g : Unfolds(Upto(m), g)
    BY <1>6
  <2>2. \A s \in Upto(m) : g[s] = IF s = {} THEN {{}} ELSE With(x(s), g[s \ {x(s)}])
    <3> HIDE DEF Upto
    <3> QED BY <2>1
  <2> DEFINE h == [s \in Upto(m + 1) |->
                     IF s = {} THEN {{}} ELSE With(x(s), g[s \ {x(s)}])]
  <2>3. ASSUME NEW s \in Upto(m + 1), s # {}
        PROVE  s \ {x(s)} \in Upto(m) /\ s \ {x(s)} \in Upto(m + 1)
    <3>1. s \in SUBSET S /\ Cardinality(s) \in Nat /\ Cardinality(s) <= m + 1
      BY <1>2
    <3>2. s \ {x(s)} \in SUBSET S /\ Cardinality(s \ {x(s)}) = Cardinality(s) - 1
      BY <1>3, <2>3, <3>1
    <3>3. Cardinality(s \ {x(s)}) <= m /\ Cardinality(s \ {x(s)}) <= m + 1
      BY <3>1, <3>2
    <3> QED BY <3>2, <3>3
  <2> HIDE DEF Upto
  <2>4. ASSUME NEW s \in Upto(m + 1), s # {}
        PROVE  h[s \ {x(s)}] = g[s \ {x(s)}]
    BY <2>2, <2>3, <2>4
  <2>5. \A s \in Upto(m + 1) : h[s] = IF s = {} THEN {{}} ELSE With(x(s), h[s \ {x(s)}])
    <3> SUFFICES ASSUME NEW s \in Upto(m + 1)
                 PROVE  h[s] = IF s = {} THEN {{}} ELSE With(x(s), h[s \ {x(s)}])
      OBVIOUS
    <3>1. h[s] = IF s = {} THEN {{}} ELSE With(x(s), g[s \ {x(s)}])
      OBVIOUS
    <3> HIDE DEF h
    <3>2. CASE s = {}
      BY <3>1, <3>2
    <3>3. CASE s # {}
      BY <3>1, <3>3, <2>4
    <3> QED BY <3>2, <3>3
  <2>6. h = [s \in Upto(m + 1) |-> h[s]]
    OBVIOUS
  <2> HIDE DEF h
  <2>7. Unfolds(Upto(m + 1), h)
    BY <2>5, <2>6
  <2> HIDE DEF Unfolds
  <2> QED BY <2>7
<1>7. Good(n)
  <2> DEFINE N == {m \in Nat : Good(m)}
  <2> HIDE DEF Good
  <2>1. 0 \in N /\ \A m \in Nat : m \in N => m + 1 \in N
    BY <1>5, <1>6
  <2> HIDE DEF N
  <2>2. Nat \subseteq N
    BY <2>1, NumbersByInduction
  <2> QED BY <1>2, <2>2 DEF N
<1>8. Unfolds(SUBSET S, whole)
  <2>1. Upto(n) = SUBSET S
    BY <1>2
  <2> HIDE DEF Unfolds, Upto
  <2> QED BY <1>7, <2>1
<1>9. \A s \in SUBSET S :
        whole[s] = IF s = {} THEN {{}} ELSE With(x(s), whole[s \ {x(s)}])
  <2> HIDE DEF whole
  <2> QED BY <1>8
<1> HIDE DEF whole
<1>10. \A f \in whole[{}] : Picked({}, f)
  BY <1>9
<1>11. ASSUME NEW s \in SUBSET S, s # {}, NEW f \in whole[s],
              \A g \in whole[s \ {x(s)}] : Picked(s \ {x(s)}, g)
       PROVE  Picked(s, f)
  <2> DEFINE y == x(s)
  <2>1. y \in s
    BY <1>3, <1>11
  <2>6. f \in With(y, whole[s \ {y}])
    BY <1>9, <1>11
  <2>2. PICK g \in whole[s \ {y}], c \in choices[y] : f = g \cup {c}
    <3> HIDE DEF y
    <3> HIDE DEF With
    <3> QED BY ONLY <1>0, <2>6
  <2> HIDE DEF y
  <2>3. PICK pick : /\ \A k \in s \ {y} : pick[k] \in choices[k]
                    /\ g = {pick[k] : k \in s \ {y}}
    BY <1>11, <2>2 DEF y
  <2> DEFINE more == [k \in s |-> IF k = y THEN c ELSE pick[k]]
  <2>4. \A k \in s : more[k] \in choices[k]
    BY <2>2, <2>3
  <2>5. f = {more[k] : k \in s}
    <3>1. more[y] = c /\ \A k \in s \ {y} : more[k] = pick[k]
      BY <2>1
    <3> HIDE DEF more
    <3>2. \A k \in s : more[k] \in f
      BY <2>2, <2>3, <3>1
    <3>3. \A d \in f : \E k \in s : d = more[k]
      BY <2>1, <2>2, <2>3, <3>1
    <3> QED BY <3>2, <3>3
  <2> HIDE DEF more
  <2> QED BY <2>4, <2>5
<1> HIDE DEF Picked
<1> DEFINE Q == {m \in Nat : \A s \in Upto(m) : \A f \in whole[s] : Picked(s, f)}
<1>12. 0 \in Q
  <2>1. \A s \in Upto(0) : s = {}
    BY <1>2, <1>4
  <2> HIDE DEF Upto
  <2> QED BY <1>10, <2>1
<1>13. ASSUME NEW m \in Nat, m \in Q
       PROVE  m + 1 \in Q
  <2> SUFFICES ASSUME NEW s \in Upto(m + 1), NEW f \in whole[s]
               PROVE  Picked(s, f)
    OBVIOUS
  <2>1. CASE s = {}
    BY <1>10, <2>1
  <2>2. CASE s # {}
    <3>1. s \in SUBSET S /\ Cardinality(s) \in Nat /\ Cardinality(s) <= m + 1
      BY <1>2
    <3>2. s \ {x(s)} \in SUBSET S /\ Cardinality(s \ {x(s)}) = Cardinality(s) - 1
      BY <1>3, <2>2, <3>1
    <3>3. s \ {x(s)} \in Upto(m)
      BY <3>1, <3>2
    <3>4. \A g \in whole[s \ {x(s)}] : Picked(s \ {x(s)}, g)
      <4> HIDE DEF Upto
      <4> QED BY <1>13, <3>3
    <3> QED BY <1>11, <2>2, <3>1, <3>4
  <2> QED BY <2>1, <2>2
<1>14. Nat \subseteq Q
  <2> HIDE DEF Q
  <2> QED BY <1>12, <1>13, NumbersByInduction
<1>15. S \in Upto(n)
  BY <1>2
<1>16. Picked(S, found)
  <2> HIDE DEF Upto
  <2> QED BY <1>1, <1>2, <1>14, <1>15
<1> QED BY <1>16 DEF Picked

--------------------------------------------------------------------------------
(* Orders of values.                                                           *)

\* The values of a function with a finite domain, in order.
LEMMA SortedValuesFacts ==
  ASSUME NEW key, IsFiniteSet(DOMAIN key), \A x \in DOMAIN key : key[x] \in Int
  PROVE  LET n == Cardinality(DOMAIN key)
             s == SortedValues(key)
         IN  /\ n \in Nat /\ DOMAIN s = 1..n
             /\ s \in Seq({key[x] : x \in DOMAIN key}) /\ Len(s) = n
             /\ \A i \in 1..(n - 1) : s[i] <= s[i + 1]
             /\ \A x \in DOMAIN key : \E i \in 1..n : s[i] = key[x]
<1> DEFINE S == DOMAIN key
           n == Cardinality(S)
           s == SortedValues(key)
           A == {key[x] : x \in S}
           Below(a) == {x \in S : key[x] < a}
           Upto(a) == {x \in S : key[x] <= a}
           At(i, a) == Cardinality(Below(a)) < i /\ i <= Cardinality(Upto(a))
<1>1. n \in Nat
  BY FS_CardinalityType
<1>2. s = [i \in 1..n |-> CHOOSE a \in A : At(i, a)]
  BY DEF SortedValues
<1>3. ASSUME NEW T \in SUBSET S
      PROVE  IsFiniteSet(T) /\ Cardinality(T) \in Nat /\ Cardinality(T) <= n
  <2>1. IsFiniteSet(T) /\ Cardinality(T) <= n
    BY FS_Subset
  <2>2. Cardinality(T) \in Nat
    BY <2>1, FS_CardinalityType
  <2> QED BY <2>1, <2>2
<1>4. ASSUME NEW T \in SUBSET S
      PROVE  IsFiniteSet({key[x] : x \in T}) /\ {key[x] : x \in T} \in SUBSET Int
  <2> DEFINE f == [x \in T |-> key[x]]
             V == {f[x] : x \in T}
  <2>1. DOMAIN f = T /\ f = [x \in T |-> f[x]]
    OBVIOUS
  <2>2. IsFiniteSet(T)
    BY <1>3
  <2>3. V = {key[x] : x \in T}
    OBVIOUS
  <2> HIDE DEF f
  <2>4. IsFiniteSet(V)
    BY <2>1, <2>2, ImageIsFinite
  <2> HIDE DEF V
  <2>5. {key[x] : x \in T} \in SUBSET Int
    OBVIOUS
  <2> QED BY <2>3, <2>4, <2>5
<1>5. IsFiniteSet(A) /\ A \in SUBSET Int /\ \A x \in S : key[x] \in A
  BY <1>4
<1> HIDE DEF A, n
<1>6. ASSUME NEW i \in 1..n
      PROVE  \E a \in A : At(i, a)
  <2> DEFINE V == {a \in A : i <= Cardinality(Upto(a))}
  <2>1. V # {}
    <3>1. A # {}
      <4>1. S # {}
        BY <1>1, FS_EmptySet DEF n
      <4> QED BY <1>5, <4>1
    <3>2. Max(A) \in A /\ \A a \in A : a <= Max(A)
      BY <1>5, <3>1, EndsOfFiniteSet
    <3>3. Upto(Max(A)) = S
      BY <1>5, <3>2
    <3>4. i <= Cardinality(Upto(Max(A)))
      BY <3>3 DEF n
    <3> QED BY <3>2, <3>4
  <2>2. IsFiniteSet(V) /\ V \in SUBSET Int
    <3>1. V \in SUBSET A
      OBVIOUS
    <3> HIDE DEF V
    <3> QED BY <1>5, <3>1, FS_Subset
  <2>3. Min(V) \in V /\ \A y \in V : Min(V) <= y
    <3> HIDE DEF V
    <3> QED BY <2>1, <2>2, EndsOfFiniteSet
  <2> DEFINE a == Min(V)
  <2>4. a \in A /\ a \in Int /\ i <= Cardinality(Upto(a))
    BY <1>5, <2>3
  <2> HIDE DEF a
  <2>5. Cardinality(Below(a)) < i
    <3>1. SUFFICES ASSUME ~(Cardinality(Below(a)) < i) PROVE FALSE
      OBVIOUS
    <3> DEFINE B == Below(a)
               W == {key[x] : x \in B}
    <3>2. B \in SUBSET S
      OBVIOUS
    <3>3. i <= Cardinality(B) /\ Cardinality(B) # 0
      <4> HIDE DEF B
      <4>1. Cardinality(B) \in Nat
        BY <1>3, <3>2
      <4> QED BY <1>1, <3>1, <4>1 DEF B
    <3>4. IsFiniteSet(W) /\ W \in SUBSET Int
      <4> HIDE DEF B
      <4> QED BY <1>4, <3>2
    <3>5. W # {}
      <4>1. B # {}
        <5> HIDE DEF B
        <5> QED BY <3>3, FS_EmptySet
      <4> HIDE DEF B
      <4> QED BY <4>1
    <3>6. Max(W) \in W /\ \A y \in W : y <= Max(W)
      <4> HIDE DEF W
      <4> QED BY <3>4, <3>5, EndsOfFiniteSet
    <3>7. PICK z \in B : Max(W) = key[z]
      BY <3>6
    <3>8. z \in S /\ key[z] < a /\ key[z] \in A
      BY <1>5, <3>7
    <3>9. \A x \in B : key[x] <= key[z]
      BY <3>6, <3>7
    <3>10. Upto(key[z]) = B
      <4>1. \A x \in S : key[x] <= key[z] => key[x] < a
        BY <2>4, <3>8
      <4> HIDE DEF a
      <4> QED BY <3>9, <4>1
    <3>11. key[z] \in V
      <4>1. i <= Cardinality(Upto(key[z]))
        BY <3>3, <3>10
      <4> QED BY <3>8, <4>1
    <3>12. a <= key[z]
      BY <2>3, <3>11 DEF a
    <3>13. key[z] \in Int
      BY <3>8
    <3> QED BY <2>4, <3>8, <3>12, <3>13
  <2> QED BY <2>4, <2>5
<1>7. ASSUME NEW i \in 1..n
      PROVE  s[i] \in A /\ At(i, s[i])
  <2>1. s[i] = CHOOSE a \in A : At(i, a)
    BY <1>2
  <2> HIDE DEF s, At
  <2> QED BY <1>6, <2>1
<1>8. s \in Seq(A) /\ Len(s) = n /\ DOMAIN s = 1..n
  <2>1. s \in [1..n -> A]
    <3>1. \A i \in 1..n : s[i] \in A
      BY <1>7
    <3>2. s = [i \in 1..n |-> s[i]]
      BY <1>2
    <3> HIDE DEF s
    <3> QED BY <3>1, <3>2
  <2> HIDE DEF s
  <2> QED BY <1>1, <2>1
<1>9. ASSUME NEW i \in 1..(n - 1)
      PROVE  s[i] <= s[i + 1]
  <2>1. i \in 1..n /\ i + 1 \in 1..n /\ i \in Nat
    BY <1>1
  <2> DEFINE a == s[i]
             b == s[i + 1]
  <2>2. a \in A /\ At(i, a) /\ b \in A /\ At(i + 1, b)
    BY <1>7, <2>1
  <2>3. a \in Int /\ b \in Int
    BY <1>5, <2>2
  <2> HIDE DEF s, a, b
  <2>4. SUFFICES ASSUME b < a PROVE FALSE
    BY <2>3 DEF a, b
  <2>5. Upto(b) \in SUBSET Below(a) /\ Below(a) \in SUBSET S /\ Upto(b) \in SUBSET S
    BY <2>3, <2>4
  <2>6. Cardinality(Upto(b)) <= Cardinality(Below(a))
    <3> HIDE DEF Upto, Below
    <3> QED BY <1>3, <2>5, FS_Subset
  <2>7. Cardinality(Upto(b)) \in Nat /\ Cardinality(Below(a)) \in Nat
    <3> HIDE DEF Upto, Below
    <3> QED BY <1>3, <2>5
  <2>8. Cardinality(Below(a)) < i /\ i + 1 <= Cardinality(Upto(b))
    BY <2>2
  <2> HIDE DEF Upto, Below
  <2> QED BY <2>1, <2>6, <2>7, <2>8
<1>10. ASSUME NEW x \in S
       PROVE  \E i \in 1..n : s[i] = key[x]
  <2> DEFINE v == key[x]
             i == Cardinality(Upto(v))
  <2>1. v \in Int /\ x \in Upto(v) /\ x \notin Below(v)
    OBVIOUS
  <2>2. Below(v) \in SUBSET S /\ Upto(v) \in SUBSET S /\ Below(v) \subseteq Upto(v)
    BY <2>1
  <2>3. Cardinality(Below(v)) < i
    <3> HIDE DEF v, Below, Upto
    <3>1. Below(v) \subseteq Upto(v) /\ Below(v) # Upto(v) /\ IsFiniteSet(Upto(v))
      BY <1>3, <2>1, <2>2
    <3>2. /\ Cardinality(Below(v)) \in Nat /\ Cardinality(Upto(v)) \in Nat
          /\ Cardinality(Below(v)) <= Cardinality(Upto(v))
          /\ Cardinality(Below(v)) # Cardinality(Upto(v))
      <4>1. /\ Cardinality(Below(v)) <= Cardinality(Upto(v))
            /\ Cardinality(Below(v)) = Cardinality(Upto(v)) => Below(v) = Upto(v)
        BY <3>1, FS_Subset
      <4> QED BY <1>3, <2>2, <3>1, <4>1
    <3> QED BY <3>2
  <2>4. i \in 1..n
    <3> HIDE DEF v, Below, Upto
    <3>1. Cardinality(Below(v)) \in Nat /\ i \in Nat /\ i <= n
      BY <1>3, <2>2
    <3> QED BY <1>1, <2>3, <3>1
  <2> DEFINE a == s[i]
  <2>5. a \in A /\ Cardinality(Below(a)) < i /\ i <= Cardinality(Upto(a))
    BY <1>7, <2>4
  <2>6. a \in Int
    BY <1>5, <2>5
  <2> HIDE DEF v, a
  <2>7. ~(a < v)
    <3> SUFFICES ASSUME a < v PROVE FALSE
      OBVIOUS
    <3>1. Upto(a) \in SUBSET Below(v) /\ Upto(a) \in SUBSET S
      BY <2>1, <2>6
    <3> HIDE DEF Below, Upto
    <3>2. Cardinality(Upto(a)) <= Cardinality(Below(v))
      BY <1>3, <2>2, <3>1, FS_Subset
    <3>3. Cardinality(Upto(a)) \in Nat /\ Cardinality(Below(v)) \in Nat
      BY <1>3, <2>2, <3>1
    <3> QED BY <2>3, <2>4, <2>5, <3>2, <3>3
  <2>8. ~(v < a)
    <3> SUFFICES ASSUME v < a PROVE FALSE
      OBVIOUS
    <3>1. Upto(v) \in SUBSET Below(a) /\ Below(a) \in SUBSET S
      BY <2>1, <2>6
    <3> HIDE DEF Below, Upto
    <3>2. Cardinality(Upto(v)) <= Cardinality(Below(a))
      BY <1>3, <3>1, FS_Subset
    <3>3. Cardinality(Below(a)) \in Nat
      BY <1>3, <3>1
    <3> QED BY <2>4, <2>5, <3>2, <3>3
  <2>9. a = v
    BY <2>1, <2>6, <2>7, <2>8
  <2> QED BY <2>4, <2>9 DEF a, v
<1> QED BY <1>1, <1>8, <1>9, <1>10 DEF A, n

\* _canonical_cycle gives a rotation that starts with the smallest account.
LEMMA CanonicalStartsSmallest ==
  ASSUME NEW T \in SUBSET Int, NEW m \in Seq(T), Len(m) >= 1
  PROVE  \E k \in 1..Len(m) :
           Canonical(m) = Rotation(m, k) /\ \A i \in 1..Len(m) : m[k] <= m[i]
<1> DEFINE n == Len(m)
           V == {m[i] : i \in 1..n}
           I == {i \in 1..n : m[i] = Min(V)}
<1>1. n \in Nat /\ n >= 1 /\ \A i \in 1..n : m[i] \in Int
  <2>1. \A i \in 1..n : m[i] \in T
    OBVIOUS
  <2>2. n \in Nat
    OBVIOUS
  <2> QED BY <2>1, <2>2
<1>2. ToSet(m) = V
  BY DEF ToSet
<1>3. IsFiniteSet(V) /\ V # {} /\ V \in SUBSET Int
  <2> DEFINE D == 1..n
             f == [i \in D |-> m[i]]
             W == {f[i] : i \in D}
  <2>1. DOMAIN f = D /\ f = [i \in D |-> f[i]] /\ W = V
    OBVIOUS
  <2>2. IsFiniteSet(D)
    BY <1>1, FS_Interval
  <2> HIDE DEF f, D
  <2>3. IsFiniteSet(W)
    BY <2>1, <2>2, ImageIsFinite
  <2>4. 1 \in 1..n /\ m[1] \in V
    BY <1>1
  <2>5. V \in SUBSET Int
    BY <1>1
  <2>6. IsFiniteSet(V)
    BY <2>1, <2>3
  <2> HIDE DEF V
  <2> QED BY <2>4, <2>5, <2>6
<1> HIDE DEF n
<1>4. Min(V) \in V /\ \A y \in V : Min(V) <= y
  <2> HIDE DEF V
  <2> QED BY <1>3, EndsOfFiniteSet
<1>5. I # {} /\ I \in SUBSET Nat
  <2>1. PICK i \in 1..n : m[i] = Min(V)
    BY <1>4
  <2> HIDE DEF V
  <2>2. i \in I
    BY <2>1
  <2> QED BY <2>2
<1>6. Min(I) \in I
  <2> HIDE DEF I
  <2> QED BY <1>5, MinOfNumbers
<1>7. SelectInSeq(m, LAMBDA a : a = Min(ToSet(m))) = Min(I)
  BY <1>2, <1>5 DEF SelectInSeq, n
<1>8. Canonical(m) = Rotation(m, Min(I))
  BY <1>7 DEF Canonical
<1>9. Min(I) \in 1..n /\ \A i \in 1..n : m[Min(I)] <= m[i]
  <2>1. m[Min(I)] = Min(V) /\ Min(I) \in 1..n
    BY <1>6
  <2> HIDE DEF I
  <2> QED BY <1>4, <2>1
<1> HIDE DEF I
<1> QED BY <1>8, <1>9 DEF n

--------------------------------------------------------------------------------
(* Scores.                                                                     *)

\* A quotient lies between the bounds of its dividend.
LEMMA QuotientBounds ==
  ASSUME NEW a \in Nat, NEW b \in Nat \ {0}, NEW k \in Nat
  PROVE  /\ a < b * (k + 1) => a \div b <= k
         /\ b * k <= a => k <= a \div b
         /\ a \div b \in Nat
OBVIOUS

\* The score of a fan-in is a fraction of one.
LEMMA PayoutScoreType ==
  ASSUME NEW n \in Nat, NEW w \in Nat
  PROVE  PayoutScore(n, w) \in Verdicts!Scores
<1> DEFINE N == MaxFaninSize
           m == IF n < N THEN n ELSE N
           x == N * w
           a == 200000 * m + (10 * N + x)
           b == 2 * (10 * N + x)
<1>1. N \in Nat \ {0}
  BY DetectionAssumption
<1> HIDE DEF N
<1>2. m \in Nat /\ m <= N
  BY <1>1
<1>3. x \in Nat
  BY <1>1
<1>4. PayoutScore(n, w) = a \div b
  <2>1. N * (10 + w) = 10 * N + x
    BY <1>1
  <2>2. PayoutScore(n, w) = (2 * (100000 * m) + N * (10 + w)) \div (2 * (N * (10 + w)))
    BY DEF PayoutScore, RoundDiv, N
  <2>3. 2 * (100000 * m) = 200000 * m
    BY <1>2
  <2> HIDE DEF m, x
  <2> QED BY <2>1, <2>2, <2>3
<1> HIDE DEF m, x
<1>5. a \in Nat /\ b \in Nat \ {0} /\ a < b * (10000 + 1)
  BY <1>1, <1>2, <1>3
<1> HIDE DEF a, b
<1>6. a \div b <= 10000 /\ a \div b \in Nat
  BY <1>5, QuotientBounds
<1> DEFINE q == a \div b
<1>7. q \in Nat /\ q <= 10000 /\ PayoutScore(n, w) = q
  BY <1>4, <1>6
<1> HIDE DEF q
<1>8. q \in Verdicts!Scores
  BY ONLY <1>7, SMTT(30) DEF Verdicts!Scores
<1> QED BY <1>7, <1>8

\* The hundredths.
LEMMA Hundred == IsFiniteSet(1..100) /\ Cardinality(1..100) = 100
<1>1. 1 \in Int /\ 100 \in Int /\ ~(1 > 100) /\ 100 - 1 + 1 = 100
  OBVIOUS
<1>2. IsFiniteSet(1..100) /\ Cardinality(1..100) = IF 1 > 100 THEN 0 ELSE 100 - 1 + 1
  BY <1>1, FS_Interval
<1> QED BY <1>1, <1>2

\* So is the score of a cycle, whatever the amounts.
LEMMA FlowScoreType ==
  ASSUME NEW legs
  PROVE  FlowScore(legs) \in Verdicts!Scores
<1> DEFINE sum == SumFunction([t \in legs |-> t.amount])
           squares == SumFunction([t \in legs |-> t.amount * t.amount])
           K == {k \in 1..100 : Fits(k, Cardinality(legs), sum, squares)}
<1>1. FlowScore(legs) = IF sum = 0 THEN 0 ELSE 100 * Cardinality(K)
  BY DEF FlowScore
<1> DEFINE D == 1..100
<1>2. K \in SUBSET D
  <2> HIDE DEF sum, squares, D
  <2> SUFFICES ASSUME NEW k \in K PROVE k \in D
    OBVIOUS
  <2> QED BY DEF D
<1> HIDE DEF K, sum
<1>3. IsFiniteSet(D) /\ Cardinality(D) = 100
  BY Hundred
<1> HIDE DEF D
<1>4. IsFiniteSet(K) /\ Cardinality(K) <= 100
  BY <1>2, <1>3, FS_Subset
<1>5. Cardinality(K) \in Nat
  BY <1>4, FS_CardinalityType
<1> DEFINE k == Cardinality(K)
<1>6. k \in Nat /\ k <= 100
  BY <1>4, <1>5
<1> HIDE DEF k
<1>7. 0 \in Verdicts!Scores /\ 100 * k \in Verdicts!Scores
  BY ONLY <1>6, SMTT(30) DEF Verdicts!Scores
<1> QED BY <1>1, <1>7 DEF k

\* Amounts that lie between a quarter of one amount and all of it keep their squares
\* within what their sum allows.
LEMMA EvenAmounts ==
  ASSUME NEW H \in Nat, NEW legs, IsFiniteSet(legs),
         \A t \in legs : t.amount \in Nat /\ t.amount <= H /\ H <= 4 * t.amount
  PROVE  LET n       == Cardinality(legs)
             sum     == SumFunction([t \in legs |-> t.amount])
             squares == SumFunction([t \in legs |-> t.amount * t.amount])
         IN  /\ n \in Nat /\ sum \in Nat /\ squares \in Nat
             /\ 4 * squares + n * (H * H) <= 5 * (H * sum)
             /\ n * H <= 4 * sum
<1> DEFINE f == [t \in legs |-> t.amount]
           g == [t \in legs |-> t.amount * t.amount]
           S(T) == SumFunctionOnSet(f, T)
           Q(T) == SumFunctionOnSet(g, T)
           n(T) == Cardinality(T)
           Even(T) == /\ n(T) \in Nat /\ S(T) \in Nat /\ Q(T) \in Nat
                      /\ 4 * Q(T) + n(T) * (H * H) <= 5 * (H * S(T))
                      /\ n(T) * H <= 4 * S(T)
           E == {T \in SUBSET legs : Even(T)}
<1>1. \A t \in legs : f[t] \in Nat /\ g[t] \in Nat
  OBVIOUS
<1>2. {} \in E
  <2>1. S({}) = 0 /\ Q({}) = 0
    BY SumOfNothing
  <2>2. n({}) = 0
    BY FS_EmptySet
  <2> HIDE DEF S, Q, n
  <2> QED BY <2>1, <2>2
<1>3. ASSUME NEW T \in SUBSET legs, NEW y \in legs \ T, T \in E
      PROVE  T \cup {y} \in E
  <2> DEFINE U == T \cup {y}
             a == y.amount
  <2>1. U \in SUBSET legs /\ y \in U /\ U \ {y} = T
    OBVIOUS
  <2>2. IsFiniteSet(U) /\ IsFiniteSet(T)
    BY <2>1, FS_Subset
  <2>3. n(U) = n(T) + 1
    <3>1. y \notin T
      OBVIOUS
    <3> QED BY <2>2, <3>1, FS_AddElement
  <2>4. S(U) = a + S(T)
    <3>1. \A t \in U : f[t] \in Nat
      BY <1>1, <2>1
    <3>2. S(U) = f[y] + S(U \ {y})
      <4> HIDE DEF f, U
      <4> QED BY <2>1, <2>2, <3>1, SumAdds
    <3>3. f[y] = a
      OBVIOUS
    <3> HIDE DEF f, U, a
    <3> QED BY <2>1, <3>2, <3>3
  <2>5. Q(U) = a * a + Q(T)
    <3>1. \A t \in U : g[t] \in Nat
      BY <1>1, <2>1
    <3>2. Q(U) = g[y] + Q(U \ {y})
      <4> HIDE DEF g, U
      <4> QED BY <2>1, <2>2, <3>1, SumAdds
    <3>3. g[y] = a * a
      OBVIOUS
    <3> HIDE DEF g, U, a
    <3> QED BY <2>1, <3>2, <3>3
  <2>6. a \in Nat /\ a <= H /\ H <= 4 * a
    OBVIOUS
  <2>7. Even(T)
    BY <1>3
  <2> HIDE DEF S, Q, n, U, a
  <2> DEFINE s == S(T)
             q == Q(T)
             m == n(T)
  <2>8. /\ m \in Nat /\ s \in Nat /\ q \in Nat
        /\ 4 * q + m * (H * H) <= 5 * (H * s) /\ m * H <= 4 * s
    BY <2>7
  <2> HIDE DEF s, q, m
  <2>9. 4 * (a * a) + H * H <= 5 * (H * a)
    <3>1. H - a \in Nat /\ 4 * a - H \in Nat
      BY <2>6
    <3>2. (H - a) * (4 * a - H) \in Nat
      <4> DEFINE c == H - a
                 d == 4 * a - H
      <4>1. c \in Nat /\ d \in Nat
        BY <3>1
      <4> HIDE DEF c, d
      <4>2. c * d \in Nat
        BY <4>1
      <4> QED BY <4>2 DEF c, d
    <3>3. (H - a) * (4 * a - H) = 5 * (H * a) - H * H - 4 * (a * a)
      BY <2>6
    <3>4. H * a \in Nat /\ H * H \in Nat /\ a * a \in Nat
      BY <2>6
    <3> QED BY <3>2, <3>3, <3>4
  <2>10. /\ (m + 1) * (H * H) = m * (H * H) + H * H /\ (m + 1) * H = m * H + H
         /\ H * (a + s) = H * a + H * s
         /\ H * H \in Nat /\ m * (H * H) \in Nat /\ H * a \in Nat /\ H * s \in Nat
         /\ m * H \in Nat /\ a * a \in Nat
    BY <2>6, <2>8
  <2>11. /\ m + 1 \in Nat /\ a + s \in Nat /\ a * a + q \in Nat
         /\ 4 * (a * a + q) + (m + 1) * (H * H) <= 5 * (H * (a + s))
         /\ (m + 1) * H <= 4 * (a + s)
    BY <2>6, <2>8, <2>9, <2>10
  <2>12. Even(U)
    BY <2>3, <2>4, <2>5, <2>11 DEF s, q, m
  <2> HIDE DEF Even
  <2> QED BY <2>1, <2>12 DEF U
<1>4. legs \in E
  <2> HIDE DEF E
  <2> QED BY <1>2, <1>3, SubsetsByInduction
<1>5. Even(legs)
  BY <1>4
<1>6. SumFunction(f) = S(legs) /\ SumFunction(g) = Q(legs)
  <2>1. DOMAIN f = legs /\ DOMAIN g = legs
    OBVIOUS
  <2> HIDE DEF f, g
  <2> QED BY <2>1 DEF SumFunction
<1> HIDE DEF S, Q
<1> QED BY <1>5, <1>6

\* Legs without money have no score.
LEMMA NoMoneyNoScore ==
  ASSUME NEW legs, IsFiniteSet(legs), \A t \in legs : t.amount = 0
  PROVE  FlowScore(legs) = 0
<1> DEFINE f == [t \in legs |-> t.amount]
<1>1. DOMAIN f = legs /\ \A t \in legs : f[t] = 0 /\ f[t] \in Nat
  OBVIOUS
<1>2. SumFunction(f) = SumFunctionOnSet(f, legs)
  BY <1>1 DEF SumFunction
<1>3. SumFunctionOnSet(f, legs) = 0
  <2> HIDE DEF f
  <2> QED BY <1>1, SumIsZero
<1> QED BY <1>2, <1>3 DEF FlowScore

\* A cycle whose amounts are that even scores no less than the floor of the agent.
LEMMA EvenCycleScores ==
  ASSUME NEW H \in Nat \ {0}, NEW legs, IsFiniteSet(legs), legs # {},
         \A t \in legs : t.amount \in Nat /\ t.amount <= H /\ H <= 4 * t.amount
  PROVE  FlowScore(legs) >= 500
<1> DEFINE n == Cardinality(legs)
           sum == SumFunction([t \in legs |-> t.amount])
           squares == SumFunction([t \in legs |-> t.amount * t.amount])
           K == {k \in 1..100 : Fits(k, n, sum, squares)}
<1>1. FlowScore(legs) = IF sum = 0 THEN 0 ELSE 100 * Cardinality(K)
  BY DEF FlowScore
<1>2. /\ n \in Nat /\ sum \in Nat /\ squares \in Nat
      /\ 4 * squares + n * (H * H) <= 5 * (H * sum)
      /\ n * H <= 4 * sum
  BY EvenAmounts
<1>3. n # 0
  BY FS_EmptySet
<1> HIDE DEF n, sum, squares
<1>4. sum # 0
  <2>1. n * H # 0 /\ n * H \in Nat
    BY <1>2, <1>3
  <2> QED BY <1>2, <2>1
<1> DEFINE T == n * H
           w == n * squares
<1>5. T \in Nat /\ w \in Nat /\ 4 * w + T * T <= 5 * (T * sum)
  <2> DEFINE x == 4 * squares + n * (H * H)
             y == 5 * (H * sum)
  <2>1. x \in Nat /\ y \in Nat /\ x <= y
    BY <1>2
  <2>2. n * x = 4 * (n * squares) + (n * H) * (n * H)
    BY <1>2
  <2>3. n * y = 5 * ((n * H) * sum)
    BY <1>2
  <2>4. n * x <= n * y
    <3> HIDE DEF x, y
    <3> QED BY <1>2, <2>1
  <2>5. T \in Nat /\ w \in Nat
    BY <1>2
  <2> HIDE DEF x, y
  <2> QED BY <2>2, <2>3, <2>4, <2>5
<1>6. 10000 * w <= 19025 * (sum * sum)
  <2> DEFINE d == 100 * T - 250 * sum
  <2>1. d * d = 10000 * (T * T) - 50000 * (T * sum) + 62500 * (sum * sum)
    BY <1>2, <1>5
  <2>2. d \in Int
    BY <1>2, <1>5
  <2>3. d * d >= 0
    <3> HIDE DEF d
    <3> QED BY <2>2
  <2> HIDE DEF d
  <2> DEFINE tt == T * T
             ts == T * sum
             ss == sum * sum
  <2>4. tt \in Nat /\ ts \in Nat /\ ss \in Nat /\ 4 * w + tt <= 5 * ts
    BY <1>2, <1>5
  <2>5. 10000 * tt - 50000 * ts + 62500 * ss >= 0
    BY <2>1, <2>3
  <2> HIDE DEF tt, ts, ss, w
  <2>6. 40000 * w <= 50000 * ts - 10000 * tt
    BY <1>5, <2>4
  <2>7. 40000 * w <= 62500 * ss
    BY <1>5, <2>4, <2>5, <2>6
  <2>8. 10000 * w <= 19025 * ss
    BY <1>5, <2>4, <2>7
  <2> QED BY <2>8 DEF ss
<1>7. ASSUME NEW k \in 1..5 PROVE k \in K
  <2> DEFINE ss == sum * sum
             c == (100 - k) * (100 - k)
  <2>1. c >= 9025 /\ c \in Nat
    BY <1>7
  <2>2. (100 - k) * (100 - k) * sum * sum = c * ss
    <3>1. c \in Nat
      BY <2>1
    <3>2. (100 - k) * (100 - k) * sum * sum = c * sum * sum
      OBVIOUS
    <3> HIDE DEF c
    <3> QED BY <1>2, <3>1, <3>2
  <2>3. ss \in Nat /\ 10000 * w <= 19025 * ss
    BY <1>2, <1>6
  <2> HIDE DEF c, ss
  <2>4. c * ss >= 9025 * ss
    BY <2>1, <2>3
  <2>5. c * ss \in Nat
    BY <2>1, <2>3
  <2> DEFINE p == c * ss
  <2> HIDE DEF w, p
  <2>6. p >= 10000 * (w - ss)
    BY <1>5, <2>3, <2>4, <2>5 DEF p
  <2>7. Fits(k, n, sum, squares)
    BY <2>2, <2>6 DEF Fits, w, p, ss
  <2> QED BY <2>7
<1>8. Cardinality(K) >= 5
  <2> DEFINE D == 1..100
             F == 1..5
  <2>1. IsFiniteSet(D) /\ IsFiniteSet(F) /\ Cardinality(F) = 5
    <3>1. 1 \in Int /\ 5 \in Int /\ ~(1 > 5) /\ 5 - 1 + 1 = 5
      OBVIOUS
    <3>2. IsFiniteSet(1..5) /\ Cardinality(1..5) = IF 1 > 5 THEN 0 ELSE 5 - 1 + 1
      BY <3>1, FS_Interval
    <3>3. IsFiniteSet(1..100)
      BY Hundred
    <3> QED BY <3>1, <3>2, <3>3
  <2>2. F \in SUBSET K
    BY <1>7
  <2>3. K \in SUBSET D
    OBVIOUS
  <2> HIDE DEF D, F, K
  <2>4. IsFiniteSet(K) /\ Cardinality(F) <= Cardinality(K)
    BY <2>1, <2>2, <2>3, FS_Subset
  <2> QED BY <2>1, <2>4
<1>9. Cardinality(K) \in Nat
  <2>1. IsFiniteSet(1..100)
    BY Hundred
  <2>2. K \in SUBSET (1..100)
    OBVIOUS
  <2> HIDE DEF K
  <2> QED BY <2>1, <2>2, FS_Subset, FS_CardinalityType
<1> HIDE DEF K
<1> QED BY <1>1, <1>4, <1>8, <1>9

--------------------------------------------------------------------------------
(* What the candidates of each detector are.                                   *)

\* A graph as detection finds it.
IsGraph ==
  /\ DOMAIN accounts \in SUBSET Int /\ IsFiniteSet(DOMAIN accounts)
  /\ IsFiniteSet(tx)
  /\ \A t \in tx : {t.from, t.to} \subseteq DOMAIN accounts /\ t.step \in Nat

GroupsADevice(c) ==
  \E G \in SUBSET DOMAIN accounts :
    /\ Cardinality(G) > 1
    /\ c.members = SortedValues([a \in G |-> a])
    /\ c.legs = {}
    /\ c.score = DeviceScore(Cardinality(G))

FansIn(c) ==
  /\ c.legs \in SUBSET tx
  /\ Cardinality(c.legs) \in MinFaninSize..MaxFaninSize
  /\ StepWindow(c.legs) \in 0..MaxFaninStepWindow
  /\ c.members = SortedValues([t \in c.legs |-> t.from])
  /\ c.score = PayoutScore(Cardinality(c.legs), StepWindow(c.legs))

GoesRound(c) ==
  \E q : /\ IsCycle(q)
         /\ \A i \in DOMAIN q : q[1].from <= q[i].from
         /\ c.members = Payers(q) /\ c.key = c.members
         /\ c.legs = ToSet(q)
         /\ c.score = FlowScore(c.legs)

\* A method finds at most one candidate of a key.
OneEach(S) == \A c, d \in S : c.method = d.method /\ c.key = d.key => c = d

\* Every shared device has one candidate, of the accounts that share it.
LEMMA DeviceCandidates ==
  /\ \A c \in SharedDeviceCandidates : c.method = "shared_device" /\ GroupsADevice(c)
  /\ OneEach(SharedDeviceCandidates)
<1> DEFINE Of(d) == Candidate("shared_device", <<d>>, SortedValues([a \in GroupOf(d) |-> a]), {},
                              DeviceScore(Cardinality(GroupOf(d))))
<1>1. ASSUME NEW d \in SharedDevices
      PROVE  Of(d).method = "shared_device" /\ GroupsADevice(Of(d)) /\ Of(d).key = <<d>>
  <2>1. GroupOf(d) \in SUBSET DOMAIN accounts /\ Cardinality(GroupOf(d)) > 1
    BY DEF SharedDevices, GroupOf
  <2>2. /\ Of(d).method = "shared_device" /\ Of(d).key = <<d>> /\ Of(d).legs = {}
        /\ Of(d).members = SortedValues([a \in GroupOf(d) |-> a])
        /\ Of(d).score = DeviceScore(Cardinality(GroupOf(d)))
    BY DEF Candidate
  <2> HIDE DEF Of
  <2> QED BY <2>1, <2>2 DEF GroupsADevice
<1>2. SharedDeviceCandidates = {Of(d) : d \in SharedDevices}
  BY DEF SharedDeviceCandidates
<1> HIDE DEF Of
<1>3. \A c \in SharedDeviceCandidates : c.method = "shared_device" /\ GroupsADevice(c)
  BY <1>1, <1>2
<1>4. ASSUME NEW c \in SharedDeviceCandidates, NEW d \in SharedDeviceCandidates, c.key = d.key
      PROVE  c = d
  <2>1. PICK x \in SharedDevices : c = Of(x)
    BY <1>2
  <2>2. PICK y \in SharedDevices : d = Of(y)
    BY <1>2
  <2>3. <<x>> = <<y>>
    BY <1>1, <1>4, <2>1, <2>2
  <2>4. x = y
    BY <2>3
  <2> QED BY <2>1, <2>2, <2>4
<1> QED BY <1>3, <1>4 DEF OneEach

\* Every fan-in has one candidate, of the payers of its transfers.
LEMMA PayoutCandidates ==
  ASSUME IsGraph
  PROVE  /\ \A c \in SharedPayoutCandidates : c.method = "shared_payout" /\ FansIn(c)
         /\ OneEach(SharedPayoutCandidates)
<1> DEFINE Of(d) == Candidate("shared_payout", <<d>>, SortedValues([t \in TransfersTo(d) |-> t.from]),
                              TransfersTo(d),
                              PayoutScore(Cardinality(TransfersTo(d)), StepWindow(TransfersTo(d))))
<1>1. ASSUME NEW d \in FanIns
      PROVE  Of(d).method = "shared_payout" /\ FansIn(Of(d)) /\ Of(d).key = <<d>>
  <2> DEFINE legs == TransfersTo(d)
             steps == {t.step : t \in legs}
  <2>1. /\ legs \in SUBSET tx /\ legs # {}
        /\ Cardinality(legs) \in MinFaninSize..MaxFaninSize
        /\ StepWindow(legs) <= MaxFaninStepWindow
    BY DEF FanIns, TransfersTo
  <2> HIDE DEF legs
  <2>2. IsFiniteSet(legs)
    BY <2>1, FS_Subset DEF IsGraph
  <2>3. steps \in SUBSET Nat /\ steps # {}
    BY <2>1 DEF IsGraph
  <2>4. IsFiniteSet(steps)
    <3> DEFINE f == [t \in legs |-> t.step]
               W == {f[t] : t \in legs}
    <3>1. DOMAIN f = legs /\ f = [t \in legs |-> f[t]] /\ W = steps
      OBVIOUS
    <3> HIDE DEF f
    <3>2. IsFiniteSet(W)
      BY <2>2, <3>1, ImageIsFinite
    <3> QED BY <3>1, <3>2
  <2>5. StepWindow(legs) \in 0..MaxFaninStepWindow
    <3>1. StepWindow(legs) = Max(steps) - Min(steps)
      BY DEF StepWindow
    <3> HIDE DEF steps
    <3>2. Min(steps) \in steps /\ Max(steps) \in steps /\ Min(steps) <= Max(steps)
      <4>1. steps \in SUBSET Int
        BY <2>3
      <4> QED BY <2>3, <2>4, <4>1, EndsOfFiniteSet
    <3>3. Min(steps) \in Nat /\ Max(steps) \in Nat
      BY <2>3, <3>2
    <3>4. MaxFaninStepWindow \in Nat
      BY DetectionAssumption
    <3> QED BY <2>1, <3>1, <3>2, <3>3, <3>4
  <2>6. /\ Of(d).method = "shared_payout" /\ Of(d).key = <<d>> /\ Of(d).legs = legs
        /\ Of(d).members = SortedValues([t \in legs |-> t.from])
        /\ Of(d).score = PayoutScore(Cardinality(legs), StepWindow(legs))
    BY DEF Candidate, legs
  <2> HIDE DEF Of
  <2> QED BY <2>1, <2>5, <2>6 DEF FansIn
<1>2. SharedPayoutCandidates = {Of(d) : d \in FanIns}
  BY DEF SharedPayoutCandidates
<1> HIDE DEF Of
<1>3. \A c \in SharedPayoutCandidates : c.method = "shared_payout" /\ FansIn(c)
  BY <1>1, <1>2
<1>4. ASSUME NEW c \in SharedPayoutCandidates, NEW d \in SharedPayoutCandidates, c.key = d.key
      PROVE  c = d
  <2>1. PICK x \in FanIns : c = Of(x)
    BY <1>2
  <2>2. PICK y \in FanIns : d = Of(y)
    BY <1>2
  <2>3. <<x>> = <<y>>
    BY <1>1, <1>4, <2>1, <2>2
  <2>4. x = y
    BY <2>3
  <2> QED BY <2>1, <2>2, <2>4
<1> QED BY <1>3, <1>4 DEF OneEach

\* The rows of the query are the closed trails of its lengths, and finitely many.
LEMMA CycleRowsAreCycles ==
  ASSUME IsGraph
  PROVE  /\ \A p : p \in CycleRows <=> IsCycle(p)
         /\ IsFiniteSet(CycleRows)
<1>1. \A p : p \in Trails <=> IsTrail(p) /\ Len(p) <= MaxCycleLen
  BY TrailsAreTrails DEF IsGraph
<1>2. MinCycleLen \in Nat \ {0} /\ MaxCycleLen \in Nat
  BY DetectionAssumption
<1>3. ASSUME NEW p, IsTrail(p)
      PROVE  /\ p \in Seq(tx) /\ Len(p) \in Nat /\ Len(p) >= 1
             /\ Last(p) = p[Len(p)] /\ Head(p) = p[1]
  BY <1>3 DEF IsTrail, Last
<1>4. \A p : p \in CycleRows <=> IsCycle(p)
  <2>1. ASSUME NEW p, p \in CycleRows PROVE IsCycle(p)
    <3>1. IsTrail(p) /\ Len(p) <= MaxCycleLen /\ Len(p) >= MinCycleLen /\ Last(p).to = Head(p).from
      BY <1>1, <2>1 DEF CycleRows
    <3>2. Len(p) \in MinCycleLen..MaxCycleLen
      BY <1>2, <1>3, <3>1
    <3> QED BY <1>3, <3>1, <3>2 DEF IsCycle
  <2>2. ASSUME NEW p, IsCycle(p) PROVE p \in CycleRows
    <3>1. IsTrail(p) /\ Len(p) \in MinCycleLen..MaxCycleLen /\ p[Len(p)].to = p[1].from
      BY <2>2 DEF IsCycle
    <3>2. Len(p) <= MaxCycleLen /\ Len(p) >= MinCycleLen
      BY <1>2, <3>1
    <3> QED BY <1>1, <1>3, <3>1, <3>2 DEF CycleRows
  <2> QED BY <2>1, <2>2
<1>5. IsFiniteSet(CycleRows)
  <2> DEFINE D == 1..MaxCycleLen
             Pairs == D \X tx
             graph == [p \in CycleRows |-> {<<i, p[i]>> : i \in DOMAIN p}]
  <2>1. IsFiniteSet(D)
    BY <1>2, FS_Interval
  <2>2. IsFiniteSet(Pairs)
    <3> HIDE DEF D
    <3> QED BY <2>1, FS_Product DEF IsGraph
  <2>3. IsFiniteSet(SUBSET Pairs)
    <3> HIDE DEF Pairs
    <3> QED BY <2>2, FS_SUBSET
  <2>4. ASSUME NEW p \in CycleRows
        PROVE  /\ p \in Seq(tx) /\ DOMAIN p \in SUBSET D
               /\ p = [i \in DOMAIN p |-> p[i]] /\ \A i \in DOMAIN p : p[i] \in tx
    <3>1. p \in Seq(tx) /\ Len(p) \in MinCycleLen..MaxCycleLen
      BY <1>4 DEF IsCycle, IsTrail
    <3>2. DOMAIN p = 1..Len(p) /\ Len(p) \in Nat
      BY <3>1
    <3>3. DOMAIN p \in SUBSET D
      BY <1>2, <3>1, <3>2
    <3>4. p = [i \in DOMAIN p |-> p[i]] /\ \A i \in DOMAIN p : p[i] \in tx
      BY <3>1
    <3> QED BY <3>1, <3>3, <3>4
  <2>5. graph \in [CycleRows -> SUBSET Pairs]
    <3>1. ASSUME NEW p \in CycleRows PROVE {<<i, p[i]>> : i \in DOMAIN p} \in SUBSET Pairs
      <4> HIDE DEF D
      <4> QED BY <2>4
    <3> HIDE DEF Pairs
    <3> QED BY <3>1
  <2>6. ASSUME NEW p \in CycleRows, NEW q \in CycleRows, graph[p] = graph[q]
        PROVE  p = q
    <3>1. \A i \in DOMAIN p : <<i, p[i]>> \in graph[q]
      BY <2>6
    <3>2. \A i \in DOMAIN p : i \in DOMAIN q /\ p[i] = q[i]
      BY <3>1
    <3>3. \A i \in DOMAIN q : <<i, q[i]>> \in graph[p]
      BY <2>6
    <3>4. \A i \in DOMAIN q : i \in DOMAIN p
      BY <3>3
    <3>5. DOMAIN p = DOMAIN q
      BY <3>2, <3>4
    <3> QED BY <2>4, <3>2, <3>5
  <2> HIDE DEF graph, Pairs
  <2>7. graph \in Injection(CycleRows, SUBSET Pairs)
    BY <2>5, <2>6 DEF Injection, IsInjective
  <2> QED BY <2>3, <2>7, FS_Injection
<1> QED BY <1>4, <1>5

\* Whichever rows come first, there is one candidate for every cycle's key, and its
\* evidence is a walk round its members.
LEMMA CircularCandidates ==
  ASSUME IsGraph, NEW found \in CircularFlowChoices
  PROVE  /\ \A c \in found : c.method = "circular_flow" /\ GoesRound(c)
         /\ OneEach(found)
         /\ \A q : IsCycle(q) => \E c \in found : c.members = Canonical(Payers(q))
<1> DEFINE rows == {[key |-> KeyOf(p), legs |-> ToSet(p)] : p \in CycleRows}
           Keys == {row.key : row \in rows}
           Of(row) == Candidate("circular_flow", row.key, row.key, row.legs, FlowScore(row.legs))
           ch == [k \in Keys |->
                   {Candidate("circular_flow", k, k, row.legs, FlowScore(row.legs)) :
                      row \in {r \in rows : r.key = k}}]
<1>1. found \in OneOfEach(ch)
  BY DEF CircularFlowChoices
<1>2. \A p : p \in CycleRows <=> IsCycle(p)
  BY CycleRowsAreCycles
<1>3. IsFiniteSet(Keys)
  <2> DEFINE f == [p \in CycleRows |-> KeyOf(p)]
             W == {f[p] : p \in CycleRows}
  <2>1. DOMAIN f = CycleRows /\ f = [p \in CycleRows |-> f[p]]
    OBVIOUS
  <2>2. W = Keys
    <3>1. \A p \in CycleRows : f[p] = KeyOf(p)
      OBVIOUS
    <3> HIDE DEF f
    <3>2. \A k \in Keys : \E p \in CycleRows : k = KeyOf(p)
      OBVIOUS
    <3>3. \A p \in CycleRows : KeyOf(p) \in Keys
      <4> TAKE p \in CycleRows
      <4> DEFINE row == [key |-> KeyOf(p), legs |-> ToSet(p)]
      <4>1. row \in rows /\ row.key = KeyOf(p)
        OBVIOUS
      <4> HIDE DEF rows, row
      <4> QED BY <4>1
    <3> HIDE DEF Keys
    <3> QED BY <3>1, <3>2, <3>3
  <2> HIDE DEF f
  <2>3. IsFiniteSet(CycleRows)
    BY CycleRowsAreCycles
  <2>4. IsFiniteSet(W)
    BY <2>1, <2>3, ImageIsFinite
  <2> QED BY <2>2, <2>4
<1>4. \A k \in Keys : \A c \in ch[k] :
        \E p : IsCycle(p) /\ KeyOf(p) = k
                 /\ c = Candidate("circular_flow", k, k, ToSet(p), FlowScore(ToSet(p)))
  <2> SUFFICES ASSUME NEW k \in Keys, NEW c \in ch[k]
               PROVE  \E p : IsCycle(p) /\ KeyOf(p) = k
                               /\ c = Candidate("circular_flow", k, k, ToSet(p), FlowScore(ToSet(p)))
    OBVIOUS
  <2>1. PICK row \in rows :
          row.key = k /\ c = Candidate("circular_flow", k, k, row.legs, FlowScore(row.legs))
    <3> HIDE DEF Keys, rows
    <3> QED OBVIOUS
  <2>2. PICK p \in CycleRows : row = [key |-> KeyOf(p), legs |-> ToSet(p)]
    BY <2>1
  <2>3. row.key = KeyOf(p) /\ row.legs = ToSet(p)
    BY <2>2
  <2> HIDE DEF Keys, rows
  <2> QED BY <1>2, <2>1, <2>3
<1>5. DOMAIN ch = Keys
  OBVIOUS
<1> HIDE DEF ch
<1>6. PICK pick : /\ \A k \in Keys : pick[k] \in ch[k]
                  /\ found = {pick[k] : k \in Keys}
  <2> HIDE DEF Keys
  <2> QED BY <1>1, <1>3, <1>5, OneOfEachPicks
<1>7. \A p : IsCycle(p) => KeyOf(p) \in Keys
  <2> SUFFICES ASSUME NEW p, IsCycle(p) PROVE KeyOf(p) \in Keys
    OBVIOUS
  <2> DEFINE row == [key |-> KeyOf(p), legs |-> ToSet(p)]
  <2>1. row \in rows /\ row.key = KeyOf(p)
    BY <1>2
  <2> HIDE DEF rows, row
  <2> QED BY <2>1
<1> HIDE DEF Keys
<1>8. ASSUME NEW k \in Keys
      PROVE  /\ pick[k].method = "circular_flow" /\ pick[k].key = k /\ pick[k].members = k
             /\ GoesRound(pick[k])
  <2>1. pick[k] \in ch[k]
    BY <1>6
  <2>2. PICK p : /\ IsCycle(p) /\ KeyOf(p) = k
                 /\ pick[k] = Candidate("circular_flow", k, k, ToSet(p), FlowScore(ToSet(p)))
    BY <1>4, <2>1
  <2> DEFINE c == pick[k]
             m == Payers(p)
  <2>3. /\ c.method = "circular_flow" /\ c.key = k /\ c.members = k
        /\ c.legs = ToSet(p) /\ c.score = FlowScore(ToSet(p))
    BY <2>2 DEF Candidate
  <2>4. c.score = FlowScore(c.legs)
    BY <2>3
  <2>5. p \in Seq(tx) /\ Len(p) \in Nat /\ Len(p) >= 1 /\ DOMAIN p = 1..Len(p)
    BY <2>2 DEF IsCycle, IsTrail
  <2>6. m \in Seq(DOMAIN accounts) /\ Len(m) = Len(p) /\ DOMAIN accounts \in SUBSET Int
    <3>1. \A i \in 1..Len(p) : p[i] \in tx /\ p[i].from \in DOMAIN accounts
      BY <2>5 DEF IsGraph
    <3> QED BY <2>5, <3>1 DEF Payers, IsGraph
  <2>7. KeyOf(p) = Canonical(m)
    BY DEF KeyOf, Payers
  <2> HIDE DEF m, c
  <2>8. PICK j \in 1..Len(m) : /\ Canonical(m) = Rotation(m, j)
                               /\ \A i \in 1..Len(m) : m[j] <= m[i]
    BY <2>5, <2>6, CanonicalStartsSmallest
  <2> DEFINE q == Rotation(p, j)
  <2>9. j \in 1..Len(p)
    BY <2>6, <2>8
  <2>10. IsCycle(q) /\ ToSet(q) = ToSet(p) /\ Payers(q) = Rotation(m, j)
    BY <2>2, <2>9, CycleFromAnyAccount DEF m
  <2>11. q[1] = p[j] /\ \A i \in DOMAIN q : q[i] \in ToSet(q)
    <3>1. q[1] = IF 1 <= Len(p) - j + 1 THEN p[1 + j - 1] ELSE p[1 + j - 1 - Len(p)]
      <4>1. 1 \in 1..Len(p)
        BY <2>5
      <4> QED BY <2>5, <2>9, <4>1, RotationFacts
    <3>2. 1 <= Len(p) - j + 1 /\ 1 + j - 1 = j
      BY <2>5, <2>9
    <3>3. \A i \in DOMAIN q : q[i] \in ToSet(q)
      BY DEF ToSet
    <3> HIDE DEF q
    <3> QED BY <3>1, <3>2, <3>3
  <2> HIDE DEF q
  <2>12. ASSUME NEW i \in DOMAIN q
         PROVE  q[1].from <= q[i].from
    <3>1. q[i] \in ToSet(p)
      BY <2>10, <2>11
    <3>2. PICK l \in 1..Len(p) : q[i] = p[l]
      BY <2>5, <3>1 DEF ToSet
    <3>3. m[j] = p[j].from /\ m[l] = p[l].from
      BY <2>5, <2>9, <3>2 DEF m, Payers
    <3>4. m[j] <= m[l]
      BY <2>6, <2>8, <3>2
    <3> QED BY <2>11, <3>2, <3>3, <3>4
  <2>13. GoesRound(c)
    <3>1. c.members = Payers(q) /\ c.key = c.members /\ c.legs = ToSet(q)
      BY <2>2, <2>3, <2>7, <2>8, <2>10
    <3>2. IsCycle(q) /\ c.legs = ToSet(q)
      BY <2>10, <3>1
    <3>3. \A i \in DOMAIN q : q[1].from <= q[i].from
      BY <2>12
    <3>4. \E r : /\ IsCycle(r)
                 /\ \A i \in DOMAIN r : r[1].from <= r[i].from
                 /\ c.members = Payers(r) /\ c.key = c.members
                 /\ c.legs = ToSet(r)
                 /\ c.score = FlowScore(c.legs)
      <4> WITNESS q
      <4> QED BY <2>4, <3>1, <3>2, <3>3
    <3> QED BY <3>4 DEF GoesRound
  <2> QED BY <2>3, <2>13 DEF c
<1>9. \A c \in found : c.method = "circular_flow" /\ GoesRound(c)
  BY <1>6, <1>8
<1>10. OneEach(found)
  <2> SUFFICES ASSUME NEW c \in found, NEW d \in found, c.key = d.key PROVE c = d
    BY DEF OneEach
  <2>1. PICK k \in Keys : c = pick[k]
    BY <1>6
  <2>2. PICK l \in Keys : d = pick[l]
    BY <1>6
  <2>3. k = l
    BY <1>8, <2>1, <2>2
  <2> QED BY <2>1, <2>2, <2>3
<1>11. ASSUME NEW q, IsCycle(q)
       PROVE  \E c \in found : c.members = Canonical(Payers(q))
  <2>1. KeyOf(q) \in Keys /\ KeyOf(q) = Canonical(Payers(q))
    BY <1>7, <1>11 DEF KeyOf, Payers
  <2> DEFINE k == KeyOf(q)
  <2>2. pick[k] \in found /\ pick[k].members = k
    BY <1>6, <1>8, <2>1
  <2> QED BY <2>1, <2>2
<1> QED BY <1>9, <1>10, <1>11

--------------------------------------------------------------------------------
(* The invariant: what every candidate so far was made of, that keys are unique, *)
(* and that a detector that is done has missed nothing.                        *)

Pendings ==
  {Detectors, <<"shared_payout", "circular_flow">>, <<"circular_flow">>, <<>>}

DoneBy(left) ==
  IF left = Detectors THEN {}
  ELSE IF left = <<"shared_payout", "circular_flow">> THEN {"shared_device"}
  ELSE IF left = <<"circular_flow">> THEN {"shared_device", "shared_payout"}
  ELSE {"shared_device", "shared_payout", "circular_flow"}

Explained(c) ==
  /\ c.method = "shared_device" => GroupsADevice(c)
  /\ c.method = "shared_payout" => FansIn(c)
  /\ c.method = "circular_flow" => GoesRound(c)

NoneMissed ==
  /\ "shared_device" \in DoneBy(pending) => Found("shared_device") = SharedDeviceCandidates
  /\ "shared_payout" \in DoneBy(pending) => Found("shared_payout") = SharedPayoutCandidates
  /\ pending = <<>> =>
       \A q : IsCycle(q) =>
         \E c \in candidates : c.method = "circular_flow" /\ c.members = Canonical(Payers(q))

DetectionInv ==
  /\ IsGraph
  /\ pending \in Pendings
  /\ \A c \in candidates : c.method \in DoneBy(pending) /\ Explained(c)
  /\ OneEach(candidates)
  /\ NoneMissed

\* Nothing has been found when detection starts.
LEMMA NothingFoundYet ==
  ASSUME IsGraph, pending = Detectors, candidates = {}
  PROVE  DetectionInv
<1>1. Detectors # <<>> /\ DoneBy(Detectors) = {}
  BY DEF Detectors, DoneBy
<1> QED BY <1>1 DEF DetectionInv, Pendings, OneEach, NoneMissed

\* Detection starts with a graph of the kind its assumption describes.
LEMMA InitSatisfies == Init => DetectionInv
<1> SUFFICES ASSUME Init PROVE DetectionInv
  OBVIOUS
<1>1. PICK g \in Graphs : accounts = g.accounts /\ tx = g.tx
  BY DEF Init
<1>2. IsGraph
  BY <1>1, DetectionAssumption DEF IsGraph
<1>3. pending = Detectors /\ candidates = {}
  BY DEF Init
<1> QED BY <1>2, <1>3, NothingFoundYet

\* A detector leaves the graph alone, and with it what was said of candidates.
LEMMA ExplanationsLast ==
  ASSUME UNCHANGED <<accounts, tx>>
  PROVE  /\ IsGraph => IsGraph'
         /\ \A c : Explained(c) => Explained(c)'
         /\ \A q : IsCycle(q) <=> IsCycle(q)'
         /\ SharedDeviceCandidates' = SharedDeviceCandidates
         /\ SharedPayoutCandidates' = SharedPayoutCandidates
<1>1. accounts' = accounts /\ tx' = tx
  OBVIOUS
<1>2. IsGraph => IsGraph'
  BY <1>1 DEF IsGraph
<1>3. \A q : IsCycle(q) <=> IsCycle(q)'
  BY <1>1 DEF IsCycle, IsTrail
<1>4. \A c : GroupsADevice(c) => GroupsADevice(c)'
  BY <1>1 DEF GroupsADevice
<1>5. \A c : FansIn(c) => FansIn(c)'
  BY <1>1 DEF FansIn
<1>6. \A c : GoesRound(c) => GoesRound(c)'
  BY <1>3 DEF GoesRound
<1>7. \A c : Explained(c) => Explained(c)'
  BY <1>4, <1>5, <1>6 DEF Explained
<1>8. SharedDeviceCandidates' = SharedDeviceCandidates
  BY <1>1 DEF SharedDeviceCandidates, SharedDevices, GroupOf
<1>9. SharedPayoutCandidates' = SharedPayoutCandidates
  BY <1>1 DEF SharedPayoutCandidates, FanIns, TransfersTo
<1> QED BY <1>2, <1>3, <1>7, <1>8, <1>9

\* The detectors take their turns, and each is done once it has had its own.
LEMMA Turns ==
  ASSUME NEW left \in Pendings, left # <<>>
  PROVE  /\ Tail(left) \in Pendings
         /\ Head(left) \in {"shared_device", "shared_payout", "circular_flow"}
         /\ Head(left) \notin DoneBy(left)
         /\ DoneBy(Tail(left)) = DoneBy(left) \cup {Head(left)}
         /\ Tail(left) = <<>> => Head(left) = "circular_flow"
<1> DEFINE all == <<"shared_device", "shared_payout", "circular_flow">>
           two == <<"shared_payout", "circular_flow">>
           one == <<"circular_flow">>
           none == <<>>
<1>1. Head(all) = "shared_device" /\ Tail(all) = two
  OBVIOUS
<1>2. Head(two) = "shared_payout" /\ Tail(two) = one
  OBVIOUS
<1>3. Head(one) = "circular_flow" /\ Tail(one) = none
  OBVIOUS
<1>4. /\ all # two /\ all # one /\ all # none
      /\ two # one /\ two # none /\ one # none
  <2>1. Len(all) = 3 /\ Len(two) = 2 /\ Len(one) = 1 /\ Len(none) = 0
    OBVIOUS
  <2> HIDE DEF all, two, one, none
  <2> QED BY <2>1
<1>5. Detectors = all /\ Pendings = {all, two, one, none}
  BY DEF Detectors, Pendings
<1>6. \A l : DoneBy(l) = IF l = all THEN {}
                        ELSE IF l = two THEN {"shared_device"}
                        ELSE IF l = one THEN {"shared_device", "shared_payout"}
                        ELSE {"shared_device", "shared_payout", "circular_flow"}
  BY <1>5 DEF DoneBy
<1> HIDE DEF all, two, one, none
<1>7. DoneBy(all) = {} /\ DoneBy(two) = {"shared_device"}
  BY <1>4, <1>6
<1>8. /\ DoneBy(one) = {"shared_device", "shared_payout"}
      /\ DoneBy(none) = {"shared_device", "shared_payout", "circular_flow"}
  BY <1>4, <1>6
<1>9. left \in {all, two, one} /\ left # none
  BY <1>5 DEF none
<1>10. CASE left = all
  BY <1>1, <1>4, <1>5, <1>7, <1>10 DEF none
<1>11. CASE left = two
  BY <1>2, <1>4, <1>5, <1>7, <1>8, <1>11 DEF none
<1>12. CASE left = one
  BY <1>3, <1>5, <1>8, <1>12 DEF none
<1> QED BY <1>9, <1>10, <1>11, <1>12

\* One detector's turn.
LEMMA RunSatisfies ==
  ASSUME DetectionInv, NEW method, NEW found, Run(method, found),
         \A c \in found : c.method = method /\ Explained(c),
         OneEach(found),
         method = "shared_device" => found = SharedDeviceCandidates,
         method = "shared_payout" => found = SharedPayoutCandidates,
         method = "circular_flow" =>
           \A q : IsCycle(q) => \E c \in found : c.members = Canonical(Payers(q))
  PROVE  DetectionInv'
<1>1. /\ pending # <<>> /\ Head(pending) = method /\ pending' = Tail(pending)
      /\ candidates' = candidates \cup found
      /\ UNCHANGED <<accounts, tx>>
  BY DEF Run
<1>2. pending \in Pendings
  BY DEF DetectionInv
<1>3. /\ pending' \in Pendings
      /\ method \notin DoneBy(pending)
      /\ DoneBy(pending') = DoneBy(pending) \cup {method}
      /\ pending' = <<>> => method = "circular_flow"
  BY <1>1, <1>2, Turns
<1>4. IsGraph'
  BY <1>1, ExplanationsLast DEF DetectionInv
<1>5. \A c : Explained(c) => Explained(c)'
  BY <1>1, ExplanationsLast
<1>6. \A c \in candidates' : c.method \in DoneBy(pending') /\ Explained(c)'
  BY <1>1, <1>3, <1>5 DEF DetectionInv
<1>7. OneEach(candidates)'
  <2> SUFFICES ASSUME NEW c \in candidates', NEW d \in candidates',
                      c.method = d.method, c.key = d.key
               PROVE  c = d
    BY DEF OneEach
  <2>1. \A e \in candidates : e.method # method
    BY <1>3 DEF DetectionInv
  <2>2. (c \in candidates /\ d \in candidates) \/ (c \in found /\ d \in found)
    BY <1>1, <2>1
  <2> QED BY <2>2 DEF DetectionInv, OneEach
<1>8. NoneMissed'
  <2>1. \A m : Found(m)' = IF m = method THEN found ELSE Found(m)
    <3> SUFFICES ASSUME NEW m PROVE Found(m)' = IF m = method THEN found ELSE Found(m)
      OBVIOUS
    <3>1. \A e \in candidates : e.method # method
      BY <1>3 DEF DetectionInv
    <3>2. Found(m)' = {c \in candidates' : c.method = m}
      BY DEF Found
    <3> QED BY <1>1, <3>1, <3>2 DEF Found
  <2>2. ASSUME "shared_device" \in DoneBy(pending')
        PROVE  Found("shared_device")' = SharedDeviceCandidates
    <3>1. CASE method = "shared_device"
      BY <2>1, <3>1
    <3>2. CASE method # "shared_device"
      <4>1. "shared_device" \in DoneBy(pending)
        BY <1>3, <2>2, <3>2
      <4> QED BY <2>1, <3>2, <4>1 DEF DetectionInv, NoneMissed
    <3> QED BY <3>1, <3>2
  <2>3. ASSUME "shared_payout" \in DoneBy(pending')
        PROVE  Found("shared_payout")' = SharedPayoutCandidates
    <3>1. CASE method = "shared_payout"
      BY <2>1, <3>1
    <3>2. CASE method # "shared_payout"
      <4>1. "shared_payout" \in DoneBy(pending)
        BY <1>3, <2>3, <3>2
      <4> QED BY <2>1, <3>2, <4>1 DEF DetectionInv, NoneMissed
    <3> QED BY <3>1, <3>2
  <2>4. ASSUME pending' = <<>>, NEW q, IsCycle(q)'
        PROVE  \E c \in candidates' :
                 c.method = "circular_flow" /\ c.members = Canonical(Payers(q))
    <3>1. IsCycle(q)
      BY <1>1, <2>4, ExplanationsLast
    <3>2. method = "circular_flow"
      BY <1>3, <2>4
    <3>3. PICK c \in found : c.members = Canonical(Payers(q))
      BY <3>1, <3>2
    <3> QED BY <1>1, <3>2, <3>3
  <2>5. /\ SharedDeviceCandidates' = SharedDeviceCandidates
        /\ SharedPayoutCandidates' = SharedPayoutCandidates
    BY <1>1, ExplanationsLast
  <2>6. /\ ("shared_device" \in DoneBy(pending) => Found("shared_device") = SharedDeviceCandidates)'
        /\ ("shared_payout" \in DoneBy(pending) => Found("shared_payout") = SharedPayoutCandidates)'
    BY <2>2, <2>3, <2>5 DEF DoneBy
  <2>7. (pending = <<>> =>
           \A q : IsCycle(q) =>
             \E c \in candidates : c.method = "circular_flow" /\ c.members = Canonical(Payers(q)))'
    BY ONLY <2>4
  <2> QED BY ONLY <2>6, <2>7 DEF NoneMissed
<1>9. (\A c \in candidates : c.method \in DoneBy(pending) /\ Explained(c))'
  BY <1>6
<1> QED BY <1>3, <1>4, <1>7, <1>8, <1>9 DEF DetectionInv

\* No detector breaks what was said of the candidates.
LEMMA DetectionKeeps ==
  ASSUME DetectionInv, [Next]_vars
  PROVE  DetectionInv'
<1>1. IsGraph
  BY DEF DetectionInv
<1>2. CASE DetectSharedDevice
  <2>1. Run("shared_device", SharedDeviceCandidates)
    BY <1>2 DEF DetectSharedDevice
  <2>2. \A c \in SharedDeviceCandidates : c.method = "shared_device" /\ Explained(c)
    BY DeviceCandidates DEF Explained
  <2> QED BY <2>1, <2>2, DeviceCandidates, RunSatisfies
<1>3. CASE DetectSharedPayout
  <2>1. Run("shared_payout", SharedPayoutCandidates)
    BY <1>3 DEF DetectSharedPayout
  <2>2. \A c \in SharedPayoutCandidates : c.method = "shared_payout" /\ Explained(c)
    BY <1>1, PayoutCandidates DEF Explained
  <2> QED BY <1>1, <2>1, <2>2, PayoutCandidates, RunSatisfies
<1>4. CASE DetectCircularFlow
  <2>1. PICK found \in CircularFlowChoices : Run("circular_flow", found)
    BY <1>4 DEF DetectCircularFlow
  <2>2. /\ \A c \in found : c.method = "circular_flow" /\ GoesRound(c)
        /\ OneEach(found)
        /\ \A q : IsCycle(q) => \E c \in found : c.members = Canonical(Payers(q))
    BY <1>1, CircularCandidates
  <2>3. \A c \in found : c.method = "circular_flow" /\ Explained(c)
    BY <2>2 DEF Explained
  <2> QED BY <2>1, <2>2, <2>3, RunSatisfies
<1>5. CASE UNCHANGED vars
  <2>1. UNCHANGED <<accounts, tx>> /\ pending' = pending /\ candidates' = candidates
    BY <1>5 DEF vars
  <2>2. IsGraph' /\ (\A c : Explained(c) => Explained(c)') /\ (\A q : IsCycle(q) <=> IsCycle(q)')
    BY <1>1, <2>1, ExplanationsLast
  <2>3. (\A c \in candidates : c.method \in DoneBy(pending) /\ Explained(c))'
    BY <2>1, <2>2 DEF DetectionInv
  <2>4. NoneMissed'
    <3>1. /\ Found("shared_device")' = Found("shared_device")
          /\ Found("shared_payout")' = Found("shared_payout")
          /\ DoneBy(pending') = DoneBy(pending)
      BY <2>1 DEF Found
    <3>2. /\ SharedDeviceCandidates' = SharedDeviceCandidates
          /\ SharedPayoutCandidates' = SharedPayoutCandidates
      BY <1>1, <2>1, ExplanationsLast
    <3> QED BY <2>1, <2>2, <3>1, <3>2 DEF DetectionInv, NoneMissed
  <2>5. OneEach(candidates)' /\ (pending \in Pendings)'
    BY <2>1 DEF DetectionInv, OneEach, Pendings
  <2> QED BY <2>2, <2>3, <2>4, <2>5 DEF DetectionInv
<1> QED BY <1>2, <1>3, <1>4, <1>5 DEF Next

\* What is said of the candidates holds of every run of the detectors.
THEOREM DetectionInvariant == Spec => []DetectionInv
<1>1. DetectionInv /\ [Next]_vars => DetectionInv'
  BY DetectionKeeps
<1> QED BY <1>1, InitSatisfies, PTL DEF Spec

--------------------------------------------------------------------------------
(* What follows of single candidates.                                          *)

\* A walk round a cycle: the members, and who pays next.
LEMMA WalkFacts ==
  ASSUME IsGraph, NEW q, IsCycle(q)
  PROVE  LET n == Len(q)
             m == Payers(q)
         IN  /\ n \in Nat \ {0} /\ n >= MinCycleLen /\ DOMAIN q = 1..n
             /\ m \in Seq(DOMAIN accounts) /\ Len(m) = n /\ DOMAIN m = 1..n
             /\ \A i \in 1..n : /\ q[i] \in tx
                                /\ m[i] = q[i].from /\ m[(i % n) + 1] = q[i].to
<1> DEFINE n == Len(q)
           m == Payers(q)
<1>1. /\ q \in Seq(tx) /\ n \in Nat \ {0} /\ DOMAIN q = 1..n
      /\ n \in MinCycleLen..MaxCycleLen
  BY DEF IsCycle, IsTrail
<1>2. n >= MinCycleLen
  BY <1>1, DetectionAssumption
<1>3. q[n].to = q[1].from /\ \A i \in 1..(n - 1) : q[i].to = q[i + 1].from
  BY DEF IsCycle, IsTrail
<1>4. \A i \in 1..n : q[i] \in tx /\ q[i].from \in DOMAIN accounts
  BY <1>1 DEF IsGraph
<1>5. m = [i \in 1..n |-> q[i].from]
  BY <1>1 DEF Payers
<1> HIDE DEF n, m
<1>6. m \in Seq(DOMAIN accounts) /\ Len(m) = n /\ DOMAIN m = 1..n
  BY <1>1, <1>4, <1>5
<1>7. ASSUME NEW i \in 1..n
      PROVE  m[i] = q[i].from /\ m[(i % n) + 1] = q[i].to
  <2>1. (i % n) + 1 = IF i = n THEN 1 ELSE i + 1
    BY <1>1, NextPlace
  <2>2. CASE i = n
    <3>1. m[1] = q[1].from
      BY <1>1, <1>5
    <3> QED BY <1>3, <1>5, <2>1, <2>2, <3>1
  <2>3. CASE i # n
    <3>1. i + 1 \in 1..n /\ i \in 1..(n - 1)
      BY <1>1, <2>3
    <3> QED BY <1>3, <1>5, <2>1, <2>3, <3>1
  <2> QED BY <2>2, <2>3
<1> QED BY <1>1, <1>2, <1>4, <1>6, <1>7 DEF n, m

\* Members are accounts of the graph, in order where the code sorts them, and as
\* many as the detector asks for.
LEMMA MembersAreAccounts ==
  ASSUME IsGraph, NEW c, Explained(c),
         c.method \in {"shared_device", "shared_payout", "circular_flow"}
  PROVE  /\ ToSet(c.members) \subseteq DOMAIN accounts
         /\ Len(c.members) >= FewestMembers(c.method) /\ c.score \in Verdicts!Scores
         /\ c.legs \subseteq tx
         /\ c.method # "circular_flow" =>
              \A i \in 1..(Len(c.members) - 1) : c.members[i] <= c.members[i + 1]
<1>1. CASE c.method = "shared_device"
  <2>1. PICK G \in SUBSET DOMAIN accounts :
          /\ Cardinality(G) > 1
          /\ c.members = SortedValues([a \in G |-> a])
          /\ c.legs = {}
          /\ c.score = DeviceScore(Cardinality(G))
    BY <1>1 DEF Explained, GroupsADevice
  <2> DEFINE key == [a \in G |-> a]
             V == {key[x] : x \in G}
  <2>2. DOMAIN key = G /\ (\A x \in G : key[x] \in Int) /\ V \in SUBSET DOMAIN accounts
    BY DEF IsGraph
  <2>3. IsFiniteSet(G)
    BY FS_Subset DEF IsGraph
  <2>7. c.members = SortedValues(key)
    BY <2>1
  <2> HIDE DEF key
  <2>4. /\ Cardinality(G) \in Nat
        /\ c.members \in Seq(V) /\ Len(c.members) = Cardinality(G)
        /\ \A i \in 1..(Len(c.members) - 1) : c.members[i] <= c.members[i + 1]
    BY <2>2, <2>3, <2>7, SortedValuesFacts
  <2> HIDE DEF V
  <2>5. ToSet(c.members) \subseteq DOMAIN accounts
    BY <2>2, <2>4 DEF ToSet
  <2>6. c.score \in Verdicts!Scores
    <3>1. \A n \in Nat : n > 1 => DeviceScore(n) \in Verdicts!Scores
      BY SMTT(30) DEF DeviceScore, Verdicts!Scores
    <3> QED BY <2>1, <2>4, <3>1
  <2>8. FewestMembers(c.method) = 2
    BY <1>1 DEF FewestMembers
  <2> QED BY <2>1, <2>4, <2>5, <2>6, <2>8
<1>2. CASE c.method = "shared_payout"
  <2>1. FansIn(c)
    BY <1>2 DEF Explained
  <2> DEFINE key == [t \in c.legs |-> t.from]
             V == {key[t] : t \in c.legs}
  <2>2. /\ DOMAIN key = c.legs /\ V \in SUBSET DOMAIN accounts
        /\ \A t \in c.legs : key[t] \in Int
    BY <2>1 DEF IsGraph, FansIn
  <2>3. IsFiniteSet(c.legs)
    BY <2>1, FS_Subset DEF IsGraph, FansIn
  <2>4. c.members = SortedValues(key)
    BY <2>1 DEF FansIn
  <2> HIDE DEF key
  <2>5. /\ Cardinality(c.legs) \in Nat
        /\ c.members \in Seq(V) /\ Len(c.members) = Cardinality(c.legs)
        /\ \A i \in 1..(Len(c.members) - 1) : c.members[i] <= c.members[i + 1]
    BY <2>2, <2>3, <2>4, SortedValuesFacts
  <2> HIDE DEF V
  <2>6. ToSet(c.members) \subseteq DOMAIN accounts
    BY <2>2, <2>5 DEF ToSet
  <2>7. c.score \in Verdicts!Scores
    <3>1. StepWindow(c.legs) \in Nat
      BY <2>1, DetectionAssumption DEF FansIn
    <3>2. PayoutScore(Cardinality(c.legs), StepWindow(c.legs)) \in Verdicts!Scores
      BY <2>5, <3>1, PayoutScoreType
    <3>3. c.score = PayoutScore(Cardinality(c.legs), StepWindow(c.legs))
      BY <2>1 DEF FansIn
    <3> QED BY <3>2, <3>3
  <2>8. FewestMembers(c.method) = MinFaninSize
    BY <1>2 DEF FewestMembers
  <2>9. Cardinality(c.legs) >= MinFaninSize /\ c.legs \subseteq tx
    BY <2>1, <2>5, DetectionAssumption DEF FansIn
  <2> QED BY <2>5, <2>6, <2>7, <2>8, <2>9
<1>3. CASE c.method = "circular_flow"
  <2>1. PICK q : /\ IsCycle(q) /\ c.members = Payers(q) /\ c.legs = ToSet(q)
                 /\ c.score \in Verdicts!Scores
    BY <1>3, FlowScoreType DEF Explained, GoesRound
  <2>2. /\ c.members \in Seq(DOMAIN accounts) /\ Len(c.members) >= MinCycleLen
        /\ DOMAIN q = 1..Len(q) /\ \A i \in 1..Len(q) : q[i] \in tx
    BY <2>1, WalkFacts
  <2>3. ToSet(c.members) \subseteq DOMAIN accounts /\ c.legs \subseteq tx
    BY <2>1, <2>2 DEF ToSet
  <2>4. FewestMembers(c.method) = MinCycleLen
    BY <1>3 DEF FewestMembers
  <2>5. Len(c.members) >= FewestMembers(c.method)
    BY <2>2, <2>4
  <2> QED BY <1>3, <2>1, <2>3, <2>5
<1> QED BY <1>1, <1>2, <1>3

\* The legs of a walk are its steps, each as often as the walk takes it.
LEMMA LegsAreSteps ==
  ASSUME IsGraph, NEW c, GoesRound(c)
  PROVE  LET next(i)   == c.members[(i % Len(c.members)) + 1]
             steps     == {<<c.members[i], next(i)>> : i \in DOMAIN c.members}
             times(s)  == Cardinality({i \in DOMAIN c.members : <<c.members[i], next(i)>> = s})
         IN  /\ {<<t.from, t.to>> : t \in c.legs} = steps
             /\ \A s \in steps : Cardinality({t \in c.legs : <<t.from, t.to>> = s}) = times(s)
<1>1. PICK q : IsCycle(q) /\ c.members = Payers(q) /\ c.legs = ToSet(q)
  BY DEF GoesRound
<1> DEFINE n == Len(c.members)
           next(i) == c.members[(i % n) + 1]
           steps == {<<c.members[i], next(i)>> : i \in DOMAIN c.members}
           At(s) == {i \in DOMAIN c.members : <<c.members[i], next(i)>> = s}
           Legs(s) == {t \in c.legs : <<t.from, t.to>> = s}
<1>2. /\ n \in Nat \ {0} /\ n = Len(q) /\ DOMAIN c.members = 1..n /\ DOMAIN q = 1..n
      /\ \A i \in 1..n : c.members[i] = q[i].from /\ next(i) = q[i].to
  BY <1>1, WalkFacts
<1>3. c.legs = {q[i] : i \in 1..n}
  BY <1>1, <1>2 DEF ToSet
<1>4. \A i, j \in 1..n : q[i] = q[j] => i = j
  BY <1>1, <1>2 DEF IsCycle, IsTrail, IsInjective
<1> HIDE DEF n, next
<1>5. {<<t.from, t.to>> : t \in c.legs} = steps
  <2>1. \A i \in 1..n : <<c.members[i], next(i)>> = <<q[i].from, q[i].to>>
    BY <1>2
  <2>2. \A s \in steps : s \in {<<t.from, t.to>> : t \in c.legs}
    BY <1>2, <1>3, <2>1
  <2>3. \A t \in c.legs : <<t.from, t.to>> \in steps
    BY <1>2, <1>3, <2>1
  <2> HIDE DEF steps
  <2> QED BY <2>2, <2>3
<1>6. ASSUME NEW s
      PROVE  Cardinality(Legs(s)) = Cardinality(At(s))
  <2> DEFINE f == [i \in At(s) |-> q[i]]
  <2>1. At(s) \in SUBSET (1..n)
    BY <1>2
  <2>2. \A i \in 1..n : i \in At(s) <=> q[i] \in Legs(s)
    BY <1>2, <1>3
  <2>3. \A t \in Legs(s) : \E i \in 1..n : t = q[i]
    BY <1>3
  <2> HIDE DEF At, Legs
  <2>4. f \in [At(s) -> Legs(s)]
    BY <2>1, <2>2
  <2>5. \A t \in Legs(s) : \E i \in At(s) : f[i] = t
    BY <2>1, <2>2, <2>3
  <2>6. \A i, j \in At(s) : f[i] = f[j] => i = j
    BY <1>4, <2>1
  <2> HIDE DEF f
  <2>7. f \in Bijection(At(s), Legs(s))
    BY <2>4, <2>5, <2>6 DEF Bijection, Injection, Surjection, IsInjective
  <2>8. IsFiniteSet(At(s))
    <3> DEFINE D == 1..n
    <3>1. IsFiniteSet(D)
      BY <1>2, FS_Interval
    <3>2. At(s) \in SUBSET D
      BY <2>1
    <3> HIDE DEF D
    <3> QED BY <3>1, <3>2, FS_Subset
  <2> QED BY <2>7, <2>8, FS_Bijection DEF ExistsBijection
<1> QED BY <1>5, <1>6 DEF n, next

\* What a fan-in that passed the filters scores, for the code's limits.
LEMMA FanInScores ==
  ASSUME MinFaninSize >= 3, MaxFaninSize = 8, MaxFaninStepWindow <= 60,
         NEW n \in MinFaninSize..MaxFaninSize, NEW w \in 0..MaxFaninStepWindow
  PROVE  /\ PayoutScore(n, w) >= 500
         /\ PayoutScore(n, w) >= 4000 => n >= 4 /\ w <= 15
<1> DEFINE a == 200000 * n + 8 * (10 + w)
           b == 16 * (10 + w)
<1>1. n \in Nat /\ w \in Nat /\ 3 <= n /\ n <= 8 /\ w <= 60
  BY DetectionAssumption
<1>2. PayoutScore(n, w) = a \div b
  <2>1. (IF n < MaxFaninSize THEN n ELSE MaxFaninSize) = n
    BY <1>1
  <2>2. 2 * (100000 * n) + 8 * (10 + w) = a /\ 2 * (8 * (10 + w)) = b
    BY <1>1
  <2>3. PayoutScore(n, w) = (2 * (100000 * n) + 8 * (10 + w)) \div (2 * (8 * (10 + w)))
    BY <2>1 DEF PayoutScore, RoundDiv
  <2> HIDE DEF a, b
  <2> QED BY <2>2, <2>3
<1>3. a \in Nat /\ b \in Nat \ {0}
  BY <1>1
<1>4. b * 500 <= a
  BY <1>1
<1>5. (n < 4 \/ w > 15) => a < b * (3999 + 1)
  BY <1>1
<1> HIDE DEF a, b
<1>6. a \div b \in Nat /\ 500 <= a \div b
  BY <1>3, <1>4, QuotientBounds
<1>7. (n < 4 \/ w > 15) => a \div b <= 3999
  BY <1>3, <1>5, QuotientBounds
<1> DEFINE s == a \div b
<1>8. s \in Nat /\ 500 <= s /\ ((n < 4 \/ w > 15) => s <= 3999) /\ PayoutScore(n, w) = s
  BY <1>2, <1>6, <1>7
<1> HIDE DEF s
<1> QED BY <1>1, <1>8

\* Narrower limits on the size only make it higher.
LEMMA FanInReachesAgent ==
  ASSUME MinFaninSize >= 3, MaxFaninSize <= 8, NEW n \in MinFaninSize..MaxFaninSize,
         NEW w \in 0..60
  PROVE  PayoutScore(n, w) >= 500
<1> DEFINE p == MaxFaninSize * (10 + w)
           a == 200000 * n + p
           b == 2 * p
<1>1. n \in Nat /\ w \in Nat /\ 3 <= n /\ n <= MaxFaninSize /\ w <= 60 /\ MaxFaninSize \in Nat
  BY DetectionAssumption
<1>2. PayoutScore(n, w) = a \div b
  <2>1. (IF n < MaxFaninSize THEN n ELSE MaxFaninSize) = n
    BY <1>1
  <2>2. PayoutScore(n, w) = (2 * (100000 * n) + MaxFaninSize * (10 + w)) \div (2 * (MaxFaninSize * (10 + w)))
    BY <2>1 DEF PayoutScore, RoundDiv
  <2>3. 2 * (100000 * n) = 200000 * n
    BY <1>1
  <2> QED BY <2>2, <2>3
<1>3. p \in 30..560
  <2>1. MaxFaninSize \in {3, 4, 5, 6, 7, 8}
    BY <1>1
  <2> QED BY <1>1, <2>1
<1> HIDE DEF p
<1>4. a \in Nat /\ b \in Nat \ {0} /\ b * 500 <= a
  BY <1>1, <1>3
<1> HIDE DEF a, b
<1>5. a \div b \in Nat /\ 500 <= a \div b
  BY <1>4, QuotientBounds
<1> DEFINE s == a \div b
<1>6. s \in Nat /\ 500 <= s /\ PayoutScore(n, w) = s
  BY <1>2, <1>5
<1> HIDE DEF s
<1> QED BY <1>6

\* A rotation that starts with its smallest account starts at a place of the sequence
\* where its smallest is.
LEMMA RotationStartsSmallest ==
  ASSUME NEW T \in SUBSET Int, NEW s \in Seq(T), NEW x \in 1..Len(s),
         \A i \in 1..Len(s) : Rotation(s, x)[1] <= Rotation(s, x)[i]
  PROVE  \A l \in 1..Len(s) : s[x] <= s[l]
<1> DEFINE n == Len(s)
           r == Rotation(s, x)
<1>1. n \in Nat /\ x \in 1..n /\ \A i \in 1..n : r[1] <= r[i]
  OBVIOUS
<1>2. \A i \in 1..n : r[i] = IF i <= n - x + 1 THEN s[i + x - 1] ELSE s[i + x - 1 - n]
  BY RotationFacts
<1> HIDE DEF r, n
<1>3. r[1] = s[x]
  <2>1. 1 \in 1..n /\ 1 <= n - x + 1 /\ 1 + x - 1 = x
    BY <1>1
  <2> QED BY <1>2, <2>1
<1>4. \A l \in 1..n : s[x] <= s[l]
  <2> TAKE l \in 1..n
  <2>1. CASE l >= x
    <3>1. l - x + 1 \in 1..n /\ l - x + 1 <= n - x + 1 /\ (l - x + 1) + x - 1 = l
      BY <1>1, <2>1
    <3>2. r[l - x + 1] = s[l]
      BY <1>2, <3>1
    <3> QED BY <1>1, <1>3, <3>1, <3>2
  <2>2. CASE l < x
    <3>1. /\ l - x + 1 + n \in 1..n /\ ~(l - x + 1 + n <= n - x + 1)
          /\ (l - x + 1 + n) + x - 1 - n = l
      BY <1>1, <2>2
    <3>2. r[l - x + 1 + n] = s[l]
      BY <1>2, <3>1
    <3> QED BY <1>1, <1>3, <3>1, <3>2
  <2>3. l >= x \/ l < x
    BY <1>1
  <2> QED BY <2>1, <2>2, <2>3
<1> QED BY <1>4 DEF n

\* Two rotations of an injective sequence that start with its smallest account are
\* the same.
LEMMA OneSmallestRotation ==
  ASSUME NEW T \in SUBSET Int, NEW s \in Seq(T), IsInjective(s),
         NEW j \in 1..Len(s), NEW k \in 1..Len(s),
         \A i \in 1..Len(s) : Rotation(s, j)[1] <= Rotation(s, j)[i],
         \A i \in 1..Len(s) : Rotation(s, k)[1] <= Rotation(s, k)[i]
  PROVE  j = k
<1>1. \A l \in 1..Len(s) : s[j] <= s[l] /\ s[k] <= s[l]
  BY RotationStartsSmallest
<1>2. s[j] = s[k]
  <2>1. s[j] <= s[k] /\ s[k] <= s[j]
    BY <1>1
  <2>2. s[j] \in T /\ s[k] \in T
    OBVIOUS
  <2>3. s[j] \in Int /\ s[k] \in Int
    BY <2>2
  <2> QED BY <2>1, <2>3
<1>3. j \in DOMAIN s /\ k \in DOMAIN s
  OBVIOUS
<1> QED BY <1>2, <1>3 DEF IsInjective

\* A set of candidates that rotate one walk is no larger than the number of times
\* the walk passes its smallest account.
LEMMA OneForEachPassing ==
  ASSUME IsGraph, OneEach(candidates),
         NEW c, GoesRound(c),
         NEW D, \A d \in D : /\ d \in candidates /\ d.method = "circular_flow"
                             /\ GoesRound(d) /\ d.members \in Rotations(c.members)
  PROVE  Cardinality(D)
           <= Cardinality({i \in DOMAIN c.members : c.members[i] = Min(ToSet(c.members))})
<1> DEFINE s == c.members
           n == Len(s)
           I == {i \in DOMAIN s : s[i] = Min(ToSet(s))}
<1>1. DOMAIN accounts \in SUBSET Int
  BY DEF IsGraph
<1>2. s \in Seq(DOMAIN accounts) /\ n \in Nat \ {0} /\ DOMAIN s = 1..n
  <2>1. PICK q : IsCycle(q) /\ s = Payers(q)
    BY DEF GoesRound
  <2> QED BY <2>1, WalkFacts
<1>3. \A x \in 1..n : (\A l \in 1..n : s[x] <= s[l]) => x \in I
  <2> SUFFICES ASSUME NEW x \in 1..n, \A l \in 1..n : s[x] <= s[l] PROVE s[x] = Min(ToSet(s))
    BY <1>2
  <2> DEFINE V == ToSet(s)
  <2>1. \A v \in V : v \in Int /\ s[x] <= v
    BY <1>1, <1>2 DEF ToSet
  <2>2. s[x] \in V
    BY <1>2 DEF ToSet
  <2> HIDE DEF V
  <2>3. \A v \in V : (\A w \in V : v <= w) => v = s[x]
    BY <2>1, <2>2
  <2>4. Min(V) = CHOOSE v \in V : \A w \in V : v <= w
    BY DEF Min
  <2> QED BY <2>1, <2>2, <2>3, <2>4 DEF V
<1>4. ASSUME NEW d \in D
      PROVE  \E x \in 1..n : d.members = Rotation(s, x) /\ x \in I
  <2>1. PICK x \in 1..n : d.members = Rotation(s, x)
    BY <1>2 DEF Rotations
  <2>2. PICK r : /\ IsCycle(r) /\ \A i \in DOMAIN r : r[1].from <= r[i].from
                 /\ d.members = Payers(r)
    BY DEF GoesRound
  <2>3. Len(d.members) = n
    BY <1>2, <2>1, RotationFacts
  <2>4. DOMAIN r = 1..n /\ \A i \in 1..n : d.members[i] = r[i].from
    BY <2>2, <2>3, WalkFacts
  <2>5. \A i \in 1..n : Rotation(s, x)[1] <= Rotation(s, x)[i]
    <3>1. 1 \in 1..n
      BY <1>2
    <3> QED BY <2>1, <2>2, <2>4, <3>1
  <2>6. \A l \in 1..n : s[x] <= s[l]
    BY <1>1, <1>2, <2>5, RotationStartsSmallest
  <2> QED BY <1>3, <2>1, <2>6
<1> DEFINE start(d) == CHOOSE x \in 1..n : d.members = Rotation(s, x) /\ x \in I
           f == [d \in D |-> start(d)]
<1>5. \A d \in D : f[d] \in I /\ d.members = Rotation(s, f[d])
  <2> SUFFICES ASSUME NEW d \in D PROVE f[d] \in I /\ d.members = Rotation(s, f[d])
    OBVIOUS
  <2>1. f[d] = start(d)
    OBVIOUS
  <2> HIDE DEF f, I, n
  <2>2. \E x \in 1..n : d.members = Rotation(s, x) /\ x \in I
    BY <1>4
  <2> QED BY <2>1, <2>2
<1>6. DOMAIN f = D /\ f = [d \in D |-> f[d]]
  OBVIOUS
<1>7. IsFiniteSet(I)
  <2>1. IsFiniteSet(1..n)
    BY <1>2, FS_Interval
  <2>2. I \in SUBSET (1..n)
    BY <1>2
  <2> QED BY <2>1, <2>2, FS_Subset
<1> HIDE DEF f, I, start
<1>8. \A d, e \in D : f[d] = f[e] => d = e
  <2> SUFFICES ASSUME NEW d \in D, NEW e \in D, f[d] = f[e] PROVE d = e
    OBVIOUS
  <2>1. d.members = e.members
    BY <1>5
  <2>2. d.key = d.members /\ e.key = e.members
    BY DEF GoesRound
  <2> QED BY <2>1, <2>2 DEF OneEach
<1>9. f \in Injection(D, I)
  <2>1. f \in [D -> I]
    BY <1>5, <1>6
  <2> QED BY <1>6, <1>8, <2>1 DEF Injection, IsInjective
<1>10. Cardinality(D) <= Cardinality(I)
  BY <1>7, <1>9, FS_Injection
<1> QED BY <1>10 DEF I

\* A simple cycle is the sequence of the payers of a cycle of the graph.
LEMMA SimpleCycleIsWalked ==
  ASSUME IsGraph, NEW s \in SimpleCycles
  PROVE  /\ s \in Seq(DOMAIN accounts) /\ Len(s) >= 1 /\ IsInjective(s)
         /\ \E q : IsCycle(q) /\ Payers(q) = s
<1> DEFINE longest == IF Cardinality(DOMAIN accounts) < MaxCycleLen
                      THEN Cardinality(DOMAIN accounts) ELSE MaxCycleLen
           n == Len(s)
<1>1. Cardinality(DOMAIN accounts) \in Nat /\ longest \in Nat /\ longest <= MaxCycleLen
  BY FS_CardinalityType, DetectionAssumption DEF IsGraph
<1>2. PICK l \in MinCycleLen..longest : s \in [1..l -> DOMAIN accounts] /\ IsInjective(s)
  BY DEF SimpleCycles
<1> HIDE DEF longest
<1>3. l \in Nat \ {0} /\ l \in MinCycleLen..MaxCycleLen
  BY <1>1, <1>2, DetectionAssumption
<1>4. s \in Seq(DOMAIN accounts) /\ n = l /\ DOMAIN s = 1..n
  BY <1>2, <1>3
<1> HIDE DEF n
<1>5. \A i \in 1..n : \E t \in tx : t.from = s[i] /\ t.to = s[(i % n) + 1]
  BY <1>4 DEF SimpleCycles, n
<1> DEFINE q == [i \in 1..n |-> CHOOSE t \in tx : t.from = s[i] /\ t.to = s[(i % n) + 1]]
<1>6. \A i \in 1..n : q[i] \in tx /\ q[i].from = s[i] /\ q[i].to = s[(i % n) + 1]
  <2> TAKE i \in 1..n
  <2>1. q[i] = CHOOSE t \in tx : t.from = s[i] /\ t.to = s[(i % n) + 1]
    OBVIOUS
  <2> HIDE DEF q
  <2> QED BY <1>5, <2>1
<1>7. q \in Seq(tx) /\ Len(q) = n /\ DOMAIN q = 1..n
  <2>1. q = [i \in 1..n |-> q[i]]
    OBVIOUS
  <2> HIDE DEF q
  <2>2. q \in [1..n -> tx]
    BY <1>6, <2>1
  <2> QED BY <1>3, <1>4, <2>2
<1> HIDE DEF q
<1>8. n \in Nat \ {0} /\ \A i \in 1..n : (i % n) + 1 = IF i = n THEN 1 ELSE i + 1
  BY <1>3, <1>4, NextPlace
<1>9. IsInjective(q)
  BY <1>2, <1>4, <1>6, <1>7 DEF IsInjective
<1>10. ASSUME NEW i \in 1..(n - 1) PROVE q[i].to = q[i + 1].from
  <2>1. i \in 1..n /\ i + 1 \in 1..n /\ i # n
    BY <1>8
  <2>2. (i % n) + 1 = i + 1
    BY <1>8, <2>1
  <2> QED BY <1>6, <2>1, <2>2
<1>11. q[n].to = q[1].from
  <2>1. n \in 1..n /\ 1 \in 1..n /\ (n % n) + 1 = 1
    BY <1>8
  <2> QED BY <1>6, <2>1
<1>12. IsCycle(q)
  BY <1>3, <1>4, <1>7, <1>8, <1>9, <1>10, <1>11 DEF IsCycle, IsTrail
<1>13. Payers(q) = s
  <2>1. Payers(q) = [i \in 1..n |-> q[i].from]
    BY <1>7 DEF Payers
  <2>2. s = [i \in 1..n |-> s[i]]
    BY <1>2, <1>4
  <2> QED BY <1>6, <2>1, <2>2
<1> QED BY <1>2, <1>4, <1>8, <1>12, <1>13 DEF n

\* A cycle that passes no account twice is a simple one.
LEMMA InjectiveWalkIsSimple ==
  ASSUME IsGraph, NEW q, IsCycle(q), IsInjective(Payers(q))
  PROVE  Payers(q) \in SimpleCycles
<1> DEFINE n == Len(q)
           m == Payers(q)
           accountsOf(l) == {s \in [1..l -> DOMAIN accounts] : IsInjective(s)}
           longest == IF Cardinality(DOMAIN accounts) < MaxCycleLen
                      THEN Cardinality(DOMAIN accounts) ELSE MaxCycleLen
<1>1. /\ n \in Nat \ {0} /\ n >= MinCycleLen
      /\ m \in Seq(DOMAIN accounts) /\ Len(m) = n /\ DOMAIN m = 1..n
      /\ \A i \in 1..n : q[i] \in tx /\ m[i] = q[i].from /\ m[(i % n) + 1] = q[i].to
  BY WalkFacts
<1>2. n <= MaxCycleLen
  BY DetectionAssumption DEF IsCycle
<1> HIDE DEF n
<1>3. m \in [1..n -> DOMAIN accounts] /\ IsInjective(m)
  BY <1>1
<1> HIDE DEF m
<1>4. n <= Cardinality(DOMAIN accounts) /\ Cardinality(DOMAIN accounts) \in Nat
  <2> DEFINE D == 1..n
  <2>1. m \in Injection(D, DOMAIN accounts)
    BY <1>3 DEF Injection, IsInjective
  <2>2. IsFiniteSet(DOMAIN accounts)
    BY DEF IsGraph
  <2>3. Cardinality(D) = n
    <3>1. 1 \in Int /\ n \in Int /\ ~(1 > n) /\ n - 1 + 1 = n
      BY <1>1
    <3> QED BY <3>1, FS_Interval
  <2>4. Cardinality(D) <= Cardinality(DOMAIN accounts)
    <3> HIDE DEF D
    <3> QED BY <2>1, <2>2, FS_Injection
  <2> HIDE DEF D
  <2> QED BY <2>2, <2>3, <2>4, FS_CardinalityType
<1>5. n \in MinCycleLen..longest
  BY <1>1, <1>2, <1>4, DetectionAssumption
<1> HIDE DEF longest
<1>6. m \in accountsOf(n)
  BY <1>3
<1>7. m \in UNION {accountsOf(l) : l \in MinCycleLen..longest}
  <2> HIDE DEF accountsOf
  <2> QED BY <1>5, <1>6
<1>8. \A i \in DOMAIN m : \E t \in tx : t.from = m[i] /\ t.to = m[(i % Len(m)) + 1]
  <2> SUFFICES ASSUME NEW i \in 1..n
               PROVE  \E t \in tx : t.from = m[i] /\ t.to = m[(i % n) + 1]
    BY <1>1
  <2> QED BY <1>1
<1> QED BY <1>7, <1>8 DEF SimpleCycles, longest, m

--------------------------------------------------------------------------------
(* The properties.                                                             *)

\* What is known of a candidate makes it of the right type.
LEMMA TypesFromInv == DetectionInv => TypeOK
<1> SUFFICES ASSUME DetectionInv PROVE TypeOK
  OBVIOUS
<1> DEFINE all == <<"shared_device", "shared_payout", "circular_flow">>
           two == <<"shared_payout", "circular_flow">>
           one == <<"circular_flow">>
           methods == {"shared_device", "shared_payout", "circular_flow"}
<1>1. pending \in {all, two, one, <<>>}
  BY DEF DetectionInv, Pendings, Detectors
<1>2. Detectors = all /\ Tail(all) = two /\ Tail(two) = one
  <2>1. Tail(all) = two
    OBVIOUS
  <2>2. Tail(two) = one
    OBVIOUS
  <2> QED BY <2>1, <2>2 DEF Detectors
<1>3. pending \in {Detectors, Tail(Detectors), Tail(Tail(Detectors)), <<>>}
  <2> HIDE DEF all, two, one
  <2> QED BY <1>1, <1>2
<1>4. /\ ToSet(all) = methods /\ ToSet(two) = {"shared_payout", "circular_flow"}
      /\ ToSet(one) = {"circular_flow"} /\ ToSet(<<>>) = {}
  <2>1. DOMAIN all = {1, 2, 3} /\ DOMAIN two = {1, 2} /\ DOMAIN one = {1}
    OBVIOUS
  <2>2. /\ ToSet(all) = {all[1], all[2], all[3]} /\ ToSet(two) = {two[1], two[2]}
        /\ ToSet(one) = {one[1]}
    <3> HIDE DEF all, two, one
    <3> QED BY <2>1 DEF ToSet
  <2>3. ToSet(<<>>) = {}
    BY DEF ToSet
  <2> QED BY <2>2, <2>3
<1>5. DoneBy(pending) = ToSet(Detectors) \ ToSet(pending)
  <2>1. /\ Len(all) = 3 /\ Len(two) = 2 /\ Len(one) = 1 /\ Len(<<>>) = 0
        /\ Detectors = all
    BY DEF Detectors
  <2>2. DoneBy(pending) = IF pending = all THEN {}
                          ELSE IF pending = two THEN {"shared_device"}
                          ELSE IF pending = one THEN {"shared_device", "shared_payout"}
                          ELSE methods
    BY DEF DoneBy, Detectors
  <2> HIDE DEF all, two, one
  <2>3. /\ all # two /\ all # one /\ all # <<>>
        /\ two # one /\ two # <<>> /\ one # <<>>
    BY <2>1
  <2>4. CASE pending = all
    BY <1>4, <2>1, <2>2, <2>4
  <2>5. CASE pending = two
    BY <1>4, <2>1, <2>2, <2>3, <2>5
  <2>6. CASE pending = one
    BY <1>4, <2>1, <2>2, <2>3, <2>6
  <2>7. CASE pending = <<>>
    BY <1>4, <2>1, <2>2, <2>3, <2>7
  <2> QED BY <1>1, <2>4, <2>5, <2>6, <2>7
<1>6. ASSUME NEW c \in candidates
      PROVE  /\ c.method \in ToSet(Detectors) \ ToSet(pending)
             /\ ToSet(c.members) \subseteq DOMAIN accounts
             /\ Len(c.members) >= FewestMembers(c.method) /\ c.score \in Verdicts!Scores
             /\ c.legs \subseteq tx
             /\ c.method # "circular_flow" =>
                  \A i \in 1..(Len(c.members) - 1) : c.members[i] <= c.members[i + 1]
  <2>1. c.method \in DoneBy(pending) /\ Explained(c) /\ IsGraph
    BY DEF DetectionInv
  <2>2. c.method \in ToSet(Detectors) \ ToSet(pending)
    BY <1>5, <2>1
  <2>3. c.method \in methods
    BY <1>4, <2>2 DEF Detectors
  <2> QED BY <2>1, <2>2, <2>3, MembersAreAccounts
<1>7. \A c, d \in candidates : c.method = d.method /\ c.key = d.key => c = d
  BY DEF DetectionInv, OneEach
<1> QED BY <1>3, <1>6, <1>7 DEF TypeOK

\* Every candidate is of a detector that has run, and consists of accounts of the
\* graph, in order where the code sorts them; ids are unique.
THEOREM DetectionTypes == Spec => []TypeOK
BY TypesFromInv, DetectionInvariant, PTL

\* The legs of what is known of a candidate go round, and are what it is scored by.
LEMMA EvidenceFromInv == DetectionInv => EvidenceGoesRound
<1> SUFFICES ASSUME DetectionInv, NEW c \in Found("circular_flow")
             PROVE  LET next(i)   == c.members[(i % Len(c.members)) + 1]
                        steps     == {<<c.members[i], next(i)>> : i \in DOMAIN c.members}
                        times(s)  == Cardinality({i \in DOMAIN c.members :
                                                    <<c.members[i], next(i)>> = s})
                        onItsWay  == {t \in tx : <<t.from, t.to>> \in steps}
                    IN  /\ {<<t.from, t.to>> : t \in c.legs} = steps
                        /\ \A s \in steps :
                             Cardinality({t \in c.legs : <<t.from, t.to>> = s}) = times(s)
                        /\ (\A t, u \in onItsWay : t.from = u.from /\ t.to = u.to => t = u) =>
                             c.legs = onItsWay /\ c.score = FlowScore(onItsWay)
  BY DEF EvidenceGoesRound
<1> DEFINE next(i)   == c.members[(i % Len(c.members)) + 1]
           steps     == {<<c.members[i], next(i)>> : i \in DOMAIN c.members}
           times(s)  == Cardinality({i \in DOMAIN c.members : <<c.members[i], next(i)>> = s})
           onItsWay  == {t \in tx : <<t.from, t.to>> \in steps}
<1>1. IsGraph /\ GoesRound(c)
  BY DEF DetectionInv, Explained, Found
<1>2. /\ {<<t.from, t.to>> : t \in c.legs} = steps
      /\ \A s \in steps : Cardinality({t \in c.legs : <<t.from, t.to>> = s}) = times(s)
  BY <1>1, LegsAreSteps
<1>3. c.score = FlowScore(c.legs) /\ c.legs \in SUBSET tx
  <2>1. PICK q : IsCycle(q) /\ c.members = Payers(q) /\ c.legs = ToSet(q)
                 /\ c.score = FlowScore(c.legs)
    BY <1>1 DEF GoesRound
  <2>2. \A i \in DOMAIN q : q[i] \in tx
    BY <2>1 DEF IsCycle, IsTrail
  <2> QED BY <2>1, <2>2 DEF ToSet
<1> HIDE DEF steps
<1>4. (\A t, u \in onItsWay : t.from = u.from /\ t.to = u.to => t = u) =>
        c.legs = onItsWay /\ c.score = FlowScore(onItsWay)
  <2> SUFFICES ASSUME \A t, u \in onItsWay : t.from = u.from /\ t.to = u.to => t = u
               PROVE  c.legs = onItsWay
    BY <1>3
  <2>1. \A t \in onItsWay : t \in tx /\ <<t.from, t.to>> \in steps
    OBVIOUS
  <2>2. \A t \in c.legs : t \in onItsWay
    BY <1>2, <1>3
  <2> HIDE DEF onItsWay
  <2>3. ASSUME NEW t \in onItsWay PROVE t \in c.legs
    <3>1. PICK u \in c.legs : <<u.from, u.to>> = <<t.from, t.to>>
      BY <1>2, <2>1
    <3>2. u.from = t.from /\ u.to = t.to /\ u \in onItsWay
      BY <2>2, <3>1
    <3>3. t = u
      BY <3>2
    <3> QED BY <3>3
  <2> QED BY <2>2, <2>3
<1> QED BY <1>2, <1>4 DEF steps

\* Whichever rows the database returns first, a cycle's evidence goes round it, and
\* without parallel transactions on its way it is the same.
THEOREM EvidenceIsARound == Spec => []EvidenceGoesRound
BY EvidenceFromInv, DetectionInvariant, PTL

\* The walks found are those of the simple cycles, one of each.
LEMMA CyclesFromInv == DetectionInv => CyclesFoundOnce
<1> SUFFICES ASSUME DetectionInv, pending = <<>>
             PROVE  /\ \A s \in SimpleCycles :
                         Cardinality({c \in Found("circular_flow") : c.members \in Rotations(s)}) = 1
                    /\ \A c \in Found("circular_flow") :
                         IsInjective(c.members) => c.members \in SimpleCycles
                    /\ \A c \in Found("circular_flow") :
                         Cardinality({d \in Found("circular_flow") :
                                        d.members \in Rotations(c.members)})
                           <= Cardinality({i \in DOMAIN c.members :
                                             c.members[i] = Min(ToSet(c.members))})
  BY DEF CyclesFoundOnce
<1>1. IsGraph /\ DOMAIN accounts \in SUBSET Int
  BY DEF DetectionInv, IsGraph
<1>2. ASSUME NEW c \in Found("circular_flow")
      PROVE  c \in candidates /\ c.method = "circular_flow" /\ GoesRound(c)
  BY DEF DetectionInv, Explained, Found
<1>3. ASSUME NEW s \in SimpleCycles
      PROVE  Cardinality({c \in Found("circular_flow") : c.members \in Rotations(s)}) = 1
  <2> DEFINE n == Len(s)
             C == {c \in Found("circular_flow") : c.members \in Rotations(s)}
  <2>1. s \in Seq(DOMAIN accounts) /\ n \in Nat /\ n >= 1 /\ IsInjective(s) /\ DOMAIN s = 1..n
    BY <1>1, <1>3, SimpleCycleIsWalked
  <2>2. PICK q : IsCycle(q) /\ Payers(q) = s
    BY <1>1, <1>3, SimpleCycleIsWalked
  <2>3. PICK d \in candidates : d.method = "circular_flow" /\ d.members = Canonical(s)
    BY <2>2 DEF DetectionInv, NoneMissed
  <2>4. PICK k \in 1..n : Canonical(s) = Rotation(s, k)
    BY <1>1, <2>1, CanonicalStartsSmallest
  <2>5. d \in C
    BY <2>1, <2>3, <2>4 DEF Found, Rotations
  <2>6. ASSUME NEW c \in C
        PROVE  \E j \in 1..n : /\ c.members = Rotation(s, j) /\ c.key = c.members
                               /\ \A i \in 1..n : Rotation(s, j)[1] <= Rotation(s, j)[i]
    <3>1. PICK j \in 1..n : c.members = Rotation(s, j)
      BY <2>1 DEF Rotations
    <3>2. PICK r : /\ IsCycle(r) /\ \A i \in DOMAIN r : r[1].from <= r[i].from
                   /\ c.members = Payers(r) /\ c.key = c.members
      BY <1>2 DEF GoesRound
    <3>3. Len(c.members) = n
      BY <2>1, <3>1, RotationFacts
    <3>4. /\ DOMAIN r = 1..n
          /\ \A i \in 1..n : c.members[i] = r[i].from
      BY <1>1, <3>2, <3>3, WalkFacts
    <3>5. 1 \in 1..n
      BY <2>1
    <3>6. \A i \in 1..n : c.members[1] <= c.members[i]
      BY <3>2, <3>4, <3>5
    <3> HIDE DEF n
    <3> QED BY <3>1, <3>2, <3>6
  <2>7. ASSUME NEW c \in C
        PROVE  c = d
    <3>1. PICK j \in 1..n : /\ c.members = Rotation(s, j) /\ c.key = c.members
                            /\ \A i \in 1..n : Rotation(s, j)[1] <= Rotation(s, j)[i]
      BY <2>6
    <3>2. PICK l \in 1..n : /\ d.members = Rotation(s, l) /\ d.key = d.members
                            /\ \A i \in 1..n : Rotation(s, l)[1] <= Rotation(s, l)[i]
      BY <2>5, <2>6
    <3>3. j = l
      BY <1>1, <2>1, <3>1, <3>2, OneSmallestRotation
    <3>4. c.key = d.key
      BY <3>1, <3>2, <3>3
    <3>5. c \in candidates /\ c.method = "circular_flow"
      BY <1>2
    <3> QED BY <2>3, <3>4, <3>5 DEF DetectionInv, OneEach
  <2>8. C = {d}
    BY <2>5, <2>7
  <2> HIDE DEF C
  <2>9. Cardinality(C) = 1
    BY <2>8, FS_Singleton
  <2> QED BY <2>9 DEF C
<1>4. ASSUME NEW c \in Found("circular_flow"), IsInjective(c.members)
      PROVE  c.members \in SimpleCycles
  <2>1. PICK q : IsCycle(q) /\ c.members = Payers(q)
    BY <1>2 DEF GoesRound
  <2> QED BY <1>1, <1>4, <2>1, InjectiveWalkIsSimple
<1>5. ASSUME NEW c \in Found("circular_flow")
      PROVE  Cardinality({d \in Found("circular_flow") : d.members \in Rotations(c.members)})
               <= Cardinality({i \in DOMAIN c.members : c.members[i] = Min(ToSet(c.members))})
  <2> DEFINE D == {d \in Found("circular_flow") : d.members \in Rotations(c.members)}
  <2>1. \A d \in D : /\ d \in candidates /\ d.method = "circular_flow"
                    /\ GoesRound(d) /\ d.members \in Rotations(c.members)
    BY <1>2
  <2>2. OneEach(candidates)
    BY DEF DetectionInv
  <2> HIDE DEF D
  <2>3. Cardinality(D)
          <= Cardinality({i \in DOMAIN c.members : c.members[i] = Min(ToSet(c.members))})
    BY <1>1, <1>2, <2>1, <2>2, OneForEachPassing
  <2> QED BY <2>3 DEF D
<1> QED BY <1>3, <1>4, <1>5

\* Whatever else is in the graph, a simple cycle has one candidate, and a closed walk
\* no more than it has passings of its smallest account.
THEOREM CyclesAreFoundOnce == Spec => []CyclesFoundOnce
BY CyclesFromInv, DetectionInvariant, PTL

\* With the code's limits on a fan-in, the floors of the agent fit the scores.
THEOREM ScoresFit ==
  ASSUME MinFaninSize >= 3, MaxFaninSize = 8, MaxFaninStepWindow <= 60
  PROVE  Spec => []ScoresFitFloors
<1>1. DetectionInv => ScoresFitFloors
  <2> SUFFICES ASSUME DetectionInv PROVE ScoresFitFloors
    OBVIOUS
  <2>1. Verdicts!ScoreFloor = 500 /\ Verdicts!FlagScoreFloor("shared_payout") = 4000
    BY DEF Verdicts!ScoreFloor, Verdicts!FlagScoreFloor
  <2>2. ASSUME NEW c \in Found("shared_device")
        PROVE  c.score >= 500
    <3>1. IsGraph /\ GroupsADevice(c)
      BY DEF DetectionInv, Explained, Found
    <3>2. PICK G \in SUBSET DOMAIN accounts :
            Cardinality(G) > 1 /\ c.score = DeviceScore(Cardinality(G))
      BY <3>1 DEF GroupsADevice
    <3>3. Cardinality(G) \in Nat
      <4>1. IsFiniteSet(G)
        BY <3>1, FS_Subset DEF IsGraph
      <4> QED BY <4>1, FS_CardinalityType
    <3>4. \A n \in Nat : n > 1 => DeviceScore(n) >= 500
      BY DEF DeviceScore
    <3> QED BY <3>2, <3>3, <3>4
  <2>3. ASSUME NEW c \in Found("shared_payout")
        PROVE  c.score >= 500 /\ (c.score >= 4000 => Len(c.members) >= 4 /\ StepWindow(c.legs) <= 15)
    <3> DEFINE n == Cardinality(c.legs)
               w == StepWindow(c.legs)
    <3>1. IsGraph /\ FansIn(c)
      BY DEF DetectionInv, Explained, Found
    <3>2. n \in MinFaninSize..MaxFaninSize /\ w \in 0..MaxFaninStepWindow /\ c.score = PayoutScore(n, w)
      BY <3>1 DEF FansIn
    <3>3. Len(c.members) = n
      <4> DEFINE key == [t \in c.legs |-> t.from]
      <4>1. c.legs \in SUBSET tx /\ c.members = SortedValues(key)
        BY <3>1 DEF FansIn
      <4>2. DOMAIN key = c.legs /\ \A t \in c.legs : key[t] \in Int
        BY <3>1, <4>1 DEF IsGraph
      <4>3. IsFiniteSet(c.legs)
        BY <3>1, <4>1, FS_Subset DEF IsGraph
      <4> HIDE DEF key
      <4> QED BY <4>1, <4>2, <4>3, SortedValuesFacts
    <3> HIDE DEF n, w
    <3>4. c.score >= 500 /\ (c.score >= 4000 => n >= 4 /\ w <= 15)
      BY <3>2, FanInScores
    <3> QED BY <3>3, <3>4 DEF w
  <2> QED BY <2>1, <2>2, <2>3 DEF ScoresFitFloors
<1> QED BY <1>1, DetectionInvariant, PTL

================================================================================
