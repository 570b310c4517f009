------------------------------ MODULE OrderLemmas ------------------------------
(* Facts about numbers, orders, sequences and sums that the proofs of several  *)
(* components need.  The library states induction over an operator; the proofs *)
(* here use it over a set of numbers, which the least-number principle gives.  *)
EXTENDS Integers, Sequences, FiniteSets, SequencesExt, FiniteSetTheorems, TLAPS

\* A nonempty set of natural numbers has a least element.
LEMMA LeastNumber ==
  ASSUME NEW T \in SUBSET Nat, T # {}
  PROVE  \E x \in T : \A y \in T : x <= y
<1> DEFINE R == OpToRel(<, Nat)
<1>1. \A x, y \in Nat : <<x, y>> \in R <=> x < y
  BY DEF OpToRel
<1>2. IsWellFoundedOn(R, Nat)
  BY NatLessThanWellFounded
<1> HIDE DEF R
<1>3. PICK x \in T : \A y \in T : <<y, x>> \notin R
  BY <1>2, WFMin
<1>4. \A y \in T : ~(y < x)
  BY <1>1, <1>3
<1> QED BY <1>4

\* Induction: a set that has 0, and n + 1 with every n, has every number.
LEMMA NumbersByInduction ==
  ASSUME NEW S, 0 \in S, \A n \in Nat : n \in S => n + 1 \in S
  PROVE  Nat \subseteq S
<1> DEFINE T == {n \in Nat : n \notin S}
<1> SUFFICES T = {}
  OBVIOUS
<1>1. SUFFICES ASSUME T # {} PROVE FALSE
  OBVIOUS
<1>2. PICK x \in T : \A y \in T : x <= y
  BY <1>1, LeastNumber
<1>3. x # 0 /\ x \in Nat
  BY <1>2
<1>4. x - 1 \in Nat /\ x - 1 \notin T
  BY <1>2, <1>3
<1> QED BY <1>2, <1>3, <1>4

\* A nonempty set of numbers below a bound has the maximum Max chooses.
LEMMA MaxOfNumbers ==
  ASSUME NEW n \in Nat, NEW I \in SUBSET (1..n), I # {}
  PROVE  /\ Max(I) \in I
         /\ \A i \in I : i <= Max(I)
<1> DEFINE T == {n - i : i \in I}
<1>1. \A i \in I : i \in Nat /\ n - i \in Nat
  OBVIOUS
<1>2. T \in SUBSET Nat /\ T # {}
  BY <1>1
<1>3. PICK x \in T : \A y \in T : x <= y
  BY <1>2, LeastNumber
<1>4. PICK m \in I : x = n - m
  BY <1>3
<1>5. \A i \in I : m >= i
  <2> TAKE i \in I
  <2>1. n - i \in T
    OBVIOUS
  <2>2. n - m <= n - i
    BY <1>3, <1>4, <2>1
  <2> QED BY <1>1, <2>2
<1> QED BY <1>5 DEF Max

\* A nonempty set of numbers has the minimum Min chooses.
LEMMA MinOfNumbers ==
  ASSUME NEW I \in SUBSET Nat, I # {}
  PROVE  /\ Min(I) \in I
         /\ \A i \in I : Min(I) <= i
<1>1. PICK x \in I : \A y \in I : x <= y
  BY LeastNumber
<1> QED BY <1>1 DEF Min

\* The image of a finite set under a function is finite and no larger.
LEMMA ImageIsFinite ==
  ASSUME NEW S, IsFiniteSet(S), NEW f, DOMAIN f = S, f = [x \in S |-> f[x]]
  PROVE  LET T == {f[x] : x \in S}
         IN  IsFiniteSet(T) /\ Cardinality(T) <= Cardinality(S)
<1> DEFINE T == {f[x] : x \in S}
<1>1. f \in Surjection(S, T)
  BY DEF Surjection
<1> QED BY <1>1, FS_Surjection

\* A finite nonempty set of integers has a least and a greatest element, which Min
\* and Max choose.
LEMMA EndsOfFiniteSet ==
  ASSUME NEW S \in SUBSET Int, IsFiniteSet(S), S # {}
  PROVE  /\ Min(S) \in S /\ \A y \in S : Min(S) <= y
         /\ Max(S) \in S /\ \A y \in S : y <= Max(S)
<1> DEFINE Ends(T) == \E a, b \in T : \A y \in T : a <= y /\ y <= b
           Q == {m \in Nat : \A T \in SUBSET S : IsFiniteSet(T) /\ Cardinality(T) = m + 1 => Ends(T)}
<1>1. 0 \in Q
  <2> SUFFICES ASSUME NEW T \in SUBSET S, IsFiniteSet(T), Cardinality(T) = 1
               PROVE  Ends(T)
    OBVIOUS
  <2>1. \E x : T = {x}
    BY FS_Singleton
  <2>2. PICK x : T = {x}
    BY <2>1
  <2>3. x \in Int
    BY <2>2
  <2> QED BY <2>2, <2>3
<1>2. ASSUME NEW m \in Nat, m \in Q
      PROVE  m + 1 \in Q
  <2> SUFFICES ASSUME NEW T \in SUBSET S, IsFiniteSet(T), Cardinality(T) = m + 2
               PROVE  Ends(T)
    OBVIOUS
  <2>1. T # {}
    BY FS_EmptySet
  <2>2. PICK x \in T : TRUE
    BY <2>1
  <2>3. IsFiniteSet(T \ {x}) /\ Cardinality(T \ {x}) = Cardinality(T) - 1
    BY <2>2, FS_RemoveElement
  <2>4. Ends(T \ {x})
    <3>1. Cardinality(T \ {x}) = m + 1
      BY <2>3
    <3>2. T \ {x} \in SUBSET S
      OBVIOUS
    <3> HIDE DEF Ends
    <3> QED BY <1>2, <2>3, <3>1, <3>2
  <2>5. PICK a \in T \ {x}, b \in T \ {x} : \A y \in T \ {x} : a <= y /\ y <= b
    BY <2>4
  <2>6. a \in Int /\ b \in Int /\ x \in Int /\ \A y \in T : y \in Int
    BY <2>2, <2>5
  <2> DEFINE c == IF x <= a THEN x ELSE a
             d == IF b <= x THEN x ELSE b
  <2>7. c \in T /\ d \in T
    BY <2>2, <2>5
  <2>8. ASSUME NEW y \in T
        PROVE  c <= y /\ y <= d
    <3>1. CASE y = x
      BY <2>6, <3>1
    <3>2. CASE y # x
      <4>1. a <= y /\ y <= b
        BY <2>5, <3>2
      <4> QED BY <2>6, <4>1
    <3> QED BY <3>1, <3>2
  <2> HIDE DEF c, d
  <2> QED BY <2>7, <2>8
<1> HIDE DEF Ends
<1>3. Nat \subseteq Q
  <2> HIDE DEF Q
  <2> QED BY <1>1, <1>2, NumbersByInduction
<1>4. Cardinality(S) \in Nat /\ Cardinality(S) # 0
  <2>1. Cardinality(S) \in Nat
    BY FS_CardinalityType
  <2>2. Cardinality(S) # 0
    BY FS_EmptySet
  <2> QED BY <2>1, <2>2
<1>5. Ends(S)
  <2>1. Cardinality(S) - 1 \in Nat /\ Cardinality(S) = (Cardinality(S) - 1) + 1
    BY <1>4
  <2> QED BY <1>3, <2>1
<1>6. PICK a \in S, b \in S : \A y \in S : a <= y /\ y <= b
  BY <1>5 DEF Ends
<1>7. Min(S) \in S /\ \A y \in S : Min(S) <= y
  BY <1>6 DEF Min
<1>8. \E x \in S : \A y \in S : x >= y
  BY <1>6
<1>9. Max(S) \in S /\ \A y \in S : Max(S) >= y
  <2> DEFINE x == CHOOSE x \in S : \A y \in S : x >= y
  <2>1. x \in S /\ \A y \in S : x >= y
    BY <1>8
  <2> QED BY <2>1 DEF Max
<1> QED BY <1>7, <1>9

\* In a finite set with a strict total order the elements have the ranks from 0 to
\* the number of elements, less one.
LEMMA RanksAreDense ==
  ASSUME NEW S, IsFiniteSet(S), NEW R,
         \A x \in S : <<x, x>> \notin R,
         \A x, y \in S : x # y => <<x, y>> \in R \/ <<y, x>> \in R,
         \A x, y, z \in S : <<x, y>> \in R /\ <<y, z>> \in R => <<x, z>> \in R
  PROVE  \A i \in 1..Cardinality(S) :
           \E y \in S : Cardinality({x \in S : <<x, y>> \in R}) = i - 1
<1> DEFINE n == Cardinality(S)
           Before(y) == {x \in S : <<x, y>> \in R}
           rank == [y \in S |-> Cardinality(Before(y)) + 1]
<1>1. n \in Nat
  BY FS_CardinalityType
<1>2. ASSUME NEW y \in S
      PROVE  IsFiniteSet(Before(y)) /\ Cardinality(Before(y)) \in 0..(n - 1)
  <2>1. Before(y) \in SUBSET S /\ Before(y) # S
    OBVIOUS
  <2> HIDE DEF Before
  <2>2. IsFiniteSet(Before(y)) /\ Cardinality(Before(y)) <= n /\ Cardinality(Before(y)) # n
    BY <2>1, FS_Subset
  <2> QED BY <1>1, <2>2, FS_CardinalityType
<1>3. rank \in [S -> 1..n]
  <2> HIDE DEF Before
  <2>1. \A y \in S : Cardinality(Before(y)) + 1 \in 1..n
    BY <1>1, <1>2
  <2> QED BY <2>1
<1>4. ASSUME NEW x \in S, NEW y \in S, <<x, y>> \in R
      PROVE  rank[x] < rank[y]
  <2>1. Before(x) \in SUBSET Before(y) /\ x \in Before(y) /\ x \notin Before(x)
    BY <1>4
  <2> HIDE DEF Before
  <2>2. Cardinality(Before(x)) <= Cardinality(Before(y))
        /\ Cardinality(Before(x)) # Cardinality(Before(y))
    BY <1>2, <2>1, FS_Subset
  <2> QED BY <1>2, <2>2
<1>5. \A i \in 1..n : \E y \in S : rank[y] = i
  <2> HIDE DEF rank, n
  <2>1. \A y \in S : rank[y] \in Int
    BY <1>3
  <2>2. ASSUME NEW x \in S, NEW y \in S, x # y
        PROVE  rank[x] # rank[y]
    <3>1. CASE <<x, y>> \in R
      BY <2>1, <3>1, <1>4
    <3>2. CASE <<y, x>> \in R
      BY <2>1, <3>2, <1>4
    <3> QED BY <2>2, <3>1, <3>2
  <2>3. rank \in Injection(S, 1..n)
    BY <1>3, <2>2 DEF Injection, IsInjective
  <2>4. IsFiniteSet(1..n) /\ Cardinality(1..n) = n
    BY <1>1, FS_Interval
  <2>5. rank \in Surjection(S, 1..n)
    BY <2>3, <2>4, FS_Injection DEF n
  <2> QED BY <2>5 DEF Surjection
<1>6. ASSUME NEW y \in S
      PROVE  Cardinality(Before(y)) = rank[y] - 1
  <2> HIDE DEF Before, n
  <2>1. Cardinality(Before(y)) \in Int
    BY <1>1, <1>2
  <2> QED BY <2>1
<1>7. \A i \in 1..n : \E y \in S : Cardinality(Before(y)) = i - 1
  <2> HIDE DEF Before, n, rank
  <2> QED BY <1>5, <1>6
<1> QED BY <1>7

\* FlattenSeq of sequences over a set is a sequence over that set.
LEMMA FlattenSeqType ==
  ASSUME NEW T, NEW seqs \in Seq(Seq(T))
  PROVE  FlattenSeq(seqs) \in Seq(T)
<1> DEFINE n == Len(seqs)
           Unfolds(m, f) == f = [i \in 1..m |-> IF i = 1 THEN seqs[i] ELSE f[i - 1] \o seqs[i]]
           Typed(m, f) == \A i \in 1..m : f[i] \in Seq(T)
           Good(m) == m <= n => \E f : Unfolds(m, f) /\ Typed(m, f)
           whole == CHOOSE f : Unfolds(n, f)
<1>1. n \in Nat /\ \A i \in 1..n : seqs[i] \in Seq(T)
  OBVIOUS
<1>2. Good(0)
  <2> DEFINE e == [i \in 1..0 |-> IF i = 1 THEN seqs[i] ELSE <<>>]
  <2>1. Unfolds(0, e) /\ Typed(0, e)
    OBVIOUS
  <2> HIDE DEF Unfolds, Typed
  <2> QED BY <2>1
<1>3. ASSUME NEW m \in Nat, Good(m), m + 1 <= n
      PROVE  \E f : Unfolds(m + 1, f) /\ Typed(m + 1, f)
  <2>1. PICK g : Unfolds(m, g) /\ Typed(m, g)
    <3> HIDE DEF Unfolds, Typed, n
    <3> QED BY <1>1, <1>3
  <2>5. \A i \in 1..m : g[i] = IF i = 1 THEN seqs[i] ELSE g[i - 1] \o seqs[i]
    BY <2>1
  <2> DEFINE h == [i \in 1..(m + 1) |->
                     IF i <= m THEN g[i] ELSE IF i = 1 THEN seqs[i] ELSE g[m] \o seqs[i]]
  <2>2. \A i \in 1..(m + 1) : h[i] = IF i = 1 THEN seqs[i] ELSE h[i - 1] \o seqs[i]
    <3> TAKE i \in 1..(m + 1)
    <3>1. CASE i <= m
      BY <2>5, <3>1
    <3>2. CASE i = m + 1
      BY <3>2
    <3> QED BY <3>1, <3>2
  <2>3. Unfolds(m + 1, h)
    BY <2>2
  <2>4. Typed(m + 1, h)
    <3> TAKE i \in 1..(m + 1)
    <3>1. CASE i <= m
      BY <2>1, <3>1
    <3>2. CASE i = m + 1 /\ i = 1
      BY <3>2, <1>1, <1>3
    <3>3. CASE i = m + 1 /\ i # 1
      <4>1. g[m] \in Seq(T) /\ seqs[i] \in Seq(T)
        BY <2>1, <3>3, <1>1, <1>3
      <4>2. h[i] = g[m] \o seqs[i]
        <5>1. ~(i <= m) /\ i # 1
          BY <3>3
        <5> QED BY <5>1
      <4> HIDE DEF h
      <4> QED BY <4>1, <4>2
    <3> QED BY <3>1, <3>2, <3>3
  <2> HIDE DEF Unfolds, Typed, h
  <2> QED BY <2>3, <2>4
<1>4. Good(n)
  <2> DEFINE S == {m \in Nat : Good(m)}
  <2>1. \A m \in Nat : Good(m) => Good(m + 1)
    <3> HIDE DEF Unfolds, Typed
    <3> QED BY <1>3
  <2> HIDE DEF Good, n
  <2>2. 0 \in S /\ \A m \in Nat : m \in S => m + 1 \in S
    BY <1>2, <2>1
  <2>3. Nat \subseteq S
    <3> HIDE DEF S
    <3> QED BY <2>2, NumbersByInduction
  <2> QED BY <1>1, <2>3
<1>5. Unfolds(n, whole)
  <2>1. PICK f : Unfolds(n, f)
    <3> HIDE DEF Unfolds, Typed, n
    <3> QED BY <1>1, <1>4
  <2> HIDE DEF Unfolds
  <2> QED BY <2>1
<1> DEFINE P(m) == m + 1 <= n => whole[m + 1] \in Seq(T)
           Q == {m \in Nat : P(m)}
<1>6. \A i \in 1..n : whole[i] = IF i = 1 THEN seqs[i] ELSE whole[i - 1] \o seqs[i]
  <2> HIDE DEF whole
  <2> QED BY <1>5
<1> HIDE DEF whole
<1>7. Nat \subseteq Q
  <2>1. P(0)
    BY <1>1, <1>6
  <2>2. ASSUME NEW m \in Nat, P(m), m + 2 <= n
        PROVE  whole[m + 2] \in Seq(T)
    <3>1. whole[m + 1] \in Seq(T) /\ seqs[m + 2] \in Seq(T)
      BY <1>1, <2>2
    <3>2. whole[m + 2] = whole[m + 1] \o seqs[m + 2]
      <4>1. m + 2 \in 1..n /\ m + 2 # 1 /\ (m + 2) - 1 = m + 1
        BY <1>1, <2>2
      <4> HIDE DEF n
      <4> QED BY <4>1, <1>6
    <3> QED BY <3>1, <3>2
  <2>3. \A m \in Nat : P(m) => P(m + 1)
    BY <1>1, <2>2
  <2> HIDE DEF P
  <2>4. 0 \in Q /\ \A m \in Nat : m \in Q => m + 1 \in Q
    BY <2>1, <2>3
  <2> HIDE DEF Q
  <2> QED BY <2>4, NumbersByInduction
<1>8. CASE n = 0
  BY <1>8 DEF FlattenSeq
<1>9. CASE n # 0
  <2>1. FlattenSeq(seqs) = whole[n]
    BY <1>9 DEF FlattenSeq, whole
  <2>4. n - 1 \in Nat
    BY <1>1, <1>9
  <2>2. n - 1 \in Q
    <3> HIDE DEF Q, n
    <3> QED BY <2>4, <1>7
  <2>3. P(n - 1)
    <3> HIDE DEF P
    <3> QED BY <2>2
  <2> QED BY <2>1, <2>3, <1>1, <1>9
<1> QED BY <1>8, <1>9

--------------------------------------------------------------------------------
(* Sums over finite sets.                                                      *)

\* Induction over the subsets of a finite set, put as a fact about a set of them.
LEMMA SubsetsByInduction ==
  ASSUME NEW S, IsFiniteSet(S), NEW Q, {} \in Q,
         \A T \in SUBSET S : \A y \in S \ T : T \in Q => T \cup {y} \in Q
  PROVE  S \in Q
<1> DEFINE N == {n \in Nat : \A T \in SUBSET S : IsFiniteSet(T) /\ Cardinality(T) = n => T \in Q}
<1>1. 0 \in N
  <2>1. ASSUME NEW T \in SUBSET S, IsFiniteSet(T), Cardinality(T) = 0
        PROVE  T = {}
    BY <2>1, FS_EmptySet
  <2> QED BY <2>1
<1>2. ASSUME NEW n \in Nat, n \in N
      PROVE  n + 1 \in N
  <2> SUFFICES ASSUME NEW T \in SUBSET S, IsFiniteSet(T), Cardinality(T) = n + 1
               PROVE  T \in Q
    OBVIOUS
  <2>1. T # {}
    BY FS_EmptySet
  <2>2. PICK y \in T : TRUE
    BY <2>1
  <2>3. IsFiniteSet(T \ {y}) /\ Cardinality(T \ {y}) = n
    <3>1. IsFiniteSet(T \ {y}) /\ Cardinality(T \ {y}) = Cardinality(T) - 1
      BY FS_RemoveElement
    <3>2. Cardinality(T) = n + 1
      OBVIOUS
    <3> QED BY <3>1, <3>2
  <2>4. T \ {y} \in Q
    BY <1>2, <2>3
  <2>5. T = (T \ {y}) \cup {y} /\ T \ {y} \in SUBSET S /\ y \in S \ (T \ {y})
    OBVIOUS
  <2> QED BY <2>4, <2>5
<1>3. Nat \subseteq N
  <2> HIDE DEF N
  <2> QED BY <1>1, <1>2, NumbersByInduction
<1> QED BY <1>3, FS_CardinalityType

\* The sums of f over the subsets of S.
IsSum(sum, f, S) ==
  /\ sum[{}] = 0
  /\ \A s \in SUBSET S : sum[s] \in Nat
  /\ \A s \in SUBSET S : \A y \in s : sum[s] = f[y] + sum[s \ {y}]

\* A sum is the fold it is defined as: of nothing it is zero, and taking any element
\* out takes its value out.
LEMMA SumUnfolds ==
  ASSUME NEW f, NEW S, IsFiniteSet(S), \A i \in S : f[i] \in Nat
  PROVE  \E sum : SumFunctionOnSet(f, S) = sum[S] /\ IsSum(sum, f, S)
<1> DEFINE n == Cardinality(S)
           x(s) == CHOOSE k \in s : TRUE
           Upto(m) == {s \in SUBSET S : Cardinality(s) <= m}
           Unfolds(D, g) == g = [s \in D |-> IF s = {} THEN 0 ELSE f[x(s)] + g[s \ {x(s)}]]
           Good(m) == \E g : Unfolds(Upto(m), g)
           whole == CHOOSE g : Unfolds(SUBSET S, g)
<1>1. SumFunctionOnSet(f, S) = whole[S]
  BY DEF SumFunctionOnSet, FoldFunctionOnSet, MapThenFoldSet
<1>2. n \in Nat /\ \A s \in SUBSET S : IsFiniteSet(s) /\ Cardinality(s) \in 0..n
  <2>1. n \in Nat
    BY FS_CardinalityType
  <2> SUFFICES ASSUME NEW s \in SUBSET S PROVE IsFiniteSet(s) /\ Cardinality(s) \in 0..n
    BY <2>1
  <2>2. IsFiniteSet(s) /\ Cardinality(s) <= n
    BY FS_Subset
  <2>3. Cardinality(s) \in Nat
    BY <2>2, FS_CardinalityType
  <2> HIDE DEF n
  <2> QED BY <2>1, <2>2, <2>3
<1> HIDE DEF n
<1>3. ASSUME NEW s \in SUBSET S, NEW y \in s
      PROVE  /\ s \ {y} \in SUBSET S
             /\ Cardinality(s \ {y}) = Cardinality(s) - 1
  BY <1>2, FS_RemoveElement
<1>x. \A s : s # {} => x(s) \in s
  OBVIOUS
<1>4. \A s \in SUBSET S : s # {} => Cardinality(s) # 0
  BY <1>2, FS_EmptySet
<1> HIDE DEF x
<1>5. Good(0)
  <2> DEFINE e == [s \in Upto(0) |-> 0]
  <2>1. ASSUME NEW s \in Upto(0) PROVE s = {}
    BY <1>2, <1>4
  <2> HIDE DEF Upto
  <2>2. Unfolds(Upto(0), e)
    BY <2>1
  <2> HIDE DEF Unfolds, e
  <2> QED BY <2>2
<1>6. ASSUME NEW m \in Nat, Good(m)
      PROVE  Good(m + 1)
  <2>1. PICK g : Unfolds(Upto(m), g)
    BY <1>6
  <2>2. \A s \in Upto(m) : g[s] = IF s = {} THEN 0 ELSE f[x(s)] + g[s \ {x(s)}]
    <3> HIDE DEF Upto
    <3> QED BY <2>1
  <2> DEFINE h == [s \in Upto(m + 1) |->
                     IF s = {} THEN 0 ELSE f[x(s)] + g[s \ {x(s)}]]
  <2>3. ASSUME NEW s \in Upto(m + 1), s # {}
        PROVE  s \ {x(s)} \in Upto(m) /\ s \ {x(s)} \in Upto(m + 1)
    <3>1. s \in SUBSET S /\ Cardinality(s) \in Nat /\ Cardinality(s) <= m + 1
      BY <1>2
    <3>2. s \ {x(s)} \in SUBSET S /\ Cardinality(s \ {x(s)}) = Cardinality(s) - 1
      BY <1>3, <1>x, <2>3, <3>1
    <3>3. Cardinality(s \ {x(s)}) <= m /\ Cardinality(s \ {x(s)}) <= m + 1
      BY <3>1, <3>2
    <3> QED BY <3>2, <3>3
  <2> HIDE DEF Upto
  <2>4. ASSUME NEW s \in Upto(m + 1), s # {}
        PROVE  h[s \ {x(s)}] = g[s \ {x(s)}]
    BY <2>2, <2>3, <2>4
  <2>5. \A s \in Upto(m + 1) : h[s] = IF s = {} THEN 0 ELSE f[x(s)] + h[s \ {x(s)}]
    <3> SUFFICES ASSUME NEW s \in Upto(m + 1)
                 PROVE  h[s] = IF s = {} THEN 0 ELSE f[x(s)] + h[s \ {x(s)}]
      OBVIOUS
    <3>1. h[s] = IF s = {} THEN 0 ELSE f[x(s)] + g[s \ {x(s)}]
      OBVIOUS
    <3> HIDE DEF h
    <3>2. CASE s = {}
      BY <3>1, <3>2
    <3>3. CASE s # {}
      BY <3>1, <3>3, <2>4
    <3> QED BY <3>2, <3>3
  <2>6. h = [s \in Upto(m + 1) |-> h[s]]
    OBVIOUS
  <2> HIDE DEF h
  <2>7. Unfolds(Upto(m + 1), h)
    BY <2>5, <2>6
  <2> HIDE DEF Unfolds
  <2> QED BY <2>7
<1>7. Good(n)
  <2> DEFINE N == {m \in Nat : Good(m)}
  <2> HIDE DEF Good
  <2>1. 0 \in N /\ \A m \in Nat : m \in N => m + 1 \in N
    BY <1>5, <1>6
  <2> HIDE DEF N
  <2>2. Nat \subseteq N
    BY <2>1, NumbersByInduction
  <2> QED BY <1>2, <2>2 DEF N
<1>8. Unfolds(SUBSET S, whole)
  <2>1. Upto(n) = SUBSET S
    BY <1>2
  <2> HIDE DEF Unfolds, Upto
  <2> QED BY <1>7, <2>1
<1>9. \A s \in SUBSET S : whole[s] = IF s = {} THEN 0 ELSE f[x(s)] + whole[s \ {x(s)}]
  <2> HIDE DEF whole
  <2> QED BY <1>8
<1> HIDE DEF whole
<1>10. whole[{}] = 0
  BY <1>9
<1> DEFINE Adds(s) == whole[s] \in Nat /\ \A y \in s : whole[s] = f[y] + whole[s \ {y}]
           M == {m \in Nat : \A s \in Upto(m) : Adds(s)}
<1>11. 0 \in M
  <2>1. \A s \in Upto(0) : s = {}
    BY <1>2, <1>4
  <2> HIDE DEF Upto
  <2> QED BY <1>10, <2>1
<1>12. ASSUME NEW m \in Nat, m \in M
       PROVE  m + 1 \in M
  <2>0. \A s \in Upto(m) : Adds(s)
    BY <1>12
  <2>1. ASSUME NEW s \in Upto(m + 1), NEW y \in s
        PROVE  s \ {y} \in Upto(m)
    <3>1. s \in SUBSET S /\ Cardinality(s) \in Nat /\ Cardinality(s) <= m + 1
      BY <1>2
    <3>2. s \ {y} \in SUBSET S /\ Cardinality(s \ {y}) = Cardinality(s) - 1
      BY <1>3, <3>1
    <3> QED BY <3>1, <3>2
  <2> SUFFICES ASSUME NEW s \in Upto(m + 1) PROVE Adds(s)
    OBVIOUS
  <2>2. s \in SUBSET S
    OBVIOUS
  <2> HIDE DEF Upto
  <2>3. CASE s = {}
    BY <1>10, <2>3
  <2>4. CASE s # {}
    <3> DEFINE c == x(s)
    <3>1. c \in s /\ whole[s] = f[c] + whole[s \ {c}]
      BY <1>9, <1>x, <2>2, <2>4
    <3> HIDE DEF c
    <3>2. whole[s \ {c}] \in Nat /\ f[c] \in Nat
      BY <2>0, <2>1, <2>2, <3>1
    <3>3. ASSUME NEW y \in s
          PROVE  whole[s] = f[y] + whole[s \ {y}]
      <4>1. CASE y = c
        BY <3>1, <4>1
      <4>2. CASE y # c
        <5>1. y \in s \ {c} /\ c \in s \ {y} /\ (s \ {c}) \ {y} = (s \ {y}) \ {c}
          BY <3>1, <4>2
        <5>2. whole[s \ {c}] = f[y] + whole[(s \ {c}) \ {y}]
          BY <2>0, <2>1, <3>1, <5>1
        <5>3. whole[s \ {y}] = f[c] + whole[(s \ {y}) \ {c}] /\ whole[s \ {y}] \in Nat
          BY <2>0, <2>1, <3>1, <5>1
        <5>4. s \ {c} \in Upto(m) /\ (s \ {c}) \ {y} \in SUBSET S
          BY <2>1, <2>2, <3>1
        <5>5. f[y] \in Nat
          BY <2>2
        <5>6. whole[(s \ {c}) \ {y}] \in Nat
          <6>1. s \ {c} \in Upto(m + 1)
            BY <1>2, <2>2, <5>4 DEF Upto
          <6> QED BY <2>0, <2>1, <5>1, <6>1
        <5> DEFINE rest == whole[(s \ {c}) \ {y}]
        <5>7. whole[s \ {y}] = f[c] + rest
          BY <5>1, <5>3
        <5>8. whole[s] = f[c] + (f[y] + rest)
          BY <3>1, <5>2
        <5>9. rest \in Nat /\ f[c] \in Nat /\ f[y] \in Nat
          BY <3>2, <5>5, <5>6
        <5> HIDE DEF rest
        <5> QED BY <5>7, <5>8, <5>9
      <4> QED BY <4>1, <4>2
    <3>4. whole[s] \in Nat
      BY <3>1, <3>2
    <3> QED BY <3>3, <3>4
  <2> QED BY <2>3, <2>4
<1>13. Nat \subseteq M
  <2> HIDE DEF M
  <2> QED BY <1>11, <1>12, NumbersByInduction
<1>14. \A s \in SUBSET S : Adds(s)
  <2>1. \A s \in SUBSET S : s \in Upto(n)
    BY <1>2
  <2> HIDE DEF Upto, Adds
  <2> QED BY <1>2, <1>13, <2>1
<1>15. IsSum(whole, f, S)
  BY <1>10, <1>14 DEF IsSum
<1> QED BY <1>1, <1>15

\* Sums of functions that agree are equal.
LEMMA SumsAgree ==
  ASSUME NEW S, IsFiniteSet(S), NEW f, NEW g,
         \A i \in S : f[i] \in Nat /\ f[i] = g[i]
  PROVE  SumFunctionOnSet(f, S) = SumFunctionOnSet(g, S)
<1>1. PICK sum : SumFunctionOnSet(f, S) = sum[S] /\ IsSum(sum, f, S)
  BY SumUnfolds
<1>2. \A i \in S : g[i] \in Nat
  OBVIOUS
<1>3. PICK tot : SumFunctionOnSet(g, S) = tot[S] /\ IsSum(tot, g, S)
  BY <1>2, SumUnfolds
<1> DEFINE Q == {s \in SUBSET S : sum[s] = tot[s]}
<1>4. {} \in Q
  BY <1>1, <1>3 DEF IsSum
<1>5. ASSUME NEW T \in SUBSET S, NEW y \in S \ T, T \in Q
      PROVE  T \cup {y} \in Q
  <2>1. T \cup {y} \in SUBSET S /\ y \in T \cup {y} /\ (T \cup {y}) \ {y} = T
    OBVIOUS
  <2>2. sum[T \cup {y}] = f[y] + sum[T] /\ tot[T \cup {y}] = g[y] + tot[T]
    BY <1>1, <1>3, <2>1 DEF IsSum
  <2> QED BY <1>5, <2>1, <2>2
<1>6. S \in Q
  <2> HIDE DEF Q
  <2> QED BY <1>4, <1>5, SubsetsByInduction
<1> QED BY <1>1, <1>3, <1>6

\* A sum over nothing is zero.
LEMMA SumOfNothing ==
  ASSUME NEW f
  PROVE  SumFunctionOnSet(f, {}) = 0
<1>1. IsFiniteSet({})
  BY FS_EmptySet
<1> QED BY <1>1, SumUnfolds DEF IsSum

\* An element adds its value to the sum of the others.
LEMMA SumAdds ==
  ASSUME NEW S, IsFiniteSet(S), NEW f, \A i \in S : f[i] \in Nat, NEW y \in S
  PROVE  /\ SumFunctionOnSet(f, S) \in Nat
         /\ SumFunctionOnSet(f, S \ {y}) \in Nat
         /\ SumFunctionOnSet(f, S) = f[y] + SumFunctionOnSet(f, S \ {y})
<1>1. PICK sum : SumFunctionOnSet(f, S) = sum[S] /\ IsSum(sum, f, S)
  BY SumUnfolds
<1> DEFINE U == S \ {y}
<1>2. IsFiniteSet(U) /\ U \in SUBSET S
  BY FS_Subset
<1>3. \A i \in U : f[i] \in Nat
  OBVIOUS
<1>4. sum[S] = f[y] + sum[U]
  BY <1>1 DEF IsSum
<1> HIDE DEF U
<1>5. PICK tot : SumFunctionOnSet(f, U) = tot[U] /\ IsSum(tot, f, U)
  BY <1>2, <1>3, SumUnfolds
<1> DEFINE Q == {s \in SUBSET U : sum[s] = tot[s]}
<1>6. {} \in Q
  BY <1>1, <1>5 DEF IsSum
<1>7. ASSUME NEW T \in SUBSET U, NEW z \in U \ T, T \in Q
      PROVE  T \cup {z} \in Q
  <2>1. /\ T \cup {z} \in SUBSET U /\ T \cup {z} \in SUBSET S
        /\ z \in T \cup {z} /\ (T \cup {z}) \ {z} = T
    BY <1>2
  <2> DEFINE V == T \cup {z}
  <2> HIDE DEF V
  <2>2. sum[V] = f[z] + sum[V \ {z}] /\ tot[V] = f[z] + tot[V \ {z}]
    BY <1>1, <1>5, <2>1 DEF IsSum, V
  <2>3. sum[V] = tot[V]
    BY <1>7, <2>1, <2>2 DEF V
  <2> QED BY <2>1, <2>3 DEF V
<1>8. U \in Q
  <2> HIDE DEF Q
  <2> QED BY <1>2, <1>6, <1>7, SubsetsByInduction
<1>9. sum[U] = tot[U] /\ sum[U] \in Nat /\ sum[S] \in Nat
  BY <1>1, <1>2, <1>8 DEF IsSum
<1> QED BY <1>1, <1>4, <1>5, <1>9 DEF U

\* A sum is zero when every value is.
LEMMA SumIsZero ==
  ASSUME NEW S, IsFiniteSet(S), NEW f, \A i \in S : f[i] \in Nat
  PROVE  SumFunctionOnSet(f, S) \in Nat /\ (SumFunctionOnSet(f, S) = 0 <=> \A i \in S : f[i] = 0)
<1> DEFINE Sum(T) == SumFunctionOnSet(f, T)
           Q == {T \in SUBSET S : Sum(T) \in Nat /\ (Sum(T) = 0 <=> \A i \in T : f[i] = 0)}
<1>1. {} \in Q
  BY SumOfNothing
<1>2. ASSUME NEW T \in SUBSET S, NEW y \in S \ T, T \in Q
      PROVE  T \cup {y} \in Q
  <2> DEFINE U == T \cup {y}
  <2>1. U \in SUBSET S /\ y \in U /\ U \ {y} = T /\ IsFiniteSet(U)
    BY FS_Subset
  <2>2. \A i \in U : f[i] \in Nat
    OBVIOUS
  <2>3. \A i \in U : i = y \/ i \in T
    OBVIOUS
  <2>4. T \in SUBSET U
    OBVIOUS
  <2> HIDE DEF U
  <2>5. Sum(U) \in Nat /\ Sum(U) = f[y] + Sum(U \ {y})
    BY <2>1, <2>2, SumAdds
  <2> HIDE DEF Sum
  <2>6. Sum(U) = f[y] + Sum(T) /\ Sum(T) \in Nat /\ f[y] \in Nat
    BY <1>2, <2>1, <2>5
  <2>7. Sum(U) = 0 <=> f[y] = 0 /\ Sum(T) = 0
    BY <2>6
  <2> QED BY <1>2, <2>1, <2>3, <2>4, <2>5, <2>7 DEF U
<1>3. S \in Q
  <2> HIDE DEF Q
  <2> QED BY <1>1, <1>2, SubsetsByInduction
<1> QED BY <1>3
================================================================================
