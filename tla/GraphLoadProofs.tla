---------------------------- MODULE GraphLoadProofs ----------------------------
(* A load of any plan in batches of any size leaves what its queries would     *)
(* leave if each ran at once, whatever died before it; and verify_load says    *)
(* so.                                                                          *)
EXTENDS GraphLoad, OrderLemmas

--------------------------------------------------------------------------------
(* What MERGE ... SET does, of any rows.                                       *)

\* f has the entities of the rows I, each with the properties of its last row.
Carries(f, rows, I) ==
  \A k \in Keys(rows, I) :
    k \in DOMAIN f /\ f[k] = rows[Max({i \in I : rows[i].key = k})].props

\* MERGE leaves the rows it is given and every other entity as it was.
LEMMA MergeFacts ==
  ASSUME NEW f, NEW rows, NEW I
  PROVE  /\ DOMAIN Merge(f, rows, I) = DOMAIN f \cup Keys(rows, I)
         /\ Carries(Merge(f, rows, I), rows, I)
         /\ \A k \in DOMAIN f \ Keys(rows, I) : Merge(f, rows, I)[k] = f[k]
BY DEF Merge, Carries

LEMMA MergeIsFunction ==
  ASSUME NEW f, NEW rows, NEW I
  PROVE  Merge(f, rows, I) = [k \in DOMAIN Merge(f, rows, I) |-> Merge(f, rows, I)[k]]
BY DEF Merge

\* Merging the next rows keeps what the rows before them have left: the rows of a
\* query may be committed in any number of batches.
LEMMA MergeInBatches ==
  ASSUME NEW f, NEW rows, NEW n \in Nat, NEW I \in SUBSET (1..n), NEW J \in SUBSET (1..n),
         \A i \in I, j \in J : i < j,
         Carries(f, rows, I)
  PROVE  Carries(Merge(f, rows, J), rows, I \cup J)
<1> DEFINE g == Merge(f, rows, J)
           Of(K, k) == {i \in K : rows[i].key = k}
<1> SUFFICES ASSUME NEW k \in Keys(rows, I \cup J)
             PROVE  k \in DOMAIN g /\ g[k] = rows[Max(Of(I \cup J, k))].props
  BY DEF Carries
<1>0. /\ DOMAIN g = DOMAIN f \cup Keys(rows, J)
      /\ \A x \in Keys(rows, J) : x \in DOMAIN g /\ g[x] = rows[Max(Of(J, x))].props
      /\ \A x \in DOMAIN f \ Keys(rows, J) : g[x] = f[x]
  <2>1. Carries(g, rows, J)
    BY MergeFacts
  <2>2. /\ DOMAIN g = DOMAIN f \cup Keys(rows, J)
        /\ \A x \in DOMAIN f \ Keys(rows, J) : g[x] = f[x]
    BY MergeFacts
  <2> HIDE DEF g
  <2> QED BY <2>1, <2>2 DEF Carries
<1> HIDE DEF g
<1>1. CASE k \in Keys(rows, J)
  <2>1. k \in DOMAIN g /\ g[k] = rows[Max(Of(J, k))].props
    BY <1>0, <1>1
  <2>2. Of(J, k) # {} /\ Of(J, k) \in SUBSET (1..n) /\ Of(I \cup J, k) \in SUBSET (1..n)
    BY <1>1 DEF Keys
  <2>3. Of(I \cup J, k) # {}
    BY <2>2
  <2>6. Of(J, k) \subseteq Of(I \cup J, k)
    OBVIOUS
  <2>7. \A i \in Of(I \cup J, k), j \in Of(J, k) : i \in Of(J, k) \/ i < j
    OBVIOUS
  <2> HIDE DEF Of
  <2>4. /\ Max(Of(J, k)) \in Of(J, k)
        /\ \A i \in Of(J, k) : i <= Max(Of(J, k))
    BY <2>2, MaxOfNumbers
  <2>5. /\ Max(Of(I \cup J, k)) \in Of(I \cup J, k)
        /\ \A i \in Of(I \cup J, k) : i <= Max(Of(I \cup J, k))
    BY <2>2, <2>3, MaxOfNumbers
  <2>8. Max(Of(I \cup J, k)) = Max(Of(J, k))
    BY <2>2, <2>4, <2>5, <2>6, <2>7
  <2> QED BY <2>1, <2>8
<1>2. CASE k \notin Keys(rows, J)
  <2>1. Of(I \cup J, k) = Of(I, k) /\ k \in Keys(rows, I)
    BY <1>2 DEF Keys
  <2>2. k \in DOMAIN f /\ f[k] = rows[Max(Of(I, k))].props
    BY <2>1 DEF Carries
  <2>3. k \in DOMAIN g /\ g[k] = f[k]
    BY <1>0, <1>2, <2>2
  <2> QED BY <2>1, <2>2, <2>3
<1> QED BY <1>1, <1>2

--------------------------------------------------------------------------------
(* The rows of the three queries are lists.                                    *)

\* What LoadAssumption says of one plan's lists.
LEMMA PlanLists ==
  ASSUME NEW p \in Plans
  PROVE  /\ Len(p.nodes) \in Nat /\ DOMAIN p.nodes = 1..Len(p.nodes)
         /\ Len(p.edges) \in Nat /\ DOMAIN p.edges = 1..Len(p.edges)
         /\ Len(p.rings) \in Nat /\ DOMAIN p.rings = 1..Len(p.rings)
BY LoadAssumption DEF LoadAssumption

LEMMA NodeRowsAreAList ==
  ASSUME NEW p \in Plans
  PROVE  /\ NodeRows(p) \in Seq(ToSet(NodeRows(p)))
         /\ Len(NodeRows(p)) = Len(p.nodes)
<1>1. NodeRows(p) = [i \in 1..Len(p.nodes) |-> NodeRows(p)[i]]
  BY PlanLists DEF NodeRows
<1>2. \A i \in 1..Len(p.nodes) : NodeRows(p)[i] \in ToSet(NodeRows(p))
  BY <1>1 DEF ToSet
<1> QED BY <1>1, <1>2, PlanLists

LEMMA EdgeRowsAreAList ==
  ASSUME NEW p \in Plans
  PROVE  /\ EdgeRows(p) \in Seq(ToSet(EdgeRows(p)))
         /\ Len(EdgeRows(p)) = Len(p.edges)
<1>1. EdgeRows(p) = [i \in 1..Len(p.edges) |-> EdgeRows(p)[i]]
  BY PlanLists DEF EdgeRows
<1>2. \A i \in 1..Len(p.edges) : EdgeRows(p)[i] \in ToSet(EdgeRows(p))
  BY <1>1 DEF ToSet
<1> QED BY <1>1, <1>2, PlanLists

\* The pairs of a payout ring's payers are finitely many pairs of numbers.
LEMMA PayoutPairsType ==
  ASSUME NEW p \in Plans, NEW ring
  PROVE  PayoutPairs(p, ring) \in SUBSET (Int \X Int) /\ IsFiniteSet(PayoutPairs(p, ring))
<1> DEFINE legs   == {x \in ToSet(p.edges) : x.ring_id = ring.ring_id}
           payers == {e.from : e \in legs}
<1>1. IsFiniteSet(payers)
  <2>1. ToSet(p.edges) = {p.edges[i] : i \in 1..Len(p.edges)}
    BY PlanLists DEF ToSet
  <2>2. IsFiniteSet(1..Len(p.edges))
    BY PlanLists, FS_Interval
  <2>3. IsFiniteSet({p.edges[i] : i \in 1..Len(p.edges)})
    <3>1. p.edges = [i \in 1..Len(p.edges) |-> p.edges[i]]
      BY LoadAssumption DEF LoadAssumption
    <3>2. DOMAIN p.edges = 1..Len(p.edges)
      BY PlanLists
    <3> QED BY <2>2, <3>1, <3>2, ImageIsFinite
  <2>4. IsFiniteSet(legs)
    BY <2>1, <2>3, FS_Subset
  <2> HIDE DEF legs
  <2> DEFINE from == [e \in legs |-> e.from]
  <2>5. IsFiniteSet({from[e] : e \in legs})
    BY <2>4, ImageIsFinite
  <2>6. payers = {from[e] : e \in legs}
    OBVIOUS
  <2> QED BY <2>5, <2>6
<1>2. payers \in SUBSET Int
  <2> SUFFICES ASSUME NEW e \in ToSet(p.edges)
               PROVE  e.from \in Int
    OBVIOUS
  <2>1. PICK i \in DOMAIN p.nodes : e.from = p.nodes[i].account_id
    BY LoadAssumption DEF LoadAssumption
  <2>2. p.nodes[i] \in ToSet(p.nodes)
    BY DEF ToSet
  <2> QED BY <2>1, <2>2, LoadAssumption DEF LoadAssumption
<1> HIDE DEF payers
<1>3. IsFiniteSet(payers \X payers)
  BY <1>1, FS_Product
<1>4. {pair \in payers \X payers : pair[1] < pair[2]} \in SUBSET (payers \X payers)
  OBVIOUS
<1>5. IsFiniteSet({pair \in payers \X payers : pair[1] < pair[2]})
  BY <1>3, <1>4, FS_Subset
<1> QED BY <1>2, <1>4, <1>5 DEF PayoutPairs, payers

\* Sorted has as many entries as there are pairs, and each is one of them.
LEMMA SortedType ==
  ASSUME NEW S \in SUBSET (Int \X Int), IsFiniteSet(S)
  PROVE  Sorted(S) \in Seq(S)
<1> DEFINE R == {xy \in S \X S : Precedes(xy[1], xy[2])}
<1>1. \A x, y \in S : <<x, y>> \in R <=> Precedes(x, y)
  OBVIOUS
<1>2. \A x \in S : x[1] \in Int /\ x[2] \in Int /\ x = <<x[1], x[2]>>
  OBVIOUS
<1> HIDE DEF R
<1>3. \A x \in S : <<x, x>> \notin R
  BY <1>1, <1>2 DEF Precedes
<1>4. \A x, y \in S : x # y => <<x, y>> \in R \/ <<y, x>> \in R
  <2> SUFFICES ASSUME NEW x \in S, NEW y \in S, x # y
               PROVE  <<x, y>> \in R \/ <<y, x>> \in R
    OBVIOUS
  <2>1. x[1] # y[1] \/ x[2] # y[2]
    BY <1>2
  <2> QED BY <1>1, <1>2, <2>1 DEF Precedes
<1>5. \A x, y, z \in S : <<x, y>> \in R /\ <<y, z>> \in R => <<x, z>> \in R
  BY <1>1, <1>2 DEF Precedes
<1>6. Cardinality(S) \in Nat
  BY FS_CardinalityType
<1>7. \A i \in 1..Cardinality(S) :
        \E y \in S : Cardinality({x \in S : <<x, y>> \in R}) = i - 1
  BY <1>3, <1>4, <1>5, RanksAreDense
<1>8. \A y \in S : {x \in S : <<x, y>> \in R} = {x \in S : Precedes(x, y)}
  BY <1>1
<1>9. \A i \in 1..Cardinality(S) :
        \E y \in S : Cardinality({x \in S : Precedes(x, y)}) = i - 1
  BY <1>7, <1>8
<1>10. \A i \in 1..Cardinality(S) : Sorted(S)[i] \in S
  BY <1>9 DEF Sorted
<1>11. Sorted(S) = [i \in 1..Cardinality(S) |-> Sorted(S)[i]]
  <2> DEFINE pair(i) == CHOOSE y \in S : Cardinality({x \in S : Precedes(x, y)}) = i - 1
  <2>1. Sorted(S) = [i \in 1..Cardinality(S) |-> pair(i)]
    BY DEF Sorted
  <2> HIDE DEF pair
  <2> QED BY <2>1
<1> QED BY <1>6, <1>10, <1>11

LEMMA PayoutRowsAreAList ==
  ASSUME NEW p \in Plans
  PROVE  PayoutRows(p) \in Seq(ToSet(PayoutRows(p))) 
<1> DEFINE row(pair, ring) == [key   |-> [from |-> pair[1], to |-> pair[2],
                                          ring_id |-> ring.ring_id],
                               props |-> Tag(ring)]
           T == {row(pair, ring) : pair \in Int \X Int, ring \in ToSet(p.rings)}
           rows(ring) ==
             LET sorted == Sorted(PayoutPairs(p, ring))
             IN  [i \in DOMAIN sorted |-> row(sorted[i], ring)]
           lists == [r \in DOMAIN p.rings |->
                       IF p.rings[r].ring_type = "shared_payout" THEN rows(p.rings[r]) ELSE <<>>]
<1>1. ASSUME NEW r \in DOMAIN p.rings
      PROVE  rows(p.rings[r]) \in Seq(T)
  <2> DEFINE sorted == Sorted(PayoutPairs(p, p.rings[r]))
  <2>1. sorted \in Seq(Int \X Int)
    <3>1. sorted \in Seq(PayoutPairs(p, p.rings[r]))
      BY PayoutPairsType, SortedType
    <3> QED BY <3>1, PayoutPairsType
  <2>2. \A i \in DOMAIN sorted : row(sorted[i], p.rings[r]) \in T
    <3>1. p.rings[r] \in ToSet(p.rings)
      BY DEF ToSet
    <3> HIDE DEF sorted, row
    <3> QED BY <2>1, <3>1
  <2> HIDE DEF sorted, row, T
  <2>3. [i \in DOMAIN sorted |-> row(sorted[i], p.rings[r])] \in Seq(T)
    BY <2>1, <2>2
  <2> QED BY <2>3 DEF sorted
<1>2. lists \in Seq(Seq(T))
  <2> HIDE DEF rows, T
  <2>1. \A r \in 1..Len(p.rings) : lists[r] \in Seq(T)
    BY <1>1, PlanLists
  <2>2. lists = [r \in 1..Len(p.rings) |-> lists[r]]
    BY PlanLists
  <2> HIDE DEF lists
  <2> QED BY <2>1, <2>2, PlanLists
<1>3. PayoutRows(p) = FlattenSeq(lists)
  BY DEF PayoutRows
<1>4. PayoutRows(p) \in Seq(T)
  <2> HIDE DEF lists, T
  <2> QED BY <1>2, <1>3, FlattenSeqType
<1> HIDE DEF T
<1> QED BY <1>4 DEF ToSet

--------------------------------------------------------------------------------
(* The inductive invariant.                                                    *)

\* The stages after a query.
Past(query) ==
  CASE query = "nodes"   -> {"edges", "payouts", "verify", "done"}
    [] query = "edges"   -> {"payouts", "verify", "done"}
    [] query = "payouts" -> {"verify", "done"}

\* The rows of a query that this load has committed.
Committed(query) ==
  IF stage = query THEN 1..pos
  ELSE IF stage \in Past(query) THEN 1..Len(Rows(plan, query)) ELSE {}

\* The database is three functions, of finitely many entities.
DbType ==
  /\ db = [accounts |-> db.accounts, tx |-> db.tx, payout |-> db.payout]
  /\ db.accounts = [k \in DOMAIN db.accounts |-> db.accounts[k]]
  /\ db.tx = [k \in DOMAIN db.tx |-> db.tx[k]]
  /\ db.payout = [k \in DOMAIN db.payout |-> db.payout[k]]
  /\ IsFiniteSet(DOMAIN db.accounts)
  /\ IsFiniteSet(DOMAIN db.tx)

\* A load that has begun has a plan, which from its first row on is a source; no
\* row of a query is committed before the query starts.
PlanKnown ==
  /\ stage \notin Queries => pos = 0
  /\ stage # "idle" => plan \in Plans
  /\ stage \in Queries \cup {"verify", "done"} => plan \in sources

\* What was committed is there, with the properties of its last committed row.
CommittedIsThere ==
  stage # "idle" =>
    /\ Carries(db.accounts, NodeRows(plan), Committed("nodes"))
    /\ Carries(db.tx, EdgeRows(plan), Committed("edges") \cap Matched(db, EdgeRows(plan)))
    /\ Carries(db.payout, PayoutRows(plan),
               Committed("payouts") \cap Matched(db, PayoutRows(plan)))

\* What is there came from a row of one of the sources.
NothingElseIsThere ==
  /\ \A k \in DOMAIN db.accounts : \E p \in sources : k \in Keys(NodeRows(p), DOMAIN NodeRows(p))
  /\ \A k \in DOMAIN db.tx : \E p \in sources : k \in Keys(EdgeRows(p), DOMAIN EdgeRows(p))
  /\ \A k \in DOMAIN db.payout :
       \E p \in sources : k \in Keys(PayoutRows(p), DOMAIN PayoutRows(p))

\* The last line is about the database as it is.
VerdictIsCurrent ==
  stage = "done" => verdict = IF CountsAgree(plan, db) THEN "PASS" ELSE "MISMATCH"

LoadInv ==
  /\ TypeOK
  /\ DbType
  /\ PlanKnown
  /\ CommittedIsThere
  /\ NothingElseIsThere
  /\ VerdictIsCurrent

--------------------------------------------------------------------------------
(* A batch is a stretch of its query's rows.                                   *)

\* Where the batch that starts after `done` rows ends.
End(rows, done) == IF done + BatchSize < Len(rows) THEN done + BatchSize ELSE Len(rows)

LEMMA ChunkFacts ==
  ASSUME NEW S, NEW rows \in Seq(S), NEW done \in Nat, done < Len(rows)
  PROVE  /\ End(rows, done) \in (done + 1)..Len(rows)
         /\ DOMAIN Chunk(rows, done) = 1..(End(rows, done) - done)
         /\ \A j \in 1..(End(rows, done) - done) : Chunk(rows, done)[j] = rows[done + j]
<1>1. End(rows, done) \in (done + 1)..Len(rows)
  BY LoadAssumption DEF LoadAssumption, End
<1>2. Chunk(rows, done) = SubSeq(rows, done + 1, End(rows, done))
  BY DEF Chunk, End
<1> QED BY <1>1, <1>2

\* Merging rows of a batch is merging those rows of the query.
LEMMA MergeChunk ==
  ASSUME NEW S, NEW rows \in Seq(S), NEW done \in Nat, done < Len(rows),
         NEW f, NEW J \in SUBSET DOMAIN Chunk(rows, done)
  PROVE  Merge(f, Chunk(rows, done), J) = Merge(f, rows, {done + j : j \in J})
<1> DEFINE chunk == Chunk(rows, done)
           I == {done + j : j \in J}
           m == End(rows, done) - done
           Of(k) == {j \in J : chunk[j].key = k}
           At(k) == {i \in I : rows[i].key = k}
<1>1. /\ End(rows, done) \in (done + 1)..Len(rows) /\ m \in Nat
      /\ J \in SUBSET (1..m) /\ I \in SUBSET (1..Len(rows)) /\ Len(rows) \in Nat
  <2>1. End(rows, done) \in (done + 1)..Len(rows) /\ J \in SUBSET (1..m)
    BY ChunkFacts
  <2> QED BY <2>1
<1>2. \A j \in J : chunk[j] = rows[done + j] /\ j \in Int
  <2>1. \A j \in 1..m : chunk[j] = rows[done + j]
    BY ChunkFacts
  <2> QED BY <1>1, <2>1
<1> HIDE DEF chunk, m
<1>3. Keys(chunk, J) = Keys(rows, I)
  BY <1>2 DEF Keys
<1>4. ASSUME NEW k \in Keys(chunk, J)
      PROVE  chunk[Max(Of(k))].props = rows[Max(At(k))].props
  <2>1. Of(k) # {} /\ Of(k) \in SUBSET (1..m) /\ At(k) \in SUBSET (1..Len(rows))
    BY <1>1 DEF Keys
  <2>2. At(k) = {done + j : j \in Of(k)}
    BY <1>2
  <2>3. At(k) # {}
    BY <2>1, <2>2
  <2>4. Of(k) \subseteq J
    OBVIOUS
  <2> HIDE DEF Of, At, I
  <2>5. Max(Of(k)) \in Of(k) /\ \A j \in Of(k) : j <= Max(Of(k))
    BY <1>1, <2>1, MaxOfNumbers
  <2>6. Max(At(k)) \in At(k) /\ \A i \in At(k) : i <= Max(At(k))
    BY <1>1, <2>1, <2>3, MaxOfNumbers
  <2>7. PICK j \in Of(k) : Max(At(k)) = done + j
    BY <2>2, <2>6
  <2>8. done + Max(Of(k)) \in At(k)
    BY <2>2, <2>5
  <2>9. j <= Max(Of(k)) /\ done + Max(Of(k)) <= done + j
    BY <2>5, <2>6, <2>7, <2>8
  <2>10. Max(Of(k)) = j
    BY <1>2, <2>4, <2>5, <2>9
  <2> QED BY <1>2, <2>4, <2>7, <2>10
<1>5. \A k \in Keys(chunk, J) : chunk[Max(Of(k))].props = rows[Max(At(k))].props
  BY <1>4
<1>6. Merge(f, chunk, J) = [k \in DOMAIN f \cup Keys(chunk, J) |->
                             IF k \in Keys(chunk, J) THEN chunk[Max(Of(k))].props ELSE f[k]]
  BY DEF Merge
<1>7. Merge(f, rows, I) = [k \in DOMAIN f \cup Keys(rows, I) |->
                             IF k \in Keys(rows, I) THEN rows[Max(At(k))].props ELSE f[k]]
  BY DEF Merge
<1> HIDE DEF Of, At, I
<1> QED BY <1>3, <1>5, <1>6, <1>7 DEF chunk, I

\* Which rows of a batch match depends on the row alone.
LEMMA MatchedChunk ==
  ASSUME NEW S, NEW rows \in Seq(S), NEW done \in Nat, done < Len(rows), NEW d
  PROVE  {done + j : j \in Matched(d, Chunk(rows, done))}
           = ((done + 1)..End(rows, done)) \cap Matched(d, rows)
<1> DEFINE chunk == Chunk(rows, done)
           e == End(rows, done)
           fits(row) == {row.key.from, row.key.to} \subseteq DOMAIN d.accounts
<1>1. /\ e \in (done + 1)..Len(rows) /\ DOMAIN chunk = 1..(e - done)
      /\ \A j \in 1..(e - done) : chunk[j] = rows[done + j]
  BY ChunkFacts
<1>2. Matched(d, chunk) = {j \in 1..(e - done) : fits(rows[done + j])}
  BY <1>1 DEF Matched
<1>3. Matched(d, rows) = {i \in 1..Len(rows) : fits(rows[i])}
  BY DEF Matched
<1> HIDE DEF e, fits, chunk
<1>4. ASSUME NEW i \in ((done + 1)..e) \cap Matched(d, rows)
      PROVE  i - done \in Matched(d, chunk) /\ i = done + (i - done)
  BY <1>1, <1>2, <1>3
<1>5. ASSUME NEW j \in Matched(d, chunk)
      PROVE  done + j \in ((done + 1)..e) \cap Matched(d, rows)
  BY <1>1, <1>2, <1>3
<1>6. {done + j : j \in Matched(d, chunk)} = ((done + 1)..e) \cap Matched(d, rows)
  BY <1>4, <1>5
<1> QED BY <1>6 DEF chunk, e

LEMMA RowsAreAList ==
  ASSUME NEW p \in Plans, NEW query \in Queries
  PROVE  /\ Rows(p, query) \in Seq(ToSet(Rows(p, query)))
         /\ Len(Rows(p, query)) \in Nat /\ DOMAIN Rows(p, query) = 1..Len(Rows(p, query))
<1>1. Rows(p, query) \in Seq(ToSet(Rows(p, query)))
  <2>1. CASE query = "nodes"
    BY <2>1, NodeRowsAreAList DEF Rows
  <2>2. CASE query = "edges"
    BY <2>2, EdgeRowsAreAList DEF Rows
  <2>3. CASE query = "payouts"
    BY <2>3, PayoutRowsAreAList DEF Rows
  <2> QED BY <2>1, <2>2, <2>3 DEF Queries
<1> QED BY <1>1

\* The keys of finitely many rows are finitely many.
LEMMA KeysAreFinite ==
  ASSUME NEW rows, NEW n \in Nat, NEW I \in SUBSET (1..n)
  PROVE  IsFiniteSet(Keys(rows, I))
<1> DEFINE f == [i \in I |-> rows[i].key]
<1>0. IsFiniteSet(1..n)
  BY FS_Interval
<1>1. IsFiniteSet(I)
  BY <1>0, FS_Subset
<1>2. IsFiniteSet({f[i] : i \in I})
  BY <1>1, ImageIsFinite
<1>3. {f[i] : i \in I} = Keys(rows, I)
  BY DEF Keys
<1> QED BY <1>2, <1>3

\* The rows a batch merges.
Batch ==
  LET rows  == Rows(plan, stage)
      fresh == (pos + 1)..End(rows, pos)
  IN  IF stage = "nodes" THEN fresh ELSE fresh \cap Matched(db, rows)

\* A batch merges its rows into one of the three functions, and only there.
LEMMA BatchEffect ==
  ASSUME LoadInv, LoadBatch
  PROVE  LET rows == Rows(plan, stage)
         IN  /\ plan \in Plans /\ plan \in sources /\ stage \in Queries
             /\ rows \in Seq(ToSet(rows)) /\ Len(rows) \in Nat /\ pos \in Nat
             /\ pos' = End(rows, pos) /\ pos' \in (pos + 1)..Len(rows)
             /\ Batch \in SUBSET ((pos + 1)..pos')
             /\ db' = [accounts |-> IF stage = "nodes" THEN Merge(db.accounts, rows, Batch)
                                                       ELSE db.accounts,
                       tx       |-> IF stage = "edges" THEN Merge(db.tx, rows, Batch)
                                                       ELSE db.tx,
                       payout   |-> IF stage = "payouts" THEN Merge(db.payout, rows, Batch)
                                                         ELSE db.payout]
<1> DEFINE rows  == Rows(plan, stage)
           chunk == Chunk(rows, pos)
<1>1. stage \in Queries /\ plan \in Plans /\ plan \in sources
  BY DEF LoadInv, PlanKnown, LoadBatch, Queries
<1>2. rows \in Seq(ToSet(rows)) /\ Len(rows) \in Nat
  BY <1>1, RowsAreAList
<1>3. pos \in Nat /\ pos < Len(rows) /\ pos' = End(rows, pos)
  BY <1>1, <1>2 DEF LoadInv, TypeOK, LoadBatch, End
<1>4. db' = Commit(db, stage, chunk)
  BY DEF LoadBatch
<1>5. db = [accounts |-> db.accounts, tx |-> db.tx, payout |-> db.payout]
  BY DEF LoadInv, DbType
<1> HIDE DEF rows
<1>6. End(rows, pos) \in (pos + 1)..Len(rows)
      /\ DOMAIN chunk = 1..(End(rows, pos) - pos)
  BY <1>2, <1>3, ChunkFacts
<1>7. {pos + j : j \in DOMAIN chunk} = (pos + 1)..End(rows, pos)
  <2> HIDE DEF chunk
  <2>1. ASSUME NEW i \in (pos + 1)..End(rows, pos)
        PROVE  i - pos \in DOMAIN chunk /\ i = pos + (i - pos)
    BY <1>2, <1>3, <1>6
  <2>2. ASSUME NEW j \in DOMAIN chunk
        PROVE  pos + j \in (pos + 1)..End(rows, pos)
    BY <1>2, <1>3, <1>6
  <2> QED BY <2>1, <2>2
<1>8. CASE stage = "nodes"
  <2>1. Merge(db.accounts, chunk, DOMAIN chunk) = Merge(db.accounts, rows, Batch)
    <3>1. Batch = (pos + 1)..End(rows, pos)
      BY <1>8 DEF Batch, rows
    <3>2. Merge(db.accounts, chunk, DOMAIN chunk)
            = Merge(db.accounts, rows, {pos + j : j \in DOMAIN chunk})
      BY <1>2, <1>3, MergeChunk
    <3> QED BY <1>7, <3>1, <3>2
  <2>2. db' = [db EXCEPT !.accounts = Merge(db.accounts, chunk, DOMAIN chunk)]
    BY <1>4, <1>8 DEF Commit
  <2>3. Batch \in SUBSET ((pos + 1)..End(rows, pos))
    BY <1>8 DEF Batch, rows
  <2> HIDE DEF chunk
  <2> QED BY <1>1, <1>2, <1>3, <1>5, <1>6, <1>8, <2>1, <2>2, <2>3 DEF rows
<1>9. CASE stage \in {"edges", "payouts"}
  <2>1. ASSUME NEW f
        PROVE  Merge(f, chunk, Matched(db, chunk)) = Merge(f, rows, Batch)
    <3>1. Batch = ((pos + 1)..End(rows, pos)) \cap Matched(db, rows)
      BY <1>9 DEF Batch, rows
    <3>2. Matched(db, chunk) \in SUBSET DOMAIN chunk
      BY DEF Matched
    <3>3. Merge(f, chunk, Matched(db, chunk))
            = Merge(f, rows, {pos + j : j \in Matched(db, chunk)})
      BY <1>2, <1>3, <3>2, MergeChunk
    <3>4. {pos + j : j \in Matched(db, chunk)}
            = ((pos + 1)..End(rows, pos)) \cap Matched(db, rows)
      BY <1>2, <1>3, MatchedChunk
    <3> QED BY <3>1, <3>3, <3>4
  <2>2. stage = "edges" => db' = [db EXCEPT !.tx = Merge(db.tx, chunk, Matched(db, chunk))]
    BY <1>4 DEF Commit
  <2>3. stage = "payouts" =>
          db' = [db EXCEPT !.payout = Merge(db.payout, chunk, Matched(db, chunk))]
    BY <1>4 DEF Commit
  <2>4. Batch \in SUBSET ((pos + 1)..End(rows, pos))
    BY <1>9 DEF Batch, rows
  <2> HIDE DEF chunk
  <2> QED BY <1>1, <1>2, <1>3, <1>5, <1>6, <1>9, <2>1, <2>2, <2>3, <2>4 DEF rows
<1> QED BY <1>1, <1>8, <1>9 DEF Queries

--------------------------------------------------------------------------------
(* Every step keeps the invariant, part by part.                               *)

LEMMA InitLoadInv == Init => LoadInv
<1> SUFFICES ASSUME Init PROVE LoadInv
  OBVIOUS
<1>1. /\ plan = None /\ stage = "idle" /\ pos = 0 /\ verdict = "none" /\ sources = {}
      /\ db = [accounts |-> <<>>, tx |-> <<>>, payout |-> <<>>]
  BY DEF Init, Empty
<1>2. DOMAIN <<>> = {} /\ IsFiniteSet({})
  BY FS_EmptySet
<1>3. TypeOK
  BY <1>1, <1>2 DEF TypeOK, Queries
<1>4. DbType
  BY <1>1, <1>2 DEF DbType
<1>5. PlanKnown /\ CommittedIsThere /\ VerdictIsCurrent
  BY <1>1 DEF PlanKnown, CommittedIsThere, VerdictIsCurrent, Queries
<1>6. NothingElseIsThere
  BY <1>1, <1>2 DEF NothingElseIsThere
<1> QED BY <1>3, <1>4, <1>5, <1>6 DEF LoadInv

LEMMA TypeStep ==
  ASSUME LoadInv, Next
  PROVE  TypeOK'
<1> USE DEF Queries
<1>0. TypeOK /\ PlanKnown /\ DbType
  BY DEF LoadInv
<1>1. ASSUME NEW p \in Plans, NEW wipe \in BOOLEAN, Start(p, wipe)
      PROVE  TypeOK'
  BY <1>0, <1>1 DEF Start, TypeOK
<1>2. CASE Wipe
  <2>1. DOMAIN <<>> = {}
    OBVIOUS
  <2> QED BY <1>0, <1>2, <2>1 DEF Wipe, TypeOK, Empty
<1>3. CASE Plant
  <2>1. plan \in Plans /\ pos = 0
    BY <1>0, <1>3 DEF Plant, PlanKnown
  <2>2. Len(Rows(plan, "nodes")) \in Nat
    BY <2>1, RowsAreAList
  <2> QED BY <1>0, <1>3, <2>1, <2>2 DEF Plant, TypeOK
<1>4. CASE LoadBatch
  <2> DEFINE rows == Rows(plan, stage)
  <2>1. /\ pos' \in 0..Len(rows) /\ stage' = stage /\ plan' = plan
        /\ verdict' = verdict /\ sources' = sources
    BY <1>4, BatchEffect DEF LoadBatch
  <2>2. \A k \in DOMAIN db.tx' \cup DOMAIN db.payout' : {k.from, k.to} \subseteq DOMAIN db.accounts'
    <3>1. /\ DOMAIN db.accounts \subseteq DOMAIN db.accounts'
          /\ DOMAIN db.tx' \subseteq DOMAIN db.tx \cup IF stage = "edges" THEN Keys(rows, Batch) ELSE {}
          /\ DOMAIN db.payout'
               \subseteq DOMAIN db.payout \cup IF stage = "payouts" THEN Keys(rows, Batch) ELSE {}
      <4> HIDE DEF rows
      <4>1. db' = [accounts |-> IF stage = "nodes" THEN Merge(db.accounts, rows, Batch)
                                                   ELSE db.accounts,
                   tx       |-> IF stage = "edges" THEN Merge(db.tx, rows, Batch)
                                                   ELSE db.tx,
                   payout   |-> IF stage = "payouts" THEN Merge(db.payout, rows, Batch)
                                                     ELSE db.payout]
        BY <1>4, BatchEffect DEF rows
      <4>2. \A f : DOMAIN Merge(f, rows, Batch) = DOMAIN f \cup Keys(rows, Batch)
        BY MergeFacts
      <4> QED BY <4>1, <4>2
    <3>2. stage # "nodes" => \A k \in Keys(rows, Batch) : {k.from, k.to} \subseteq DOMAIN db.accounts
      BY DEF Batch, Matched, Keys
    <3>3. \A k \in DOMAIN db.tx \cup DOMAIN db.payout : {k.from, k.to} \subseteq DOMAIN db.accounts
      BY <1>0 DEF TypeOK
    <3> HIDE DEF rows
    <3> QED BY <3>1, <3>2, <3>3
  <2> QED BY <1>0, <2>1, <2>2 DEF TypeOK
<1>5. CASE NextQuery
  <2>1. plan \in Plans
    BY <1>0, <1>5 DEF NextQuery, PlanKnown
  <2>2. \A q \in Queries : Len(Rows(plan, q)) \in Nat
    BY <2>1, RowsAreAList
  <2> QED BY <1>0, <1>5, <2>2 DEF NextQuery, After, TypeOK
<1>6. CASE VerifyLoad
  BY <1>0, <1>6 DEF VerifyLoad, TypeOK
<1>7. CASE Crash
  BY <1>0, <1>7 DEF Crash, TypeOK
<1> QED BY <1>1, <1>2, <1>3, <1>4, <1>5, <1>6, <1>7 DEF Next

LEMMA DbTypeStep ==
  ASSUME LoadInv, Next
  PROVE  DbType'
<1>1. DbType
  BY DEF LoadInv
<1>2. CASE db' = db
  BY <1>1, <1>2 DEF DbType
<1>3. CASE Wipe
  <2>1. DOMAIN <<>> = {} /\ IsFiniteSet({})
    BY FS_EmptySet
  <2> QED BY <1>3, <2>1 DEF Wipe, Empty, DbType
<1>4. CASE LoadBatch
  <2> DEFINE rows == Rows(plan, stage)
  <2>1. /\ Batch \in SUBSET (1..Len(rows)) /\ Len(rows) \in Nat
        /\ db' = [accounts |-> IF stage = "nodes" THEN Merge(db.accounts, rows, Batch)
                                                  ELSE db.accounts,
                  tx       |-> IF stage = "edges" THEN Merge(db.tx, rows, Batch)
                                                  ELSE db.tx,
                  payout   |-> IF stage = "payouts" THEN Merge(db.payout, rows, Batch)
                                                    ELSE db.payout]
    BY <1>4, BatchEffect
  <2> HIDE DEF rows
  <2>2. IsFiniteSet(Keys(rows, Batch))
    BY <2>1, KeysAreFinite
  <2>3. ASSUME NEW f, IsFiniteSet(DOMAIN f)
        PROVE  IsFiniteSet(DOMAIN Merge(f, rows, Batch))
    <3>1. DOMAIN Merge(f, rows, Batch) = DOMAIN f \cup Keys(rows, Batch)
      BY MergeFacts
    <3> QED BY <2>2, <2>3, <3>1, FS_Union
  <2>4. IsFiniteSet(DOMAIN db.accounts') /\ IsFiniteSet(DOMAIN db.tx')
    BY <1>1, <2>1, <2>3 DEF DbType
  <2>5. db.accounts' = [k \in DOMAIN db.accounts' |-> db.accounts'[k]]
    BY <1>1, <2>1, MergeIsFunction DEF DbType
  <2>6. db.tx' = [k \in DOMAIN db.tx' |-> db.tx'[k]]
    BY <1>1, <2>1, MergeIsFunction DEF DbType
  <2>7. db.payout' = [k \in DOMAIN db.payout' |-> db.payout'[k]]
    BY <1>1, <2>1, MergeIsFunction DEF DbType
  <2>8. db' = [accounts |-> db.accounts', tx |-> db.tx', payout |-> db.payout']
    BY <2>1
  <2> QED BY <2>4, <2>5, <2>6, <2>7, <2>8 DEF DbType
<1> QED BY <1>2, <1>3, <1>4 DEF Next, Start, Plant, NextQuery, VerifyLoad, Crash

LEMMA PlanKnownStep ==
  ASSUME LoadInv, Next
  PROVE  PlanKnown'
<1> USE DEF PlanKnown, Queries
<1>0. PlanKnown
  BY DEF LoadInv
<1>1. ASSUME NEW p \in Plans, NEW wipe \in BOOLEAN, Start(p, wipe)
      PROVE  PlanKnown'
  BY <1>0, <1>1 DEF Start
<1>2. CASE Wipe \/ Plant \/ VerifyLoad \/ Crash
  BY <1>0, <1>2 DEF Wipe, Plant, VerifyLoad, Crash
<1>3. CASE LoadBatch
  BY <1>0, <1>3 DEF LoadBatch
<1>4. CASE NextQuery
  BY <1>0, <1>4 DEF NextQuery, After
<1> QED BY <1>1, <1>2, <1>3, <1>4 DEF Next

LEMMA CarriesNothing ==
  ASSUME NEW f, NEW rows
  PROVE  Carries(f, rows, {})
BY DEF Carries, Keys

LEMMA CommittedStep ==
  ASSUME LoadInv, Next
  PROVE  CommittedIsThere'
<1> USE DEF Queries, Past
<1>0. CommittedIsThere /\ PlanKnown /\ TypeOK
  BY DEF LoadInv
<1>1. ASSUME NEW p \in Plans, NEW wipe \in BOOLEAN, Start(p, wipe)
      PROVE  CommittedIsThere'
  <2>1. \A q \in Queries : Committed(q)' = {}
    BY <1>1 DEF Start, Committed
  <2> QED BY <2>1, CarriesNothing DEF CommittedIsThere
<1>2. CASE Wipe
  <2>1. \A q \in Queries : Committed(q)' = {}
    BY <1>2 DEF Wipe, Committed
  <2> QED BY <2>1, CarriesNothing DEF CommittedIsThere
<1>3. CASE Plant
  <2>1. \A q \in Queries : Committed(q)' = {}
    BY <1>0, <1>3 DEF Plant, Committed, PlanKnown
  <2> QED BY <2>1, CarriesNothing DEF CommittedIsThere
<1>4. CASE LoadBatch
  <2> DEFINE rows == Rows(plan, stage)
             done == IF stage = "nodes" THEN 1..pos ELSE (1..pos) \cap Matched(db, rows)
             part == CASE stage = "nodes" -> db.accounts
                       [] stage = "edges" -> db.tx
                       [] stage = "payouts" -> db.payout
  <2>1. /\ plan' = plan /\ stage' = stage /\ stage \in Queries
        /\ pos \in Nat /\ pos' \in (pos + 1)..Len(rows) /\ Len(rows) \in Nat
        /\ Batch \in SUBSET ((pos + 1)..pos')
        /\ db' = [accounts |-> IF stage = "nodes" THEN Merge(db.accounts, rows, Batch)
                                                  ELSE db.accounts,
                  tx       |-> IF stage = "edges" THEN Merge(db.tx, rows, Batch)
                                                  ELSE db.tx,
                  payout   |-> IF stage = "payouts" THEN Merge(db.payout, rows, Batch)
                                                    ELSE db.payout]
    BY <1>4, BatchEffect DEF LoadBatch
  <2>2. Batch = IF stage = "nodes" THEN (pos + 1)..pos'
                                   ELSE ((pos + 1)..pos') \cap Matched(db, rows)
    BY <1>4, BatchEffect DEF Batch
  <2>3. Carries(part, rows, done)
    BY <1>0, <2>1 DEF CommittedIsThere, Committed, Rows
  <2>4. Carries(Merge(part, rows, Batch), rows, done \cup Batch)
    <3>1. done \in SUBSET (1..Len(rows)) /\ Batch \in SUBSET (1..Len(rows))
      BY <2>1
    <3>2. \A i \in done, j \in Batch : i < j
      BY <2>1
    <3> HIDE DEF rows, done, part
    <3> QED BY <2>1, <2>3, <3>1, <3>2, MergeInBatches
  <2>5. done \cup Batch = IF stage = "nodes" THEN 1..pos' ELSE (1..pos') \cap Matched(db, rows)
    <3>1. 1..pos' = (1..pos) \cup ((pos + 1)..pos')
      BY <2>1
    <3> HIDE DEF rows
    <3> QED BY <2>1, <2>2, <3>1
  <2>6. stage # "nodes" => \A r : Matched(db, r)' = Matched(db', r) /\ Matched(db', r) = Matched(db, r)
    BY <2>1 DEF Matched
  <2>7. CASE stage = "nodes"
    <3>1. /\ Committed("nodes")' = 1..pos'
          /\ Committed("edges")' = {} /\ Committed("payouts")' = {}
      BY <2>1, <2>7 DEF Committed
    <3>2. Carries(db.accounts', NodeRows(plan'), 1..pos')
      BY <2>1, <2>4, <2>5, <2>7 DEF Rows
    <3> QED BY <3>1, <3>2, CarriesNothing DEF CommittedIsThere
  <2>8. CASE stage = "edges"
    <3>1. /\ Committed("nodes")' = Committed("nodes")
          /\ Committed("edges")' = 1..pos' /\ Committed("payouts")' = {}
      BY <2>1, <2>8 DEF Committed
    <3>2. Carries(db.tx', EdgeRows(plan'), (1..pos') \cap Matched(db', EdgeRows(plan')))
      BY <2>1, <2>4, <2>5, <2>6, <2>8 DEF Rows
    <3>3. Carries(db.accounts', NodeRows(plan'), Committed("nodes")')
      BY <1>0, <2>1, <2>8, <3>1 DEF CommittedIsThere
    <3> QED BY <3>1, <3>2, <3>3, CarriesNothing DEF CommittedIsThere
  <2>9. CASE stage = "payouts"
    <3>1. /\ Committed("nodes")' = Committed("nodes")
          /\ Committed("edges")' = Committed("edges") /\ Committed("payouts")' = 1..pos'
      BY <2>1, <2>9 DEF Committed
    <3>2. Carries(db.payout', PayoutRows(plan'), (1..pos') \cap Matched(db', PayoutRows(plan')))
      BY <2>1, <2>4, <2>5, <2>6, <2>9 DEF Rows
    <3>3. /\ Carries(db.accounts', NodeRows(plan'), Committed("nodes")')
          /\ Carries(db.tx', EdgeRows(plan'), Committed("edges")' \cap Matched(db', EdgeRows(plan')))
      BY <1>0, <2>1, <2>6, <2>9, <3>1 DEF CommittedIsThere
    <3> QED BY <3>1, <3>2, <3>3 DEF CommittedIsThere
  <2> QED BY <2>1, <2>7, <2>8, <2>9
<1>5. CASE NextQuery
  <2>1. \A q \in Queries : Committed(q)' = Committed(q) \/ Committed(q)' = {}
    BY <1>5 DEF NextQuery, After, Committed
  <2>2. /\ stage # "idle" /\ plan' = plan /\ db' = db
    BY <1>5 DEF NextQuery
  <2> HIDE DEF Past
  <2>3. Carries(db.accounts', NodeRows(plan'), Committed("nodes")')
    BY <1>0, <2>1, <2>2, CarriesNothing DEF CommittedIsThere
  <2>4. Carries(db.tx', EdgeRows(plan'), Committed("edges")' \cap Matched(db', EdgeRows(plan')))
    BY <1>0, <2>1, <2>2, CarriesNothing DEF CommittedIsThere
  <2>5. Carries(db.payout', PayoutRows(plan'),
                Committed("payouts")' \cap Matched(db', PayoutRows(plan')))
    BY <1>0, <2>1, <2>2, CarriesNothing DEF CommittedIsThere
  <2> QED BY <2>3, <2>4, <2>5 DEF CommittedIsThere
<1>6. CASE VerifyLoad
  <2>1. \A q \in Queries : Committed(q)' = Committed(q)
    BY <1>6 DEF VerifyLoad, Committed
  <2>2. stage = "verify" /\ plan' = plan /\ db' = db
    BY <1>6 DEF VerifyLoad
  <2> QED BY <1>0, <2>1, <2>2 DEF CommittedIsThere
<1>7. CASE Crash
  BY <1>7 DEF Crash, CommittedIsThere
<1> QED BY <1>1, <1>2, <1>3, <1>4, <1>5, <1>6, <1>7 DEF Next

LEMMA NothingElseStep ==
  ASSUME LoadInv, Next
  PROVE  NothingElseIsThere'
<1>0. NothingElseIsThere /\ PlanKnown /\ TypeOK
  BY DEF LoadInv
<1>1. CASE db' = db /\ sources \subseteq sources'
  BY <1>0, <1>1 DEF NothingElseIsThere
<1>2. CASE Wipe
  <2>1. DOMAIN <<>> = {}
    OBVIOUS
  <2> QED BY <1>2, <2>1 DEF Wipe, Empty, NothingElseIsThere
<1>3. CASE LoadBatch
  <2> DEFINE rows == Rows(plan, stage)
  <2>1. /\ plan \in sources /\ sources' = sources /\ stage \in Queries
        /\ Batch \in SUBSET (1..Len(rows)) /\ DOMAIN rows = 1..Len(rows)
        /\ db' = [accounts |-> IF stage = "nodes" THEN Merge(db.accounts, rows, Batch)
                                                  ELSE db.accounts,
                  tx       |-> IF stage = "edges" THEN Merge(db.tx, rows, Batch)
                                                  ELSE db.tx,
                  payout   |-> IF stage = "payouts" THEN Merge(db.payout, rows, Batch)
                                                    ELSE db.payout]
    BY <1>3, BatchEffect DEF LoadBatch
  <2>2. Keys(rows, Batch) \subseteq Keys(rows, DOMAIN rows)
    BY <2>1 DEF Keys
  <2>3. \A f : DOMAIN Merge(f, rows, Batch) = DOMAIN f \cup Keys(rows, Batch)
    BY MergeFacts
  <2>4. \A k \in DOMAIN db.accounts' :
          \E p \in sources' : k \in Keys(NodeRows(p), DOMAIN NodeRows(p))
    <3>1. CASE stage = "nodes"
      BY <1>0, <2>1, <2>2, <2>3, <3>1 DEF NothingElseIsThere, Rows
    <3> HIDE DEF rows
    <3>2. CASE stage # "nodes"
      BY <1>0, <2>1, <3>2 DEF NothingElseIsThere
    <3> QED BY <3>1, <3>2
  <2>5. \A k \in DOMAIN db.tx' :
          \E p \in sources' : k \in Keys(EdgeRows(p), DOMAIN EdgeRows(p))
    <3>1. CASE stage = "edges"
      BY <1>0, <2>1, <2>2, <2>3, <3>1 DEF NothingElseIsThere, Rows
    <3> HIDE DEF rows
    <3>2. CASE stage # "edges"
      BY <1>0, <2>1, <3>2 DEF NothingElseIsThere
    <3> QED BY <3>1, <3>2
  <2>6. \A k \in DOMAIN db.payout' :
          \E p \in sources' : k \in Keys(PayoutRows(p), DOMAIN PayoutRows(p))
    <3>1. CASE stage = "payouts"
      BY <1>0, <2>1, <2>2, <2>3, <3>1 DEF NothingElseIsThere, Rows
    <3> HIDE DEF rows
    <3>2. CASE stage # "payouts"
      BY <1>0, <2>1, <3>2 DEF NothingElseIsThere
    <3> QED BY <3>1, <3>2
  <2> QED BY <2>4, <2>5, <2>6 DEF NothingElseIsThere
<1> QED BY <1>1, <1>2, <1>3 DEF Next, Start, Plant, NextQuery, VerifyLoad, Crash

LEMMA VerdictStep ==
  ASSUME LoadInv, Next
  PROVE  VerdictIsCurrent'
<1>1. CASE stage' = "done"
  <2>1. VerifyLoad
    BY <1>1 DEF Next, Start, Wipe, Plant, LoadBatch, NextQuery, After, VerifyLoad, Crash, Queries
  <2>2. plan' = plan /\ db' = db
    BY <2>1 DEF VerifyLoad
  <2>3. CountsAgree(plan, db)' <=> CountsAgree(plan, db)
    BY <2>2 DEF CountsAgree, Tagged
  <2> QED BY <2>1, <2>3 DEF VerifyLoad, VerdictIsCurrent
<1>2. CASE stage' # "done"
  BY <1>2 DEF VerdictIsCurrent
<1> QED BY <1>1, <1>2

LEMMA StutterLoadInv ==
  ASSUME LoadInv, UNCHANGED vars
  PROVE  LoadInv'
<1>1. TypeOK'
  BY DEF LoadInv, TypeOK, vars
<1>2. DbType' /\ PlanKnown'
  BY DEF LoadInv, DbType, PlanKnown, vars
<1>3. CommittedIsThere'
  BY DEF LoadInv, CommittedIsThere, Committed, Matched, vars
<1>4. NothingElseIsThere'
  BY DEF LoadInv, NothingElseIsThere, vars
<1>5. VerdictIsCurrent'
  BY DEF LoadInv, VerdictIsCurrent, CountsAgree, Tagged, vars
<1> QED BY <1>1, <1>2, <1>3, <1>4, <1>5 DEF LoadInv

\* The inductive invariant holds of every load: its parts are needed together, for
\* what is committed must be known row by row while the batches go in.
THEOREM LoadInvariant == Spec => []LoadInv
<1>1. LoadInv /\ [Next]_vars => LoadInv'
  BY TypeStep, DbTypeStep, PlanKnownStep, CommittedStep, NothingElseStep, VerdictStep,
     StutterLoadInv DEF LoadInv
<1> QED BY <1>1, InitLoadInv, PTL DEF Spec

\* _run_batched and main keep the types; the position of a query stays within its
\* rows, and no relationship is left without its accounts.
THEOREM LoadTypes == Spec => []TypeOK
<1>1. LoadInv => TypeOK
  BY DEF LoadInv
<1> QED BY <1>1, LoadInvariant, PTL

--------------------------------------------------------------------------------
(* What a finished load leaves.                                                *)

\* Merging into nothing.
LEMMA MergeIntoNothing ==
  ASSUME NEW rows, NEW I
  PROVE  /\ Carries(Merge(<<>>, rows, I), rows, I)
         /\ DOMAIN Merge(<<>>, rows, I) = Keys(rows, I)
<1>1. DOMAIN Merge(<<>>, rows, I) = DOMAIN <<>> \cup Keys(rows, I)
  BY MergeFacts
<1>2. Carries(Merge(<<>>, rows, I), rows, I)
  BY MergeFacts
<1>3. DOMAIN <<>> = {}
  OBVIOUS
<1> QED BY <1>1, <1>2, <1>3

\* The image of a plan, query by query.
LEMMA ImageParts ==
  ASSUME NEW p \in Plans
  PROVE  /\ Image(p) = [accounts |-> Image(p).accounts, tx |-> Image(p).tx,
                        payout |-> Image(p).payout]
         /\ Image(p).accounts = Merge(<<>>, NodeRows(p), 1..Len(NodeRows(p)))
         /\ Image(p).tx = Merge(<<>>, EdgeRows(p), Matched(Image(p), EdgeRows(p)))
         /\ Image(p).payout = Merge(<<>>, PayoutRows(p), Matched(Image(p), PayoutRows(p)))
<1> DEFINE d1 == Commit(Empty, "nodes", NodeRows(p))
           d2 == Commit(d1, "edges", EdgeRows(p))
           d3 == Commit(d2, "payouts", PayoutRows(p))
<1>1. Image(p) = d3
  BY DEF Image
<1>2. d1 = [accounts |-> Merge(<<>>, NodeRows(p), DOMAIN NodeRows(p)), tx |-> <<>>,
            payout |-> <<>>]
  BY DEF Commit, Empty
<1>3. d2 = [d1 EXCEPT !.tx = Merge(@, EdgeRows(p), Matched(d1, EdgeRows(p)))]
  BY DEF Commit
<1>4. d3 = [d2 EXCEPT !.payout = Merge(@, PayoutRows(p), Matched(d2, PayoutRows(p)))]
  BY DEF Commit
<1> HIDE DEF d1, d2, d3
<1>5. /\ d3.accounts = d1.accounts /\ d2.accounts = d1.accounts
      /\ d3.tx = Merge(<<>>, EdgeRows(p), Matched(d1, EdgeRows(p)))
      /\ d3.payout = Merge(<<>>, PayoutRows(p), Matched(d2, PayoutRows(p)))
      /\ d3 = [accounts |-> d3.accounts, tx |-> d3.tx, payout |-> d3.payout]
  BY <1>2, <1>3, <1>4
<1>6. \A r : Matched(d3, r) = Matched(d1, r) /\ Matched(d3, r) = Matched(d2, r)
  BY <1>5 DEF Matched
<1>7. DOMAIN NodeRows(p) = 1..Len(NodeRows(p))
  BY NodeRowsAreAList
<1> QED BY <1>1, <1>2, <1>5, <1>6, <1>7

\* The rows of an entity.
RowsOf(k, rows, I) == {i \in I : rows[i].key = k}

\* Two functions that carry the same rows of a key agree on it.
LEMMA SameRowsSameEntity ==
  ASSUME NEW f, NEW g, NEW rows, NEW I, NEW J, Carries(f, rows, I), Carries(g, rows, J),
         NEW k \in Keys(rows, I),
         RowsOf(k, rows, I) = RowsOf(k, rows, J)
  PROVE  k \in DOMAIN f /\ k \in DOMAIN g /\ f[k] = g[k]
<1>1. k \in Keys(rows, J)
  BY DEF Keys, RowsOf
<1> QED BY <1>1 DEF Carries, RowsOf

\* Whether a row matches is a matter of its key, and an account more only helps.
LEMMA MatchedByKey ==
  ASSUME NEW d, NEW e, DOMAIN d.accounts \subseteq DOMAIN e.accounts,
         NEW rows, NEW k \in Keys(rows, Matched(d, rows))
  PROVE  RowsOf(k, rows, Matched(d, rows)) = RowsOf(k, rows, Matched(e, rows))
BY DEF Keys, Matched, RowsOf

\* The rows of a finished load are all committed.
LEMMA AllCommitted ==
  ASSUME LoadInv, Loaded
  PROVE  /\ plan \in Plans
         /\ Carries(db.accounts, NodeRows(plan), 1..Len(NodeRows(plan)))
         /\ Carries(db.tx, EdgeRows(plan), Matched(db, EdgeRows(plan)))
         /\ Carries(db.payout, PayoutRows(plan), Matched(db, PayoutRows(plan)))
<1>1. plan \in Plans /\ stage # "idle" /\ stage \in {"verify", "done"}
  BY DEF LoadInv, PlanKnown, Loaded
<1>2. /\ Committed("nodes") = 1..Len(NodeRows(plan))
      /\ Committed("edges") = DOMAIN EdgeRows(plan)
      /\ Committed("payouts") = DOMAIN PayoutRows(plan)
  BY <1>1, EdgeRowsAreAList, PayoutRowsAreAList DEF Committed, Past, Rows
<1>3. \A rows : DOMAIN rows \cap Matched(db, rows) = Matched(db, rows)
  BY DEF Matched
<1> QED BY <1>1, <1>2, <1>3 DEF LoadInv, CommittedIsThere

\* The parts of a finished load's database that its plan wrote.
LEMMA LoadInvIsComplete == LoadInv => LoadIsComplete
<1> SUFFICES ASSUME LoadInv, Loaded
             PROVE  \A part \in {"accounts", "tx", "payout"} :
                      \A k \in DOMAIN Image(plan)[part] :
                        k \in DOMAIN db[part] /\ db[part][k] = Image(plan)[part][k]
  BY DEF LoadIsComplete
<1>0. plan \in Plans
  BY AllCommitted
<1> DEFINE image == Image(plan)
<1>2. /\ Carries(image.accounts, NodeRows(plan), 1..Len(NodeRows(plan)))
      /\ DOMAIN image.accounts = Keys(NodeRows(plan), 1..Len(NodeRows(plan)))
  BY <1>0, MergeIntoNothing, ImageParts
<1>3. /\ Carries(image.tx, EdgeRows(plan), Matched(image, EdgeRows(plan)))
      /\ DOMAIN image.tx = Keys(EdgeRows(plan), Matched(image, EdgeRows(plan)))
  BY <1>0, MergeIntoNothing, ImageParts
<1>4. /\ Carries(image.payout, PayoutRows(plan), Matched(image, PayoutRows(plan)))
      /\ DOMAIN image.payout = Keys(PayoutRows(plan), Matched(image, PayoutRows(plan)))
  BY <1>0, MergeIntoNothing, ImageParts
<1> HIDE DEF image
<1>5. \A k \in DOMAIN image.accounts : k \in DOMAIN db.accounts /\ db.accounts[k] = image.accounts[k]
  BY <1>2, AllCommitted, SameRowsSameEntity
<1>6. DOMAIN image.accounts \subseteq DOMAIN db.accounts
  BY <1>5
<1>7. ASSUME NEW k \in DOMAIN image.tx
      PROVE  k \in DOMAIN db.tx /\ db.tx[k] = image.tx[k]
  <2>0. k \in Keys(EdgeRows(plan), Matched(image, EdgeRows(plan)))
    BY <1>3
  <2>1. RowsOf(k, EdgeRows(plan), Matched(image, EdgeRows(plan)))
          = RowsOf(k, EdgeRows(plan), Matched(db, EdgeRows(plan)))
    BY <1>6, <2>0, MatchedByKey
  <2> QED BY <1>3, <2>1, AllCommitted, SameRowsSameEntity
<1>8. ASSUME NEW k \in DOMAIN image.payout
      PROVE  k \in DOMAIN db.payout /\ db.payout[k] = image.payout[k]
  <2>0. k \in Keys(PayoutRows(plan), Matched(image, PayoutRows(plan)))
    BY <1>4
  <2>1. RowsOf(k, PayoutRows(plan), Matched(image, PayoutRows(plan)))
          = RowsOf(k, PayoutRows(plan), Matched(db, PayoutRows(plan)))
    BY <1>6, <2>0, MatchedByKey
  <2> QED BY <1>4, <2>1, AllCommitted, SameRowsSameEntity
<1> QED BY <1>5, <1>7, <1>8 DEF image

\* After a load everything it planted is in the database, whatever was there
\* before, for every plan and every batch size.
THEOREM LoadsAreComplete == Spec => []LoadIsComplete
BY LoadInvariant, LoadInvIsComplete, PTL

\* A function that has the entities of another, with the same properties, and no
\* others is that function.
LEMMA LoadInvIsExact == LoadInv => LoadIsExact
<1> SUFFICES ASSUME LoadInv, Loaded, sources = {plan}
             PROVE  db = Image(plan)
  BY DEF LoadIsExact
<1> DEFINE image == Image(plan)
<1>0. plan \in Plans
  BY AllCommitted
<1>1. \A part \in {"accounts", "tx", "payout"} :
        \A k \in DOMAIN image[part] : k \in DOMAIN db[part] /\ db[part][k] = image[part][k]
  BY LoadInvIsComplete DEF LoadIsComplete
<1>3. /\ image = [accounts |-> image.accounts, tx |-> image.tx, payout |-> image.payout]
      /\ DOMAIN image.accounts = Keys(NodeRows(plan), 1..Len(NodeRows(plan)))
      /\ DOMAIN image.tx = Keys(EdgeRows(plan), Matched(image, EdgeRows(plan)))
      /\ DOMAIN image.payout = Keys(PayoutRows(plan), Matched(image, PayoutRows(plan)))
  BY <1>0, MergeIntoNothing, ImageParts
<1>4. /\ image.accounts = [k \in DOMAIN image.accounts |-> image.accounts[k]]
      /\ image.tx = [k \in DOMAIN image.tx |-> image.tx[k]]
      /\ image.payout = [k \in DOMAIN image.payout |-> image.payout[k]]
  BY <1>0, ImageParts, MergeIsFunction
<1>5. DbType
  BY DEF LoadInv
<1> HIDE DEF image
<1>6. DOMAIN db.accounts = DOMAIN image.accounts
  <2>1. \A k \in DOMAIN db.accounts : k \in Keys(NodeRows(plan), DOMAIN NodeRows(plan))
    BY DEF LoadInv, NothingElseIsThere
  <2>2. DOMAIN NodeRows(plan) = 1..Len(NodeRows(plan))
    BY <1>0, NodeRowsAreAList
  <2>3. DOMAIN db.accounts \subseteq DOMAIN image.accounts
    BY <1>3, <2>1, <2>2
  <2> QED BY <1>1, <2>3
<1>7. \A rows : Matched(db, rows) = Matched(image, rows)
  BY <1>6 DEF Matched
<1>8. DOMAIN db.tx = DOMAIN image.tx
  <2>1. ASSUME NEW k \in DOMAIN db.tx
        PROVE  k \in DOMAIN image.tx
    <3>1. k \in Keys(EdgeRows(plan), DOMAIN EdgeRows(plan))
      BY DEF LoadInv, NothingElseIsThere
    <3>2. {k.from, k.to} \subseteq DOMAIN db.accounts
      BY DEF LoadInv, TypeOK
    <3>3. k \in Keys(EdgeRows(plan), Matched(db, EdgeRows(plan)))
      BY <3>1, <3>2 DEF Keys, Matched
    <3> QED BY <1>3, <1>7, <3>3
  <2> QED BY <1>1, <2>1
<1>9. DOMAIN db.payout = DOMAIN image.payout
  <2>1. ASSUME NEW k \in DOMAIN db.payout
        PROVE  k \in DOMAIN image.payout
    <3>1. k \in Keys(PayoutRows(plan), DOMAIN PayoutRows(plan))
      BY DEF LoadInv, NothingElseIsThere
    <3>2. {k.from, k.to} \subseteq DOMAIN db.accounts
      BY DEF LoadInv, TypeOK
    <3>3. k \in Keys(PayoutRows(plan), Matched(db, PayoutRows(plan)))
      BY <3>1, <3>2 DEF Keys, Matched
    <3> QED BY <1>3, <1>7, <3>3
  <2> QED BY <1>1, <2>1
<1>10. db.accounts = image.accounts
  BY <1>1, <1>4, <1>5, <1>6 DEF DbType
<1>11. db.tx = image.tx
  BY <1>1, <1>4, <1>5, <1>8 DEF DbType
<1>12. db.payout = image.payout
  BY <1>1, <1>4, <1>5, <1>9 DEF DbType
<1>13. db = [accounts |-> db.accounts, tx |-> db.tx, payout |-> db.payout]
  BY <1>5 DEF DbType
<1>14. db = image
  BY <1>3, <1>10, <1>11, <1>12, <1>13
<1> QED BY <1>14 DEF image

\* However often loads of one plan died and were run again, the database ends as
\* after a single load in one piece.
THEOREM LoadsAreExact == Spec => []LoadIsExact
BY LoadInvariant, LoadInvIsExact, PTL

--------------------------------------------------------------------------------
(* What verify_load says.                                                      *)

\* What a sequence of keys has at the indices I.
KeysAt(key, I) == {key[i] : i \in I}

\* Different keys count what they are keys of.
LEMMA CountByKey ==
  ASSUME NEW n \in Nat, NEW key, NEW I \in SUBSET (1..n),
         \A i, j \in I : key[i] = key[j] => i = j
  PROVE  Cardinality(KeysAt(key, I)) = Cardinality(I)
<1> DEFINE f == [i \in I |-> key[i]]
           T == KeysAt(key, I)
<1>0. IsFiniteSet(1..n)
  BY FS_Interval
<1>1. IsFiniteSet(I)
  BY <1>0, FS_Subset
<1>2. f \in Injection(I, T) /\ f \in Surjection(I, T)
  BY DEF Injection, Surjection, IsInjective, KeysAt
<1>3. Cardinality(T) = Cardinality(I)
  <2> HIDE DEF f, T
  <2> QED BY <1>1, <1>2, FS_Surjection
<1> QED BY <1>3

\* What is true of a row is true of as many entities as rows, when no two rows are
\* about one entity.
LEMMA CountEntities ==
  ASSUME NEW n \in Nat, NEW key, \A i, j \in 1..n : key[i] = key[j] => i = j,
         NEW K \in SUBSET KeysAt(key, 1..n), NEW I \in SUBSET (1..n),
         \A i \in 1..n : i \in I <=> key[i] \in K
  PROVE  Cardinality(K) = Cardinality(I)
<1>1. K = KeysAt(key, I)
  BY DEF KeysAt
<1>2. \A i, j \in I : key[i] = key[j] => i = j
  OBVIOUS
<1>3. Cardinality(KeysAt(key, I)) = Cardinality(I)
  BY <1>2, CountByKey
<1> QED BY <1>1, <1>3

\* As many keys as rows means that no two rows share one.
LEMMA KeysDistinct ==
  ASSUME NEW n \in Nat, NEW key,
         Cardinality(KeysAt(key, 1..n)) = n
  PROVE  \A i, j \in 1..n : key[i] = key[j] => i = j
<1> DEFINE f == [i \in 1..n |-> key[i]]
           T == KeysAt(key, 1..n)
<1>1. IsFiniteSet(1..n) /\ Cardinality(1..n) = n
  BY FS_Interval
<1>2. f \in Surjection(1..n, T)
  BY DEF Surjection, KeysAt
<1>3. f \in Injection(1..n, T)
  <2> HIDE DEF f
  <2> QED BY <1>1, <1>2, FS_Surjection
<1> QED BY <1>3 DEF Injection, IsInjective

\* When no two rows share a key every entity has its one row's properties.
LEMMA EntityOfRow ==
  ASSUME NEW rows, NEW n \in Nat, NEW f, Carries(f, rows, 1..n),
         \A i, j \in 1..n : rows[i].key = rows[j].key => i = j,
         NEW i \in 1..n
  PROVE  rows[i].key \in DOMAIN f /\ f[rows[i].key] = rows[i].props
<1>1. rows[i].key \in Keys(rows, 1..n)
  BY DEF Keys
<1>2. {j \in 1..n : rows[j].key = rows[i].key} = {i}
  OBVIOUS
<1>3. Max({i}) = i
  BY DEF Max
<1> QED BY <1>1, <1>2, <1>3 DEF Carries

\* _edge_rows: a planted edge finds its ring, so that its row has a tag.
LEMMA PlantedRowsAreTagged ==
  ASSUME NEW p \in Plans, NEW i \in DOMAIN p.edges
  PROVE  EdgeRows(p)[i].props # None <=> p.edges[i].ring_id # None
<1> DEFINE e == p.edges[i]
           r == SelectInSeq(p.rings, LAMBDA ring : ring.ring_id = e.ring_id)
<1>1. EdgeRows(p)[i].props = IF e.ring_id = None THEN None ELSE Tag(p.rings[r])
  BY DEF EdgeRows
<1>2. ASSUME e.ring_id # None
      PROVE  Tag(p.rings[r]) # None
  <2> DEFINE I == {j \in 1..Len(p.rings) : p.rings[j].ring_id = e.ring_id}
  <2>1. e \in ToSet(p.edges)
    BY DEF ToSet
  <2>2. PICK ring \in ToSet(p.rings) : ring.ring_id = e.ring_id
    BY <1>2, <2>1, LoadAssumption DEF LoadAssumption
  <2>3. I # {} /\ I \in SUBSET Nat
    BY <2>2, PlanLists DEF ToSet
  <2>4. Min(I) \in I
    BY <2>3, MinOfNumbers
  <2>5. r = Min(I)
    BY <2>3 DEF SelectInSeq
  <2>6. p.rings[r] \in ToSet(p.rings)
    BY <2>4, <2>5, PlanLists DEF ToSet
  <2> QED BY <2>6, LoadAssumption DEF LoadAssumption
<1> QED BY <1>1, <1>2

\* The accounts of an image are those of the plan, one for each node.
LEMMA ImageAccounts ==
  ASSUME NEW p \in Plans
  PROVE  /\ DOMAIN Image(p).accounts = {p.nodes[i].account_id : i \in 1..Len(p.nodes)}
         /\ Cardinality(DOMAIN Image(p).accounts) = Len(p.nodes)
         /\ Cardinality({a \in DOMAIN Image(p).accounts : Image(p).accounts[a].device_id # None})
              = Cardinality({i \in DOMAIN p.nodes : p.nodes[i].device_id # None})
<1> DEFINE n == Len(p.nodes)
           rows == NodeRows(p)
           f == Image(p).accounts
           key == [i \in 1..n |-> rows[i].key]
<1>1. n \in Nat /\ DOMAIN p.nodes = 1..n /\ Len(rows) = n
  BY PlanLists, NodeRowsAreAList
<1>2. \A i \in 1..n : rows[i].key = p.nodes[i].account_id
                      /\ rows[i].props.device_id = p.nodes[i].device_id
  BY <1>1 DEF NodeRows
<1>3. \A i, j \in 1..n : rows[i].key = rows[j].key => i = j
  BY <1>1, <1>2, LoadAssumption DEF LoadAssumption
<1>4. Carries(f, rows, 1..n) /\ DOMAIN f = Keys(rows, 1..n)
  BY <1>1, ImageParts, MergeIntoNothing
<1> HIDE DEF n, f, rows
<1>5. DOMAIN f = KeysAt(key, 1..n) /\ DOMAIN f = {p.nodes[i].account_id : i \in 1..n}
  <2>1. Keys(rows, 1..n) = KeysAt(key, 1..n)
    BY DEF Keys, KeysAt
  <2>2. Keys(rows, 1..n) = {p.nodes[i].account_id : i \in 1..n}
    BY <1>2 DEF Keys
  <2> QED BY <1>4, <2>1, <2>2
<1>6. \A i \in 1..n : key[i] \in DOMAIN f /\ f[key[i]].device_id = p.nodes[i].device_id
  <2>1. ASSUME NEW i \in 1..n
        PROVE  rows[i].key \in DOMAIN f /\ f[rows[i].key] = rows[i].props
    BY ONLY <1>1, <1>3, <1>4, <2>1, EntityOfRow, SMTT(30)
  <2> QED BY <1>2, <2>1
<1>7. \A i, j \in 1..n : key[i] = key[j] => i = j
  BY <1>3
<1>8. IsFiniteSet(1..n) /\ Cardinality(1..n) = n
  BY <1>1, FS_Interval
<1> HIDE DEF key
<1>9. Cardinality(DOMAIN f) = n
  BY <1>1, <1>5, <1>7, <1>8, CountByKey
<1>10. Cardinality({a \in DOMAIN f : f[a].device_id # None})
         = Cardinality({i \in 1..n : p.nodes[i].device_id # None})
  <2> DEFINE K == {a \in DOMAIN f : f[a].device_id # None}
             I == {i \in 1..n : p.nodes[i].device_id # None}
  <2>1. K \in SUBSET KeysAt(key, 1..n) /\ I \in SUBSET (1..n)
    BY <1>5
  <2>2. \A i \in 1..n : i \in I <=> key[i] \in K
    BY <1>6
  <2> HIDE DEF K, I
  <2>3. Cardinality(K) = Cardinality(I)
    BY <1>1, <1>7, <2>1, <2>2, CountEntities
  <2> QED BY <2>3 DEF K, I
<1> QED BY <1>1, <1>5, <1>9, <1>10 DEF f, n

\* Without equal parallel transactions an image has as many planted relationships
\* as the plan has planted edges.
LEMMA ImageTransactions ==
  ASSUME NEW p \in Plans, Cardinality(DOMAIN Image(p).tx) = Len(p.edges)
  PROVE  Cardinality(Tagged(Image(p).tx))
           = Cardinality({i \in DOMAIN p.edges : p.edges[i].ring_id # None})
<1> DEFINE n == Len(p.edges)
           rows == EdgeRows(p)
           f == Image(p).tx
           key == [i \in 1..n |-> rows[i].key]
<1>1. n \in Nat /\ DOMAIN p.edges = 1..n /\ DOMAIN rows = 1..n
  BY PlanLists, EdgeRowsAreAList
<1>2. Matched(Image(p), rows) = 1..n
  <2>1. ASSUME NEW i \in 1..n
        PROVE  {rows[i].key.from, rows[i].key.to} \subseteq DOMAIN Image(p).accounts
    <3>1. rows[i].key.from = p.edges[i].from /\ rows[i].key.to = p.edges[i].to
      BY <1>1 DEF EdgeRows
    <3>2. p.edges[i] \in ToSet(p.edges)
      BY <1>1 DEF ToSet
    <3>3. {p.edges[i].from, p.edges[i].to}
            \subseteq {p.nodes[j].account_id : j \in DOMAIN p.nodes}
      BY <3>2, LoadAssumption DEF LoadAssumption
    <3>4. DOMAIN Image(p).accounts = {p.nodes[j].account_id : j \in DOMAIN p.nodes}
      BY ImageAccounts, PlanLists
    <3> QED BY <3>1, <3>3, <3>4
  <2> QED BY <1>1, <2>1 DEF Matched
<1>3. Carries(f, rows, 1..n) /\ DOMAIN f = Keys(rows, 1..n)
  BY <1>2, ImageParts, MergeIntoNothing
<1>7. \A i \in 1..n : rows[i].props # None <=> p.edges[i].ring_id # None
  BY <1>1, PlantedRowsAreTagged
<1>11. Cardinality(DOMAIN f) = n
  OBVIOUS
<1> DEFINE I == {i \in 1..n : p.edges[i].ring_id # None}
<1> HIDE DEF n, f, rows
<1>4. DOMAIN f = KeysAt(key, 1..n)
  BY <1>3 DEF Keys, KeysAt
<1>5. \A i, j \in 1..n : key[i] = key[j] => i = j
  <2> HIDE DEF key
  <2> QED BY <1>1, <1>4, <1>11, KeysDistinct
<1>6. \A i \in 1..n : key[i] \in DOMAIN f /\ f[key[i]] = rows[i].props
  <2>1. \A i, j \in 1..n : rows[i].key = rows[j].key => i = j
    BY <1>5
  <2>2. ASSUME NEW i \in 1..n
        PROVE  rows[i].key \in DOMAIN f /\ f[rows[i].key] = rows[i].props
    BY <1>1, <1>3, <2>1, EntityOfRow
  <2> QED BY <2>2
<1> HIDE DEF key
<1>8. Tagged(f) \in SUBSET KeysAt(key, 1..n) /\ I \in SUBSET (1..n)
  BY <1>4 DEF Tagged
<1>9. \A i \in 1..n : i \in I <=> key[i] \in Tagged(f)
  BY <1>6, <1>7 DEF Tagged
<1> HIDE DEF I
<1>10. Cardinality(Tagged(f)) = Cardinality(I)
  <2> DEFINE K == Tagged(f)
  <2>1. K \in SUBSET KeysAt(key, 1..n)
    BY <1>8
  <2>2. \A i \in 1..n : i \in I <=> key[i] \in K
    BY <1>9
  <2>3. n \in Nat /\ I \in SUBSET (1..n)
    BY <1>1, <1>8
  <2> HIDE DEF K
  <2>4. Cardinality(K) = Cardinality(I)
    BY ONLY <1>5, <2>1, <2>2, <2>3, CountEntities
  <2> QED BY <2>4 DEF K
<1> QED BY <1>1, <1>10 DEF f, I, n

\* Where verify_load's four counts agree the accounts and transactions are the
\* plan's: nothing of it is missing, so that what is too many is counted.
LEMMA LoadInvIsRight == LoadInv => VerifyIsRight
<1> DEFINE image == Image(plan)
<1> SUFFICES ASSUME LoadInv, stage = "done", Cardinality(DOMAIN image.tx) = Len(plan.edges)
             PROVE  /\ verdict = "PASS" => db.accounts = image.accounts /\ db.tx = image.tx
                    /\ sources = {plan} => verdict = "PASS"
  BY DEF VerifyIsRight
<1>0. plan \in Plans /\ Loaded /\ DbType
  BY AllCommitted DEF Loaded, LoadInv
<1>1. verdict = IF CountsAgree(plan, db) THEN "PASS" ELSE "MISMATCH"
  BY DEF LoadInv, VerdictIsCurrent
<1>2. \A part \in {"accounts", "tx", "payout"} :
        \A k \in DOMAIN image[part] : k \in DOMAIN db[part] /\ db[part][k] = image[part][k]
  BY <1>0, LoadInvIsComplete DEF LoadIsComplete
<1>3. /\ image.accounts = [k \in DOMAIN image.accounts |-> image.accounts[k]]
      /\ image.tx = [k \in DOMAIN image.tx |-> image.tx[k]]
  BY <1>0, ImageParts, MergeIsFunction
<1>4. Cardinality(DOMAIN image.accounts) = Len(plan.nodes)
  BY <1>0, ImageAccounts
<1> HIDE DEF image
<1>5. ASSUME verdict = "PASS"
      PROVE  db.accounts = image.accounts /\ db.tx = image.tx
  <2>1. /\ Cardinality(DOMAIN db.accounts) = Len(plan.nodes)
        /\ Cardinality(DOMAIN db.tx) = Len(plan.edges)
    BY <1>1, <1>5 DEF CountsAgree
  <2>2. /\ DOMAIN image.accounts \in SUBSET DOMAIN db.accounts
        /\ DOMAIN image.tx \in SUBSET DOMAIN db.tx
    BY <1>2
  <2>3. DOMAIN db.accounts = DOMAIN image.accounts
    BY <1>0, <1>4, <2>1, <2>2, FS_Subset DEF DbType
  <2>4. DOMAIN db.tx = DOMAIN image.tx
    BY <1>0, <2>1, <2>2, FS_Subset DEF DbType
  <2> QED BY <1>0, <1>2, <1>3, <2>3, <2>4 DEF DbType
<1>6. ASSUME sources = {plan}
      PROVE  verdict = "PASS"
  <2>1. db = image
    BY <1>0, <1>6, LoadInvIsExact DEF LoadIsExact, image
  <2>2. /\ Cardinality({a \in DOMAIN image.accounts : image.accounts[a].device_id # None})
             = Cardinality({i \in DOMAIN plan.nodes : plan.nodes[i].device_id # None})
        /\ Cardinality(Tagged(image.tx))
             = Cardinality({i \in DOMAIN plan.edges : plan.edges[i].ring_id # None})
    BY <1>0, ImageAccounts, ImageTransactions DEF image
  <2>3. CountsAgree(plan, image)
    BY <1>4, <2>2 DEF CountsAgree
  <2> QED BY <1>1, <2>1, <2>3
<1> QED BY <1>5, <1>6

\* verify_load: for every plan without equal parallel transactions PASS means that
\* no account and no transaction of another load is left, and a load into an empty
\* database passes.
THEOREM VerifiesRightly == Spec => []VerifyIsRight
BY LoadInvariant, LoadInvIsRight, PTL

================================================================================
