------------------------------- MODULE GraphLoad -------------------------------
(* Pushing a planted graph into Neo4j (src/data/build_graph.py): three        *)
(* queries, each over rows sent in batches, every batch a transaction of its  *)
(* own.  The process may die between any two of them and be run again, with   *)
(* or without --wipe, on the same graph or on another.  Account ids are       *)
(* numbers, in the order of the strings they stand for.                       *)
EXTENDS Integers, Sequences, FiniteSets, SequencesExt

CONSTANTS
  None,       \* Python's None, Cypher's null
  Plans,      \* graphs and rings plant_rings may hand over
  BatchSize   \* --batch-size

Tag(ring) ==
  [ring_id |-> ring.ring_id, ring_type |-> ring.ring_type,
   difficulty |-> ring.difficulty, split |-> ring.split]

(* A plan: the lists of the graph's nodes and edges in its iteration order,   *)
(* and of the rings.  A planted edge names its ring, and no other edge does.  *)
ASSUME LoadAssumption ==
  /\ BatchSize \in Nat \ {0}
  /\ None \notin Plans
  /\ \A p \in Plans :
       /\ p.nodes \in Seq(ToSet(p.nodes))
       /\ p.edges \in Seq(ToSet(p.edges))
       /\ p.rings \in Seq(ToSet(p.rings))
       /\ \A node \in ToSet(p.nodes) : node.account_id \in Int
       /\ \A ring \in ToSet(p.rings) : Tag(ring) # None
       /\ \A i, j \in DOMAIN p.nodes :
            p.nodes[i].account_id = p.nodes[j].account_id => i = j
       /\ \A e \in ToSet(p.edges) :
            /\ {e.from, e.to} \subseteq {p.nodes[i].account_id : i \in DOMAIN p.nodes}
            /\ e.ring_id = None \/ \E r \in ToSet(p.rings) : r.ring_id = e.ring_id

VARIABLES
  plan,     \* what the running load, or the last one, loads
  stage,    \* where it stands
  pos,      \* rows of the current query that are committed
  db,       \* Neo4j: accounts, TRANSACTED_WITH and SHARES_PAYOUT, with their properties
  verdict,  \* verify_load's last line
  sources   \* plans rows of which may be in db (history)

vars == <<plan, stage, pos, db, verdict, sources>>

Empty == [accounts |-> <<>>, tx |-> <<>>, payout |-> <<>>]

Queries == {"nodes", "edges", "payouts"}

--------------------------------------------------------------------------------
(* The rows of the three queries: the key they MERGE on, the properties SET.  *)

\* _ring_tag_map: a member of several rings keeps the tag written last.
RingTag(p, account) ==
  LET r == SelectLastInSeq(p.rings, LAMBDA ring : account \in ring.members)
  IN  IF r = 0 THEN None ELSE Tag(p.rings[r])

NodeRows(p) ==
  [i \in DOMAIN p.nodes |->
     LET node == p.nodes[i]
     IN  [key   |-> node.account_id,
          props |-> [kind |-> node.kind, device_id |-> node.device_id,
                     tag |-> RingTag(p, node.account_id)]]]

EdgeRows(p) ==
  [i \in DOMAIN p.edges |->
     LET e == p.edges[i]
     IN  [key   |-> [from |-> e.from, to |-> e.to, amount |-> e.amount, step |-> e.step,
                     type |-> e.type],
          props |-> IF e.ring_id = None THEN None
                    ELSE Tag(p.rings[SelectInSeq(p.rings,
                               LAMBDA ring : ring.ring_id = e.ring_id)])]]

\* _shared_payout_rows: every pair of the accounts that feed a payout ring, found
\* by the ring's legs, in the order of combinations over the sorted payers: the
\* i-th pair is the one that i - 1 others precede.
PayoutPairs(p, ring) ==
  LET payers == {e.from : e \in {x \in ToSet(p.edges) : x.ring_id = ring.ring_id}}
  IN  {pair \in payers \X payers : pair[1] < pair[2]}

Precedes(x, y) == x[1] < y[1] \/ (x[1] = y[1] /\ x[2] < y[2])

Sorted(pairs) ==
  [i \in 1..Cardinality(pairs) |->
     CHOOSE y \in pairs : Cardinality({x \in pairs : Precedes(x, y)}) = i - 1]

PayoutRows(p) ==
  LET rows(ring) ==
        LET sorted == Sorted(PayoutPairs(p, ring))
        IN  [i \in DOMAIN sorted |->
               [key   |-> [from |-> sorted[i][1], to |-> sorted[i][2],
                           ring_id |-> ring.ring_id],
                props |-> Tag(ring)]]
  IN  FlattenSeq([r \in DOMAIN p.rings |->
                    IF p.rings[r].ring_type = "shared_payout" THEN rows(p.rings[r]) ELSE <<>>])

Rows(p, query) ==
  CASE query = "nodes"   -> NodeRows(p)
    [] query = "edges"   -> EdgeRows(p)
    [] query = "payouts" -> PayoutRows(p)

--------------------------------------------------------------------------------
(* What a query makes of its rows.                                            *)

Keys(rows, I) == {rows[i].key : i \in I}

\* Bugs the run must notice: properties set only on creation, a batch one row
\* short, and (below) a check without the accounts, a position kept too long.
CreateOnly(f, rows, I) ==
  [k \in DOMAIN f \cup Keys(rows, I) |->
     IF k \in DOMAIN f THEN f[k] ELSE rows[Max({i \in I : rows[i].key = k})].props]
ShortChunk(rows, done) ==
  SubSeq(rows, done + 1, IF done + BatchSize < Len(rows) THEN done + BatchSize - 1
                                                         ELSE Len(rows))

\* MERGE ... SET over the rows I in order: one entity per key, its properties those
\* of the last row.
Merge(f, rows, I) ==
  [k \in DOMAIN f \cup Keys(rows, I) |->
     IF k \in Keys(rows, I) THEN rows[Max({i \in I : rows[i].key = k})].props ELSE f[k]]

\* The MATCH clauses drop a row when one of its accounts does not exist.
Matched(d, rows) ==
  {i \in DOMAIN rows : {rows[i].key.from, rows[i].key.to} \subseteq DOMAIN d.accounts}

Commit(d, query, rows) ==
  CASE query = "nodes"   -> [d EXCEPT !.accounts = Merge(@, rows, DOMAIN rows)]
    [] query = "edges"   -> [d EXCEPT !.tx = Merge(@, rows, Matched(d, rows))]
    [] query = "payouts" -> [d EXCEPT !.payout = Merge(@, rows, Matched(d, rows))]

\* _chunks: the next batch.
Chunk(rows, done) ==
  SubSeq(rows, done + 1, IF done + BatchSize < Len(rows) THEN done + BatchSize ELSE Len(rows))

--------------------------------------------------------------------------------
(* verify_load compares four counts with the graph in memory.                 *)

Tagged(f) == {k \in DOMAIN f : f[k] # None}

CountsWithoutAccounts(p, d) ==
  /\ Cardinality(DOMAIN d.tx) = Len(p.edges)
  /\ Cardinality({a \in DOMAIN d.accounts : d.accounts[a].device_id # None})
       = Cardinality({i \in DOMAIN p.nodes : p.nodes[i].device_id # None})
  /\ Cardinality(Tagged(d.tx)) = Cardinality({i \in DOMAIN p.edges : p.edges[i].ring_id # None})

CountsAgree(p, d) ==
  /\ Cardinality(DOMAIN d.accounts) = Len(p.nodes)
  /\ Cardinality(DOMAIN d.tx) = Len(p.edges)
  /\ Cardinality({a \in DOMAIN d.accounts : d.accounts[a].device_id # None})
       = Cardinality({i \in DOMAIN p.nodes : p.nodes[i].device_id # None})
  /\ Cardinality(Tagged(d.tx)) = Cardinality({i \in DOMAIN p.edges : p.edges[i].ring_id # None})

--------------------------------------------------------------------------------
Init ==
  /\ plan = None /\ stage = "idle" /\ pos = 0
  /\ db = Empty
  /\ verdict = "none"
  /\ sources = {}

\* main, up to the wipe.
Start(p, wipe) ==
  /\ stage \in {"idle", "done"}
  /\ plan' = p
  /\ stage' = IF wipe THEN "wipe" ELSE "plant"
  /\ pos' = 0
  /\ verdict' = "none"
  /\ UNCHANGED <<db, sources>>

\* MATCH (n) DETACH DELETE n, before anything is read or planted.
Wipe ==
  /\ stage = "wipe"
  /\ stage' = "plant"
  /\ db' = Empty
  /\ sources' = {}
  /\ UNCHANGED <<plan, pos, verdict>>

\* load_paysim and plant_rings return, the constraint is created and the rows
\* are computed.
Plant ==
  /\ stage = "plant"
  /\ stage' = "nodes"
  /\ sources' = sources \cup {plan}
  /\ UNCHANGED <<plan, pos, db, verdict>>

\* One session.run of _run_batched.
LoadBatch ==
  /\ stage \in Queries
  /\ LET rows  == Rows(plan, stage)
         chunk == Chunk(rows, pos)
     IN  /\ pos < Len(rows)
         /\ db' = Commit(db, stage, chunk)
         /\ pos' = IF pos + BatchSize < Len(rows) THEN pos + BatchSize ELSE Len(rows)
  /\ UNCHANGED <<plan, stage, verdict, sources>>

After(query) ==
  CASE query = "nodes" -> "edges" [] query = "edges" -> "payouts" [] query = "payouts" -> "verify"

StickyNextQuery ==
  /\ stage \in Queries
  /\ pos = Len(Rows(plan, stage))
  /\ stage' = After(stage)
  /\ UNCHANGED <<plan, pos, db, verdict, sources>>

\* The rows of a query are used up.
NextQuery ==
  /\ stage \in Queries
  /\ pos = Len(Rows(plan, stage))
  /\ stage' = After(stage)
  /\ pos' = 0
  /\ UNCHANGED <<plan, db, verdict, sources>>

VerifyLoad ==
  /\ stage = "verify"
  /\ stage' = "done"
  /\ verdict' = IF CountsAgree(plan, db) THEN "PASS" ELSE "MISMATCH"
  /\ UNCHANGED <<plan, pos, db, sources>>

\* The process dies, or a query fails: what was committed stays.
Crash ==
  /\ stage \notin {"idle", "done"}
  /\ stage' = "idle"
  /\ pos' = 0
  /\ UNCHANGED <<plan, db, verdict, sources>>

Next ==
  \/ \E p \in Plans, wipe \in BOOLEAN : Start(p, wipe)
  \/ Wipe
  \/ Plant
  \/ LoadBatch
  \/ NextQuery
  \/ VerifyLoad
  \/ Crash

Spec == Init /\ [][Next]_vars

--------------------------------------------------------------------------------
(* Properties.                                                                *)

\* The graph a load is meant to leave: each query over all its rows at once.
Image(p) ==
  Commit(Commit(Commit(Empty, "nodes", NodeRows(p)), "edges", EdgeRows(p)),
         "payouts", PayoutRows(p))

Loaded == stage \in {"verify", "done"}

\* Every variable keeps its type, the position stays within the query's rows, and
\* no relationship hangs in the air.
TypeOK ==
  /\ plan \in Plans \cup {None}
  /\ stage \in {"idle", "wipe", "plant", "verify", "done"} \cup Queries
  /\ stage \in Queries => pos \in 0..Len(Rows(plan, stage))
  /\ verdict \in {"none", "PASS", "MISMATCH"}
  /\ sources \subseteq Plans
  /\ \A k \in DOMAIN db.tx \cup DOMAIN db.payout : {k.from, k.to} \subseteq DOMAIN db.accounts

\* After a load everything it planted is in the database with the properties it
\* planted, whatever was there before: other samples, the remains of loads that
\* died half way.
LoadIsComplete ==
  Loaded =>
    \A part \in {"accounts", "tx", "payout"} :
      \A k \in DOMAIN Image(plan)[part] :
        k \in DOMAIN db[part] /\ db[part][k] = Image(plan)[part][k]

\* "Idempotent": however often loads of one plan died and were run again, wiped
\* or not, the database ends as after a single one, with nothing twice and
\* nothing left over.
LoadIsExact == Loaded /\ sources = {plan} => db = Image(plan)

\* verify_load: PASS means that no account and no transaction of another load is
\* left, and a load into an empty database passes -- for graphs without equal
\* parallel transactions, which MERGE makes one.
VerifyIsRight ==
  stage = "done" /\ Cardinality(DOMAIN Image(plan).tx) = Len(plan.edges) =>
    /\ verdict = "PASS" =>
         /\ db.accounts = Image(plan).accounts
         /\ db.tx = Image(plan).tx
    /\ sources = {plan} => verdict = "PASS"
================================================================================
