----------------------------- MODULE SearchAnswer -----------------------------
(***************************************************************************)
(* What search and histogram (src/src/search/mod.rs) make of the blocks:   *)
(* each partition counts its rows and gives its newest ones, the answers   *)
(* of the partitions are added up and merged by time, and a page is cut    *)
(* out; and what the answer should be.                                     *)
(***************************************************************************)
EXTENDS EventStore

CONSTANTS
  Queries,      \* the queries to be answered
  Meant(_, _)   \* whether a query's expression holds of a stored row

-----------------------------------------------------------------------------
(* Sequences and counts.                                                   *)

Take(s, n) == SubSeq(s, 1, IF n < Len(s) THEN n ELSE Len(s))
Drop(s, n) == SubSeq(s, n + 1, Len(s))

(* Counts by key, added up.                                                *)
Count(counts, x) == IF x \in DOMAIN counts THEN counts[x] ELSE 0
AddCounts(a, b) == [x \in DOMAIN a \cup DOMAIN b |-> Count(a, x) + Count(b, x)]
AddAll(s) == FoldLeft(AddCounts, <<>>, s)

SumSeq(s) == FoldLeft(LAMBDA a, b : a + b, 0, s)

-----------------------------------------------------------------------------
(* One partition's answer to search_histogram.                             *)

FloorTo(t, interval) == t - (t % interval)

(* The newest rows of a block, as many as the page could need: a block is  *)
(* in the order of time, so they are the last.                             *)
Newest(rows, limit) == {i \in rows : Cardinality({j \in rows : j > i}) < limit}

Buckets(b, rows, interval) ==
  LET At(i) == FloorTo(b.rows[i].ts, interval)
  IN  [t \in {At(i) : i \in rows} |-> Cardinality({i \in rows : At(i) = t})]

(* Newest first; ties by block, then by row.                               *)
Sooner(a, b) ==
  \/ a.ts > b.ts
  \/ a.ts = b.ts /\ a.block < b.block
  \/ a.ts = b.ts /\ a.block = b.block /\ a.row < b.row

RowsAnswer(bs, rows, limit, interval) ==
  LET candidates == UNION {{[ts |-> bs[i].rows[j].ts, block |-> i, row |-> j,
                             event |-> bs[i].rows[j].event] : j \in Newest(rows[i], limit)}
                           : i \in DOMAIN bs}
  IN  [total |-> SumSeq([i \in DOMAIN bs |-> Cardinality(rows[i])]),
       hits |-> Take(Ranked(candidates, Sooner), limit),
       buckets |-> IF interval = 0 THEN <<>>
                   ELSE AddAll([i \in DOMAIN bs |-> Buckets(bs[i], rows[i], interval)])]

MatchedIn(bs, node, q) == [i \in DOMAIN bs |-> Matched(bs[i], node, q)]

PartitionAnswer(k, node, q, limit, interval) ==
  RowsAnswer(Blocks(k), MatchedIn(Blocks(k), node, q), limit, interval)

(* Empty buckets across the window, when both its ends are given.          *)
Prefill(q) ==
  IF q.interval = 0 \/ q.start = None \/ q.end = None THEN <<>>
  ELSE [t \in {u \in FloorTo(q.start, q.interval)..q.end : u % q.interval = 0} |-> 0]

(* search and search_histogram: every partition is asked for the whole     *)
(* prefix, the prefixes are merged by time and the page is cut out.        *)
MergedAnswer(q, parts) ==
  LET hits == FlattenSeq([i \in DOMAIN parts |-> parts[i].hits])
  IN  [total |-> SumSeq([i \in DOMAIN parts |-> parts[i].total]),
       hits |-> Take(Drop(StableSort(hits, LAMBDA h : -h.ts), q.offset), Max({q.limit, 1})),
       buckets |-> AddCounts(Prefill(q), AddAll([i \in DOMAIN parts |-> parts[i].buckets]))]

Parts(ks, node, q, limit) ==
  [i \in DOMAIN ks |-> PartitionAnswer(ks[i], node, q, limit, q.interval)]

Answer(q) ==
  MergedAnswer(q, Parts(PlannedKeys(q), PlannedNode(q), q, q.offset + Max({q.limit, 1})))

(* /histogram fills the window in every partition it asks, and so only     *)
(* when there is one.                                                      *)
MergedBuckets(q, parts) ==
  AddAll([i \in DOMAIN parts |-> AddCounts(Prefill(q), parts[i].buckets)])

Histogram(q) == MergedBuckets(q, Parts(PlannedKeys(q), PlannedNode(q), q, 0))

-----------------------------------------------------------------------------
(* What an answer should be, said of the rows that are stored, without     *)
(* blocks, limits or a parser.                                             *)

Stored ==
  UNION {UNION {{[row |-> r, index |-> k.index, key |-> k] : r \in ToSet(b.rows)}
                : b \in ToSet(Blocks(k))} : k \in Keys}

Words(q) == {w \in ToSet(q.tokens) : w.kind = "word"}

(* An event without a time is one of the epoch, filed under today.         *)
InWindow(s, q) ==
  /\ After(s.row.ts, q.start)
  /\ IF s.row.event.ts # None THEN Before(s.row.ts, q.end)
     ELSE q.end = None \/ Day(q.end) >= Today

InScope(s, q) ==
  /\ IF q.env = None THEN s.key.env = UserEnv ELSE s.key.env = q.env
  /\ q.allow = {} \/ Allowed(q.allow, s.key)
  /\ q.explicit = None \/ s.key \in q.explicit
  /\ (q.index # None /\ \A w \in Words(q) : w.field # "index") => Matches(q.index, s.index)

Matching(q) ==
  {s \in Stored : /\ InWindow(s, q) /\ InScope(s, q)
                  /\ Meant(q, s)}

(* A query as requests carry it.                                           *)
QueryFits(q) ==
  /\ q.start \in Int \cup {None} /\ q.end \in Int \cup {None}
  /\ q.offset \in Nat /\ q.limit \in Nat /\ q.interval \in Nat
  /\ q.size \in Nat /\ q.approximate \in BOOLEAN

(* The filter and the index patterns of q say of the rows of a block b of  *)
(* partition k what the expression means: all that is asked of the parser  *)
(* and of the filter's evaluation.                                         *)
FilterExact(q, b, k) ==
  /\ PlannedPatterns(q) = {} <=> \A w \in Words(q) : w.field # "index"
  /\ Eval(b, PlannedNode(q)) \subseteq AllRows(b)
  /\ \A i \in AllRows(b) :
       Meant(q, [row |-> b.rows[i], index |-> k.index, key |-> k])
         <=> /\ \/ PlannedPatterns(q) = {}
                \/ \E p \in PlannedPatterns(q) : Matches(p, k.index)
             /\ i \in Eval(b, PlannedNode(q))

(* The answer a to q, given the rows m that match it.                      *)
AnswerExact(q, m, a, histogram) ==
  LET InBucket(t) == Cardinality({s \in m : FloorTo(s.row.ts, q.interval) = t})
      Newer(t) == Cardinality({s \in m : s.row.ts > t})
      SameOrNewer(t) == Cardinality({s \in m : s.row.ts >= t})
  IN  /\ a.total = Cardinality(m)
      /\ Len(a.hits) = Max({0, Min({Max({q.limit, 1}), a.total - q.offset})})
      /\ IsInjective(a.hits)
      /\ \A i \in DOMAIN a.hits :
           /\ \E s \in m : s.row.event = a.hits[i].event
           /\ Newer(a.hits[i].ts) < q.offset + i
           /\ SameOrNewer(a.hits[i].ts) >= q.offset + i
      /\ q.interval > 0 =>
           /\ \A t \in DOMAIN a.buckets : a.buckets[t] = InBucket(t)
           /\ \A s \in m : FloorTo(s.row.ts, q.interval) \in DOMAIN a.buckets
           /\ Planned(q) # {} => histogram = a.buckets

(* A search answers with every stored row that matches, counted once,      *)
(* whatever blocks the rows are in and whatever the cache holds: the total *)
(* and the buckets of the histogram are exact (the window's empty buckets  *)
(* included), and the page holds matching rows, none twice, whose times    *)
(* are those at its place in the whole answer sorted by time; /histogram   *)
(* agrees when any partition is asked (search, search_histogram, histogram,*)
(* plan_with_explicit_keys, eval_cached).                                  *)
SearchExact ==
  \A q \in Queries : AnswerExact(q, Matching(q), Answer(q), Histogram(q))
=============================================================================
