------------------------------ MODULE Aggregate ------------------------------
(***************************************************************************)
(* The terms aggregation of one field (src/src/search/mod.rs, engine/block/*)
(* query.rs): each partition keeps its most frequent values, the counts    *)
(* are added up, scaled when only a sample of the partitions was read, and *)
(* the most frequent values of all are the answer.  The field is the       *)
(* source, the index, or n, whose numbers are integers; BlockFormat.tla    *)
(* has the terms of a field of integers, floats and texts together.        *)
(***************************************************************************)
EXTENDS SearchAnswer, Floats

CONSTANT MaxPartitions   \* partitions an approximate aggregation reads

ASSUME PartitionsAssumption == MaxPartitions \in Nat \ {0}

Number(x) == IF x = None THEN None ELSE AsF64(x)

ValueOf(r, field) == IF field = "n" THEN Number(r.first) ELSE r.source

RowTerms(b, rows, field) ==
  LET has == {i \in rows : ValueOf(b.rows[i], field) # None}
      Val(i) == ValueOf(b.rows[i], field)
  IN  [v \in {Val(i) : i \in has} |-> Cardinality({i \in has : Val(i) = v})]

BlockTerms(b, node, q) == RowTerms(b, Matched(b, node, q), q.field)

(* The n most frequent values; ties by value.                              *)
MoreFrequent(counts, v, w) ==
  counts[v] > counts[w] \/ (counts[v] = counts[w] /\ v < w)
TopTerms(counts, n) ==
  Take(Ranked(DOMAIN counts, LAMBDA v, w : MoreFrequent(counts, v, w)), n)

(* Mutant: a partition keeps one fewer.                                    *)
PerPartitionFewer(size) == 2 * size - 1

(* A partition keeps twice as many values as the answer will have.         *)
PerPartition(size) == 2 * size

TotalAs(name, rows) == [v \in IF rows = 0 THEN {} ELSE {name} |-> rows]
MostFrequent(counts, n) == [v \in ToSet(TopTerms(counts, n)) |-> counts[v]]

PartitionTerms(k, node, q) ==
  LET bs == Blocks(k)
  IN  IF q.field = "index"
      THEN TotalAs(k.index, SumSeq([i \in DOMAIN bs |-> Cardinality(Matched(bs[i], node, q))]))
      ELSE MostFrequent(AddAll([i \in DOMAIN bs |-> BlockTerms(bs[i], node, q)]),
                        PerPartition(q.size))

(* Every stride-th partition of the plan, when there are too many.         *)
CeilDiv(a, b) == (a + b - 1) \div b
SampleOf(ks, approximate) ==
  LET stride == IF approximate /\ Len(ks) > MaxPartitions
                THEN CeilDiv(Len(ks), MaxPartitions) ELSE 1
  IN  [i \in 1..CeilDiv(Len(ks), stride) |-> ks[(i - 1) * stride + 1]]
Sampled(q) == SampleOf(PlannedKeys(q), q.approximate)

(* A sampled count stands for the partitions left out, to the nearest.     *)
Scale(c, total, sampled) == (2 * c * total + sampled) \div (2 * sampled)

Scaled(counts, total, sampled) ==
  [v \in DOMAIN counts |-> Scale(counts[v], total, sampled)]

Listed(counts, n) ==
  LET top == TopTerms(counts, n)
  IN  [i \in DOMAIN top |-> [value |-> top[i], count |-> counts[top[i]]]]

AggregateOf(q, ks, total, node) ==
  Listed(AddAll([i \in DOMAIN ks |-> Scaled(PartitionTerms(ks[i], node, q), total, Len(ks))]),
         q.size)

Aggregate(q) ==
  AggregateOf(q, Sampled(q), Cardinality(Planned(q)), PlannedNode(q))

-----------------------------------------------------------------------------
FieldOf(s, q) == IF q.field = "index" THEN s.index ELSE ValueOf(s.row, q.field)
WithField(q) == {s \in Matching(q) : FieldOf(s, q) # None}

(* The answer out to q, given the rows that have its field.                *)
TermsSound(q, out, has, sampled, planned) ==
  LET Val(s) == FieldOf(s, q)
      True(v) == Cardinality({s \in has : Val(s) = v})
      shown == {out[i].value : i \in DOMAIN out}
      wide == \E k \in Keys : Cardinality({Val(s) : s \in {x \in has : x.key = k}}) > 2 * q.size
  IN  /\ sampled <= planned
      /\ q.approximate => sampled <= MaxPartitions
      /\ Len(out) <= q.size
      /\ Cardinality(shown) = Len(out)
      /\ \A i, j \in DOMAIN out : i < j => out[i].count >= out[j].count
      /\ sampled = planned =>
           /\ \A i \in DOMAIN out : out[i].count <= True(out[i].value)
           /\ ~wide =>
                /\ \A i \in DOMAIN out : out[i].count = True(out[i].value)
                /\ Len(out) = Min({q.size, Cardinality({Val(s) : s \in has})})
                /\ \A s \in has : Val(s) \notin shown =>
                     \A i \in DOMAIN out : True(Val(s)) <= out[i].count

(* A terms aggregation never counts a value more often than there are rows *)
(* with it unless it scales a sample, which it takes only of more          *)
(* partitions than it may read; and it is exact, the most frequent values  *)
(* first, as long as no partition has more distinct values than it keeps   *)
(* (terms, aggregate).  Integers are told apart as f64s are: those beyond  *)
(* 2^53 that round to the same one are one value, under its name.          *)
AggregateSound ==
  \A q \in Queries :
    q.size > 0 => TermsSound(q, Aggregate(q), WithField(q),
                             Len(Sampled(q)), Cardinality(Planned(q)))
===============================================================================
