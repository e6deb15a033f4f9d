------------------------------- MODULE Pipeline -------------------------------
(***************************************************************************)
(* Pipe queries (src/src/search/pipeline.rs): a search expression, one     *)
(* stage that makes a table of the matching rows (stats, timechart, top or *)
(* rare) and stages that rearrange the table.                              *)
(*                                                                         *)
(* A cell is a number (in ten-thousandths, the precision the code rounds   *)
(* to), a string (a number that stands for its place in the order of the   *)
(* strings) or nothing.                                                    *)
(***************************************************************************)
EXTENDS Search

CONSTANTS
  MaxScan,     \* rows read of a partition
  MaxGroups    \* groups of a timechart

Dash == 99     \* the key of a row without the field: after every other string

Num(x) == [kind |-> "num", v |-> 10000 * x]
Str(x) == [kind |-> "str", v |-> x]
Null == [kind |-> "null", v |-> -1]

Agg(op, field, alias) == [op |-> op, field |-> field, alias |-> alias]
BareCount == Agg("count", NoField, "count")

Failed == [ok |-> FALSE, columns |-> <<>>, rows |-> <<>>, scanned |-> 0]

-----------------------------------------------------------------------------
(* Reading the rows: of each block the first ones, of each partition at    *)
(* most MaxScan.                                                           *)

FirstRows(b, rows) ==
  LET order == Ranked({i \in rows : Cardinality({j \in rows : j < i}) < MaxScan},
                      LAMBDA i, j : i < j)
  IN  [n \in DOMAIN order |-> b.rows[order[n]]]

Scan(k, q) ==
  Take(FlattenSeq([i \in DOMAIN Blocks(k) |->
         FirstRows(Blocks(k)[i], Matched(Blocks(k)[i], PlannedNode(q), q))]), MaxScan)

ScannedRows(q) ==
  LET ks == PlannedKeys(q)
  IN  FlattenSeq([i \in DOMAIN ks |->
        LET hits == Scan(ks[i], q)
        IN  [j \in DOMAIN hits |-> [row |-> hits[j], index |-> ks[i].index]]])

-----------------------------------------------------------------------------
(* Grouping and aggregating.                                               *)

(* A field of a hit as a group key.                                        *)
KeyPart(hit, field) ==
  CASE field = "index" -> hit.index
    [] field = "source" -> IF hit.row.source = None THEN Dash ELSE hit.row.source

(* The number a metric reads out of the raw event, an f64: a list is none. *)
Metric(agg, hit) ==
  CASE agg.op \in {"earliest", "latest"} -> hit.row.ts
    [] OTHER -> IF Len(hit.row.event.n) = 1 THEN AsF64(hit.row.event.n[1]) ELSE None

GroupKey(hit, stage) ==
  (IF stage.op = "timechart" THEN <<FloorTo(hit.row.ts, stage.span)>> ELSE <<>>)
    \o [i \in DOMAIN stage.by |-> KeyPart(hit, stage.by[i])]

(* Mutant: rows that lack a field are left out of the groups.              *)
InSomeGroupIfPresent(hit, stage) == \A i \in DOMAIN stage.by : KeyPart(hit, stage.by[i]) # Dash

(* Every row is in a group: without a time there is no row.                *)
InSomeGroup(hit, stage) == TRUE

(* What an accumulator has seen, in the order of the rows.  It is found by *)
(* its column's name, so aggregations of one name feed the same.           *)
Samples(hits, aggs, alias) ==
  LET feeding == SelectSeq(aggs, LAMBDA a : a.alias = alias)
      seen(hit) == SelectSeq([i \in DOMAIN feeding |-> Metric(feeding[i], hit)],
                             LAMBDA x : x # None)
  IN  FlattenSeq([i \in DOMAIN hits |-> seen(hits[i])])

Percentile(xs, p) ==
  LET sorted == StableSort(xs, LAMBDA x : x)
  IN  Num(sorted[((Len(xs) - 1) * p + 50) \div 100 + 1])

Finalize(agg, aggs, hits) ==
  LET xs == Samples(hits, aggs, agg.alias)
  IN  CASE agg.op = "count" /\ agg.field = NoField -> Num(Len(hits))
        [] agg.op # "count" /\ xs = <<>> -> Null
        [] agg.op = "count" -> IF xs = <<>> THEN Null ELSE Num(Len(xs))
        [] agg.op = "sum" -> Num(SumSeq(xs))
        [] agg.op = "avg" -> [kind |-> "num",
                              v |-> (20000 * SumSeq(xs) + Len(xs)) \div (2 * Len(xs))]
        [] agg.op = "min" -> Num(Min(ToSet(xs)))
        [] agg.op = "max" -> Num(Max(ToSet(xs)))
        [] agg.op = "p50" -> Percentile(xs, 50)
        [] agg.op = "p95" -> Percentile(xs, 95)
        [] agg.op = "p99" -> Percentile(xs, 99)
        [] agg.op = "earliest" -> Str(Min(ToSet(xs)))
        [] agg.op = "latest" -> Str(Max(ToSet(xs)))

KeyLess(s, t) ==
  \E i \in DOMAIN s : s[i] < t[i] /\ \A j \in 1..(i - 1) : s[j] = t[j]

(* The table of a stats or timechart stage: a row for every group, in the  *)
(* order of the keys.  A timechart of too many groups is refused.          *)
GroupRow(g, own, aggs) ==
  [i \in DOMAIN g |-> Str(g[i])] \o [i \in DOMAIN aggs |-> Finalize(aggs[i], aggs, own)]

StatsTable(hits, grouped, stage) ==
  LET groups == {GroupKey(grouped[i], stage) : i \in DOMAIN grouped}
      order == Ranked(groups, KeyLess)
      Own(g) == SelectSeq(grouped, LAMBDA h : GroupKey(h, stage) = g)
  IN  IF stage.op = "timechart" /\ Cardinality(groups) > MaxGroups THEN Failed
      ELSE [ok |-> TRUE, scanned |-> Len(hits),
            columns |-> (IF stage.op = "timechart" THEN <<"_time">> ELSE <<>>)
                          \o stage.by \o [i \in DOMAIN stage.aggs |-> stage.aggs[i].alias],
            rows |-> [i \in DOMAIN order |-> GroupRow(order[i], Own(order[i]), stage.aggs)]]

StatsOf(hits, stage) ==
  StatsTable(hits, SelectSeq(hits, LAMBDA h : InSomeGroup(h, stage)), stage)

RunStats(q, stage) == StatsOf(ScannedRows(q), stage)

-----------------------------------------------------------------------------
(* The stages after it.                                                    *)

HasColumn(t, c) == \E i \in DOMAIN t.columns : t.columns[i] = c
Column(t, c) == Min({i \in DOMAIN t.columns : t.columns[i] = c})

(* An unknown column is passed over; equal cells keep their order.         *)
SortTable(t, stage) ==
  IF ~HasColumn(t, stage.column) THEN t
  ELSE LET c == Column(t, stage.column)
       IN  [t EXCEPT !.rows = StableSort(t.rows,
              LAMBDA r : IF stage.desc THEN -r[c].v ELSE r[c].v)]

(* A missing cell only ever differs; strings and numbers of the model have *)
(* no text in common.                                                      *)
CellPasses(cell, cmp, want) ==
  IF cell.kind # want.kind THEN cmp = "!="
  ELSE CASE cmp = "=" -> cell.v = want.v
         [] cmp = "!=" -> cell.v # want.v
         [] OTHER -> Compares(cmp, cell.v, want.v)

ApplyWhere(t, stage) ==
  IF ~HasColumn(t, stage.column) THEN Failed
  ELSE [t EXCEPT !.rows = SelectSeq(t.rows,
          LAMBDA r : CellPasses(r[Column(t, stage.column)], stage.cmp, stage.val))]

ApplyFields(t, stage) ==
  LET kept == IF stage.drop
              THEN SelectSeq([i \in DOMAIN t.columns |-> i],
                             LAMBDA i : t.columns[i] \notin ToSet(stage.columns))
              ELSE LET known == SelectSeq(stage.columns, LAMBDA c : HasColumn(t, c))
                   IN  [i \in DOMAIN known |-> Column(t, known[i])]
      Pick(s) == [i \in DOMAIN kept |-> s[kept[i]]]
  IN  [t EXCEPT !.columns = Pick(t.columns),
                !.rows = [i \in DOMAIN t.rows |-> Pick(t.rows[i])]]

ApplyRename(t, stage) ==
  IF HasColumn(t, stage.old) THEN [t EXCEPT !.columns[Column(t, stage.old)] = stage.new] ELSE t

HeadRows(t, n) == [t EXCEPT !.rows = Take(t.rows, n)]
TailRows(t, n) == [t EXCEPT !.rows = Drop(t.rows, Max({0, Len(t.rows) - n}))]

Apply(t, stage) ==
  IF ~t.ok THEN t
  ELSE CASE stage.op = "sort" -> SortTable(t, stage)
         [] stage.op = "head" -> HeadRows(t, stage.n)
         [] stage.op = "tail" -> TailRows(t, stage.n)
         [] stage.op = "where" -> ApplyWhere(t, stage)
         [] stage.op = "fields" -> ApplyFields(t, stage)
         [] stage.op = "rename" -> ApplyRename(t, stage)

(* top and rare are a count by the field, a sort and a cut.                *)
Desugar(stages) ==
  FlattenSeq([i \in DOMAIN stages |->
    IF stages[i].op \in {"top", "rare"}
    THEN <<[op |-> "stats", aggs |-> <<BareCount>>, by |-> <<stages[i].field>>],
           [op |-> "sort", column |-> "count", desc |-> stages[i].op = "top"],
           [op |-> "head", n |-> stages[i].n]>>
    ELSE <<stages[i]>>])

(* The table is made by the first stage and by no other.                   *)
Execute(q, stages) ==
  LET expanded == Desugar(stages)
      makers == {i \in DOMAIN expanded : expanded[i].op \in {"stats", "timechart"}}
  IN  IF makers # {1} THEN Failed
      ELSE FoldLeft(Apply, RunStats(q, expanded[1]), Tail(expanded))

-----------------------------------------------------------------------------
(* What a pipeline promises, said of the set of matching rows.  A pipeline *)
(* is a query, a stage that makes the table and, where they are not None,  *)
(* a condition, a sort, a cut and the columns to show.                     *)

CONSTANT Pipelines

Stages(p) ==
  <<p.maker>> \o (IF p.where = None THEN <<>> ELSE <<p.where>>)
             \o (IF p.sort = None THEN <<>> ELSE <<p.sort>>)
             \o (IF p.cut = None THEN <<>> ELSE <<p.cut>>)
             \o (IF p.fields = None THEN <<>> ELSE <<p.fields>>)

Members(q) == {[row |-> m.row, index |-> m.index] : m \in Matching(q)}

(* The number a group of rows has for an aggregation, each row once.       *)
TrueCell(agg, group) ==
  LET sampled == {h \in group : Metric(agg, h) # None}
      vals == {Metric(agg, h) : h \in sampled}
      AtMost(x) == Cardinality({h \in sampled : Metric(agg, h) <= x})
      total == MapThenSumSet(LAMBDA h : Metric(agg, h), sampled)
  IN  CASE agg.field = NoField -> Num(Cardinality(group))
        [] agg.field # NoField /\ sampled = {} -> Null
        [] agg.op = "count" -> Num(Cardinality(sampled))
        [] agg.op = "sum" -> Num(total)
        [] agg.op = "min" -> Num(Min(vals))
        [] agg.op = "max" -> Num(Max(vals))
        [] agg.op = "earliest" -> Str(Min(vals))
        [] agg.op = "latest" -> Str(Max(vals))
        [] agg.op = "p50" ->
             Num(Min({x \in vals : AtMost(x) > Cardinality(sampled) \div 2}))
        [] agg.op \in {"p95", "p99"} /\ Cardinality(sampled) < 10 -> Num(Max(vals))
        [] agg.op = "avg" ->
             [kind |-> "num",
              v |-> LET floor == (10000 * total) \div Cardinality(sampled)
                    IN  CHOOSE c \in {floor, floor + 1} :
                          2 * c * Cardinality(sampled) - 20000 * total
                            \in (-Cardinality(sampled) + 1)..Cardinality(sampled)]

(* The rows a complete scan makes, as a set.                               *)
TrueRows(q, maker) ==
  LET KeyIn(h) == GroupKey(h, maker)
  IN  {[i \in DOMAIN KeyIn(h) |-> Str(KeyIn(h)[i])]
         \o [i \in DOMAIN maker.aggs |->
               TrueCell(maker.aggs[i], {o \in Members(q) : KeyIn(o) = KeyIn(h)})]
       : h \in Members(q)}

(* No partition has more matching rows than a scan reads.                  *)
Complete(q) ==
  \A k \in Keys : Cardinality({m \in Matching(q) : m.key = k}) <= MaxScan

(* The table t of pipeline p, given the columns of the whole table, its    *)
(* query's matching rows and those of the true table that meet the         *)
(* condition, in the columns shown.                                        *)
TableExact(p, t, matching, passing, kept) ==
  LET short == p.maker.op \in {"top", "rare"}
      sort == IF short THEN Desugar(<<p.maker>>)[2] ELSE p.sort
      cut == IF short THEN p.maker.n ELSE IF p.cut = None THEN MaxGroups ELSE p.cut.n
      Key(r) == r[Column(t, sort.column)].v * (IF sort.desc THEN -1 ELSE 1)
  IN  /\ t.ok
      /\ t.scanned = MapThenSumSet(LAMBDA k :
            Min({MaxScan, Cardinality({m \in matching : m.key = k})}), Keys)
      /\ Complete(p.query) =>
           /\ kept \subseteq passing
           /\ Len(t.rows) = Min({cut, Cardinality(passing)})
           /\ IsInjective(t.rows)
           /\ sort # None =>
                /\ \A i, j \in DOMAIN t.rows : i < j => Key(t.rows[i]) <= Key(t.rows[j])
                /\ \A r \in kept, o \in passing \ kept :
                     IF p.cut # None /\ p.cut.op = "tail" THEN Key(o) <= Key(r)
                                                        ELSE Key(r) <= Key(o)

Shown(p, whole, r) ==
  IF p.fields = None THEN r
  ELSE [i \in DOMAIN p.fields.columns |-> r[Column(whole, p.fields.columns[i])]]

Passing(p, whole, true) ==
  {Shown(p, whole, r) : r \in
     {x \in true : p.where = None \/ CellPasses(x[Column(whole, p.where.column)],
                                               p.where.cmp, p.where.val)}}

MakerExact(p, maker, t) ==
  TableExact(p, t, Matching(p.query),
             Passing(p, Execute(p.query, <<maker>>), TrueRows(p.query, maker)), ToSet(t.rows))

(* A pipeline's table holds exactly the groups of the matching rows, each  *)
(* with the aggregates of its rows, wherever the rows are stored: first    *)
(* the condition, then the order, then the cut, and no row cut off comes   *)
(* before one that stayed.  Rows are left out of a scan only beyond the    *)
(* limit per partition (execute, run_stats and the table stages).          *)
PipelineExact ==
  \A p \in Pipelines :
    MakerExact(p, Desugar(<<p.maker>>)[1], Execute(p.query, Stages(p)))
=============================================================================
