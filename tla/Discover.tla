-------------------------------- MODULE Discover --------------------------------
(***************************************************************************)
(* Which fields there are (src/src/search/discover.rs): the catalog adds   *)
(* up what the blocks' footers say, whatever the expression; the sampling  *)
(* discovery walks the JSON of the newest matching events of each          *)
(* partition and merges what it saw.  Both read the store of Search.tla    *)
(* with the rows of BlockFormat.tla.                                       *)
(***************************************************************************)
EXTENDS BlockFormat

CONSTANTS
  CardinalityCap,   \* CARDINALITY_CAP
  SamplesKept,      \* SAMPLE_VALUES_KEEP
  NameRank(_),      \* the place of a name among all names
  Discoveries       \* what is asked: a query, a sample size and a top

UniversalCore == {<<"timestamp">>, <<"message">>, <<"raw">>, <<"source">>, <<"index">>}

SumOver(S, Of(_)) == FoldSet(LAMBDA x, n : n + Of(x), 0, S)

-----------------------------------------------------------------------------
(* block_field_stats: of each column, its rows and its distinct texts.     *)
StatsOfRows(id, rows) ==
  {[block |-> id, path |-> c[1], kind |-> c[2], rows |-> ColumnStats(rows, c).rows,
    cardinality |-> ColumnStats(rows, c).cardinality] :
   c \in UNION {{ColumnOf(f) : f \in Firsts(rows[i])} : i \in DOMAIN rows}}
FieldStats(b) ==
  StatsOfRows(b.id, Listing(Len(b.rows), LAMBDA i : Known(b, i)))

(* field_catalog.  The tree is not asked, only the window and the scope.   *)
ReadFor(q) == {b \in UNION {ToSet(Blocks(k)) : k \in Planned(q)} : Overlaps(b, q)}

(* Mutant: the distinct values of the blocks added up.                     *)
FieldAdded(seen, path) ==
  LET mine == {s \in seen : s.path = path}
  IN  [name |-> path,
       rows |-> SumOver(mine, LAMBDA s : s.rows),
       cardinality |-> SumOver(mine, LAMBDA s : s.cardinality),
       kinds |-> {s.kind : s \in mine}]

(* FieldAccumC: a field over all its columns.                              *)
Field(seen, path) ==
  LET mine == {s \in seen : s.path = path}
  IN  [name |-> path,
       rows |-> SumOver(mine, LAMBDA s : s.rows),
       cardinality |-> Max({s.cardinality : s \in mine}),
       kinds |-> {s.kind : s \in mine}]

(* Worth a breakdown; worth showing opened.  Coverage is f.rows of total.  *)
CatalogGroupable(f, total) ==
  20 * f.rows >= total /\ (f.cardinality = 0 \/ f.cardinality >= 2)
CatalogInteresting(f, total) ==
  f.kinds \in {{"str"}, {"bool"}} /\ 2 * f.rows >= total /\ f.cardinality \in 2..20

NameBefore(p, q) ==
  Less([i \in DOMAIN p |-> NameRank(p[i])], [i \in DOMAIN q |-> NameRank(q[i])])

CatalogOf(total, fields, top) ==
  LET ranked == Sorted(fields, LAMBDA f, g : \/ f.rows > g.rows
                                             \/ f.rows = g.rows /\ NameBefore(f.name, g.name))
  IN  [total |-> total,
       fields |-> Listing(Len(Take(ranked, top)), LAMBDA i :
         [field |-> ranked[i], groupable |-> CatalogGroupable(ranked[i], total),
          interesting |-> CatalogInteresting(ranked[i], total)])]

CatalogSeen(bs, seen, top) ==
  CatalogOf(SumOver(bs, LAMBDA b : Len(b.rows)),
            {Field(seen, p) : p \in {s.path : s \in seen} \ UniversalCore}, top)

FieldCatalog(d) ==
  CatalogSeen(ReadFor(d.query), UNION {FieldStats(b) : b \in ReadFor(d.query)}, d.top)

-----------------------------------------------------------------------------
(* discover_fields.                                                        *)

(* The scalars of an event's JSON, objects opened, lists left out.         *)
RECURSIVE Walk(_, _)
Walk(path, val) ==
  CASE val[1] = "object" ->
         Concat(Len(val[2]), LAMBDA i : Walk(Append(path, val[2][i][1]), val[2][i][2]))
    [] val[1] \in {"array", "null"} -> <<>>
    [] OTHER -> <<<<path, val>>>>

Scalars(e) ==
  Concat(Len(Json(e)), LAMBDA i :
    IF <<Json(e)[i][1]>> \in UniversalCore THEN <<>> ELSE Walk(<<Json(e)[i][1]>>, Json(e)[i][2]))

(* Stat::observe, over the values of one path in their order.              *)
NoStat == [hits |-> 0, distinct |-> {}, capped |-> FALSE, samples |-> <<>>, kind |-> None]

OneKind(a, b) == IF a = None \/ a = b THEN b ELSE IF b = None THEN a ELSE "mixed"

Distinct(st, v) ==
  IF st.capped \/ Text(v) \in st.distinct THEN st
  ELSE [st EXCEPT !.distinct = @ \cup {Text(v)},
                  !.samples = IF Len(@) < SamplesKept THEN Append(@, v) ELSE @,
                  !.capped = Cardinality(st.distinct) + 1 >= CardinalityCap]

Observe(st, v) ==
  [Distinct(st, v) EXCEPT !.hits = @ + 1, !.kind = OneKind(@, v[1])]

Observed(vals) ==
  LET stat[i \in 0..Len(vals)] == IF i = 0 THEN NoStat ELSE Observe(stat[i - 1], vals[i])
  IN  stat[Len(vals)]

(* Stat::merge.                                                            *)
Fewer(S, n) == ToSet(Take(ListOf(S), n))
MergedKeys(a, b) ==
  IF a.capped \/ b.capped THEN a.distinct
  ELSE a.distinct \cup Fewer(b.distinct \ a.distinct, CardinalityCap - Cardinality(a.distinct))

MergedSamples(a, b) ==
  Take(a.samples \o SelectSeq(b.samples, LAMBDA v : v \notin ToSet(a.samples)), SamplesKept)

MergeStat(a, b) ==
  [hits |-> a.hits + b.hits,
   distinct |-> MergedKeys(a, b),
   capped |-> a.capped \/ b.capped \/ Cardinality(MergedKeys(a, b)) >= CardinalityCap,
   samples |-> MergedSamples(a, b),
   kind |-> OneKind(a.kind, b.kind)]

(* The newest events of a partition, as many as its share of the sample.   *)
Share(sample, partitions) == Max({CeilDiv(sample, Max({partitions, 1})), 1})

SampleHits(k, node, q, share) ==
  LET hits == PartitionAnswer(k, node, q, share, 0).hits
  IN  Listing(Len(hits), LAMBDA i : Scalars(hits[i].event))

ValuesAt(events, path) ==
  Concat(Len(events), LAMBDA i :
    LET here == SelectSeq(events[i], LAMBDA x : x[1] = path)
    IN  Listing(Len(here), LAMBDA j : here[j][2]))

(* The partitions' stats of a path; one that never met it has none.        *)
StatOf(samples, path) ==
  LET stat[i \in 0..Len(samples)] ==
        IF i = 0 THEN NoStat
        ELSE IF ValuesAt(samples[i], path) = <<>> THEN stat[i - 1]
        ELSE IF stat[i - 1] = NoStat THEN Observed(ValuesAt(samples[i], path))
        ELSE MergeStat(stat[i - 1], Observed(ValuesAt(samples[i], path)))
  IN  stat[Len(samples)]

(* Coverage by the logarithm of one more than the distinct values, without *)
(* the logarithm.                                                          *)
Outscores(f, g) ==
  (1 + Cardinality(f.stat.distinct)) ^ f.stat.hits > (1 + Cardinality(g.stat.distinct)) ^ g.stat.hits

Groupable(st, size) ==
  /\ ~st.capped /\ Cardinality(st.distinct) >= 2
  /\ 20 * st.hits >= size
  /\ st.hits >= 3 * Cardinality(st.distinct)
Interesting(st, size) ==
  Groupable(st, size) /\ 2 * st.hits >= size /\ Cardinality(st.distinct) <= 20

DiscoveryOf(samples, size, top) ==
  LET paths == UNION {UNION {{x[1] : x \in ToSet(samples[i][j])} : j \in DOMAIN samples[i]}
                      : i \in DOMAIN samples}
      ranked == Sorted({[name |-> p, stat |-> StatOf(samples, p)] : p \in paths}, Outscores)
  IN  [size |-> size,
       fields |-> Listing(Len(Take(ranked, top)), LAMBDA i :
         [name |-> ranked[i].name, stat |-> ranked[i].stat,
          groupable |-> Groupable(ranked[i].stat, size),
          interesting |-> Interesting(ranked[i].stat, size)])]

DiscoverySampled(samples, top) ==
  DiscoveryOf(samples, SumSeq(Listing(Len(samples), LAMBDA i : Len(samples[i]))), top)

Discovery(d, ks) ==
  DiscoverySampled(
    Listing(Len(ks), LAMBDA i :
      SampleHits(ks[i], PlannedNode(d.query), d.query, Share(d.sample, Len(ks)))),
    d.top)

DiscoverFields(d) == Discovery(d, PlannedKeys(d.query))

-----------------------------------------------------------------------------
(* What should be found, said of the events.                               *)

InScopeOf(q) == {s \in Stored : InScope(s, q) /\ (q.index = None \/ Matches(q.index, s.index))}

HoldsAs(s, path, kind) == \E f \in Firsts(FullRow(s.row.event)) : ColumnOf(f) = <<path, kind>>
Kinds == {"i64", "f64", "bool", "str"}
RowsOf(scope, path) ==
  SumOver(Kinds, LAMBDA kind : Cardinality({s \in scope : HoldsAs(s, path, kind)}))
FirstTexts(scope, path) ==
  UNION {{f[2] : f \in {g \in Firsts(FullRow(s.row.event)) : ColumnOf(g) = <<path, "str">>}} : s \in scope}
PathsOf(scope) == UNION {{f[1] : f \in Firsts(FullRow(s.row.event))} : s \in scope}

CatalogExact(top, scope, c) ==
  /\ c.total = Cardinality(scope)
  /\ Len(c.fields) = Min({top, Cardinality(PathsOf(scope))})
  /\ IsInjective(c.fields)
  /\ \A i \in DOMAIN c.fields :
       LET f == c.fields[i].field
           texts == FirstTexts(scope, f.name)
       IN  /\ f.rows = RowsOf(scope, f.name)
           /\ f.kinds = {kind \in Kinds : \E s \in scope : HoldsAs(s, f.name, kind)}
           /\ f.cardinality <= Cardinality(texts)
           /\ Cardinality({b \in UNION {ToSet(Blocks(k)) : k \in Keys} :
                             \E s \in scope : s.row \in ToSet(b.rows) /\ HoldsAs(s, f.name, "str")}) = 1
                => f.cardinality = Cardinality(texts)
           /\ \A p \in PathsOf(scope) :
                (\A j \in DOMAIN c.fields : c.fields[j].field.name # p) => RowsOf(scope, p) <= f.rows

AllAt(scope, path) ==
  UNION {{[event |-> s.row.event, place |-> j] :
           j \in {i \in DOMAIN Scalars(s.row.event) : Scalars(s.row.event)[i][1] = path}} : s \in scope}
ValueOfPlace(x) == Scalars(x.event)[x.place][2]

DiscoveryExact(all, m, r) ==
  /\ IF all THEN r.size = Cardinality(m) ELSE r.size <= Cardinality(m)
  /\ IsInjective(r.fields)
  /\ \A i \in DOMAIN r.fields :
       LET st == r.fields[i].stat
           at == AllAt(m, r.fields[i].name)
           vals == {ValueOfPlace(x) : x \in at}
           texts == {Text(v) : v \in vals}
       IN  /\ st.hits <= Cardinality(at) /\ (all => st.hits = Cardinality(at))
           /\ st.distinct \subseteq texts /\ Cardinality(st.distinct) <= CardinalityCap
           /\ all => /\ st.capped <=> Cardinality(texts) >= CardinalityCap
                     /\ st.capped \/ st.distinct = texts
                     /\ st.kind = IF Cardinality({v[1] : v \in vals}) = 1
                                  THEN (CHOOSE v \in vals : TRUE)[1] ELSE "mixed"
           /\ ToSet(st.samples) \subseteq vals /\ IsInjective(st.samples)
           /\ st.samples # <<>> /\ Len(st.samples) <= SamplesKept
           /\ r.fields[i].interesting => r.fields[i].groupable /\ ~st.capped

(* The field catalog counts every row that holds a field once for each     *)
(* type it holds it in, however the rows are cut into blocks and merged;   *)
(* its number of distinct texts never exceeds the true one and is that one *)
(* when a single block has them; only the least frequent fields are left   *)
(* out (field_catalog).  The discovery over a sample that holds every      *)
(* match counts every scalar, and knows all its texts unless they reach    *)
(* the cap, whatever partitions it merges them from; a smaller sample      *)
(* never reports more (discover_fields, Stat::merge).                      *)
FieldsExact ==
  \A d \in Discoveries :
    LET m == Matching(d.query)
    IN  /\ d.query.start = None /\ d.query.end = None /\ d.query.tokens = <<>> =>
             CatalogExact(d.top, InScopeOf(d.query), FieldCatalog(d))
        /\ DiscoveryExact(\A k \in Planned(d.query) : Cardinality({s \in m : s.key = k})
                            <= Share(d.sample, Cardinality(Planned(d.query))),
                          m, DiscoverFields(d))
=============================================================================
