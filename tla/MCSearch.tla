------------------------------ MODULE MCSearch ------------------------------
(* A small store of events and the queries and pipelines asked of it.      *)
EXTENDS Pipeline, Discover

CONSTANTS e1, e2, e3, e4, e5

(* Words 1..9, sources 11 and 12; e2 and e3 have one time, e2 holds a list,*)
(* e4 has no time and e5 is the system's.  As an f64, 9 is 8.              *)
Ev(name, env, index, ts, words, source, n) ==
  [name |-> name, env |-> env, index |-> index, ts |-> ts, words |-> words,
   source |-> source, n |-> n]

E1 == Ev(e1, UserEnv, 1, 2, {1}, 11, <<9>>)
E2 == Ev(e2, UserEnv, 1, 3, {1, 2}, 12, <<8, 3>>)
E3 == Ev(e3, UserEnv, 1, 3, {2}, None, <<>>)
E4 == Ev(e4, UserEnv, 2, None, {1}, 12, <<1>>)
E5 == Ev(e5, SystemEnv, 1, 4, {1, 2}, 12, <<1>>)

MCEvent == {E1, E2, E3, E4, E5}
MCBatches == {<<e>> : e \in MCEvent} \cup {<<E2, E1>>, <<E3, E2>>, <<E3, E1, E2>>}

Bare(v) == Word(NoField, "=", v)
Query(tokens, start, end, offset, limit) ==
  [tokens |-> tokens, env |-> None, index |-> None, start |-> start, end |-> end,
   offset |-> offset, limit |-> limit, interval |-> 2, allow |-> {}, explicit |-> None,
   field |-> "n", size |-> 1, approximate |-> FALSE]

Expressions ==
  {<<Bare(1), Or, Bare(2), Not, Bare(1)>>,
   <<Not, LPar, Bare(1), And, Word("n", ">=", 9), RPar, Or, Word("source", "=", 12)>>,
   <<Word("index", "=", 1), Word("n", "=", 3)>>,
   <<Word("n", "<", 2)>>}

Everything == Query(<<>>, None, None, 0, 10)

MCQueries ==
  {Query(x, None, 4, 0, 1) : x \in Expressions} \cup
  {Query(<<>>, w[1], w[2], o, 1) : w \in {<<None, None>>, <<2, 3>>, <<0, 2>>, <<3, None>>},
                                   o \in {0, 1, 2}} \cup
  {[Everything EXCEPT !.env = SystemEnv],
   [Everything EXCEPT !.field = "source"],
   [Everything EXCEPT !.index = 1, !.field = "source", !.size = 2],
   [Everything EXCEPT !.index = 2, !.tokens = <<Word("index", "=", 1), Bare(1)>>],
   [Everything EXCEPT !.allow = {[env |-> UserEnv, indexes |-> {2}]}, !.field = "index"],
   [Everything EXCEPT !.explicit = {[env |-> UserEnv, index |-> 1, day |-> 1],
                                    [env |-> SystemEnv, index |-> 1, day |-> 1]}],
   [Everything EXCEPT !.approximate = TRUE, !.field = "index"]}

(* The parse and the filters mean what the expressions say, of every row   *)
(* the events give, alone and beside another.                              *)
SomeRows == {Row(e) : e \in Events} \cup {ReadBack(Row(e)) : e \in Events}

ASSUME FiltersAssumption ==
  \A q \in Queries :
    /\ QueryFits(q)
    /\ \A e \in Events, r, s \in SomeRows, n \in {1, 2} :
         FilterExact(q, [id |-> 0, rows |-> SubSeq(<<r, s>>, 1, n)], KeyOf(e))

MCCachedQuery ==
  {Query(<<Word("n", ">=", 9)>>, 3, 3, 0, 1),
   Query(<<Bare(1), Or, Bare(2), Not, Bare(1)>>, None, 2, 0, 1)}

Stats(aggs, by) == [op |-> "stats", aggs |-> aggs, by |-> by]
Cut(op, n) == [op |-> op, n |-> n]
Top(op, n) == [op |-> op, n |-> n, field |-> "source"]
Pipe(maker, where, sort, cut, fields) ==
  [query |-> Query(<<Bare(1), Or, Bare(2)>>, None, None, 0, 1),
   maker |-> maker, where |-> where, sort |-> sort, cut |-> cut, fields |-> fields]
Where(column, cmp, val) == [op |-> "where", column |-> column, cmp |-> cmp, val |-> val]
Sort(column, desc) == [op |-> "sort", column |-> column, desc |-> desc]
Fields(columns, drop) == [op |-> "fields", columns |-> columns, drop |-> drop]

OfN(op) == Agg(op, "n", op \o "(n)")
OfTime(op) == Agg(op, "timestamp", op \o "(timestamp)")

MCPipelines ==
  {Pipe(Top("top", 1), None, None, None, None),
   Pipe(Top("rare", 2), None, None, None, None),
   Pipe(Stats(<<OfN("p50"), OfN("avg"), OfN("sum"), OfTime("latest")>>, <<"index">>),
        Where("sum(n)", "!=", Num(1)), Sort("sum(n)", TRUE), Cut("head", 1), None),
   Pipe(Stats(<<OfN("p95"), OfN("min"), OfN("max"), OfN("count"), OfTime("earliest")>>,
              <<"source", "index">>),
        Where("max(n)", "<=", Num(8)), Sort("earliest(timestamp)", FALSE), Cut("tail", 1),
        Fields(<<"source", "earliest(timestamp)", "index">>, FALSE)),
   Pipe([op |-> "timechart", span |-> 2, aggs |-> <<BareCount, OfN("sum")>>, by |-> <<"source">>],
        None, Sort("count", FALSE), Cut("head", 2), None)}

(* The JSON of the events.  e2 holds objects in a list and capitals, e4    *)
(* what is too deep and too long; e1 and e3 have a text in common.         *)
I(x) == <<"i64", x>>
F(h) == <<"f64", h>>
S(text) == <<"str", text>>
B(x) == <<"bool", x>>
Obj(members) == <<"object", members>>
Arr(elems) == <<"array", elems>>

NumbersOf(e) ==
  IF e.n = <<>> THEN <<>>
  ELSE <<<<"n", IF Len(e.n) = 1 THEN I(e.n[1]) ELSE Arr([i \in DOMAIN e.n |-> I(e.n[i])])>>>>

MCJson(e) ==
  NumbersOf(e) \o
  CASE e = E1 -> <<<<"q", F(5)>>, <<"tag", S(<<<<3>>, <<4, 3>>>>)>>>>
    [] e = E2 -> <<<<"items", Arr(<<Obj(<<<<"q", I(1)>>>>), Obj(<<<<"q", I(3)>>>>),
                                    Obj(<<<<"q", S(<<<<-3, 4>>>>)>>>>)>>)>>,
                   <<"ok", B(TRUE)>>, <<"gone", <<"null", 0>>>>>>
    [] e = E3 -> <<<<"q", I(-2)>>, <<"tag", S(<<<<3>>, <<4, 3>>>>)>>>>
    [] e = E4 -> <<<<"deep", Obj(<<<<"a", Obj(<<<<"b", Obj(<<<<"c", I(1)>>>>)>>>>)>>>>)>>,
                   <<"ok", Arr(<<B(FALSE), B(TRUE), I(1), I(3)>>)>>, <<"tag", S(<<<<4>>>>)>>>>
    [] e = E5 -> <<<<"q", Arr(<<I(1), F(2)>>)>>, <<"tag", S(<<<<4>>>>)>>>>

MCMessage(e) ==
  CASE e = E1 -> <<<<1>>, <<1>>>>
    [] e = E2 -> <<<<-1, 2>>>>
    [] e = E3 -> None
    [] e = E4 -> <<<<-1>>>>
    [] e = E5 -> <<<<1>>, <<2>>>>

(* The event's JSON has the words of its message, and others.              *)
MCRaw(e) ==
  CASE e = E1 -> <<<<1>>, <<1>>, <<3>>, <<4, 3>>>>
    [] e = E2 -> <<<<-1, 2>>, <<-3, 4>>>>
    [] e = E3 -> <<<<2>>, <<-2>>, <<3>>, <<4, 3>>>>
    [] e = E4 -> <<<<-1>>>>
    [] e = E5 -> <<<<2, 1>>, <<1>>, <<2>>>>

MCCodecAt(id) == IF id % 2 = 0 THEN "zstd" ELSE "none"

MCPhrases == {<<<<1>>>>, <<<<1>>, <<2>>>>, <<<<2>>, <<1>>>>, <<<<1, 2>>>>, <<<<2, 1>>, <<2>>>>}
MCProbes == {I(1), I(3), I(9), I(-2), F(5), B(TRUE), S(<<<<3>>>>), S(<<<<3, 4>>>>), S(<<<<3>>, <<4, 3>>>>)}

MCNameRank(name) == CHOOSE i \in 1..9 :
  <<"a", "b", "deep", "gone", "items", "n", "ok", "q", "tag">>[i] = name

MCDiscoveries ==
  {[query |-> Everything, sample |-> 10, top |-> 3],
   [query |-> Query(<<Bare(1)>>, None, None, 0, 1), sample |-> 2, top |-> 10]}
=============================================================================
