-------------------------------- MODULE Search --------------------------------
(***************************************************************************)
(* The search language over the events at rest (src/src/search/query/,     *)
(* engine/block/query.rs).                                                 *)
(***************************************************************************)
EXTENDS QueryLang, Aggregate

-----------------------------------------------------------------------------
(* A query's expression: its parse, and what its words say.                *)

Compares(cmp, v, bound) ==
  CASE cmp = ">=" -> v >= bound
    [] cmp = ">"  -> v > bound
    [] cmp = "<=" -> v <= bound
    [] cmp = "<"  -> v < bound

ParsedNode(q) ==
  IF q.tokens = <<>> THEN Tree("none", <<>>) ELSE Strip(Parse(q.tokens).node)

ParsedPatterns(q) == Patterns(Parse(q.tokens).node)

(* The first number of a list is compared as an f64, the others as texts.  *)
SameNumber(x, val) == x # None /\ AsF64(x) = AsF64(val)

WordHolds(w, s) ==
  CASE w.field = NoField  -> w.val \in s.row.words \/ w.val = s.row.source
    [] w.field = "source" -> w.val = s.row.source
    [] w.field = "index"  -> Matches(w.val, s.index)
    [] w.field = "n"      ->
         IF w.cmp = "=" THEN SameNumber(s.row.first, w.val) \/ w.val \in s.row.extra
         ELSE s.row.first # None /\ Compares(w.cmp, AsF64(s.row.first), AsF64(w.val))

(* What the expression means of a stored row.                              *)
TokensSay(q, s) ==
  q.tokens = <<>> \/ Means(q.tokens, 1, Len(q.tokens), {w \in Words(q) : WordHolds(w, s)})

-----------------------------------------------------------------------------
(* The rows of a block a filter selects.                                   *)

(* A term: a bare word in the text or as the source; the source; or a      *)
(* field, in the value column or in the index of a list's other elements.  *)
TermRows(b, n) ==
  {i \in AllRows(b) :
     LET r == b.rows[i]
     IN  CASE n.field = NoField  -> n.val \in r.words \/ n.val = r.source
           [] n.field = "source" -> n.val = r.source
           [] n.field = "n"      -> SameNumber(r.first, n.val) \/ n.val \in r.extra
           [] OTHER              -> FALSE}

(* A range scan, after the column's least and greatest value were looked   *)
(* at in the footer.                                                       *)
RangeRows(b, n) ==
  LET present == {i \in AllRows(b) : b.rows[i].first # None}
      vals == {AsF64(b.rows[i].first) : i \in present}
      pruned == \/ present = {}
                \/ n.op \in {">=", ">"} /\ Max(vals) < AsF64(n.val)
                \/ n.op \in {"<=", "<"} /\ Min(vals) > AsF64(n.val)
  IN  IF n.field # "n" \/ pruned THEN {}
      ELSE {i \in present : Compares(n.op, AsF64(b.rows[i].first), AsF64(n.val))}

RECURSIVE EvalNode(_, _)
EvalNode(b, n) ==
  CASE n.op \in {"all", "none"} -> AllRows(b)
    [] n.op = "and"  -> {i \in AllRows(b) : \A j \in DOMAIN n.kids : i \in EvalNode(b, n.kids[j])}
    [] n.op = "or"   -> UNION {EvalNode(b, n.kids[j]) : j \in DOMAIN n.kids}
    [] n.op = "not"  -> AllRows(b) \ EvalNode(b, n.kids[1])
    [] n.op = "term" -> TermRows(b, n)
    [] OTHER         -> RangeRows(b, n)
===============================================================================
