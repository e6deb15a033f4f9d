------------------------------ MODULE QueryLang ------------------------------
(***************************************************************************)
(* The search expression (src/src/search/query/): the tokens the lexer     *)
(* produces, the recursive-descent parser, and the two passes that take    *)
(* `index:` selectors out of the tree for the catalog.                     *)
(*                                                                         *)
(* A token is a record: a word carries what parse_word_term finds in its   *)
(* characters (a field or NoField, a comparison, a value), so that the     *)
(* lexer's character loop is not modelled.                                 *)
(***************************************************************************)
EXTENDS Naturals, Sequences, FiniteSets

CONSTANT NoField

Punct(kind) == [kind |-> kind, field |-> NoField, cmp |-> "=", val |-> 0]
And == Punct("and")
Or == Punct("or")
Not == Punct("not")
LPar == Punct("(")
RPar == Punct(")")
Word(field, cmp, val) ==
  [kind |-> "word", field |-> field, cmp |-> cmp, val |-> val]

-----------------------------------------------------------------------------
(* The tree.                                                               *)

Leaf(op, field, val) == [op |-> op, field |-> field, val |-> val, kids |-> <<>>]
Tree(op, kids) == [op |-> op, field |-> NoField, val |-> 0, kids |-> kids]
All == Tree("all", <<>>)

(* field:>=N and its kin become a range, anything else a term.             *)
WordTerm(w) ==
  Leaf(IF w.field # NoField /\ w.cmp # "=" THEN w.cmp ELSE "term", w.field, w.val)

(* The parser's answer: the tree and the position after it, or a refusal.  *)
Parsed(node, pos) == [ok |-> TRUE, node |-> node, pos |-> pos]
Refused == [ok |-> FALSE, node |-> All, pos |-> 0]

Peek(ts, p) == IF p <= Len(ts) THEN ts[p].kind ELSE "end"

(* One alternative is that alternative, several are a tree of them.        *)
Joined(op, kids, pos) ==
  Parsed(IF Len(kids) = 1 THEN kids[1] ELSE Tree(op, kids), pos)

RECURSIVE ParseOr(_, _)

Closed(ts, r) ==
  IF r.ok /\ Peek(ts, r.pos) = ")" THEN Parsed(r.node, r.pos + 1) ELSE Refused

ParseAtom(ts, p) ==
  CASE Peek(ts, p) = "(" -> Closed(ts, ParseOr(ts, p + 1))
    [] Peek(ts, p) = "word" -> Parsed(WordTerm(ts[p]), p + 1)
    [] OTHER -> Refused

Negated(r) == IF r.ok THEN Parsed(Tree("not", <<r.node>>), r.pos) ELSE Refused

ParseNot(ts, p) ==
  LET negated == Peek(ts, p) = "not"
      r == ParseAtom(ts, IF negated THEN p + 1 ELSE p)
  IN  IF negated THEN Negated(r) ELSE r

(* The conjuncts after those already read and r: AND may be written or     *)
(* left out.                                                               *)
RECURSIVE AndTail(_, _, _)
AndTail(ts, r, conj) ==
  IF ~r.ok THEN Refused
  ELSE IF Peek(ts, r.pos) \in {"end", ")", "or"}
  THEN Joined("and", Append(conj, r.node), r.pos)
  ELSE AndTail(ts, ParseNot(ts, IF Peek(ts, r.pos) = "and" THEN r.pos + 1 ELSE r.pos),
               Append(conj, r.node))

ParseAnd(ts, p) == AndTail(ts, ParseNot(ts, p), <<>>)

RECURSIVE OrTail(_, _, _)
OrTail(ts, r, alts) ==
  IF ~r.ok THEN Refused
  ELSE IF Peek(ts, r.pos) # "or" THEN Joined("or", Append(alts, r.node), r.pos)
  ELSE OrTail(ts, ParseAnd(ts, r.pos + 1), Append(alts, r.node))

ParseOr(ts, p) == OrTail(ts, ParseAnd(ts, p), <<>>)

Whole(ts, r) == IF r.pos = Len(ts) + 1 THEN r ELSE Refused

(* An empty query matches everything; what is left over is refused.        *)
Parse(ts) ==
  IF ts = <<>> THEN Parsed(All, 1) ELSE Whole(ts, ParseOr(ts, 1))

-----------------------------------------------------------------------------
(* Partition selectors.                                                    *)

IsSelector(n) == n.op = "term" /\ n.field = "index"

(* Every value an `index:` term names, wherever it stands in the tree.     *)
RECURSIVE Patterns(_)
Patterns(n) ==
  IF IsSelector(n) THEN {n.val}
  ELSE UNION {Patterns(n.kids[i]) : i \in DOMAIN n.kids}

(* The tree the blocks are asked: every selector matches everything.       *)
RECURSIVE Strip(_)
Strip(n) ==
  IF IsSelector(n) THEN All
  ELSE [n EXCEPT !.kids = [i \in DOMAIN n.kids |-> Strip(n.kids[i])]]

-----------------------------------------------------------------------------
(* What an expression means, without a parser: OR binds loosest, then AND, *)
(* then NOT; parentheses group.  Held is the set of the words that hold.   *)

(* Parentheses open before position i of the segment ts[lo..hi].           *)
Depth(ts, lo, i) ==
  Cardinality({j \in lo..(i - 1) : ts[j].kind = "("})
    - Cardinality({j \in lo..(i - 1) : ts[j].kind = ")"})

OuterAt(ts, lo, hi, kind) ==
  {i \in lo..hi : ts[i].kind = kind /\ Depth(ts, lo, i) = 0}

(* Where the operand that starts at lo ends.                               *)
OperandEnd(ts, lo) ==
  IF ts[lo].kind = "("
  THEN CHOOSE i \in lo..Len(ts) : /\ ts[i].kind = ")"
                                  /\ Depth(ts, lo, i + 1) = 0
                                  /\ \A j \in lo..(i - 1) : Depth(ts, lo, j + 1) > 0
  ELSE lo

RECURSIVE Means(_, _, _, _)
Means(ts, lo, hi, Held) ==
  LET ors == OuterAt(ts, lo, hi, "or")
  IN  IF ors # {}
      THEN LET i == CHOOSE j \in ors : TRUE
           IN  Means(ts, lo, i - 1, Held) \/ Means(ts, i + 1, hi, Held)
      ELSE LET negated == ts[lo].kind = "not"
               a == IF negated THEN lo + 1 ELSE lo
               z == OperandEnd(ts, a)
               this == IF ts[a].kind = "(" THEN Means(ts, a + 1, z - 1, Held)
                                           ELSE ts[a] \in Held
               next == IF z < hi /\ ts[z + 1].kind = "and" THEN z + 2 ELSE z + 1
           IN  (IF negated THEN ~this ELSE this)
                 /\ (next <= hi => Means(ts, next, hi, Held))
=============================================================================
