------------------------------ MODULE BlockFormat ------------------------------
(***************************************************************************)
(* The bytes behind the blocks of Search.tla: how an event's JSON is       *)
(* shredded into a row (indexer/ingest.rs), how rows become the sections   *)
(* of one object (engine/block/writer.rs, codec.rs) and how a query and a  *)
(* compaction read them back (reader.rs, query.rs).                        *)
(*                                                                         *)
(* A byte is an item of a sequence.  A text is a sequence of words, a word *)
(* the sequence of its parts (web-01 has two), a part a number: Empty, or  *)
(* negative when it has capitals.  A value is a pair of its type and what  *)
(* it holds; an f64 is a number of halves.  Row ids count from 1.          *)
(***************************************************************************)
EXTENDS Search, TLC

CONSTANTS
  Radix,         \* what a byte of a varint counts to: 128
  Width,         \* the bits of an i64
  WordBits,      \* the bits of a word of a bloom filter: 64
  BitsPerTerm,   \* 10
  BloomK,        \* 7
  MaxDepth,      \* MAX_FLATTEN_DEPTH
  MaxElems,      \* MAX_ARRAY_ELEMS
  CodecAt(_),    \* the configured codec when a block is written
  Json(_),       \* the event's object: a sequence of keys and values
  Message(_),    \* its texts
  Raw(_)

VARIABLE made   \* what each block was made of: events, or other blocks

stored == <<store, made>>


-----------------------------------------------------------------------------
(* Sequences, made of parts that TLC evaluates once each.                  *)

(* Item(1), ..., Item(n); the sequences Part(1), ..., Part(n) in one.      *)
Concat(n, Part(_)) ==
  LET upTo[i \in 0..n] == IF i = 0 THEN <<>> ELSE upTo[i - 1] \o Part(i)
  IN  upTo[n]
Listing(n, Item(_)) == Concat(n, LAMBDA i : <<Item(i)>>)

(* The members of S, each before those it is Less than.                    *)
Sorted(S, Less(_, _)) ==
  FoldSet(LAMBDA x, s : InsertAt(s, Cardinality({i \in DOMAIN s : Less(s[i], x)}) + 1, x),
          <<>>, S)

-----------------------------------------------------------------------------
(* Texts.                                                                  *)

Empty == 0
Minors(w) ==
  LET parts == SelectSeq(w, LAMBDA x : x # Empty)
  IN  IF Len(w) = 1 THEN <<>> ELSE Listing(Len(parts), LAMBDA i : <<parts[i]>>)

(* A word, then its parts, each a token.                                   *)
Tokens(text) == Concat(Len(text), LAMBDA i : <<text[i]>> \o Minors(text[i]))

LowerWord(w) == Listing(Len(w), LAMBDA i : IF w[i] < 0 THEN -w[i] ELSE w[i])
LowerTokens(text) ==
  LET ts == Tokens(text) IN Listing(Len(ts), LAMBDA i : LowerWord(ts[i]))

(* The order of terms.                                                     *)
Less(a, b) ==
  \E i \in DOMAIN b :
    /\ \A j \in 1..(i - 1) : j \in DOMAIN a /\ a[j] = b[j]
    /\ i \in DOMAIN a => a[i] < b[i]

(* to_string of a number: 2.5 and -2 have two parts.                       *)
Digits(h) == IF h % 2 = 0 THEN <<100 + h \div 2>> ELSE <<100 + h \div 2, 105>>
NumberWord(h) == IF h < 0 THEN <<Empty>> \o Digits(-h) ELSE Digits(h)

Text(v) ==
  CASE v[1] = "i64"  -> <<NumberWord(2 * v[2])>>
    [] v[1] = "f64"  -> <<NumberWord(v[2])>>
    [] v[1] = "bool" -> <<<<IF v[2] THEN 201 ELSE 200>>>>
    [] OTHER         -> v[2]

(* A number as the f64 that values, ranges and bounds are compared in: an  *)
(* integer is rounded to one.                                              *)
Halves(v) == IF v[1] = "i64" THEN 2 * AsF64(v[2]) ELSE v[2]

-----------------------------------------------------------------------------
(* shred_value: objects give paths, arrays several values of one path.     *)

RECURSIVE Shred(_, _, _)
Shred(path, val, depth) ==
  CASE val[1] = "null" -> <<>>
    [] val[1] = "object" /\ depth < MaxDepth ->
         Concat(Len(val[2]), LAMBDA i :
           Shred(Append(path, val[2][i][1]), val[2][i][2], depth + 1))
    [] val[1] = "array" /\ depth < MaxDepth ->
         Concat(Len(Take(val[2], MaxElems)), LAMBDA i : Shred(path, val[2][i], depth + 1))
    [] val[1] \in {"object", "array"} -> <<<<path, <<"str", <<<<900>>>>>>>>>>
    [] OTHER -> <<<<path, val>>>>

(* A row as the writer is given it.                                        *)
FullRow(e) ==
  [ts |-> Row(e).ts, message |-> Message(e), raw |-> Raw(e),
   source |-> IF e.source = None THEN None ELSE <<e.source>>,
   fields |-> Concat(Len(Json(e)), LAMBDA i : Shred(<<Json(e)[i][1]>>, Json(e)[i][2], 0))]

-----------------------------------------------------------------------------
(* codec.rs.  Reads give what they read and where the next one starts.     *)

RECURSIVE Uvarint(_)
Uvarint(v) ==
  IF v < Radix THEN <<v>> ELSE <<Radix + (v % Radix)>> \o Uvarint(v \div Radix)

Got(v, next) == [v |-> v, next |-> next]

RECURSIVE ReadUvarint(_, _)
ReadUvarint(buf, p) ==
  IF buf[p] < Radix THEN Got(buf[p], p + 1)
  ELSE LET r == ReadUvarint(buf, p + 1) IN Got(buf[p] - Radix + Radix * r.v, r.next)

(* n varints in a row.                                                     *)
RECURSIVE ReadMany(_, _, _)
ReadMany(buf, p, n) ==
  IF n = 0 THEN Got(<<>>, p)
  ELSE LET r == ReadUvarint(buf, p)
           rest == ReadMany(buf, r.next, n - 1)
       IN  Got(<<r.v>> \o rest.v, rest.next)

(* Arithmetic of Width bits.                                               *)
Wrap(v) == ((v + 2 ^ (Width - 1)) % (2 ^ Width)) - 2 ^ (Width - 1)
Zigzag(v) == IF v >= 0 THEN 2 * v ELSE -2 * v - 1
Unzigzag(u) == IF u % 2 = 0 THEN u \div 2 ELSE -((u + 1) \div 2)

EncodeDelta(vals) ==
  Concat(Len(vals), LAMBDA i :
    Uvarint(Zigzag(Wrap(vals[i] - IF i = 1 THEN 0 ELSE vals[i - 1]))))

DecodeDelta(buf, count) ==
  LET deltas == ReadMany(buf, 1, count).v
      value[i \in 0..count] == IF i = 0 THEN 0 ELSE Wrap(value[i - 1] + Unzigzag(deltas[i]))
  IN  Listing(count, LAMBDA i : value[i])

EncodePlain(vals) == Concat(Len(vals), LAMBDA i : Uvarint(Zigzag(vals[i])))
DecodePlain(buf, count) ==
  LET us == ReadMany(buf, 1, count).v IN Listing(count, LAMBDA i : Unzigzag(us[i]))

(* A column of texts some rows lack: the length, one more, or 0.           *)
EncodeOpt(vals) ==
  Concat(Len(vals), LAMBDA i :
    IF vals[i] = None THEN Uvarint(0) ELSE Uvarint(Len(vals[i]) + 1) \o vals[i])

(* decode_opt_strings_subset from a row on: the wanted rows, in order.     *)
RECURSIVE DecodeSubset(_, _, _, _)
DecodeSubset(buf, p, row, wanted) ==
  IF wanted = {} THEN <<>>
  ELSE LET tag == ReadUvarint(buf, p)
           next == IF tag.v = 0 THEN tag.next ELSE tag.next + tag.v - 1
           this == IF tag.v = 0 THEN None ELSE SubSeq(buf, tag.next, next - 1)
       IN  (IF row \in wanted THEN <<this>> ELSE <<>>)
             \o DecodeSubset(buf, next, row + 1, wanted \ {row})

(* Runs of bytes, each after its length, after their number: dictionaries  *)
(* and postings.                                                           *)
EncodeRuns(runs) ==
  Uvarint(Len(runs)) \o Concat(Len(runs), LAMBDA i : Uvarint(Len(runs[i])) \o runs[i])

RECURSIVE Runs(_, _, _)
Runs(buf, p, n) ==
  IF n = 0 THEN <<>>
  ELSE LET h == ReadUvarint(buf, p)
       IN  <<SubSeq(buf, h.next, h.next + h.v - 1)>> \o Runs(buf, h.next + h.v, n - 1)

DecodeRuns(buf) ==
  LET h == ReadUvarint(buf, 1) IN Runs(buf, h.next, h.v)

(* The bloom filter: any two hashes of a term do.                          *)
Hash(term, radix) ==
  LET h[i \in 0..Len(term)] == IF i = 0 THEN 7 ELSE (h[i - 1] * radix + term[i]) % 1009
  IN  h[Len(term)]
BloomBits(term, nbits) ==
  LET h1 == Hash(term, 31)
      h2 == 2 * Hash(term, 17) + 1
  IN  {(h1 + h2 * i) % nbits : i \in 0..(BloomK - 1)}

BloomOf(terms) ==
  LET words == Max({1, (Len(terms) * BitsPerTerm) \div WordBits})
      bits == UNION {BloomBits(terms[i], words * WordBits) : i \in DOMAIN terms}
  IN  Uvarint(words) \o Listing(words, LAMBDA w : {x \in bits : x \div WordBits = w - 1})

MightContain(buf, term) ==
  LET h == ReadUvarint(buf, 1)
  IN  \A x \in BloomBits(term, h.v * WordBits) : x \in buf[h.next + x \div WordBits]

(* A set in an order that does not matter.                                 *)
ListOf(S) == FoldSet(LAMBDA x, s : Append(s, x), <<>>, S)

(* The roaring crate's bytes of a set of rows.                             *)
SortedRows(S) == Sorted(S, LAMBDA i, j : i < j)
Bitmap(S) == <<Cardinality(S)>> \o SortedRows(S)
RowsIn(buf) == ToSet(SubSeq(buf, 2, buf[1] + 1))

(* A section under a codec; zstd's own bytes are not modelled.             *)
Compress(codec, raw) == IF codec = "none" THEN raw ELSE <<Len(raw)>> \o raw
Decompress(codec, bytes) == IF codec = "none" THEN bytes ELSE Tail(bytes)

-----------------------------------------------------------------------------
(* BlockWriter::finish.                                                    *)

(* Every token at its position, and a whole term that has none.            *)
Placed(field, text) ==
  LET ts == LowerTokens(text)
  IN  Listing(Len(ts), LAMBDA i : [field |-> field, term |-> ts[i], pos |-> i - 1])
WholeTerm(field, word) == <<[field |-> field, term |-> LowerWord(word), pos |-> None]>>

(* A row's first value of a path and a type is the one columns hold.       *)
ColumnOf(f) == <<f[1], f[2][1]>>
IsFirst(row, j) == \A i \in 1..(j - 1) : ColumnOf(row.fields[i]) # ColumnOf(row.fields[j])
Firsts(row) == {row.fields[j] : j \in {i \in DOMAIN row.fields : IsFirst(row, i)}}

FieldTerms(row, j) ==
  LET f == row.fields[j]
  IN  IF f[2][1] = "str" THEN Placed(f[1], f[2][2])
      ELSE IF IsFirst(row, j) THEN <<>> ELSE WholeTerm(f[1], Text(f[2])[1])

(* What a row adds to the term indexes, in order.                          *)
Indexed(row) ==
  (IF row.message = None THEN <<>> ELSE Placed(<<"message">>, row.message))
    \o (IF row.raw = None THEN <<>> ELSE Placed(<<"raw">>, row.raw))
    \o (IF row.source = None THEN <<>> ELSE WholeTerm(<<"source">>, row.source))
    \o Concat(Len(row.fields), LAMBDA j : FieldTerms(row, j))

(* The sections of the term index of a field, for its dictionary.          *)
(* adds[i] is what row i adds to it.                                       *)
RowsWith(adds, t) == {i \in DOMAIN adds : \E j \in DOMAIN adds[i] : adds[i][j].term = t}

PositionsOf(adds, t, i) ==
  LET here == SelectSeq(adds[i], LAMBDA x : x.term = t /\ x.pos # None)
  IN  Listing(Len(here), LAMBDA j : here[j].pos)

Group(positions) ==
  Uvarint(Len(positions)) \o Concat(Len(positions), LAMBDA j : Uvarint(positions[j]))

Groups(adds, t, rows) ==
  Concat(Len(rows), LAMBDA j : Group(PositionsOf(adds, t, rows[j])))

HasPositions(adds) == \E i \in DOMAIN adds : \E j \in DOMAIN adds[i] : adds[i][j].pos # None

TermSections(field, adds, dict) ==
  <<<<<<"bloom", field>>, BloomOf(dict)>>,
    <<<<"dict", field>>, EncodeRuns(dict)>>,
    <<<<"postings", field>>, EncodeRuns(Listing(Len(dict), LAMBDA i : Bitmap(RowsWith(adds, dict[i]))))>>>>
  \o (IF HasPositions(adds)
      THEN <<<<<<"positions", field>>,
               Concat(Len(dict), LAMBDA i :
                 Groups(adds, dict[i], SortedRows(RowsWith(adds, dict[i]))))>>>>
      ELSE <<>>)

TermIndex(indexed, field) ==
  LET adds == Listing(Len(indexed), LAMBDA i :
                SelectSeq(indexed[i], LAMBDA x : x.field = field))
  IN  TermSections(field, adds,
        Sorted(UNION {{adds[i][j].term : j \in DOMAIN adds[i]} : i \in DOMAIN adds}, Less))

(* A dynamic column: the rows that have it, and the first value of each.   *)
Holding(rows, col) == {i \in DOMAIN rows : \E f \in Firsts(rows[i]) : ColumnOf(f) = col}
ValueIn(row, col) == (CHOOSE f \in Firsts(row) : ColumnOf(f) = col)[2]
Values(rows, col) ==
  LET present == SortedRows(Holding(rows, col))
  IN  Listing(Len(present), LAMBDA i : ValueIn(rows[present[i]], col))

PlainSeq(vals) == Listing(Len(vals), LAMBDA i : vals[i][2])

ValueSection(rows, col) ==
  CASE col[2] = "i64"  -> EncodePlain(PlainSeq(Values(rows, col)))
    [] col[2] = "f64"  -> PlainSeq(Values(rows, col))
    [] col[2] = "bool" -> Bitmap({i \in Holding(rows, col) : ValueIn(rows[i], col)[2]})

(* The dictionary of a text column and the number of each row's value.     *)
IdSection(vals, dict) ==
  Concat(Len(vals), LAMBDA i :
    Uvarint(CHOOSE id \in 0..(Len(dict) - 1) : dict[id + 1] = vals[i]))

DictOf(vals) == ListOf({vals[i] : i \in DOMAIN vals})

ColumnSections(rows, col) ==
  <<<<<<"present", col>>, Bitmap(Holding(rows, col))>>>> \o
  (IF col[2] # "str" THEN <<<<<<"values", col>>, ValueSection(rows, col)>>>>
   ELSE LET vals == PlainSeq(Values(rows, col))
        IN  <<<<<<"values", col>>, EncodeRuns(DictOf(vals))>>,
              <<<<"ids", col>>, IdSection(vals, DictOf(vals))>>>>)

(* What the footer says of a column: its bounds and its counts.            *)
ColumnStats(rows, col) ==
  LET vals == Values(rows, col)
      nums == {Halves(vals[i]) : i \in DOMAIN vals}
  IN  [column |-> col, rows |-> Len(vals),
       cardinality |-> IF col[2] = "str" THEN Cardinality(ToSet(vals)) ELSE 0,
       min |-> IF col[2] \in {"i64", "f64"} THEN Min(nums) ELSE 0,
       max |-> IF col[2] \in {"i64", "f64"} THEN Max(nums) ELSE 2]

OptSection(rows, name) ==
  IF \A i \in DOMAIN rows : rows[i][name] = None THEN <<>>
  ELSE <<<<<<"text", name>>, EncodeOpt(Listing(Len(rows), LAMBDA i : rows[i][name]))>>>>

AllSections(rows, indexed, fields, cols) ==
  <<<<<<"time">>, EncodeDelta(Listing(Len(rows), LAMBDA i : rows[i].ts))>>>>
    \o OptSection(rows, "message") \o OptSection(rows, "source") \o OptSection(rows, "raw")
    \o Concat(Len(fields), LAMBDA i : TermIndex(indexed, fields[i]))
    \o Concat(Len(cols), LAMBDA i : ColumnSections(rows, cols[i]))

(* BodyBuilder::push of all of them: each follows the one before it, and   *)
(* the footer says where.                                                  *)
HeaderLen == 6
Offset(bytes, i) == HeaderLen + Len(Concat(i - 1, LAMBDA j : bytes[j]))

Assemble(codec, rows, cols, keys, bytes) ==
  [bytes |-> Listing(HeaderLen, LAMBDA i : 0) \o Concat(Len(bytes), LAMBDA i : bytes[i]),
   footer |-> [rows |-> Len(rows), min_ts |-> rows[1].ts, max_ts |-> rows[Len(rows)].ts,
               refs |-> {[key |-> keys[i], offset |-> Offset(bytes, i), len |-> Len(bytes[i]),
                          codec |-> codec] : i \in DOMAIN keys},
               columns |-> {ColumnStats(rows, c) : c \in ToSet(cols)}]]

FinishSections(codec, rows, cols, sections) ==
  Assemble(codec, rows, cols,
           Listing(Len(sections), LAMBDA i : sections[i][1]),
           Listing(Len(sections), LAMBDA i : Compress(codec, sections[i][2])))

FinishSorted(codec, rows, indexed, cols) ==
  FinishSections(codec, rows, cols,
    AllSections(rows, indexed,
      ListOf(UNION {{indexed[i][j].field : j \in DOMAIN indexed[i]} : i \in DOMAIN rows}), cols))

FinishRows(codec, rows) ==
  FinishSorted(codec, rows, Listing(Len(rows), LAMBDA i : Indexed(rows[i])),
    ListOf(UNION {{ColumnOf(f) : f \in Firsts(rows[i])} : i \in DOMAIN rows}))

(* The rows in the order of their times.                                   *)
ByTime(rows) ==
  LET order == Sorted(DOMAIN rows, LAMBDA i, j : \/ rows[i].ts < rows[j].ts
                                                 \/ rows[i].ts = rows[j].ts /\ i < j)
  IN  Listing(Len(rows), LAMBDA i : rows[order[i]])

Finish(codec, rows) == FinishRows(codec, ByTime(rows))

-----------------------------------------------------------------------------
(* reader.rs.                                                              *)

Has(o, key) == \E r \in o.footer.refs : r.key = key
Section(o, key) ==
  LET r == CHOOSE x \in o.footer.refs : x.key = key
  IN  Decompress(r.codec, SubSeq(o.bytes, r.offset + 1, r.offset + r.len))

RowIds(o) == 1..o.footer.rows
Timestamps(o) == DecodeDelta(Section(o, <<"time">>), o.footer.rows)

(* A display column of the wanted rows only.                               *)
Display(o, name, wanted) ==
  IF Has(o, <<"text", name>>) THEN DecodeSubset(Section(o, <<"text", name>>), 1, 1, wanted)
  ELSE Listing(Cardinality(wanted), LAMBDA i : None)

(* term_postings: the filter, the dictionary up to the term, its postings. *)
Place(dict, term) ==
  LET reached == {i \in DOMAIN dict : ~Less(dict[i], term)}
  IN  IF reached = {} \/ dict[Min(reached)] # term THEN 0 ELSE Min(reached)

Posting(o, field, place) ==
  IF place = 0 THEN {} ELSE RowsIn(DecodeRuns(Section(o, <<"postings", field>>))[place])

ExactTerm(o, field, term) ==
  IF Has(o, <<"dict", field>>) /\ MightContain(Section(o, <<"bloom", field>>), term)
  THEN Posting(o, field, Place(DecodeRuns(Section(o, <<"dict", field>>)), term))
  ELSE {}

(* field_postings_or, for the glob that any word with a first part meets.  *)
Starting(o, field, part) ==
  IF ~Has(o, <<"dict", field>>) THEN {}
  ELSE LET dict == DecodeRuns(Section(o, <<"dict", field>>))
           hits == {i \in DOMAIN dict : dict[i][1] = part}
       IN  UNION {Posting(o, field, i) : i \in hits}

(* The positions section: for each term and each of its rows a group.      *)
RECURSIVE ReadGroups(_, _, _)
ReadGroups(buf, p, n) ==
  IF n = 0 THEN Got(<<>>, p)
  ELSE LET k == ReadUvarint(buf, p)
           group == ReadMany(buf, k.next, k.v)
           rest == ReadGroups(buf, group.next, n - 1)
       IN  Got(<<group.v>> \o rest.v, rest.next)

RECURSIVE ReadPositions(_, _, _)
ReadPositions(buf, p, postings) ==
  IF postings = <<>> THEN <<>>
  ELSE LET r == ReadGroups(buf, p, Cardinality(RowsIn(Head(postings))))
       IN  <<r.v>> \o ReadPositions(buf, r.next, Tail(postings))

FieldIndex(o, field) ==
  LET postings == DecodeRuns(Section(o, <<"postings", field>>))
  IN  [terms |-> DecodeRuns(Section(o, <<"dict", field>>)), postings |-> postings,
       positions |-> IF Has(o, <<"positions", field>>)
                     THEN ReadPositions(Section(o, <<"positions", field>>), 1, postings)
                     ELSE None]

PositionsFor(index, place, row) ==
  LET rank == Cardinality({i \in RowsIn(index.postings[place]) : i <= row})
  IN  index.positions[place][rank]

(* A dynamic column, from row to value.                                    *)
ReadColumn(o, col) ==
  LET present == RowsIn(Section(o, <<"present", col>>))
      raw == Section(o, <<"values", col>>)
      n == Cardinality(present)
      order == SortedRows(present)
      vals == CASE col[2] = "i64" -> DecodePlain(raw, n)
                [] col[2] = "f64" -> raw
                [] col[2] = "bool" -> LET truth == RowsIn(raw)
                                      IN  Listing(n, LAMBDA j : order[j] \in truth)
                [] OTHER -> LET dict == DecodeRuns(raw)
                                ids == ReadMany(Section(o, <<"ids", col>>), 1, n).v
                            IN  Listing(n, LAMBDA j : dict[ids[j] + 1])
  IN  {[row |-> order[j], val |-> <<col[2], vals[j]>>] : j \in 1..n}

ColumnsOf(o) == {c.column : c \in o.footer.columns}
ColumnInfo(o, col) == CHOOSE c \in o.footer.columns : c.column = col

(* for_each_row: the rows a compaction gives the writer again, their       *)
(* fields in the order of the columns.                                     *)
FieldsBack(columns, i) ==
  Concat(Len(columns), LAMBDA j :
    LET here == {x \in columns[j].values : x.row = i}
    IN  IF here = {} THEN <<>> ELSE <<<<columns[j].path, (CHOOSE x \in here : TRUE).val>>>>)

RowsBack(o, columns, times) ==
  Listing(o.footer.rows, LAMBDA i :
    [ts |-> times[i],
     message |-> Display(o, "message", {i})[1],
     source |-> Display(o, "source", {i})[1],
     raw |-> Display(o, "raw", {i})[1],
     fields |-> FieldsBack(columns, i)])

ForEachRow(o) ==
  LET cols == ListOf(ColumnsOf(o))
  IN  RowsBack(o, Listing(Len(cols), LAMBDA j : [path |-> cols[j][1], values |-> ReadColumn(o, cols[j])]),
               Timestamps(o))

-----------------------------------------------------------------------------
(* query.rs: terms over an object.                                         *)

(* The standard library's binary search of a sequence.                     *)
RECURSIVE Found(_, _, _, _)
Found(s, x, base, size) ==
  IF size = 1 THEN s[base] = x
  ELSE LET half == size \div 2
       IN  Found(s, x, IF s[base + half] > x THEN base ELSE base + half, size - half)
BinarySearch(s, x) == s # <<>> /\ Found(s, x, 1, Len(s))

(* Mutant: only the first word is looked for at the right place.           *)
AlignedAnywhere(index, places, row) ==
  \A i \in DOMAIN places : PositionsFor(index, places[i], row) # <<>>

(* Each word at the position after the one before it.                      *)
Aligned(index, places, row) ==
  \E p \in ToSet(PositionsFor(index, places[1], row)) :
    \A i \in 2..Len(places) :
      BinarySearch(PositionsFor(index, places[i], row), p + i - 1)

PhraseIn(index, tokens) ==
  LET places == Listing(Len(tokens), LAMBDA i : Place(index.terms, tokens[i]))
  IN  IF \E i \in DOMAIN places : places[i] = 0 THEN {}
      ELSE {row \in {r \in RowsIn(index.postings[places[1]]) :
                       \A i \in DOMAIN places : r \in RowsIn(index.postings[places[i]])} :
              index.positions # None => Aligned(index, places, row)}

PhraseMatch(o, field, text) ==
  LET tokens == LowerTokens(text)
  IN  IF Len(tokens) = 1 THEN ExactTerm(o, field, tokens[1])
      ELSE IF ~Has(o, <<"dict", field>>) THEN {}
      ELSE PhraseIn(FieldIndex(o, field), tokens)

(* Every token, in any order.                                              *)
TokenConjunction(o, field, text) ==
  {i \in RowIds(o) : \A t \in ToSet(LowerTokens(text)) : i \in ExactTerm(o, field, t)}

TextMatch(o, field, text, quoted) ==
  IF quoted THEN PhraseMatch(o, field, text) ELSE TokenConjunction(o, field, text)

BareTerm(o, word, quoted) ==
  TextMatch(o, <<"message">>, <<word>>, quoted)
    \cup TextMatch(o, <<"raw">>, <<word>>, quoted)
    \cup ExactTerm(o, <<"source">>, LowerWord(word))

NumericWhere(o, col, Holds(_)) ==
  IF col \notin ColumnsOf(o) THEN {}
  ELSE {x.row : x \in {y \in ReadColumn(o, col) : Holds(Halves(y.val))}}

BoolEquals(o, path, v) ==
  IF <<path, "bool">> \notin ColumnsOf(o) THEN {}
  ELSE {x.row : x \in {y \in ReadColumn(o, <<path, "bool">>) : y.val[2] = v}}

(* A path's text index, and the column of each type the value parses as:   *)
(* what has a fraction only as an f64.                                     *)
MatchOnePath(o, path, v) ==
  PhraseMatch(o, path, Text(v)) \cup
  CASE v[1] = "str"  -> {}
    [] v[1] = "bool" -> BoolEquals(o, path, v[2])
    [] OTHER -> UNION {NumericWhere(o, <<path, type>>, LAMBDA h : h = Halves(v)) :
                         type \in {v[1], "f64"}}

(* A path without a dot also finds the columns it is the last part of.     *)
Reaches(path, full) == full = path \/ (Len(path) = 1 /\ Last(full) = path[1])

DynamicTerm(o, path, v) ==
  UNION {MatchOnePath(o, p, v) : p \in {path} \cup {q \in {c[1] : c \in ColumnsOf(o)} : Reaches(path, q)}}

RangeScan(o, col, cmp, h) ==
  IF col \notin ColumnsOf(o) THEN {}
  ELSE LET bounds == ColumnInfo(o, col)
       IN  IF \/ cmp \in {">=", ">"} /\ bounds.max < h
              \/ cmp \in {"<=", "<"} /\ bounds.min > h
           THEN {} ELSE NumericWhere(o, col, LAMBDA x : Compares(cmp, x, h))

EvalRange(o, path, cmp, h) ==
  RangeScan(o, <<path, "i64">>, cmp, h) \cup RangeScan(o, <<path, "f64">>, cmp, h)

(* partition_terms of one field of one block: its numbers by their f64,    *)
(* with 2 and 2.0 one value, its texts only when no row here has a number. *)
ObjectTerms(o, path, rows) ==
  LET numeric == {<<path, "i64">>, <<path, "f64">>} \cap ColumnsOf(o)
      columns == IF numeric # {} THEN numeric ELSE {<<path, "str">>} \cap ColumnsOf(o)
      Key(v) == IF v[1] = "str" THEN v[2] ELSE Halves(v)
      hits == {[row |-> x.row, val |-> x.val] :
                 x \in {y \in UNION {ReadColumn(o, c) : c \in columns} : y.row \in rows}}
  IN  [k \in {Key(x.val) : x \in hits} |-> Cardinality({x \in hits : Key(x.val) = k})]

-----------------------------------------------------------------------------
(* The store of EventStore.tla with its objects.                           *)

StoredInit == StoreInit /\ made = <<>>

StoredIngest(es) ==
  /\ Ingest(es)
  /\ made' = made @@ (written :> [events |-> es, blocks |-> <<>>])

StoredCompact(k, places) ==
  /\ Compact(k, places)
  /\ LET order == Ranked(places, LAMBDA i, j : i < j)
     IN  made' = made @@ (written :> [events |-> <<>>,
                   blocks |-> [i \in DOMAIN order |-> Blocks(k)[order[i]].id]])

(* The object of a block: the events of a flush, or the rows a compaction  *)
(* reads back of the objects it merges.                                    *)
RECURSIVE Object(_)
Object(id) ==
  Finish(CodecAt(id),
    IF made[id].blocks = <<>>
    THEN Listing(Len(made[id].events), LAMBDA i : FullRow(made[id].events[i]))
    ELSE Concat(Len(made[id].blocks), LAMBDA i : ForEachRow(Object(made[id].blocks[i]))))

StoredNext ==
  \/ \E es \in Batches : StoredIngest(es)
  \/ \E k \in Keys : \E places \in SUBSET (DOMAIN Blocks(k)) : StoredCompact(k, places)
  \/ \E q \in CachedQuery : Ask(q) /\ UNCHANGED made
  \/ \E c \in cache : Evict(c) /\ UNCHANGED made

StoredSpec == StoredInit /\ [][StoredNext]_stored

-----------------------------------------------------------------------------
(* What a block should say of its rows.                                    *)

CONSTANTS Probes, Phrases   \* values, and texts, to look for

(* What there is to be found of an event: a compaction keeps of a list     *)
(* only its first value of each type.                                      *)
Known(b, i) ==
  LET row == FullRow(b.rows[i].event)
  IN  IF made[b.id].blocks = <<>> THEN row
      ELSE [row EXCEPT !.fields = SelectSeq(row.fields,
              LAMBDA f : f \in Firsts(row) )]

Consecutive(text, phrase) ==
  LET ts == LowerTokens(text)
      ps == LowerTokens(phrase)
  IN  \E o \in 0..(Len(ts) - Len(ps)) : \A i \in DOMAIN ps : ts[o + i] = ps[i]

Says(row, phrase) ==
  \/ row.message # None /\ Consecutive(row.message, phrase)
  \/ row.raw # None /\ Consecutive(row.raw, phrase)

(* A field of a row holds a value: a text its words, the first number of a *)
(* type the same f64, another number of a list or a bool the same text.    *)
IsNumber(v) == v[1] \in {"i64", "f64"}
Holds(row, f, v) ==
  CASE f[2][1] = "str" -> Consecutive(f[2][2], Text(v))
    [] f \in Firsts(row) /\ IsNumber(f[2]) /\ IsNumber(v) -> Halves(f[2]) = Halves(v)
    [] OTHER -> Text(f[2]) = Text(v)

(* A value of several tokens is only sure to be found under a path that    *)
(* holds one: positions start again in each text of a list, and the other  *)
(* numbers of a list are indexed whole.                                    *)
Findable(row, path, v) ==
  \/ Len(Tokens(Text(v))) = 1
  \/ \A i, j \in DOMAIN row.fields :
       Reaches(path, row.fields[i][1]) /\ row.fields[j][1] = row.fields[i][1] => i = j

(* The terms and ranges of the queries, as Search.tla and as an object     *)
(* answer them.                                                            *)
RECURSIVE Leaves(_)
Leaves(n) == IF n.kids = <<>> THEN {n} ELSE UNION {Leaves(n.kids[i]) : i \in DOMAIN n.kids}
Asked == {n \in UNION {Leaves(Strip(Parse(q.tokens).node)) : q \in Queries} : n.op # "all"}

ObjectRows(o, n) ==
  CASE n.op # "term"       -> EvalRange(o, <<n.field>>, n.op, Halves(<<"i64", n.val>>))
    [] n.field = NoField   -> BareTerm(o, <<n.val>>, FALSE)
    [] n.field = "source"  -> ExactTerm(o, <<"source">>, <<n.val>>)
    [] OTHER               -> DynamicTerm(o, <<n.field>>, <<"i64", n.val>>)

SameAsSearch(b, o) ==
  \A n \in Asked :
    ObjectRows(o, n) = IF n.op = "term" THEN TermRows(b, n) ELSE RangeRows(b, n)

SameTerms(b, counted) ==
  LET terms == RowTerms(b, AllRows(b), "n")
  IN  counted = [h \in {2 * v : v \in DOMAIN terms} |-> terms[h \div 2]]

(* A terms aggregation counts, of every row, the first integer and the     *)
(* first float of a field, and only where no row of the block has either   *)
(* the first text.                                                         *)
CountsFirsts(b, o, path) ==
  LET firsts == UNION {{<<i, f[2]>> : f \in {g \in Firsts(Known(b, i)) : g[1] = path}} :
                         i \in RowIds(o)}
      numbers == {x \in firsts : IsNumber(x[2])}
      counted == ObjectTerms(o, path, RowIds(o))
  IN  IF numbers # {}
      THEN /\ DOMAIN counted = {Halves(x[2]) : x \in numbers}
           /\ \A h \in DOMAIN counted :
                counted[h] = Cardinality({x \in numbers : Halves(x[2]) = h})
      ELSE LET texts == {x \in firsts : x[2][1] = "str"}
           IN  /\ DOMAIN counted = {x[2][2] : x \in texts}
               /\ \A t \in DOMAIN counted :
                    counted[t] = Cardinality({x \in texts : x[2][2] = t})

TermsSay(b, o) ==
  /\ SameTerms(b, ObjectTerms(o, <<"n">>, RowIds(o)))
  /\ \A path \in {c[1] : c \in ColumnsOf(o)} : CountsFirsts(b, o, path)

(* What a compaction and the display read back, and what the footer says.  *)
ReadsBack(b, o, back) ==
  /\ o.footer.min_ts = b.rows[1].ts /\ o.footer.max_ts = b.rows[Len(b.rows)].ts
  /\ \A i \in DOMAIN b.rows :
       /\ [back[i] EXCEPT !.fields = 0] = [Known(b, i) EXCEPT !.fields = 0]
       /\ ToSet(back[i].fields) = Firsts(Known(b, i))
       /\ IsInjective(back[i].fields)
  /\ \A name \in {"message", "source", "raw"} :
       Display(o, name, RowIds(o)) = [i \in RowIds(o) |-> Known(b, i)[name]]
  /\ \A c \in ColumnsOf(o) :
       LET have == {i \in RowIds(o) : \E f \in Firsts(Known(b, i)) : ColumnOf(f) = c}
       IN  /\ ColumnInfo(o, c).rows = Cardinality(have)
           /\ c[2] = "str" => ColumnInfo(o, c).cardinality =
                                Cardinality({ValueIn(Known(b, i), c) : i \in have})

FindsTexts(b, o) ==
  \A p \in Phrases :
    /\ TextMatch(o, <<"message">>, p, TRUE) \cup TextMatch(o, <<"raw">>, p, TRUE)
         = {i \in RowIds(o) : Says(Known(b, i), p)}
    /\ TextMatch(o, <<"raw">>, p, FALSE)
         = {i \in RowIds(o) : Known(b, i).raw # None /\
              ToSet(LowerTokens(p)) \subseteq ToSet(LowerTokens(Known(b, i).raw))}
    /\ Starting(o, <<"message">>, p[1][1])
         = {i \in RowIds(o) : Known(b, i).message # None /\
              \E t \in ToSet(LowerTokens(Known(b, i).message)) : t[1] = p[1][1]}

FindsValues(b, o) ==
  \A v \in Probes :
    \A path \in {<<c[1][Len(c[1])]>> : c \in ColumnsOf(o)} \cup {c[1] : c \in ColumnsOf(o)} :
      LET sure == {i \in RowIds(o) : Findable(Known(b, i), path, v)}
      IN  /\ DynamicTerm(o, path, v) \cap sure
               = {i \in sure : \E f \in ToSet(Known(b, i).fields) : Reaches(path, f[1]) /\ Holds(Known(b, i), f, v)}
          /\ IsNumber(v) => \A cmp \in {">=", "<"} :
               EvalRange(o, path, cmp, Halves(v))
                 = {i \in RowIds(o) : \E f \in Firsts(Known(b, i)) :
                      /\ f[1] = path /\ IsNumber(f[2])
                      /\ Compares(cmp, Halves(f[2]), Halves(v))}

(* Integers read back, also where the difference of two overflows.         *)
Integer == -(2 ^ (Width - 1))..(2 ^ (Width - 1) - 1)
IntegersReadBack ==
  \A x, y \in Integer : /\ DecodeDelta(EncodeDelta(<<x, y>>), 2) = <<x, y>>
                         /\ DecodePlain(EncodePlain(<<x, y>>), 2) = <<x, y>>

BlockSays(b, o) ==
  /\ ReadsBack(b, o, ForEachRow(o))
  /\ SameAsSearch(b, o)
  /\ FindsTexts(b, o)
  /\ FindsValues(b, o)
  /\ TermsSay(b, o)

(* The bytes of a block say what its rows say: every column is read back   *)
(* as it was written, a word, a phrase, a value or a range finds the rows  *)
(* that hold it and no others, through the bloom filters, dictionaries,    *)
(* postings and positions and past the footer's bounds, under either codec *)
(* and after a compaction; and Search.tla's terms and ranges, and          *)
(* Aggregate.tla's counts, are those of the bytes.  Numbers are told apart *)
(* as f64s: past 2^53 a value or a range also finds the integers that      *)
(* round to the same one, and a row that lists 1 and 1.0 counts twice      *)
(* under 1 (BlockWriter::finish, Block, eval_term, eval_range).  The       *)
(* block last written stands for all, and the states with an empty cache   *)
(* for all states: an object never changes and the cache changes none.     *)
BlockExact ==
  /\ IntegersReadBack
  /\ \A k \in Keys : \A b \in ToSet(Blocks(k)) :
       cache = {} /\ b.id = written - 1 => BlockSays(b, Object(b.id))
=============================================================================
