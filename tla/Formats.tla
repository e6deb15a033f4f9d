------------------------------- MODULE Formats -------------------------------
(***************************************************************************)
(* The text formats of raw ingestion (indexer/parse): a body is framed     *)
(* into records and each record becomes an event, or is counted as an      *)
(* error.                                                                  *)
(*                                                                         *)
(* A line is a sequence of characters, where a word, whose letters nothing *)
(* here looks at, is one character; a body is the sequence of its lines.   *)
(* A JSON value is a pair of its type and its content, an event a function *)
(* from keys.  serde_json is the constant Json.                            *)
(***************************************************************************)
EXTENDS Naturals, Sequences, SequencesExt, TLC

CONSTANTS
  Json,       \* the lines serde_json reads, and what it makes of each
  NameChar,   \* the characters of a key: letters, digits, '_', '.', '-'
  FirstChar,  \* those a key may begin with
  Digit,      \* Digit[c]: the value of the digit c
  MonthLike,  \* the words a BSD timestamp may begin with
  Month,      \* those that are months
  ClockTime,  \* the words hh:mm:ss
  ThisYear,
  NoRule      \* no multiline rule

ASSUME CharsAssumption ==
  FirstChar \subseteq NameChar /\ DOMAIN Digit \subseteq NameChar /\ Month \subseteq MonthLike

Space == {" ", "\t", "\n", "\r"}

Key(name) == <<name>>
Str(text) == <<"str", text>>
Num(n) == <<"num", n>>
Obj(event) == <<"obj", event>>
Arr(items) == <<"arr", items>>

NoFields == [k \in {} |-> k]

(* insert, and entry(..).or_insert.                                        *)
Put(e, k, v) == (k :> v) @@ e
PutNew(e, k, v) == e @@ (k :> v)

Message(line) == Key("message") :> Str(line)

Output(events, errors) == [events |-> events, errors |-> errors]

-----------------------------------------------------------------------------
(* Text.                                                                   *)

Spaced(c) == c \in Space

First(text, c) == SelectInSeq(text, LAMBDA x : x = c)

From(text, i) == SubSeq(text, i, Len(text))
UpTo(text, i) == SubSeq(text, 1, i - 1)

TrimStart(text) ==
  LET i == SelectInSeq(text, LAMBDA c : ~Spaced(c)) IN IF i = 0 THEN <<>> ELSE From(text, i)

TrimEnd(text) == SubSeq(text, 1, SelectLastInSeq(text, LAMBDA c : ~Spaced(c)))

Trim(text) == TrimStart(TrimEnd(text))

Blank(line) == Trim(line) = <<>>

Nonblank(body) == SelectSeq(body, LAMBDA line : ~Blank(line))

(* split(c): the pieces between the characters that are c.                 *)
SplitBy(text, Cut(_)) ==
  LET Add(s, c) == IF Cut(c) THEN [done |-> Append(s.done, s.cur), cur |-> <<>>]
                             ELSE [s EXCEPT !.cur = Append(@, c)]
      s == FoldLeft(Add, [done |-> <<>>, cur |-> <<>>], text)
  IN  Append(s.done, s.cur)

Words(text) == SelectSeq(SplitBy(text, Spaced), LAMBDA w : w # <<>>)

(* replace: an occurrence of a pair of characters becomes its second.      *)
Unescape(text, c) ==
  LET Add(s, i) ==
        IF s.skip THEN [out |-> s.out, skip |-> FALSE]
        ELSE IF text[i] = "\\" /\ i < Len(text) /\ text[i + 1] = c
        THEN [out |-> Append(s.out, c), skip |-> TRUE]
        ELSE [out |-> Append(s.out, text[i]), skip |-> FALSE]
  IN  FoldLeftDomain(Add, [out |-> <<>>, skip |-> FALSE], text).out

NumberOf(digits) == FoldLeft(LAMBDA n, c : 10 * n + Digit[c], 0, digits)

Digits(text) == \A i \in 1..Len(text) : text[i] \in DOMAIN Digit

-----------------------------------------------------------------------------
(* Records.                                                                *)

(* frame: the lines, without blank ones; or, with a rule that says which   *)
(* lines open a record, the records: every other line is folded into the   *)
(* record before it, up to the rule's number of lines.                     *)
Opens(rule, line) == Len(line) > 0 /\ line[1] = rule.start

Fold(rule, s, line) ==
  CASE Opens(rule, line) ->
         [out |-> s.out \o s.cur, cur |-> <<line>>, n |-> 1]
    [] ~Opens(rule, line) /\ s.cur # <<>> /\ s.n < rule.maxLines ->
         [s EXCEPT !.cur = << @[1] \o <<"\n">> \o line >>, !.n = @ + 1]
    [] ~Opens(rule, line) /\ s.cur = <<>> /\ ~Blank(line) ->
         [s EXCEPT !.out = Append(@, line)]
    [] OTHER -> s

FrameMultiline(body, rule) ==
  LET s == FoldLeft(LAMBDA t, line : Fold(rule, t, line),
                    [out |-> <<>>, cur |-> <<>>, n |-> 0], body)
  IN  s.out \o s.cur

Frame(body, multiline) ==
  IF multiline = NoRule THEN Nonblank([i \in DOMAIN body |-> TrimEnd(body[i])])
                        ELSE FrameMultiline(body, multiline)

(* A format whose records all become events.                               *)
EachOf(records, EventOf(_)) == Output([i \in DOMAIN records |-> EventOf(records[i])], 0)

EachRecord(body, multiline, EventOf(_)) == EachOf(Frame(body, multiline), EventOf)

ParseText(body, multiline) == EachRecord(body, multiline, Message)

-----------------------------------------------------------------------------
(* JSON.                                                                   *)

IsObject(line) == line \in DOMAIN Json /\ Json[line][1] = "obj"

ParseNdjson(body) ==
  LET rows == Nonblank(body)
      read == SelectSeq(rows, IsObject)
  IN  Output([i \in DOMAIN read |-> Json[read[i]][2]], Len(rows) - Len(read))

(* One document: its lines are one text.                                   *)
JsonDocument(text) ==
  LET items == SelectSeq(Json[text][2], LAMBDA v : v[1] = "obj")
  IN  CASE IsObject(text) -> Output(<<Json[text][2]>>, 0)
        [] text \in DOMAIN Json /\ Json[text][1] = "arr" ->
             Output([i \in DOMAIN items |-> items[i][2]], Len(Json[text][2]) - Len(items))
        [] OTHER -> Output(<<>>, 1)

ParseJsonDocument(body) ==
  JsonDocument(Trim(FoldLeft(LAMBDA t, line : t \o <<"\n">> \o line, <<>>, body)))

-----------------------------------------------------------------------------
(* logfmt.                                                                 *)

(* Split at spaces, except between double quotes.                          *)
LogfmtTokens(line) ==
  LET Add(s, c) ==
        IF Spaced(c) /\ ~s.quoted
        THEN [s EXCEPT !.out = IF s.cur = <<>> THEN @ ELSE Append(@, s.cur), !.cur = <<>>]
        ELSE [s EXCEPT !.cur = Append(@, c), !.quoted = (@ # (c = "\""))]
      s == FoldLeft(Add, [out |-> <<>>, cur |-> <<>>, quoted |-> FALSE], line)
  IN  IF s.cur = <<>> THEN s.out ELSE Append(s.out, s.cur)

LogfmtUnquote(v) ==
  IF Len(v) >= 2 /\ Head(v) = "\"" /\ Last(v) = "\""
  THEN Unescape(Unescape(SubSeq(v, 2, Len(v) - 1), "\""), "\\")
  ELSE v

ParseLogfmtLine(line) ==
  LET Add(e, tok) ==
        LET eq == First(tok, "=") IN
          IF eq > 1 THEN Put(e, UpTo(tok, eq), Str(LogfmtUnquote(From(tok, eq + 1)))) ELSE e
  IN  FoldLeft(Add, NoFields, LogfmtTokens(line))

LogfmtEvent(line) ==
  IF DOMAIN ParseLogfmtLine(line) = {} THEN Message(line) ELSE ParseLogfmtLine(line)

IsLogfmtPair(tok) ==
  LET eq == First(tok, "=") IN
    /\ eq > 1
    /\ tok[1] \in FirstChar
    /\ \A i \in 1..(eq - 1) : tok[i] \in NameChar

LooksLikeLogfmt(line) ==
  LET toks == LogfmtTokens(line)
      kv == Len(SelectSeq(toks, IsLogfmtPair))
  IN  kv >= 2 /\ kv * 2 >= Len(toks)

-----------------------------------------------------------------------------
(* Columns.                                                                *)

(* Split at the delimiter, except between double quotes; a doubled quote   *)
(* inside quotes is a quote.                                               *)
CsvSplit(line, delim) ==
  LET Add(s, i) ==
        CASE s.skip -> [s EXCEPT !.skip = FALSE]
          [] ~s.skip /\ line[i] = "\"" /\ s.quoted /\ i < Len(line) /\ line[i + 1] = "\"" ->
               [s EXCEPT !.cur = Append(@, "\""), !.skip = TRUE]
          [] ~s.skip /\ line[i] = "\"" /\ ~(s.quoted /\ i < Len(line) /\ line[i + 1] = "\"") ->
               [s EXCEPT !.quoted = ~@]
          [] ~s.skip /\ line[i] = delim /\ ~s.quoted ->
               [s EXCEPT !.out = Append(@, s.cur), !.cur = <<>>]
          [] OTHER -> [s EXCEPT !.cur = Append(@, line[i])]
      s == FoldLeftDomain(Add, [out |-> <<>>, cur |-> <<>>, quoted |-> FALSE, skip |-> FALSE], line)
  IN  Append(s.out, s.cur)

Count(text, c) == Len(SelectSeq(text, LAMBDA x : x = c))

(* The cells of a row under the keys of the header; a key without a cell,  *)
(* or with one that says nothing, is not in the event.                     *)
Named(keys, row, nothing) ==
  LET at == {i \in DOMAIN keys : keys[i] # <<>> /\ i <= Len(row) /\ row[i] \notin nothing}
      last(k) == CHOOSE i \in at : keys[i] = k /\ \A j \in at : keys[j] = k => j <= i
  IN  [k \in {keys[i] : i \in at} |-> Str(row[last(k)])]

Rows(events) ==
  LET kept == SelectSeq(events, LAMBDA e : DOMAIN e # {})
  IN  Output(kept, Len(events) - Len(kept))

ParseCsv(body) ==
  LET lines == Nonblank(body)
      delim == IF Count(lines[1], "\t") > Count(lines[1], ",") THEN "\t" ELSE ","
      keys == CsvSplit(lines[1], delim)
  IN  IF lines = <<>> THEN Output(<<>>, 0)
      ELSE Rows([i \in 1..(Len(lines) - 1) |->
                   Named(keys, CsvSplit(lines[i + 1], delim), {<<>>})])

(* `#Fields:` names the columns of the rows after it; a row before it has  *)
(* no names and is passed over.                                            *)
DateAndTime(e) ==
  IF {Key("date"), Key("time")} \subseteq DOMAIN e
  THEN PutNew(e, Key("timestamp"),
              Str(e[Key("date")][2] \o <<" ">> \o e[Key("time")][2]))
  ELSE e

W3cRow(keys, line) ==
  DateAndTime(Named(keys, SplitBy(line, LAMBDA c : c = (IF Count(line, "\t") > 0 THEN "\t" ELSE " ")),
                    {<<>>, <<"-">>}))

ParseW3c(body) ==
  LET Add(s, line) ==
        CASE IsPrefix(<<"#", "Fields:">>, line) -> [s EXCEPT !.keys = Words(From(line, 3)), !.named = TRUE]
          [] line # <<>> /\ line[1] # "#" /\ s.named -> [s EXCEPT !.out = Append(@, W3cRow(s.keys, line))]
          [] OTHER -> s
  IN  Rows(FoldLeft(Add, [keys |-> <<>>, named |-> FALSE, out |-> <<>>],
                    [i \in DOMAIN body |-> TrimEnd(body[i])]).out)
=============================================================================
