-------------------------------- MODULE Shims --------------------------------
(***************************************************************************)
(* The push protocols (http/shims.rs, http/otlp_proto.rs): what a shipper  *)
(* posts becomes pairs of an index and an event, and an event the row and  *)
(* the partition it is stored in (indexer/ingest.rs).                      *)
(*                                                                         *)
(* A request's envelope is its decoded structure; NotJson stands for what  *)
(* does not decode.  OTLP data is one structure that both encodings carry: *)
(* a value there is a pair of its wire type and its content, Absent a      *)
(* field the sender left out.                                              *)
(***************************************************************************)
EXTENDS RawParse, Floats, FiniteSets

CONSTANTS
  Absent,       \* an optional field that is not there
  NotJson,      \* a line, value or body that does not decode
  Date,         \* the texts chrono reads as a date, and their milliseconds
  Scale,        \* 1000: what a second has of milliseconds, and so on
  UnitLimit,    \* 1e10: below it a number is seconds, then milliseconds, ...
  Fractions,    \* 2^22: the f64s in a second, among the seconds of today
  DayMillis,    \* milliseconds of a day
  Lower,        \* Lower[c]: the index character that c becomes
  MaxIndexPart  \* 64

ASSUME UnitsAssumption ==
  /\ Scale \in Nat \ {0} /\ UnitLimit \in Nat \ {0} /\ Fractions \in Nat \ {0}
  /\ DayMillis \in Nat \ {0} /\ MaxIndexPart \in Nat

(* A number with a fraction: n is in units of 1 / Scale.                   *)
Dec(n) == <<"dec", n>>

Get(e, name) == IF Key(name) \in DOMAIN e THEN e[Key(name)] ELSE Absent
IsType(v, type) == v # Absent /\ v[1] = type

(* to_string of a value: the text that serde_json reads as it.             *)
JsonText(v) == CHOOSE text \in DOMAIN Json : Json[text] = v

-----------------------------------------------------------------------------
(* From an event to a row.                                                 *)

TimestampKeys ==
  <<"timestamp", "ts", "time", "@timestamp", "Timestamp", "eventTime", "datetime", "@t", "asctime">>
MessageKeys == <<"message", "msg", "Body", "body", "event", "Msg", "log.body", "@m", "@mt">>
SourceKeys == <<"source", "log.source", "_source">>

(* What the four containers hold joins the event's own fields.             *)
Flatten(e) ==
  LET Open(flat, c) ==
        IF IsType(Get(e, c), "obj")
        THEN [k \in DOMAIN flat \ {Key(c)} |-> flat[k]] @@ Get(e, c)[2]
        ELSE flat
  IN  FoldLeft(Open, e, <<"Attributes", "Resource", "attributes", "resource">>)

(* The first of the keys that is there, or that is there with a string.    *)
Pick(e, names) == SelectInSeq(names, LAMBDA name : Key(name) \in DOMAIN e)
PickStr(e, names) == SelectInSeq(names, LAMBDA name : IsType(Get(e, name), "str"))

(* Mutant: nanoseconds are taken for microseconds.                         *)
UnixMillisThreeUnits(n, fraction) ==
  CASE n < UnitLimit -> n * Scale + (fraction * Scale) \div Fractions
    [] n >= UnitLimit /\ n < UnitLimit * Scale -> n
    [] OTHER -> n \div Scale

(* The magnitude of a number says its unit.  Only of seconds is a fraction *)
(* kept, and what is less than a millisecond is cut off.                   *)
UnixMillis(n, fraction) ==
  CASE n < UnitLimit -> n * Scale + (fraction * Scale) \div Fractions
    [] n >= UnitLimit /\ n < UnitLimit * Scale -> n
    [] n >= UnitLimit * Scale /\ n < UnitLimit * Scale * Scale -> n \div Scale
    [] OTHER -> n \div (Scale * Scale)

(* A number is an f64 first: nanoseconds of today are rounded to the       *)
(* nearest 256, so that the millisecond may become the one before or after *)
(* it, and a fraction of a second to the nearest that there is.            *)
ParseTimestamp(v) ==
  CASE v[1] = "str" /\ v[2] \in DOMAIN Date -> Date[v[2]]
    [] v[1] = "num" -> UnixMillis(AsF64(v[2]), 0)
    [] v[1] = "dec" ->
         LET steps == Nearest(v[2] * Fractions, Scale)
         IN  UnixMillis(steps \div Fractions, steps % Fractions)
    [] OTHER -> Absent

TimeOf(flat) ==
  LET i == Pick(flat, TimestampKeys) IN
    IF i = 0 THEN Absent ELSE ParseTimestamp(Get(flat, TimestampKeys[i]))

(* What json_to_row makes of an object: fields that are shredded, and the  *)
(* three that are not.                                                     *)
RowOf(flat, t, s, m, defaultSource) ==
  LET said == m > 0 /\ Get(flat, MessageKeys[m])[2] # <<>>
      consumed == (IF TimeOf(flat) # Absent THEN {Key(TimestampKeys[t])} ELSE {})
                    \cup (IF s > 0 THEN {Key(SourceKeys[s])} ELSE {})
                    \cup (IF said THEN {Key(MessageKeys[m])} ELSE {})
  IN  [ts |-> IF TimeOf(flat) = Absent THEN 0 ELSE TimeOf(flat),
       source |-> IF s > 0 THEN Get(flat, SourceKeys[s])[2] ELSE defaultSource,
       message |-> IF said THEN Get(flat, MessageKeys[m])[2] ELSE Absent,
       fields |-> [k \in DOMAIN flat \ consumed |-> flat[k]]]

JsonToRow(e, defaultSource) ==
  LET flat == Flatten(e)
  IN  RowOf(flat, Pick(flat, TimestampKeys), PickStr(flat, SourceKeys), PickStr(flat, MessageKeys),
            defaultSource)

DayOf(time, today) == IF time = Absent THEN today ELSE time \div DayMillis

EventDay(e, today) == DayOf(TimeOf(Flatten(e)), today)

-----------------------------------------------------------------------------
(* The index, which may have placeholders.                                 *)

(* A path is looked up whole before its first part is.                     *)
LookupPath(v, path) ==
  LET Walk(s, dot, keys) ==
        CASE s.found -> s
          [] ~s.found /\ s.path \in keys -> [s EXCEPT !.found = TRUE, !.v = @[2][s.path]]
          [] ~s.found /\ s.path \notin keys /\ dot > 0 /\ UpTo(s.path, dot) \in keys ->
               [s EXCEPT !.v = @[2][UpTo(s.path, dot)], !.path = From(@, dot + 1)]
          [] OTHER -> [s EXCEPT !.v = Absent]
      Into(s, i) == Walk(s, First(s.path, "."), IF IsType(s.v, "obj") THEN DOMAIN s.v[2] ELSE {})
      Reached(end) == IF end.found THEN end.v ELSE Absent
  IN  Reached(FoldLeftDomain(Into, [v |-> v, path |-> path, found |-> FALSE], path))

TrimDashes(text) ==
  LET a == SelectInSeq(text, LAMBDA c : c # "-")
      b == SelectLastInSeq(text, LAMBDA c : c # "-")
  IN  IF a = 0 THEN <<>> ELSE SubSeq(text, a, b)

Scalar(v) == IF v[1] = "str" THEN v[2] ELSE JsonText(v)

Dashed(text) == [i \in DOMAIN text |-> IF text[i] \in DOMAIN Lower THEN Lower[text[i]] ELSE "-"]

Clipped(part) ==
  IF part = <<>> THEN <<"unknown">>
  ELSE SubSeq(part, 1, IF Len(part) < MaxIndexPart THEN Len(part) ELSE MaxIndexPart)

ValueToIndexPart(v) ==
  IF v = Absent \/ v[1] \notin {"str", "num", "dec", "bool"} THEN <<"unknown">>
  ELSE Clipped(TrimDashes(Dashed(Scalar(v))))

(* A placeholder that is not closed is left as it is.                      *)
ResolveIndexTemplate(template, v) ==
  LET Add(s, c) ==
        CASE s.inside /\ c = "}}" ->
               [out |-> s.out \o ValueToIndexPart(LookupPath(v, Trim(s.name))),
                name |-> <<>>, inside |-> FALSE]
          [] s.inside /\ c # "}}" -> [s EXCEPT !.name = Append(@, c)]
          [] ~s.inside /\ c = "{{" -> [s EXCEPT !.inside = TRUE]
          [] OTHER -> [s EXCEPT !.out = Append(@, c)]
      Unclosed(end) == IF end.inside THEN end.out \o <<"{{">> \o end.name ELSE end.out
  IN  Unclosed(FoldLeft(Add, [out |-> <<>>, name |-> <<>>, inside |-> FALSE], template))

-----------------------------------------------------------------------------
(* HEC: a stream of values.                                                *)

Item(index, e) == <<index, Obj(e)>>

IndexOr(v, default) == IF IsType(v, "str") /\ v[2] # <<>> THEN v[2] ELSE default

HecPayload(event) ==
  CASE event[1] = "obj" -> event[2]
    [] event[1] = "str" -> Key("message") :> event
    [] OTHER -> Message(JsonText(event))

HecEvent(obj, default) ==
  LET base == HecPayload(Get(obj, "event"))
      fields == IF IsType(Get(obj, "fields"), "obj") THEN base @@ Get(obj, "fields")[2] ELSE base
      timed == IF Get(obj, "time") # Absent
               THEN PutNew(fields, Key("timestamp"), Get(obj, "time")) ELSE fields
      Add(e, name) == IF IsType(Get(obj, name), "str") THEN PutNew(e, Key(name), Get(obj, name)) ELSE e
  IN  IF Get(obj, "event") = Absent THEN Item(default, obj)
      ELSE Item(IndexOr(Get(obj, "index"), default),
                FoldLeft(Add, timed, <<"host", "source", "sourcetype">>))

Items(items, errors) == [ok |-> TRUE, items |-> items, errors |-> errors]
BadRequest == [ok |-> FALSE, items |-> <<>>, errors |-> 0]

(* A value that does not decode ends the stream.                           *)
ParseHec(stream, default) ==
  LET bad == SelectInSeq(stream, LAMBDA v : v = NotJson)
      read == IF bad = 0 THEN stream ELSE UpTo(stream, bad)
      objects == SelectSeq(read, LAMBDA v : v[1] = "obj")
  IN  Items([i \in DOMAIN objects |-> HecEvent(objects[i][2], default)],
            Len(read) - Len(objects) + (IF bad = 0 THEN 0 ELSE 1))

-----------------------------------------------------------------------------
(* Elasticsearch bulk: an action, then its document.                       *)

BulkDoc(s, v) ==
  LET wrapped == s.pending[2] /\ v[1] = "obj" /\ Get(v[2], "doc") # Absent
      doc == IF wrapped THEN Get(v[2], "doc") ELSE v
  IN  IF doc[1] = "obj" THEN [s EXCEPT !.items = Append(@, <<s.pending[1], doc>>), !.pending = Absent]
                        ELSE [s EXCEPT !.errors = @ + 1, !.pending = Absent]

BulkAction(s, v, default) ==
  LET action == (CHOOSE k \in DOMAIN v[2] : TRUE)
      meta == v[2][action]
      target == IF meta[1] = "obj" THEN IndexOr(Get(meta[2], "_index"), default) ELSE default
  IN  CASE v[1] # "obj" \/ DOMAIN v[2] = {} -> [s EXCEPT !.errors = @ + 1]
        [] action \in {Key("index"), Key("create")} -> [s EXCEPT !.pending = <<target, FALSE>>]
        [] action = Key("update") -> [s EXCEPT !.pending = <<target, TRUE>>]
        [] action = Key("delete") -> s
        [] OTHER -> [s EXCEPT !.errors = @ + 1]

ParseEsBulk(lines, default) ==
  LET Read(s, v) == CASE v = NotJson -> [s EXCEPT !.errors = @ + 1]
                      [] v # NotJson /\ s.pending # Absent -> BulkDoc(s, v)
                      [] OTHER -> BulkAction(s, v, default)
      s == FoldLeft(Read, [items |-> <<>>, errors |-> 0, pending |-> Absent], lines)
  IN  Items(s.items, s.errors)

-----------------------------------------------------------------------------
(* OTLP, JSON and protobuf.                                                *)

(* An array, a list or bytes become a text in JSON; protobuf keeps them.   *)
OtlpAnyValue(any) ==
  CASE any[1] = "string" -> Str(any[2])
    [] any[1] \in {"int", "double"} -> Num(any[2])
    [] any[1] = "bool" -> <<"bool", any[2]>>
    [] OTHER -> Str(<<ToString(any)>>)

(* Lists are taken one level deep.                                         *)
AnyValueToJson(any) ==
  CASE any[1] = "array" -> Arr([i \in DOMAIN any[2] |-> OtlpAnyValue(any[2][i])])
    [] any[1] = "kvlist" -> Obj([k \in DOMAIN any[2] |-> OtlpAnyValue(any[2][k])])
    [] any[1] = "bytes" -> Str(<<"base64">> \o any[2])
    [] OTHER -> OtlpAnyValue(any)

FlattenAttrs(attrs, e, ToJson(_)) ==
  FoldLeft(LAMBDA ev, a : Put(ev, a[1], ToJson(a[2])), e, attrs)

PutNewText(e, name, text) == PutNew(e, Key(name), Str(text))

JsonRecord(base, rec) ==
  LET attrs == FlattenAttrs(rec.attributes, base, OtlpAnyValue)
      said == IF rec.body = Absent THEN attrs ELSE Put(attrs, Key("message"), OtlpAnyValue(rec.body))
      time == IF rec.time # Absent THEN rec.time ELSE rec.observed
      timed == IF time = Absent THEN said ELSE Put(said, Key("timestamp"), Num(time))
      Add(e, f) == IF f[2] = Absent THEN e ELSE PutNewText(e, f[1], f[2])
  IN  FoldLeft(Add, timed, << <<"severity", rec.severity>>, <<"traceId", rec.trace>>, <<"spanId", rec.span>> >>)

(* In protobuf an absent field is zero or empty.                           *)
Unset(x) == x \in {Absent, 0}
NoText(x) == x = Absent \/ x = <<>>

ProtoRecord(base, rec) ==
  LET attrs == FlattenAttrs(rec.attributes, base, AnyValueToJson)
      said == IF rec.body = Absent THEN attrs ELSE Put(attrs, Key("message"), AnyValueToJson(rec.body))
      time == IF Unset(rec.time) THEN rec.observed ELSE rec.time
      timed == IF Unset(time) THEN said ELSE Put(said, Key("timestamp"), Num(time))
      Add(e, f) == IF NoText(f[2]) THEN e ELSE PutNewText(e, f[1], f[2])
  IN  FoldLeft(Add, timed, << <<"severity", rec.severity>>, <<"traceId", rec.trace>>, <<"spanId", rec.span>> >>)

(* Every record of every scope of every resource.                          *)
EachOtlpRecord(data, default, ToJson(_), EventOf(_, _)) ==
  FlattenSeq([i \in DOMAIN data |->
    LET base == FlattenAttrs(data[i].attributes, NoFields, ToJson)
        records == FlattenSeq(data[i].scopes)
    IN  [j \in DOMAIN records |-> Item(default, EventOf(base, records[j]))]])

ParseOtlpLogs(data, default) ==
  IF data = NotJson THEN BadRequest
  ELSE Items(EachOtlpRecord(data, default, OtlpAnyValue, JsonRecord), 0)

ParseOtlpLogsProto(data, default) ==
  IF data = NotJson THEN BadRequest
  ELSE Items(EachOtlpRecord(data, default, AnyValueToJson, ProtoRecord), 0)

-----------------------------------------------------------------------------
(* Loki: labels and metadata fill in what the line does not say.           *)

LokiLine(line) ==
  CASE line = Absent -> NoFields
    [] line # Absent /\ IsObject(line) -> Json[line][2]
    [] OTHER -> Message(line)

LokiEvent(labels, entry) ==
  LET line == LokiLine(entry.line)
      timed == IF entry.time = Absent THEN line ELSE PutNew(line, Key("timestamp"), Num(entry.time))
  IN  timed @@ labels @@ entry.meta

ParseLokiPush(streams, default) ==
  IF streams = NotJson THEN BadRequest
  ELSE Items(FlattenSeq([i \in DOMAIN streams |->
               [j \in DOMAIN streams[i].values |->
                  Item(default, LokiEvent(streams[i].labels, streams[i].values[j]))]]), 0)
=============================================================================
