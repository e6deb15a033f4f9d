-------------------------------- MODULE Corpus --------------------------------
(***************************************************************************)
(* What senders mean and how they write it: the same events in every       *)
(* format and protocol, each by its own standard's rules of quoting and    *)
(* escaping, with the rows that the events are.  A request is checked by   *)
(* IngestFront's RowsAsSaid.                                               *)
(***************************************************************************)
EXTENDS Naturals, Sequences, SequencesExt, TLC

CONSTANTS
  None,   \* an optional field that is not there
  secret  \* the token of the requests

Up == <<"up">>

Messages ==
  << Up, <<"a", " ", "b">>, <<"a", ",", "b">>, <<"a", "\"", "b">>, <<"k", "=", "v">>,
     <<"a", "|", "b">>, <<"a", "\\", "b">>, <<"[", "a", "]", " ", "b">> >>

Event == 1..Len(Messages)

(* The moment of an event in milliseconds, with ten to a second.  That of  *)
(* an odd event is an f64 in every unit; of an even one neither the        *)
(* nanoseconds are nor the fraction of a second.                           *)
Millis(e) == IF e % 2 = 1 THEN 150 ELSE 257
Off(e) == IF e % 2 = 1 THEN 0 ELSE 1
Stamp(e) == IF e % 2 = 1 THEN "D15" ELSE "D25"
Host == <<"h1">>

Text(t) == <<"str", t>>
Number(n) == <<"num", n>>
Decimal(n) == <<"dec", n>>
Object(f) == <<"obj", f>>
Named1(name, v) == <<name>> :> v

Dates ==
  (<<"D15">> :> 150) @@ (<<"D25">> :> 257)
    @@ (<<"Y", "Jan", "1", "D15">> :> 150) @@ (<<"Y", "Jan", "1", "D25">> :> 257)
    @@ (<<"D15", " ", "Z">> :> 150) @@ (<<"D25", " ", "Z">> :> 257)

-----------------------------------------------------------------------------
(* JSON: the shapes an event may take.                                     *)
Shapes == 1..7

Said(e) == Named1("message", Text(Messages[e])) @@ Named1("host", Text(Host))

JsonEvent(e, shape) ==
  LET m == Text(Messages[e]) hst == Named1("host", Text(Host)) IN
  CASE shape = 1 -> Said(e) @@ Named1("timestamp", Number(Millis(e)))
    [] shape = 2 -> hst @@ Named1("ts", Decimal(Millis(e))) @@ Named1("msg", m)
    [] shape = 3 -> hst @@ Named1("time", Number(Millis(e) * 10)) @@ Named1("Body", m)
    [] shape = 4 -> hst @@ Named1("@timestamp", Number(Millis(e) * 100)) @@ Named1("body", m)
    [] shape = 5 -> hst @@ Named1("datetime", Text(<<Stamp(e)>>)) @@ Named1("@m", m)
    [] shape = 6 -> Named1("attributes", Object(hst)) @@ Named1("timestamp", Number(Millis(e)))
                      @@ Named1("body", m)
    [] OTHER -> Named1("Resource", Object(hst @@ Named1("@t", Number(Millis(e) * 100))))
                  @@ Named1("event", m)

JsonLine(e, shape) == <<"{", ToString(e), ToString(shape)>>

(* What the JSON texts of the corpus decode to.                            *)
JsonTexts ==
  [line \in {JsonLine(e, shape) : e \in Event, shape \in Shapes} |->
     LET p == CHOOSE p \in Event \X Shapes : line = JsonLine(p[1], p[2])
     IN  Object(JsonEvent(p[1], p[2]))]
  @@ (<<"[", "\n", "all">> :> <<"arr", [e \in 1..3 |-> Object(JsonEvent(e, 1))]>>)
  @@ (<<"7">> :> Number(7))

-----------------------------------------------------------------------------
(* A request of the corpus.                                                *)
Request(proto, body, rows, errors, rule) ==
  [api |-> proto \notin {"hec", "es", "otlp", "otlp_proto", "loki"}, scheme |-> "basic",
   token |-> secret, env |-> None, index |-> None, proto |-> proto, body |-> body,
   multiline |-> rule, said |-> [rows |-> rows, errors |-> errors]]

Default == <<"default">>

(* The row an event is.                                                    *)
RowOf(ts, msg, fields) == [ts |-> ts, source |-> None, message |-> msg, fields |-> fields]
RowWith(e, more) == RowOf(Millis(e), Messages[e], Named1("host", Text(Host)) @@ more)
Nothing == [k \in {} |-> k]
Meant(index, row, off) == [index |-> index, row |-> row, off |-> off]
InDefault(row) == Meant(Default, row, 0)

Pair(e) == <<e, 1>>
Both(e, Enc(_)) == [i \in 1..2 |-> Enc(Pair(e)[i])]
Plainly(x) == InDefault(RowWith(x, Nothing))
Nearly(x) == Meant(Default, RowWith(x, Nothing), Off(x))

(* The shapes whose time is nanoseconds, or seconds with a fraction.       *)
InShape(x, shape) == IF shape \in {2, 4, 7} THEN Nearly(x) ELSE Plainly(x)

-----------------------------------------------------------------------------
(* Text formats.  Each is asked to carry what its standard can.            *)
Has(e, c) == Contains(Messages[e], c)

Escaped(text, cs) ==
  FlattenSeq([i \in DOMAIN text |-> IF text[i] \in cs THEN <<"\\", text[i]>> ELSE <<text[i]>>])
Quoted(text) == <<"\"">> \o text \o <<"\"">>
Doubled(text) ==
  FlattenSeq([i \in DOMAIN text |-> IF text[i] = "\"" THEN <<"\"", "\"">> ELSE <<text[i]>>])

Logfmt(e) ==
  <<"timestamp", "=", Stamp(e), " ", "host", "=", "h1", " ", "message", "=">>
    \o Quoted(Escaped(Messages[e], {"\"", "\\"}))

Csv(e) == <<Stamp(e), ",", "h1", ",">> \o Quoted(Doubled(Messages[e]))

W3c(e) == <<Stamp(e), " ", "Z", " ", "h1", " ">> \o Messages[e]
W3cRowOf(e) ==
  InDefault(RowWith(e, Named1("date", Text(<<Stamp(e)>>)) @@ Named1("time", Text(<<"Z">>))))

Pri == <<"<", "1", "3", ">">>
FromPri ==
  Named1("priority", Number(13)) @@ Named1("facility", Number(1)) @@ Named1("severity", Number(5))
    @@ Named1("appname", Text(<<"app">>))

Rfc5424(e) ==
  Pri \o <<"1", " ", Stamp(e), " ", "h1", " ", "app", " ", "-", " ", "-", " ",
           "[", "x", " ", "y", "]", " ">> \o Messages[e]
Rfc3164(e) == Pri \o <<"Jan", " ", "1", " ", Stamp(e), " ", "h1", " ", "app", ":", " ">> \o Messages[e]
SyslogRow(e) == InDefault(RowWith(e, FromPri))

Cef(e) ==
  <<"CEF:", "0", "|", "v", "|", "p", "|", "1", "|", "s", "|">> \o Escaped(Messages[e], {"|", "\\"})
    \o <<"|", "5", "|", "rt", "=", Stamp(e), " ", "host", "=", "h1">>
CefRow(e) ==
  InDefault(RowWith(e,
    Named1("cef_version", Text(<<"0">>)) @@ Named1("device_vendor", Text(<<"v">>))
      @@ Named1("device_product", Text(<<"p">>)) @@ Named1("device_version", Text(<<"1">>))
      @@ Named1("signature_id", Text(<<"s">>)) @@ Named1("severity", Text(<<"5">>))
      @@ Named1("rt", Text(<<Stamp(e)>>))))

Bare(e) == InDefault(RowOf(0, Messages[e], Nothing))

TextRequests(rule, none) ==
  {Request(p, Both(e, LAMBDA x : JsonLine(x, shape)) \o <<<<"{">>>>,
                Both(e, LAMBDA x : InShape(x, shape)), 1, none) :
     e \in {1, 4}, shape \in Shapes, p \in {"ingest", "ndjson", "auto"}}
  \cup {Request(p, <<<<"[">>, <<"all">>>>, [e \in 1..3 |-> Plainly(e)], 0, none) : p \in {"json", "auto"}}
  \cup {Request(p, Both(e, Logfmt), Both(e, Plainly), 0, none) :
          e \in {x \in Event : ~(Has(x, "\"") /\ Has(x, " "))}, p \in {"logfmt", "auto"}}
  \cup {Request("csv", <<<<"timestamp", ",", "host", ",", "message">>>> \o Both(e, Csv),
                Both(e, Plainly), 0, none) : e \in Event}
  \cup {Request("w3c", <<<<"#", "Fields:", " ", "date", " ", "time", " ", "host", " ", "message">>>>
                         \o Both(e, W3c), Both(e, W3cRowOf), 0, none) :
          e \in {x \in Event : ~Has(x, " ")}}
  \cup {Request(p, Both(e, Rfc5424), Both(e, SyslogRow), 0, none) :
          e \in {x \in Event : ~Has(x, "]")}, p \in {"syslog", "auto"}}
  \cup {Request("syslog", Both(e, Rfc3164), Both(e, SyslogRow), 0, none) : e \in Event}
  \cup {Request("cef", Both(e, Cef), Both(e, CefRow), 0, none) : e \in Event}
  \cup {Request("text", Both(e, LAMBDA x : Messages[x]), Both(e, Bare), 0, none) : e \in Event}
  \cup {Request("text", <<Messages[8], <<"more">>, Messages[8]>>,
                << InDefault(RowOf(0, Messages[8] \o <<"\n", "more">>, Nothing)), Bare(8) >>, 0, rule)}

-----------------------------------------------------------------------------
(* Push protocols.                                                         *)
HecValue(e, shape) ==
  LET secs == Named1("time", Decimal(Millis(e))) IN
  CASE shape = 1 -> Object(Named1("event", Object(Said(e))) @@ secs)
    [] shape = 2 -> Object(Named1("event", Text(Messages[e])) @@ secs @@ Named1("host", Text(Host)))
    [] shape = 3 -> Object(Said(e) @@ secs)
    [] OTHER -> Object(Named1("event", Text(Messages[e])) @@ secs
                         @@ Named1("fields", Object(Named1("host", Text(Host))))
                         @@ Named1("host", Text(<<"other">>)))

Template == <<"app-", "{{", " ", "host", "}}">>
Resolved == <<"app-", "h1">>
To(name, v) == Object(Named1(name, Object(Named1("_index", Text(v)))))

EsBody(e, bad) ==
  << To("index", Template), Object(JsonEvent(e, 1)), To("delete", Default), bad,
     To("update", Default), Object(Named1("doc", Object(JsonEvent(1, 4)))) >>

Host1 == <<"host">>

OtlpRecord(e, time, observed) ==
  [attributes |-> << <<Host1, <<"string", Host>>>> >>, body |-> <<"string", Messages[e]>>,
   time |-> time, observed |-> observed, severity |-> None, trace |-> None, span |-> None]

OtlpData(e) ==
  << [attributes |-> << <<Host1, <<"string", <<"other">>>>>> >>,
      scopes |-> << <<OtlpRecord(e, Millis(e) * 100, None)>>, <<OtlpRecord(1, None, 15099)>> >>] >>

LokiStreams(e) ==
  << [labels |-> Named1("host", Text(Host)),
      values |-> << [time |-> Millis(e) * 100, line |-> Messages[e], meta |-> Nothing],
                    [time |-> 7, line |-> JsonLine(1, 1), meta |-> Named1("host", Text(<<"other">>))] >>] >>

PushRequests(notJson, none) ==
  {Request("hec", <<HecValue(e, shape), HecValue(1, 3), notJson, HecValue(1, 3)>>, Both(e, Nearly), 1, none) :
     e \in {1, 2, 8}, shape \in 1..4}
  \cup {Request("es", EsBody(e, notJson),
                <<Meant(Resolved, RowWith(e, Nothing), 0), Plainly(1)>>, 1, none) : e \in {1, 2}}
  \cup {Request(p, OtlpData(e), <<Nearly(e), Meant(Default, RowWith(1, Nothing), 1)>>, 0, none) : e \in {1, 2}, p \in {"otlp", "otlp_proto"}}
  \cup {Request("loki", LokiStreams(e), Both(e, Nearly), 0, none) : e \in Event}
=============================================================================
