------------------------------- MODULE RawParse -------------------------------
(***************************************************************************)
(* The formats of appliances, syslog and CEF, the detection of a format    *)
(* and the entry point of the parsing layer (indexer/parse).               *)
(***************************************************************************)
EXTENDS Formats

(* The number between '<' and the first '>', and what follows it.          *)
Close(line) == First(line, ">")

Priority(line) == SubSeq(line, 2, Close(line) - 1)

IsSyslogPrefix(line) ==
  /\ Len(line) > 0 /\ line[1] = "<"
  /\ Close(line) > 2 /\ Len(Priority(line)) <= 3 /\ Digits(Priority(line))

AfterPriority(line) == From(line, Close(line) + 1)

(* The first n words of a text and the rest of it, when a space follows    *)
(* each and the rest is one line.                                          *)
LeadingWords(text, n) ==
  LET Take(s, i) ==
        LET end == SelectInSeq(s.rest, Spaced) IN
          IF s.ok /\ end > 1
          THEN [ok |-> TRUE, words |-> Append(s.words, UpTo(s.rest, end)),
                rest |-> TrimStart(From(s.rest, end))]
          ELSE [s EXCEPT !.ok = FALSE]
      OneLine(s) == [s EXCEPT !.ok = @ /\ First(s.rest, "\n") = 0]
  IN  OneLine(FoldLeft(Take, [ok |-> TRUE, words |-> <<>>, rest |-> text], [i \in 1..n |-> i]))

PutSaid(e, name, text) == IF text \in {<<>>, <<"-">>} THEN e ELSE Put(e, Key(name), Str(text))

WithPriority(e, line) ==
  LET pri == NumberOf(Priority(line)) IN
    Put(Put(Put(e, Key("priority"), Num(pri)), Key("facility"), Num(pri \div 8)),
        Key("severity"), Num(pri % 8))

(* What precedes the message: '-', or all up to the last ']'.              *)
StripStructuredData(rest) ==
  LET r == TrimStart(rest)
      end == SelectLastInSeq(r, LAMBDA c : c = "]")
  IN  CASE r # <<>> /\ r[1] = "-" -> TrimStart(Tail(r))
        [] r # <<>> /\ r[1] = "[" /\ end > 0 -> TrimStart(From(r, end + 1))
        [] OTHER -> r

Fields5424(line) == LeadingWords(AfterPriority(line), 6)

Is5424(line, f) ==
  /\ IsSyslogPrefix(line) /\ f.ok
  /\ Len(f.words[1]) = 1 /\ Digits(f.words[1])

Parse5424(line, f) ==
  LET said == [name \in {"host", "appname", "procid", "msgid"} |->
                 f.words[CASE name = "host" -> 3 [] name = "appname" -> 4
                           [] name = "procid" -> 5 [] OTHER -> 6]]
      e == (Key("timestamp") :> Str(f.words[2]))
             @@ (Key("message") :> Str(StripStructuredData(f.rest)))
  IN  FoldLeft(LAMBDA ev, name : PutSaid(ev, name, said[name]), WithPriority(e, line),
               <<"host", "appname", "procid", "msgid">>)

(* Month, day, time and host; then a tag with or without a process id, if  *)
(* there is a colon after it, and the message.                             *)
Fields3164(line) == LeadingWords(AfterPriority(line), 4)

Is3164(line, f) ==
  /\ IsSyslogPrefix(line) /\ f.ok
  /\ Len(f.words[1]) = 1 /\ f.words[1][1] \in MonthLike
  /\ Len(f.words[2]) \in 1..2 /\ Digits(f.words[2])
  /\ Len(f.words[3]) = 1 /\ f.words[3][1] \in ClockTime

TagEnd(rest) == SelectInSeq(rest, LAMBDA c : c \in {":", "["} \cup Space)

TagIn(rest, end, close) ==
  LET pid == SubSeq(rest, end + 1, close - 1)
  IN  CASE end > 1 /\ rest[end] = ":" ->
             [tag |-> UpTo(rest, end), pid |-> <<>>, msg |-> TrimStart(From(rest, end + 1))]
        [] /\ end > 1 /\ rest[end] = "[" /\ close > end + 1 /\ Digits(pid)
           /\ close < Len(rest) /\ rest[close + 1] = ":" ->
             [tag |-> UpTo(rest, end), pid |-> pid, msg |-> TrimStart(From(rest, close + 2))]
        [] OTHER -> [tag |-> <<>>, pid |-> <<>>, msg |-> rest]

Tagged(rest) == TagIn(rest, TagEnd(rest), First(rest, "]"))

(* A month that is none leaves the event without a timestamp.              *)
BsdTimestamp(f) ==
  IF f.words[1][1] \in Month
  THEN Key("timestamp") :> Str(<<ThisYear>> \o f.words[1] \o f.words[2] \o f.words[3])
  ELSE NoFields

Parse3164(line, f, t) ==
  LET e == WithPriority(Put(BsdTimestamp(f), Key("message"), Str(t.msg)), line)
  IN  PutSaid(PutSaid(PutSaid(e, "host", f.words[4]), "appname", t.tag), "procid", t.pid)

ParseFields(line, f5424, f3164) ==
  CASE Is5424(line, f5424) -> Parse5424(line, f5424)
    [] ~Is5424(line, f5424) /\ Is3164(line, f3164) -> Parse3164(line, f3164, Tagged(f3164.rest))
    [] OTHER -> Message(line)

ParseLine(line) == ParseFields(line, Fields5424(line), Fields3164(line))

ParseSyslog(body, multiline) == EachRecord(body, multiline, ParseLine)

-----------------------------------------------------------------------------
(* CEF.                                                                    *)

HeaderKeys ==
  <<"cef_version", "device_vendor", "device_product", "device_version",
    "signature_id", "message", "severity">>

(* Six fields end at a bar that no backslash precedes; the backslashes go, *)
(* in what follows too, and the seventh ends at the next bar.              *)
SplitHeader(text) ==
  LET Add(s, c) ==
        CASE s.esc -> [s EXCEPT !.cur = Append(@, c), !.esc = FALSE]
          [] ~s.esc /\ c = "\\" -> [s EXCEPT !.esc = TRUE]
          [] ~s.esc /\ c = "|" /\ Len(s.out) < 6 ->
               [s EXCEPT !.out = Append(@, s.cur), !.cur = <<>>]
          [] OTHER -> [s EXCEPT !.cur = Append(@, c)]
      Cut(s, bar) ==
        IF bar > 0 THEN [fields |-> Append(s.out, UpTo(s.cur, bar)), ext |-> From(s.cur, bar + 1)]
                   ELSE [fields |-> Append(s.out, s.cur), ext |-> <<>>]
      Bounded(s) == Cut(s, First(s.cur, "|"))
  IN  Bounded(FoldLeft(Add, [out |-> <<>>, cur |-> <<>>, esc |-> FALSE], text))

(* A key is a name before '=' at the beginning or after a space; its value *)
(* ends where the next one begins.                                         *)
KeyStarts(ext) ==
  LET eq(i) == SelectInSubSeq(ext, i, Len(ext), LAMBDA c : c \notin NameChar)
  IN  {i \in DOMAIN ext :
         /\ i = 1 \/ Spaced(ext[i - 1])
         /\ ext[i] \in FirstChar
         /\ eq(i) > i /\ ext[eq(i)] = "="}

PutPairs(ext, e, starts) ==
  LET eq(i) == SelectInSubSeq(ext, i, Len(ext), LAMBDA c : c = "=")
      after(i) == {j \in starts : j > i}
      end(i) == IF after(i) = {} THEN Len(ext)
                ELSE (CHOOSE j \in after(i) : \A k \in after(i) : j <= k) - 1
      Add(ev, i) ==
        IF i \in starts
        THEN Put(ev, SubSeq(ext, i, eq(i) - 1),
                 Str(Unescape(Trim(SubSeq(ext, eq(i) + 1, end(i))), "=")))
        ELSE ev
  IN  FoldLeftDomain(Add, e, ext)

ParseExtension(ext, e) == PutPairs(ext, e, KeyStarts(ext))

ReceiptTime(e) == IF Key("rt") \in DOMAIN e THEN PutNew(e, Key("timestamp"), e[Key("rt")]) ELSE e

HeaderEvent(h) ==
  LET named == FoldLeftDomain(LAMBDA e, i : Put(e, Key(HeaderKeys[i]), Str(h.fields[i])),
                              NoFields, HeaderKeys)
  IN  ReceiptTime(ParseExtension(h.ext, named))

CefEvent(line) ==
  LET h == SplitHeader(Tail(line)) IN
    IF line = <<>> \/ line[1] # "CEF:" \/ Len(h.fields) < 7 THEN Message(line) ELSE HeaderEvent(h)

ParseCef(body, multiline) == EachRecord(body, multiline, CefEvent)

-----------------------------------------------------------------------------
(* detect: the first line that is not blank decides; in doubt, text.       *)
DetectLine(first) ==
  LET Begins(c) == first # <<>> /\ first[1] = c
  IN  CASE Begins("[") -> "json"
        [] Begins("{") -> "ndjson"
        [] IsSyslogPrefix(first) -> "syslog"
        [] LooksLikeLogfmt(first) -> "logfmt"
        [] OTHER -> "text"

Detect(body) == DetectLine(IF Nonblank(body) = <<>> THEN <<>> ELSE Trim(Nonblank(body)[1]))

(* parse.                                                                  *)
ParseAs(format, body, multiline) ==
  CASE format = "json" -> ParseJsonDocument(body)
    [] format = "ndjson" -> ParseNdjson(body)
    [] format = "syslog" -> ParseSyslog(body, multiline)
    [] format = "logfmt" -> EachRecord(body, multiline, LogfmtEvent)
    [] format = "csv" -> ParseCsv(body)
    [] format = "cef" -> ParseCef(body, multiline)
    [] format = "w3c" -> ParseW3c(body)
    [] OTHER -> ParseText(body, multiline)

ParseBody(format, body, multiline) ==
  ParseAs(IF format = "auto" THEN Detect(body) ELSE format, body, multiline)
=============================================================================
