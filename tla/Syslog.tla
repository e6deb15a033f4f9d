-------------------------------- MODULE Syslog --------------------------------
(***************************************************************************)
(* The network syslog listener (syslog/): a supervisor polls the settings  *)
(* and keeps a UDP and a TCP listener as they say, pushing changed routes  *)
(* to the listeners it keeps; a connection is cut into frames, and every   *)
(* line is parsed, routed and handed to the writer, or dropped when its    *)
(* queue is full.  An admin's request stores the settings key by key, and  *)
(* the supervisor reads them key by key; either can fail between two keys. *)
(*                                                                         *)
(* A connection's task is not among those a listener's end aborts: it goes *)
(* on with the router its channel had last.                                *)
(***************************************************************************)
EXTENDS Shims

CONSTANTS
  Sender,       \* senders of one TCP connection each
  Streams,      \* Streams[c]: what c may send, [bytes, frames, lines]: see WellFramed
  Datagrams,    \* what else arrives: [from, text]
  Patches,      \* what an admin may post: functions from keys to values
  Empty,        \* the empty string: the key is removed
  Defaults,     \* SyslogSettings::default()
  PortOverride, \* --syslog-port: both ports, whatever the settings say; or Absent
  Regex,        \* Regex[r]: the texts the regular expression r matches
  Addresses,    \* the address of sender or peer x is Addresses[x]
  MaxLine,      \* MAX_LINE
  MaxToken,     \* 12: no length has more digits
  SyslogDay,    \* today
  Chan,         \* names of watch channels: 1..n, with n greater than there are at once
  MaxFaults,    \* bounds the reads that fail, and the binds that fail for another program's sake
  SyslogScenes  \* the initial states: [settings, patches, senders, datagrams]

VARIABLES
  settings,  \* the keys set in settings.json
  posts,     \* bounds the patches still to come
  writes,    \* the writes of the request being served
  sup,       \* the supervisor: [pc, i, read, udp]
  running,   \* what it keeps: [key, chan], or Absent
  socks,     \* the sockets bound: [proto, addr, chan, task]
  router,    \* router[chan]: the last value of the watch channel chan
  faults,
  conn,      \* conn[c]: [pc, stream, chan, at, buf, lines]
  datagrams, \* the datagrams still to come
  placed     \* what was handed to the writer: [from, line, part]

supervisor == <<sup, running, router, faults>>
admin == <<settings, posts, writes>>
traffic == <<conn, datagrams, placed>>
net == <<supervisor, admin, socks, traffic>>

Keys == <<"enabled", "bind", "udp_port", "tcp_port", "default_env", "default_index", "routes">>

(* syslog_settings: what each key says, or its default.                    *)
Value(map, k) == IF k \in DOMAIN map THEN map[k] ELSE Defaults[k]

-----------------------------------------------------------------------------
(* The router.                                                             *)

Compiles(r) == r.op # "regex" \/ r.value \in DOMAIN Regex

OrElse(x, default) == IF x = Absent THEN default ELSE x

(* SyslogRouter::build: a rule that does not compile is left out, one that *)
(* names no environment or index has the default's.                        *)
Build(s) ==
  LET rules == SelectSeq(s.routes, Compiles)
  IN  [env |-> s.default_env, index |-> s.default_index,
       routes |-> [i \in DOMAIN rules |->
                     [rules[i] EXCEPT !.env = OrElse(@, s.default_env),
                                      !.index = OrElse(@, s.default_index)]]]

FieldOf(e, field, ip) ==
  LET v == Get(e, field) IN
    CASE field = "source_ip" -> ip
      [] field \in {"facility", "severity"} -> IF IsType(v, "num") THEN <<ToString(v[2])>> ELSE Absent
      [] OTHER -> IF IsType(v, "str") THEN v[2] ELSE Absent

Within(part, text) == \E i \in 0..(Len(text) - Len(part)) : SubSeq(text, i + 1, i + Len(part)) = part

Matches(rule, actual) ==
  /\ actual # Absent
  /\ CASE rule.op = "equals" -> actual = rule.value
       [] rule.op = "contains" -> Within(rule.value, actual)
       [] OTHER -> actual \in Regex[rule.value]

(* The first rule that matches, or the default.                            *)
FirstOf(r, hits) ==
  IF hits = {} THEN <<r.env, r.index>> ELSE <<r.routes[Min(hits)].env, r.routes[Min(hits)].index>>

RouteFor(r, e, ip) ==
  FirstOf(r, {i \in DOMAIN r.routes : Matches(r.routes[i], FieldOf(e, r.routes[i].field, ip))})

(* handle_line: the partition of a line.                                   *)
Routed(e, route) == <<route[1], ResolveIndexTemplate(route[2], Obj(e)), EventDay(e, SyslogDay)>>

EventPlace(e, ip, r) == Routed(e, RouteFor(r, e, ip))

PlaceOf(line, ip, r) == EventPlace(ParseLine(line), ip, r)

(* What handling lines adds: each is stored in its place or, when the      *)
(* queue is full, nowhere.                                                 *)
Handled(from, lines, chan) ==
  LET said == {Trim(lines[i]) : i \in DOMAIN lines} \ {<<>>} IN
    \E room \in BOOLEAN :
      placed' = placed \cup
        {[from |-> from, line |-> line, part |-> PlaceOf(line, Addresses[from], router[chan])] :
           line \in IF room THEN said ELSE {}}

-----------------------------------------------------------------------------
(* FrameBuf: what a buffer gives, a frame and the rest; nothing when more  *)
(* bytes are needed.                                                       *)

More == {}

Frame1(frame, rest) == {[frame |-> frame, rest |-> rest]}

(* The bytes up to a newline, or all of them, go; an empty frame comes.    *)
DropToNewline(buf) ==
  LET nl == First(buf, "\n") IN Frame1(<<>>, IF nl = 0 THEN <<>> ELSE From(buf, nl + 1))

(* The number a token is; 0, which is no length, if it is none.            *)
LengthOf(token) == IF token # <<>> /\ Digits(token) THEN NumberOf(token) ELSE 0

(* Mutant: the message needs no more than one byte to be there.            *)
TryOctetCountedEager(buf) ==
  LET sp == First(buf, " ")
      len == LengthOf(Trim(UpTo(buf, sp)))
  IN  CASE sp = 0 -> IF Len(buf) > MaxToken THEN DropToNewline(buf) ELSE More
        [] sp > 0 /\ (sp - 1 > MaxToken \/ len \notin 1..MaxLine) -> DropToNewline(buf)
        [] OTHER -> IF Len(buf) > sp
                    THEN Frame1(SubSeq(buf, sp + 1, Min({sp + len, Len(buf)})), From(buf, sp + len + 1)) ELSE More

TryOctetCounted(buf) ==
  LET sp == First(buf, " ")
      len == LengthOf(Trim(UpTo(buf, sp)))
  IN  CASE sp = 0 -> IF Len(buf) > MaxToken THEN DropToNewline(buf) ELSE More
        [] sp > 0 /\ (sp - 1 > MaxToken \/ len \notin 1..MaxLine) -> DropToNewline(buf)
        [] OTHER -> IF Len(buf) >= sp + len
                    THEN Frame1(SubSeq(buf, sp + 1, sp + len), From(buf, sp + len + 1)) ELSE More

TryNewline(buf) ==
  LET nl == First(buf, "\n")
      end == IF nl > 1 /\ buf[nl - 1] = "\r" THEN nl - 1 ELSE nl
  IN  IF nl > 0 THEN Frame1(UpTo(buf, end), From(buf, nl + 1))
      ELSE IF Len(buf) > MaxLine THEN DropToNewline(buf) ELSE More

TryExtract(buf) ==
  IF buf = <<>> THEN More
  ELSE IF buf[1] \in DOMAIN Digit THEN TryOctetCounted(buf) ELSE TryNewline(buf)

-----------------------------------------------------------------------------
(* What senders send (RFC 6587).  A stream is framed from end to end: its  *)
(* k-th frame ends at the byte frames[k].end, and frames[k].told of its    *)
(* messages, which are its lines, have been told by then.                  *)

EndOf(st, k) == IF k = 0 THEN 0 ELSE st.frames[k].end
ToldBy(st, k) == IF k = 0 THEN 0 ELSE st.frames[k].told
Piece(st, k) == SubSeq(st.bytes, EndOf(st, k - 1) + 1, EndOf(st, k))

(* A frame is a length in digits, a space and so many bytes,               *)
Counted1(piece, text) ==
  \E d \in 1..MaxToken :
    /\ d + 1 < Len(piece) /\ Len(piece) - (d + 1) <= MaxLine
    /\ Digits(SubSeq(piece, 1, d)) /\ piece[d + 1] = " "
    /\ NumberOf(SubSeq(piece, 1, d)) = Len(piece) - (d + 1)
    /\ text = SubSeq(piece, d + 2, Len(piece))

(* or a line, which begins with no digit, up to its newline,               *)
Line1(piece, text) ==
  /\ piece[1] \notin DOMAIN Digit /\ Len(piece) - 1 <= MaxLine
  /\ piece[Len(piece)] = "\n" /\ \A i \in 1..(Len(piece) - 1) : piece[i] # "\n"
  /\ text = IF Len(piece) > 1 /\ piece[Len(piece) - 1] = "\r"
            THEN SubSeq(piece, 1, Len(piece) - 2) ELSE SubSeq(piece, 1, Len(piece) - 1)

(* or, as the last, a line without one.                                    *)
Rest1(piece, text) ==
  /\ piece[1] \notin DOMAIN Digit /\ Len(piece) <= MaxLine
  /\ \A i \in 1..Len(piece) : piece[i] # "\n"
  /\ text = piece

Framed(st, k, text) ==
  \/ Counted1(Piece(st, k), text) \/ Line1(Piece(st, k), text)
  \/ k = Len(st.frames) /\ Rest1(Piece(st, k), text)

Tells(st, k, text) ==
  IF Trim(text) = <<>> THEN ToldBy(st, k) = ToldBy(st, k - 1)
  ELSE ToldBy(st, k) = ToldBy(st, k - 1) + 1 /\ st.lines[ToldBy(st, k)] = Trim(text)

WellFramed(st) ==
  /\ st = [bytes |-> st.bytes, frames |-> st.frames, lines |-> st.lines]
  /\ st.bytes \in Seq(STRING) /\ st.lines \in Seq(Seq(STRING))
  /\ st.frames \in Seq([end : 0..Len(st.bytes), told : 0..Len(st.lines)])
  /\ EndOf(st, Len(st.frames)) = Len(st.bytes) /\ ToldBy(st, Len(st.frames)) = Len(st.lines)
  /\ \A k \in 1..Len(st.frames) :
       /\ EndOf(st, k - 1) < EndOf(st, k)
       /\ \E i \in 1..Len(st.bytes) + 1, j \in 0..Len(st.bytes) :
            LET text == SubSeq(Piece(st, k), i, j) IN Framed(st, k, text) /\ Tells(st, k, text)

ASSUME StreamsAssumption ==
  /\ MaxLine \in Nat /\ MaxToken \in Nat /\ Space \cap DOMAIN Digit = {}
  /\ \A c \in Sender : \A st \in Streams[c] : WellFramed(st)

-----------------------------------------------------------------------------
(* Initially nothing is bound.                                             *)
Resting == [pc |-> "idle", i |-> 1, read |-> Defaults, chan |-> 0]

Unconnected(pc, stream) ==
  [pc |-> pc, stream |-> stream, chan |-> 0, at |-> 0, buf |-> <<>>, lines |-> <<>>]

Silence == [bytes |-> <<>>, frames |-> <<>>, lines |-> <<>>]

NetInit ==
  /\ \E scene \in SyslogScenes :
       /\ settings = scene.settings /\ posts = scene.patches /\ datagrams = scene.datagrams
       /\ \E send \in [Sender -> UNION {Streams[c] : c \in Sender} \cup {Silence}] :
            /\ \A c \in Sender : IF c \in scene.senders THEN send[c] \in Streams[c] ELSE send[c] = Silence
            /\ conn = [c \in Sender |->
                         Unconnected(IF c \in scene.senders THEN "closed" ELSE "silent", send[c])]
  /\ writes = <<>> /\ sup = Resting /\ running = Absent /\ socks = {}
  /\ router = [n \in Chan |-> Absent]
  /\ faults = 0 /\ placed = {}

-----------------------------------------------------------------------------
(* post_config_handler: the routes are looked over first, then every key   *)
(* present is stored, or removed when its text is empty.                   *)
PostOrder == <<"enabled", "bind", "default_env", "default_index", "udp_port", "tcp_port", "routes">>

Valid(r) == r.op # "regex" \/ r.value \in DOMAIN Regex

Post ==
  /\ posts > 0 /\ writes = <<>>
  /\ \E p \in Patches :
       /\ "routes" \in DOMAIN p => \A i \in DOMAIN p["routes"] : Valid(p["routes"][i])
       /\ LET present == SelectSeq(PostOrder, LAMBDA k : k \in DOMAIN p)
          IN  writes' = [i \in DOMAIN present |-> <<present[i], p[present[i]]>>]
  /\ posts' = posts - 1
  /\ UNCHANGED <<settings, supervisor, socks, traffic>>

Stored(w) ==
  IF w[2] = Empty THEN [k \in DOMAIN settings \ {w[1]} |-> settings[k]] ELSE (w[1] :> w[2]) @@ settings

StoreKey ==
  /\ writes # <<>>
  /\ settings' = Stored(Head(writes))
  /\ writes' = Tail(writes)
  /\ UNCHANGED <<posts, supervisor, socks, traffic>>

(* The write of a key fails, or is done and its reply is lost: the request *)
(* is answered with an error, and the keys after it are not stored.        *)
StoreFails ==
  /\ writes # <<>>
  /\ settings' \in {settings, Stored(Head(writes))}
  /\ writes' = <<>>
  /\ UNCHANGED <<posts, supervisor, socks, traffic>>

-----------------------------------------------------------------------------
(* run_supervisor.                                                         *)

BindKey(s) == [enabled |-> s.enabled, bind |-> s.bind, udp |-> s.udp_port, tcp |-> s.tcp_port]

(* What the supervisor makes of a key: the command line shadows the ports. *)
Effective(map, k) ==
  IF PortOverride # Absent /\ k \in {"udp_port", "tcp_port"} THEN PortOverride ELSE Value(map, k)

ReadKey ==
  /\ sup.pc \in {"idle", "read"}
  /\ sup' = [sup EXCEPT !.pc = IF sup.i = Len(Keys) THEN "reconcile" ELSE "read", !.i = @ + 1,
                        !.read = [@ EXCEPT ![Keys[sup.i]] = Effective(settings, Keys[sup.i])]]
  /\ UNCHANGED <<running, router, faults, admin, socks, traffic>>

(* A key cannot be read: the tick is over, and the listeners stay.         *)
ReadFails ==
  /\ sup.pc \in {"idle", "read"} /\ faults < MaxFaults
  /\ faults' = faults + 1 /\ sup' = Resting
  /\ UNCHANGED <<running, router, admin, socks, traffic>>

Ended(s) == IF s.task = "live" THEN [s EXCEPT !.task = "aborted"] ELSE s

(* Mutant: the listeners are compared by their addresses alone.            *)
SameKeyByAddress(key, s) == [key EXCEPT !.enabled = TRUE] = [BindKey(s) EXCEPT !.enabled = TRUE]

SameKey(key, s) == key = BindKey(s)

Kept == running # Absent /\ SameKey(running.key, sup.read)

(* The channels some task or the supervisor holds an end of; a new one is  *)
(* the first that nobody does.                                             *)
InHand(sockets) == {s.chan : s \in sockets} \cup {conn[c].chan : c \in {d \in Sender : conn[d].pc = "open"}}

NewChan == CHOOSE n \in Chan \ InHand(socks) : \A k \in Chan \ InHand(socks) : n <= k

(* reconcile: the same addresses, and the routes are pushed; or else the   *)
(* listeners are aborted, and new ones are bound when there are to be any. *)
Reconcile ==
  /\ sup.pc = "reconcile"
  /\ \/ /\ Kept
        /\ router' = [router EXCEPT ![running.chan] = Build(sup.read)]
        /\ sup' = Resting
        /\ UNCHANGED <<running, socks>>
     \/ /\ ~Kept
        /\ running' = Absent
        /\ socks' = {Ended(s) : s \in socks}
        /\ IF sup.read.enabled
           THEN /\ router' = [n \in Chan |-> CASE n = NewChan -> Build(sup.read)
                                              [] n \in InHand(socks) -> router[n]
                                              [] OTHER -> Absent]
                /\ sup' = [sup EXCEPT !.pc = "udp", !.chan = NewChan]
           ELSE sup' = Resting /\ UNCHANGED router
  /\ UNCHANGED <<faults, admin, traffic>>

Port(proto) == IF proto = "udp" THEN sup.read.udp_port ELSE sup.read.tcp_port

Socket(proto) == [proto |-> proto, addr |-> <<sup.read.bind, Port(proto)>>, chan |-> sup.chan, task |-> "live"]

InUse(proto) == \E s \in socks : s.proto = proto /\ s.addr = Socket(proto).addr

(* start_listeners: one after the other, unless its port is 0.             *)
BindStep(proto, next) ==
  /\ sup.pc = proto
  /\ \/ Port(proto) = 0 /\ UNCHANGED socks
     \/ Port(proto) # 0 /\ ~InUse(proto) /\ socks' = socks \cup {Socket(proto)}
  /\ next
  /\ UNCHANGED <<faults, router, admin, traffic>>

BindUdp == BindStep("udp", sup' = [sup EXCEPT !.pc = "tcp"] /\ UNCHANGED running)

BindTcp ==
  BindStep("tcp", sup' = Resting /\ running' = [key |-> BindKey(sup.read), chan |-> sup.chan])

(* The address is in use, by a listener not yet gone or by another         *)
(* program: nothing is kept, and the UDP listener bound before is left to  *)
(* itself, with its task and its socket.                                   *)
BindFails ==
  /\ sup.pc \in {"udp", "tcp"} /\ Port(sup.pc) # 0
  /\ \/ InUse(sup.pc) /\ UNCHANGED faults
     \/ ~InUse(sup.pc) /\ faults < MaxFaults /\ faults' = faults + 1
  /\ socks' = {IF s.task = "live" THEN [s EXCEPT !.task = "detached"] ELSE s : s \in socks}
  /\ sup' = Resting
  /\ UNCHANGED <<running, router, admin, traffic>>

(* An aborted listener's socket is closed.                                 *)
Closed ==
  /\ \E s \in socks : s.task = "aborted" /\ socks' = socks \ {s}
  /\ UNCHANGED <<supervisor, admin, traffic>>

-----------------------------------------------------------------------------
(* Senders.                                                                *)

Listening(proto) == {s \in socks : s.proto = proto /\ s.task # "aborted"}

(* run_udp: the lines of a datagram.                                       *)
Datagram ==
  /\ \E d \in datagrams, s \in Listening("udp") :
       /\ datagrams' = datagrams \ {d}
       /\ Handled(d.from, SplitBy(d.text, LAMBDA ch : ch = "\n"), s.chan)
  /\ UNCHANGED <<conn, supervisor, admin, socks>>

Connect(c) ==
  /\ conn[c].pc = "closed"
  /\ \E s \in Listening("tcp") :
       conn' = [conn EXCEPT ![c] = [conn[c] EXCEPT !.pc = "open", !.chan = s.chan]]
  /\ UNCHANGED <<datagrams, placed, supervisor, admin, socks>>

(* handle_line: a blank line is no message.                                *)
Told(lines, frame) == IF Trim(frame) = <<>> THEN lines ELSE Append(lines, Trim(frame))

(* next_frame: a frame is taken before more is read.                       *)
Extract(c) ==
  /\ conn[c].pc = "open"
  /\ \E got \in TryExtract(conn[c].buf) :
       /\ conn' = [conn EXCEPT ![c] = [conn[c] EXCEPT !.buf = got.rest,
                                                     !.lines = Told(conn[c].lines, got.frame)]]
       /\ Handled(c, <<got.frame>>, conn[c].chan)
  /\ UNCHANGED <<datagrams, supervisor, admin, socks>>

ReadChunk(c) ==
  /\ conn[c].pc = "open" /\ TryExtract(conn[c].buf) = More
  /\ \E n \in 1..(Len(conn[c].stream.bytes) - conn[c].at) :
       conn' = [conn EXCEPT ![c] =
         [conn[c] EXCEPT !.at = conn[c].at + n,
                         !.buf = conn[c].buf \o SubSeq(conn[c].stream.bytes, conn[c].at + 1, conn[c].at + n)]]
  /\ UNCHANGED <<datagrams, placed, supervisor, admin, socks>>

(* finish: what is left at the end is a frame.                             *)
EndOfStream(c) ==
  /\ conn[c].pc = "open" /\ TryExtract(conn[c].buf) = More
  /\ conn[c].at = Len(conn[c].stream.bytes)
  /\ conn' = [conn EXCEPT ![c] = [conn[c] EXCEPT !.pc = "ended", !.buf = <<>>,
                                                !.lines = Told(conn[c].lines, conn[c].buf)]]
  /\ Handled(c, <<conn[c].buf>>, conn[c].chan)
  /\ UNCHANGED <<datagrams, supervisor, admin, socks>>

Supervise == ReadKey \/ ReadFails \/ Reconcile \/ BindUdp \/ BindTcp \/ BindFails

NetNext ==
  \/ Post \/ StoreKey \/ StoreFails
  \/ Supervise \/ Closed
  \/ Datagram
  \/ \E c \in Sender : Connect(c) \/ Extract(c) \/ ReadChunk(c) \/ EndOfStream(c)

(* The supervisor ticks on, a request is served or fails, the runtime      *)
(* drops what was aborted; and a bind that can succeed again and again     *)
(* does once.                                                              *)
NetFairness ==
  /\ WF_net(StoreKey) /\ WF_net(Supervise) /\ WF_net(Closed)
  /\ SF_net(BindUdp) /\ SF_net(BindTcp)

-----------------------------------------------------------------------------
(* A well-formed connection gives the messages its sender framed, in       *)
(* order, by their lengths or by newlines, whatever chunks it arrives in:  *)
(* none is cut, joined with the next, or handed on twice.                  *)
FramingExact ==
  \A c \in Sender :
    /\ IsPrefix(conn[c].lines, conn[c].stream.lines)
    /\ conn[c].pc = "ended" => conn[c].lines = conn[c].stream.lines

(* Once the settings stay as they are, the listener becomes and stays what *)
(* they say: off, or bound to their addresses with their routes; unless a  *)
(* failed bind has left a listener to itself.                              *)
Wanted == [k \in DOMAIN Defaults |-> Effective(settings, k)]

AsSet ==
  /\ (running # Absent) = Wanted.enabled
  /\ running # Absent =>
       /\ running.key = BindKey(Wanted)
       /\ router[running.chan] = Build(Wanted)

Abandoned == \E s \in socks : s.task = "detached"

EventuallyAsSet == <>[](AsSet \/ Abandoned)
=============================================================================
