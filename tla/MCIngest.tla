------------------------------- MODULE MCIngest -------------------------------
(* A small instance of Ingest: shippers of the API and of a push protocol, *)
(* alone with an admin or together before a short queue, and one that      *)
(* sends the corpus; an admin who turns the listener on, off and to other  *)
(* ports, a sender during that, and one whose streams are framed in every  *)
(* way and arrive in every sequence of chunks.                             *)
EXTENDS Ingest

CONSTANTS curl, hec, agent, corpus, c1, c2, peer, ip, secret, e1, e2, sys, None

Said == INSTANCE Corpus

MCJson == Said!JsonTexts
MCDate == Said!Dates
MCDefaultIndex == Said!Default
LettersOf == [x \in {"h1", "h2"} |-> x]
MCRule == [start |-> "[", maxLines |-> 3]
MCNameChar == {"timestamp", "host", "message", "k", "rt", "a", "b", "1", "3", "0", "5"}
MCDigit == [d \in {"0", "1", "3", "5"} |->
              CASE d = "0" -> 0 [] d = "1" -> 1 [] d = "3" -> 3 [] OTHER -> 5]

Line(e) == Said!JsonLine(e, 1)

Sends(proto, api, scheme, env, body) ==
  [api |-> api, scheme |-> scheme, token |-> IF scheme = "none" THEN Absent ELSE secret, env |-> env,
   index |-> Absent, proto |-> proto, body |-> body, multiline |-> NoRule, said |-> Absent]

I1 == <<"i1">>
I2 == <<"i2">>

Carries(index) == Obj(Key("event") :> Str(<<"x">>) @@ Key("index") :> Str(index))

MCRequests ==
  [x \in Shipper |->
     CASE x = curl -> {Sends("ingest", TRUE, "none", e2, <<Line(1)>>)}
       [] x = hec -> {Sends("hec", FALSE, "basic", e2, <<Carries(I1), Carries(I1)>>)}
       [] x = agent -> {Sends("hec", FALSE, scheme, e2, <<Carries(I1)>>) : scheme \in {"none", "bearer"}}
                     \cup {Sends("hec", FALSE, "basic", e2, <<Carries(I2)>>),
                           Sends("ingest", TRUE, "none", e2, <<<<"7">>, Line(2)>>)}
       [] OTHER -> Said!TextRequests(MCRule, NoRule) \cup Said!PushRequests(NotJson, NoRule)]

Token(on) == [secret |-> secret, env |-> e1, indexes |-> {I1}, enabled |-> on]

Doc(require, shims, tokens) == [require |-> require, api |-> TRUE, shims |-> shims, tokens |-> tokens]

MCAuthChanges ==
  {Doc(require, shims, tokens) :
     require \in BOOLEAN, shims \in BOOLEAN, tokens \in {{}, {Token(TRUE)}, {Token(FALSE)}}}

Scene(senders, edit, require) ==
  [senders |-> senders, auth |-> Doc(require, TRUE, {Token(TRUE)}), envs |-> {e1, e2}, edits |-> edit]

MCScenes ==
  {Scene({curl, hec}, 0, FALSE), Scene({agent}, 2, FALSE), Scene({corpus}, 0, FALSE)}

MCPartition ==
  {<<e, x, d>> : e \in {e1, e2}, x \in {I1, I2, <<"default">>, <<"app-", "h1">>}, d \in 0..1}

MCRow == [from : Shipper, try : 1..MaxTries, at : 1..3, part : MCPartition]
MCBlocking == {r \in MCRow : r.from = curl}
MCPartOf == [r \in MCRow |-> r.part]

-----------------------------------------------------------------------------
(* The listener.                                                           *)
MCDefaults ==
  [k \in {Keys[i] : i \in DOMAIN Keys} |->
     CASE k = "enabled" -> FALSE
       [] k = "bind" -> ip
       [] k \in {"udp_port", "tcp_port"} -> 5
       [] k = "default_env" -> e1
       [] k = "default_index" -> <<"syslog">>
       [] OTHER -> <<>>]

RouteRule(field, op, value, index) == [field |-> field, op |-> op, value |-> value, env |-> Absent, index |-> index]

Rules == << RouteRule("host", "equals", <<"h1">>, <<"i1">>), RouteRule("severity", "equals", <<"5">>, Absent),
            RouteRule("message", "contains", <<"a">>, <<"app-", "{{", "host", "}}">>) >>
MCRegex == <<"r">> :> {<<"a", " ", "b">>}

MCPatches ==
  { ("enabled" :> TRUE) @@ ("routes" :> Rules), ("enabled" :> FALSE), ("tcp_port" :> 0) @@ ("udp_port" :> 6),
    ("udp_port" :> 6), ("bind" :> Empty) @@ ("udp_port" :> 0) @@ ("routes" :> <<RouteRule("message", "regex", <<"r">>, <<"i1">>)>>) }

Hello == <<"<", "1", "3", ">", "Jan", " ", "1", " ", "D15", " ", "h1", " ", "app", ":", " ", "a">>

Stream(bytes, frames, lines) == [bytes |-> bytes, frames |-> frames, lines |-> lines]
To(end, told) == [end |-> end, told |-> told]

AB == <<"a", " ", "b">>

MCStreams ==
  [x \in Sender |->
     IF x = c1 THEN {Stream(<<"a", "\n">>, <<To(2, 1)>>, <<<<"a">>>>)}
     ELSE { Stream(<<"3", " ">> \o AB \o <<"1", " ", "a">>, <<To(5, 1), To(8, 2)>>, <<AB, <<"a">>>>),
            Stream(<<"3", " ">> \o AB \o <<"\n", "3", " ">> \o AB \o <<"\n">>,
                   <<To(5, 1), To(6, 1), To(11, 2), To(12, 2)>>, <<AB, AB>>),
            Stream(AB \o <<"\r", "\n">> \o AB \o <<"\n", "b">>,
                   <<To(5, 1), To(9, 2), To(10, 3)>>, <<AB, AB, <<"b">>>>),
            Stream(<<"a", "\n", "5", " ", "a", "\n", "3", " ", "b", "b", "\n">>,
                   <<To(2, 1), To(9, 2), To(11, 3)>>, <<<<"a">>, <<"a", "\n", "3", " ", "b">>, <<"b">>>>) }]

MCDatagrams == {[from |-> peer, text |-> Hello \o <<"\n">> \o AB]}

MCAddresses == [x \in Sender \cup {peer} |-> <<"ip">>]

On == "enabled" :> TRUE
Off == [k \in {} |-> k]

Listener(set, patches, senders, arriving) ==
  [settings |-> set, patches |-> patches, senders |-> senders, datagrams |-> arriving]

MCSyslogScenes ==
  {Listener(Off, 2, {}, {}), Listener(On, 1, {c1}, {}), Listener(On, 1, {}, MCDatagrams), Listener(On, 0, {c2}, {})}
=============================================================================
