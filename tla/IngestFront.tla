----------------------------- MODULE IngestFront -----------------------------
(***************************************************************************)
(* Ingestion over HTTP (http/ingest.rs, http/shims.rs) in front of the     *)
(* buffered writer: a request is authorized against the ingest-auth        *)
(* document, decoded, and its rows submitted one by one; admins change     *)
(* tokens, the policy and the environments meanwhile, on this node or on   *)
(* another, and the handlers read both documents through this node's       *)
(* cache.                                                                  *)
(*                                                                         *)
(* A request is [api, scheme, token, env, index, proto, body]: scheme is   *)
(* "none", "bearer" (which the code calls strict) or "basic"; env and      *)
(* index are the query's or the headers', Absent when neither has one.     *)
(* A partition is <<env, index, day>>, a row [from, try, at, part]: the    *)
(* at-th item of a shipper's try-th attempt.                               *)
(***************************************************************************)
EXTENDS Shims, IngestWriter

CONSTANTS
  Shipper,        \* each sends one request at a time
  Requests,       \* Requests[s]: what s may send
  AuthChanges,    \* what an admin may make of the ingest-auth document
  Environments,   \* the names of environments
  Reserved,       \* the environments whose name begins with '_'
  DefaultEnv, DefaultIndex,
  Today,          \* the day of an event without a date
  MaxTries,       \* bounds how often a refused request is sent again
  DefaultSource,  \* `source` of the query
  Scenes          \* the initial states: [senders, auth, envs, edits]

VARIABLES
  auth,      \* ingest_auth.json: [require, api, shims, tokens]
  envs,      \* envs.json: the environments
  seenAuth,  \* this node's cached copies of them
  seenEnvs,
  edits,     \* bounds the changes still to come to them
  h,         \* h[s]: the handler of s's request
  known      \* history: the copies the node has had during s's request

documents == <<auth, envs, seenAuth, seenEnvs, edits>>
front == <<documents, h, known>>

NoRequest == Absent

Zero == [ingested |-> 0, rejected |-> 0, rowErrors |-> 0, writeErrors |-> 0]

Idle(try) ==
  [pc |-> "idle", req |-> NoRequest, auth |-> NoRequest, target |-> NoRequest,
   items |-> <<>>, parseErrors |-> 0, at |-> 1, out |-> Zero, try |-> try, status |-> 0]

FrontAt(scene) ==
  /\ auth = scene.auth /\ envs = scene.envs /\ edits = scene.edits
  /\ h = [s \in Shipper |-> [Idle(1) EXCEPT !.pc = IF s \in scene.senders THEN @ ELSE "silent"]]
  /\ seenAuth = auth /\ seenEnvs = envs
  /\ known = [s \in Shipper |-> {}]

FrontInit == Init /\ \E scene \in Scenes : FrontAt(scene)

Become(s, x) == h' = [h EXCEPT ![s] = x]

Answer(s, status) == Become(s, [h[s] EXCEPT !.pc = "done", !.status = status])

Busy(s) == h[s].pc \in {"token", "open", "parse", "send"}

-----------------------------------------------------------------------------
(* The documents.  A change made here is in the cache at once, one made on *)
(* another node when this node reads again.                                *)

Seen(newAuth, newEnvs) ==
  /\ seenAuth' = newAuth /\ seenEnvs' = newEnvs
  /\ known' = [s \in Shipper |-> IF Busy(s) THEN known[s] \cup {<<newAuth, newEnvs>>} ELSE known[s]]

(* ingest_set_require, ingest_set_endpoints, ingest_token_create,          *)
(* ingest_token_set_enabled, ingest_token_delete: one mutation each.  The  *)
(* environment of a token need not outlive the request that creates it.    *)
SetsPolicy(a) ==
  /\ a.tokens = auth.tokens /\ a # auth
  /\ a.require = auth.require \/ (a.api = auth.api /\ a.shims = auth.shims)

CreatesToken(a) ==
  \E t \in a.tokens :
    /\ t \notin auth.tokens /\ t.enabled
    /\ t.env \in seenEnvs \ Reserved
    /\ a = [auth EXCEPT !.tokens = @ \cup {t}]

TogglesToken(a) ==
  \E t \in auth.tokens :
    a = [auth EXCEPT !.tokens = (@ \ {t}) \cup {[t EXCEPT !.enabled = ~t.enabled]}]

DeletesToken(a) == \E t \in auth.tokens : a = [auth EXCEPT !.tokens = @ \ {t}]

ChangeAuth(here) ==
  /\ edits > 0 /\ edits' = edits - 1
  /\ \E a \in AuthChanges :
       /\ SetsPolicy(a) \/ CreatesToken(a) \/ TogglesToken(a) \/ DeletesToken(a)
       /\ auth' = a
       /\ IF here THEN Seen(a, seenEnvs) ELSE UNCHANGED <<seenAuth, seenEnvs, known>>
  /\ UNCHANGED <<envs, h, vars>>

(* create_env.                                                             *)
CreateEnv(here) ==
  /\ edits > 0 /\ edits' = edits - 1
  /\ \E e \in Environments \ (envs \cup Reserved) :
       /\ envs' = envs \cup {e}
       /\ IF here THEN Seen(seenAuth, envs') ELSE UNCHANGED <<seenAuth, seenEnvs, known>>
  /\ UNCHANGED <<auth, h, vars>>

(* delete_env_handler: an environment goes when it has no partition,       *)
(* whatever is on its way to one.                                          *)
DeleteEnv(here) ==
  /\ edits > 0 /\ edits' = edits - 1
  /\ \E e \in envs \ {DefaultEnv} :
       /\ \A r \in stored : r.part[1] # e
       /\ envs' = envs \ {e}
       /\ IF here THEN Seen(seenAuth, envs') ELSE UNCHANGED <<seenAuth, seenEnvs, known>>
  /\ UNCHANGED <<auth, h, vars>>

Reread ==
  /\ <<seenAuth, seenEnvs>> # <<auth, envs>>
  /\ Seen(auth, seenEnvs) \/ Seen(seenAuth, envs)
  /\ UNCHANGED <<auth, envs, edits, h, vars>>

-----------------------------------------------------------------------------
(* authorize_ingest.                                                       *)

EnabledIn(a, req) == IF req.api THEN a.api ELSE a.shims

(* The first read: the class of the request may be switched off.           *)
Admit(s, req, try) ==
  /\ Become(s, IF EnabledIn(seenAuth, req)
               THEN [Idle(try) EXCEPT !.pc = "token", !.req = req, !.auth = seenAuth]
               ELSE [Idle(try) EXCEPT !.pc = "done", !.req = req, !.status = 403])
  /\ known' = [known EXCEPT ![s] = {<<seenAuth, seenEnvs>>}]
  /\ UNCHANGED <<documents, vars>>

ReadPolicy(s) ==
  /\ h[s].pc = "idle"
  /\ \E req \in Requests[s] : Admit(s, req, 1)

Target(env, index, allowed) == [env |-> env, index |-> index, allowed |-> allowed]

IndexOf(req) == IF req.index = Absent THEN DefaultIndex ELSE req.index

Aim(s, target) == Become(s, [h[s] EXCEPT !.pc = "parse", !.target = target])

(* ingest_token_find.                                                      *)
Found(s) == {t \in seenAuth.tokens : t.enabled /\ t.secret = h[s].req.token}

(* The second read: a token pins the environment and the indexes; one that *)
(* is not known refuses a strict request and is forgotten in another.      *)
ReadToken(s) ==
  /\ h[s].pc = "token"
  /\ \/ /\ h[s].req.scheme # "none"
        /\ \E t \in Found(s) :
             Aim(s, Target(t.env, IndexOf(h[s].req), t.indexes))
     \/ /\ h[s].req.scheme = "bearer" /\ Found(s) = {}
        /\ Answer(s, 401)
     \/ /\ h[s].req.scheme = "none" \/ (h[s].req.scheme = "basic" /\ Found(s) = {})
        /\ IF h[s].auth.require THEN Answer(s, 401) ELSE Become(s, [h[s] EXCEPT !.pc = "open"])
  /\ UNCHANGED <<documents, known, vars>>

AskedEnv(req) == IF req.env = Absent THEN DefaultEnv ELSE req.env

(* Mutant: the allowlist of a token is taken for the open path too, and an *)
(* environment is not looked up.                                           *)
OpenPathUnchecked(s) ==
  /\ h[s].pc = "open"
  /\ Aim(s, Target(AskedEnv(h[s].req), IndexOf(h[s].req), {}))
  /\ UNCHANGED <<documents, known, vars>>

(* resolve_target: the environment must be there, and not be reserved.     *)
OpenPath(s) ==
  /\ h[s].pc = "open"
  /\ IF AskedEnv(h[s].req) \in seenEnvs \ Reserved
     THEN Aim(s, Target(AskedEnv(h[s].req), IndexOf(h[s].req), {}))
     ELSE Answer(s, 400)
  /\ UNCHANGED <<documents, known, vars>>

-----------------------------------------------------------------------------
(* The handlers.                                                           *)

(* A parsed body as items, all of the request's index.                     *)
Plain(out, index) ==
  Items([i \in DOMAIN out.events |-> Item(index, out.events[i])], out.errors)

(* The lines of /api/ingest: any JSON value is an event, to be refused     *)
(* later when it is no object.                                             *)
NdjsonItems(body, index) ==
  LET rows == Nonblank(body)
      read == SelectSeq(rows, LAMBDA line : line \in DOMAIN Json)
  IN  Items([i \in DOMAIN read |-> <<index, Json[read[i]]>>], Len(rows) - Len(read))

ItemsOf(req, index) ==
  CASE req.proto = "ingest" -> NdjsonItems(req.body, index)
    [] req.proto = "hec" -> ParseHec(req.body, index)
    [] req.proto = "es" -> ParseEsBulk(req.body, index)
    [] req.proto = "otlp" -> ParseOtlpLogs(req.body, index)
    [] req.proto = "otlp_proto" -> ParseOtlpLogsProto(req.body, index)
    [] req.proto = "loki" -> ParseLokiPush(req.body, index)
    [] OTHER -> Plain(ParseBody(req.proto, req.body, req.multiline), index)

(* What a body decodes to is a list.                                       *)
ASSUME DecodersAssumption ==
  \A s \in Shipper : \A req \in Requests[s] : Len(ItemsOf(req, IndexOf(req)).items) \in Nat

Decoded(s, got) ==
  IF got.ok
  THEN Become(s, [h[s] EXCEPT !.pc = "send", !.items = got.items, !.parseErrors = got.errors])
  ELSE Answer(s, 400)

ParseRequest(s) ==
  /\ h[s].pc = "parse"
  /\ Decoded(s, ItemsOf(h[s].req, h[s].target.index))
  /\ UNCHANGED <<documents, known, vars>>

ItemNow(s) == h[s].items[h[s].at]

IndexIn(item) == ResolveIndexTemplate(item[1], item[2])
IndexNow(s) == IndexIn(ItemNow(s))

RowNow(s) ==
  [from |-> s, try |-> h[s].try, at |-> h[s].at,
   part |-> <<h[s].target.env, IndexNow(s), EventDay(ItemNow(s)[2][2], Today)>>]

Counted(s, what) ==
  Become(s, [h[s] EXCEPT !.at = @ + 1, !.out = [h[s].out EXCEPT ![what] = h[s].out[what] + 1]])

Sending(s) == h[s].pc = "send" /\ h[s].at <= Len(h[s].items)

IsRow(s) == ItemNow(s)[2][1] = "obj"

MayGo(target, item) == target.allowed = {} \/ IndexIn(item) \in target.allowed
Allowed(s) == MayGo(h[s].target, ItemNow(s))

(* submit_routed: an item that goes nowhere.                               *)
Pass(s) ==
  /\ Sending(s)
  /\ \/ ~Allowed(s) /\ Counted(s, "rejected")
     \/ Allowed(s) /\ ~IsRow(s) /\ Counted(s, "rowErrors")
     \/ IsRow(s) /\ Allowed(s) /\ ~open /\ Counted(s, "writeErrors")
  /\ UNCHANGED <<documents, known, vars>>

SendRow(s) ==
  /\ Sending(s) /\ IsRow(s) /\ Allowed(s)
  /\ IF h[s].req.api THEN SubmitBlocking(RowNow(s)) ELSE Submit(RowNow(s))
  /\ UNCHANGED <<documents, known>>

(* Mutant: the rest of the batch is tried all the same.                    *)
SubmitGoesOn(s) ==
  /\ SendRow(s)
  /\ IF Room THEN Counted(s, "ingested") ELSE Become(s, [h[s] EXCEPT !.at = @ + 1, !.status = 429])

(* An item the writer takes: a request of the API waits for room; a shim   *)
(* that finds the queue full stops there and answers that it is busy.      *)
SubmitRow(s) ==
  /\ SendRow(s)
  /\ IF Room THEN Counted(s, "ingested") ELSE Answer(s, 429)

Finish(s) ==
  /\ h[s].pc = "send" /\ h[s].at > Len(h[s].items)
  /\ Answer(s, IF h[s].req.proto = "loki" THEN 204 ELSE 200)
  /\ UNCHANGED <<documents, known, vars>>

(* The API decodes and submits on a thread of its own.  When that dies,    *)
(* /api/ingest answers as of an empty request, /api/ingest/raw refuses it, *)
(* and the rows it had submitted stay.                                     *)
TaskDies(s) ==
  /\ h[s].pc \in {"parse", "send"} /\ h[s].req.api
  /\ Become(s, [h[s] EXCEPT !.pc = "died", !.status = IF h[s].req.proto = "ingest" THEN 200 ELSE 400])
  /\ UNCHANGED <<documents, known, vars>>

(* What the body of an answer says beside its status: the API's and HEC's  *)
(* the counters, Elasticsearch's the items and whether there were errors,  *)
(* OTLP's and Loki's nothing.                                              *)
Uncounted == {"es", "otlp", "otlp_proto", "loki"}

Reply(x) ==
  LET failures == x.out.rejected + x.out.rowErrors + x.out.writeErrors
  IN  CASE x.pc = "died" /\ x.status = 200 -> [ingested |-> 0, errors |-> 0]
        [] x.pc = "done" /\ x.status = 200 /\ x.req.proto \notin Uncounted ->
             [ingested |-> x.out.ingested, errors |-> x.parseErrors + failures]
        [] x.pc = "done" /\ x.status \in {200, 429} /\ x.req.proto = "es" ->
             [items |-> x.out.ingested,
              failed |-> x.status = 429 \/ x.out.rowErrors > 0 \/ x.out.writeErrors > 0]
        [] OTHER -> <<>>

(* The shipper sends the same request again.                               *)
Resend(s) ==
  /\ h[s].pc = "done" /\ h[s].status = 429 /\ h[s].try < MaxTries
  /\ Admit(s, h[s].req, h[s].try + 1)

Handle(s) ==
  \/ ReadToken(s) \/ OpenPath(s) \/ ParseRequest(s)
  \/ Pass(s) \/ SubmitRow(s) \/ Finish(s) \/ TaskDies(s)

Administer ==
  \/ \E here \in BOOLEAN : ChangeAuth(here) \/ CreateEnv(here) \/ DeleteEnv(here)
  \/ Reread

WriterStep == Write \/ Tick \/ DropSenders \/ FlushStep \/ \E f \in flushing : FlushPanics(f)

FrontNext ==
  \/ \E s \in Shipper : ReadPolicy(s) \/ Handle(s) \/ Resend(s)
  \/ Administer
  \/ WriterStep /\ UNCHANGED front

everything == <<front, vars>>

(* The writer's own fairness: the handlers owe nothing.                    *)
FrontFairness ==
  /\ WF_everything(Write /\ UNCHANGED front)
  /\ WF_everything(Tick /\ UNCHANGED front)
  /\ WF_everything(FlushStep /\ UNCHANGED front)

-----------------------------------------------------------------------------
(***************************************************************************)
(* What a shipper may count on.                                            *)
(***************************************************************************)

RowsNow(s) == {r \in Accepted \cup shed : r.from = s /\ r.try = h[s].try}
Taken(s) == RowsNow(s) \ shed

(* What a copy of the documents permits a request.                         *)
ByToken(a, req, part) ==
  /\ req.scheme # "none"
  /\ \E t \in a.tokens :
       /\ t.enabled /\ t.secret = req.token /\ part[1] = t.env
       /\ t.indexes = {} \/ part[2] \in t.indexes

ByDefault(a, e, req, part) ==
  /\ ~a.require /\ req.scheme # "bearer"
  /\ part[1] = AskedEnv(req)
  /\ part[1] \in e \ Reserved

(* A row is accepted into an environment and an index only if the policy,  *)
(* the tokens and the environments let its request write there, in copies  *)
(* of the documents this node had while it handled the request - the two   *)
(* perhaps of different moments - whatever the event's templated index and *)
(* the headers say, and whatever admins change meanwhile.                  *)
ScopeHolds ==
  \A s \in Shipper : \A r \in Taken(s) :
    /\ \E k \in known[s] : EnabledIn(k[1], h[s].req)
    /\ \E k, l \in known[s] : \/ ByToken(k[1], h[s].req, r.part)
                              \/ ByDefault(k[1], l[2], h[s].req, r.part)

Arrived(s, i) == \E r \in Taken(s) : r.at = i
Barred(s, i) == ~MayGo(h[s].target, h[s].items[i])
Unfit(s, i) == h[s].items[i][2][1] # "obj" \/ ~open

(* A shipper may go by its answer, as far as its protocol's answer goes,   *)
(* unless the task of its request died.                                    *)
(*   - The API and HEC say how many items were accepted, and in `errors`   *)
(*     how many were not: none is dropped in silence.                      *)
(*   - Elasticsearch is told how many were accepted, and when there were   *)
(*     no errors each item was but those the token's indexes bar, which    *)
(*     are dropped in silence.                                             *)
(*   - With any success, of OTLP and Loki too, each item was accepted      *)
(*     unless it is barred, is no object or the writer is gone.            *)
(*   - Told to come back, the same of the items before the refused one,    *)
(*     and nothing after it was tried.  Refused, nothing was accepted.     *)
AnswerHonest ==
  \A s \in Shipper : h[s].pc = "done" =>
    LET said == Reply(h[s]) IN
    /\ "ingested" \in DOMAIN said =>
         /\ said.ingested = Cardinality(Taken(s))
         /\ said.errors = h[s].parseErrors + (Len(h[s].items) - Cardinality(Taken(s)))
    /\ "items" \in DOMAIN said =>
         /\ said.items = Cardinality(Taken(s))
         /\ ~said.failed => \A i \in 1..Len(h[s].items) : Arrived(s, i) \/ Barred(s, i)
    /\ h[s].status \in {200, 204} =>
         \A i \in 1..Len(h[s].items) : Arrived(s, i) \/ Barred(s, i) \/ Unfit(s, i)
    /\ h[s].status = 429 =>
         /\ \A i \in 1..(h[s].at - 1) : Arrived(s, i) \/ Barred(s, i) \/ Unfit(s, i)
         /\ {r.at : r \in RowsNow(s)} \subseteq 1..h[s].at
         /\ \E r \in shed : r.from = s /\ r.try = h[s].try /\ r.at = h[s].at
    /\ h[s].status \in {400, 401, 403} => RowsNow(s) = {}

(* What a body decodes to is what its sender said: [index, row, off] of    *)
(* each event, off the milliseconds that its time may be off.              *)
AsSaid(said, errors, items) ==
  /\ errors = said.errors /\ DOMAIN items = DOMAIN said.rows
  /\ \A i \in DOMAIN items :
       LET row == JsonToRow(items[i][2][2], DefaultSource)
           meant == said.rows[i]
       IN  /\ IndexIn(items[i]) = meant.index
           /\ row = [meant.row EXCEPT !.ts = row.ts]
           /\ row.ts - meant.row.ts \in -meant.off..meant.off

(* Every format and protocol brings the sender's events through: the rows  *)
(* a body decodes to are those its sender wrote, in order, each with its   *)
(* index, its message, its other fields and its time in milliseconds - one *)
(* off at most where the number the sender wrote for it is not an f64, as  *)
(* nanoseconds and fractions of a second are not.                          *)
RowsAsSaid ==
  \A s \in Shipper :
    h[s].pc = "send" /\ h[s].at = 1 /\ h[s].req.said # Absent =>
      AsSaid(h[s].req.said, h[s].parseErrors, h[s].items)
=============================================================================
