------------------------------ MODULE EventStore ------------------------------
(***************************************************************************)
(* Events at rest and what a query asks of them: the write path stores     *)
(* rows in blocks (indexer/ingest.rs, engine/block/writer.rs), compaction  *)
(* merges blocks, a query is planned over the partitions                   *)
(* (search/scatter.rs) and answered block by block, from a cache of        *)
(* earlier answers where there is one (engine/block/query.rs, cache.rs).   *)
(* What a search makes of the answers is in SearchAnswer.tla.              *)
(*                                                                         *)
(* A string is a small number whose order is the order of the strings;     *)
(* times are small numbers, TicksPerDay of them to a day, and 0 is the     *)
(* epoch.  One environment is the users', one is the system's.  The        *)
(* search language comes in through the last three constants, which        *)
(* Search.tla defines.                                                     *)
(***************************************************************************)
EXTENDS Integers, SequencesExt, FiniteSetsExt

CONSTANTS
  TicksPerDay,
  Today,               \* the day of an event that carries no time
  MaxBlocks,           \* bound: blocks ever written
  Batches,             \* the sequences of events the writer flushes
  CachedQuery,         \* the queries whose answers the model's cache may hold
  None,                \* an absent bound, scope, field or value
  PlannedNode(_),      \* the filter a query asks of every block
  PlannedPatterns(_),  \* the indexes its expression names
  Eval(_, _)           \* the rows of a block that a filter selects

VARIABLES
  manifest,   \* the blocks of each partition, in manifest order
  arrived,    \* the events ingested so far
  written,    \* the number of blocks ever written: the next identity
  cache       \* the block cache: identity and filter to matching rows

store == <<manifest, arrived, written, cache>>

UserEnv == 1
SystemEnv == 2

Events == UNION {ToSet(es) : es \in Batches}

ASSUME DaysAssumption == TicksPerDay \in Nat \ {0} /\ Today \in Nat

ASSUME NoneAssumption == None \notin Int

(* An event is flushed once; its time and its source are numbers if it has *)
(* them.                                                                   *)
ASSUME BatchesAssumption ==
  /\ \A es \in Batches : es \in Seq(Events) /\ IsInjective(es)
  /\ \A e \in Events : /\ e.ts \in Int \cup {None} /\ e.source \in Int \cup {None}
                       /\ e.env \in {UserEnv, SystemEnv} /\ e.index \in Int
                       /\ e.n \in Seq(Int)

StoreInit ==
  /\ manifest = <<>>
  /\ arrived = {}
  /\ written = 0
  /\ cache = {}

-----------------------------------------------------------------------------
(* Small helpers.                                                          *)

(* S in the order in which Before(x, y) says that x comes first.           *)
Ranked(S, Before(_, _)) ==
  [i \in 1..Cardinality(S) |->
     CHOOSE x \in S : Cardinality({y \in S : Before(y, x)}) = i - 1]

(* A sequence sorted by a key, equal keys in their old order.              *)
StableSort(s, Key(_)) ==
  LET order == Ranked(DOMAIN s,
                 LAMBDA i, j : \/ Key(s[i]) < Key(s[j])
                               \/ Key(s[i]) = Key(s[j]) /\ i < j)
  IN  [i \in DOMAIN s |-> s[order[i]]]

(* The elements of s at the given places, in their old order.              *)
AtPlaces(s, places) ==
  LET order == Ranked(places, LAMBDA i, j : i < j)
  IN  [i \in DOMAIN order |-> s[order[i]]]

-----------------------------------------------------------------------------
(* From an event to a row: its time (the epoch when it has none), its      *)
(* words, its source, and of a field that holds a list the first number,   *)
(* which the value column keeps, and the others, which are only indexed.   *)

Day(t) == t \div TicksPerDay

Row(e) ==
  [event |-> e,
   ts |-> IF e.ts = None THEN 0 ELSE e.ts,
   words |-> e.words,
   source |-> e.source,
   first |-> IF e.n = <<>> THEN None ELSE e.n[1],
   extra |-> IF e.n = <<>> THEN {} ELSE ToSet(Tail(e.n))]

KeyOf(e) ==
  [env |-> e.env, index |-> e.index,
   day |-> IF e.ts = None THEN Today ELSE Day(e.ts)]

Keys == DOMAIN manifest
Blocks(k) == manifest[k]

(* The writer sorts a block's rows by time.                                *)
NewBlock(id, rows) ==
  [id |-> id, rows |-> StableSort(rows, LAMBDA r : r.ts)]

WithPartition(k, blocks) ==
  [x \in Keys \cup {k} |-> IF x = k THEN blocks ELSE manifest[x]]

(* A flush of the events of one partition: one more block.                 *)
Ingest(es) ==
  /\ es # <<>> /\ written < MaxBlocks
  /\ \A i \in DOMAIN es : es[i] \notin arrived /\ KeyOf(es[i]) = KeyOf(es[1])
  /\ LET k == KeyOf(es[1])
         block == NewBlock(written, [i \in DOMAIN es |-> Row(es[i])])
     IN  manifest' = WithPartition(k, IF k \in Keys THEN Append(Blocks(k), block)
                                                    ELSE <<block>>)
  /\ arrived' = arrived \cup ToSet(es)
  /\ written' = written + 1
  /\ UNCHANGED cache

(* What a compaction reads back of a row: its columns, not its indexes.    *)
ReadBack(r) == [r EXCEPT !.extra = {}]

Merged(id, group) ==
  NewBlock(id, FlattenSeq([i \in DOMAIN group |->
                 [j \in DOMAIN group[i].rows |-> ReadBack(group[i].rows[j])]]))

(* Compaction of the blocks at the given places of a manifest.             *)
Compact(k, places) ==
  /\ Cardinality(places) > 1 /\ written < MaxBlocks
  /\ LET group == AtPlaces(Blocks(k), places)
         kept == AtPlaces(Blocks(k), DOMAIN Blocks(k) \ places)
     IN  manifest' = [manifest EXCEPT ![k] = Append(kept, Merged(written, group))]
  /\ written' = written + 1
  /\ UNCHANGED <<arrived, cache>>

-----------------------------------------------------------------------------
(* One block: the rows a filter and a time window select.                  *)

AllRows(b) == DOMAIN b.rows

After(t, start) == start = None \/ t >= start
Before(t, end) == end = None \/ t <= end

TimeRows(b, q) == {i \in AllRows(b) : After(b.rows[i].ts, q.start) /\ Before(b.rows[i].ts, q.end)}

(* The block's first and last time against the window.                     *)
Overlaps(b, q) ==
  After(b.rows[Len(b.rows)].ts, q.start) /\ Before(b.rows[1].ts, q.end)

(* Mutant: the entry holds the answer of the query that made it.           *)
EntryOfWindow(b, node, q) ==
  [id |-> b.id, node |-> node, rows |-> Eval(b, node) \cap TimeRows(b, q)]

(* What a query leaves in the cache for a block: the rows its filter       *)
(* selects, whatever its window.  No filter is never cached.               *)
Entry(b, node, q) == [id |-> b.id, node |-> node, rows |-> Eval(b, node)]

Cached(b, node) == {c \in cache : c.id = b.id /\ c.node = node}

EvalCached(b, node) ==
  IF Cached(b, node) = {} THEN Eval(b, node)
  ELSE (CHOOSE c \in Cached(b, node) : TRUE).rows

Matched(b, node, q) ==
  IF Overlaps(b, q) THEN EvalCached(b, node) \cap TimeRows(b, q) ELSE {}

-----------------------------------------------------------------------------
(* Planning: the partitions a query reads and the tree it asks of them.    *)

AnyName == 0   \* the pattern that matches every name
Matches(pattern, x) == pattern = AnyName \/ pattern = x

Allowed(rules, k) ==
  \E r \in rules : Matches(r.env, k.env) /\ \E p \in r.indexes : Matches(p, k.index)

(* The catalog's filter: scope, index patterns and whole days.             *)
FilterPartitions(env, patterns, q) ==
  {k \in Keys : /\ env = None \/ k.env = env
                /\ patterns = {} \/ \E p \in patterns : Matches(p, k.index)
                /\ q.start = None \/ k.day >= Day(q.start)
                /\ q.end = None \/ k.day <= Day(q.end)}

(* Patterns of the expression win over the request's; without a scope the  *)
(* system's environment stays out; an empty list of rules allows all; a    *)
(* list of partitions can only narrow.                                     *)
PlannedOf(q, own) ==
  LET patterns == IF own # {} THEN own ELSE IF q.index = None THEN {} ELSE {q.index}
  IN  {k \in FilterPartitions(q.env, patterns, q) :
         /\ q.env = None => k.env # SystemEnv
         /\ q.allow = {} \/ Allowed(q.allow, k)
         /\ q.explicit = None \/ k \in q.explicit}

Planned(q) == PlannedOf(q, PlannedPatterns(q))

(* The catalog's order: environment, index, and the newest day first.      *)
PlannedKeys(q) ==
  Ranked(Planned(q), LAMBDA k, l :
    \/ k.index < l.index /\ k.env = l.env
    \/ k.env = SystemEnv /\ l.env = UserEnv
    \/ k.env = l.env /\ k.index = l.index /\ k.day > l.day)

-----------------------------------------------------------------------------
(* A query fills the cache for the blocks it evaluates; what the cache has *)
(* no room for it drops.                                                   *)

Read(q) == {b \in UNION {ToSet(Blocks(k)) : k \in Planned(q)} : Overlaps(b, q)}
NewEntries(bs, node, q) == {Entry(b, node, q) : b \in {c \in bs : Cached(c, node) = {}}}

Ask(q) ==
  /\ PlannedNode(q).op # "none"
  /\ cache' = cache \cup NewEntries(Read(q), PlannedNode(q), q)
  /\ UNCHANGED <<manifest, arrived, written>>

Evict(c) ==
  /\ cache' = cache \ {c}
  /\ UNCHANGED <<manifest, arrived, written>>

StoreNext ==
  \/ \E es \in Batches : Ingest(es)
  \/ \E k \in Keys : \E places \in SUBSET (DOMAIN Blocks(k)) : Compact(k, places)
  \/ \E q \in CachedQuery : Ask(q)
  \/ \E c \in cache : Evict(c)

StoreSpec == StoreInit /\ [][StoreNext]_store
=============================================================================
