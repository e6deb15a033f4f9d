# HeliosLogs: specifications, model checks and proofs

HeliosLogs is a log store: rows arrive over HTTP, syslog or from polled files and
buckets, are buffered, and are written as immutable *blocks* into an object store
(local disk, S3, or both). A *manifest* per partition (env / index / day) names the
live blocks. Nothing is locked between nodes: every shared document is changed by a
conditional put, and every task has to live with what the others did meanwhile.

This directory holds TLA+ modules of the parts where that is hard to get right, the
TLC configurations that check them on small instances, and TLAPS proofs of their
safety for any number of tasks, blocks, rows, files, users and requests.
`PROJECT.json` maps every definition to the lines it models, every property to the
mutant that breaks it, and lists the hazards the properties are for. Paths below are
relative to `src/src/`.

    tlc -workers 2 -config ManifestCAS_safety.cfg MCManifestCAS.tla   # a run
    tlapm Store_proofs.tla                                            # a proof module

## 1. The system

| component | state it keeps | operations | talks to |
|---|---|---|---|
| `BlockStore` manifest (`engine/block/store.rs`) | generations `<n>.json` of a manifest | `try_update` (list, get, `put_if_absent` of n+1, retry), `load_manifest`, `gc_old_generations` | object store; every other component through it |
| Partition: blocks (`store.rs`, `compact.rs`, `query.rs`) | block objects, live ids | `append_block`, `compact_partition`, `gc_orphan_blocks`, queries | manifest requests, block puts, gets and deletes |
| Block format (`writer.rs`, `codec.rs`, `reader.rs`) | one object per block | shred, write sections, read back, look up terms | ingest, compaction, queries |
| Replication (`sync.rs`, `pending.rs`) | a local and a shared manifest, `pending` file | uploader, puller, seeder loops; `append_block` on the local store | both stores; the compactor of the shared store |
| Retention (`retention.rs`) | tombstones (empty manifests) | sweep, reap, purge of empty local partitions | manifests of both stores, pending file, a named lease |
| Ingest writer (`ingest.rs`) | bounded channel, staging map, flush slots | `submit`, `submit_blocking`, `run_writer`, `flush_batch` | handlers, listeners and pull sources feed it; it calls `append_block` |
| Ingest front (`http/ingest.rs`, `http/shims.rs`, `indexer/parse`) | a request in flight | authorize, decode, route, submit, answer | ingest-auth and environment documents; the writer |
| Syslog (`syslog/`) | listeners, routers, frame buffers | supervise, bind, frame, parse, route | settings documents; the writer |
| Pull sources (`source/mod.rs`) | source document with lease and switch, checkpoint document | supervisor tick, `source_try_lease`, walk, `source_checkpoint_put`, finish; update, reset, delete, run-now | control documents; `submit_blocking` |
| Control documents (`control/*.rs`) | versioned JSON documents, TTL cache | `mutate_doc`, cached reads, deletes, leases | all configuration, accounts, monitors, sources |
| Accounts (`http/auth.rs`, `http/users.rs`, `control`) | accounts with a credentials version | sign-in, single sign-on, renewal, sign-out, password change, administration, reset at boot | one control document through the cache |
| Monitors (`monitor/mod.rs`) | lease, last state, alerts | tick, run, alert, finish; run-now, re-arm, disable, delete | control documents, queries |
| Search (`search/`, `engine/block/query.rs`, `cache.rs`) | none, and a bounded cache of evaluations | parse, plan, evaluate, merge; histogram, facets, pipelines, field discovery | manifests and blocks |
| Object stores (`objstore.rs`) | objects | `put_if_absent`, list, get, delete; local-first fill | everything above |
| Agent, MCP, LLM clients, encryption, notifications, runtime configuration, self logs | none that is shared | calls to the outside, transformations of bytes | |

What makes each hard, and what makes it correct:

* **Manifest.** Several nodes commit without a lock while each winner deletes old
  generations. Correct: one atomic manifest, no commit lost or overwritten, a retry
  only after somebody's progress.
* **Partition.** Compactors race for the same sources, die between swap and deletes,
  and collect "orphans" judged on a manifest that is already old; queries run across
  all that. Correct: every acknowledged row live exactly once, no manifest entry
  without object, orphans go at last, queries read nothing twice.
* **Replication.** Four tasks compare two manifests and a pending file they read at
  different moments; any call fails, the process dies anywhere. Correct: an
  acknowledged row is always readable, reaches the shared store, and stays.
* **Retention.** What is dropped on one node is still named, held and owed by others.
  Correct: a dropped block is not brought back, and everything expired goes at last.
* **Ingest.** Three reads of two documents that admins change, a batch accepted row by
  row before a bounded queue, partial failure, shutdown; a body in any of a dozen
  formats. Correct: a row lands only where its sender may write, the answer says what
  became of it, what is accepted is kept and lands, every format means the same rows.
* **Syslog.** Frames cut anywhere by the network, listeners rebound under open
  connections, settings read key by key. Correct: the same records for every sequence
  of chunks, and the listeners come to be as they are set.
* **Pull sources.** A lease with a timeout, a checkpoint that follows what was
  submitted, users who disable, reset and delete in the middle. Correct: one run at
  a time, no line skipped, none doubled without a failure, progress after crashes.
* **Control documents.** Compare-and-set with lost replies, and a cache filled by
  readers that were slow. Correct: changes are atomic, staleness is bounded.
* **Accounts.** A token is nothing stored, only good while it carries the account's
  version; sign-ins, bumps and renewals interleave. Correct: what is revoked stays out.
* **Monitors.** A run acts on what a list said before its lease was won, and dies
  anywhere. Correct: no breach on record without alert, no second alert for one breach,
  a due monitor runs at last.
* **Search.** Answers come from merged and unmerged blocks, from a cache, with paging,
  sampling caps and pruning. Correct: exactly the rows that match, true lower bounds
  where it samples.

## 2. Modules

| module | models | key abstraction |
|---|---|---|
| `Floats` | integers as f64s: exact up to a bound, then in steps of 2, 4, 8 | f64s within the integers of a model |
| `AtomicManifest` | what a manifest promises: single indivisible changes | abstract specification |
| `ManifestCAS` | `try_update`, `current`, `latest_gen`, `gc_old_generations`, one object-store call per step | a manifest is a set of ids; a request is (remove, add, guarded) |
| `RowSet` | what a partition promises: a set of rows that only grows, read once by a query | abstract specification |
| `BlockPartition` | appends, compaction, orphan collection, queries over one partition | a manifest request is one step, justified by `ManifestCAS`; a block is the set of batches written into it |
| `BlockSync` | a node's ingest, uploader, puller, seeder and pending file against the shared store and its compaction | as above; manifests count entries, so that doubles show |
| `Retention` | the hourly sweep beside `BlockSync` (extends it): forget, empty, purge, reap | time is the age of the partition; `Elsewhere` are nodes of which only the sweeper is looked at |
| `AtomicDoc` | what a control document promises | abstract specification |
| `ControlDoc` | `mutate_doc` and deletes on both kinds of store, and the cache of each node | the version is the stored bytes; ages instead of clocks |
| `Accounts` | accounts and sessions | a document change is one step, since `ControlDoc` implements `AtomicDoc` |
| `MonitorRun` | the schedulers of one monitor and its users | as above; an AI run is one step |
| `SourcePull` | supervisors, lease, walk, checkpoint, users of one source | a file is its number of complete lines |
| `IngestWriter` | channel, staging loop, slots, flush tasks, shutdown | rows are model values; the clock is one flag `due` |
| `Formats`, `RawParse`, `Shims` | decoders: text formats, appliance formats and detection, push protocols | a line is a sequence of characters, a word whose letters nothing looks at is one character; `serde_json` and dates are constants |
| `IngestFront` | authorization, decoding and submission of requests, administration of tokens, policy and environments | extends `Shims` and `IngestWriter` |
| `Syslog` | supervisor, listeners, connections, framing, routing | a chunk is a sequence of characters |
| `Ingest` | `IngestFront` and `Syslog` side by side | they meet only in the writer's queue |
| `Corpus` | what senders mean: the same events written in every format | reference definition for the decoders |
| `QueryLang` | parser from tokens to tree, `index:` selectors | a word is a record, not characters |
| `EventStore` | flushes, merges, planning of a query over partitions, evaluation block by block, the cache | strings are numbers in their order; times are ticks; the search language is three constants (`PlannedNode`, `PlannedPatterns`, `Eval`) |
| `SearchAnswer` | what `search` and `histogram` make of the blocks: counts, newest rows, merge, page; what the answer should be | what an expression means is a constant (`Meant`) |
| `Aggregate` | the terms aggregation: values kept per partition, sampling, scaling | |
| `Search` | the search language: the filter a query is parsed to, its evaluation on a block, what it means of a row | gives the constants above their values (`Search.cfg`) |
| `Pipeline` | the stages of piped queries | a cell is a number in ten-thousandths, a string or nothing |
| `BlockFormat` | shredding, sections, codecs, bloom filters, dictionaries, postings, readers | a byte is an item of a sequence; words and their parts are numbers, an f64 a number of halves, an i64 rounded to one where the code makes it one |
| `Discover` | catalog of fields, sampling discovery | extends `BlockFormat` |
| `MC*` | the instances TLC runs: model values, offered requests, corpora, symmetry | |
| `*_proofs` | inductive invariants and theorems | |

State to code, in short:

* `ManifestCAS`: `gens`/`content` are the `<n>.json` objects, `base` and `seen` what
  `current()` returned, `tries` the loop counter of `try_update`, `victims` the list
  of `gc_old_generations`. `FailOrCrash` is an error return or a dead process at any
  point; `PutReplyLost` a put that took effect and was answered with an error or, on
  the S3 client's own retry, a 412. The legacy `manifest.json` is `content[0]`.
* `BlockPartition`: `live` is the manifest, `stage[x]` where a batch is in
  `append_block`, `cpc`/`todo`/`group`/`new`/`victims` a compactor's pass, `old` the
  blocks past `ORPHAN_MIN_AGE`. Passes visit a partition once it has a manifest
  (`HasManifest`). A query is `Query`, `OpenBlock`..., `QueryEnds`.
* `BlockSync`: `manifest[s]`, `objects[s]` for the local and the shared store,
  `pending[n]` the file of `pending.rs`; the `u*`, `p*`, `s*` variables are the locals
  of the three loops. `Compact` is a whole compaction up to its commit; `DeleteMerged`
  its deletes. The constant `Faults` names which calls may fail: `"put"`, `"delete"`,
  `"read"`, `"pending"`, a process that dies (`"crash"`), an upload's commit that is
  applied and answered with an error (`"reply"`), and a merge's swap that is applied
  and answered as refused (`"swap"`).
* `Retention`: `rpc`, `rstore`, `rids` are the sweeper's position, the store it empties
  and the blocks it drops; `buried` is a history of dropped blocks that nothing in
  flight may still bring. The lease of the sweep stays with one node.
* `ControlDoc`: `stored` is the document (bytes), `cache[n]` a node's entry with its
  age; `pc`, `seen`, `tries`, `lag` and `got` are the locals of a change or a cached
  read, `lock` is `write_lock`, `gone` a history of the values replaced less than
  `Ttl + MaxLag` ticks ago. `config` says which store it is, whether the document is
  sealed, and whether the store loses replies.
* `Accounts`: `users` is `users.json`, `tokens` every token handed out (a history: the
  server keeps none), `call[c]` the locals of a handler. A session is a chain of
  tokens. `cut`, `ended` remember what was asked to be revoked.
* `MonitorRun`: `mon` is the monitor's document, `snap[n]` the monitor as a tick listed
  it, `run[r]` the locals of a run. Histories: `alerted`, an alert was raised since the
  monitor was last seen clear or re-armed; `cut`, the last run to raise one could not
  record it; `serial`, every run so far began on the monitor as the one before had
  left it, and was alone.
* `IngestWriter`: `queue` (a set: the code's order never reaches a property),
  `staging`, `batch` (taken from staging, waiting for a slot), `flushing`, and the
  fates `stored`, `failed`, `shed` (refused).
* `IngestFront`: `auth` and `envs` are the documents, `seenAuth` and `seenEnvs` this
  node's cached copies, `h[s]` the handler of shipper `s` with the policy it read first
  (`auth`), its target, its items and its counters; what its protocol makes of them in
  the answer is `Reply`, and `TaskDies` ends the blocking task before it. `known[s]` is
  a history: the pairs of copies the node had while the request was served.
* `Syslog`: `settings` as stored, `writes` what a request has still to store,
  `running`/`socks`/`router` what the supervisor made of them, `conn[c]` a connection:
  how much of its sender's stream was read (`at`), what of it is in the buffer (`buf`),
  and the messages told so far (`lines`, a history).
* `SourcePull`: `enabled`, `running`, `stuck`, `due` are the source document, `mark`
  the checkpoint document, `ckpt[u]`, `todo[u]`, `seen[u]`, `at[u]` the locals of a
  walk. Histories: `sent`, how often each line was submitted since the last reset;
  `late`, that reset dropped the checkpoint under a run that had loaded it.
* `EventStore`, `BlockFormat`, `Discover`: the state is the store (blocks and what was
  ingested, `made`) and the evaluation cache; answers are operators, compared in
  invariants with definitions over the events themselves. An object's bytes are
  computed from its rows (`Object`) and read back in the invariant.

How they compose: `ManifestCAS` implements `AtomicManifest` (checked, and proved as
`Implements`), so `BlockPartition`, `BlockSync` and `Retention` take a manifest request
as one step. `BlockPartition` in turn implements `RowSet` (`ImplementsRowSet`): what
appends are acknowledged for and queries read needs no word of blocks. `ControlDoc`
implements `AtomicDoc` (checked, and proved as
`ImplementsAtomicDoc`), so `Accounts`, `MonitorRun`, `SourcePull` and `IngestFront` take
a change of a document as one step and a cached read as a read of an older copy.
`Retention` extends `BlockSync`; `Ingest` puts `IngestFront` (with `IngestWriter`
behind it) and `Syslog` together, and ends where `append_block` begins
(`BlockPartition.WriteBlock`, `BlockSync.WriteBlock`). `SourcePull` ends at
`submit_blocking`, where `IngestWriter.SubmitBlocking` begins. `SearchAnswer` and
`Aggregate` extend `EventStore` and leave the search language open, so that what they
compute can be proved about; `Search` extends them with `QueryLang`. `Pipeline` and
`Discover` sit on `Search`, whose rows `BlockFormat` turns into bytes and back.

## 3. Runs

All runs pass. Each property has a mutant of a mapped definition that breaks it under
the run's own configuration (`PROJECT.json`, "mutants").

| run | shows | instance | states |
|---|---|---|---|
| `ManifestCAS_safety` | two tasks, all request kinds, lost replies, failures: `NoStaleWin` (a put wins only on the current manifest), `NewestKept`, and the refinement `IsAtomicManifest` | 2 tasks, 2 ids, keep 2, 4 generations, 2 tries | |
| `BlockPartition_safety` | 2 racing compactors with collections and crashes, 1 query: `NoDangling`, `ExactlyOnce`, and the refinement `IsRowSet` (an append is acknowledged where its rows are added, nothing else changes them, a query reads each once) | 2 batches, 4 ids | |
| `BlockPartition_live` | `OrphansCollected` under fairness, with lost replies, failed deletes and crashes: in a partition that has a manifest | 2 batches, 3 ids, 1 compactor | |
| `BlockSync_safety` | `AckedNeverLost`, `OwedStaysReadable`, `SharedKept` with crashes, failing deletes, lost replies to uploads, and the seeder | 1 node and the shared store, 2 batches, 3 ids | 969,897 |
| `BlockSync_live` | `EventuallyShared`, `EventuallyMirrored`, and `SharedOnce`, with failing puts and deletes, where nothing crashes or seeds and no reply is lost | the same | |
| `Retention` | `TombstoneHolds`, `EventuallyDropped` | 1 node, 1 node that only sweeps, 1 batch, 1 block | 104,177 |
| `ControlDoc` | `BoundedStaleness`, and the refinement `IsAtomicDoc` | 2 nodes, 2 tasks, 1 reader, 2 retries, TTL 2, lag 1; S3 sealed or not, flaky or not, and a file system | 1,866,542 |
| `Accounts` | `OldPasswordOut`, `RevokedForGood` | 2 ids, 1 node, 2 calls, 3 passwords, 2 sessions, version 3 | 598,349 |
| `MonitorRun` | `BreachWasAlerted`, `NoRefire`, `EventuallyRuns` | 2 nodes, 2 runs, 2 faults | 328,694 |
| `SourcePull` | `OneRun`, `NothingSkipped`, `CrashResumesHere`, `SentOnce`, `EventuallySent` | 2 runs, 2 files, 2 lines, 1 failure or death | 860,854 |
| `Ingest` | requests: `ScopeHolds`, `AnswerHonest`, `RowsAsSaid`; writer: `AcceptedKept`, `CleanShutdown`, `AcceptedLands`; listener: `FramingExact`, `EventuallyAsSet` | below | 222,372 |
| `Search` | `SearchExact`, `AggregateSound`, `PipelineExact`, `BlockExact`, `FieldsExact` | 5 events, 8 batches, 4 blocks, the queries of `MCSearch` | 3,941 |

### Bounds, and why they are enough

* `MAX_CAS_RETRIES` is 100 and `KEEP_GENERATIONS` 3 in the code; the run takes 2 and
  2. Two tries reach both the retry and the exhaustion; two kept generations and four
  in all let every number be freed while a slow task still holds it. The theorems hold
  for all values.
* `ManifestCAS.MaxLag` says how many generations others may commit between a request's
  list and its put, and `LagAssumption` that this is at most `KEEP_GENERATIONS`. It is
  an assumption on timing, not a fact of the code: see section 6.
* Two batches give one merge of two blocks; the fourth id lets a second, racing merge
  (or a merge of the merged block) exist. Two compactors are the smallest race.
* One node suffices in `BlockSync`: its tasks race each other, the seeder and the
  compactor of the shared store, and nodes meet only in the shared manifest, whose
  requests are atomic. Ids are drawn fresh, as uuids are. The theorems are for any
  number of nodes.
* `Retention` needs one block: what counts is when it is dropped, named and held.
* `ControlDoc`: two changes and a delete race on two nodes, and a reader fills a cache
  from a third moment; time-to-live 2 tells "just expired" from "about to expire".
* `Accounts`: one account with all the bounds, or two with a single session and fewer
  versions (`CONSTRAINT FewerWithTwo`); two calls are the smallest race, the third
  password lets a token be two changes old.
* `SourcePull`: two files make "everything before it" and "not this one" different;
  two lines let a file grow between two runs; one failure or death at any step.
* `Ingest`: a queue of one row and one slot, so that a second row waits or is refused;
  `MaxRows` 2 fills a batch. The scenes are: an API client and a push protocol
  together without an admin; an agent with two edits of tokens, policy or
  environments; the corpus, 139 requests that write the same events in every format;
  a listener that is turned on, off and moved with one sender, with datagrams, and
  with streams framed in every way and cut anywhere (`MaxLine` 6, `MaxToken` 2).
  `Scale`, `UnitLimit` and `DayMillis` shrink the units of time stamps, `Fractions` and
  `ExactInt` what an f64 can tell apart, so that the corpus has times that are f64s and
  times that are not. `PortOverride` is absent; with a port the run passes too. One
  bind or one read of a setting fails; any write of one may.
* `Search`: `MaxScan` and `MaxGroups` are reached by the queries asked; `Radix`,
  `Width`, `WordBits`, `BitsPerTerm`, `BloomK` are the block format's radix, word sizes
  and filter parameters made small; `MaxDepth`, `MaxElems`, `CardinalityCap`,
  `SamplesKept` are the caps of shredding and discovery. `ExactInt` is 8 instead of
  2^53, so the events have integers that round to the same f64. `BlockExact` looks at
  the last block written, with the cache empty. `FiltersAssumption` of `MCSearch` has
  TLC check, for each query and each block of one or two rows, merged or not, that the
  parsed filter and patterns select the rows the expression means: the hypothesis of the
  theorems on search (section 4).
* Symmetry is used only in runs without temporal (liveness) properties.
* `CHECK_DEADLOCK FALSE` in `Ingest` (requests and rows are finite and the writer exits
  once its channel is closed), `SourcePull` (a deleted source has nothing left to do),
  `Accounts` (passwords, sessions and versions are used up), `Retention` (a dropped
  partition is gone for good) and `BlockPartition_live` (no compactor visits a partition
  without a manifest, so it rests when no batch is left to make one).

### Fairness

* `BlockPartition`: `run_compactor` loops for ever and catches errors, so each pass goes
  on (WF) and, since every error leads back to a new pass, a collection that is due
  again and again is reached (SF on `CompactEnds`, `GcLoad`, `GcDelete`). Time passes
  (WF on `Age`). An append ends, one way or the other.
* `BlockSync`: the loops of uploader and puller come back every interval (WF). A shared
  store that is asked again and again answers at last (SF on the upload's list, put
  and commit). Seeders and crashes owe nothing.
* `Retention`: all loops come back (WF); a sweep begins again and again, and a puller
  passes between two sweeps (SF on the sweep's start and on `PullShared` while the
  shared manifest is empty), since passes take seconds and sweeps an hour. A swap that
  is tried again and again wins (SF on `EmptySwap`). `TombstonePulled`, a guard of
  `SweepStart`, says the same of the grace period: a tombstone is reaped only when each
  node has pulled it. It is named because it is an assumption on time.
* `MonitorRun`: schedulers tick for ever (WF on `List`, `Lease`), a run goes on (WF per
  run) and time passes (WF on `GrowStuck`).
* `Ingest`: the writer task and the flush tasks are scheduled and the interval timer
  fires (WF). The supervisor polls, an admin's request once begun is stored or fails,
  closed sockets are noticed (WF), and a bind tried at each poll succeeds at last (SF).
  Handlers, producers and senders owe nothing.
* `SourcePull`: supervisors tick for ever and runs go on (WF per run), time passes (WF
  on `Elapse`, `LeaseAges`), a reset or delete that has begun ends. Users and files
  owe nothing; `EventuallySent` is conditional on the source staying enabled.

## 4. Proofs

All are for every value of the constants that meets the named assumptions. Each module
proves that a strengthening is inductive, one lemma per action, and draws the
properties from it. Every safety property of the runs is proved but three about pure
functions of data (end of this section). Type invariants are proved and not checked by
the runs.

| module | theorem | states | hypotheses |
|---|---|---|---|
| `Store_proofs` | `TypeCorrect`, `NoStaleWinHolds`, `NewestKeptHolds`, `HistoryOnlyGrowsHolds`, `RetryOnlyAfterCommitHolds`, `Implements` | `TypeOK`, `NoStaleWin`, `NewestKept`, `HistoryOnlyGrows`, `RetryOnlyAfterCommit`, `IsAtomicManifest` of `ManifestCAS` | `LagAssumption` |
| | `StoredOnce`, `CacheIsExact` (of `EventStore`) | `EventsOnce`, `CacheExact` | none: any batches, any filter |
| | `SearchIsExact` (of `SearchAnswer`) | `SearchExact` | `QueriesFit` |
| | `AggregateIsSound` (of `Aggregate`) | `AggregateSound` | `QueriesFit` |
| `BlockPartition_proofs` | `TypeCorrect`, `NoDanglingHolds`, `ExactlyOnceHolds`, `QueryReadsOnceHolds`, `SkipsOnlyMergedHolds`, `ImplementsRowSet` | `TypeOK`, `NoDangling`, `ExactlyOnce`, `QueryReadsOnce`, `SkipsOnlyMerged`, `IsRowSet` | `NoLostReply` |
| `BlockSync_proofs` | `TypeCorrect` | `TypeOK` | none: any faults |
| | `ReplicatedRowsStay` | `SharedKept` | no swap is applied and answered as refused |
| | `OwedReadable` | `OwedStaysReadable` | pending files are written |
| | `AckedRowsKept` | `AckedNeverLost` | pending files are written, local reads do not fail, no swap is applied and answered as refused |
| | `SentOnceOnly` | `SharedOnce` | no seeding, no crash, pending files are written, no reply is lost |
| | `RTypeCorrect`, `DroppedStaysOut` | `RTypeOK`, `TombstoneHolds` of `Retention` | none: any faults |
| `ControlDoc_proofs` | `TypeCorrect`, `StalenessBounded` | `TypeOK`, `BoundedStaleness` | none |
| | `ImplementsAtomicDoc` | `IsAtomicDoc` | `~DeleteRaces` |
| `Accounts_proofs` | `TypeCorrect`, `ReplacedPasswordOut`, `RevokedStaysOut` | `TypeOK`, `OldPasswordOut`, `RevokedForGood` | none |
| `MonitorRun_proofs` | `TypeCorrect`, `NoBreachWithoutAlert`, `OneAlertPerBreach` | `TypeOK`, `BreachWasAlerted`, `NoRefire` | none |
| `SourcePull_proofs` | `TypeCorrect`, `OneRunHolds`, `NothingSkippedHolds`, `OneFileToRepeat`, `SentOnceHolds` | `TypeOK`, `OneRun`, `NothingSkipped`, `CrashResumesHere`, `SentOnce` | `InTime`: no run outlives its lease |
| `Ingest_proofs` | `TypeCorrect`, `OnePlaceHolds` (of `IngestWriter` alone) | `TypeOK`, `OnePlace` | none |
| | `RowsStayInScope`, `AnswersAreHonest`, `AcceptedKeptHolds`, `CleanShutdownHolds` (of `Ingest`) | `ScopeHolds`, `AnswerHonest`, `AcceptedKept`, `CleanShutdown` | none |
| | `RowsAreAsSaid` (of `Ingest`) | `RowsAsSaid` | `DecodersFaithful`: each decoder gives back the rows its body was written from, a time that is no f64 at most a millisecond off |
| | `FramesAreExact` (of `Ingest`) | `FramingExact` | `StreamsAssumption` of `Syslog`: senders frame as RFC 6587 says |

The arguments:

* **`Store_proofs`, manifest** (`LagAssumption`: `MaxLag <= KeepGenerations`).
  `NoStaleWin` is not inductive: whether the number after a writer's base is free
  depends on what collections have deleted. `IInv` adds that the newest generation
  exists (`HasNewest`), that what a collection is still to delete is at least
  `KeepGenerations` behind (`VictimsOld`; a stale list only errs on the old side), that
  no active request is more than `MaxLag` behind (`LagBounded`), and that what a request
  read is the content of its base (`PutIsBased`). The refinement maps `live` to
  `content[Latest]`, a request's phase from its program counter and its view from its
  base: the winning put is the commit, everything else a view, a retry, a refusal, an
  answer or a stutter.
* **`Store_proofs`, events**. `StoreFits`: each block has the rows of its events, at
  least one, in the order of time and no event twice, all of its partition's day
  (`BlockFits`); blocks share no event and no identity (`Apart`); together they have all
  that arrived (`HasAll`). `Ranked` is what makes this work: `RankedLists` says that a
  finite set under a strict total order is listed completely and once, so a sort keeps
  the rows (`NewBlockFits`) and a merge the events (`CompactFits`). `CacheFits`: an entry
  names a block that was written, and of a stored block it is what the filter selects;
  identities are never used again, so a merge cannot make an entry wrong.
* **`Store_proofs`, search**. A query plans each partition that can hold a row of its
  answer (`PlanSelects`), and a block left out by its time bounds has none
  (`MatchedIs`). Folds are unrolled to a step (`SumUnfolds`), which with induction by
  least element (`InductionOn`) gives the totals and the histogram: counts added over
  blocks and partitions are the number of matching rows. For the page: the newest rows
  of every block, merged by time and cut twice, have at each place the time that has so
  many newer rows in the whole answer. `QueriesFit` is what is asked of the requests
  (numbers where numbers belong) and of the search language: `FilterExact`, the filter
  and the patterns select of any block the rows the expression means. It holds of the
  queries of the run (`FiltersAssumption`) and not of all the language accepts: an
  `index:` selector under `OR` or `NOT` is outside it (section 6).
* **`Store_proofs`, facets**. A block's counts say, for each value, how many selected
  rows have it (`BlockTermsExact`); a partition keeps the most frequent `2 * size`
  (`PartitionTermsIs`); scaled by 1 when nothing was sampled they add up to at most the
  true count of the value as an f64 (`Number`), and to exactly it when no partition had
  to drop a value (`AggregateExact`). Of a sample only its size, the length of the list
  and its order are claimed: a scaled count is an estimate.
* **`BlockPartition_proofs`** (`NoLostReply`: a manifest request that took effect is
  answered so; with `LostReply = TRUE` `NoDangling` fails, section 6). `IInv` adds: live
  blocks have disjoint rows and every acknowledged batch a holder (`LiveOK`); a batch's
  own block is fresh until its commit (`AppendsOK`); a merged block holds exactly its
  sources' rows and nobody else names it, what is being deleted is not live
  (`MergesOK`); lists and victims contain only used ids, and a victim is never live and
  never can become so (`ListsOK`); per query, what is read, to be read and skipped
  (`QueriesOK`). The refinement of `RowSet` maps the set to the rows of the live blocks,
  and what a query has left to the rows of the blocks it has still to open: `Append` is
  `Accept`, a swap is not seen because the merged block has its sources' rows, and
  opening a block is `Read` or, when it is gone, `Skip`.
* **`BlockSync_proofs`**, in layers. `BaseInv`: a block keeps the rows of its batch
  (`IdsOK`), whatever a manifest, a file or a pass names was drawn, and nothing names a
  block that was just written (`NamedOK`); a second entry of a block is one that
  `append_block` added (`CountsOK`). `CoverOK`: each row of a block that waits for its
  delete is also in a shared block that does not, so nothing an upload or a seeding
  brings back late can take a row away; this gives `SharedKept`, whatever fails but the
  reply of a merge's swap, after which the compactor deletes a live block. `OwedOK`: an
  owed block is held and named at home, and no puller is removing it. `OwnOK` and
  `HandOK`: what an uploader is about to clear, what it has put and what is owed no
  more, the shared store has. `OnceOK`: a row that was not sent is not in the shared
  store, and what an uploader still holds is still owed. The hypotheses on `Faults` are
  not for the prover's sake: a pending file that is not written, a local read that fails
  once, or a swap taken for refused loses rows in the code, and a crash or a lost reply
  before an upload's ids are cleared doubles them (section 6). For `Retention`, `TombOK`
  says that a buried block is listed nowhere in the shared store and carried by no
  upload or seeding, and that no seeder is past its look at the shared manifest;
  `TombstonePulled` is not used, so safety does not rest on the assumption on time.
* **`ControlDoc_proofs`**. `CountOK`: the marks that stored bytes, and those a call has
  read, carry are bounded by the changes made, and a change is made at most once per
  lost race, not at all before its answer on a store that loses none. `RecentOK` gives
  each value that is or may get into a cache the age it may have. `StageOK`: what a
  call is about to write it may still write, and under the lock the file is as it
  read it. Without `~DeleteRaces` the refinement is false: a delete between compare and
  rename takes no lock.
* **`Accounts_proofs`**. A token and a call in flight claim alike: an id, a version, a
  secret, a session. `Claim` says the version is at most the account's, and that one
  equal to it was got with the present password (or the change is not over) and in a
  session not ended. `DocStep` lists what a change of the document may do to an
  account; each handler's write is shown to be one, so claims of others stay sound.
* **`MonitorRun_proofs`**. `SerialOK`, while `serial` holds: there is one run at most,
  what it took from the list is still what the document says, so the edge it computes
  is the document's (`RunOK`); the last alert stands in the document, in a run about to
  record it, or was cut (`AlertStands`), and a run that may still raise one is not
  preceded by another (`FirstAlert`).
* **`SourcePull_proofs`** (`InTime`: no run outlives its lease). `IInv`: a lease with a
  run under it is fresh (`LeaseOK`); unless the last reset came late, stored marks and
  those of the one active run cover only submitted lines (`MarksOK`); a run
  starts with no marks (`FreshOK`). `LagOK`: a walk has marks only in files it has seen
  or has still to do, and none beyond a file's end (`WalkOK`); while nothing failed, the
  lines beyond the marks of the run, or beyond the stored ones, were not submitted
  (`OnceOK`), and its marks are ahead of the stored ones in one file at most (`ResumeOK`).
* **`Ingest_proofs`**. Of the writer: the places of a row are disjoint (`Apart`), so are
  flushes (`FlushesOK`), and the writer's position says what it holds (`WriterOK`); all
  three hold of any submissions, whatever rows are, so the handlers' proof uses them
  unchanged. Of a handler (`FrontOK`): the policy it read and the target it aims at are
  permitted by a copy in `known` (`AskOK`, `TargetOK`), what the writer took of its
  request is as many rows as it counted and all within the target (`RowsOK`), and its
  counters add up to its place in the items (`CountOK`). `DecodersAssumption` says that
  what a body decodes to has a length. For `RowsAsSaid` a handler's items are, until the
  last is sent, those of its own request (`DecodedOK`), whatever the writer and the
  admins do meanwhile; that the decoders are faithful is a fact about constants
  (`DecodersFaithful`), which the run checks of the corpus. `PassedOK` says of each item
  a handler has passed that it is in the writer, barred or unfit; with the counters
  this gives each protocol's answer. The proof
  found that policy and environments can be copies of different moments: a row may be
  accepted under a policy and an environment list that were never in force together,
  and `ScopeHolds` says so now. Of a connection (`FramesOK`): the bytes it keeps are those
  read after the end of some frame of the stream, and its lines are the messages told by
  then. `NextFrame` shows that `TryExtract` takes the frame that begins the buffer, or
  waits, whichever of its bytes have come. `StreamsAssumption` gives each stream with its
  frames (`WellFramed`: a counted length of at most `MaxLine` written in at most
  `MaxToken` digits, or a line that begins with no digit), so no induction over the
  stream is needed; what a malformed stream gives is not claimed (section 6).

Only model-checked:

* All liveness properties: fairness and `ENABLED` are beyond the prover used.
* `PipelineExact`, `BlockExact`, `FieldsExact`: what recursive operators compute over
  sequences and trees. `QueryLang`'s parser, `Search.EvalNode` and the block format's
  readers are `RECURSIVE`, and the prover does no arithmetic in a module that reaches
  such an operator.
* The two hypotheses about data: `DecodersFaithful` (the run's corpus) and the
  `FilterExact` of `QueriesFit` (the run's queries, blocks of one or two rows). The
  library's induction theorems take an operator as a parameter, which the installed
  provers cannot instantiate; induction over numbers is done by hand, from the least
  element of a set, but not over parse trees and texts.
* `SearchIsExact` and `AggregateIsSound` are about `StoreSpec`. The run's
  specification, `BlockFormat.StoredSpec`, takes the same steps and remembers beside
  them what each block was made from.

## 5. Not modelled, and why

* The bytes of zstd and of the roaring crate, the JSON of a block's footer, the reader
  of format version 1; dates, grok patterns and decompression in the parser; the
  lexer's characters, wildcards other than a first part, decimals, time zones,
  timecharts and the timeline of the search language: data of the models.
* f64s beyond their integers and halves: sums of a pipeline past 2^53, the saturation of
  an i64, times before 1970, and the grid of fractions of a second at other magnitudes
  than today's.
* `pack`, the choice of which blocks to merge: any two or more blocks may be merged.
* The fallback of a manifest read to the shared store (`engine/block/objstore.rs:448`),
  which matters only once retention purges local partitions; ranged reads, S3 paging.
* Two leaders of the retention sweep, a crash in the middle of one, and its deletion of
  old alerts and chats. The lease does not move between sweeps.
* Compressed files of a pull source (read whole when they change), files that shrink
  or vanish. A file truncated and grown past its mark cannot be told from an appended
  one (`source/mod.rs:298`).
* The composition of a checkpoint with the channel and the blocks (`source/mod.rs:123`): a
  hazard of `PROJECT.json` without a property. Three others have none because the code
  does not withstand them: a pending file that cannot be written, a monitor's run by an
  old list, a late append to an expired partition (section 6).
* The byte bound and the shards of the query cache: an entry may go at any moment.
* Token signatures and expiry, the SAML exchange before the account is found, roles per
  index, preferences.
* Agent, MCP, LLM clients (external models are their control flow), encryption (bytes to
  bytes; `ControlDoc` uses only that sealing a value twice differs), notifications,
  self logs, samples and runtime configuration.

## 6. Met while modelling, without a run of their own

Where the code is weaker than a reader may expect. The models are bounded, or the
theorems conditional, so that what passes holds in spite of it.

Blocks and replication:

* A writer that stalls between `current()` and its put for more than
  `KEEP_GENERATIONS` commits can create a number that was freed, with a stale
  manifest, and is told it committed. `LagAssumption` excludes it; with a larger
  `MaxLag` `NoStaleWin` fails.
* A swap that took effect and is answered "exists" is retried, refused as already
  merged, and the compactor deletes the merged block, which is live
  (`engine/block/compact.rs:142`; `BlockPartition` with `LostReply = TRUE`, `BlockSync`
  with the fault `"swap"`: `AckedNeverLost` and `SharedKept` fail, `OwedStaysReadable`
  does not).
* An upload's commit that is applied and answered with an error leaves its ids pending
  (`engine/block/sync.rs:77`); if a merge takes the blocks before the next pass, their
  rows are uploaded again and doubled, with no crash and no seeder (`SharedOnce` fails
  with the fault `"reply"`).
* Compaction and the collection of orphans visit partitions that have a manifest
  (`engine/block/compact.rs:172`). The block of a partition's first batch, when its
  commit fails or the process dies before it, stays until another batch comes.
* A query that loaded the manifest before a merge opens the sources after they were
  deleted, skips them as torn, and misses acknowledged rows (`engine/block/query.rs:28`).
* Upload and pull of a block between `pending.add` and the local commit:
  `append_block` then lists it twice (`engine/block/store.rs:172`).
* One failing local read makes the uploader give up the id; the puller then deletes the
  only copy (`engine/block/sync.rs:73`; `AckedRowsKept` excludes the fault `"read"`).
* A pending file that cannot be written does not stop the append: the block is then
  not owed to anyone, and the puller removes it (fault `"pending"`).
* The seeder looks for a shared manifest once and commits much later, and a crash
  between the uploader's commit and `pending.remove` re-uploads blocks that were
  merged: both bring merged blocks back, so their rows are doubled in the shared
  store. That is why `SharedOnce` is stated without crashes and seeders, while
  `SharedKept` holds with them.
* While the puller applies what it found, additions and removals are two commits; a
  local query in between reads merged rows from source and merged block.
* Retention: reaping removes a manifest that was seeded between its load and its purge;
  a node away for longer than the grace re-seeds the partition; the purge after the
  check loses a late append with its pending entry; an upload in flight lists a dropped
  block again until the next sweep.

Ingest:

* Authorization reads policy, token and environment at three moments: a request may be
  admitted under a combination that was never in force. A lenient Basic token revoked
  between two cached reads falls to the open path.
* The row threshold of the writer is not compared on the path that receives row by row
  while idle; a batch may outgrow it until the interval ends
  (`engine/block/ingest.rs:123`). More than one flush window of rows is in memory at a
  time (slots plus staging).
* Rows that a token's indexes bar are dropped. The API and HEC count them as errors; the
  `errors` flag of a bulk answer does not (`http/shims.rs:186`), and OTLP and Loki answer
  `{}` or 204 whatever was dropped, barred or unfit, though a comment takes the
  empty object for "full success" (`http/shims.rs:296`).
* When the blocking task of a request dies, `/api/ingest` answers 200 with `ingested: 0`
  (`http/ingest.rs:394`) and `/api/ingest/raw` 400, though rows may be in; what is sent
  again is doubled. `AnswerHonest` is not about such answers.
* Numeric times are read as f64s (`indexer/ingest.rs:257`): nanoseconds of today are
  rounded to 256 and the fraction of a second is cut, so an event may be stored a
  millisecond off (1544712660301000000 is stored one early). `RowsAsSaid` allows that.
* A shim answers 429 after it accepted a prefix, so the shipper's retry doubles it
  (`http/ingest.rs:150`).
* The server's sender is static (`engine/block/ingest.rs:48`), so only tests close the
  writer's channel: `CleanShutdown` is about them, and what is staged when a server
  stops is lost.
* An environment is deleted when no partition is on disk, whatever is in the queue.
* Detection takes a text log that begins with `[` for JSON and loses lines; the
  multiline cap drops lines; W3C rows before `#Fields` are dropped; syslog records
  folded by the multiline rule never match; structured data is cut at the last `]`; CEF
  unescapes its extension with its header. OTLP in JSON and in protobuf differ in
  detail; OTLP and Loki never report row errors, nor does the `errors` flag of bulk
  answers count parse errors; HEC stops at the first malformed value.
* Syslog: open connections outlive a rebind with the old router; where a malformed frame
  is resynchronised depends on the chunks; a settings patch is stored and read key by
  key, and one whose write fails half way stays half stored; a failed TCP bind detaches
  the UDP task (`syslog/mod.rs:61`).

Pull sources and monitors:

* A run longer than `STUCK_LEASE_SECS` is doubled, for nothing renews its lease
  (`control/backend.rs:2175`; `InTime` excludes it).
* A reset makes the source due before it deletes the checkpoint: a run that loads in
  between stores the old marks again and the re-ingest skips (`late`: `NothingSkipped`,
  `CrashResumesHere` and `EventuallySent` say nothing until the next reset;
  `control/backend.rs:2108`).
* A source's checkpoint covers rows that are in the ingest channel and not yet in a
  block; a crash loses them.
* A monitor's tick goes by a stale list and the lease does not look again whether it is
  due (`monitor/mod.rs:69`); a stolen lease lets the slow run's `finish` clear the
  thief's; a re-arm may be lost to a run's `set_breaching`, a run-now to a finishing run;
  an error of one `try_lease` ends the whole tick; a crash between alert and record
  raises the alert again (`cut` in `NoRefire`).

Control documents and accounts:

* A delete on the file store takes no lock (`DeleteRaces`). "A node reads its own
  writes" (`control/backend.rs:88`) fails when a slow reader fills the cache later.
* Setup's check for "no users" is not repeated under the conditional put; two admins who
  demote each other can leave none; a crash between `set_password` and the bump leaves
  old tokens good (`cut` in `OldPasswordOut`); of two password changes at once the first
  one's new token may survive the second; an id may equal another's e-mail.

Search:

* A merge keeps one element of a multi-valued field (`engine/block/writer.rs:117`);
  paging has ties; `index:` selectors are exact in positive conjunctions only; an event
  without a time is stored at the epoch in today's partition; a path of mixed types
  loses its strings in facets until it is merged; facets pull twice the size per
  partition, exact only if there are no more distinct values; two aggregations with one
  alias add up.
* Integers are compared, bounded and counted as f64s (`engine/block/query.rs:427`, `:756`,
  `:774`): beyond 2^53 a value or a range finds neighbours too, and facets count them
  under one name. A row that lists 1 and 1.0 counts twice under 1. `Aggregate`'s
  field `n` has integers only; fields of any type are looked at in `BlockFormat`.
* Extra list elements that are negative or fractional are indexed as one term, but asked
  for as several; positions restart for each element of a list, so a phrase may match
  across elements; keys that differ in case shred to one path. A list of mixed types
  counts its row once per type in discovery, so its coverage can exceed 1
  (`search/discover.rs:288`).

## 7. Plan

Done: the modules of section 2, their runs, and proofs of the safety properties but
three (section 4). Next, in this order:

1. Proofs: the routing part of `Syslog` (what is placed was sent, by whom it says); the
   parser and `EvalNode` as recursive functions, to prove `FilterExact` of the filters.
2. A composition of `SourcePull`, `IngestWriter` and `BlockPartition` at the level of
   batches, for the durability of a checkpoint.
3. The workspaces and saved objects of `control/backend.rs`, the tool loop of the agent
   with its limits, and the MCP tools, as far as they change state.
