----------------------------- MODULE IngestWriter -----------------------------
(***************************************************************************)
(* The buffered block writer (engine/block/ingest.rs): a bounded channel,  *)
(* one task that stages what it receives and hands full or timed-out       *)
(* batches to flush tasks, and the flush tasks, as many as there are       *)
(* slots, each appending one block per partition of its batch.  Request    *)
(* handlers submit rows and are refused when the channel is full; pull     *)
(* sources submit rows and wait.                                           *)
(*                                                                         *)
(* Time is the flag `due`: the flush interval has run out since the last   *)
(* flush.  Rows are interchangeable up to their partition, so the channel  *)
(* is a set: which row of it comes first makes no difference.              *)
(***************************************************************************)
EXTENDS Naturals, FiniteSets

CONSTANTS
  Row,        \* the rows submitted, each once
  Blocking,   \* those submitted by a pull source
  Partition,  \* partition keys
  PartOf,     \* PartOf[r]: the partition of row r
  QueueCap,   \* queue_capacity()
  MaxRows,    \* block_flush_rows()
  Slots,      \* flush_concurrency()
  Closing     \* TRUE: the senders may be dropped, as the writer's test does;
              \* the server keeps one in a static for ever

ASSUME RowsAssumption == Blocking \subseteq Row /\ PartOf \in [Row -> Partition]
ASSUME LimitsAssumption ==
  QueueCap \in Nat \ {0} /\ MaxRows \in Nat \ {0} /\ Slots \in Nat \ {0}
ASSUME ClosingAssumption == Closing \in BOOLEAN

VARIABLES
  open,      \* a sender of the channel exists
  queue,     \* the rows in the channel
  shed,      \* the rows refused with Full
  wpc,       \* where the writer is
  drained,   \* this pass of its loop received a row
  staging,   \* the rows staged; `buffered` is their number
  due,       \* last_flush.elapsed() >= interval
  batch,     \* the batch that waits for a flush slot
  flushing,  \* the batches being flushed: what each has still to append
  stored,    \* the rows appended
  failed     \* the rows whose append, or whose flush task, failed

vars == <<open, queue, shed, wpc, drained, staging, due, batch, flushing,
          stored, failed>>
channel == <<open, queue, shed>>
writer  == <<wpc, drained, staging, due, batch>>
flushes == <<flushing, stored, failed>>

InMemory == queue \cup staging \cup batch \cup UNION flushing

Accepted == InMemory \cup stored \cup failed

TypeOK ==
  /\ open \in BOOLEAN /\ drained \in BOOLEAN /\ due \in BOOLEAN
  /\ queue \in SUBSET Row /\ Cardinality(queue) <= QueueCap
  /\ shed \in SUBSET (Row \ Blocking)
  /\ wpc \in {"drain", "wait", "slot", "lastSlot", "closed", "exited"}
  /\ staging \in SUBSET Row /\ batch \in SUBSET Row
  /\ flushing \in SUBSET ((SUBSET Row) \ {{}}) /\ Cardinality(flushing) <= Slots
  /\ stored \in SUBSET Row /\ failed \in SUBSET Row

Init ==
  /\ open = TRUE /\ queue = {} /\ shed = {}
  /\ wpc = "drain" /\ drained = FALSE /\ staging = {} /\ due = FALSE /\ batch = {}
  /\ flushing = {} /\ stored = {} /\ failed = {}

-----------------------------------------------------------------------------
(* The producers.                                                          *)

Fresh(r) == r \notin Accepted \cup shed

Room == Cardinality(queue) < QueueCap

(* submit: try_send.                                                       *)
Submit(r) ==
  /\ open /\ Fresh(r) /\ r \notin Blocking
  /\ \/ Room /\ queue' = queue \cup {r} /\ UNCHANGED shed
     \/ ~Room /\ shed' = shed \cup {r} /\ UNCHANGED queue
  /\ UNCHANGED <<open, writer, flushes>>

(* submit_blocking: waits until there is room.                             *)
SubmitBlocking(r) ==
  /\ open /\ Fresh(r) /\ r \in Blocking
  /\ Room
  /\ queue' = queue \cup {r}
  /\ UNCHANGED <<open, shed, writer, flushes>>

DropSenders ==
  /\ Closing /\ open
  /\ open' = FALSE
  /\ UNCHANGED <<queue, shed, writer, flushes>>

-----------------------------------------------------------------------------
(* run_writer.                                                             *)

Receive(r) ==
  /\ queue' = queue \ {r}
  /\ staging' = staging \cup {r}
  /\ UNCHANGED <<open, shed>>

(* spawn_flush: nothing to do, or the staged rows become a batch that      *)
(* waits for a slot.                                                       *)
SpawnFlush(next, slot, rows) ==
  /\ staging' = {}
  /\ batch' = rows
  /\ wpc' = IF rows = {} THEN next ELSE slot

(* try_recv in the inner loop; the row threshold is looked at.             *)
DrainRow ==
  /\ wpc = "drain"
  /\ \E r \in queue :
       /\ queue' = queue \ {r}
       /\ IF Cardinality(staging \cup {r}) >= MaxRows
          THEN SpawnFlush("drain", "slot", staging \cup {r})
          ELSE /\ staging' = staging \cup {r}
               /\ UNCHANGED <<wpc, batch>>
  /\ drained' = TRUE
  /\ UNCHANGED <<open, shed, due, flushes>>

(* The channel is empty (or closed): the pass was idle, and the writer     *)
(* waits; or it was not, and the time threshold is looked at.              *)
DrainEnds ==
  /\ wpc = "drain" /\ queue = {}
  /\ \/ /\ ~drained
        /\ wpc' = "wait"
        /\ UNCHANGED <<staging, batch>>
     \/ /\ drained /\ staging # {} /\ due
        /\ SpawnFlush("drain", "slot", staging)
     \/ /\ drained /\ (staging = {} \/ ~due)
        /\ UNCHANGED <<wpc, staging, batch>>
  /\ drained' = FALSE
  /\ UNCHANGED <<channel, due, flushes>>

(* timeout(recv): a row that is there wins over a timer that has run out.  *)
WaitRow ==
  /\ wpc = "wait"
  /\ \E r \in queue : Receive(r)
  /\ wpc' = "drain"
  /\ UNCHANGED <<drained, due, batch, flushes>>

(* Mutant: a timeout with nothing staged does not restart the interval,    *)
(* and one with rows staged waits for more.                                *)
WaitTimeoutIgnored ==
  /\ wpc = "wait" /\ queue = {} /\ open /\ due
  /\ wpc' = "drain"
  /\ due' = FALSE
  /\ UNCHANGED <<channel, drained, staging, batch, flushes>>

WaitTimeout ==
  /\ wpc = "wait" /\ queue = {} /\ open /\ due
  /\ SpawnFlush("drain", "slot", staging)
  /\ due' = FALSE
  /\ UNCHANGED <<channel, drained, flushes>>

WaitClosed ==
  /\ wpc = "wait" /\ queue = {} /\ ~open
  /\ SpawnFlush("closed", "lastSlot", staging)
  /\ UNCHANGED <<channel, drained, due, flushes>>

(* A slot is free: the batch is handed to a task, the interval starts anew.*)
TakeSlot ==
  /\ wpc \in {"slot", "lastSlot"}
  /\ Cardinality(flushing) < Slots
  /\ flushing' = flushing \cup {batch}
  /\ batch' = {}
  /\ wpc' = IF wpc = "lastSlot" THEN "closed" ELSE "drain"
  /\ due' = FALSE
  /\ UNCHANGED <<channel, drained, staging, stored, failed>>

(* Mutant: the writer leaves its flush tasks behind.                       *)
ExitAtOnce ==
  /\ wpc = "closed"
  /\ wpc' = "exited"
  /\ UNCHANGED <<channel, drained, staging, due, batch, flushes>>

(* "Drain in-flight flushes before exit"; the receiver is dropped.         *)
Exit ==
  /\ wpc = "closed" /\ flushing = {}
  /\ wpc' = "exited"
  /\ UNCHANGED <<channel, drained, staging, due, batch, flushes>>

Tick ==
  /\ ~due
  /\ due' = TRUE
  /\ UNCHANGED <<channel, wpc, drained, staging, batch, flushes>>

-----------------------------------------------------------------------------
(* flush_batch.                                                            *)

Rest(f, rows) == (flushing \ {f}) \cup ({f \ rows} \ {{}})

(* Mutant: the first error ends the batch.                                 *)
FlushPartitionReturns(f, k) ==
  LET rows == {r \in f : PartOf[r] = k} IN
    /\ rows # {}
    /\ \/ stored' = stored \cup rows /\ flushing' = Rest(f, rows) /\ UNCHANGED failed
       \/ failed' = failed \cup rows /\ flushing' = flushing \ {f} /\ UNCHANGED stored
    /\ UNCHANGED <<channel, writer>>

(* One partition of a batch: its block is appended, or the error printed.  *)
FlushPartition(f, k) ==
  LET rows == {r \in f : PartOf[r] = k} IN
    /\ rows # {}
    /\ flushing' = Rest(f, rows)
    /\ \/ stored' = stored \cup rows /\ UNCHANGED failed
       \/ failed' = failed \cup rows /\ UNCHANGED stored
    /\ UNCHANGED <<channel, writer>>

(* The task panics: `let _ =` drops the join error, the permit is freed.   *)
FlushPanics(f) ==
  /\ flushing' = flushing \ {f}
  /\ failed' = failed \cup f
  /\ UNCHANGED <<channel, writer, stored>>

Write ==
  DrainRow \/ DrainEnds \/ WaitRow \/ WaitTimeout \/ WaitClosed \/ TakeSlot \/ Exit

FlushStep == \E f \in flushing, k \in Partition : FlushPartition(f, k)

Next ==
  \/ \E r \in Row : Submit(r) \/ SubmitBlocking(r)
  \/ DropSenders
  \/ Write \/ Tick
  \/ FlushStep \/ \E f \in flushing : FlushPanics(f)

Spec == Init /\ [][Next]_vars

-----------------------------------------------------------------------------
(***************************************************************************)
(* Safety.                                                                 *)
(***************************************************************************)

(* The places a row can be in.                                             *)
Places == <<queue, staging, batch, UNION flushing, stored, failed, shed>>

(* A row is in one place: none is flushed twice, and none is both stored   *)
(* and reported refused, over any number of overlapping flushes.           *)
OnePlace ==
  /\ \A i, j \in 1..7 : i # j => Places[i] \cap Places[j] = {}
  /\ \A f, g \in flushing : f # g => f \cap g = {}

(* A row the writer accepted stays accounted for until it is stored, or    *)
(* its append has failed: no error path forgets one.                       *)
AcceptedKept == [][Accepted \subseteq Accepted']_vars

(* "A clean shutdown loses nothing": once the writer has exited, nothing   *)
(* it accepted is left in memory.                                          *)
CleanShutdown == wpc = "exited" => InMemory = {}

(***************************************************************************)
(* Liveness.  The writer and the flush tasks keep running and the clock    *)
(* does not stop; producers owe nothing.                                   *)
(***************************************************************************)
WriterFairness == WF_vars(Write) /\ WF_vars(Tick) /\ WF_vars(FlushStep)

FairSpec == Spec /\ WriterFairness

(* "A trickle still lands": the rows accepted are appended at last, or     *)
(* their append fails, whatever the load and however busy the slots.       *)
AcceptedLands == InMemory # {} ~> InMemory = {}
=============================================================================
