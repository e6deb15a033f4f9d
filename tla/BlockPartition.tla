---------------------------- MODULE BlockPartition ----------------------------
(***************************************************************************)
(* One partition of one block store: write-once block objects, and the     *)
(* manifest that names the live ones.  Ingest flushes append blocks        *)
(* (engine/block/ingest.rs, store.rs), compactors merge them and collect   *)
(* what crashes left behind (compact.rs), queries read them (query.rs).    *)
(* Nothing is locked: the lease on compaction "only avoids wasted work,    *)
(* not races", so any number of compactors run.                            *)
(*                                                                         *)
(* A manifest request is one step here; ManifestCAS.tla shows why it may   *)
(* be.  Every call on a block object is a step of its own.                 *)
(***************************************************************************)
EXTENDS FiniteSets

CONSTANTS
  Batch,       \* the batches of rows to flush, each at most once
  Block,       \* block ids; write_block draws a fresh one
  Compactor,   \* compactor tasks, on any node
  Reader,      \* queries
  NoBlock,     \* no block id
  LostReply    \* TRUE: a manifest commit may be applied and answered false

ASSUME NoBlockAssumption == NoBlock \notin Block
ASSUME ReplyAssumption == LostReply \in BOOLEAN

VARIABLES
  live,      \* the block ids in the manifest
  objects,   \* the blocks whose object exists
  used,      \* the ids drawn so far
  rows,      \* rows[b]: the batches whose rows block b was written with
  old,       \* the blocks last modified more than ORPHAN_MIN_AGE ago
  stage,     \* stage[x]: where batch x is in append_block
  id,        \* id[x]: its block
  cpc,       \* where each compactor is in its pass over the partition
  todo,      \* the manifest it loaded, less the groups it is done with
  group,     \* the blocks it merges, or has yet to delete
  new,       \* the merged block
  victims,   \* the orphans its garbage collection has yet to delete
  rpc,       \* where each query is
  ids,       \* the blocks it still has to open
  got,       \* the batches it has read
  due,       \* the batches acknowledged before it began
  missed     \* the blocks it skipped

partition == <<live, objects, used, rows, old>>
appends   == <<stage, id>>
passes    == <<cpc, todo, group, new, victims>>
queries   == <<rpc, ids, got, due, missed>>
vars == <<live, objects, used, rows, old, stage, id,
          cpc, todo, group, new, victims, rpc, ids, got, due, missed>>

TypeOK ==
  /\ used \in SUBSET Block /\ live \in SUBSET used
  /\ objects \in SUBSET used /\ old \in SUBSET used
  /\ rows \in [Block -> SUBSET Batch]
  /\ stage \in [Batch -> {"idle", "written", "acked", "lost"}]
  /\ id \in [Batch -> Block \cup {NoBlock}]
  /\ cpc \in [Compactor -> {"idle", "plan", "swap", "delete", "drop", "gc", "collect"}]
  /\ todo \in [Compactor -> SUBSET Block]
  /\ group \in [Compactor -> SUBSET Block]
  /\ new \in [Compactor -> Block \cup {NoBlock}]
  /\ victims \in [Compactor -> SUBSET Block]
  /\ rpc \in [Reader -> {"idle", "open"}]
  /\ ids \in [Reader -> SUBSET Block]
  /\ got \in [Reader -> SUBSET Batch]
  /\ due \in [Reader -> SUBSET Batch]
  /\ missed \in [Reader -> SUBSET Block]

Init ==
  /\ live = {} /\ objects = {} /\ used = {} /\ old = {}
  /\ rows = [b \in Block |-> {}]
  /\ stage = [x \in Batch |-> "idle"]
  /\ id = [x \in Batch |-> NoBlock]
  /\ cpc = [c \in Compactor |-> "idle"]
  /\ todo = [c \in Compactor |-> {}]
  /\ group = [c \in Compactor |-> {}]
  /\ new = [c \in Compactor |-> NoBlock]
  /\ victims = [c \in Compactor |-> {}]
  /\ rpc = [r \in Reader |-> "idle"]
  /\ ids = [r \in Reader |-> {}]
  /\ got = [r \in Reader |-> {}]
  /\ due = [r \in Reader |-> {}]
  /\ missed = [r \in Reader |-> {}]

-----------------------------------------------------------------------------
(* Block objects.                                                          *)

(* write_block: a new object under a fresh id.                             *)
WriteObject(b, xs) ==
  /\ b \in Block \ used
  /\ used' = used \cup {b}
  /\ objects' = objects \cup {b}
  /\ rows' = [rows EXCEPT ![b] = xs]
  /\ UNCHANGED <<live, old>>

(* delete_block: "best-effort; failures are logged".                       *)
DeleteObject(b) ==
  /\ objects' \in {objects, objects \ {b}}
  /\ UNCHANGED <<live, used, rows, old>>

(* The blocks written and not yet in the manifest, by a task still at it.  *)
InFlight ==
  {id[x] : x \in {y \in Batch : stage[y] = "written"}} \cup
  {new[c] : c \in {d \in Compactor : cpc[d] = "swap"}}

(* ORPHAN_MIN_AGE passes.  "Younger ones may be in flight": the timing     *)
(* assumption is that no block is in flight for that long.                 *)
Age(b) ==
  /\ b \in objects \ old
  /\ b \notin InFlight
  /\ old' = old \cup {b}
  /\ UNCHANGED <<live, objects, used, rows, appends, passes, queries>>

(* Mutant: the manifest names the block before its object is written.      *)
WriteBlockEntryFirst(x) ==
  /\ stage[x] = "idle"
  /\ \E b \in Block \ used :
       /\ used' = used \cup {b}
       /\ live' = live \cup {b}
       /\ id' = [id EXCEPT ![x] = b]
       /\ rows' = [rows EXCEPT ![b] = {x}]
  /\ stage' = [stage EXCEPT ![x] = "written"]
  /\ UNCHANGED <<objects, old, passes, queries>>

-----------------------------------------------------------------------------
(* flush_batch and append_block, for one batch.                            *)

WriteBlock(x) ==
  /\ stage[x] = "idle"
  /\ \E b \in Block :
       /\ WriteObject(b, {x})
       /\ id' = [id EXCEPT ![x] = b]
  /\ stage' = [stage EXCEPT ![x] = "written"]
  /\ UNCHANGED <<passes, queries>>

Append(x) ==
  /\ stage[x] = "written"
  /\ live' = live \cup {id[x]}
  /\ stage' = [stage EXCEPT ![x] = "acked"]
  /\ UNCHANGED <<objects, used, rows, old, id, passes, queries>>

(* The commit was applied and the task learns of an error.                 *)
AppendReplyLost(x) ==
  /\ LostReply
  /\ stage[x] = "written"
  /\ live' = live \cup {id[x]}
  /\ stage' = [stage EXCEPT ![x] = "lost"]
  /\ UNCHANGED <<objects, used, rows, old, id, passes, queries>>

(* An error, printed and forgotten, or the death of the process: the rows  *)
(* are gone, and the object, if written, is an orphan.                     *)
LoseBatch(x) ==
  /\ stage[x] \in {"idle", "written"}
  /\ stage' = [stage EXCEPT ![x] = "lost"]
  /\ UNCHANGED <<partition, id, passes, queries>>

-----------------------------------------------------------------------------
(* compact_partition.                                                      *)

(* The partition has a manifest: a first commit makes it, and no commit of *)
(* this module empties it.                                                 *)
HasManifest == live # {}

Goto(c, p) == cpc' = [cpc EXCEPT ![c] = p]

(* run_compactor visits the partitions that list_partitions names, those   *)
(* that have a manifest, to merge and then to collect.                     *)
LoadManifest(c) ==
  /\ cpc[c] = "idle"
  /\ HasManifest
  /\ todo' = [todo EXCEPT ![c] = live]
  /\ Goto(c, "plan")
  /\ UNCHANGED <<partition, appends, group, new, victims, queries>>

(* The next group worth a rewrite: pack takes at least two small blocks    *)
(* and no block twice.  Its sources are read and the merged block written. *)
(* Deleted ids never come back, so a group read block by block with        *)
(* success is one whose blocks were all there when the first was read.     *)
WriteMerged(c) ==
  /\ cpc[c] = "plan"
  /\ \E G \in SUBSET todo[c], b \in Block :
       /\ ~\E s \in G : G = {s}
       /\ G # {} /\ G \subseteq objects
       /\ WriteObject(b, UNION {rows[s] : s \in G})
       /\ todo' = [todo EXCEPT ![c] = @ \ G]
       /\ group' = [group EXCEPT ![c] = G]
       /\ new' = [new EXCEPT ![c] = b]
  /\ Goto(c, "swap")
  /\ UNCHANGED <<appends, victims, queries>>

(* Mutant: swap_blocks, the unconditional one.                             *)
SwapUnguarded(c) ==
  /\ cpc[c] = "swap"
  /\ live' = (live \ group[c]) \cup {new[c]}
  /\ Goto(c, "delete")
  /\ UNCHANGED <<objects, used, rows, old, appends, todo, group, new, victims, queries>>

(* swap_blocks_if_present: every source is still live.                     *)
Swap(c) ==
  /\ cpc[c] = "swap"
  /\ group[c] \subseteq live
  /\ live' = (live \ group[c]) \cup {new[c]}
  /\ Goto(c, "delete")
  /\ UNCHANGED <<objects, used, rows, old, appends, todo, group, new, victims, queries>>

(* The swap was applied, its answer lost; tried again it is refused, for   *)
(* its sources are no longer live.                                         *)
SwapReplyLost(c) ==
  /\ LostReply
  /\ cpc[c] = "swap"
  /\ group[c] \subseteq live
  /\ live' = (live \ group[c]) \cup {new[c]}
  /\ Goto(c, "drop")
  /\ UNCHANGED <<objects, used, rows, old, appends, todo, group, new, victims, queries>>

SwapRefused(c) ==
  /\ cpc[c] = "swap"
  /\ ~(group[c] \subseteq live)
  /\ Goto(c, "drop")
  /\ UNCHANGED <<partition, appends, todo, group, new, victims, queries>>

(* After the swap the sources are deleted, one by one.                     *)
DeleteSource(c) ==
  /\ cpc[c] = "delete"
  /\ \E s \in group[c] :
       /\ DeleteObject(s)
       /\ group' = [group EXCEPT ![c] = @ \ {s}]
  /\ UNCHANGED <<appends, cpc, todo, new, victims, queries>>

(* The next group.                                                         *)
SourcesDeleted(c) ==
  /\ cpc[c] = "delete"
  /\ group[c] = {}
  /\ new' = [new EXCEPT ![c] = NoBlock]
  /\ Goto(c, "plan")
  /\ UNCHANGED <<partition, appends, todo, group, victims, queries>>

(* "lost the race - drop the orphan".                                      *)
DropMerged(c) ==
  /\ cpc[c] = "drop"
  /\ DeleteObject(new[c])
  /\ group' = [group EXCEPT ![c] = {}]
  /\ new' = [new EXCEPT ![c] = NoBlock]
  /\ Goto(c, "plan")
  /\ UNCHANGED <<appends, todo, victims, queries>>

Forget(c) ==
  /\ todo' = [todo EXCEPT ![c] = {}]
  /\ group' = [group EXCEPT ![c] = {}]
  /\ new' = [new EXCEPT ![c] = NoBlock]
  /\ victims' = [victims EXCEPT ![c] = {}]

(* Mutant: the pass ends without its garbage collection.                   *)
CompactEndsNoGc(c) ==
  /\ cpc[c] \in {"plan", "swap"}
  /\ Goto(c, "idle")
  /\ Forget(c)
  /\ UNCHANGED <<partition, appends, queries>>

(* No further group is worth it, or an error: a source that could not be   *)
(* read, a write or a swap that failed.  The garbage collection is next.   *)
CompactEnds(c) ==
  /\ cpc[c] \in {"plan", "swap"}
  /\ Goto(c, "gc")
  /\ Forget(c)
  /\ UNCHANGED <<partition, appends, queries>>

-----------------------------------------------------------------------------
(* gc_orphan_blocks.                                                       *)

(* Mutant: the minimum age is not looked at.                               *)
GcLoadAnyAge(c) ==
  /\ cpc[c] = "gc"
  /\ victims' = [victims EXCEPT ![c] = objects \ live]
  /\ Goto(c, "collect")
  /\ UNCHANGED <<partition, appends, todo, group, new, queries>>

(* The manifest is loaded, then `now` is taken: the blocks that are old by *)
(* then and not in that manifest are the ones the listing will delete.     *)
(* The partitions are those of the list the pass began with.               *)
GcLoad(c) ==
  /\ cpc[c] = "gc"
  /\ victims' = [victims EXCEPT ![c] = (objects \cap old) \ live]
  /\ Goto(c, "collect")
  /\ UNCHANGED <<partition, appends, todo, group, new, queries>>

GcDelete(c) ==
  /\ cpc[c] = "collect"
  /\ \E b \in victims[c] :
       /\ objects' = objects \ {b}
       /\ victims' = [victims EXCEPT ![c] = @ \ {b}]
  /\ UNCHANGED <<live, used, rows, old, appends, cpc, todo, group, new, queries>>

(* Done; not due yet (ORPHAN_GC_INTERVAL); or an error ended it.           *)
PassEnds(c) ==
  /\ cpc[c] \in {"gc", "collect"}
  /\ Goto(c, "idle")
  /\ Forget(c)
  /\ UNCHANGED <<partition, appends, queries>>

(* The process dies, anywhere in the pass.                                 *)
Crash(c) ==
  /\ cpc[c] # "idle"
  /\ Goto(c, "idle")
  /\ Forget(c)
  /\ UNCHANGED <<partition, appends, queries>>

-----------------------------------------------------------------------------
(* scan, search_histogram, open_blocks: the manifest first, then its       *)
(* blocks in any order ("in parallel").                                    *)

Acked == {x \in Batch : stage[x] = "acked"}

Query(r) ==
  /\ rpc[r] = "idle"
  /\ rpc' = [rpc EXCEPT ![r] = "open"]
  /\ ids' = [ids EXCEPT ![r] = live]
  /\ due' = [due EXCEPT ![r] = Acked]
  /\ UNCHANGED <<partition, appends, passes, got, missed>>

OpenBlock(r) ==
  /\ rpc[r] = "open"
  /\ \E b \in ids[r] :
       /\ ids' = [ids EXCEPT ![r] = @ \ {b}]
       /\ \/ /\ b \in objects
             /\ got' = [got EXCEPT ![r] = @ \cup rows[b]]
             /\ UNCHANGED missed
          \/ /\ b \notin objects
             /\ missed' = [missed EXCEPT ![r] = @ \cup {b}]
             /\ UNCHANGED got
  /\ UNCHANGED <<partition, appends, passes, rpc, due>>

QueryEnds(r) ==
  /\ rpc[r] = "open"
  /\ ids[r] = {}
  /\ rpc' = [rpc EXCEPT ![r] = "idle"]
  /\ got' = [got EXCEPT ![r] = {}]
  /\ due' = [due EXCEPT ![r] = {}]
  /\ missed' = [missed EXCEPT ![r] = {}]
  /\ UNCHANGED <<partition, appends, passes, ids>>

-----------------------------------------------------------------------------

Flush(x) == WriteBlock(x) \/ Append(x)

CompactStep(c) ==
  \/ LoadManifest(c) \/ WriteMerged(c) \/ Swap(c) \/ SwapRefused(c)
  \/ DeleteSource(c) \/ SourcesDeleted(c) \/ DropMerged(c) \/ CompactEnds(c)
  \/ GcLoad(c) \/ GcDelete(c) \/ PassEnds(c)

Next ==
  \/ \E x \in Batch : Flush(x) \/ AppendReplyLost(x) \/ LoseBatch(x)
  \/ \E c \in Compactor : CompactStep(c) \/ SwapReplyLost(c) \/ Crash(c)
  \/ \E r \in Reader : Query(r) \/ OpenBlock(r) \/ QueryEnds(r)
  \/ \E b \in Block : Age(b)

Spec == Init /\ [][Next]_vars

-----------------------------------------------------------------------------
(***************************************************************************)
(* Safety.                                                                 *)
(***************************************************************************)

(* "Object first, so a crash leaves an orphan, not a dangling entry": a    *)
(* block the manifest names can be read, whatever compactors, their        *)
(* crashes and the orphan collection delete.                               *)
NoDangling == live \subseteq objects

Holders(x) == {b \in live : x \in rows[b]}

(* Every row whose append was acknowledged is in exactly one live block,   *)
(* and no row is in two: compactors that race for the same sources, crash  *)
(* between the swap and the deletes or are refused neither lose nor double *)
(* a row.                                                                  *)
ExactlyOnce ==
  \A x \in Batch :
    /\ \A b, d \in Holders(x) : b = d
    /\ stage[x] = "acked" => Holders(x) # {}

(* A query reads no row twice, though its manifest may be older than the   *)
(* merges that happen while it opens the blocks.                           *)
QueryReadsOnce ==
  \A r \in Reader :
    \A b \in ids[r] :
      /\ rows[b] \cap got[r] = {}
      /\ \A d \in ids[r] \ {b} : rows[b] \cap rows[d] = {}

(* What a query skips was merged away under it: no acknowledged row it     *)
(* missed is lost, each is in a block of the present manifest, and it      *)
(* misses nothing that it did not skip.                                    *)
SkipsOnlyMerged ==
  \A r \in Reader :
    /\ \A b \in missed[r] :
         b \notin live /\ \A x \in rows[b] : Holders(x) # {}
    /\ due[r] \subseteq got[r] \cup UNION {rows[b] : b \in ids[r] \cup missed[r]}

(* What the partition is to its callers: blocks are not seen.              *)
RS == INSTANCE RowSet WITH
  held <- UNION {rows[b] : b \in live},
  acked <- Acked,
  reading <- {r \in Reader : rpc[r] = "open"},
  left <- [r \in Reader |-> UNION {rows[b] : b \in ids[r]}]

(* To those who append and those who query, a partition is a set of rows   *)
(* that only grows: an acknowledgement adds the rows, and nothing that     *)
(* compactors and collections do, in whatever order, changes the set or    *)
(* gives a query that is under way a row twice.                            *)
IsRowSet == RS!Spec

(***************************************************************************)
(* Liveness.  Ingest and compaction run on, and run_compactor comes back   *)
(* every interval: errors and crashes do not cut every pass short of its   *)
(* collection, and a delete tried again and again succeeds at last.        *)
(***************************************************************************)
Fairness ==
  /\ \A x \in Batch : WF_vars(Flush(x) \/ LoseBatch(x))
  /\ \A b \in Block : WF_vars(Age(b))
  /\ \A c \in Compactor :
       /\ WF_vars(CompactStep(c))
       /\ SF_vars(CompactEnds(c)) /\ SF_vars(GcLoad(c)) /\ SF_vars(GcDelete(c))

FairSpec == Spec /\ Fairness

(* In a partition that has a manifest nothing unreferenced is kept for     *)
(* ever: what a crash, a failed append or a failed delete left behind is   *)
(* collected, also what was left behind before the first commit, once      *)
(* there is one.                                                           *)
OrphansCollected ==
  \A b \in Block :
    b \in objects \ live /\ HasManifest ~> b \notin objects \ live
=============================================================================
