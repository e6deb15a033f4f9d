------------------------------ MODULE BlockSync ------------------------------
(***************************************************************************)
(* One partition replicated between the local store of each node and the   *)
(* shared store (engine/block/sync.rs).  A node ingests into its local     *)
(* store and notes the new block in its pending set (pending.rs); its      *)
(* uploader copies what is pending to the shared store, its puller makes   *)
(* the local manifest follow the shared one, its seeder fills an empty     *)
(* shared store; compaction runs on the shared store.  The tasks of a node *)
(* run side by side and share only the stores and the pending file.        *)
(*                                                                         *)
(* A manifest request is one step (ManifestCAS.tla), and so is a merge up  *)
(* to its commit (BlockPartition.tla).                                     *)
(***************************************************************************)
EXTENDS Naturals, FiniteSets

CONSTANTS
  Node,      \* the nodes, each with a local store
  Shared,    \* the shared store
  Batch,     \* the batches of rows to flush, each at most once
  Block,     \* block ids
  NoBlock,   \* no block id
  Seeding,   \* TRUE: the seeders run
  Faults     \* what may go wrong: a subset of Fault

(* A process dies; a call on the shared store, a read of a local block, of *)
(* or to the pending file, a delete fails; an upload is applied and its    *)
(* answer is an error; a compactor's swap is applied and answered refused. *)
Fault == {"crash", "put", "read", "pending", "delete", "reply", "swap"}

ASSUME SharedAssumption == Shared \notin Node
ASSUME NoBlockAssumption == NoBlock \notin Block
ASSUME FaultsAssumption == Faults \subseteq Fault /\ Seeding \in BOOLEAN

VARIABLES
  manifest,  \* manifest[s][b]: how many entries of store s name block b
  known,     \* the stores that have a manifest of the partition
  objects,   \* objects[s]: the block objects of store s
  pending,   \* pending[n]: the blocks node n owes the shared store (a file)
  rows,      \* rows[b]: the batches whose rows block b was written with
  used,      \* the ids drawn so far
  doomed,    \* the blocks merged away, their shared object still to be deleted
  stage,     \* stage[x]: where batch x is in append_block
  id,        \* id[x]: its block
  home,      \* home[x]: the node that ingests it
  upc, uids, uput, udone,    \* uploader: ids to look at, uploaded, to clear
  ppc, pshared, plocal,      \* puller: the manifests it compares; at the end
                             \* plocal holds what it removes
  spc, sids, sput            \* seeder: ids to copy, copied

Store == Node \cup {Shared}

stores   == <<manifest, known, objects>>
blocks   == <<rows, used, doomed>>
ingest   == <<stage, id, home>>
uploader == <<upc, uids, uput, udone>>
puller   == <<ppc, pshared, plocal>>
seeder   == <<spc, sids, sput>>
vars == <<manifest, known, objects, pending, rows, used, doomed,
          stage, id, home, upc, uids, uput, udone, ppc, pshared, plocal,
          spc, sids, sput>>

Sets == [Node -> SUBSET Block]

TypeOK ==
  /\ manifest \in [Store -> [Block -> 0..2]]
  /\ known \in SUBSET Store
  /\ objects \in [Store -> SUBSET used]
  /\ pending \in [Node -> SUBSET used]
  /\ rows \in [Block -> SUBSET Batch]
  /\ used \in SUBSET Block /\ doomed \in SUBSET used
  /\ stage \in [Batch -> {"idle", "written", "owed", "acked", "lost"}]
  /\ id \in [Batch -> Block \cup {NoBlock}]
  /\ home \in [Batch -> Node]
  /\ upc \in [Node -> {"idle", "list", "put", "clear"}]
  /\ uids \in Sets /\ uput \in Sets /\ udone \in Sets
  /\ ppc \in [Node -> {"idle", "local", "add", "owned", "drop", "delete"}]
  /\ pshared \in Sets /\ plocal \in Sets
  /\ spc \in [Node -> {"idle", "load", "put"}]
  /\ sids \in Sets /\ sput \in Sets

Nothing == [n \in Node |-> {}]
Idle == [n \in Node |-> "idle"]

Init ==
  /\ manifest = [s \in Store |-> [b \in Block |-> 0]]
  /\ known = {} /\ objects = [s \in Store |-> {}] /\ pending = Nothing
  /\ rows = [b \in Block |-> {}] /\ used = {} /\ doomed = {}
  /\ stage = [x \in Batch |-> "idle"] /\ id = [x \in Batch |-> NoBlock]
  /\ home \in [Batch -> Node]
  /\ upc = Idle /\ uids = Nothing /\ uput = Nothing /\ udone = Nothing
  /\ ppc = Idle /\ pshared = Nothing /\ plocal = Nothing
  /\ spc = Idle /\ sids = Nothing /\ sput = Nothing

-----------------------------------------------------------------------------
(* The BlockStore requests.                                                *)

Listed(s) == {b \in Block : manifest[s][b] > 0}

(* append_block: push, whether the id is there or not.                     *)
Push(s, b) ==
  /\ manifest' = [manifest EXCEPT ![s][b] = @ + 1]
  /\ known' = known \cup {s}

(* swap_blocks.                                                            *)
SwapBlocks(s, remove, add) ==
  /\ manifest' = [manifest EXCEPT ![s] =
       [b \in Block |-> IF b \in remove THEN 0
                        ELSE IF b \in add /\ @[b] = 0 THEN 1
                        ELSE @[b]]]
  /\ known' = known \cup {s}

PutObject(s, b) == objects' = [objects EXCEPT ![s] = @ \cup {b}]

(* delete_block: "best-effort; failures are logged".                       *)
DeleteObject(s, b) ==
  \/ objects' = [objects EXCEPT ![s] = @ \ {b}]
  \/ "delete" \in Faults /\ UNCHANGED objects

(* Mutant: ids are not fresh, only absent from the shared store.           *)
DrawReusesId(b, xs) ==
  /\ b \in Block \ objects[Shared]
  /\ rows' = [rows EXCEPT ![b] = xs]
  /\ UNCHANGED <<used, doomed>>

Draw(b, xs) ==
  /\ b \in Block \ used
  /\ used' = used \cup {b}
  /\ rows' = [rows EXCEPT ![b] = xs]
  /\ UNCHANGED doomed

(* PendingStore::read: a file that cannot be read counts as empty.         *)
PendingRead(n) == {pending[n]} \cup {{} : f \in Faults \cap {"pending"}}

-----------------------------------------------------------------------------
(* append_block on the local store: object, pending set, manifest.         *)

WriteBlock(x) ==
  /\ stage[x] = "idle"
  /\ \E b \in Block :
       /\ Draw(b, {x})
       /\ PutObject(home[x], b)
       /\ id' = [id EXCEPT ![x] = b]
  /\ stage' = [stage EXCEPT ![x] = "written"]
  /\ UNCHANGED <<manifest, known, pending, home, uploader, puller, seeder>>

(* pending.add; a pending file that cannot be written is only reported.    *)
AddPending(x) ==
  /\ stage[x] = "written"
  /\ \/ \E owed \in PendingRead(home[x]) :
          pending' = [pending EXCEPT ![home[x]] = owed \cup {id[x]}]
     \/ "pending" \in Faults /\ UNCHANGED pending
  /\ stage' = [stage EXCEPT ![x] = "owed"]
  /\ UNCHANGED <<stores, blocks, id, home, uploader, puller, seeder>>

AppendEntry(x) ==
  /\ stage[x] = "owed"
  /\ Push(home[x], id[x])
  /\ stage' = [stage EXCEPT ![x] = "acked"]
  /\ UNCHANGED <<objects, pending, blocks, id, home, uploader, puller, seeder>>

-----------------------------------------------------------------------------
(* upload_partition.                                                       *)

UploadStart(n) ==
  /\ upc[n] = "idle" /\ n \in known
  /\ \E owed \in PendingRead(n) \ {{}} : uids' = [uids EXCEPT ![n] = owed]
  /\ upc' = [upc EXCEPT ![n] = "list"]
  /\ UNCHANGED <<stores, pending, blocks, ingest, uput, udone, puller, seeder>>

(* Mutant: a block counts as uploaded once the shared store has its bytes. *)
UploadListByObject(n) ==
  /\ upc[n] = "list"
  /\ uids' = [uids EXCEPT ![n] = @ \ objects[Shared]]
  /\ udone' = [udone EXCEPT ![n] = uids[n] \cap objects[Shared]]
  /\ upc' = [upc EXCEPT ![n] = "put"]
  /\ UNCHANGED <<stores, pending, blocks, ingest, uput, puller, seeder>>

(* What the shared manifest already names is no longer owed.               *)
UploadList(n) ==
  /\ upc[n] = "list"
  /\ uids' = [uids EXCEPT ![n] = @ \ Listed(Shared)]
  /\ udone' = [udone EXCEPT ![n] = uids[n] \cap Listed(Shared)]
  /\ upc' = [upc EXCEPT ![n] = "put"]
  /\ UNCHANGED <<stores, pending, blocks, ingest, uput, puller, seeder>>

(* One pending id: copied, kept for the next pass because the put failed,  *)
(* or given up because the local read did.  (A put that failed and left    *)
(* the object is one before which a process died: the next pass writes the *)
(* same bytes again.)                                                      *)
UploadBlock(n) ==
  /\ upc[n] = "put"
  /\ \E b \in uids[n] :
       /\ uids' = [uids EXCEPT ![n] = @ \ {b}]
       /\ \/ /\ b \in objects[n]
             /\ PutObject(Shared, b)
             /\ uput' = [uput EXCEPT ![n] = @ \cup {b}]
             /\ udone' = [udone EXCEPT ![n] = @ \cup {b}]
          \/ /\ b \in objects[n] /\ "put" \in Faults
             /\ UNCHANGED <<objects, uput, udone>>
          \/ /\ b \notin objects[n] \/ "read" \in Faults
             /\ udone' = [udone EXCEPT ![n] = @ \cup {b}]
             /\ UNCHANGED <<objects, uput>>
  /\ UNCHANGED <<manifest, known, pending, blocks, ingest, upc, puller, seeder>>

(* Mutant: the shared manifest is written over, not amended.               *)
UploadCommitOverwrites(n) ==
  /\ upc[n] = "put" /\ uids[n] = {}
  /\ \/ uput[n] # {} /\ SwapBlocks(Shared, Block \ uput[n], uput[n])
     \/ uput[n] = {} /\ UNCHANGED <<manifest, known>>
  /\ upc' = [upc EXCEPT ![n] = "clear"]
  /\ UNCHANGED <<objects, pending, blocks, ingest, uids, uput, udone, puller, seeder>>

(* One manifest commit for all the blocks copied.                          *)
UploadCommit(n) ==
  /\ upc[n] = "put" /\ uids[n] = {}
  /\ \/ uput[n] # {} /\ SwapBlocks(Shared, {}, uput[n])
     \/ uput[n] = {} /\ UNCHANGED <<manifest, known>>
  /\ upc' = [upc EXCEPT ![n] = "clear"]
  /\ UNCHANGED <<objects, pending, blocks, ingest, uids, uput, udone, puller, seeder>>

UploadReset(n) ==
  /\ upc' = [upc EXCEPT ![n] = "idle"]
  /\ uids' = [uids EXCEPT ![n] = {}]
  /\ uput' = [uput EXCEPT ![n] = {}]
  /\ udone' = [udone EXCEPT ![n] = {}]

(* Mutant: the pending file is left as it is.                              *)
UploadClearForgotten(n) ==
  /\ upc[n] = "clear"
  /\ UploadReset(n)
  /\ UNCHANGED <<stores, pending, blocks, ingest, puller, seeder>>

(* pending.remove; it may fail to read the file or to write it.            *)
UploadClear(n) ==
  /\ upc[n] = "clear"
  /\ \/ pending' = [pending EXCEPT ![n] = @ \ udone[n]]
     \/ "pending" \in Faults /\ UNCHANGED pending
  /\ UploadReset(n)
  /\ UNCHANGED <<stores, blocks, ingest, puller, seeder>>

(* The shared manifest cannot be read or committed to.                     *)
UploadFails(n) ==
  /\ "put" \in Faults
  /\ upc[n] = "list" \/ (upc[n] = "put" /\ uids[n] = {} /\ uput[n] # {})
  /\ UploadReset(n)
  /\ UNCHANGED <<stores, pending, blocks, ingest, puller, seeder>>

(* The commit was applied, but its answer is an error: the pass ends there *)
(* too, and what it uploaded is still owed.                                *)
UploadReplyLost(n) ==
  /\ "reply" \in Faults
  /\ upc[n] = "put" /\ uids[n] = {} /\ uput[n] # {}
  /\ SwapBlocks(Shared, {}, uput[n])
  /\ UploadReset(n)
  /\ UNCHANGED <<objects, pending, blocks, ingest, puller, seeder>>

-----------------------------------------------------------------------------
(* pull_partition.                                                         *)

PullShared(n) ==
  /\ ppc[n] = "idle" /\ Shared \in known
  /\ pshared' = [pshared EXCEPT ![n] = Listed(Shared)]
  /\ ppc' = [ppc EXCEPT ![n] = "local"]
  /\ UNCHANGED <<stores, pending, blocks, ingest, uploader, plocal, seeder>>

PullLocal(n) ==
  /\ ppc[n] = "local"
  /\ plocal' = [plocal EXCEPT ![n] = Listed(n)]
  /\ ppc' = [ppc EXCEPT ![n] = "add"]
  /\ UNCHANGED <<stores, pending, blocks, ingest, uploader, pshared, seeder>>

PullAdd(n) ==
  /\ ppc[n] = "add"
  /\ LET add == pshared[n] \ plocal[n] IN
       \/ add # {} /\ SwapBlocks(n, {}, add)
       \/ add = {} /\ UNCHANGED <<manifest, known>>
  /\ ppc' = [ppc EXCEPT ![n] = "owned"]
  /\ UNCHANGED <<objects, pending, blocks, ingest, uploader, pshared, plocal, seeder>>

(* Mutant: the pending ids are not spared.                                 *)
PullOwnedIgnored(n) ==
  /\ ppc[n] = "owned"
  /\ plocal' = [plocal EXCEPT ![n] = @ \ pshared[n]]
  /\ pshared' = [pshared EXCEPT ![n] = {}]
  /\ ppc' = [ppc EXCEPT ![n] = "drop"]
  /\ UNCHANGED <<stores, pending, blocks, ingest, uploader, seeder>>

(* Mutant: the puller only ever adds.                                      *)
PullOwnedNothing(n) ==
  /\ ppc[n] = "owned"
  /\ plocal' = [plocal EXCEPT ![n] = {}]
  /\ pshared' = [pshared EXCEPT ![n] = {}]
  /\ ppc' = [ppc EXCEPT ![n] = "drop"]
  /\ UNCHANGED <<stores, pending, blocks, ingest, uploader, seeder>>

(* What is gone from shared and not pending is to be removed.              *)
PullOwned(n) ==
  /\ ppc[n] = "owned"
  /\ \E owed \in PendingRead(n) :
       plocal' = [plocal EXCEPT ![n] = (@ \ pshared[n]) \ owed]
  /\ pshared' = [pshared EXCEPT ![n] = {}]
  /\ ppc' = [ppc EXCEPT ![n] = "drop"]
  /\ UNCHANGED <<stores, pending, blocks, ingest, uploader, seeder>>

PullDrop(n) ==
  /\ ppc[n] = "drop"
  /\ \/ plocal[n] # {} /\ SwapBlocks(n, plocal[n], {})
     \/ plocal[n] = {} /\ UNCHANGED <<manifest, known>>
  /\ ppc' = [ppc EXCEPT ![n] = "delete"]
  /\ UNCHANGED <<objects, pending, blocks, ingest, uploader, pshared, plocal, seeder>>

PullDelete(n) ==
  /\ ppc[n] = "delete"
  /\ \E b \in plocal[n] :
       /\ DeleteObject(n, b)
       /\ plocal' = [plocal EXCEPT ![n] = @ \ {b}]
  /\ UNCHANGED <<manifest, known, pending, blocks, ingest, uploader, ppc, pshared, seeder>>

PullEnds(n) ==
  /\ ppc[n] = "delete" /\ plocal[n] = {}
  /\ ppc' = [ppc EXCEPT ![n] = "idle"]
  /\ UNCHANGED <<stores, pending, blocks, ingest, uploader, pshared, plocal, seeder>>

(* A query of the node misses a block locally: it is fetched from shared   *)
(* and kept (LocalFirstObjectStore).                                       *)
CacheBlock(n) ==
  /\ \E b \in (Listed(n) \cap objects[Shared]) \ objects[n] : PutObject(n, b)
  /\ UNCHANGED <<manifest, known, pending, blocks, ingest, uploader, puller, seeder>>

-----------------------------------------------------------------------------
(* seed_partition.                                                         *)

(* Mutant: an empty shared manifest counts as none.                        *)
SeedCheckEmpty(n) ==
  /\ Seeding
  /\ spc[n] = "idle" /\ n \in known /\ Listed(Shared) = {}
  /\ spc' = [spc EXCEPT ![n] = "load"]
  /\ UNCHANGED <<stores, pending, blocks, ingest, uploader, puller, sids, sput>>

SeedCheck(n) ==
  /\ Seeding
  /\ spc[n] = "idle" /\ n \in known /\ Shared \notin known
  /\ spc' = [spc EXCEPT ![n] = "load"]
  /\ UNCHANGED <<stores, pending, blocks, ingest, uploader, puller, sids, sput>>

SeedLoad(n) ==
  /\ spc[n] = "load"
  /\ sids' = [sids EXCEPT ![n] = Listed(n)]
  /\ spc' = [spc EXCEPT ![n] = "put"]
  /\ UNCHANGED <<stores, pending, blocks, ingest, uploader, puller, sput>>

SeedBlock(n) ==
  /\ spc[n] = "put"
  /\ \E b \in sids[n] :
       /\ sids' = [sids EXCEPT ![n] = @ \ {b}]
       /\ \/ /\ b \in objects[n]
             /\ PutObject(Shared, b)
             /\ sput' = [sput EXCEPT ![n] = @ \cup {b}]
          \/ /\ b \notin objects[n] \/ Faults \cap {"put", "read"} # {}
             /\ UNCHANGED <<objects, sput>>
  /\ UNCHANGED <<manifest, known, pending, blocks, ingest, uploader, puller, spc>>

SeedCommit(n) ==
  /\ spc[n] = "put" /\ sids[n] = {}
  /\ \/ sput[n] # {} /\ SwapBlocks(Shared, {}, sput[n])
     \/ sput[n] = {} /\ UNCHANGED <<manifest, known>>
  /\ spc' = [spc EXCEPT ![n] = "idle"]
  /\ sput' = [sput EXCEPT ![n] = {}]
  /\ UNCHANGED <<objects, pending, blocks, ingest, uploader, puller, sids>>

-----------------------------------------------------------------------------
(* Compaction of the shared store: the merged block, the guarded swap,     *)
(* then the deletes of the sources, cut short if the compactor dies.  A    *)
(* swap that was applied and, tried again by the client, is refused on its *)
(* own result makes the compactor delete the merged block instead.         *)

Compact ==
  /\ \E G \in SUBSET (Listed(Shared) \cap objects[Shared]), b \in Block \ used :
       /\ Cardinality(G) >= 2
       /\ used' = used \cup {b}
       /\ rows' = [rows EXCEPT ![b] = UNION {rows[s] : s \in G}]
       /\ PutObject(Shared, b)
       /\ SwapBlocks(Shared, G, {b})
       /\ doomed' \in {doomed \cup G} \cup {doomed \cup {b} : f \in Faults \cap {"swap"}}
  /\ UNCHANGED <<pending, ingest, uploader, puller, seeder>>

DeleteMerged ==
  /\ \E b \in doomed :
       /\ DeleteObject(Shared, b)
       /\ doomed' = doomed \ {b}
  /\ UNCHANGED <<manifest, known, pending, rows, used, ingest, uploader, puller,
                 seeder>>

(* The process dies: what was being ingested is lost, the tasks start      *)
(* over, the stores and the pending file remain.                           *)
Crash(n) ==
  /\ "crash" \in Faults
  /\ stage' = [x \in Batch |->
       IF home[x] = n /\ stage[x] \in {"written", "owed"} THEN "lost" ELSE stage[x]]
  /\ UploadReset(n)
  /\ ppc' = [ppc EXCEPT ![n] = "idle"]
  /\ pshared' = [pshared EXCEPT ![n] = {}]
  /\ plocal' = [plocal EXCEPT ![n] = {}]
  /\ spc' = [spc EXCEPT ![n] = "idle"]
  /\ sids' = [sids EXCEPT ![n] = {}]
  /\ sput' = [sput EXCEPT ![n] = {}]
  /\ UNCHANGED <<stores, pending, blocks, id, home>>

-----------------------------------------------------------------------------

Ingest(x) == WriteBlock(x) \/ AddPending(x) \/ AppendEntry(x)

Upload(n) == UploadStart(n) \/ UploadList(n) \/ UploadBlock(n) \/ UploadCommit(n) \/ UploadClear(n)

Pull(n) ==
  \/ PullShared(n) \/ PullLocal(n) \/ PullAdd(n) \/ PullOwned(n)
  \/ PullDrop(n) \/ PullDelete(n) \/ PullEnds(n)

Seed(n) == SeedCheck(n) \/ SeedLoad(n) \/ SeedBlock(n) \/ SeedCommit(n)

Next ==
  \/ \E x \in Batch : Ingest(x)
  \/ \E n \in Node :
       \/ Upload(n) \/ UploadFails(n) \/ UploadReplyLost(n)
       \/ Pull(n) \/ Seed(n) \/ CacheBlock(n) \/ Crash(n)
  \/ Compact \/ DeleteMerged

Spec == Init /\ [][Next]_vars

-----------------------------------------------------------------------------
(***************************************************************************)
(* Safety.                                                                 *)
(***************************************************************************)

(* An acknowledged row can be read from the shared store or from the node  *)
(* that ingested it, at every moment of the hand-over: the uploader clears *)
(* an id only when shared has it, the puller deletes only what shared had, *)
(* whatever passes overlap, fail or die half way.                          *)
AckedNeverLost ==
  \A x \in Batch : stage[x] = "acked" =>
    \E s \in {home[x], Shared} : \E b \in Listed(s) \cap objects[s] : x \in rows[b]

(* "Pending (own, un-uploaded) ids stay": a node that still owes a block   *)
(* names it and can read it.                                               *)
OwedStaysReadable ==
  \A x \in Batch : stage[x] = "acked" /\ id[x] \in pending[home[x]] =>
    id[x] \in Listed(home[x]) \cap objects[home[x]]

(* Without crashes, seeders and lost answers the shared store names every  *)
(* uploaded row once, and only blocks it can read: uploads that fail half  *)
(* way and are tried again, and merges, do not undo each other.  (Uploads  *)
(* are sent again whose commit was applied and answered with an error.)    *)
SharedOnce ==
  /\ \A b, d \in Listed(Shared) : rows[b] \cap rows[d] # {} => b = d
  /\ Listed(Shared) \subseteq objects[Shared]

(* No fault of a node reaches what is replicated: a row the shared store   *)
(* can give stays there, whatever is uploaded twice because a process died *)
(* or an answer was lost, brought back by a seeder, merged again and       *)
(* deleted late.  (A swap answered wrongly makes a compactor delete it.)   *)
SharedKept ==
  [][\A x \in Batch :
       (\E b \in Listed(Shared) \cap objects[Shared] : x \in rows[b]) =>
         (\E b \in (Listed(Shared) \cap objects[Shared])' : x \in rows'[b])]_vars

(***************************************************************************)
(* Liveness.  The loops of the tasks keep coming back; the shared store    *)
(* answers at last.                                                        *)
(***************************************************************************)
Fairness ==
  /\ \A x \in Batch : WF_vars(Ingest(x))
  /\ \A n \in Node :
       /\ WF_vars(Upload(n)) /\ WF_vars(Pull(n))
       /\ SF_vars(UploadList(n))
       /\ SF_vars(UploadBlock(n) /\ uput'[n] # uput[n])
       /\ SF_vars(UploadCommit(n) /\ uput[n] # {})
  /\ WF_vars(DeleteMerged)

FairSpec == Spec /\ Fairness

(* Every acknowledged row gets to the shared store and stays there.        *)
EventuallyShared ==
  \A x \in Batch : stage[x] = "acked" ~>
    [](\E b \in Listed(Shared) : x \in rows[b])

(* When ingest and compaction come to rest, every node's manifest is the   *)
(* shared one.                                                             *)
EventuallyMirrored ==
  <>[](\A n \in Node : Shared \in known => Listed(n) = Listed(Shared))
=============================================================================
