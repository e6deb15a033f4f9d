--------------------------- MODULE BlockSync_proofs ---------------------------
(***************************************************************************)
(* What replication (BlockSync) and retention (Retention) keep safe, for   *)
(* every number of nodes, batches and blocks.                              *)
(***************************************************************************)
EXTENDS Retention, TLAPS

(* A block has the id it was drawn with and, until merged, its batch.      *)
IdsOK ==
  \A x \in Batch :
    IF stage[x] = "idle" THEN id[x] = NoBlock
    ELSE id[x] \in used /\ rows[id[x]] = {x}

(* Some manifest, file or pass names block b.                              *)
Named(b) ==
  \/ b \in doomed
  \/ \E s \in Store : manifest[s][b] > 0
  \/ \E n \in Node :
       \/ b \in pending[n] \/ b \in uids[n] \/ b \in uput[n] \/ b \in udone[n]
       \/ b \in pshared[n] \/ b \in plocal[n] \/ b \in sids[n] \/ b \in sput[n]

(* Only drawn blocks are; and none that has just been written.             *)
NamedOK ==
  /\ \A b \in Block : Named(b) => b \in used
  /\ \A x \in Batch : stage[x] = "written" =>
       ~Named(id[x]) /\ id[x] \in objects[home[x]]

(* A second entry is the one of append_block.                              *)
CountsOK ==
  \A s \in Store : \A b \in Block : manifest[s][b] <= 1
    \/ \E x \in Batch : stage[x] = "acked" /\ id[x] = b /\ home[x] = s

CoreInv == TypeOK /\ IdsOK /\ CountsOK
BaseInv == CoreInv /\ NamedOK

-----------------------------------------------------------------------------
(* The manifest requests.                                                  *)

LEMMA StoreNodes == Shared \in Store /\ Node \subseteq Store /\ \A n \in Node : n # Shared
BY SharedAssumption DEF Store

LEMMA PushFacts ==
  ASSUME TypeOK, NEW s \in Store, NEW b \in Block, manifest[s][b] <= 1, Push(s, b)
  PROVE  /\ manifest' \in [Store -> [Block -> 0..2]] /\ known' \in SUBSET Store
         /\ Listed(s)' = Listed(s) \cup {b}
         /\ \A t \in Store \ {s} : manifest'[t] = manifest[t] /\ Listed(t)' = Listed(t)
         /\ \A d \in Block \ {b} : manifest'[s][d] = manifest[s][d]
<1>1. manifest \in [Store -> [Block -> 0..2]]  BY DEF TypeOK
<1>2. PICK g : g = [manifest[s] EXCEPT ![b] = manifest[s][b] + 1]  OBVIOUS
<1>3. manifest' = [manifest EXCEPT ![s] = g] /\ manifest'[s] = g
  BY <1>1, <1>2 DEF Push
<1>4. manifest[s] \in [Block -> 0..2] /\ manifest[s][b] + 1 \in 0..2  BY <1>1
<1>5. manifest'[s] \in [Block -> 0..2]  BY <1>2, <1>3, <1>4
<1>6. manifest' \in [Store -> [Block -> 0..2]]  BY <1>1, <1>2, <1>3, <1>5
<1>7. \A t \in Store \ {s} : manifest'[t] = manifest[t]  BY <1>1, <1>3
<1>8. \A d \in Block : manifest'[s][d] = IF d = b THEN manifest[s][d] + 1 ELSE manifest[s][d]
  BY <1>2, <1>3, <1>4
<1>9. Listed(s)' = Listed(s) \cup {b}  BY <1>4, <1>8 DEF Listed
<1>10. \A t \in Store \ {s} : Listed(t)' = Listed(t)  BY <1>7 DEF Listed
<1>11. known' \in SUBSET Store  BY DEF Push, TypeOK
<1> QED  BY <1>6, <1>7, <1>8, <1>9, <1>10, <1>11

LEMMA SwapFacts ==
  ASSUME TypeOK, NEW s \in Store, NEW remove, NEW add, SwapBlocks(s, remove, add)
  PROVE  /\ manifest' \in [Store -> [Block -> 0..2]] /\ known' \in SUBSET Store
         /\ Listed(s)' = (Listed(s) \cup (add \cap Block)) \ remove
         /\ \A t \in Store \ {s} : manifest'[t] = manifest[t] /\ Listed(t)' = Listed(t)
         /\ \A d \in Block : manifest'[s][d] <= 1 \/ manifest'[s][d] = manifest[s][d]
<1>1. manifest \in [Store -> [Block -> 0..2]]  BY DEF TypeOK
<1>2. PICK f : f = [b \in Block |-> IF b \in remove THEN 0
                                    ELSE IF b \in add /\ manifest[s][b] = 0 THEN 1
                                    ELSE manifest[s][b]]
  OBVIOUS
<1>3. manifest' = [manifest EXCEPT ![s] = f]  BY <1>1, <1>2 DEF SwapBlocks
<1>4. manifest'[s] = f /\ \A t \in Store \ {s} : manifest'[t] = manifest[t]
  BY <1>1, <1>3
<1>5. manifest[s] \in [Block -> 0..2]  BY <1>1
<1>6. \A b \in Block :
        /\ f[b] \in 0..2 /\ (f[b] <= 1 \/ f[b] = manifest[s][b])
        /\ f[b] > 0 <=> ((manifest[s][b] > 0 \/ b \in add) /\ b \notin remove)
  BY <1>2, <1>5
<1>7. f \in [Block -> 0..2]  BY <1>2, <1>6
<1>8. manifest' \in [Store -> [Block -> 0..2]]  BY <1>1, <1>3, <1>7
<1>9. Listed(s)' = (Listed(s) \cup (add \cap Block)) \ remove
  BY <1>4, <1>6 DEF Listed
<1>10. \A t \in Store \ {s} : Listed(t)' = Listed(t)  BY <1>4 DEF Listed
<1>11. known' \in SUBSET Store  BY DEF SwapBlocks, TypeOK
<1> QED  BY <1>4, <1>6, <1>8, <1>9, <1>10, <1>11

LEMMA InitBase == Init => BaseInv
<1> SUFFICES ASSUME Init PROVE BaseInv  OBVIOUS
<1> USE DEF Init, Nothing, Idle
<1>1. TypeOK  BY DEF TypeOK, Sets
<1>2. IdsOK /\ CountsOK  BY DEF IdsOK, CountsOK
<1>3. NamedOK  BY DEF NamedOK, Named
<1> QED  BY <1>1, <1>2, <1>3 DEF BaseInv, CoreInv

-----------------------------------------------------------------------------
(* Types.                                                                  *)

LEMMA IngestType ==
  ASSUME CoreInv, NEW x \in Batch, Ingest(x) PROVE TypeOK'
<1> USE DEF stores, blocks, ingest, uploader, puller, seeder
<1>1. TypeOK /\ home[x] \in Store  BY StoreNodes DEF CoreInv, TypeOK
<1>2. CASE WriteBlock(x)
  <2>1. PICK b \in Block : Draw(b, {x}) /\ PutObject(home[x], b) /\ id' = [id EXCEPT ![x] = b]
    BY <1>2 DEF WriteBlock
  <2>2. used' = used \cup {b} /\ rows' = [rows EXCEPT ![b] = {x}] /\ doomed' = doomed
    BY <2>1 DEF Draw
  <2>3. objects' \in [Store -> SUBSET used']
    BY <1>1, <2>1, <2>2 DEF PutObject, TypeOK
  <2>4. /\ used' \in SUBSET Block /\ rows' \in [Block -> SUBSET Batch]
        /\ doomed' \in SUBSET used' /\ pending' \in [Node -> SUBSET used']
    BY <1>1, <1>2, <2>2 DEF TypeOK, WriteBlock
  <2>5. id' \in [Batch -> Block \cup {NoBlock}]  BY <1>1, <2>1 DEF TypeOK
  <2> QED  BY <1>1, <1>2, <2>3, <2>4, <2>5 DEF TypeOK, WriteBlock
<1>3. CASE AddPending(x)
  <2>1. id[x] \in used  BY <1>3 DEF AddPending, CoreInv, IdsOK
  <2>2. pending' \in [Node -> SUBSET used]
    BY <1>1, <1>3, <2>1 DEF AddPending, PendingRead, TypeOK
  <2> QED  BY <1>1, <1>3, <2>2 DEF TypeOK, AddPending
<1>4. CASE AppendEntry(x)
  <2>1. stage[x] = "owed" /\ id[x] \in Block /\ rows[id[x]] = {x}
    BY <1>1, <1>4 DEF AppendEntry, CoreInv, IdsOK, TypeOK
  <2>2. manifest[home[x]][id[x]] <= 1
    <3>1. ASSUME NEW y \in Batch, stage[y] = "acked", id[y] = id[x] PROVE FALSE
      BY <2>1, <3>1 DEF CoreInv, IdsOK
    <3> QED  BY <1>1, <2>1, <3>1 DEF CoreInv, CountsOK
  <2>3. manifest' \in [Store -> [Block -> 0..2]] /\ known' \in SUBSET Store
    BY <1>1, <1>4, <2>1, <2>2, PushFacts DEF AppendEntry
  <2> QED  BY <1>1, <1>4, <2>3 DEF TypeOK, AppendEntry
<1> QED  BY <1>2, <1>3, <1>4 DEF Ingest

LEMMA UploadType ==
  ASSUME TypeOK, NEW n \in Node, Upload(n) \/ UploadFails(n) \/ UploadReplyLost(n) PROVE TypeOK'
<1> USE DEF stores, blocks, ingest, uploader, puller, seeder, Sets
<1>1. Shared \in Store /\ used \subseteq Block  BY StoreNodes DEF TypeOK
<1>2. CASE UploadStart(n)  BY <1>1, <1>2 DEF UploadStart, PendingRead, TypeOK
<1>3. CASE UploadList(n)  BY <1>3 DEF UploadList, TypeOK
<1>4. CASE UploadBlock(n)
  <2>1. PICK b \in uids[n] :
       /\ uids' = [uids EXCEPT ![n] = @ \ {b}]
       /\ \/ /\ b \in objects[n]
             /\ PutObject(Shared, b)
             /\ uput' = [uput EXCEPT ![n] = @ \cup {b}]
             /\ udone' = [udone EXCEPT ![n] = @ \cup {b}]
          \/ UNCHANGED <<objects, uput, udone>>
          \/ /\ udone' = [udone EXCEPT ![n] = @ \cup {b}]
             /\ UNCHANGED <<objects, uput>>
    BY <1>4 DEF UploadBlock
  <2>2. b \in Block  BY <2>1 DEF TypeOK
  <2>3. uids' \in Sets  BY <2>1, <2>2 DEF TypeOK
  <2>5. uput' \in Sets
    <3>1. CASE uput' = [uput EXCEPT ![n] = @ \cup {b}]  BY <2>2, <3>1 DEF TypeOK
    <3> QED  BY <2>1, <3>1 DEF TypeOK
  <2>6. udone' \in Sets
    <3>1. CASE udone' = [udone EXCEPT ![n] = @ \cup {b}]  BY <2>2, <3>1 DEF TypeOK
    <3> QED  BY <2>1, <3>1 DEF TypeOK
  <2>4. objects' \in [Store -> SUBSET used]
    <3>1. CASE b \in objects[n] /\ PutObject(Shared, b)
      <4>1. b \in used  BY <3>1, StoreNodes DEF TypeOK
      <4> QED  BY <1>1, <3>1, <4>1 DEF PutObject, TypeOK
    <3> QED  BY <2>1, <3>1 DEF TypeOK
  <2> QED  BY <1>4, <2>3, <2>4, <2>5, <2>6 DEF UploadBlock, TypeOK
<1>5. CASE UploadCommit(n)
  <2>1. manifest' \in [Store -> [Block -> 0..2]] /\ known' \in SUBSET Store
    <3>1. CASE SwapBlocks(Shared, {}, uput[n])  BY <1>1, <3>1, SwapFacts
    <3> QED  BY <1>5, <3>1 DEF UploadCommit, TypeOK
  <2> QED  BY <1>5, <2>1 DEF UploadCommit, TypeOK
<1>6. ASSUME UploadReset(n)
      PROVE  /\ upc' \in [Node -> {"idle", "list", "put", "clear"}]
             /\ uids' \in Sets /\ uput' \in Sets /\ udone' \in Sets
  BY <1>6 DEF UploadReset, TypeOK
<1>7. CASE UploadClear(n)
  <2>1. pending' \in [Node -> SUBSET used]  BY <1>7 DEF UploadClear, TypeOK
  <2> QED  BY <1>6, <1>7, <2>1 DEF UploadClear, TypeOK
<1>8. CASE UploadFails(n)  BY <1>6, <1>8 DEF UploadFails, TypeOK
<1>9. CASE UploadReplyLost(n)
  <2>1. manifest' \in [Store -> [Block -> 0..2]] /\ known' \in SUBSET Store
    BY <1>1, <1>9, SwapFacts DEF UploadReplyLost
  <2> QED  BY <1>6, <1>9, <2>1 DEF UploadReplyLost, TypeOK
<1> QED  BY <1>2, <1>3, <1>4, <1>5, <1>7, <1>8, <1>9 DEF Upload

LEMMA PullType ==
  ASSUME TypeOK, NEW n \in Node, Pull(n) \/ CacheBlock(n) PROVE TypeOK'
<1> USE DEF stores, blocks, ingest, uploader, puller, seeder, Sets
<1>1. n \in Store /\ Shared \in Store /\ used \subseteq Block  BY StoreNodes DEF TypeOK
<1>2. Listed(Shared) \subseteq Block /\ Listed(n) \subseteq Block  BY DEF Listed
<1>3. CASE PullShared(n)  BY <1>2, <1>3 DEF PullShared, TypeOK
<1>4. CASE PullLocal(n)  BY <1>2, <1>4 DEF PullLocal, TypeOK
<1>5. CASE PullAdd(n)
  <2>1. manifest' \in [Store -> [Block -> 0..2]] /\ known' \in SUBSET Store
    <3>1. CASE SwapBlocks(n, {}, pshared[n] \ plocal[n])  BY <1>1, <3>1, SwapFacts
    <3> QED  BY <1>5, <3>1 DEF PullAdd, TypeOK
  <2> QED  BY <1>5, <2>1 DEF PullAdd, TypeOK
<1>6. CASE PullOwned(n)  BY <1>6 DEF PullOwned, TypeOK
<1>7. CASE PullDrop(n)
  <2>1. manifest' \in [Store -> [Block -> 0..2]] /\ known' \in SUBSET Store
    <3>1. CASE SwapBlocks(n, plocal[n], {})  BY <1>1, <3>1, SwapFacts
    <3> QED  BY <1>7, <3>1 DEF PullDrop, TypeOK
  <2> QED  BY <1>7, <2>1 DEF PullDrop, TypeOK
<1>8. CASE PullDelete(n)
  <2>1. objects' \in [Store -> SUBSET used]
    <3>1. PICK b \in plocal[n] :
            objects' = [objects EXCEPT ![n] = @ \ {b}] \/ UNCHANGED objects
      BY <1>8 DEF PullDelete, DeleteObject
    <3>2. CASE objects' = [objects EXCEPT ![n] = @ \ {b}]  BY <1>1, <3>2 DEF TypeOK
    <3>3. CASE UNCHANGED objects  BY <3>3 DEF TypeOK
    <3> QED  BY <3>1, <3>2, <3>3
  <2>2. plocal' \in Sets  BY <1>8 DEF PullDelete, TypeOK
  <2> QED  BY <1>8, <2>1, <2>2 DEF PullDelete, TypeOK
<1>9. CASE PullEnds(n)  BY <1>9 DEF PullEnds, TypeOK
<1>10. CASE CacheBlock(n)
  <2>1. objects' \in [Store -> SUBSET used]
    BY <1>1, <1>10 DEF CacheBlock, PutObject, TypeOK
  <2> QED  BY <1>10, <2>1 DEF CacheBlock, TypeOK
<1> QED  BY <1>3, <1>4, <1>5, <1>6, <1>7, <1>8, <1>9, <1>10 DEF Pull

LEMMA SeedType ==
  ASSUME TypeOK, NEW n \in Node, Seed(n) PROVE TypeOK'
<1> USE DEF stores, blocks, ingest, uploader, puller, seeder, Sets
<1>1. n \in Store /\ Shared \in Store /\ used \subseteq Block  BY StoreNodes DEF TypeOK
<1>2. CASE SeedCheck(n)  BY <1>2 DEF SeedCheck, TypeOK
<1>3. CASE SeedLoad(n)
  <2>1. Listed(n) \subseteq Block  BY DEF Listed
  <2> QED  BY <1>3, <2>1 DEF SeedLoad, TypeOK
<1>4. CASE SeedBlock(n)
  <2>1. PICK b \in sids[n] :
       /\ sids' = [sids EXCEPT ![n] = @ \ {b}]
       /\ \/ /\ b \in objects[n]
             /\ PutObject(Shared, b)
             /\ sput' = [sput EXCEPT ![n] = @ \cup {b}]
          \/ UNCHANGED <<objects, sput>>
    BY <1>4 DEF SeedBlock
  <2>2. b \in Block  BY <2>1 DEF TypeOK
  <2>3. sids' \in Sets  BY <2>1, <2>2 DEF TypeOK
  <2>4. sput' \in Sets
    <3>1. CASE sput' = [sput EXCEPT ![n] = @ \cup {b}]  BY <2>2, <3>1 DEF TypeOK
    <3> QED  BY <2>1, <3>1 DEF TypeOK
  <2>5. objects' \in [Store -> SUBSET used]
    <3>1. CASE b \in objects[n] /\ PutObject(Shared, b)
      <4>1. b \in used  BY <1>1, <3>1 DEF TypeOK
      <4> QED  BY <1>1, <3>1, <4>1 DEF PutObject, TypeOK
    <3> QED  BY <2>1, <3>1 DEF TypeOK
  <2> QED  BY <1>4, <2>3, <2>4, <2>5 DEF SeedBlock, TypeOK
<1>5. CASE SeedCommit(n)
  <2>1. manifest' \in [Store -> [Block -> 0..2]] /\ known' \in SUBSET Store
    <3>1. CASE SwapBlocks(Shared, {}, sput[n])  BY <1>1, <3>1, SwapFacts
    <3> QED  BY <1>5, <3>1 DEF SeedCommit, TypeOK
  <2> QED  BY <1>5, <2>1 DEF SeedCommit, TypeOK
<1> QED  BY <1>2, <1>3, <1>4, <1>5 DEF Seed

(* What a compaction does, with the sources and the merged block named.    *)
LEMMA CompactFacts ==
  ASSUME TypeOK, Compact
  PROVE  \E G \in SUBSET (Listed(Shared) \cap objects[Shared]), b \in Block \ used :
           /\ used' = used \cup {b}
           /\ rows' = [rows EXCEPT ![b] = UNION {rows[s] : s \in G}]
           /\ rows'[b] = UNION {rows[s] : s \in G}
           /\ \A d \in Block \ {b} : rows'[d] = rows[d]
           /\ objects' = [objects EXCEPT ![Shared] = @ \cup {b}]
           /\ Listed(Shared)' = (Listed(Shared) \ G) \cup {b}
           /\ \A t \in Node : manifest'[t] = manifest[t] /\ Listed(t)' = Listed(t)
           /\ manifest' \in [Store -> [Block -> 0..2]] /\ known' \in SUBSET Store
           /\ \A d \in Block : manifest'[Shared][d] <= 1
                               \/ manifest'[Shared][d] = manifest[Shared][d]
           /\ doomed' = doomed \cup G \/ ("swap" \in Faults /\ doomed' = doomed \cup {b})
<1>1. PICK G \in SUBSET (Listed(Shared) \cap objects[Shared]), b \in Block \ used :
           /\ used' = used \cup {b}
           /\ rows' = [rows EXCEPT ![b] = UNION {rows[s] : s \in G}]
           /\ PutObject(Shared, b)
           /\ SwapBlocks(Shared, G, {b})
           /\ doomed' = doomed \cup G \/ ("swap" \in Faults /\ doomed' = doomed \cup {b})
  BY DEF Compact
<1>2. G \subseteq used /\ b \notin G  BY <1>1, StoreNodes DEF TypeOK
<1>3. /\ Listed(Shared)' = (Listed(Shared) \cup ({b} \cap Block)) \ G
      /\ \A t \in Store \ {Shared} : manifest'[t] = manifest[t] /\ Listed(t)' = Listed(t)
      /\ manifest' \in [Store -> [Block -> 0..2]] /\ known' \in SUBSET Store
      /\ \A d \in Block : manifest'[Shared][d] <= 1
                          \/ manifest'[Shared][d] = manifest[Shared][d]
  BY <1>1, StoreNodes, SwapFacts
<1>4. Listed(Shared)' = (Listed(Shared) \ G) \cup {b}  BY <1>2, <1>3
<1>5. /\ rows'[b] = UNION {rows[s] : s \in G} /\ \A d \in Block \ {b} : rows'[d] = rows[d]
  BY <1>1 DEF TypeOK
<1>6. Node \subseteq Store \ {Shared}  BY StoreNodes
<1> QED  BY <1>1, <1>3, <1>4, <1>5, <1>6 DEF PutObject

LEMMA SharedType ==
  ASSUME TypeOK, Compact \/ DeleteMerged PROVE TypeOK'
<1> USE DEF stores, blocks, ingest, uploader, puller, seeder
<1>1. Shared \in Store /\ used \subseteq Block  BY StoreNodes DEF TypeOK
<1>2. CASE Compact
  <2>1. PICK G \in SUBSET (Listed(Shared) \cap objects[Shared]), b \in Block \ used :
           /\ used' = used \cup {b}
           /\ rows' = [rows EXCEPT ![b] = UNION {rows[s] : s \in G}]
           /\ objects' = [objects EXCEPT ![Shared] = @ \cup {b}]
           /\ manifest' \in [Store -> [Block -> 0..2]] /\ known' \in SUBSET Store
           /\ doomed' \subseteq doomed \cup G \cup {b}
    BY <1>2, CompactFacts
  <2>2. G \subseteq used  BY <1>1, <2>1 DEF TypeOK
  <2>3. UNION {rows[s] : s \in G} \subseteq Batch  BY <1>1, <2>2 DEF TypeOK
  <2>4. rows' \in [Block -> SUBSET Batch]  BY <2>1, <2>3 DEF TypeOK
  <2>5. used' \subseteq Block /\ doomed' \subseteq used' /\ pending' \in [Node -> SUBSET used']
    BY <1>2, <2>1, <2>2 DEF TypeOK, Compact
  <2>6. objects' \in [Store -> SUBSET used']  BY <1>1, <2>1 DEF TypeOK
  <2> QED  BY <1>2, <2>1, <2>4, <2>5, <2>6 DEF Compact, TypeOK
<1>3. CASE DeleteMerged
  <2>1. objects' \in [Store -> SUBSET used]
    BY <1>1, <1>3 DEF DeleteMerged, DeleteObject, TypeOK
  <2>2. doomed' \subseteq used  BY <1>3 DEF DeleteMerged, TypeOK
  <2> QED  BY <1>3, <2>1, <2>2 DEF DeleteMerged, TypeOK
<1> QED  BY <1>2, <1>3

LEMMA CrashType ==
  ASSUME TypeOK, NEW n \in Node, Crash(n) PROVE TypeOK'
<1> USE DEF stores, blocks, ingest, uploader, puller, seeder, Sets
<1>1. stage' \in [Batch -> {"idle", "written", "owed", "acked", "lost"}]
  BY DEF Crash, TypeOK
<1>2. /\ upc' \in [Node -> {"idle", "list", "put", "clear"}]
      /\ uids' \in Sets /\ uput' \in Sets /\ udone' \in Sets
  BY DEF Crash, UploadReset, TypeOK
<1>3. /\ ppc' \in [Node -> {"idle", "local", "add", "owned", "drop", "delete"}]
      /\ pshared' \in Sets /\ plocal' \in Sets
  BY DEF Crash, TypeOK
<1>4. /\ spc' \in [Node -> {"idle", "load", "put"}] /\ sids' \in Sets /\ sput' \in Sets
  BY DEF Crash, TypeOK
<1> QED  BY <1>1, <1>2, <1>3, <1>4 DEF Crash, TypeOK

LEMMA TypeNext == CoreInv /\ [Next]_vars => TypeOK'
<1> SUFFICES ASSUME CoreInv, [Next]_vars PROVE TypeOK'  OBVIOUS
<1>1. TypeOK  BY DEF CoreInv
<1>2. CASE UNCHANGED vars  BY <1>1, <1>2 DEF vars, TypeOK
<1> QED
  BY <1>1, <1>2, IngestType, UploadType, PullType, SeedType, SharedType, CrashType DEF Next

-----------------------------------------------------------------------------
(* Identities.                                                             *)

LEMMA IdsNext == CoreInv /\ [Next]_vars => IdsOK'
<1> SUFFICES ASSUME CoreInv, [Next]_vars PROVE IdsOK'  OBVIOUS
<1> USE DEF stores, blocks, ingest, uploader, puller, seeder
<1>1. TypeOK /\ IdsOK  BY DEF CoreInv
<1>2. CASE UNCHANGED <<rows, used, ingest>>  BY <1>1, <1>2 DEF IdsOK
<1>3. ASSUME NEW x \in Batch, WriteBlock(x) PROVE IdsOK'
  <2>1. PICK b \in Block : Draw(b, {x}) /\ id' = [id EXCEPT ![x] = b]
    BY <1>3 DEF WriteBlock
  <2>2. b \notin used /\ used' = used \cup {b} /\ rows' = [rows EXCEPT ![b] = {x}]
    BY <2>1 DEF Draw
  <2>3. stage' = [stage EXCEPT ![x] = "written"]  BY <1>3 DEF WriteBlock
  <2>4. id'[x] = b /\ rows'[b] = {x} /\ stage'[x] = "written"
    BY <1>1, <2>1, <2>2, <2>3 DEF TypeOK
  <2>5. ASSUME NEW y \in Batch, y # x
        PROVE  id'[y] = id[y] /\ stage'[y] = stage[y]
               /\ (id[y] \in used => rows'[id[y]] = rows[id[y]])
    BY <1>1, <2>1, <2>2, <2>3, <2>5 DEF TypeOK
  <2> QED  BY <1>1, <2>2, <2>4, <2>5 DEF IdsOK
<1>4. ASSUME NEW x \in Batch, AddPending(x) \/ AppendEntry(x) PROVE IdsOK'
  <2>1. /\ stage[x] # "idle" /\ stage'[x] # "idle"
        /\ \A y \in Batch \ {x} : stage'[y] = stage[y]
        /\ UNCHANGED <<rows, used, id>>
    BY <1>1, <1>4 DEF AddPending, AppendEntry, TypeOK
  <2> QED  BY <1>1, <2>1 DEF IdsOK
<1>5. CASE Compact
  <2>1. PICK b \in Block \ used :
          used' = used \cup {b} /\ \A d \in Block \ {b} : rows'[d] = rows[d]
    BY <1>1, <1>5, CompactFacts
  <2>2. used \subseteq Block  BY <1>1 DEF TypeOK
  <2> QED  BY <1>1, <1>5, <2>1, <2>2 DEF IdsOK, Compact
<1>6. ASSUME NEW n \in Node, Crash(n) PROVE IdsOK'
  <2>1. \A x \in Batch : (stage'[x] = "idle") <=> (stage[x] = "idle")
    BY <1>6 DEF Crash
  <2> QED  BY <1>1, <1>6, <2>1 DEF IdsOK, Crash
<1>7. ASSUME NEW n \in Node, Upload(n) \/ UploadFails(n) \/ UploadReplyLost(n)
      PROVE  UNCHANGED <<rows, used, doomed, ingest>>
  BY <1>7 DEF Upload, UploadStart, UploadList, UploadBlock, UploadCommit, UploadClear,
              UploadFails, UploadReplyLost
<1>8. ASSUME NEW n \in Node, Pull(n) \/ CacheBlock(n) \/ Seed(n)
      PROVE  UNCHANGED <<rows, used, doomed, ingest>>
  BY <1>8 DEF Pull, PullShared, PullLocal, PullAdd, PullOwned, PullDrop, PullDelete,
              PullEnds, CacheBlock, Seed, SeedCheck, SeedLoad, SeedBlock, SeedCommit
<1>9. DeleteMerged => UNCHANGED <<rows, used, ingest>>  BY DEF DeleteMerged
<1>10. UNCHANGED vars => UNCHANGED <<rows, used, ingest>>  BY DEF vars
<1> QED
  BY <1>2, <1>3, <1>4, <1>5, <1>6, <1>7, <1>8, <1>9, <1>10 DEF Next, Ingest

LEMMA CountsNext == CoreInv /\ [Next]_vars => CountsOK'
<1> SUFFICES ASSUME CoreInv, [Next]_vars PROVE CountsOK'  OBVIOUS
<1> USE DEF stores, blocks, ingest, uploader, puller, seeder
<1>1. TypeOK /\ IdsOK /\ CountsOK  BY DEF CoreInv
(* The second entries stay, no other step makes one.                       *)
<1>2. ASSUME \A x \in Batch : stage[x] = "acked" =>
               stage'[x] = "acked" /\ id'[x] = id[x] /\ home'[x] = home[x],
             \A s \in Store : \A b \in Block :
               manifest'[s][b] <= 1 \/ manifest'[s][b] = manifest[s][b]
      PROVE  CountsOK'
  BY <1>1, <1>2 DEF CountsOK
<1>3. ASSUME NEW x \in Batch, WriteBlock(x) PROVE CountsOK'
  <2>1. \A y \in Batch : stage[y] = "acked" =>
               stage'[y] = "acked" /\ id'[y] = id[y] /\ home'[y] = home[y]
    BY <1>1, <1>3 DEF WriteBlock, TypeOK
  <2> QED  BY <1>2, <1>3, <2>1 DEF WriteBlock
<1>4. ASSUME NEW x \in Batch, AddPending(x) PROVE CountsOK'
  <2>1. \A y \in Batch : stage[y] = "acked" =>
               stage'[y] = "acked" /\ id'[y] = id[y] /\ home'[y] = home[y]
    BY <1>1, <1>4 DEF AddPending, TypeOK
  <2> QED  BY <1>2, <1>4, <2>1 DEF AddPending
<1>5. ASSUME NEW x \in Batch, AppendEntry(x) PROVE CountsOK'
  <2>1. id[x] \in Block /\ home[x] \in Store /\ rows[id[x]] = {x}
    BY <1>1, <1>5, StoreNodes DEF AppendEntry, IdsOK, TypeOK
  <2>2. /\ stage'[x] = "acked" /\ id' = id /\ home' = home
        /\ \A y \in Batch \ {x} : stage'[y] = stage[y]
    BY <1>1, <1>5 DEF AppendEntry, TypeOK
  <2>3. manifest[home[x]][id[x]] <= 1
    <3>1. ASSUME NEW y \in Batch, stage[y] = "acked", id[y] = id[x] PROVE FALSE
      BY <1>1, <1>5, <2>1, <3>1 DEF IdsOK, AppendEntry
    <3> QED  BY <1>1, <2>1, <3>1 DEF CountsOK
  <2>4. /\ \A t \in Store \ {home[x]} : manifest'[t] = manifest[t]
        /\ \A d \in Block \ {id[x]} : manifest'[home[x]][d] = manifest[home[x]][d]
    BY <1>1, <1>5, <2>1, <2>3, PushFacts DEF AppendEntry
  <2> QED  BY <1>1, <1>5, <2>2, <2>4 DEF CountsOK
<1>6. ASSUME NEW n \in Node, Upload(n) \/ UploadFails(n) \/ UploadReplyLost(n) PROVE CountsOK'
  <2>1. UNCHANGED ingest
    BY <1>6 DEF Upload, UploadStart, UploadList, UploadBlock, UploadCommit, UploadClear,
                UploadFails, UploadReplyLost
  <2>2. UNCHANGED manifest \/ SwapBlocks(Shared, {}, uput[n])
    BY <1>6 DEF Upload, UploadStart, UploadList, UploadBlock, UploadCommit, UploadClear,
                UploadFails, UploadReplyLost
  <2> QED  BY <1>1, <1>2, <2>1, <2>2, SwapFacts, StoreNodes
<1>7. ASSUME NEW n \in Node, Pull(n) \/ CacheBlock(n) PROVE CountsOK'
  <2>1. UNCHANGED ingest
    BY <1>7 DEF Pull, PullShared, PullLocal, PullAdd, PullOwned, PullDrop, PullDelete,
              PullEnds, CacheBlock
  <2>2. \/ UNCHANGED manifest
        \/ SwapBlocks(n, {}, pshared[n] \ plocal[n]) \/ SwapBlocks(n, plocal[n], {})
    BY <1>7 DEF Pull, PullShared, PullLocal, PullAdd, PullOwned, PullDrop, PullDelete,
              PullEnds, CacheBlock
  <2>3. n \in Store  BY StoreNodes
  <2> QED  BY <1>1, <1>2, <2>1, <2>2, <2>3, SwapFacts
<1>8. ASSUME NEW n \in Node, Seed(n) PROVE CountsOK'
  <2>1. UNCHANGED ingest
    BY <1>8 DEF Seed, SeedCheck, SeedLoad, SeedBlock, SeedCommit
  <2>2. UNCHANGED manifest \/ SwapBlocks(Shared, {}, sput[n])
    BY <1>8 DEF Seed, SeedCheck, SeedLoad, SeedBlock, SeedCommit
  <2> QED  BY <1>1, <1>2, <2>1, <2>2, SwapFacts, StoreNodes
<1>9. CASE Compact
  <2>1. \A s \in Store : \A b \in Block :
               manifest'[s][b] <= 1 \/ manifest'[s][b] = manifest[s][b]
    BY <1>1, <1>9, CompactFacts DEF Store
  <2> QED  BY <1>2, <1>9, <2>1 DEF Compact
<1>10. CASE DeleteMerged  BY <1>2, <1>10 DEF DeleteMerged
<1>11. ASSUME NEW n \in Node, Crash(n) PROVE CountsOK'
  <2>1. \A x \in Batch : stage[x] = "acked" => stage'[x] = "acked"  BY <1>11 DEF Crash
  <2> QED  BY <1>2, <1>11, <2>1 DEF Crash
<1>12. CASE UNCHANGED vars  BY <1>2, <1>12 DEF vars
<1> QED
  BY <1>3, <1>4, <1>5, <1>6, <1>7, <1>8, <1>9, <1>10, <1>11, <1>12 DEF Next, Ingest

-----------------------------------------------------------------------------
(* What is named.                                                          *)

LEMMA ListedNamed ==
  ASSUME TypeOK
  PROVE  \A s \in Store : \A b \in Block :
           /\ b \in Listed(s) <=> manifest[s][b] > 0
           /\ b \in Listed(s) => Named(b)
BY DEF Listed, Named

(* The passes of the tasks bring up no new name.                           *)
LEMMA UploadNames ==
  ASSUME TypeOK, NEW n \in Node, Upload(n) \/ UploadFails(n) \/ UploadReplyLost(n), NEW b \in Block, Named(b)'
  PROVE  Named(b)
<1> USE DEF stores, blocks, ingest, uploader, puller, seeder
<1>1. /\ doomed' = doomed /\ \A m \in Node : pending'[m] \subseteq pending[m]
      /\ pshared' = pshared /\ plocal' = plocal /\ sids' = sids /\ sput' = sput
  BY DEF TypeOK, Upload, UploadStart, UploadList, UploadBlock, UploadCommit, UploadClear, UploadFails, UploadReplyLost
<1>2. \A m \in Node \ {n} : uids'[m] = uids[m] /\ uput'[m] = uput[m] /\ udone'[m] = udone[m]
  BY DEF TypeOK, Sets, Upload, UploadStart, UploadList, UploadBlock, UploadCommit, UploadClear,
         UploadFails, UploadReplyLost, UploadReset
<1>3. (b \in uids'[n] \/ b \in uput'[n] \/ b \in udone'[n]) =>
        (b \in pending[n] \/ b \in uids[n] \/ b \in uput[n] \/ b \in udone[n])
  <2> USE DEF TypeOK, Sets
  <2>1. CASE UploadStart(n)
    BY <2>1 DEF UploadStart, PendingRead
  <2>2. CASE UploadList(n)  BY <2>2 DEF UploadList
  <2>3. CASE UploadBlock(n)
    <3>1. PICK d \in uids[n] :
       /\ uids' = [uids EXCEPT ![n] = @ \ {d}]
       /\ uput' = [uput EXCEPT ![n] = @ \cup {d}] \/ UNCHANGED uput
       /\ udone' = [udone EXCEPT ![n] = @ \cup {d}] \/ UNCHANGED udone
      BY <2>3 DEF UploadBlock
    <3>2. uids'[n] = uids[n] \ {d}  BY <3>1
    <3>3. uput'[n] \subseteq uput[n] \cup {d}  BY <3>1
    <3>4. udone'[n] \subseteq udone[n] \cup {d}  BY <3>1
    <3> QED  BY <3>1, <3>2, <3>3, <3>4
  <2>4. CASE UploadCommit(n)  BY <2>4 DEF UploadCommit
  <2>5. CASE UploadClear(n) \/ UploadFails(n) \/ UploadReplyLost(n)
    BY <2>5 DEF UploadClear, UploadFails, UploadReplyLost, UploadReset
  <2> QED  BY <2>1, <2>2, <2>3, <2>4, <2>5 DEF Upload
<1>4. \A s \in Store : manifest'[s][b] > 0 => Named(b)
  <2>1. UNCHANGED manifest \/ SwapBlocks(Shared, {}, uput[n])
    BY DEF Upload, UploadStart, UploadList, UploadBlock, UploadCommit, UploadClear, UploadFails, UploadReplyLost
  <2>2. CASE UNCHANGED manifest  BY <2>2 DEF Named
  <2>3. CASE SwapBlocks(Shared, {}, uput[n])
    <3>1. /\ Listed(Shared)' = (Listed(Shared) \cup (uput[n] \cap Block)) \ {}
          /\ \A t \in Store \ {Shared} : manifest'[t] = manifest[t]
      BY <2>3, SwapFacts, StoreNodes
    <3>2. manifest'[Shared][b] > 0 => manifest[Shared][b] > 0 \/ b \in uput[n]
      BY <3>1 DEF Listed
    <3> QED  BY <3>1, <3>2, StoreNodes DEF Named
  <2> QED  BY <2>1, <2>2, <2>3
<1> QED  BY <1>1, <1>2, <1>3, <1>4 DEF Named

LEMMA PullNames ==
  ASSUME TypeOK, NEW n \in Node, Pull(n) \/ CacheBlock(n), NEW b \in Block, Named(b)'
  PROVE  Named(b)
<1> USE DEF stores, blocks, ingest, uploader, puller, seeder
<1>1. /\ doomed' = doomed /\ pending' = pending
      /\ uids' = uids /\ uput' = uput /\ udone' = udone /\ sids' = sids /\ sput' = sput
  BY DEF Pull, PullShared, PullLocal, PullAdd, PullOwned, PullDrop, PullDelete,
         PullEnds, CacheBlock
<1>2. \A m \in Node \ {n} : pshared'[m] = pshared[m] /\ plocal'[m] = plocal[m]
  BY DEF TypeOK, Sets, Pull, PullShared, PullLocal, PullAdd, PullOwned, PullDrop, PullDelete,
         PullEnds, CacheBlock
<1>3. (b \in pshared'[n] \/ b \in plocal'[n]) =>
        (b \in pshared[n] \/ b \in plocal[n] \/ b \in Listed(n) \/ b \in Listed(Shared))
  <2> USE DEF TypeOK, Sets
  <2>1. CASE PullShared(n) \/ PullLocal(n)  BY <2>1 DEF PullShared, PullLocal
  <2>2. CASE PullOwned(n)  BY <2>2 DEF PullOwned
  <2>3. CASE PullDelete(n)  BY <2>3 DEF PullDelete
  <2>4. CASE PullAdd(n) \/ PullDrop(n) \/ PullEnds(n) \/ CacheBlock(n)
    BY <2>4 DEF PullAdd, PullDrop, PullEnds, CacheBlock
  <2> QED  BY <2>1, <2>2, <2>3, <2>4 DEF Pull
<1>4. b \in Listed(n) \/ b \in Listed(Shared) => Named(b)  BY ListedNamed, StoreNodes
<1>5. \A s \in Store : manifest'[s][b] > 0 => Named(b)
  <2>1. \/ UNCHANGED manifest
        \/ SwapBlocks(n, {}, pshared[n] \ plocal[n]) \/ SwapBlocks(n, plocal[n], {})
    BY DEF Pull, PullShared, PullLocal, PullAdd, PullOwned, PullDrop, PullDelete,
           PullEnds, CacheBlock
  <2>2. CASE UNCHANGED manifest  BY <2>2 DEF Named
  <2>3. ASSUME NEW remove, NEW add, SwapBlocks(n, remove, add), b \in add => Named(b)
        PROVE  \A s \in Store : manifest'[s][b] > 0 => Named(b)
    <3>1. /\ Listed(n)' = (Listed(n) \cup (add \cap Block)) \ remove
          /\ \A t \in Store \ {n} : manifest'[t] = manifest[t]
      BY <2>3, SwapFacts, StoreNodes
    <3>2. manifest'[n][b] > 0 => manifest[n][b] > 0 \/ b \in add
      BY <3>1 DEF Listed
    <3> QED  BY <2>3, <3>1, <3>2, StoreNodes DEF Named
  <2>4. b \in pshared[n] => Named(b)  BY DEF Named
  <2> QED  BY <2>1, <2>2, <2>3, <2>4
<1> QED  BY <1>1, <1>2, <1>3, <1>4, <1>5 DEF Named

LEMMA SeedNames ==
  ASSUME TypeOK, NEW n \in Node, Seed(n), NEW b \in Block, Named(b)'
  PROVE  Named(b)
<1> USE DEF stores, blocks, ingest, uploader, puller, seeder
<1>1. /\ doomed' = doomed /\ pending' = pending
      /\ uids' = uids /\ uput' = uput /\ udone' = udone
      /\ pshared' = pshared /\ plocal' = plocal
  BY DEF Seed, SeedCheck, SeedLoad, SeedBlock, SeedCommit
<1>2. \A m \in Node \ {n} : sids'[m] = sids[m] /\ sput'[m] = sput[m]
  BY DEF TypeOK, Sets, Seed, SeedCheck, SeedLoad, SeedBlock, SeedCommit
<1>3. (b \in sids'[n] \/ b \in sput'[n]) => (b \in sids[n] \/ b \in sput[n] \/ b \in Listed(n))
  <2> USE DEF TypeOK, Sets
  <2>1. CASE SeedCheck(n)  BY <2>1 DEF SeedCheck
  <2>2. CASE SeedLoad(n)  BY <2>2 DEF SeedLoad
  <2>3. CASE SeedBlock(n)
    <3>1. PICK d \in sids[n] :
       /\ sids' = [sids EXCEPT ![n] = @ \ {d}]
       /\ sput' = [sput EXCEPT ![n] = @ \cup {d}] \/ UNCHANGED sput
      BY <2>3 DEF SeedBlock
    <3>2. sids'[n] = sids[n] \ {d}  BY <3>1
    <3>3. sput'[n] \subseteq sput[n] \cup {d}  BY <3>1
    <3> QED  BY <3>1, <3>2, <3>3
  <2>4. CASE SeedCommit(n)  BY <2>4 DEF SeedCommit
  <2> QED  BY <2>1, <2>2, <2>3, <2>4 DEF Seed
<1>4. b \in Listed(n) => Named(b)  BY ListedNamed, StoreNodes
<1>5. \A s \in Store : manifest'[s][b] > 0 => Named(b)
  <2>1. UNCHANGED manifest \/ SwapBlocks(Shared, {}, sput[n])
    BY DEF Seed, SeedCheck, SeedLoad, SeedBlock, SeedCommit
  <2>2. CASE UNCHANGED manifest  BY <2>2 DEF Named
  <2>3. CASE SwapBlocks(Shared, {}, sput[n])
    <3>1. /\ Listed(Shared)' = (Listed(Shared) \cup (sput[n] \cap Block)) \ {}
          /\ \A t \in Store \ {Shared} : manifest'[t] = manifest[t]
      BY <2>3, SwapFacts, StoreNodes
    <3>2. manifest'[Shared][b] > 0 => manifest[Shared][b] > 0 \/ b \in sput[n]
      BY <3>1 DEF Listed
    <3> QED  BY <3>1, <3>2, StoreNodes DEF Named
  <2> QED  BY <2>1, <2>2, <2>3
<1> QED  BY <1>1, <1>2, <1>3, <1>4, <1>5 DEF Named

LEMMA CrashNames ==
  ASSUME TypeOK, NEW n \in Node, Crash(n), NEW b \in Block, Named(b)'
  PROVE  Named(b)
<1> USE DEF stores, blocks, ingest, uploader, puller, seeder
<1>1. doomed' = doomed /\ pending' = pending /\ manifest' = manifest  BY DEF Crash
<1>2. \A m \in Node :
        /\ uids'[m] \subseteq uids[m] /\ uput'[m] \subseteq uput[m] /\ udone'[m] \subseteq udone[m]
        /\ pshared'[m] \subseteq pshared[m] /\ plocal'[m] \subseteq plocal[m]
        /\ sids'[m] \subseteq sids[m] /\ sput'[m] \subseteq sput[m]
  BY DEF Crash, UploadReset, TypeOK, Sets
<1> QED  BY <1>1, <1>2 DEF Named

(* An object of a node goes only when a pass of its puller names it.       *)
LEMMA LocalObjects ==
  ASSUME TypeOK, [Next]_vars, NEW m \in Node, NEW b \in Block, b \in objects[m]
  PROVE  b \in objects'[m]
         \/ (PullDelete(m) /\ b \in plocal[m] /\ objects' = [objects EXCEPT ![m] = @ \ {b}])
<1> USE DEF stores, blocks, ingest, uploader, puller, seeder
<1>1. m \in Store /\ m # Shared /\ Shared \in Store /\ objects \in [Store -> SUBSET used]
  BY StoreNodes DEF TypeOK
<1>2. ASSUME NEW s \in Store, NEW d, PutObject(s, d) PROVE b \in objects'[m]
  BY <1>1, <1>2 DEF PutObject
<1>3. ASSUME NEW x \in Batch, Ingest(x) PROVE b \in objects'[m]
  <2>1. CASE WriteBlock(x)
    <3>1. PICK d \in Block : PutObject(home[x], d)  BY <2>1 DEF WriteBlock
    <3>2. home[x] \in Store  BY StoreNodes DEF TypeOK
    <3> QED  BY <1>2, <3>1, <3>2
  <2> QED  BY <1>3, <2>1 DEF Ingest, AddPending, AppendEntry
<1>4. ASSUME NEW n \in Node, Upload(n) \/ UploadFails(n) \/ UploadReplyLost(n) PROVE b \in objects'[m]
  <2>1. UNCHANGED objects \/ \E d : PutObject(Shared, d)
    BY <1>4 DEF Upload, UploadStart, UploadList, UploadBlock, UploadCommit, UploadClear, UploadFails, UploadReplyLost
  <2> QED  BY <1>1, <1>2, <2>1
<1>5. ASSUME NEW n \in Node, Seed(n) PROVE b \in objects'[m]
  <2>1. UNCHANGED objects \/ \E d : PutObject(Shared, d)
    BY <1>5 DEF Seed, SeedCheck, SeedLoad, SeedBlock, SeedCommit
  <2> QED  BY <1>1, <1>2, <2>1
<1>6. ASSUME NEW n \in Node, Pull(n) \/ CacheBlock(n)
      PROVE  b \in objects'[m]
         \/ (PullDelete(m) /\ b \in plocal[m] /\ objects' = [objects EXCEPT ![m] = @ \ {b}])
  <2>1. CASE PullDelete(n)
    <3>1. PICK d \in plocal[n] : DeleteObject(n, d)  BY <2>1 DEF PullDelete
    <3>2. n \in Store  BY StoreNodes
    <3>3. CASE n = m /\ d = b  BY <1>1, <2>1, <3>1, <3>3 DEF DeleteObject
    <3>4. CASE n # m \/ d # b  BY <1>1, <3>1, <3>2, <3>4 DEF DeleteObject
    <3> QED  BY <3>3, <3>4
  <2>2. CASE CacheBlock(n)
    <3>1. PICK d : PutObject(n, d)  BY <2>2 DEF CacheBlock
    <3> QED  BY <1>2, <3>1, StoreNodes
  <2> QED
    BY <1>1, <1>6, <2>1, <2>2
    DEF Pull, PullShared, PullLocal, PullAdd, PullOwned, PullDrop, PullEnds
<1>7. CASE Compact  BY <1>1, <1>7, CompactFacts
<1>8. CASE DeleteMerged  BY <1>1, <1>8 DEF DeleteMerged, DeleteObject
<1>9. ASSUME NEW n \in Node, Crash(n) PROVE b \in objects'[m]  BY <1>9 DEF Crash
<1>10. CASE UNCHANGED vars  BY <1>10 DEF vars
<1> QED  BY <1>3, <1>4, <1>5, <1>6, <1>7, <1>8, <1>9, <1>10 DEF Next

LEMMA NamedNext == BaseInv /\ [Next]_vars => NamedOK'
<1> SUFFICES ASSUME BaseInv, [Next]_vars PROVE NamedOK'  OBVIOUS
<1> USE DEF stores, blocks, ingest, uploader, puller, seeder
<1>1. TypeOK /\ IdsOK /\ NamedOK  BY DEF BaseInv, CoreInv
<1>2. ASSUME \A b \in Block : Named(b)' => Named(b),
             used' = used,
             \A x \in Batch : stage'[x] = "written" =>
               stage[x] = "written" /\ id'[x] = id[x] /\ home'[x] = home[x]
      PROVE  NamedOK'
  <2>1. \A b \in Block : Named(b)' => b \in used'  BY <1>1, <1>2 DEF NamedOK
  <2>2. ASSUME NEW x \in Batch, stage'[x] = "written"
        PROVE  ~Named(id[x])' /\ id'[x] \in objects'[home'[x]]
    <3>1. PICK b : b = id[x]  OBVIOUS
    <3>2. PICK m : m = home[x]  OBVIOUS
    <3>3. id'[x] = b /\ home'[x] = m /\ b \in Block /\ m \in Node
          /\ ~Named(b) /\ b \in objects[m]
      BY <1>1, <1>2, <2>2, <3>1, <3>2 DEF NamedOK, IdsOK, TypeOK
    <3>4. b \notin plocal[m]  BY <3>3 DEF Named
    <3>5. b \in objects'[m]  BY <1>1, <3>3, <3>4, LocalObjects
    <3>6. ~Named(b)'  BY <1>2, <3>3
    <3> QED  BY <3>3, <3>5, <3>6 DEF Named
  <2> QED  BY <2>1, <2>2 DEF NamedOK
<1>3. ASSUME NEW x \in Batch, WriteBlock(x) PROVE NamedOK'
  <2>1. PICK b \in Block : Draw(b, {x}) /\ PutObject(home[x], b) /\ id' = [id EXCEPT ![x] = b]
    BY <1>3 DEF WriteBlock
  <2>2. /\ b \notin used /\ used' = used \cup {b} /\ doomed' = doomed
        /\ objects' = [objects EXCEPT ![home[x]] = @ \cup {b}]
        /\ stage' = [stage EXCEPT ![x] = "written"] /\ home' = home
    BY <1>3, <2>1 DEF Draw, PutObject, WriteBlock
  <2>3. \A d : Named(d)' <=> Named(d)  BY <1>3, <2>2 DEF Named, WriteBlock
  <2>4. id'[x] = b /\ b \in objects'[home'[x]]
    BY <1>1, <2>1, <2>2, StoreNodes DEF TypeOK
  <2>5. ~Named(b)'  BY <1>1, <2>2, <2>3 DEF NamedOK
  <2>6. ASSUME NEW y \in Batch, y # x, stage'[y] = "written"
        PROVE  ~Named(id[y])' /\ id'[y] \in objects'[home'[y]]
    <3>1. PICK d : d = id[y]  OBVIOUS
    <3>2. id'[y] = d /\ stage[y] = "written" /\ home[y] \in Store /\ home[x] \in Store
      BY <1>1, <2>1, <2>2, <2>6, <3>1, StoreNodes DEF TypeOK
    <3>3. ~Named(d) /\ d \in objects[home[y]]  BY <1>1, <3>1, <3>2 DEF NamedOK
    <3>4. d \in objects'[home'[y]]  BY <1>1, <2>2, <3>2, <3>3 DEF TypeOK
    <3> QED  BY <2>3, <3>2, <3>3, <3>4 DEF Named
  <2>7. \A d \in Block : Named(d)' => d \in used'  BY <1>1, <2>2, <2>3 DEF NamedOK
  <2> QED  BY <2>4, <2>5, <2>6, <2>7 DEF NamedOK, Named
(* The block of x becomes named, and x goes on.                            *)
<1>4. ASSUME NEW x \in Batch, AddPending(x) \/ AppendEntry(x) PROVE NamedOK'
  <2>1. PICK b : b = id[x]  OBVIOUS
  <2>2. b \in Block /\ b \in used /\ rows[b] = {x} /\ home[x] \in Node
        /\ stage[x] \in {"written", "owed"}
    BY <1>1, <1>4, <2>1 DEF IdsOK, TypeOK, AddPending, AppendEntry
  <2>3. /\ objects' = objects /\ used' = used /\ id' = id /\ home' = home
        /\ stage'[x] # "written" /\ \A y \in Batch \ {x} : stage'[y] = stage[y]
        /\ doomed' = doomed
        /\ uids' = uids /\ uput' = uput /\ udone' = udone
        /\ pshared' = pshared /\ plocal' = plocal /\ sids' = sids /\ sput' = sput
    BY <1>1, <1>4 DEF AddPending, AppendEntry, TypeOK
  <2>4. \A m \in Node : pending'[m] \subseteq pending[m] \cup {b}
    BY <1>1, <1>4, <2>1 DEF AddPending, AppendEntry, PendingRead, TypeOK
  <2>5. \A s \in Store : \A d \in Block : manifest'[s][d] > 0 => manifest[s][d] > 0 \/ d = b
    <3>1. CASE AddPending(x)  BY <3>1 DEF AddPending
    <3>2. CASE AppendEntry(x)
      <4>1. manifest[home[x]][b] <= 1
        <5>1. ASSUME NEW y \in Batch, stage[y] = "acked", id[y] = b PROVE FALSE
          BY <1>1, <2>1, <2>2, <3>2, <5>1 DEF IdsOK, AppendEntry
        <5> QED  BY <2>2, <5>1, StoreNodes DEF BaseInv, CoreInv, CountsOK
      <4> QED  BY <1>1, <2>1, <2>2, <3>2, <4>1, PushFacts, StoreNodes DEF AppendEntry
    <3> QED  BY <1>4, <3>1, <3>2
  <2>6. \A d \in Block : Named(d)' => Named(d) \/ d = b  BY <2>3, <2>4, <2>5 DEF Named
  <2>7. \A d \in Block : Named(d)' => d \in used'  BY <1>1, <2>2, <2>3, <2>6 DEF NamedOK
  <2>8. ASSUME NEW y \in Batch, stage'[y] = "written"
        PROVE  ~Named(id[y])' /\ id'[y] \in objects'[home'[y]]
    <3>1. PICK d : d = id[y]  OBVIOUS
    <3>2. y # x /\ stage[y] = "written" /\ id'[y] = d  BY <2>3, <2>8, <3>1
    <3>3. d \in Block /\ rows[d] = {y} /\ ~Named(d) /\ d \in objects[home[y]]
      BY <1>1, <3>1, <3>2 DEF NamedOK, IdsOK, TypeOK
    <3>4. d # b  BY <2>2, <3>2, <3>3
    <3> QED  BY <2>3, <2>6, <3>2, <3>3, <3>4 DEF Named
  <2> QED  BY <2>7, <2>8 DEF NamedOK
<1>5. ASSUME NEW n \in Node, Upload(n) \/ UploadFails(n) \/ UploadReplyLost(n) PROVE NamedOK'
  <2>1. used' = used /\ UNCHANGED ingest
    BY <1>5 DEF Upload, UploadStart, UploadList, UploadBlock, UploadCommit, UploadClear, UploadFails, UploadReplyLost
  <2> QED  BY <1>1, <1>2, <1>5, <2>1, UploadNames
<1>6. ASSUME NEW n \in Node, Pull(n) \/ CacheBlock(n) PROVE NamedOK'
  <2>1. used' = used /\ UNCHANGED ingest
    BY <1>6 DEF Pull, PullShared, PullLocal, PullAdd, PullOwned, PullDrop, PullDelete,
                PullEnds, CacheBlock
  <2> QED  BY <1>1, <1>2, <1>6, <2>1, PullNames
<1>7. ASSUME NEW n \in Node, Seed(n) PROVE NamedOK'
  <2>1. used' = used /\ UNCHANGED ingest
    BY <1>7 DEF Seed, SeedCheck, SeedLoad, SeedBlock, SeedCommit
  <2> QED  BY <1>1, <1>2, <1>7, <2>1, SeedNames
<1>8. CASE Compact
  <2>1. PICK G \in SUBSET (Listed(Shared) \cap objects[Shared]), b \in Block \ used :
           /\ used' = used \cup {b}
           /\ objects' = [objects EXCEPT ![Shared] = @ \cup {b}]
           /\ Listed(Shared)' = (Listed(Shared) \ G) \cup {b}
           /\ \A t \in Node : manifest'[t] = manifest[t]
           /\ doomed' \subseteq doomed \cup G \cup {b}
    BY <1>1, <1>8, CompactFacts
  <2>2. \A s \in Store : \A d \in Block : manifest'[s][d] > 0 => manifest[s][d] > 0 \/ d = b
    <3>1. \A d \in Block : manifest'[Shared][d] > 0 => manifest[Shared][d] > 0 \/ d = b
      BY <2>1 DEF Listed
    <3> QED  BY <2>1, <3>1 DEF Store
  <2>3. \A d \in G : Named(d)  BY <1>1, <2>1, ListedNamed, StoreNodes DEF Listed
  <2>4. \A d \in Block : Named(d)' => Named(d) \/ d = b
    BY <1>8, <2>1, <2>2, <2>3 DEF Named, Compact
  <2>5. \A d \in Block : Named(d)' => d \in used'  BY <1>1, <2>1, <2>4 DEF NamedOK
  <2>6. ASSUME NEW x \in Batch, stage'[x] = "written"
        PROVE  ~Named(id[x])' /\ id'[x] \in objects'[home'[x]]
    <3>1. PICK d : d = id[x]  OBVIOUS
    <3>2. stage[x] = "written" /\ id'[x] = d /\ home'[x] = home[x] /\ home[x] \in Store
      BY <1>1, <1>8, <2>6, <3>1, StoreNodes DEF Compact, TypeOK
    <3>3. d \in Block /\ d \in used /\ ~Named(d) /\ d \in objects[home[x]]
      BY <1>1, <3>1, <3>2 DEF NamedOK, IdsOK, TypeOK
    <3>4. d \in objects'[home[x]]  BY <1>1, <2>1, <3>2, <3>3, StoreNodes DEF TypeOK
    <3> QED  BY <2>1, <2>4, <3>2, <3>3, <3>4 DEF Named
  <2> QED  BY <2>5, <2>6 DEF NamedOK
<1>9. CASE DeleteMerged
  <2>1. doomed' \subseteq doomed  BY <1>9 DEF DeleteMerged
  <2>2. \A b \in Block : Named(b)' => Named(b)  BY <1>9, <2>1 DEF DeleteMerged, Named
  <2> QED  BY <1>2, <1>9, <2>2 DEF DeleteMerged
<1>10. ASSUME NEW n \in Node, Crash(n) PROVE NamedOK'
  <2>1. \A x \in Batch : stage'[x] = "written" => stage[x] = "written"  BY <1>10 DEF Crash
  <2>2. used' = used /\ id' = id /\ home' = home  BY <1>10 DEF Crash
  <2> QED  BY <1>1, <1>2, <1>10, <2>1, <2>2, CrashNames
<1>11. CASE UNCHANGED vars
  <2>1. \A b \in Block : Named(b)' => Named(b)  BY <1>11 DEF vars, Named
  <2> QED  BY <1>2, <1>11, <2>1 DEF vars
<1> QED
  BY <1>3, <1>4, <1>5, <1>6, <1>7, <1>8, <1>9, <1>10, <1>11 DEF Next, Ingest

LEMMA CoreNext == CoreInv /\ [Next]_vars => CoreInv'
BY TypeNext, IdsNext, CountsNext DEF CoreInv

LEMMA BaseNext == BaseInv /\ [Next]_vars => BaseInv'
BY CoreNext, NamedNext DEF BaseInv

(* The names of blocks, the entries of the manifests.                      *)
THEOREM BaseCorrect == Spec => []BaseInv
BY InitBase, BaseNext, PTL DEF Spec

(* TypeOK: no store lists a block more than twice, among others.           *)
THEOREM TypeCorrect == Spec => []TypeOK
<1>1. BaseInv => TypeOK  BY DEF BaseInv, CoreInv
<1> QED  BY <1>1, BaseCorrect, PTL

-----------------------------------------------------------------------------
(* A replicated row stays.  A block merged away is covered by blocks that  *)
(* are there to stay, so it does no harm that an upload or a seeding puts  *)
(* it on the list again before it is deleted.                              *)

InShared(x) == \E b \in Listed(Shared) \cap objects[Shared] : x \in rows[b]

Covered(x) == \E b \in (Listed(Shared) \cap objects[Shared]) \ doomed : x \in rows[b]

CoverOK == \A b \in doomed : \A x \in rows[b] : Covered(x)

SharedGrows ==
  /\ Listed(Shared) \subseteq Listed(Shared)' /\ objects[Shared] \subseteq objects'[Shared]
  /\ doomed' = doomed /\ used \subseteq used' /\ \A b \in used : rows'[b] = rows[b]

LEMMA SharedStep ==
  ASSUME TypeOK, [Next]_vars
  PROVE  SharedGrows \/ Compact \/ DeleteMerged
<1> USE DEF stores, blocks, ingest, uploader, puller, seeder
<1>1. Shared \in Store /\ objects \in [Store -> SUBSET used] /\ Listed(Shared) \subseteq Block
  BY StoreNodes DEF TypeOK, Listed
<1>2. ASSUME NEW s \in Store, NEW d, PutObject(s, d)
      PROVE  objects[Shared] \subseteq objects'[Shared]
  BY <1>1, <1>2 DEF PutObject
<1>3. ASSUME NEW s \in Node, NEW remove, NEW add, SwapBlocks(s, remove, add)
      PROVE  Listed(Shared)' = Listed(Shared)
  BY <1>3, SwapFacts, StoreNodes
<1>4. ASSUME NEW add, SwapBlocks(Shared, {}, add)
      PROVE  Listed(Shared) \subseteq Listed(Shared)'
  BY <1>4, SwapFacts, StoreNodes
<1>5. UNCHANGED manifest => Listed(Shared)' = Listed(Shared)  BY DEF Listed
<1>6. ASSUME NEW x \in Batch, Ingest(x) PROVE SharedGrows
  <2>1. home[x] \in Node /\ home[x] \in Store  BY StoreNodes DEF TypeOK
  <2>2. CASE WriteBlock(x)
    <3>1. PICK b \in Block : Draw(b, {x}) /\ PutObject(home[x], b)  BY <2>2 DEF WriteBlock
    <3>2. objects[Shared] \subseteq objects'[Shared]  BY <1>2, <2>1, <3>1
    <3>3. used \subseteq used' /\ doomed' = doomed /\ \A d \in used : rows'[d] = rows[d]
      BY <3>1 DEF Draw, TypeOK
    <3> QED  BY <1>5, <2>2, <3>2, <3>3 DEF SharedGrows, WriteBlock
  <2>3. CASE AddPending(x)  BY <1>5, <2>3 DEF SharedGrows, AddPending
  <2>4. CASE AppendEntry(x)
    <3>1. manifest' = [manifest EXCEPT ![home[x]][id[x]] = @ + 1]
      BY <2>4 DEF AppendEntry, Push
    <3>2. manifest'[Shared] = manifest[Shared]  BY <2>1, <3>1, StoreNodes DEF TypeOK
    <3>3. Listed(Shared)' = Listed(Shared)  BY <3>2 DEF Listed
    <3> QED  BY <2>4, <3>3 DEF SharedGrows, AppendEntry
  <2> QED  BY <1>6, <2>2, <2>3, <2>4 DEF Ingest
<1>7. ASSUME NEW n \in Node, Upload(n) \/ UploadFails(n) \/ UploadReplyLost(n) PROVE SharedGrows
  <2> USE DEF Upload, UploadStart, UploadList, UploadBlock, UploadCommit, UploadClear, UploadFails, UploadReplyLost
  <2>1. UNCHANGED objects \/ \E d : PutObject(Shared, d)  BY <1>7
  <2>2. UNCHANGED manifest \/ SwapBlocks(Shared, {}, uput[n])  BY <1>7
  <2>3. UNCHANGED blocks  BY <1>7
  <2> QED  BY <1>1, <1>2, <1>4, <1>5, <2>1, <2>2, <2>3 DEF SharedGrows
<1>8. ASSUME NEW n \in Node, Pull(n) \/ CacheBlock(n) PROVE SharedGrows
  <2> USE DEF Pull, PullShared, PullLocal, PullAdd, PullOwned, PullDrop, PullDelete, PullEnds, CacheBlock
  <2>1. UNCHANGED objects \/ (\E d : PutObject(n, d)) \/ (\E d : DeleteObject(n, d))
    BY <1>8
  <2>2. \/ UNCHANGED manifest
        \/ SwapBlocks(n, {}, pshared[n] \ plocal[n]) \/ SwapBlocks(n, plocal[n], {})
    BY <1>8
  <2>3. UNCHANGED blocks  BY <1>8
  <2>4. n \in Store /\ n # Shared  BY StoreNodes
  <2>5. objects[Shared] \subseteq objects'[Shared]
    BY <1>1, <1>2, <2>1, <2>4 DEF DeleteObject
  <2> QED  BY <1>3, <1>5, <2>2, <2>3, <2>5 DEF SharedGrows
<1>9. ASSUME NEW n \in Node, Seed(n) PROVE SharedGrows
  <2> USE DEF Seed, SeedCheck, SeedLoad, SeedBlock, SeedCommit
  <2>1. UNCHANGED objects \/ \E d : PutObject(Shared, d)  BY <1>9
  <2>2. UNCHANGED manifest \/ SwapBlocks(Shared, {}, sput[n])  BY <1>9
  <2>3. UNCHANGED blocks  BY <1>9
  <2> QED  BY <1>1, <1>2, <1>4, <1>5, <2>1, <2>2, <2>3 DEF SharedGrows
<1>10. ASSUME NEW n \in Node, Crash(n) PROVE SharedGrows
  BY <1>5, <1>10 DEF Crash, SharedGrows
<1>11. CASE UNCHANGED vars  BY <1>5, <1>11 DEF vars, SharedGrows
<1> QED  BY <1>6, <1>7, <1>8, <1>9, <1>10, <1>11 DEF Next

LEMMA CoverNext ==
  ASSUME BaseInv, CoverOK, [Next]_vars, "swap" \notin Faults
  PROVE  /\ CoverOK'
         /\ \A x \in Batch : InShared(x) => InShared(x)'
         /\ \A x \in Batch : Covered(x) => Covered(x)'
<1>1. TypeOK /\ used \subseteq Block /\ doomed \subseteq used /\ objects[Shared] \subseteq used
      /\ rows \in [Block -> SUBSET Batch]
  BY StoreNodes DEF BaseInv, CoreInv, TypeOK
<1>2. CASE SharedGrows
  <2>1. \A x \in Batch : InShared(x) => InShared(x)'
    BY <1>1, <1>2 DEF SharedGrows, InShared
  <2>2. \A x \in Batch : Covered(x) => Covered(x)'
    BY <1>1, <1>2 DEF SharedGrows, Covered
  <2>3. \A b \in doomed' : b \in doomed /\ rows'[b] = rows[b] /\ rows[b] \subseteq Batch
    BY <1>1, <1>2 DEF SharedGrows
  <2>4. CoverOK'  BY <2>2, <2>3 DEF CoverOK
  <2> QED  BY <2>1, <2>2, <2>4
<1>3. CASE Compact
  <2>1. PICK G \in SUBSET (Listed(Shared) \cap objects[Shared]), b \in Block \ used :
           /\ rows'[b] = UNION {rows[s] : s \in G}
           /\ \A d \in Block \ {b} : rows'[d] = rows[d]
           /\ objects' = [objects EXCEPT ![Shared] = @ \cup {b}]
           /\ Listed(Shared)' = (Listed(Shared) \ G) \cup {b}
           /\ doomed' = doomed \cup G
    BY <1>1, <1>3, CompactFacts
  <2>2. objects'[Shared] = objects[Shared] \cup {b}
    BY <1>1, <2>1, StoreNodes DEF TypeOK
  <2>3. G \subseteq used /\ b \notin doomed' /\ b \in Listed(Shared)' /\ b \in objects'[Shared]
    BY <1>1, <2>1, <2>2
  <2>4. ASSUME NEW x \in Batch, NEW d \in Listed(Shared) \cap objects[Shared], x \in rows[d]
        PROVE  InShared(x)' /\ (d \notin doomed => Covered(x)') /\ (d \in G => Covered(x)')
    <3>1. d \in Block /\ d # b  BY <1>1, <2>1, <2>4
    <3>2. CASE d \in G
      <4>1. x \in rows'[b]  BY <2>1, <2>4, <3>2
      <4> QED  BY <2>3, <4>1 DEF InShared, Covered
    <3>3. CASE d \notin G
      <4>1. d \in Listed(Shared)' /\ d \in objects'[Shared] /\ x \in rows'[d]
        BY <2>1, <2>2, <2>4, <3>1, <3>3
      <4>2. d \notin doomed => d \notin doomed'  BY <2>1, <3>3
      <4> QED  BY <3>3, <4>1, <4>2 DEF InShared, Covered
    <3> QED  BY <3>2, <3>3
  <2>5. \A x \in Batch : InShared(x) => InShared(x)'  BY <2>4 DEF InShared
  <2>6. \A x \in Batch : Covered(x) => Covered(x)'  BY <2>4 DEF Covered
  <2>7. ASSUME NEW c \in doomed', NEW x \in rows'[c] PROVE Covered(x)'
    <3>1. c \in Block /\ c # b /\ rows'[c] = rows[c] /\ x \in Batch
      BY <1>1, <2>1, <2>3, <2>7
    <3>2. CASE c \in doomed  BY <2>6, <2>7, <3>1, <3>2 DEF CoverOK
    <3>3. CASE c \in G  BY <2>1, <2>4, <2>7, <3>1, <3>3
    <3> QED  BY <2>1, <2>7, <3>2, <3>3
  <2> QED  BY <2>5, <2>6, <2>7 DEF CoverOK
<1>4. CASE DeleteMerged
  <2>1. PICK b \in doomed : DeleteObject(Shared, b) /\ doomed' = doomed \ {b}
    BY <1>4 DEF DeleteMerged
  <2>2. /\ \A d \in objects[Shared] : d # b => d \in objects'[Shared]
        /\ Listed(Shared)' = Listed(Shared) /\ rows' = rows
    BY <1>1, <1>4, <2>1, StoreNodes DEF DeleteMerged, DeleteObject, TypeOK, Listed
  <2>3. \A x \in Batch : Covered(x) => Covered(x)'
    BY <2>1, <2>2 DEF Covered
  <2>4. \A x : Covered(x)' => InShared(x)'  BY DEF Covered, InShared
  <2>5. ASSUME NEW x \in Batch, InShared(x) PROVE InShared(x)'
    <3>1. PICK d \in Listed(Shared) \cap objects[Shared] : x \in rows[d]  BY <2>5 DEF InShared
    <3>2. CASE d = b  BY <2>1, <2>3, <2>4, <3>1, <3>2 DEF CoverOK
    <3>3. CASE d # b  BY <2>2, <3>1, <3>3 DEF InShared
    <3> QED  BY <3>2, <3>3
  <2>6. \A c \in doomed : rows[c] \subseteq Batch  BY <1>1
  <2>7. CoverOK'  BY <2>1, <2>2, <2>3, <2>6 DEF CoverOK
  <2> QED  BY <2>3, <2>5, <2>7
<1> QED  BY <1>1, <1>2, <1>3, <1>4, SharedStep

LEMMA InitCover == Init => CoverOK
BY DEF Init, CoverOK

(* SharedKept: whatever passes overlap, die half way, or fail with or      *)
(* without having been applied (sync.rs, store.rs), as long as no swap     *)
(* that was applied is answered as refused (compact.rs:142).               *)
THEOREM ReplicatedRowsStay == "swap" \notin Faults => (Spec => SharedKept)
<1> SUFFICES ASSUME "swap" \notin Faults PROVE Spec => SharedKept  OBVIOUS
<1>1. Spec => []CoverOK
  <2>1. BaseInv /\ CoverOK /\ [Next]_vars => CoverOK'  BY CoverNext
  <2> QED  BY <2>1, InitCover, BaseCorrect, PTL DEF Spec
<1>2. BaseInv /\ CoverOK /\ [Next]_vars =>
        [\A x \in Batch :
          (\E b \in Listed(Shared) \cap objects[Shared] : x \in rows[b]) =>
            (\E b \in (Listed(Shared) \cap objects[Shared])' : x \in rows'[b])]_vars
  BY CoverNext DEF InShared
<1> QED  BY <1>1, <1>2, BaseCorrect, PTL DEF Spec, SharedKept

-----------------------------------------------------------------------------
(* What a node owes it can read.                                           *)

Removing(m, b) == ppc[m] \in {"drop", "delete"} /\ b \in plocal[m]

OwedOK ==
  \A x \in Batch : id[x] \in pending[home[x]] =>
    /\ id[x] \in objects[home[x]]
    /\ ~Removing(home[x], id[x])
    /\ stage[x] = "acked" => id[x] \in Listed(home[x])

(* The puller spares what is pending.                                      *)
LEMMA RemovingStep ==
  ASSUME TypeOK, [Next]_vars, "pending" \notin Faults, NEW m \in Node, NEW b \in Block,
         b \in pending[m], Removing(m, b)'
  PROVE  Removing(m, b)
<1> USE DEF stores, blocks, ingest, uploader, puller, seeder, Removing
<1>1. UNCHANGED <<ppc, plocal>> => Removing(m, b)  OBVIOUS
<1>2. ASSUME NEW x \in Batch, Ingest(x) PROVE Removing(m, b)
  BY <1>1, <1>2 DEF Ingest, WriteBlock, AddPending, AppendEntry
<1>3. ASSUME NEW n \in Node, Upload(n) \/ UploadFails(n) \/ UploadReplyLost(n) \/ CacheBlock(n) \/ Seed(n)
      PROVE  Removing(m, b)
  BY <1>1, <1>3 DEF Upload, UploadStart, UploadList, UploadBlock, UploadCommit, UploadClear,
     UploadFails, UploadReplyLost, Seed, SeedCheck, SeedLoad, SeedBlock, SeedCommit, CacheBlock
<1>4. ASSUME NEW n \in Node, Pull(n) PROVE Removing(m, b)
  <2> USE DEF TypeOK, Sets
  <2>1. CASE n # m
    BY <1>4, <2>1 DEF Pull, PullShared, PullLocal, PullAdd, PullOwned, PullDrop, PullDelete, PullEnds
  <2>2. CASE PullShared(m) \/ PullLocal(m) \/ PullAdd(m) \/ PullEnds(m)
    BY <2>2 DEF PullShared, PullLocal, PullAdd, PullEnds
  <2>3. CASE PullOwned(m)
    <3>1. plocal'[m] = (plocal[m] \ pshared[m]) \ pending[m]
      BY <2>3 DEF PullOwned, PendingRead
    <3> QED  BY <3>1
  <2>4. CASE PullDrop(m)  BY <2>4 DEF PullDrop
  <2>5. CASE PullDelete(m)  BY <2>5 DEF PullDelete
  <2> QED  BY <1>4, <2>1, <2>2, <2>3, <2>4, <2>5 DEF Pull
<1>5. CASE Compact \/ DeleteMerged  BY <1>1, <1>5 DEF Compact, DeleteMerged
<1>6. ASSUME NEW n \in Node, Crash(n) PROVE Removing(m, b)
  BY <1>6 DEF Crash, TypeOK, Sets
<1>7. CASE UNCHANGED vars  BY <1>1, <1>7 DEF vars
<1> QED  BY <1>2, <1>3, <1>4, <1>5, <1>6, <1>7 DEF Next

(* A local manifest loses only what its puller removes.                    *)
LEMMA LocalListing ==
  ASSUME TypeOK, [Next]_vars, NEW m \in Node, NEW b \in Listed(m), b \notin Listed(m)'
  PROVE  Removing(m, b)
<1> USE DEF stores, blocks, ingest, uploader, puller, seeder
<1>1. m \in Store /\ m # Shared /\ Shared \in Store /\ b \in Block
  BY StoreNodes DEF Listed
<1>2. UNCHANGED manifest => FALSE  BY DEF Listed
<1>3. ASSUME NEW n \in Store, n # m, NEW r, NEW a, SwapBlocks(n, r, a) PROVE FALSE
  BY <1>1, <1>3, SwapFacts
<1>4. ASSUME NEW a, SwapBlocks(m, {}, a) PROVE FALSE  BY <1>1, <1>4, SwapFacts
<1>5. ASSUME NEW x \in Batch, Ingest(x) PROVE FALSE
  <2>1. CASE AppendEntry(x)
    <3>1. manifest \in [Store -> [Block -> 0..2]] /\ home[x] \in Store /\ id[x] \in Block \cup {NoBlock}
      BY StoreNodes DEF TypeOK
    <3>2. PICK g : g = [manifest[home[x]] EXCEPT ![id[x]] = manifest[home[x]][id[x]] + 1]
      OBVIOUS
    <3>3. manifest' = [manifest EXCEPT ![home[x]] = g]
      BY <2>1, <3>1, <3>2 DEF AppendEntry, Push
    <3>4. manifest[m][b] > 0 /\ manifest[m] \in [Block -> 0..2]  BY <1>1, <3>1 DEF Listed
    <3>5. manifest'[m][b] > 0
      <4>1. CASE home[x] = m  BY <3>1, <3>2, <3>3, <3>4, <4>1
      <4>2. CASE home[x] # m  BY <1>1, <3>1, <3>3, <3>4, <4>2
      <4> QED  BY <4>1, <4>2
    <3> QED  BY <1>1, <3>5 DEF Listed
  <2> QED  BY <1>2, <1>5, <2>1 DEF Ingest, WriteBlock, AddPending
<1>6. ASSUME NEW n \in Node, Upload(n) \/ UploadFails(n) \/ UploadReplyLost(n) \/ CacheBlock(n) \/ Seed(n) PROVE FALSE
  <2>1. UNCHANGED manifest \/ SwapBlocks(Shared, {}, uput[n]) \/ SwapBlocks(Shared, {}, sput[n])
    BY <1>6 DEF Upload, UploadStart, UploadList, UploadBlock, UploadCommit, UploadClear,
     UploadFails, UploadReplyLost, Seed, SeedCheck, SeedLoad, SeedBlock, SeedCommit, CacheBlock
  <2> QED  BY <1>1, <1>2, <1>3, <2>1
<1>7. ASSUME NEW n \in Node, Pull(n) PROVE Removing(m, b)
  <2> USE DEF Pull, PullShared, PullLocal, PullAdd, PullOwned, PullDrop, PullDelete, PullEnds
  <2>1. \/ UNCHANGED manifest \/ SwapBlocks(n, {}, pshared[n] \ plocal[n])
        \/ (SwapBlocks(n, plocal[n], {}) /\ ppc[n] = "drop")
    BY <1>7
  <2>2. n \in Store  BY StoreNodes
  <2>3. n = m /\ SwapBlocks(m, plocal[m], {}) /\ ppc[m] = "drop"
    BY <1>2, <1>3, <1>4, <2>1, <2>2
  <2>4. b \in plocal[m]  BY <1>1, <2>3, SwapFacts
  <2> QED  BY <2>3, <2>4 DEF Removing
<1>8. CASE Compact  BY <1>8, CompactFacts
<1>9. CASE DeleteMerged  BY <1>2, <1>9 DEF DeleteMerged
<1>10. ASSUME NEW n \in Node, Crash(n) PROVE FALSE  BY <1>2, <1>10 DEF Crash
<1>11. CASE UNCHANGED vars  BY <1>2, <1>11 DEF vars
<1> QED  BY <1>5, <1>6, <1>7, <1>8, <1>9, <1>10, <1>11 DEF Next

(* Pending sets grow by the block being ingested, and a batch keeps its    *)
(* block.                                                                  *)
LEMMA PendingStep ==
  ASSUME BaseInv, [Next]_vars, NEW x \in Batch, id'[x] \in pending'[home'[x]]
  PROVE  /\ id'[x] = id[x] /\ home'[x] = home[x] /\ id[x] \in Block /\ home[x] \in Node
         /\ stage[x] # "idle"
         /\ id[x] \in pending[home[x]] \/ AddPending(x)
<1> USE DEF stores, blocks, ingest, uploader, puller, seeder
<1>1. TypeOK /\ IdsOK  BY DEF BaseInv, CoreInv
<1>2. used \subseteq Block /\ NoBlock \notin used /\ home[x] \in Node
  BY <1>1, NoBlockAssumption DEF TypeOK
<1>3. ASSUME NEW y \in Batch, AddPending(y)
      PROVE  id[x] \in pending[home[x]] \/ AddPending(x)
  <2>1. pending'[home[x]] \subseteq pending[home[x]] \cup {id[y]} /\ id' = id /\ home' = home
    BY <1>1, <1>2, <1>3 DEF AddPending, PendingRead, TypeOK
  <2>2. CASE id[x] = id[y]
    <3>1. id[y] \in used /\ rows[id[y]] = {y}  BY <1>1, <1>3 DEF IdsOK, AddPending
    <3>2. rows[id[x]] = {x}  BY <1>1, <1>2, <2>2, <3>1 DEF IdsOK
    <3> QED  BY <1>3, <2>2, <3>1, <3>2
  <2> QED  BY <2>1, <2>2
<1>4. ASSUME NEW y \in Batch, WriteBlock(y)
      PROVE  id[x] \in pending[home[x]] /\ id'[x] = id[x] /\ home'[x] = home[x]
  <2>1. PICK b \in Block : Draw(b, {y}) /\ id' = [id EXCEPT ![y] = b]
    BY <1>4 DEF WriteBlock
  <2>2. pending' = pending /\ home' = home /\ b \notin used  BY <1>4, <2>1 DEF WriteBlock, Draw
  <2>3. id'[x] \in used  BY <1>1, <1>2, <2>2 DEF TypeOK
  <2>4. x # y  BY <1>1, <2>1, <2>2, <2>3 DEF TypeOK
  <2> QED  BY <1>1, <2>1, <2>2, <2>4 DEF TypeOK
<1>6. (\E y \in Batch : AppendEntry(y)) => UNCHANGED <<id, home, pending>>
  BY DEF AppendEntry
<1>7. ASSUME NEW n \in Node, Upload(n) \/ UploadFails(n) \/ UploadReplyLost(n)
      PROVE  UNCHANGED <<id, home>> /\ pending'[home[x]] \subseteq pending[home[x]]
  BY <1>1, <1>2, <1>7 DEF TypeOK, Upload, UploadStart, UploadList, UploadBlock, UploadCommit, UploadClear,
     UploadFails, UploadReplyLost
<1>8. ASSUME NEW n \in Node, Seed(n) \/ Pull(n) \/ CacheBlock(n) \/ Crash(n)
      PROVE  UNCHANGED <<id, home, pending>>
  BY <1>8 DEF Seed, SeedCheck, SeedLoad, SeedBlock, SeedCommit, CacheBlock, Crash,
     Pull, PullShared, PullLocal, PullAdd, PullOwned, PullDrop, PullDelete, PullEnds
<1>9. (Compact \/ DeleteMerged \/ UNCHANGED vars) => UNCHANGED <<id, home, pending>>
  BY DEF Compact, DeleteMerged, vars
<1>10. UNCHANGED <<id, home>> \/ \E y \in Batch : WriteBlock(y)
  BY <1>7, <1>8, <1>9 DEF Next, Ingest, AddPending, AppendEntry
<1>11. id'[x] = id[x] /\ home'[x] = home[x]  BY <1>4, <1>10
<1>12. id[x] \in pending[home[x]] \/ AddPending(x)
  BY <1>3, <1>4, <1>6, <1>7, <1>8, <1>9, <1>11 DEF Next, Ingest
<1>13. id[x] \in Block /\ stage[x] # "idle"
  <2>1. CASE id[x] \in pending[home[x]]
    BY <1>1, <1>2, <2>1 DEF TypeOK, IdsOK
  <2>2. CASE AddPending(x)  BY <1>1, <1>2, <2>2 DEF AddPending, IdsOK
  <2> QED  BY <1>12, <2>1, <2>2
<1> QED  BY <1>2, <1>11, <1>12, <1>13

LEMMA OwedNext ==
  BaseInv /\ OwedOK /\ "pending" \notin Faults /\ [Next]_vars => OwedOK'
<1> SUFFICES ASSUME BaseInv, OwedOK, "pending" \notin Faults, [Next]_vars,
                    NEW x \in Batch, id'[x] \in pending'[home'[x]]
             PROVE  /\ id'[x] \in objects'[home'[x]]
                    /\ ~Removing(home[x], id[x])'
                    /\ stage'[x] = "acked" => (id[x] \in Listed(home[x]))'
  BY DEF OwedOK
<1> USE DEF stores, blocks, ingest, uploader, puller, seeder
<1>1. TypeOK /\ IdsOK /\ NamedOK  BY DEF BaseInv, CoreInv
<1>2. PICK b, m : b = id[x] /\ m = home[x]  OBVIOUS
<1>3. /\ id'[x] = b /\ home'[x] = m /\ b \in Block /\ m \in Node /\ stage[x] # "idle"
      /\ b \in pending[m] \/ AddPending(x)
  BY <1>2, PendingStep
<1>4. CASE b \in pending[m]
  <2>1. b \in objects[m] /\ ~Removing(m, b) /\ (stage[x] = "acked" => b \in Listed(m))
    BY <1>2, <1>4 DEF OwedOK
  <2>2. b \in objects'[m]
    BY <1>1, <1>3, <2>1, LocalObjects DEF Removing, PullDelete
  <2>3. ~Removing(m, b)'  BY <1>1, <1>3, <1>4, <2>1, RemovingStep
  <2>4. ASSUME stage'[x] = "acked" PROVE b \in Listed(m)'
    <3>1. CASE stage[x] = "acked"  BY <1>1, <1>3, <2>1, <3>1, LocalListing
    <3>2. CASE stage[x] # "acked"
      <4>1. AppendEntry(x)
        <5>1. UNCHANGED stage \/ (\E y \in Batch : Ingest(y)) \/ (\E n \in Node : Crash(n))
          BY DEF Next, Upload, UploadStart, UploadList, UploadBlock, UploadCommit, UploadClear,
             UploadFails, UploadReplyLost, Seed, SeedCheck, SeedLoad, SeedBlock, SeedCommit, CacheBlock,
             Pull, PullShared, PullLocal, PullAdd, PullOwned, PullDrop, PullDelete, PullEnds,
             Compact, DeleteMerged, vars
        <5>2. ~\E n \in Node : Crash(n)  BY <2>4, <3>2 DEF Crash
        <5>3. PICK y \in Batch : Ingest(y)  BY <2>4, <3>2, <5>1, <5>2
        <5> QED  BY <1>1, <2>4, <3>2, <5>3 DEF Ingest, WriteBlock, AddPending, AppendEntry, TypeOK
      <4>2. manifest[m][b] <= 1
        <5>1. ASSUME NEW y \in Batch, stage[y] = "acked", id[y] = b PROVE FALSE
          BY <1>1, <1>2, <1>3, <3>2, <5>1 DEF IdsOK
        <5> QED  BY <1>3, <5>1, StoreNodes DEF BaseInv, CoreInv, CountsOK
      <4> QED  BY <1>1, <1>2, <1>3, <4>1, <4>2, PushFacts, StoreNodes DEF AppendEntry
    <3> QED  BY <3>1, <3>2
  <2> QED  BY <1>3, <2>2, <2>3, <2>4 DEF Removing, Listed
<1>5. CASE AddPending(x)
  <2>1. ~Named(b) /\ b \in objects[m]  BY <1>1, <1>2, <1>5 DEF AddPending, NamedOK
  <2>2. b \notin plocal[m]  BY <1>3, <2>1 DEF Named
  <2>3. objects' = objects /\ plocal' = plocal /\ stage'[x] = "owed"
    BY <1>1, <1>5 DEF AddPending, TypeOK
  <2> QED  BY <1>3, <2>1, <2>2, <2>3 DEF Removing
<1> QED  BY <1>3, <1>4, <1>5

(* OwedStaysReadable: the pending file can be read and written.            *)
THEOREM OwedReadable == "pending" \notin Faults => (Spec => []OwedStaysReadable)
<1> SUFFICES ASSUME "pending" \notin Faults PROVE Spec => []OwedStaysReadable  OBVIOUS
<1>1. Init => OwedOK  BY DEF Init, OwedOK, Nothing
<1>2. BaseInv /\ OwedOK /\ [Next]_vars => OwedOK'  BY OwedNext
<1>3. OwedOK => OwedStaysReadable  BY DEF OwedOK, OwedStaysReadable
<1> QED  BY <1>1, <1>2, <1>3, BaseCorrect, PTL DEF Spec

-----------------------------------------------------------------------------
(* The hand-over: what an uploader clears, the shared store has.           *)

Done(b) == \A x \in rows[b] : InShared(x)
Safe(b) == b \in objects[Shared] \/ Done(b)

HandOK ==
  /\ \A b \in Listed(Shared) : Safe(b)
  /\ \A n \in Node : \A b \in uput[n] \cup sput[n] : Safe(b)
  /\ \A n \in Node : uids[n] \subseteq pending[n]
  /\ \A n \in Node : \A b \in udone[n] : Done(b) \/ (upc[n] = "put" /\ b \in uput[n])
  /\ \A x \in Batch :
       (stage[x] \in {"owed", "acked"} /\ id[x] \notin pending[home[x]]) => InShared(x)

(* A pending set holds the node's own blocks.                              *)
OwnOK ==
  \A n \in Node : \A b \in pending[n] :
    \E x \in Batch : id[x] = b /\ home[x] = n /\ stage[x] # "idle"

(* Without crashes and seeders nothing is sent twice.                      *)
NotShared(x) == \A b \in Listed(Shared) : x \notin rows[b]

Unsent(x) ==
  \/ stage[x] \in {"idle", "written"}
  \/ /\ id[x] \in pending[home[x]]
     /\ ~(upc[home[x]] = "clear" /\ id[x] \in udone[home[x]])

OnceOK ==
  /\ \A n \in Node : spc[n] = "idle" /\ sput[n] = {}
  /\ \A b, d \in Listed(Shared) : rows[b] \cap rows[d] # {} => b = d
  /\ Listed(Shared) \subseteq objects[Shared] /\ doomed \cap Listed(Shared) = {}
  /\ \A n \in Node :
       /\ upc[n] \in {"idle", "list"} => uput[n] = {}
       /\ upc[n] # "clear" => uids[n] \cup uput[n] \subseteq pending[n]
       /\ uput[n] \subseteq udone[n]
       /\ upc[n] = "put" => uput[n] \subseteq objects[Shared]
  /\ \A x \in Batch : Unsent(x) => NotShared(x)

LEMMA InitHand == Init => HandOK /\ OwnOK /\ OnceOK
<1> SUFFICES ASSUME Init PROVE HandOK /\ OwnOK /\ OnceOK  OBVIOUS
<1> USE DEF Init, Nothing, Idle
<1>1. Listed(Shared) = {}  BY StoreNodes DEF Listed
<1>2. HandOK  BY <1>1 DEF HandOK
<1>3. OwnOK  BY DEF OwnOK
<1>4. OnceOK  BY <1>1 DEF OnceOK, NotShared
<1> QED  BY <1>2, <1>3, <1>4

(* How the shared manifest comes to name a block.                          *)
LEMMA SharedListing ==
  ASSUME TypeOK, [Next]_vars, NEW b \in Listed(Shared)', b \notin Listed(Shared)
  PROVE  \/ \E n \in Node : /\ UploadCommit(n) \/ UploadReplyLost(n)
                         /\ b \in uput[n] /\ uput[n] \subseteq Listed(Shared)'
         \/ \E n \in Node : SeedCommit(n) /\ b \in sput[n]
         \/ Compact /\ b \notin used /\ b \in objects'[Shared]
<1> USE DEF stores, blocks, ingest, uploader, puller, seeder
<1>1. UNCHANGED manifest => FALSE  BY DEF Listed
<1>2. ASSUME NEW s \in Node, NEW r, NEW a, SwapBlocks(s, r, a) PROVE FALSE
  BY <1>2, SwapFacts, StoreNodes
<1>3. ASSUME NEW x \in Batch, Ingest(x) PROVE FALSE
  <2>1. CASE AppendEntry(x)
    <3>1. manifest' = [manifest EXCEPT ![home[x]][id[x]] = @ + 1] /\ home[x] \in Node
      BY <2>1 DEF AppendEntry, Push, TypeOK
    <3>2. manifest'[Shared] = manifest[Shared]  BY <3>1, StoreNodes DEF TypeOK
    <3> QED  BY <3>2 DEF Listed
  <2> QED  BY <1>1, <1>3, <2>1 DEF Ingest, WriteBlock, AddPending
<1>4. ASSUME NEW n \in Node, Upload(n) \/ UploadFails(n) \/ UploadReplyLost(n)
      PROVE  /\ UploadCommit(n) \/ UploadReplyLost(n)
             /\ b \in uput[n] /\ uput[n] \subseteq Listed(Shared)'
  <2>1. (UploadCommit(n) \/ UploadReplyLost(n)) /\ SwapBlocks(Shared, {}, uput[n])
    BY <1>1, <1>4 DEF Upload, UploadStart, UploadList, UploadBlock, UploadCommit, UploadClear,
      UploadFails, UploadReplyLost
  <2>2. uput[n] \subseteq Block  BY DEF TypeOK, Sets
  <2> QED  BY <2>1, <2>2, SwapFacts, StoreNodes
<1>5. ASSUME NEW n \in Node, Seed(n) PROVE SeedCommit(n) /\ b \in sput[n]
  <2>1. SeedCommit(n) /\ SwapBlocks(Shared, {}, sput[n])
    BY <1>1, <1>5 DEF Seed, SeedCheck, SeedLoad, SeedBlock, SeedCommit
  <2> QED  BY <2>1, SwapFacts, StoreNodes
<1>6. ASSUME NEW n \in Node, Pull(n) \/ CacheBlock(n) PROVE FALSE
  <2>1. \/ UNCHANGED manifest
        \/ SwapBlocks(n, {}, pshared[n] \ plocal[n]) \/ SwapBlocks(n, plocal[n], {})
    BY <1>6 DEF Pull, PullShared, PullLocal, PullAdd, PullOwned, PullDrop, PullDelete,
      PullEnds, CacheBlock
  <2> QED  BY <1>1, <1>2, <2>1
<1>7. CASE Compact
  <2>1. PICK d \in Block \ used :
          /\ Listed(Shared)' \subseteq Listed(Shared) \cup {d}
          /\ objects' = [objects EXCEPT ![Shared] = @ \cup {d}]
    BY <1>7, CompactFacts
  <2> QED  BY <1>7, <2>1, StoreNodes DEF TypeOK
<1>8. ASSUME DeleteMerged \/ UNCHANGED vars \/ \E n \in Node : Crash(n) PROVE FALSE
  BY <1>1, <1>8 DEF DeleteMerged, vars, Crash
<1> QED  BY <1>3, <1>4, <1>5, <1>6, <1>7, <1>8 DEF Next

(* A block the shared store has, or that is covered there, stays so.       *)
LEMMA SafeStep ==
  ASSUME BaseInv, CoverOK, [Next]_vars, "swap" \notin Faults, NEW b \in used
  PROVE  /\ rows'[b] = rows[b] /\ rows[b] \subseteq Batch
         /\ Done(b) => Done(b)'
         /\ Safe(b) => Safe(b)'
<1>1. /\ \A x \in Batch : InShared(x) => InShared(x)'
      /\ \A x \in Batch : Covered(x) => Covered(x)'
  BY CoverNext
<1>2. TypeOK /\ used \subseteq Block /\ b \in Block  BY DEF BaseInv, CoreInv, TypeOK
<1>3. rows[b] \subseteq Batch  BY <1>2 DEF TypeOK
<1>4. CASE SharedGrows
  <2>1. rows'[b] = rows[b] /\ objects[Shared] \subseteq objects'[Shared]
    BY <1>4 DEF SharedGrows
  <2> QED  BY <1>1, <1>3, <2>1 DEF Done, Safe
<1>5. CASE Compact
  <2>1. PICK d \in Block \ used :
          /\ \A c \in Block \ {d} : rows'[c] = rows[c]
          /\ objects' = [objects EXCEPT ![Shared] = @ \cup {d}]
    BY <1>2, <1>5, CompactFacts
  <2>2. rows'[b] = rows[b] /\ objects[Shared] \subseteq objects'[Shared]
    BY <1>2, <2>1, StoreNodes DEF TypeOK
  <2> QED  BY <1>1, <1>3, <2>2 DEF Done, Safe
<1>6. CASE DeleteMerged
  <2>1. PICK d \in doomed : DeleteObject(Shared, d)  BY <1>6 DEF DeleteMerged
  <2>2. rows' = rows /\ (b # d /\ b \in objects[Shared] => b \in objects'[Shared])
    BY <1>2, <1>6, <2>1, StoreNodes DEF DeleteMerged, DeleteObject, TypeOK
  <2>3. b \in doomed => Done(b)
    BY DEF CoverOK, Covered, Done, InShared
  <2> QED  BY <1>1, <1>3, <2>1, <2>2, <2>3 DEF Done, Safe
<1> QED  BY <1>2, <1>3, <1>4, <1>5, <1>6, SharedStep

LEMMA OwnNext == BaseInv /\ OwnOK /\ [Next]_vars => OwnOK'
<1> SUFFICES ASSUME BaseInv, OwnOK, [Next]_vars, NEW n \in Node, NEW b \in pending'[n]
             PROVE  \E x \in Batch : id'[x] = b /\ home'[x] = n /\ stage'[x] # "idle"
  BY DEF OwnOK
<1> USE DEF stores, blocks, ingest, uploader, puller, seeder
<1>1. TypeOK  BY DEF BaseInv, CoreInv
<1>2. CASE UNCHANGED <<id, home, stage>> /\ pending'[n] \subseteq pending[n]
  BY <1>2 DEF OwnOK
<1>3. ASSUME NEW x \in Batch, WriteBlock(x)
      PROVE  \E y \in Batch : id'[y] = b /\ home'[y] = n /\ stage'[y] # "idle"
  <2>1. PICK y \in Batch : id[y] = b /\ home[y] = n /\ stage[y] # "idle"
    BY <1>3 DEF OwnOK, WriteBlock
  <2>2. y # x  BY <1>3, <2>1 DEF WriteBlock
  <2>3. id'[y] = b /\ home'[y] = n /\ stage'[y] # "idle"
    BY <1>1, <1>3, <2>1, <2>2 DEF WriteBlock, TypeOK
  <2> QED  BY <2>3
<1>4. ASSUME NEW x \in Batch, AddPending(x)
      PROVE  \E y \in Batch : id'[y] = b /\ home'[y] = n /\ stage'[y] # "idle"
  <2>1. /\ id' = id /\ home' = home /\ \A y \in Batch : stage[y] # "idle" => stage'[y] # "idle"
        /\ stage'[x] # "idle"
    BY <1>1, <1>4 DEF AddPending, TypeOK
  <2>2. b \in pending[n] \/ (n = home[x] /\ b = id[x])
    BY <1>1, <1>4 DEF AddPending, PendingRead, TypeOK
  <2> QED  BY <2>1, <2>2 DEF OwnOK
<1>5. ASSUME NEW x \in Batch, AppendEntry(x)
      PROVE  \E y \in Batch : id'[y] = b /\ home'[y] = n /\ stage'[y] # "idle"
  <2>1. /\ id' = id /\ home' = home /\ \A y \in Batch : stage[y] # "idle" => stage'[y] # "idle"
        /\ pending' = pending
    BY <1>1, <1>5 DEF AppendEntry, TypeOK
  <2> QED  BY <2>1 DEF OwnOK
<1>6. ASSUME NEW m \in Node, Upload(m) \/ UploadFails(m) \/ UploadReplyLost(m)
      PROVE  UNCHANGED <<id, home, stage>> /\ pending'[n] \subseteq pending[n]
  BY <1>1, <1>6 DEF TypeOK, Upload, UploadStart, UploadList, UploadBlock, UploadCommit,
     UploadClear, UploadFails, UploadReplyLost
<1>7. ASSUME NEW m \in Node, Seed(m) \/ Pull(m) \/ CacheBlock(m)
      PROVE  UNCHANGED <<id, home, stage, pending>>
  BY <1>7 DEF Seed, SeedCheck, SeedLoad, SeedBlock, SeedCommit, CacheBlock,
     Pull, PullShared, PullLocal, PullAdd, PullOwned, PullDrop, PullDelete, PullEnds
<1>8. (Compact \/ DeleteMerged \/ UNCHANGED vars) => UNCHANGED <<id, home, stage, pending>>
  BY DEF Compact, DeleteMerged, vars
<1>9. ASSUME NEW m \in Node, Crash(m)
      PROVE  \E y \in Batch : id'[y] = b /\ home'[y] = n /\ stage'[y] # "idle"
  <2>1. /\ id' = id /\ home' = home /\ \A y \in Batch : stage[y] # "idle" => stage'[y] # "idle"
        /\ pending' = pending
    BY <1>9 DEF Crash
  <2> QED  BY <2>1 DEF OwnOK
<1> QED  BY <1>2, <1>3, <1>4, <1>5, <1>6, <1>7, <1>8, <1>9 DEF Next, Ingest

(* What an uploader and a seeder have copied.                              *)
LEMMA PutStep ==
  ASSUME TypeOK, [Next]_vars, NEW n \in Node
  PROVE  /\ \A b \in uput'[n] : b \in uput[n] \/ b \in objects'[Shared]
         /\ \A b \in sput'[n] : b \in sput[n] \/ b \in objects'[Shared]
<1> USE DEF stores, blocks, ingest, uploader, puller, seeder
<1>1. Shared \in Store /\ objects \in [Store -> SUBSET used]  BY StoreNodes DEF TypeOK
<1>2. ASSUME NEW d, PutObject(Shared, d) PROVE d \in objects'[Shared]
  BY <1>1, <1>2 DEF PutObject
<1>3. ASSUME NEW m \in Node, Upload(m) \/ UploadFails(m) \/ UploadReplyLost(m)
      PROVE  sput' = sput /\ \A b \in uput'[n] : b \in uput[n] \/ b \in objects'[Shared]
  <2> USE DEF TypeOK, Sets
  <2>1. CASE UploadBlock(m)
    <3>1. PICK d \in uids[m] :
            (PutObject(Shared, d) /\ uput' = [uput EXCEPT ![m] = @ \cup {d}]) \/ UNCHANGED uput
      BY <2>1 DEF UploadBlock
    <3> QED  BY <1>2, <2>1, <3>1 DEF UploadBlock
  <2>2. CASE UploadClear(m) \/ UploadFails(m) \/ UploadReplyLost(m)
    BY <2>2 DEF UploadClear, UploadFails, UploadReplyLost, UploadReset
  <2> QED  BY <1>3, <2>1, <2>2 DEF Upload, UploadStart, UploadList, UploadCommit
<1>4. ASSUME NEW m \in Node, Seed(m)
      PROVE  uput' = uput /\ \A b \in sput'[n] : b \in sput[n] \/ b \in objects'[Shared]
  <2> USE DEF TypeOK, Sets
  <2>1. CASE SeedBlock(m)
    <3>1. PICK d \in sids[m] :
            (PutObject(Shared, d) /\ sput' = [sput EXCEPT ![m] = @ \cup {d}]) \/ UNCHANGED sput
      BY <2>1 DEF SeedBlock
    <3> QED  BY <1>2, <2>1, <3>1 DEF SeedBlock
  <2> QED  BY <1>4, <2>1 DEF Seed, SeedCheck, SeedLoad, SeedCommit
<1>5. ASSUME NEW x \in Batch, Ingest(x) PROVE UNCHANGED <<uput, sput>>
  BY <1>5 DEF Ingest, WriteBlock, AddPending, AppendEntry
<1>6. ASSUME NEW m \in Node, Pull(m) \/ CacheBlock(m) PROVE UNCHANGED <<uput, sput>>
  BY <1>6 DEF CacheBlock,
     Pull, PullShared, PullLocal, PullAdd, PullOwned, PullDrop, PullDelete, PullEnds
<1>7. (Compact \/ DeleteMerged \/ UNCHANGED vars) => UNCHANGED <<uput, sput>>
  BY DEF Compact, DeleteMerged, vars
<1>8. ASSUME NEW m \in Node, Crash(m)
      PROVE  uput'[n] \subseteq uput[n] /\ sput'[n] \subseteq sput[n]
  BY <1>8 DEF Crash, UploadReset, TypeOK, Sets
<1> QED  BY <1>3, <1>4, <1>5, <1>6, <1>7, <1>8 DEF Next

(* The uploader of a node is moved by itself only; what it has not cleared *)
(* stays pending.                                                          *)
LEMMA UploaderStep ==
  ASSUME TypeOK, [Next]_vars, "pending" \notin Faults, NEW n \in Node
  PROVE  \/ /\ upc'[n] = upc[n] /\ uids'[n] = uids[n]
            /\ uput'[n] = uput[n] /\ udone'[n] = udone[n]
            /\ pending[n] \subseteq pending'[n]
         \/ Upload(n)
         \/ /\ UploadFails(n) \/ UploadReplyLost(n) \/ Crash(n)
            /\ upc'[n] = "idle" /\ uids'[n] = {} /\ uput'[n] = {} /\ udone'[n] = {}
            /\ pending'[n] = pending[n]
<1> USE DEF stores, blocks, ingest, uploader, puller, seeder
<1> DEFINE Same == /\ upc'[n] = upc[n] /\ uids'[n] = uids[n]
                   /\ uput'[n] = uput[n] /\ udone'[n] = udone[n]
                   /\ pending[n] \subseteq pending'[n]
           Reset == /\ upc'[n] = "idle" /\ uids'[n] = {} /\ uput'[n] = {} /\ udone'[n] = {}
                    /\ pending'[n] = pending[n]
<1>1. ASSUME NEW x \in Batch, Ingest(x) PROVE Same
  <2>1. pending[n] \subseteq pending'[n]
    <3>1. CASE AddPending(x)
      <4>1. pending' = [pending EXCEPT ![home[x]] = pending[home[x]] \cup {id[x]}]
        BY <3>1 DEF AddPending, PendingRead
      <4> QED  BY <4>1 DEF TypeOK
    <3> QED  BY <1>1, <3>1 DEF Ingest, WriteBlock, AppendEntry
  <2> QED  BY <1>1, <2>1 DEF Ingest, WriteBlock, AddPending, AppendEntry
<1>2. ASSUME NEW m \in Node, Upload(m), m # n PROVE Same
  BY <1>2 DEF Upload, UploadStart, UploadList, UploadBlock, UploadCommit, UploadClear,
     UploadReset, TypeOK, Sets
<1>3. ASSUME NEW m \in Node, UploadFails(m) \/ UploadReplyLost(m) \/ Crash(m)
      PROVE  IF m = n THEN Reset ELSE Same
  <2>1. pending' = pending /\ UploadReset(m)  BY <1>3 DEF UploadFails, UploadReplyLost, Crash
  <2> QED  BY <2>1 DEF UploadReset, TypeOK, Sets
<1>4. ASSUME NEW m \in Node, Pull(m) \/ CacheBlock(m) \/ Seed(m) PROVE Same
  BY <1>4 DEF CacheBlock, Seed, SeedCheck, SeedLoad, SeedBlock, SeedCommit,
     Pull, PullShared, PullLocal, PullAdd, PullOwned, PullDrop, PullDelete, PullEnds
<1>5. (Compact \/ DeleteMerged \/ UNCHANGED vars) => Same
  BY DEF Compact, DeleteMerged, vars
<1> HIDE DEF Same, Reset
<1>6. Same \/ Upload(n) \/ ((UploadFails(n) \/ UploadReplyLost(n) \/ Crash(n)) /\ Reset)
  BY <1>1, <1>2, <1>3, <1>4, <1>5 DEF Next
<1> QED  BY <1>6 DEF Same, Reset

LEMMA HandNext ==
  ASSUME BaseInv, CoverOK, OwedOK, OwnOK, HandOK, [Next]_vars,
         Faults \cap {"pending", "read", "swap"} = {}
  PROVE  HandOK'
<1> USE DEF stores, blocks, ingest, uploader, puller, seeder
<1>1. TypeOK /\ IdsOK /\ NamedOK /\ TypeOK'  BY BaseNext DEF BaseInv, CoreInv
<1>2. "pending" \notin Faults /\ "read" \notin Faults /\ "swap" \notin Faults  OBVIOUS
<1>3. /\ Listed(Shared) \subseteq used
      /\ \A n \in Node : uput[n] \cup sput[n] \cup udone[n] \cup uids[n] \cup pending[n] \subseteq used
  <2>1. Listed(Shared) \subseteq used
    BY <1>1, ListedNamed, StoreNodes DEF NamedOK, Listed
  <2>2. ASSUME NEW n \in Node PROVE
          uput[n] \cup sput[n] \cup udone[n] \cup uids[n] \cup pending[n] \subseteq used
    <3>1. \A b \in uput[n] \cup sput[n] \cup udone[n] \cup uids[n] \cup pending[n] : b \in Block
      BY <1>1 DEF TypeOK, Sets
    <3> QED  BY <1>1, <3>1 DEF NamedOK, Named
  <2> QED  BY <2>1, <2>2
<1>4. \A b \in used : /\ rows'[b] = rows[b] /\ rows[b] \subseteq Batch
                      /\ Done(b) => Done(b)'
                      /\ Safe(b) => Safe(b)'
  BY <1>2, SafeStep
<1>5. \A x \in Batch : InShared(x) => InShared(x)'  BY <1>2, CoverNext
<1>6. ASSUME NEW b \in Listed(Shared)' PROVE Safe(b)'
  <2>1. CASE b \in Listed(Shared)  BY <1>3, <1>4, <2>1 DEF HandOK
  <2>2. CASE b \notin Listed(Shared)
    <3>1. (\E n \in Node : b \in uput[n] \cup sput[n]) \/ b \in objects'[Shared]
      BY <1>1, <2>2, SharedListing
    <3>2. ASSUME NEW n \in Node, b \in uput[n] \cup sput[n] PROVE Safe(b)'
      BY <1>3, <1>4, <3>2 DEF HandOK
    <3> QED  BY <3>1, <3>2 DEF Safe
  <2> QED  BY <2>1, <2>2
<1>7. ASSUME NEW n \in Node, NEW b \in uput'[n] \cup sput'[n] PROVE Safe(b)'
  <2>1. b \in uput[n] \cup sput[n] \/ b \in objects'[Shared]  BY <1>1, PutStep
  <2>2. b \in uput[n] \cup sput[n] => Safe(b)'  BY <1>3, <1>4 DEF HandOK
  <2> QED  BY <2>1, <2>2 DEF Safe
(* Listed and safe is done.                                                *)
<1>8. \A b \in Listed(Shared) : Done(b)  BY DEF HandOK, Safe, Done, InShared
<1>9. \A b \in Listed(Shared)' : Done(b)'  BY <1>6 DEF Safe, Done, InShared
<1>10. ASSUME NEW n \in Node PROVE uids'[n] \subseteq pending'[n]
  <2>1. uids[n] \subseteq pending[n]  BY DEF HandOK
  <2>2. CASE Upload(n)
    <3> USE DEF TypeOK, Sets
    <3>1. CASE UploadStart(n)  BY <1>1, <1>2, <3>1 DEF UploadStart, PendingRead
    <3>2. CASE UploadList(n)  BY <1>1, <2>1, <3>2 DEF UploadList
    <3>3. CASE UploadBlock(n)  BY <1>1, <2>1, <3>3 DEF UploadBlock
    <3>4. CASE UploadCommit(n)  BY <1>1, <2>1, <3>4 DEF UploadCommit
    <3>5. CASE UploadClear(n)  BY <1>1, <3>5 DEF UploadClear, UploadReset
    <3> QED  BY <2>2, <3>1, <3>2, <3>3, <3>4, <3>5 DEF Upload
  <2> QED  BY <1>1, <1>2, <2>1, <2>2, UploaderStep
<1>11. ASSUME NEW n \in Node, NEW b \in udone'[n]
       PROVE  Done(b)' \/ (upc'[n] = "put" /\ b \in uput'[n])
  <2>1. b \in udone[n] => b \in used /\ (Done(b) \/ (upc[n] = "put" /\ b \in uput[n]))
    BY <1>3 DEF HandOK
  <2>2. (b \in udone[n] /\ Done(b)) => Done(b)'  BY <1>4, <2>1
  <2>3. CASE Upload(n)
    <3> USE DEF TypeOK, Sets
    <3>1. CASE UploadStart(n)  BY <1>1, <2>1, <2>2, <3>1 DEF UploadStart
    <3>2. CASE UploadList(n)
      <4>1. b \in Listed(Shared) /\ b \in used  BY <1>1, <1>3, <3>2 DEF UploadList
      <4> QED  BY <1>4, <1>8, <4>1
    <3>3. CASE UploadBlock(n)
      <4>1. PICK d \in uids[n] :
              \/ /\ uput' = [uput EXCEPT ![n] = @ \cup {d}]
                 /\ udone' = [udone EXCEPT ![n] = @ \cup {d}]
              \/ UNCHANGED <<uput, udone>>
              \/ d \notin objects[n]
        BY <1>2, <3>3 DEF UploadBlock
      <4>2. d \in objects[n]
        <5>1. d \in pending[n]  BY <4>1 DEF HandOK
        <5>2. PICK x \in Batch : id[x] = d /\ home[x] = n  BY <5>1 DEF OwnOK
        <5> QED  BY <5>1, <5>2 DEF OwedOK
      <4>3. upc[n] = "put" /\ upc'[n] = "put"  BY <3>3 DEF UploadBlock
      <4>4. \/ uput'[n] = uput[n] \cup {d} /\ udone'[n] = udone[n] \cup {d}
            \/ uput'[n] = uput[n] /\ udone'[n] = udone[n]
        BY <1>1, <4>1, <4>2
      <4> QED  BY <2>1, <2>2, <4>3, <4>4
    <3>4. CASE UploadCommit(n)
      <4>1. b \in udone[n]  BY <3>4 DEF UploadCommit
      <4>2. CASE b \in uput[n]
        <5>1. SwapBlocks(Shared, {}, uput[n])  BY <3>4, <4>2 DEF UploadCommit
        <5>2. b \in Block  BY <1>1, <4>2
        <5>3. b \in Listed(Shared)'  BY <1>1, <4>2, <5>1, <5>2, SwapFacts, StoreNodes
        <5> QED  BY <1>9, <5>3
      <4> QED  BY <2>1, <2>2, <4>1, <4>2
    <3>5. CASE UploadClear(n)  BY <1>1, <3>5 DEF UploadClear, UploadReset
    <3> QED  BY <2>3, <3>1, <3>2, <3>3, <3>4, <3>5 DEF Upload
  <2> QED  BY <1>1, <1>2, <2>1, <2>2, <2>3, UploaderStep
<1>12. ASSUME NEW x \in Batch, stage'[x] \in {"owed", "acked"},
              id'[x] \notin pending'[home'[x]]
       PROVE  InShared(x)'
  <2>1. PICK b, m : b = id[x] /\ m = home[x]  OBVIOUS
  <2>2. m \in Node /\ home' = home
    BY <1>1, <2>1 DEF TypeOK, Next, vars, Ingest, WriteBlock, AddPending, AppendEntry, Compact,
       DeleteMerged, Crash, Upload, UploadStart, UploadList, UploadBlock, UploadCommit, UploadClear,
       UploadFails, UploadReplyLost, Seed, SeedCheck, SeedLoad, SeedBlock, SeedCommit, CacheBlock,
       Pull, PullShared, PullLocal, PullAdd, PullOwned, PullDrop, PullDelete, PullEnds
  <2>3. CASE \E y \in Batch : Ingest(y)
    <3>1. PICK y \in Batch : Ingest(y)  BY <2>3
    <3>2. CASE y = x
      <4>1. ~WriteBlock(x)  BY <1>1, <1>12 DEF WriteBlock, TypeOK
      <4>2. ~AddPending(x)
        <5> SUFFICES ASSUME AddPending(x) PROVE FALSE  OBVIOUS
        <5>1. pending' = [pending EXCEPT ![m] = pending[m] \cup {b}]
          BY <1>2, <2>1 DEF AddPending, PendingRead
        <5>2. b \in pending'[m] /\ id'[x] = b  BY <1>1, <2>1, <2>2, <5>1 DEF AddPending, TypeOK
        <5> QED  BY <1>12, <2>1, <2>2, <5>2
      <4>3. CASE AppendEntry(x)
        <5>1. stage[x] = "owed" /\ id' = id /\ pending' = pending
          BY <4>3 DEF AppendEntry
        <5> QED  BY <1>5, <1>12, <2>1, <2>2, <5>1 DEF HandOK
      <4> QED  BY <3>1, <3>2, <4>1, <4>2, <4>3 DEF Ingest
    <3>3. CASE y # x
      <4>1. id'[x] = id[x] /\ stage'[x] = stage[x]
        BY <1>1, <3>1, <3>3 DEF Ingest, WriteBlock, AddPending, AppendEntry, TypeOK
      <4>2. pending[m] \subseteq pending'[m]
        <5>1. CASE AddPending(y)
          <6>1. pending' = [pending EXCEPT ![home[y]] = pending[home[y]] \cup {id[y]}]
            BY <1>2, <5>1 DEF AddPending, PendingRead
          <6> QED  BY <1>1, <2>2, <6>1 DEF TypeOK
        <5> QED  BY <3>1, <5>1 DEF Ingest, WriteBlock, AppendEntry
      <4> QED  BY <1>5, <1>12, <2>1, <2>2, <4>1, <4>2 DEF HandOK
    <3> QED  BY <3>2, <3>3
  <2>4. CASE ~\E y \in Batch : Ingest(y)
    <3>1. id' = id
      BY <2>4 DEF Next, vars, Compact,
       DeleteMerged, Crash, Upload, UploadStart, UploadList, UploadBlock, UploadCommit, UploadClear,
       UploadFails, UploadReplyLost, Seed, SeedCheck, SeedLoad, SeedBlock, SeedCommit, CacheBlock,
       Pull, PullShared, PullLocal, PullAdd, PullOwned, PullDrop, PullDelete, PullEnds
    <3>2. UNCHANGED stage \/ \E n \in Node : Crash(n)
      BY <2>4 DEF Next, vars, Compact,
       DeleteMerged, Upload, UploadStart, UploadList, UploadBlock, UploadCommit, UploadClear,
       UploadFails, UploadReplyLost, Seed, SeedCheck, SeedLoad, SeedBlock, SeedCommit, CacheBlock,
       Pull, PullShared, PullLocal, PullAdd, PullOwned, PullDrop, PullDelete, PullEnds
    <3>3. stage[x] \in {"owed", "acked"}  BY <1>12, <3>2 DEF Crash
    <3>4. CASE b \notin pending[m]  BY <1>5, <2>1, <3>3, <3>4 DEF HandOK
    <3>5. CASE b \in pending[m]
      <4>1. b \notin pending'[m]  BY <1>12, <2>1, <2>2, <3>1
      <4>2. Upload(m)  BY <1>1, <1>2, <2>2, <3>5, <4>1, UploaderStep
      <4>3. UploadClear(m)
        BY <3>5, <4>1, <4>2 DEF Upload, UploadStart, UploadList, UploadBlock, UploadCommit
      <4>4. b \in udone[m] /\ upc[m] = "clear"
        BY <1>1, <2>2, <3>5, <4>1, <4>3 DEF UploadClear, TypeOK
      <4>5. Done(b)  BY <2>2, <4>4 DEF HandOK
      <4>6. rows[b] = {x}  BY <1>1, <2>1, <3>3 DEF IdsOK
      <4> QED  BY <1>5, <4>5, <4>6 DEF Done
    <3> QED  BY <3>4, <3>5
  <2> QED  BY <2>3, <2>4
<1> QED  BY <1>6, <1>7, <1>10, <1>11, <1>12 DEF HandOK

(* AckedNeverLost: the pending file can be read and written, a block that  *)
(* is there can be read, and no swap that was applied is answered as       *)
(* refused.                                                                *)
THEOREM AckedRowsKept ==
  Faults \cap {"pending", "read", "swap"} = {} => (Spec => []AckedNeverLost)
<1> SUFFICES ASSUME Faults \cap {"pending", "read", "swap"} = {}
             PROVE  Spec => []AckedNeverLost
  OBVIOUS
<1> DEFINE Inv == BaseInv /\ CoverOK /\ OwedOK /\ OwnOK /\ HandOK
<1>1. Init => Inv
  BY InitBase, InitCover, InitHand DEF Init, OwedOK, Nothing
<1>2. Inv /\ [Next]_vars => Inv'
  BY BaseNext, CoverNext, OwedNext, OwnNext, HandNext
<1>3. Inv => AckedNeverLost
  <2> SUFFICES ASSUME Inv, NEW x \in Batch, stage[x] = "acked"
               PROVE  \E s \in {home[x], Shared} : \E b \in Listed(s) \cap objects[s] : x \in rows[b]
    BY DEF AckedNeverLost
  <2>1. CASE id[x] \in pending[home[x]]
    <3>1. id[x] \in Listed(home[x]) \cap objects[home[x]]  BY <2>1 DEF OwedOK
    <3>2. x \in rows[id[x]]  BY DEF BaseInv, CoreInv, IdsOK
    <3> QED  BY <3>1, <3>2
  <2>2. CASE id[x] \notin pending[home[x]]
    BY <2>2 DEF HandOK, InShared
  <2> QED  BY <2>1, <2>2
<1> QED  BY <1>1, <1>2, <1>3, PTL DEF Spec

-----------------------------------------------------------------------------
(* Nothing is sent twice.                                                  *)

(* What a node that runs on has copied has not been sent before, and       *)
(* nothing that is to be deleted is among it.                              *)
LEMMA CopiedUnsent ==
  ASSUME BaseInv, CoverOK, OwnOK, OnceOK, NEW n \in Node, upc[n] # "clear", NEW b \in uput[n]
  PROVE  \E x \in Batch :
           id[x] = b /\ home[x] = n /\ rows[b] = {x} /\ Unsent(x) /\ NotShared(x)
           /\ stage[x] \notin {"idle", "written"} /\ b \notin doomed
<1>1. TypeOK /\ IdsOK /\ NamedOK  BY DEF BaseInv, CoreInv
<1>2. b \in pending[n]  BY DEF OnceOK
<1>3. PICK x \in Batch : id[x] = b /\ home[x] = n /\ stage[x] # "idle"  BY <1>2 DEF OwnOK
<1>4. rows[b] = {x}  BY <1>1, <1>3 DEF IdsOK
<1>5. stage[x] # "written"  BY <1>1, <1>2, <1>3 DEF NamedOK, Named
<1>6. Unsent(x) /\ NotShared(x)  BY <1>2, <1>3 DEF OnceOK, Unsent
<1>7. b \notin doomed  BY <1>4, <1>6 DEF CoverOK, Covered, NotShared
<1> QED  BY <1>3, <1>4, <1>5, <1>6, <1>7

LEMMA OnceUploader ==
  ASSUME BaseInv, CoverOK, OwnOK, OnceOK, [Next]_vars, "pending" \notin Faults, NEW n \in Node
  PROVE  /\ upc'[n] \in {"idle", "list"} => uput'[n] = {}
         /\ upc'[n] # "clear" => uids'[n] \cup uput'[n] \subseteq pending'[n]
         /\ uput'[n] \subseteq udone'[n]
<1> USE DEF stores, blocks, ingest, uploader, puller, seeder
<1>1. TypeOK  BY DEF BaseInv, CoreInv
<1>2. /\ upc[n] \in {"idle", "list"} => uput[n] = {}
      /\ upc[n] # "clear" => uids[n] \cup uput[n] \subseteq pending[n]
      /\ uput[n] \subseteq udone[n]
  BY DEF OnceOK
<1>3. CASE Upload(n)
  <2> USE DEF TypeOK, Sets
  <2>1. CASE UploadStart(n)
    <3>1. upc'[n] = "list" /\ uids'[n] = pending[n] /\ uput' = uput /\ udone' = udone
          /\ pending' = pending /\ upc[n] = "idle"
      BY <1>1, <2>1 DEF UploadStart, PendingRead
    <3> QED  BY <1>2, <3>1
  <2>2. CASE UploadList(n)
    <3>1. /\ upc'[n] = "put" /\ uids'[n] \subseteq uids[n] /\ uput' = uput
          /\ pending' = pending /\ upc[n] = "list"
      BY <1>1, <2>2 DEF UploadList
    <3> QED  BY <1>2, <3>1
  <2>3. CASE UploadBlock(n)
    <3>1. PICK d \in uids[n] :
            /\ uids' = [uids EXCEPT ![n] = @ \ {d}]
            /\ \/ /\ uput' = [uput EXCEPT ![n] = @ \cup {d}]
                  /\ udone' = [udone EXCEPT ![n] = @ \cup {d}]
               \/ UNCHANGED <<uput, udone>>
               \/ udone' = [udone EXCEPT ![n] = @ \cup {d}] /\ UNCHANGED uput
      BY <2>3 DEF UploadBlock
    <3>2. upc'[n] = "put" /\ upc[n] = "put" /\ pending' = pending  BY <2>3 DEF UploadBlock
    <3>3. uids'[n] \subseteq uids[n]  BY <1>1, <3>1
    <3>4. \/ uput'[n] = uput[n] \cup {d} /\ udone'[n] = udone[n] \cup {d}
          \/ uput'[n] = uput[n] /\ udone[n] \subseteq udone'[n]
      BY <1>1, <3>1
    <3> QED  BY <1>2, <3>1, <3>2, <3>3, <3>4
  <2>4. CASE UploadCommit(n)
    <3>1. upc'[n] = "clear" /\ uput' = uput /\ udone' = udone
      BY <1>1, <2>4 DEF UploadCommit
    <3> QED  BY <1>2, <3>1
  <2>5. CASE UploadClear(n)
    <3>1. uids'[n] = {} /\ uput'[n] = {}  BY <1>1, <2>5 DEF UploadClear, UploadReset
    <3> QED  BY <3>1
  <2> QED  BY <1>3, <2>1, <2>2, <2>3, <2>4, <2>5 DEF Upload
<1>4. CASE ~Upload(n)  BY <1>1, <1>2, <1>4, UploaderStep
<1> QED  BY <1>3, <1>4

(* The step that lists what was copied is the one after which it counts as *)
(* sent; it counts as sent until it is no longer owed.                     *)
LEMMA UnsentStep ==
  ASSUME BaseInv, OwnOK, OnceOK, [Next]_vars, Faults \cap {"pending", "crash", "reply"} = {},
         NEW x \in Batch, Unsent(x)'
  PROVE  /\ Unsent(x)
         /\ ~(UploadCommit(home[x]) /\ id[x] \in uput[home[x]])
<1> USE DEF stores, blocks, ingest, uploader, puller, seeder
<1>1. /\ TypeOK /\ IdsOK /\ NamedOK
      /\ "pending" \notin Faults /\ "crash" \notin Faults /\ "reply" \notin Faults
  BY DEF BaseInv, CoreInv
<1>2. PICK b, m : b = id[x] /\ m = home[x]  OBVIOUS
<1>3. m \in Node  BY <1>1, <1>2 DEF TypeOK
<1>4. ~\E n \in Node : Crash(n) \/ UploadReplyLost(n)  BY <1>1 DEF Crash, UploadReplyLost
<1>5. CASE stage'[x] \in {"idle", "written"}
  <2>1. stage[x] \in {"idle", "written"}
    <3>1. UNCHANGED stage \/ \E y \in Batch : Ingest(y)
      BY <1>4 DEF Next, vars, Compact,
       DeleteMerged, Upload, UploadStart, UploadList, UploadBlock, UploadCommit, UploadClear,
       UploadFails, UploadReplyLost, Seed, SeedCheck, SeedLoad, SeedBlock, SeedCommit, CacheBlock,
       Pull, PullShared, PullLocal, PullAdd, PullOwned, PullDrop, PullDelete, PullEnds
    <3> QED
      BY <1>1, <1>5, <3>1 DEF Ingest, WriteBlock, AddPending, AppendEntry, TypeOK
  <2>2. id[x] \notin uput[home[x]]
    <3>1. CASE stage[x] = "idle"
      BY <1>1, <1>2, <1>3, <3>1, NoBlockAssumption DEF IdsOK, TypeOK, Sets
    <3>2. CASE stage[x] = "written"  BY <1>1, <1>2, <1>3, <3>2 DEF NamedOK, Named
    <3> QED  BY <2>1, <3>1, <3>2
  <2> QED  BY <2>1, <2>2 DEF Unsent
<1>6. CASE stage'[x] \notin {"idle", "written"}
  <2>1. id'[x] \in pending'[home'[x]] /\ ~(upc'[home'[x]] = "clear" /\ id'[x] \in udone'[home'[x]])
    BY <1>6 DEF Unsent
  <2>2. id'[x] = b /\ home'[x] = m /\ (b \in pending[m] \/ AddPending(x))
    BY <1>2, <2>1, PendingStep
  <2>3. CASE AddPending(x)
    <3>1. stage[x] = "written" /\ ~Named(b)  BY <1>1, <1>2, <2>3 DEF AddPending, NamedOK
    <3>2. b \notin uput[m]  BY <1>3, <3>1 DEF Named
    <3> QED  BY <1>2, <3>1, <3>2 DEF Unsent
  <2>4. CASE b \in pending[m]
    <3>1. CASE Upload(m)
      <4> USE DEF TypeOK, Sets
      <4>1. CASE UploadStart(m) \/ UploadList(m) \/ UploadBlock(m)
        <5>1. upc[m] # "clear"  BY <4>1 DEF UploadStart, UploadList, UploadBlock
        <5>2. ~UploadCommit(m)
          BY <1>1, <1>3, <4>1 DEF UploadStart, UploadList, UploadBlock, UploadCommit
        <5> QED  BY <1>2, <2>4, <5>1, <5>2 DEF Unsent
      <4>2. CASE UploadCommit(m)
        <5>1. upc[m] = "put" /\ upc'[m] = "clear" /\ udone' = udone
          BY <1>1, <1>3, <4>2 DEF UploadCommit
        <5>2. b \notin udone[m]  BY <2>1, <2>2, <5>1
        <5>3. b \notin uput[m]  BY <1>3, <5>2 DEF OnceOK
        <5> QED  BY <1>2, <2>4, <5>1, <5>3 DEF Unsent
      <4>3. CASE UploadClear(m)
        <5>1. upc[m] = "clear" /\ pending' = [pending EXCEPT ![m] = @ \ udone[m]]
          BY <1>1, <4>3 DEF UploadClear
        <5>2. b \notin udone[m]  BY <1>1, <1>3, <2>1, <2>2, <5>1
        <5>3. ~UploadCommit(m)  BY <5>1 DEF UploadCommit
        <5> QED  BY <1>2, <2>4, <5>2, <5>3 DEF Unsent
      <4> QED  BY <3>1, <4>1, <4>2, <4>3 DEF Upload
    <3>2. CASE ~Upload(m)
      <4>1. ~UploadCommit(m)  BY <3>2 DEF Upload
      <4>2. CASE UploadFails(m)
        <5>1. upc[m] # "clear"  BY <4>2 DEF UploadFails
        <5> QED  BY <1>2, <2>4, <4>1, <5>1 DEF Unsent
      <4>3. CASE ~UploadFails(m)
        <5>1. upc'[m] = upc[m] /\ udone'[m] = udone[m]
          BY <1>1, <1>3, <1>4, <3>2, <4>3, UploaderStep
        <5> QED  BY <1>2, <2>1, <2>2, <2>4, <4>1, <5>1 DEF Unsent
      <4> QED  BY <4>2, <4>3
    <3> QED  BY <3>1, <3>2
  <2> QED  BY <2>2, <2>3, <2>4
<1> QED  BY <1>5, <1>6

LEMMA NoSeeder ==
  ASSUME BaseInv, OnceOK, [Next]_vars, ~Seeding, NEW n \in Node
  PROVE  spc'[n] = "idle" /\ sput'[n] = {} /\ ~SeedCommit(n)
<1> USE DEF stores, blocks, ingest, uploader, puller, seeder
<1>1. TypeOK /\ \A m \in Node : spc[m] = "idle" /\ sput[m] = {}  BY DEF BaseInv, CoreInv, OnceOK
<1>2. \A m \in Node : ~Seed(m)
  BY <1>1 DEF Seed, SeedCheck, SeedLoad, SeedBlock, SeedCommit
<1>3. UNCHANGED <<spc, sput>> \/ \E m \in Node : Crash(m)
  BY <1>2 DEF Next, vars, Ingest, WriteBlock, AddPending, AppendEntry, Compact,
     DeleteMerged, Upload, UploadStart, UploadList, UploadBlock, UploadCommit, UploadClear,
     UploadFails, UploadReplyLost, CacheBlock,
     Pull, PullShared, PullLocal, PullAdd, PullOwned, PullDrop, PullDelete, PullEnds
<1>4. ASSUME NEW m \in Node, Crash(m) PROVE spc'[n] = "idle" /\ sput'[n] = {}
  BY <1>1, <1>4 DEF Crash, TypeOK, Sets
<1> QED  BY <1>1, <1>2, <1>3, <1>4 DEF Seed

LEMMA OnceNext ==
  ASSUME BaseInv, CoverOK, OwnOK, OnceOK, [Next]_vars, ~Seeding,
         Faults \cap {"pending", "crash", "reply", "swap"} = {}
  PROVE  OnceOK'
<1>0. "swap" \notin Faults  OBVIOUS
<1>1. TypeOK /\ used \subseteq Block /\ Listed(Shared) \subseteq used /\ doomed \subseteq used
  <2>1. Listed(Shared) \subseteq used
    BY ListedNamed, StoreNodes DEF BaseInv, CoreInv, NamedOK, Listed
  <2> QED  BY <2>1 DEF BaseInv, CoreInv, TypeOK
<1>2. /\ \A b, d \in Listed(Shared) : rows[b] \cap rows[d] # {} => b = d
      /\ Listed(Shared) \subseteq objects[Shared] /\ doomed \cap Listed(Shared) = {}
  BY DEF OnceOK
<1>3. \A b \in used : rows'[b] = rows[b] /\ rows[b] \subseteq Batch  BY <1>0, SafeStep
<1>4. ASSUME NEW n \in Node, UploadCommit(n), NEW b \in uput[n]
      PROVE  \E x \in Batch :
               id[x] = b /\ home[x] = n /\ rows[b] = {x} /\ Unsent(x) /\ NotShared(x)
               /\ stage[x] \notin {"idle", "written"} /\ b \notin doomed
               /\ b \in objects[Shared] /\ b \in used
  <2>1. upc[n] = "put"  BY <1>4 DEF UploadCommit
  <2>2. b \in objects[Shared]  BY <2>1 DEF OnceOK
  <2>3. b \in used  BY <1>1, <2>2, StoreNodes DEF TypeOK
  <2> QED  BY <2>1, <2>2, <2>3, CopiedUnsent
<1>5. ASSUME NEW b \in Listed(Shared)', b \notin Listed(Shared), ~Compact
      PROVE  \E n \in Node : UploadCommit(n) /\ b \in uput[n]
  <2>1. \A n \in Node : ~UploadReplyLost(n) /\ ~SeedCommit(n)  BY NoSeeder DEF UploadReplyLost
  <2> QED  BY <1>1, <1>5, <2>1, SharedListing
<1>6. /\ \A b, d \in Listed(Shared)' : rows'[b] \cap rows'[d] # {} => b = d
      /\ Listed(Shared)' \subseteq objects'[Shared] /\ doomed' \cap Listed(Shared)' = {}
      /\ \A x \in Batch : Unsent(x)' => NotShared(x)'
  <2>1. ASSUME NEW x \in Batch, Unsent(x)'
        PROVE  /\ NotShared(x)
               /\ ~(UploadCommit(home[x]) /\ id[x] \in uput[home[x]])
    BY <2>1, UnsentStep DEF OnceOK
  <2>2. CASE Compact
    <3>1. PICK G \in SUBSET (Listed(Shared) \cap objects[Shared]), b \in Block \ used :
           /\ rows'[b] = UNION {rows[s] : s \in G}
           /\ objects' = [objects EXCEPT ![Shared] = @ \cup {b}]
           /\ Listed(Shared)' = (Listed(Shared) \ G) \cup {b}
           /\ doomed' = doomed \cup G
      BY <1>0, <1>1, <2>2, CompactFacts
    <3>2. objects'[Shared] = objects[Shared] \cup {b}
      BY <1>1, <3>1, StoreNodes DEF TypeOK
    <3>3. b \notin G /\ b \notin doomed /\ b \notin Listed(Shared)  BY <1>1, <3>1
    <3>4. Listed(Shared)' \subseteq objects'[Shared] /\ doomed' \cap Listed(Shared)' = {}
      BY <1>2, <3>1, <3>2, <3>3
    <3>5. ASSUME NEW d \in Listed(Shared) \ G PROVE rows'[b] \cap rows'[d] = {}
      <4>1. rows'[d] = rows[d]  BY <1>1, <1>3
      <4>2. \A s \in G : rows[s] \cap rows[d] = {}  BY <1>2, <3>1
      <4> QED  BY <3>1, <4>1, <4>2
    <3>6. \A c, d \in Listed(Shared) \ G : rows'[c] \cap rows'[d] # {} => c = d
      BY <1>1, <1>2, <1>3
    <3>7. \A c, d \in Listed(Shared)' : rows'[c] \cap rows'[d] # {} => c = d
      BY <3>1, <3>5, <3>6
    <3>8. ASSUME NEW x \in Batch, Unsent(x)' PROVE NotShared(x)'
      <4>1. \A d \in Listed(Shared) : x \notin rows[d] /\ rows'[d] = rows[d]
        BY <1>1, <1>3, <2>1, <3>8 DEF NotShared
      <4>2. x \notin rows'[b]  BY <3>1, <4>1
      <4> QED  BY <3>1, <4>1, <4>2 DEF NotShared
    <3> QED  BY <3>4, <3>7, <3>8
  <2>3. CASE ~Compact
    <3>1. ASSUME NEW b \in Listed(Shared)' PROVE b \in used /\ rows'[b] = rows[b]
      BY <1>1, <1>3, <1>4, <1>5, <2>3
    <3>2. ASSUME NEW b \in Listed(Shared)', NEW d \in Listed(Shared)', b \notin Listed(Shared),
                 rows'[b] \cap rows'[d] # {}
          PROVE  b = d
      <4>1. PICK n \in Node : UploadCommit(n) /\ b \in uput[n]  BY <1>5, <2>3, <3>2
      <4>2. PICK x \in Batch : id[x] = b /\ rows[b] = {x} /\ NotShared(x)  BY <1>4, <4>1
      <4>3. x \in rows[d]  BY <3>1, <3>2, <4>2
      <4>4. d \notin Listed(Shared)  BY <4>2, <4>3 DEF NotShared
      <4>5. PICK m \in Node : UploadCommit(m) /\ d \in uput[m]  BY <1>5, <2>3, <4>4
      <4>6. PICK y \in Batch : id[y] = d /\ rows[d] = {y}  BY <1>4, <4>5
      <4> QED  BY <4>2, <4>3, <4>6
    <3>3. \A b, d \in Listed(Shared)' : rows'[b] \cap rows'[d] # {} => b = d
      <4>1. ASSUME NEW b \in Listed(Shared), NEW d \in Listed(Shared),
                   rows'[b] \cap rows'[d] # {}
            PROVE  b = d
        BY <1>1, <1>2, <1>3, <4>1
      <4> QED  BY <3>2, <4>1
    <3>4. ASSUME NEW b \in Listed(Shared)' PROVE b \in objects'[Shared] /\ b \notin doomed'
      <4>1. b \in objects[Shared] /\ b \notin doomed  BY <1>2, <1>4, <1>5, <2>3
      <4>2. CASE SharedGrows  BY <4>1, <4>2 DEF SharedGrows
      <4>3. CASE DeleteMerged
        <5>1. PICK d \in doomed : DeleteObject(Shared, d) /\ doomed' = doomed \ {d}
          BY <4>3 DEF DeleteMerged
        <5> QED  BY <1>1, <4>1, <5>1, StoreNodes DEF DeleteObject, TypeOK
      <4> QED  BY <1>1, <2>3, <4>2, <4>3, SharedStep
    <3>5. ASSUME NEW x \in Batch, Unsent(x)' PROVE NotShared(x)'
      <4>1. ASSUME NEW b \in Listed(Shared)' PROVE x \notin rows'[b]
        <5>1. CASE b \in Listed(Shared)  BY <2>1, <3>1, <3>5, <5>1 DEF NotShared
        <5>2. CASE b \notin Listed(Shared)
          <6>1. PICK n \in Node : UploadCommit(n) /\ b \in uput[n]  BY <1>5, <2>3, <5>2
          <6>2. PICK y \in Batch : id[y] = b /\ home[y] = n /\ rows[b] = {y}
            BY <1>4, <6>1
          <6>3. x # y  BY <2>1, <3>5, <6>1, <6>2
          <6> QED  BY <3>1, <6>2, <6>3
        <5> QED  BY <5>1, <5>2
      <4> QED  BY <4>1 DEF NotShared
    <3> QED  BY <3>3, <3>4, <3>5
  <2> QED  BY <2>2, <2>3
<1>7. ASSUME NEW n \in Node, upc'[n] = "put", NEW b \in uput'[n] PROVE b \in objects'[Shared]
  <2>1. CASE b \notin uput[n]  BY <1>1, <2>1, PutStep
  <2>2. CASE b \in uput[n]
    <3>1. upc[n] \notin {"idle", "list"}  BY <2>2 DEF OnceOK
    <3>2. upc[n] # "clear"
      <4>1. CASE Upload(n)
        BY <1>1, <1>7, <4>1 DEF Upload, UploadStart, UploadList, UploadBlock, UploadCommit,
           UploadClear, UploadReset, TypeOK
      <4>2. CASE ~Upload(n)  BY <1>1, <1>7, <4>2, UploaderStep
      <4> QED  BY <4>1, <4>2
    <3>3. upc[n] = "put"  BY <1>1, <3>1, <3>2 DEF TypeOK
    <3>4. b \in objects[Shared] /\ b \notin doomed  BY <2>2, <3>3, CopiedUnsent DEF OnceOK
    <3>5. CASE SharedGrows  BY <3>4, <3>5 DEF SharedGrows
    <3>6. CASE Compact
      <4>1. PICK d \in Block : objects' = [objects EXCEPT ![Shared] = @ \cup {d}]
        BY <1>1, <3>6, CompactFacts
      <4> QED  BY <1>1, <3>4, <4>1, StoreNodes DEF TypeOK
    <3>7. CASE DeleteMerged
      <4>1. PICK d \in doomed : DeleteObject(Shared, d)  BY <3>7 DEF DeleteMerged
      <4> QED  BY <1>1, <3>4, <4>1, StoreNodes DEF DeleteObject, TypeOK
    <3> QED  BY <1>1, <3>5, <3>6, <3>7, SharedStep
  <2> QED  BY <2>1, <2>2
<1>8. \A n \in Node : spc'[n] = "idle" /\ sput'[n] = {}  BY NoSeeder
<1>9. \A n \in Node :
         /\ upc'[n] \in {"idle", "list"} => uput'[n] = {}
         /\ upc'[n] # "clear" => uids'[n] \cup uput'[n] \subseteq pending'[n]
         /\ uput'[n] \subseteq udone'[n]
  BY OnceUploader
<1> QED  BY <1>6, <1>7, <1>8, <1>9 DEF OnceOK

(* SharedOnce: no seeder, no crash, a pending file that can be read and    *)
(* written, and no commit that is applied and answered as if it had not    *)
(* been.  Puts, reads of blocks, deletes and commits may fail.             *)
THEOREM SentOnceOnly ==
  ~Seeding /\ Faults \cap {"pending", "crash", "reply", "swap"} = {} => (Spec => []SharedOnce)
<1> SUFFICES ASSUME ~Seeding, Faults \cap {"pending", "crash", "reply", "swap"} = {}
             PROVE  Spec => []SharedOnce
  OBVIOUS
<1> DEFINE Inv == BaseInv /\ CoverOK /\ OwnOK /\ OnceOK
<1>1. Init => Inv  BY InitBase, InitCover, InitHand
<1>2. Inv /\ [Next]_vars => Inv'  BY BaseNext, CoverNext, OwnNext, OnceNext
<1>3. Inv => SharedOnce  BY DEF OnceOK, SharedOnce
<1> QED  BY <1>1, <1>2, <1>3, PTL DEF Spec

-----------------------------------------------------------------------------
(* Retention.                                                              *)

(* A sweep that empties a store knows which.                               *)
SweepOK ==
  \A n \in Sweeper : rpc[n] \in {"load", "swap", "delete"} => rstore[n] \in Store

(* What is buried is carried by nothing, and while the tombstone stands no *)
(* seeding begins.                                                         *)
Carried(b) ==
  \E n \in Node : b \in pending[n] \cup uids[n] \cup uput[n] \cup sids[n] \cup sput[n]

TombOK ==
  /\ buried \subseteq used
  /\ buried # {} => Shared \in known /\ \A n \in Node : spc[n] # "load"
  /\ \A b \in buried :
       /\ b \notin Listed(Shared) /\ ~Carried(b)
       /\ \A x \in Batch : id[x] = b => stage[x] \in {"acked", "lost"}

RInv == RTypeOK /\ IdsOK /\ CountsOK /\ SweepOK /\ TombOK

LEMMA InitR == RInit => RInv
<1> SUFFICES ASSUME RInit PROVE RInv  OBVIOUS
<1>1. TypeOK /\ IdsOK /\ CountsOK  BY InitBase DEF RInit, BaseInv, CoreInv
<1>2. RTypeOK  BY <1>1 DEF RInit, RTypeOK, Sweeper, Store
<1>3. SweepOK /\ TombOK  BY DEF RInit, SweepOK, TombOK
<1> QED  BY <1>1, <1>2, <1>3 DEF RInv

(* A sweep of the stores.                                                  *)
LEMMA PurgeFacts ==
  ASSUME TypeOK, NEW s \in Store, PurgePartition(s)
  PROVE  /\ manifest' \in [Store -> [Block -> 0..2]] /\ known' \in SUBSET Store
         /\ objects' \in [Store -> SUBSET used]
         /\ Listed(s)' = {}
         /\ \A t \in Store \ {s} : manifest'[t] = manifest[t] /\ Listed(t)' = Listed(t)
         /\ \A d \in Block : manifest'[s][d] = 0
<1>1. manifest \in [Store -> [Block -> 0..2]] /\ objects \in [Store -> SUBSET used]
  BY DEF TypeOK
<1>2. PICK z : z = [b \in Block |-> 0]  OBVIOUS
<1>3. z \in [Block -> 0..2] /\ \A d \in Block : z[d] = 0  BY <1>2
<1>4. manifest' = [manifest EXCEPT ![s] = z]  BY <1>2 DEF PurgePartition
<1>5. manifest' \in [Store -> [Block -> 0..2]] /\ manifest'[s] = z
      /\ \A t \in Store \ {s} : manifest'[t] = manifest[t]
  BY <1>1, <1>3, <1>4
<1>6. objects' \in [Store -> SUBSET used]  BY <1>1 DEF PurgePartition
<1>7. known' \in SUBSET Store  BY DEF PurgePartition, TypeOK
<1> QED  BY <1>3, <1>5, <1>6, <1>7 DEF Listed

LEMMA SweepStores ==
  ASSUME RTypeOK, SweepOK, NEW n \in Sweeper, Sweep(n)
  PROVE  /\ manifest' \in [Store -> [Block -> 0..2]] /\ known' \in SUBSET Store
         /\ objects' \in [Store -> SUBSET used]
         /\ pending' \in [Node -> SUBSET used] /\ \A m \in Node : pending'[m] \subseteq pending[m]
         /\ Listed(Shared)' \subseteq Listed(Shared)
         /\ \A s \in Store : \A b \in Block :
              manifest'[s][b] <= 1 \/ manifest'[s][b] = manifest[s][b]
<1> USE DEF stores, blocks, ingest, uploader, puller, seeder
<1>1. TypeOK /\ Shared \in Store  BY StoreNodes DEF RTypeOK
<1>2. CASE SweepStart(n)
  <2>1. pending' = [m \in Node |-> IF m = n THEN {} ELSE pending[m]]
    BY <1>2 DEF SweepStart
  <2>2. pending' \in [Node -> SUBSET used] /\ \A m \in Node : pending'[m] \subseteq pending[m]
    BY <1>1, <2>1 DEF TypeOK
  <2> QED  BY <1>1, <1>2, <2>2 DEF SweepStart, Listed, TypeOK
<1>3. CASE EmptyLoad(n) \/ EmptyEnds(n) \/ CheckEmpty(n)
  BY <1>1, <1>3 DEF EmptyLoad, EmptyEnds, CheckEmpty, Listed, TypeOK
<1>4. CASE EmptySwap(n)
  <2>1. rstore[n] \in Store /\ SwapBlocks(rstore[n], rids[n], {})
    BY <1>4 DEF EmptySwap, SweepOK
  <2>2. PICK s \in Store : s = rstore[n]  BY <2>1
  <2>3. /\ manifest' \in [Store -> [Block -> 0..2]] /\ known' \in SUBSET Store
        /\ Listed(s)' = (Listed(s) \cup ({} \cap Block)) \ rids[n]
        /\ \A t \in Store \ {s} : manifest'[t] = manifest[t] /\ Listed(t)' = Listed(t)
        /\ \A d \in Block : manifest'[s][d] <= 1 \/ manifest'[s][d] = manifest[s][d]
    BY <1>1, <2>1, <2>2, SwapFacts
  <2>4. Listed(Shared)' \subseteq Listed(Shared)
    <3>1. CASE s = Shared  BY <2>3, <3>1
    <3>2. CASE s # Shared  BY <1>1, <2>3, <3>2
    <3> QED  BY <3>1, <3>2
  <2> QED  BY <1>1, <1>4, <2>3, <2>4 DEF EmptySwap, TypeOK
<1>5. CASE EmptyDelete(n)
  <2>1. rstore[n] \in Store  BY <1>5 DEF EmptyDelete, SweepOK
  <2>2. PICK b \in rids[n] :
          objects' = [objects EXCEPT ![rstore[n]] = @ \ {b}] \/ UNCHANGED objects
    BY <1>5 DEF EmptyDelete, DeleteObject
  <2>3. objects' \in [Store -> SUBSET used]
    <3>1. CASE objects' = [objects EXCEPT ![rstore[n]] = @ \ {b}]
      BY <1>1, <2>1, <3>1 DEF TypeOK
    <3> QED  BY <1>1, <2>2, <3>1 DEF TypeOK
  <2> QED  BY <1>1, <1>5, <2>3 DEF EmptyDelete, Listed, TypeOK
<1>6. CASE Reap(n)
  <2>1. pending' = pending /\ (PurgePartition(Shared) \/ UNCHANGED <<manifest, known, objects>>)
    BY <1>6 DEF Reap
  <2>2. CASE PurgePartition(Shared)  BY <1>1, <2>1, <2>2, PurgeFacts DEF TypeOK
  <2>3. CASE UNCHANGED <<manifest, known, objects>>
    BY <1>1, <2>1, <2>3 DEF TypeOK, Listed
  <2> QED  BY <2>1, <2>2, <2>3
<1>7. CASE PurgeLocal(n)
  <2>1. PurgePartition(n) /\ pending' = [pending EXCEPT ![n] = {}]  BY <1>7 DEF PurgeLocal
  <2>2. pending' \in [Node -> SUBSET used] /\ \A m \in Node : pending'[m] \subseteq pending[m]
    BY <1>1, <2>1 DEF TypeOK
  <2>3. CASE n \in Store
    <3>1. /\ manifest' \in [Store -> [Block -> 0..2]] /\ known' \in SUBSET Store
          /\ objects' \in [Store -> SUBSET used]
          /\ Listed(n)' = {}
          /\ \A t \in Store \ {n} : manifest'[t] = manifest[t] /\ Listed(t)' = Listed(t)
          /\ \A d \in Block : manifest'[n][d] = 0
      BY <1>1, <2>1, <2>3, PurgeFacts
    <3>2. Listed(Shared)' \subseteq Listed(Shared)
      <4>1. CASE n = Shared  BY <3>1, <4>1
      <4>2. CASE n # Shared  BY <1>1, <3>1, <4>2
      <4> QED  BY <4>1, <4>2
    <3>3. \A s \in Store : \A b \in Block :
              manifest'[s][b] <= 1 \/ manifest'[s][b] = manifest[s][b]
      BY <3>1
    <3> QED  BY <2>2, <3>1, <3>2, <3>3
  <2>4. CASE n \notin Store
    <3>1. manifest' = manifest /\ objects' = objects /\ known' \in SUBSET Store
      BY <1>1, <2>1, <2>4 DEF PurgePartition, TypeOK
    <3> QED  BY <1>1, <2>2, <3>1 DEF Listed, TypeOK
  <2> QED  BY <2>3, <2>4
<1>8. CASE DropFails(n)
  <2>1. objects' = objects /\ pending' = pending
    BY <1>8 DEF DropFails
  <2>2. UNCHANGED <<manifest, known>> \/ SwapBlocks(Shared, rids[n], {})
    BY <1>8 DEF DropFails
  <2>3. CASE UNCHANGED <<manifest, known>>
    BY <1>1, <2>1, <2>3 DEF TypeOK, Listed
  <2>4. CASE SwapBlocks(Shared, rids[n], {})
    <3>1. /\ manifest' \in [Store -> [Block -> 0..2]] /\ known' \in SUBSET Store
          /\ Listed(Shared)' = (Listed(Shared) \cup ({} \cap Block)) \ rids[n]
          /\ \A t \in Store \ {Shared} : manifest'[t] = manifest[t] /\ Listed(t)' = Listed(t)
          /\ \A d \in Block : manifest'[Shared][d] <= 1 \/ manifest'[Shared][d] = manifest[Shared][d]
      BY <1>1, <2>4, SwapFacts
    <3>2. \A t \in Store : \A d \in Block :
            manifest'[t][d] <= 1 \/ manifest'[t][d] = manifest[t][d]
      BY <3>1
    <3> QED  BY <1>1, <2>1, <3>1, <3>2 DEF TypeOK
  <2> QED  BY <2>2, <2>3, <2>4
<1> QED  BY <1>2, <1>3, <1>4, <1>5, <1>6, <1>7, <1>8 DEF Sweep

LEMMA SweepVars ==
  ASSUME RTypeOK, SweepOK, NEW n \in Sweeper, Sweep(n)
  PROVE  /\ SweepOK'
         /\ rpc' \in [Sweeper -> {"idle", "load", "swap", "delete", "reap", "check", "purge"}]
         /\ reaps' \in [Sweeper -> BOOLEAN]
         /\ rstore' \in [Sweeper -> Store \cup Elsewhere]
         /\ rids' \in [Sweeper -> SUBSET Block]
<1> USE DEF stores, blocks, ingest, uploader, puller, seeder, RTypeOK
<1>1. Shared \in Store /\ n \in Store \cup Elsewhere /\ (n \notin Elsewhere => n \in Store)
  BY StoreNodes DEF Sweeper
<1>2. CASE SweepStart(n)
  <2>1. rids' = rids  BY <1>2 DEF SweepStart
  <2>2. CASE /\ rpc' = [rpc EXCEPT ![n] = "load"] /\ rstore' = [rstore EXCEPT ![n] = Shared]
             /\ reaps' = [reaps EXCEPT ![n] = (age = "reapable")]
    <3>1. (age = "reapable") \in BOOLEAN  OBVIOUS
    <3>2. reaps' \in [Sweeper -> BOOLEAN]  BY <2>2, <3>1
    <3> QED  BY <1>1, <2>1, <2>2, <3>2 DEF SweepOK
  <2>3. CASE rpc' = [rpc EXCEPT ![n] = "check"] /\ UNCHANGED <<rstore, reaps>>
    BY <2>1, <2>3 DEF SweepOK
  <2> QED  BY <1>2, <2>2, <2>3 DEF SweepStart
<1>3. ASSUME NextStore(n)
      PROVE  /\ SweepOK'
             /\ rpc' \in [Sweeper -> {"idle", "load", "swap", "delete", "reap", "check", "purge"}]
             /\ reaps' \in [Sweeper -> BOOLEAN]
             /\ rstore' \in [Sweeper -> Store \cup Elsewhere]
  BY <1>1, <1>3 DEF NextStore, SweepOK
<1>4. CASE EmptyLoad(n)
  <2>1. Listed(rstore[n]) \subseteq Block  BY DEF Listed
  <2>2. rids' \in [Sweeper -> SUBSET Block]  BY <1>4, <2>1 DEF EmptyLoad
  <2>3. CASE NextStore(n)  BY <1>3, <2>2, <2>3
  <2>4. CASE ~NextStore(n)
    <3>1. rpc' = [rpc EXCEPT ![n] = "swap"] \/ rpc' = [rpc EXCEPT ![n] = "reap"]
      BY <1>4, <2>4 DEF EmptyLoad
    <3>2. UNCHANGED <<rstore, reaps>> /\ rpc[n] = "load"  BY <1>4, <2>4 DEF EmptyLoad
    <3> QED  BY <2>2, <3>1, <3>2 DEF SweepOK
  <2> QED  BY <2>3, <2>4
<1>5. CASE EmptySwap(n)  BY <1>5 DEF EmptySwap, SweepOK
<1>6. CASE EmptyDelete(n)  BY <1>6 DEF EmptyDelete, SweepOK
<1>7. CASE EmptyEnds(n)  BY <1>3, <1>7 DEF EmptyEnds
<1>8. CASE Reap(n)  BY <1>3, <1>8 DEF Reap
<1>9. CASE CheckEmpty(n)  BY <1>9 DEF CheckEmpty, SweepOK
<1>10. CASE PurgeLocal(n)  BY <1>10 DEF PurgeLocal, SweepOK
<1>11. CASE DropFails(n)  BY <1>1, <1>11 DEF DropFails, SweepOK
<1> QED
  BY <1>2, <1>4, <1>5, <1>6, <1>7, <1>8, <1>9, <1>10, <1>11 DEF Sweep

(* Types, ids and entries, whatever is swept beside the replication.       *)
LEMMA RTypeNext == RInv /\ [RNext]_rvars => (RTypeOK /\ IdsOK /\ CountsOK /\ SweepOK)'
<1> SUFFICES ASSUME RInv, [RNext]_rvars PROVE (RTypeOK /\ IdsOK /\ CountsOK /\ SweepOK)'
  OBVIOUS
<1> USE DEF sweeper
<1>1. RTypeOK /\ SweepOK /\ CoreInv  BY DEF RInv, RTypeOK, CoreInv
<1>2. used \subseteq Block  BY <1>1 DEF RTypeOK, TypeOK
<1>3. CASE Replicate /\ Bury
  <2>1. [Next]_vars
    <3>1. Replicate => Next  BY DEF Replicate, Next
    <3> QED  BY <1>3, <3>1
  <2>2. CoreInv'  BY <1>1, <2>1, CoreNext
  <2>3. buried' \in SUBSET Block
    <3>1. used' \subseteq Block  BY <2>2 DEF CoreInv, TypeOK
    <3> QED  BY <1>1, <1>3, <3>1 DEF Bury, AtRest, RTypeOK
  <2> QED  BY <1>1, <1>3, <2>2, <2>3 DEF Replicate, RTypeOK, CoreInv, SweepOK
<1>4. ASSUME NEW n \in Sweeper, Sweep(n), Bury
      PROVE  (RTypeOK /\ IdsOK /\ CountsOK /\ SweepOK)'
  <2>1. /\ manifest' \in [Store -> [Block -> 0..2]] /\ known' \in SUBSET Store
        /\ objects' \in [Store -> SUBSET used] /\ pending' \in [Node -> SUBSET used]
        /\ \A s \in Store : \A b \in Block :
              manifest'[s][b] <= 1 \/ manifest'[s][b] = manifest[s][b]
    BY <1>1, <1>4, SweepStores
  <2>2. UNCHANGED <<blocks, ingest, uploader, puller, seeder, age, holder>>
    BY <1>4 DEF Sweep
  <2>3. TypeOK'
    BY <1>1, <2>1, <2>2 DEF RTypeOK, TypeOK, blocks, ingest, uploader, puller, seeder
  <2>4. buried' \in SUBSET Block
    <3>1. used' \subseteq Block  BY <2>3 DEF TypeOK
    <3> QED  BY <1>1, <1>4, <3>1 DEF Bury, AtRest, RTypeOK
  <2>5. IdsOK'  BY <1>1, <2>2 DEF CoreInv, IdsOK, blocks, ingest
  <2>6. CountsOK'  BY <1>1, <2>1, <2>2 DEF CoreInv, CountsOK, ingest
  <2>7. RTypeOK' /\ SweepOK'  BY <1>1, <1>4, <2>2, <2>3, <2>4, SweepVars DEF RTypeOK
  <2> QED  BY <2>5, <2>6, <2>7
<1>5. CASE Elapse /\ Bury
  <2>1. TypeOK' /\ IdsOK' /\ CountsOK'
    BY <1>1, <1>5 DEF Elapse, vars, CoreInv, TypeOK, IdsOK, CountsOK
  <2>2. buried' \in SUBSET Block
    <3>1. used' \subseteq Block  BY <2>1 DEF TypeOK
    <3> QED  BY <1>1, <1>5, <3>1 DEF Bury, AtRest, RTypeOK
  <2> QED  BY <1>1, <1>5, <2>1, <2>2 DEF Elapse, RTypeOK, SweepOK
<1>6. CASE UNCHANGED rvars
  <2>1. TypeOK' /\ IdsOK' /\ CountsOK'
    BY <1>1, <1>6 DEF rvars, vars, CoreInv, TypeOK, IdsOK, CountsOK
  <2> QED  BY <1>1, <1>6, <2>1 DEF rvars, RTypeOK, SweepOK
<1> QED  BY <1>3, <1>4, <1>5, <1>6 DEF RNext

(* Nothing in flight picks up a block of which the ingest is over, unless  *)
(* a seeding begins.                                                       *)
LEMMA CarriedStep ==
  ASSUME TypeOK, Replicate, NEW b \in used, Carried(b)',
         \A n \in Node : spc[n] # "load",
         \A x \in Batch : id[x] = b => stage[x] \in {"acked", "lost"}
  PROVE  Carried(b)
<1> USE DEF stores, blocks, ingest, uploader, puller, seeder
<1>1. ASSUME NEW x \in Batch, Ingest(x) PROVE Carried(b)
  <2>1. uids' = uids /\ uput' = uput /\ sids' = sids /\ sput' = sput
    BY <1>1 DEF Ingest, WriteBlock, AddPending, AppendEntry
  <2>2. CASE AddPending(x)
    <3>1. id[x] # b  BY <2>2 DEF AddPending
    <3>2. \A n \in Node : pending'[n] \subseteq pending[n] \cup {id[x]}
      BY <2>2 DEF AddPending, PendingRead, TypeOK
    <3> QED  BY <2>1, <3>1, <3>2 DEF Carried
  <2>3. CASE ~AddPending(x)
    <3>1. pending' = pending  BY <1>1, <2>3 DEF Ingest, WriteBlock, AppendEntry
    <3> QED  BY <2>1, <3>1 DEF Carried
  <2> QED  BY <2>2, <2>3
<1>2. ASSUME NEW m \in Node, Upload(m) \/ UploadFails(m) \/ UploadReplyLost(m) PROVE Carried(b)
  <2>1. sids' = sids /\ sput' = sput /\ \A n \in Node : pending'[n] \subseteq pending[n]
    BY <1>2 DEF TypeOK, Upload, UploadStart, UploadList, UploadBlock, UploadCommit, UploadClear, UploadFails, UploadReplyLost
  <2>2. \A n \in Node \ {m} : uids'[n] = uids[n] /\ uput'[n] = uput[n]
    BY <1>2 DEF TypeOK, Sets, Upload, UploadStart, UploadList, UploadBlock, UploadCommit,
       UploadClear, UploadFails, UploadReplyLost, UploadReset
  <2>3. uids'[m] \cup uput'[m] \subseteq uids[m] \cup uput[m] \cup pending[m]
    <3> USE DEF TypeOK, Sets
    <3>1. CASE UploadStart(m)  BY <3>1 DEF UploadStart, PendingRead
    <3>2. CASE UploadList(m)  BY <3>2 DEF UploadList
    <3>3. CASE UploadBlock(m)
      <4>1. PICK d \in uids[m] :
             /\ uids' = [uids EXCEPT ![m] = @ \ {d}]
             /\ uput' = [uput EXCEPT ![m] = @ \cup {d}] \/ UNCHANGED uput
        BY <3>3 DEF UploadBlock
      <4>2. uids'[m] = uids[m] \ {d} /\ uput'[m] \subseteq uput[m] \cup {d}  BY <4>1
      <4> QED  BY <4>1, <4>2
    <3>4. CASE UploadCommit(m)  BY <3>4 DEF UploadCommit
    <3>5. CASE UploadClear(m) \/ UploadFails(m) \/ UploadReplyLost(m)
      BY <3>5 DEF UploadClear, UploadFails, UploadReplyLost, UploadReset
    <3> QED  BY <1>2, <3>1, <3>2, <3>3, <3>4, <3>5 DEF Upload
  <2> QED  BY <2>1, <2>2, <2>3 DEF Carried
<1>3. ASSUME NEW m \in Node, Seed(m) PROVE Carried(b)
  <2>1. pending' = pending /\ uids' = uids /\ uput' = uput
    BY <1>3 DEF Seed, SeedCheck, SeedLoad, SeedBlock, SeedCommit
  <2>2. ~SeedLoad(m)  BY DEF SeedLoad
  <2>3. \A n \in Node \ {m} : sids'[n] = sids[n] /\ sput'[n] = sput[n]
    BY <1>3 DEF TypeOK, Sets, Seed, SeedCheck, SeedLoad, SeedBlock, SeedCommit
  <2>4. sids'[m] \cup sput'[m] \subseteq sids[m] \cup sput[m]
    <3> USE DEF TypeOK, Sets
    <3>1. CASE SeedBlock(m)
      <4>1. PICK d \in sids[m] :
             /\ sids' = [sids EXCEPT ![m] = @ \ {d}]
             /\ sput' = [sput EXCEPT ![m] = @ \cup {d}] \/ UNCHANGED sput
        BY <3>1 DEF SeedBlock
      <4>2. sids'[m] = sids[m] \ {d} /\ sput'[m] \subseteq sput[m] \cup {d}  BY <4>1
      <4> QED  BY <4>1, <4>2
    <3>2. CASE SeedCheck(m) \/ SeedCommit(m)  BY <3>2 DEF SeedCheck, SeedCommit
    <3> QED  BY <1>3, <2>2, <3>1, <3>2 DEF Seed
  <2> QED  BY <2>1, <2>3, <2>4 DEF Carried
<1>4. ASSUME UNCHANGED <<pending, uids, uput, sids, sput>> PROVE Carried(b)
  BY <1>4 DEF Carried
<1>5. ASSUME NEW m \in Node, Pull(m) \/ CacheBlock(m) PROVE UNCHANGED <<pending, uids, uput, sids, sput>>
  BY <1>5 DEF CacheBlock,
     Pull, PullShared, PullLocal, PullAdd, PullOwned, PullDrop, PullDelete, PullEnds
<1>6. (Compact \/ DeleteMerged) => UNCHANGED <<pending, uids, uput, sids, sput>>
  BY DEF Compact, DeleteMerged
<1> QED  BY <1>1, <1>2, <1>3, <1>4, <1>5, <1>6 DEF Replicate

(* A batch whose ingest is over stays with its block.                      *)
LEMMA SettledStep ==
  ASSUME TypeOK, [Next]_vars, NEW b \in used, NEW x \in Batch, id'[x] = b,
         id[x] = b => stage[x] \in {"acked", "lost"}
  PROVE  stage'[x] \in {"acked", "lost"}
<1> USE DEF stores, blocks, ingest, uploader, puller, seeder
<1>1. CASE UNCHANGED <<id, stage>>  BY <1>1
<1>2. ASSUME NEW y \in Batch, Ingest(y) PROVE stage'[x] \in {"acked", "lost"}
  <2>1. CASE WriteBlock(y)
    <3>1. PICK d \in Block \ used : id' = [id EXCEPT ![y] = d]
      BY <2>1 DEF WriteBlock, Draw
    <3>2. x # y  BY <3>1 DEF TypeOK
    <3> QED  BY <2>1, <3>1, <3>2 DEF WriteBlock, TypeOK
  <2>2. CASE AddPending(y) \/ AppendEntry(y)
    <3>1. id[x] = b /\ stage[x] \in {"acked", "lost"}  BY <2>2 DEF AddPending, AppendEntry
    <3>2. x # y  BY <2>2, <3>1 DEF AddPending, AppendEntry
    <3> QED  BY <2>2, <3>1, <3>2 DEF AddPending, AppendEntry, TypeOK
  <2> QED  BY <1>2, <2>1, <2>2 DEF Ingest
<1>3. ASSUME NEW n \in Node, Crash(n) PROVE stage'[x] \in {"acked", "lost"}
  BY <1>3 DEF Crash
<1>4. UNCHANGED <<id, stage>> \/ (\E y \in Batch : Ingest(y)) \/ \E n \in Node : Crash(n)
  BY DEF Next, vars, Compact, DeleteMerged, Upload, UploadStart, UploadList, UploadBlock,
     UploadCommit, UploadClear, UploadFails, UploadReplyLost, Seed, SeedCheck, SeedLoad, SeedBlock, SeedCommit,
     CacheBlock, Pull, PullShared, PullLocal, PullAdd, PullOwned, PullDrop, PullDelete, PullEnds
<1> QED  BY <1>1, <1>2, <1>3, <1>4

LEMMA TombNext == RInv /\ [RNext]_rvars => TombOK'
<1> SUFFICES ASSUME RInv, [RNext]_rvars PROVE TombOK'  OBVIOUS
<1>1. /\ RTypeOK /\ TypeOK /\ SweepOK /\ TombOK /\ used \subseteq Block
  BY DEF RInv, RTypeOK, TypeOK
<1>2. CASE UNCHANGED rvars
  BY <1>1, <1>2 DEF rvars, vars, TombOK, Carried, Listed
<1>3. CASE RNext
  <2>1. buried' = IF Shared \in known' THEN buried \cup AtRest' ELSE {}  BY <1>3 DEF RNext, Bury
  <2>2. CASE Shared \notin known'  BY <2>1, <2>2 DEF TombOK
  <2>3. CASE Shared \in known'
    <3>1. buried' = buried \cup AtRest'  BY <2>1, <2>3
    <3>2. \A b \in AtRest' : /\ b \in used' /\ b \notin Listed(Shared)' /\ ~Carried(b)'
                             /\ \A x \in Batch : id'[x] = b => stage'[x] \in {"acked", "lost"}
                             /\ \A n \in Node : spc'[n] # "load"
      BY DEF AtRest, Carried
    <3>3. ASSUME NEW b \in buried
          PROVE  /\ b \in used' /\ b \notin Listed(Shared)' /\ ~Carried(b)'
                 /\ \A x \in Batch : id'[x] = b => stage'[x] \in {"acked", "lost"}
                 /\ \A n \in Node : spc'[n] # "load"
      <4>1. /\ b \in used /\ b \in Block /\ Shared \in known
            /\ \A n \in Node : spc[n] # "load"
            /\ b \notin Listed(Shared) /\ ~Carried(b)
            /\ \A x \in Batch : id[x] = b => stage[x] \in {"acked", "lost"}
        BY <1>1 DEF TombOK
      <4>2. CASE Replicate
        <5>1. [Next]_vars  BY <4>2 DEF Replicate, Next
        <5>2. b \in used'
          BY <1>1, <4>1, <5>1, SharedStep, CompactFacts
          DEF SharedGrows, DeleteMerged, uploader, ingest, puller, seeder
        <5>3. ~Carried(b)'  BY <1>1, <4>1, <4>2, CarriedStep
        <5>4. b \notin Listed(Shared)'
          <6>1. \A n \in Node : b \notin uput[n] /\ b \notin sput[n]  BY <4>1 DEF Carried
          <6> QED  BY <1>1, <4>1, <5>1, <6>1, SharedListing
        <5>5. \A x \in Batch : id'[x] = b => stage'[x] \in {"acked", "lost"}
          BY <1>1, <4>1, <5>1, SettledStep
        <5>6. \A n \in Node : spc'[n] # "load"
          <6>1. \A m \in Node : ~SeedCheck(m)  BY <4>1 DEF SeedCheck
          <6>2. CASE \E m \in Node : Seed(m)
            BY <1>1, <4>1, <6>1, <6>2
            DEF Seed, SeedLoad, SeedBlock, SeedCommit, TypeOK, seeder
          <6>3. CASE ~\E m \in Node : Seed(m)
            <7>1. spc' = spc
              BY <4>2, <6>3 DEF Replicate, Ingest, WriteBlock, AddPending, AppendEntry, Compact,
                 DeleteMerged, Upload, UploadStart, UploadList, UploadBlock, UploadCommit,
                 UploadClear, UploadFails, UploadReplyLost, CacheBlock, seeder,
                 Pull, PullShared, PullLocal, PullAdd, PullOwned, PullDrop, PullDelete, PullEnds
            <7> QED  BY <4>1, <7>1
          <6> QED  BY <6>2, <6>3
        <5> QED  BY <5>2, <5>3, <5>4, <5>5, <5>6
      <4>3. ASSUME NEW n \in Sweeper, Sweep(n)
            PROVE  /\ b \in used' /\ b \notin Listed(Shared)' /\ ~Carried(b)'
                   /\ \A x \in Batch : id'[x] = b => stage'[x] \in {"acked", "lost"}
                   /\ \A m \in Node : spc'[m] # "load"
        <5>1. /\ Listed(Shared)' \subseteq Listed(Shared)
              /\ \A m \in Node : pending'[m] \subseteq pending[m]
          BY <1>1, <4>3, SweepStores
        <5>2. UNCHANGED <<used, id, stage, uids, uput, sids, sput, spc>>
          BY <4>3 DEF Sweep, blocks, ingest, uploader, puller, seeder
        <5> QED  BY <4>1, <5>1, <5>2 DEF Carried
      <4>4. CASE Elapse  BY <4>1, <4>4 DEF Elapse, vars, Carried, Listed
      <4> QED  BY <1>3, <4>2, <4>3, <4>4 DEF RNext
    <3> QED  BY <2>3, <3>1, <3>2, <3>3 DEF TombOK
  <2> QED  BY <2>2, <2>3
<1> QED  BY <1>2, <1>3

(* TombstoneHolds, without what is assumed of time elsewhere.              *)
THEOREM DroppedStaysOut == RSpec => []TombstoneHolds
<1>1. RInv /\ [RNext]_rvars => RInv'  BY RTypeNext, TombNext DEF RInv
<1>2. RInv => TombstoneHolds  BY DEF RInv, TombOK, TombstoneHolds
<1> QED  BY InitR, <1>1, <1>2, PTL DEF RSpec

(* RTypeOK: what a sweep empties is a store, among others.                 *)
THEOREM RTypeCorrect == RSpec => []RTypeOK
<1>1. RInv /\ [RNext]_rvars => RInv'  BY RTypeNext, TombNext DEF RInv
<1>2. RInv => RTypeOK  BY DEF RInv
<1> QED  BY InitR, <1>1, <1>2, PTL DEF RSpec
=============================================================================
