------------------------ MODULE BlockPartition_proofs ------------------------
(***************************************************************************)
(* Proofs about BlockPartition, for every number of batches, blocks,       *)
(* compactors and queries, when no reply of the store is lost.             *)
(*                                                                         *)
(* NoDangling and ExactlyOnce say what is live; they are kept because of   *)
(* who may still touch what is not.  A block on its way into the manifest  *)
(* belongs to one task, and no list of blocks to merge, to delete or to    *)
(* collect has it; a block on one of those deletion lists never returns to *)
(* the manifest; a merged block holds the rows of exactly the blocks it    *)
(* replaces.  That is also why a partition implements RowSet: of all its   *)
(* steps only the commit of an append changes the set of rows.             *)
(***************************************************************************)
EXTENDS BlockPartition, TLAPS

(* The timing and store assumption of the theorems.                        *)
NoLostReply == LostReply = FALSE

Disjoint(b, d) == \A x \in Batch : x \in rows[b] /\ x \in rows[d] => b = d

(* What the manifest names.                                                *)
LiveOK ==
  /\ live \subseteq objects
  /\ \A b, d \in live : Disjoint(b, d)
  /\ \A x \in Batch : stage[x] = "acked" => \E b \in live : x \in rows[b]
  /\ \A x \in Batch, b \in Block : stage[x] = "idle" => x \notin rows[b]
  /\ \A b \in Block : b \notin used => rows[b] = {}

(* A block an append is about to commit.                                   *)
AppendsOK ==
  \A x \in Batch : stage[x] = "written" =>
    /\ id[x] \in objects /\ id[x] \notin live /\ id[x] \notin old
    /\ rows[id[x]] = {x}
    /\ \A b \in Block : x \in rows[b] => b = id[x]
    /\ \A c \in Compactor :
         id[x] \notin todo[c] /\ id[x] \notin group[c] /\ id[x] \notin victims[c]
    /\ \A r \in Reader : id[x] \notin ids[r] /\ id[x] \notin missed[r]

Merging(c) == cpc[c] \in {"swap", "drop"}

(* A merged block a compactor is about to commit or to drop.               *)
MergesOK ==
  \A c \in Compactor : Merging(c) =>
    /\ new[c] \in used /\ new[c] \notin live
    /\ \A x \in Batch : stage[x] = "written" => id[x] # new[c]
    /\ \A d \in Compactor : Merging(d) /\ new[d] = new[c] => d = c
    /\ \A d \in Compactor : new[c] \notin todo[d] /\ new[c] \notin group[d]
    /\ \A r \in Reader : new[c] \notin ids[r] /\ new[c] \notin missed[r]
    /\ cpc[c] = "swap" =>
         /\ new[c] \in objects /\ new[c] \notin old
         /\ \A d \in Compactor : new[c] \notin victims[d]
         /\ \A x \in Batch : x \in rows[new[c]] <=> \E s \in group[c] : x \in rows[s]

(* The lists of blocks to merge and to delete.                             *)
ListsOK ==
  \A c \in Compactor :
    /\ todo[c] \subseteq used /\ group[c] \subseteq used /\ victims[c] \subseteq used
    /\ \A b \in victims[c] : b \notin live
    /\ cpc[c] = "delete" => \A b \in group[c] : b \notin live

(* The queries: rows once live stay live, and no two blocks of a manifest  *)
(* share a row.                                                            *)
QueryOK(r) ==
  /\ rpc[r] = "idle" => got[r] = {} /\ missed[r] = {}
  /\ ids[r] \subseteq used /\ missed[r] \subseteq used
  /\ \A b \in ids[r] \cup missed[r] : \A x \in rows[b] : \E d \in live : x \in rows[d]
  /\ \A b \in missed[r] : b \notin live
  /\ \A b, d \in ids[r] : Disjoint(b, d)
  /\ \A b \in ids[r] : \A x \in rows[b] : x \notin got[r]
  /\ \A x \in due[r] : x \in got[r] \/ \E b \in ids[r] \cup missed[r] : x \in rows[b]

QueriesOK == \A r \in Reader : QueryOK(r)

IInv == TypeOK /\ LiveOK /\ AppendsOK /\ MergesOK /\ ListsOK /\ QueriesOK

-----------------------------------------------------------------------------
(* An empty partition.                                                     *)
LEMMA InitIInv == Init => IInv
  BY NoBlockAssumption
  DEF Init, IInv, TypeOK, LiveOK, AppendsOK, MergesOK, Merging, ListsOK, QueriesOK,
      QueryOK, Disjoint

(* A fresh id is on nobody's list.                                         *)
LEMMA WriteBlockStep ==
  ASSUME IInv, NEW x \in Batch,
         WriteBlock(x)
  PROVE  IInv'
<1> USE NoBlockAssumption DEF WriteBlock, WriteObject, partition, appends, passes, queries
<1>1. TypeOK'
  BY DEF IInv, TypeOK
<1>2. LiveOK'
  BY DEF IInv, TypeOK, LiveOK, AppendsOK, MergesOK, Merging, ListsOK, QueriesOK,
         QueryOK, Disjoint
<1>3. AppendsOK'
  BY DEF IInv, TypeOK, LiveOK, AppendsOK, MergesOK, Merging, ListsOK, QueriesOK,
         QueryOK, Disjoint
<1>4. MergesOK'
  BY DEF IInv, TypeOK, LiveOK, AppendsOK, MergesOK, Merging, ListsOK, QueriesOK,
         QueryOK, Disjoint
<1>5. ListsOK'
  BY DEF IInv, TypeOK, LiveOK, AppendsOK, MergesOK, Merging, ListsOK, QueriesOK,
         QueryOK, Disjoint
<1>6. QueriesOK'
  BY DEF IInv, TypeOK, LiveOK, AppendsOK, MergesOK, Merging, ListsOK, QueriesOK,
         QueryOK, Disjoint
<1> QED
  BY <1>1, <1>2, <1>3, <1>4, <1>5, <1>6 DEF IInv

(* The block committed was the batch's own, and so are its rows.           *)
LEMMA AppendStep ==
  ASSUME IInv, NEW x \in Batch,
         Append(x)
  PROVE  IInv'
<1> USE NoBlockAssumption DEF Append, partition, appends, passes, queries
<1>1. TypeOK'
  BY DEF IInv, TypeOK, AppendsOK
<1>2. LiveOK'
  BY DEF IInv, TypeOK, LiveOK, AppendsOK, MergesOK, Merging, ListsOK, QueriesOK,
         QueryOK, Disjoint
<1>3. AppendsOK'
  <2> SUFFICES ASSUME NEW y \in Batch, stage'[y] = "written"
               PROVE  id[y] \notin live \cup {id[x]}
    BY DEF IInv, TypeOK, AppendsOK
  <2>1. y # x /\ stage[y] = "written"
    BY DEF IInv, TypeOK
  <2>2. rows[id[x]] = {x} /\ rows[id[y]] = {y} /\ id[y] \notin live
    BY <2>1 DEF IInv, AppendsOK
  <2> QED
    BY <2>1, <2>2
<1>4. MergesOK'
  BY DEF IInv, TypeOK, LiveOK, AppendsOK, MergesOK, Merging, ListsOK, QueriesOK,
         QueryOK, Disjoint
<1>5. ListsOK'
  BY DEF IInv, TypeOK, LiveOK, AppendsOK, MergesOK, Merging, ListsOK, QueriesOK,
         QueryOK, Disjoint
<1>6. QueriesOK'
  BY DEF IInv, TypeOK, LiveOK, AppendsOK, MergesOK, Merging, ListsOK, QueriesOK,
         QueryOK, Disjoint
<1> QED
  BY <1>1, <1>2, <1>3, <1>4, <1>5, <1>6 DEF IInv

(* The rows of a lost batch are in an orphan at most.                      *)
LEMMA LoseBatchStep ==
  ASSUME IInv, NEW x \in Batch,
         LoseBatch(x)
  PROVE  IInv'
<1> USE NoBlockAssumption DEF LoseBatch, partition, appends, passes, queries
<1>1. TypeOK'
  BY DEF IInv, TypeOK
<1>2. LiveOK'
  BY DEF IInv, TypeOK, LiveOK, AppendsOK, MergesOK, Merging, ListsOK, QueriesOK,
         QueryOK, Disjoint
<1>3. AppendsOK'
  BY DEF IInv, TypeOK, LiveOK, AppendsOK, MergesOK, Merging, ListsOK, QueriesOK,
         QueryOK, Disjoint
<1>4. MergesOK'
  BY DEF IInv, TypeOK, LiveOK, AppendsOK, MergesOK, Merging, ListsOK, QueriesOK,
         QueryOK, Disjoint
<1>5. ListsOK'
  BY DEF IInv, TypeOK, LiveOK, AppendsOK, MergesOK, Merging, ListsOK, QueriesOK,
         QueryOK, Disjoint
<1>6. QueriesOK'
  BY DEF IInv, TypeOK, LiveOK, AppendsOK, MergesOK, Merging, ListsOK, QueriesOK,
         QueryOK, Disjoint
<1> QED
  BY <1>1, <1>2, <1>3, <1>4, <1>5, <1>6 DEF IInv

(* The sources are not in flight: no row of theirs is waiting for a commit.*)
LEMMA WriteMergedStep ==
  ASSUME IInv, NEW c \in Compactor,
         WriteMerged(c)
  PROVE  IInv'
<1> USE NoBlockAssumption DEF WriteMerged, Goto, WriteObject, partition, appends, passes, queries
<1>1. TypeOK'
  BY DEF IInv, TypeOK
<1>2. LiveOK'
  BY DEF IInv, TypeOK, LiveOK, AppendsOK, MergesOK, Merging, ListsOK, QueriesOK,
         QueryOK, Disjoint
<1>3. AppendsOK'
  BY DEF IInv, TypeOK, LiveOK, AppendsOK, MergesOK, Merging, ListsOK, QueriesOK,
         QueryOK, Disjoint
<1>4. MergesOK'
  BY DEF IInv, TypeOK, LiveOK, AppendsOK, MergesOK, Merging, ListsOK, QueriesOK,
         QueryOK, Disjoint
<1>5. ListsOK'
  BY DEF IInv, TypeOK, LiveOK, AppendsOK, MergesOK, Merging, ListsOK, QueriesOK,
         QueryOK, Disjoint
<1>6. QueriesOK'
  BY DEF IInv, TypeOK, LiveOK, AppendsOK, MergesOK, Merging, ListsOK, QueriesOK,
         QueryOK, Disjoint
<1> QED
  BY <1>1, <1>2, <1>3, <1>4, <1>5, <1>6 DEF IInv

(* The guarded swap replaces live blocks by one block with their rows.     *)
LEMMA SwapStep ==
  ASSUME IInv, NEW c \in Compactor,
         Swap(c)
  PROVE  IInv'
<1> USE NoBlockAssumption DEF Swap, Goto, partition, appends, passes, queries
<1>1. TypeOK'
  BY DEF IInv, TypeOK, MergesOK, Merging
<1>2. LiveOK'
  BY DEF IInv, TypeOK, LiveOK, AppendsOK, MergesOK, Merging, ListsOK, QueriesOK,
         QueryOK, Disjoint
<1>3. AppendsOK'
  BY DEF IInv, TypeOK, LiveOK, AppendsOK, MergesOK, Merging, ListsOK, QueriesOK,
         QueryOK, Disjoint
<1>4. MergesOK'
  BY DEF IInv, TypeOK, LiveOK, AppendsOK, MergesOK, Merging, ListsOK, QueriesOK,
         QueryOK, Disjoint
<1>5. ListsOK'
  BY DEF IInv, TypeOK, LiveOK, AppendsOK, MergesOK, Merging, ListsOK, QueriesOK,
         QueryOK, Disjoint
<1>6. QueriesOK'
  BY DEF IInv, TypeOK, LiveOK, AppendsOK, MergesOK, Merging, ListsOK, QueriesOK,
         QueryOK, Disjoint
<1> QED
  BY <1>1, <1>2, <1>3, <1>4, <1>5, <1>6 DEF IInv

(* A source is deleted once the swap has taken it out of the manifest.     *)
LEMMA DeleteSourceStep ==
  ASSUME IInv, NEW c \in Compactor,
         DeleteSource(c)
  PROVE  IInv'
<1> USE NoBlockAssumption DEF DeleteSource, DeleteObject, partition, appends, passes, queries
<1>1. TypeOK'
  BY DEF IInv, TypeOK
<1>2. LiveOK'
  BY DEF IInv, TypeOK, LiveOK, AppendsOK, MergesOK, Merging, ListsOK, QueriesOK,
         QueryOK, Disjoint
<1>3. AppendsOK'
  BY DEF IInv, TypeOK, LiveOK, AppendsOK, MergesOK, Merging, ListsOK, QueriesOK,
         QueryOK, Disjoint
<1>4. MergesOK'
  BY DEF IInv, TypeOK, LiveOK, AppendsOK, MergesOK, Merging, ListsOK, QueriesOK,
         QueryOK, Disjoint
<1>5. ListsOK'
  BY DEF IInv, TypeOK, LiveOK, AppendsOK, MergesOK, Merging, ListsOK, QueriesOK,
         QueryOK, Disjoint
<1>6. QueriesOK'
  BY DEF IInv, TypeOK, LiveOK, AppendsOK, MergesOK, Merging, ListsOK, QueriesOK,
         QueryOK, Disjoint
<1> QED
  BY <1>1, <1>2, <1>3, <1>4, <1>5, <1>6 DEF IInv

(* A merged block refused by the manifest is in no manifest.               *)
LEMMA DropMergedStep ==
  ASSUME IInv, NEW c \in Compactor,
         DropMerged(c)
  PROVE  IInv'
<1> USE NoBlockAssumption DEF DropMerged, DeleteObject, Goto, partition, appends, passes, queries
<1>1. TypeOK'
  BY DEF IInv, TypeOK
<1>2. LiveOK'
  BY DEF IInv, TypeOK, LiveOK, AppendsOK, MergesOK, Merging, ListsOK, QueriesOK,
         QueryOK, Disjoint
<1>3. AppendsOK'
  BY DEF IInv, TypeOK, LiveOK, AppendsOK, MergesOK, Merging, ListsOK, QueriesOK,
         QueryOK, Disjoint
<1>4. MergesOK'
  BY DEF IInv, TypeOK, LiveOK, AppendsOK, MergesOK, Merging, ListsOK, QueriesOK,
         QueryOK, Disjoint
<1>5. ListsOK'
  BY DEF IInv, TypeOK, LiveOK, AppendsOK, MergesOK, Merging, ListsOK, QueriesOK,
         QueryOK, Disjoint
<1>6. QueriesOK'
  BY DEF IInv, TypeOK, LiveOK, AppendsOK, MergesOK, Merging, ListsOK, QueriesOK,
         QueryOK, Disjoint
<1> QED
  BY <1>1, <1>2, <1>3, <1>4, <1>5, <1>6 DEF IInv

(* An old block is not in flight, so one that is not live never will be.   *)
LEMMA GcLoadStep ==
  ASSUME IInv, NEW c \in Compactor,
         GcLoad(c)
  PROVE  IInv'
<1> USE NoBlockAssumption DEF GcLoad, Goto, partition, appends, passes, queries
<1>1. TypeOK'
  BY DEF IInv, TypeOK
<1>2. LiveOK'
  BY DEF IInv, TypeOK, LiveOK, AppendsOK, MergesOK, Merging, ListsOK, QueriesOK,
         QueryOK, Disjoint
<1>3. AppendsOK'
  BY DEF IInv, TypeOK, LiveOK, AppendsOK, MergesOK, Merging, ListsOK, QueriesOK,
         QueryOK, Disjoint
<1>4. MergesOK'
  BY DEF IInv, TypeOK, LiveOK, AppendsOK, MergesOK, Merging, ListsOK, QueriesOK,
         QueryOK, Disjoint
<1>5. ListsOK'
  BY DEF IInv, TypeOK, LiveOK, AppendsOK, MergesOK, Merging, ListsOK, QueriesOK,
         QueryOK, Disjoint
<1>6. QueriesOK'
  BY DEF IInv, TypeOK, LiveOK, AppendsOK, MergesOK, Merging, ListsOK, QueriesOK,
         QueryOK, Disjoint
<1> QED
  BY <1>1, <1>2, <1>3, <1>4, <1>5, <1>6 DEF IInv

(* The collection deletes no live block, however old its manifest is.      *)
LEMMA GcDeleteStep ==
  ASSUME IInv, NEW c \in Compactor,
         GcDelete(c)
  PROVE  IInv'
<1> USE NoBlockAssumption DEF GcDelete, partition, appends, passes, queries
<1>1. TypeOK'
  BY DEF IInv, TypeOK
<1>2. LiveOK'
  BY DEF IInv, TypeOK, LiveOK, AppendsOK, MergesOK, Merging, ListsOK, QueriesOK,
         QueryOK, Disjoint
<1>3. AppendsOK'
  BY DEF IInv, TypeOK, LiveOK, AppendsOK, MergesOK, Merging, ListsOK, QueriesOK,
         QueryOK, Disjoint
<1>4. MergesOK'
  BY DEF IInv, TypeOK, LiveOK, AppendsOK, MergesOK, Merging, ListsOK, QueriesOK,
         QueryOK, Disjoint
<1>5. ListsOK'
  BY DEF IInv, TypeOK, LiveOK, AppendsOK, MergesOK, Merging, ListsOK, QueriesOK,
         QueryOK, Disjoint
<1>6. QueriesOK'
  BY DEF IInv, TypeOK, LiveOK, AppendsOK, MergesOK, Merging, ListsOK, QueriesOK,
         QueryOK, Disjoint
<1> QED
  BY <1>1, <1>2, <1>3, <1>4, <1>5, <1>6 DEF IInv

(* The blocks to merge are live, so not in flight.                         *)
LEMMA LoadManifestStep ==
  ASSUME IInv, NEW c \in Compactor,
         LoadManifest(c)
  PROVE  IInv'
<1> USE NoBlockAssumption DEF LoadManifest, Goto, partition, appends, passes, queries
<1>1. TypeOK'
  BY DEF IInv, TypeOK
<1>2. LiveOK'
  BY DEF IInv, TypeOK, LiveOK, AppendsOK, MergesOK, Merging, ListsOK, QueriesOK,
         QueryOK, Disjoint
<1>3. AppendsOK'
  BY DEF IInv, TypeOK, LiveOK, AppendsOK, MergesOK, Merging, ListsOK, QueriesOK,
         QueryOK, Disjoint
<1>4. MergesOK'
  BY DEF IInv, TypeOK, LiveOK, AppendsOK, MergesOK, Merging, ListsOK, QueriesOK,
         QueryOK, Disjoint
<1>5. ListsOK'
  BY DEF IInv, TypeOK, LiveOK, AppendsOK, MergesOK, Merging, ListsOK, QueriesOK,
         QueryOK, Disjoint
<1>6. QueriesOK'
  BY DEF IInv, TypeOK, LiveOK, AppendsOK, MergesOK, Merging, ListsOK, QueriesOK,
         QueryOK, Disjoint
<1> QED
  BY <1>1, <1>2, <1>3, <1>4, <1>5, <1>6 DEF IInv

(* A refused swap, and the next group.                                     *)
LEMMA SwapLostStep ==
  ASSUME IInv, NEW c \in Compactor,
         SwapRefused(c) \/ SourcesDeleted(c)
  PROVE  IInv'
<1> USE NoBlockAssumption DEF SwapRefused, SourcesDeleted, Goto, partition, appends, passes, queries
<1>1. TypeOK'
  BY DEF IInv, TypeOK
<1>2. LiveOK'
  BY DEF IInv, TypeOK, LiveOK, AppendsOK, MergesOK, Merging, ListsOK, QueriesOK,
         QueryOK, Disjoint
<1>3. AppendsOK'
  BY DEF IInv, TypeOK, LiveOK, AppendsOK, MergesOK, Merging, ListsOK, QueriesOK,
         QueryOK, Disjoint
<1>4. MergesOK'
  BY DEF IInv, TypeOK, LiveOK, AppendsOK, MergesOK, Merging, ListsOK, QueriesOK,
         QueryOK, Disjoint
<1>5. ListsOK'
  BY DEF IInv, TypeOK, LiveOK, AppendsOK, MergesOK, Merging, ListsOK, QueriesOK,
         QueryOK, Disjoint
<1>6. QueriesOK'
  BY DEF IInv, TypeOK, LiveOK, AppendsOK, MergesOK, Merging, ListsOK, QueriesOK,
         QueryOK, Disjoint
<1> QED
  BY <1>1, <1>2, <1>3, <1>4, <1>5, <1>6 DEF IInv

(* A task that ends or dies forgets its lists.                             *)
LEMMA PassEndsStep ==
  ASSUME IInv, NEW c \in Compactor,
         NEW p \in {"idle", "gc"}, Goto(c, p), Forget(c),
         UNCHANGED <<partition, appends, queries>>
  PROVE  IInv'
<1> USE NoBlockAssumption DEF Goto, Forget, partition, appends, passes, queries
<1>1. TypeOK'
  BY DEF IInv, TypeOK
<1>2. LiveOK'
  BY DEF IInv, TypeOK, LiveOK, AppendsOK, MergesOK, Merging, ListsOK, QueriesOK,
         QueryOK, Disjoint
<1>3. AppendsOK'
  BY DEF IInv, TypeOK, LiveOK, AppendsOK, MergesOK, Merging, ListsOK, QueriesOK,
         QueryOK, Disjoint
<1>4. MergesOK'
  BY DEF IInv, TypeOK, LiveOK, AppendsOK, MergesOK, Merging, ListsOK, QueriesOK,
         QueryOK, Disjoint
<1>5. ListsOK'
  BY DEF IInv, TypeOK, LiveOK, AppendsOK, MergesOK, Merging, ListsOK, QueriesOK,
         QueryOK, Disjoint
<1>6. QueriesOK'
  BY DEF IInv, TypeOK, LiveOK, AppendsOK, MergesOK, Merging, ListsOK, QueriesOK,
         QueryOK, Disjoint
<1> QED
  BY <1>1, <1>2, <1>3, <1>4, <1>5, <1>6 DEF IInv

(* A query takes the rows of its manifest, that stay live.                 *)
LEMMA QueryStep ==
  ASSUME IInv, NEW r \in Reader,
         Query(r) \/ OpenBlock(r) \/ QueryEnds(r)
  PROVE  IInv'
<1> USE NoBlockAssumption DEF Query, OpenBlock, QueryEnds, Acked, partition, appends, passes, queries
<1>1. TypeOK'
  BY DEF IInv, TypeOK
<1>2. LiveOK'
  BY DEF IInv, TypeOK, LiveOK, AppendsOK, MergesOK, Merging, ListsOK, QueriesOK,
         QueryOK, Disjoint
<1>3. AppendsOK'
  BY DEF IInv, TypeOK, LiveOK, AppendsOK, MergesOK, Merging, ListsOK, QueriesOK,
         QueryOK, Disjoint
<1>4. MergesOK'
  BY DEF IInv, TypeOK, LiveOK, AppendsOK, MergesOK, Merging, ListsOK, QueriesOK,
         QueryOK, Disjoint
<1>5. ListsOK'
  BY DEF IInv, TypeOK, LiveOK, AppendsOK, MergesOK, Merging, ListsOK, QueriesOK,
         QueryOK, Disjoint
<1>6. QueriesOK'
  <2>1. CASE Query(r)
    <3> SUFFICES ASSUME NEW q \in Reader
                 PROVE  QueryOK(q)'
      BY DEF QueriesOK
    <3>1. CASE q = r
      <4>1. ids'[q] = live /\ missed'[q] = {} /\ got'[q] = {} /\ due'[q] = Acked
        BY <2>1, <3>1 DEF IInv, TypeOK, QueriesOK, QueryOK
      <4> QED
        BY <2>1, <4>1 DEF IInv, TypeOK, LiveOK, QueryOK, Disjoint
    <3>2. CASE q # r
      <4>1. /\ ids'[q] = ids[q] /\ missed'[q] = missed[q]
            /\ got'[q] = got[q] /\ due'[q] = due[q]
        BY <2>1, <3>2 DEF IInv, TypeOK
      <4> QED
        BY <2>1, <4>1 DEF IInv, QueriesOK, QueryOK, Disjoint
    <3> QED
      BY <3>1, <3>2
  <2>2. CASE OpenBlock(r)
    BY <2>2 DEF IInv, TypeOK, LiveOK, QueriesOK, QueryOK, Disjoint
  <2>3. CASE QueryEnds(r)
    BY <2>3 DEF IInv, TypeOK, LiveOK, QueriesOK, QueryOK, Disjoint
  <2> QED
    BY <2>1, <2>2, <2>3
<1> QED
  BY <1>1, <1>2, <1>3, <1>4, <1>5, <1>6 DEF IInv

(* A block in flight does not grow old.                                    *)
LEMMA AgeStep ==
  ASSUME IInv, NEW b \in Block,
         Age(b)
  PROVE  IInv'
<1> USE NoBlockAssumption DEF Age, InFlight, partition, appends, passes, queries
<1>1. TypeOK'
  BY DEF IInv, TypeOK
<1>2. LiveOK'
  BY DEF IInv, TypeOK, LiveOK, AppendsOK, MergesOK, Merging, ListsOK, QueriesOK,
         QueryOK, Disjoint
<1>3. AppendsOK'
  BY DEF IInv, TypeOK, LiveOK, AppendsOK, MergesOK, Merging, ListsOK, QueriesOK,
         QueryOK, Disjoint
<1>4. MergesOK'
  BY DEF IInv, TypeOK, LiveOK, AppendsOK, MergesOK, Merging, ListsOK, QueriesOK,
         QueryOK, Disjoint
<1>5. ListsOK'
  BY DEF IInv, TypeOK, LiveOK, AppendsOK, MergesOK, Merging, ListsOK, QueriesOK,
         QueryOK, Disjoint
<1>6. QueriesOK'
  BY DEF IInv, TypeOK, LiveOK, AppendsOK, MergesOK, Merging, ListsOK, QueriesOK,
         QueryOK, Disjoint
<1> QED
  BY <1>1, <1>2, <1>3, <1>4, <1>5, <1>6 DEF IInv

(* However a pass ends, the task has only forgotten its lists.             *)
LEMMA EndOfPass ==
  ASSUME NEW c \in Compactor, CompactEnds(c) \/ PassEnds(c) \/ Crash(c)
  PROVE  /\ \E p \in {"idle", "gc"} : Goto(c, p)
         /\ Forget(c)
         /\ UNCHANGED <<partition, appends, queries>>
  BY DEF CompactEnds, PassEnds, Crash

(* Every step keeps the invariant.                                         *)
LEMMA NextIInv ==
  ASSUME NoLostReply, IInv, [Next]_vars
  PROVE  IInv'
<1>1. CASE Next
  BY <1>1, WriteBlockStep, AppendStep, LoseBatchStep, WriteMergedStep, SwapStep,
     DeleteSourceStep, DropMergedStep, GcLoadStep, GcDeleteStep, LoadManifestStep,
     SwapLostStep, EndOfPass, PassEndsStep, QueryStep, AgeStep
  DEF NoLostReply, Next, Flush, CompactStep, AppendReplyLost, SwapReplyLost
<1>2. CASE UNCHANGED vars
  BY <1>2 DEF vars, IInv, TypeOK, LiveOK, AppendsOK, MergesOK, Merging, ListsOK,
              QueriesOK, QueryOK, Disjoint
<1> QED
  BY <1>1, <1>2

(* The inductive invariant: no block in flight is live, old or on any      *)
(* list, and what a task is about to delete is not live.                   *)
THEOREM Invariance ==
  ASSUME NoLostReply
  PROVE  Spec => []IInv
<1>1. IInv /\ [Next]_vars => IInv'
  BY NextIInv
<1> QED
  BY <1>1, InitIInv, PTL DEF Spec

(* Type correctness.                                                       *)
THEOREM TypeCorrect ==
  ASSUME NoLostReply
  PROVE  Spec => []TypeOK
<1>1. IInv => TypeOK
  BY DEF IInv
<1>2. Spec => []IInv
  BY Invariance
<1> QED
  BY <1>1, <1>2, PTL

(* Every block the manifest names has its object: no interleaving of       *)
(* appends, compactors, collections and crashes makes a dangling entry.    *)
THEOREM NoDanglingHolds ==
  ASSUME NoLostReply
  PROVE  Spec => []NoDangling
<1>1. IInv => NoDangling
  BY DEF IInv, LiveOK, NoDangling
<1>2. Spec => []IInv
  BY Invariance
<1> QED
  BY <1>1, <1>2, PTL

(* An acknowledged row is in one live block and no row is in two, whatever *)
(* the number of compactors that race.                                     *)
THEOREM ExactlyOnceHolds ==
  ASSUME NoLostReply
  PROVE  Spec => []ExactlyOnce
<1>1. IInv => ExactlyOnce
  BY DEF IInv, TypeOK, LiveOK, Disjoint, ExactlyOnce, Holders
<1>2. Spec => []IInv
  BY Invariance
<1> QED
  BY <1>1, <1>2, PTL

(* No query reads a row twice.                                             *)
THEOREM QueryReadsOnceHolds ==
  ASSUME NoLostReply
  PROVE  Spec => []QueryReadsOnce
<1>1. IInv => QueryReadsOnce
  BY DEF IInv, TypeOK, QueriesOK, QueryOK, Disjoint, QueryReadsOnce
<1>2. Spec => []IInv
  BY Invariance
<1> QED
  BY <1>1, <1>2, PTL

(* What a query skips was merged away, and is live elsewhere.              *)
THEOREM SkipsOnlyMergedHolds ==
  ASSUME NoLostReply
  PROVE  Spec => []SkipsOnlyMerged
<1>1. IInv => SkipsOnlyMerged
  BY DEF IInv, TypeOK, QueriesOK, QueryOK, SkipsOnlyMerged, Holders
<1>2. Spec => []IInv
  BY Invariance
<1> QED
  BY <1>1, <1>2, PTL

-----------------------------------------------------------------------------
(* The refinement: blocks come and go, the set of rows is seen.            *)

Held == UNION {rows[b] : b \in live}
Reading == {r \in Reader : rpc[r] = "open"}
RowsIn(bs) == UNION {rows[b] : b \in bs}

(* A step that neither draws rows into the manifest nor takes any out is   *)
(* not seen.                                                               *)
LEMMA Unseen ==
  ASSUME IInv, Held' = Held, Acked' = Acked, UNCHANGED queries,
         \A b \in used : rows'[b] = rows[b]
  PROVE  UNCHANGED RS!vars
<1>1. \A r \in Reader : RowsIn(ids[r])' = RowsIn(ids[r])
  BY DEF IInv, QueriesOK, QueryOK, RowsIn, queries
<1>2. [r \in Reader |-> RowsIn(ids[r])]' = [r \in Reader |-> RowsIn(ids[r])]
  BY <1>1
<1>3. Reading' = Reading /\ got' = got
  BY DEF Reading, queries
<1> QED
  BY <1>2, <1>3 DEF RS!vars, Held, Reading, RowsIn

(* The steps that change no manifest.                                      *)
LEMMA ManifestUnchanged ==
  ASSUME IInv, live' = live, Acked' = Acked, UNCHANGED queries,
         \A b \in used : rows'[b] = rows[b]
  PROVE  UNCHANGED RS!vars
<1>1. Held' = Held
  BY DEF IInv, TypeOK, Held
<1> QED
  BY <1>1, Unseen

LEMMA WriteBlockUnseen ==
  ASSUME IInv, NEW x \in Batch, WriteBlock(x) \/ LoseBatch(x)
  PROVE  UNCHANGED RS!vars
<1>1. live' = live /\ UNCHANGED queries
  BY DEF WriteBlock, WriteObject, LoseBatch, partition
<1>2. \A b \in used : rows'[b] = rows[b]
  BY DEF WriteBlock, WriteObject, LoseBatch, partition, IInv, TypeOK
<1>3. Acked' = Acked
  BY DEF WriteBlock, LoseBatch, Acked, IInv, TypeOK
<1> QED
  BY <1>1, <1>2, <1>3, ManifestUnchanged

LEMMA PassUnseen ==
  ASSUME IInv, NEW c \in Compactor,
         \/ LoadManifest(c) \/ WriteMerged(c) \/ SwapRefused(c) \/ DeleteSource(c)
         \/ SourcesDeleted(c) \/ DropMerged(c) \/ CompactEnds(c) \/ GcLoad(c)
         \/ GcDelete(c) \/ PassEnds(c) \/ Crash(c)
  PROVE  UNCHANGED RS!vars
<1>1. live' = live /\ stage' = stage /\ UNCHANGED queries
  BY DEF LoadManifest, WriteMerged, WriteObject, SwapRefused, DeleteSource, DeleteObject,
         SourcesDeleted, DropMerged, CompactEnds, GcLoad, GcDelete, PassEnds, Crash,
         partition, appends
<1>2. \A b \in used : rows'[b] = rows[b]
  BY DEF LoadManifest, WriteMerged, WriteObject, SwapRefused, DeleteSource, DeleteObject,
         SourcesDeleted, DropMerged, CompactEnds, GcLoad, GcDelete, PassEnds, Crash,
         partition, IInv, TypeOK
<1>3. Acked' = Acked
  BY <1>1 DEF Acked
<1> QED
  BY <1>1, <1>2, <1>3, ManifestUnchanged

(* A merged block has the rows of the blocks it replaces.                  *)
LEMMA SwapUnseen ==
  ASSUME IInv, NEW c \in Compactor, Swap(c)
  PROVE  UNCHANGED RS!vars
<1>1. /\ live' = (live \ group[c]) \cup {new[c]} /\ group[c] \subseteq live
      /\ rows' = rows /\ stage' = stage /\ UNCHANGED queries
  BY DEF Swap, appends
<1>2. \A x \in Batch : x \in rows[new[c]] <=> \E s \in group[c] : x \in rows[s]
  BY DEF IInv, MergesOK, Merging, Swap
<1>3. rows \in [Block -> SUBSET Batch] /\ live \subseteq Block /\ new[c] \in Block
  BY DEF IInv, TypeOK, MergesOK, Merging, Swap
<1>4. Held' = Held
  <2>1. Held' = UNION {rows[b] : b \in (live \ group[c]) \cup {new[c]}}
    BY <1>1 DEF Held
  <2>2. ASSUME NEW x \in Batch
        PROVE  x \in Held' <=> x \in Held
    BY <1>1, <1>2, <1>3, <2>1 DEF Held
  <2>3. Held \subseteq Batch /\ Held' \subseteq Batch
    BY <1>1, <1>3, <2>1 DEF Held
  <2> QED
    BY <2>2, <2>3
<1>5. Acked' = Acked
  BY <1>1 DEF Acked
<1> QED
  BY <1>1, <1>4, <1>5, Unseen

LEMMA AgeUnseen ==
  ASSUME IInv, NEW b \in Block, Age(b)
  PROVE  UNCHANGED RS!vars
<1>1. live' = live /\ stage' = stage /\ rows' = rows /\ UNCHANGED queries
  BY DEF Age, appends
<1>2. Acked' = Acked
  BY <1>1 DEF Acked
<1> QED
  BY <1>1, <1>2, ManifestUnchanged

(* The commit of an append is where its rows are accepted.                 *)
LEMMA AppendAccepts ==
  ASSUME IInv, NEW x \in Batch, Append(x)
  PROVE  RS!Accept(x)
<1>1. /\ stage[x] = "written" /\ live' = live \cup {id[x]} /\ rows' = rows
      /\ stage' = [stage EXCEPT ![x] = "acked"] /\ UNCHANGED queries
  BY DEF Append
<1>2. rows[id[x]] = {x}
  BY <1>1 DEF IInv, AppendsOK
<1>3. Held' = Held \cup {x}
  BY <1>1, <1>2 DEF Held
<1>4. x \notin Acked /\ Acked' = Acked \cup {x}
  BY <1>1 DEF Acked, IInv, TypeOK
<1>5. UNCHANGED <<Reading, [r \in Reader |-> RowsIn(ids[r])], got>>
  BY <1>1 DEF Reading, RowsIn, queries
<1> QED
  BY <1>3, <1>4, <1>5 DEF RS!Accept, Held, Reading, RowsIn

(* A query begins with the rows of the manifest it loads.                  *)
LEMMA QueryBegins ==
  ASSUME IInv, NEW r \in Reader, Query(r)
  PROVE  RS!Begin(r)
<1>1. /\ rpc[r] = "idle" /\ rpc' = [rpc EXCEPT ![r] = "open"] /\ ids' = [ids EXCEPT ![r] = live]
      /\ live' = live /\ rows' = rows /\ stage' = stage /\ got' = got
  BY DEF Query, partition, appends
<1>2. r \notin Reading /\ Reading' = Reading \cup {r}
  BY <1>1 DEF Reading, IInv, TypeOK
<1>3. [q \in Reader |-> RowsIn(ids[q])]' = [[q \in Reader |-> RowsIn(ids[q])] EXCEPT ![r] = Held]
  <2>1. ids \in [Reader -> SUBSET Block]
    BY DEF IInv, TypeOK
  <2>2. \A q \in Reader : ids'[q] = IF q = r THEN live ELSE ids[q]
    BY <1>1, <2>1
  <2>3. \A q \in Reader : RowsIn(ids[q])' = IF q = r THEN Held ELSE RowsIn(ids[q])
    BY <1>1, <2>2 DEF RowsIn, Held
  <2> QED
    BY <2>3
<1>4. Held' = Held /\ Acked' = Acked
  BY <1>1 DEF Held, Acked
<1> QED
  BY <1>1, <1>2, <1>3, <1>4 DEF RS!Begin, Held, Reading, RowsIn

(* No other block of its manifest shares a row with the one it opens.      *)
LEMMA OpenBlockReads ==
  ASSUME IInv, NEW r \in Reader, OpenBlock(r)
  PROVE  RS!Read(r) \/ RS!Skip(r)
<1> DEFINE left == [q \in Reader |-> RowsIn(ids[q])]
<1>1. PICK b \in ids[r] :
        /\ ids' = [ids EXCEPT ![r] = ids[r] \ {b}]
        /\ \/ got' = [got EXCEPT ![r] = got[r] \cup rows[b]]
           \/ got' = got
  BY DEF OpenBlock
<1>2. /\ rpc[r] = "open" /\ rpc' = rpc /\ live' = live /\ rows' = rows /\ stage' = stage
  BY DEF OpenBlock, partition, appends
<1>3. rows[b] \subseteq left[r]
  BY <1>1 DEF RowsIn
<1>4. RowsIn(ids[r] \ {b}) = RowsIn(ids[r]) \ rows[b]
  <2>1. \A d \in ids[r] : Disjoint(b, d)
    BY <1>1 DEF IInv, QueriesOK, QueryOK
  <2>2. ids[r] \subseteq Block /\ rows \in [Block -> SUBSET Batch]
    BY DEF IInv, TypeOK
  <2> QED
    BY <1>1, <2>1, <2>2 DEF RowsIn, Disjoint
<1>5. left' = [left EXCEPT ![r] = left[r] \ rows[b]]
  <2>1. ids \in [Reader -> SUBSET Block]
    BY DEF IInv, TypeOK
  <2>2. \A q \in Reader : ids'[q] = IF q = r THEN ids[r] \ {b} ELSE ids[q]
    BY <1>1, <2>1
  <2>3. \A q \in Reader :
          RowsIn(ids[q])' = IF q = r THEN RowsIn(ids[r]) \ rows[b] ELSE RowsIn(ids[q])
    BY <1>2, <1>4, <2>2 DEF RowsIn
  <2> QED
    BY <2>3
<1>6. r \in Reading /\ Reading' = Reading /\ Held' = Held /\ Acked' = Acked
  BY <1>2 DEF Reading, Held, Acked
<1>7. RS!Take(r, rows[b])
  BY <1>3, <1>5, <1>6 DEF RS!Take, Held, Reading, RowsIn
<1>8. rows[b] \in SUBSET [q \in Reader |-> UNION {rows[d] : d \in ids[q]}][r]
  BY <1>3 DEF RowsIn
<1>9. got' = got => RS!Skip(r)
  BY <1>7, <1>8, Zenon DEF RS!Skip, RS!Take
<1>10. got' = [got EXCEPT ![r] = got[r] \cup rows[b]] => RS!Read(r)
  BY <1>7, <1>8, Zenon DEF RS!Read, RS!Take
<1> QED
  BY <1>1, <1>9, <1>10

LEMMA QueryEndsEnds ==
  ASSUME IInv, NEW r \in Reader, QueryEnds(r)
  PROVE  RS!End(r)
<1>1. /\ rpc[r] = "open" /\ rpc' = [rpc EXCEPT ![r] = "idle"] /\ ids[r] = {} /\ ids' = ids
      /\ live' = live /\ rows' = rows /\ stage' = stage /\ got' = [got EXCEPT ![r] = {}]
  BY DEF QueryEnds, partition, appends
<1>2. r \in Reading /\ Reading' = Reading \ {r}
  BY <1>1 DEF Reading, IInv, TypeOK
<1>3. RowsIn(ids[r]) = {} /\ UNCHANGED [q \in Reader |-> RowsIn(ids[q])]
  BY <1>1 DEF RowsIn
<1>4. Held' = Held /\ Acked' = Acked
  BY <1>1 DEF Held, Acked
<1> QED
  BY <1>1, <1>2, <1>3, <1>4 DEF RS!End, Held, Reading, RowsIn

(* Every step of the partition is one of the set of rows, or not seen.     *)
LEMMA StepIsSeen ==
  ASSUME NoLostReply, IInv, [Next]_vars
  PROVE  [RS!Next]_(RS!vars)
<1>1. CASE UNCHANGED vars
  <2>1. live' = live /\ rows' = rows /\ stage' = stage /\ UNCHANGED queries
    BY <1>1 DEF vars, queries
  <2>2. Acked' = Acked
    BY <2>1 DEF Acked
  <2> QED
    BY <2>1, <2>2, ManifestUnchanged
<1>2. ASSUME NEW x \in Batch, Flush(x) \/ LoseBatch(x)
      PROVE  [RS!Next]_(RS!vars)
  BY <1>2, WriteBlockUnseen, AppendAccepts DEF Flush, RS!Next
<1>3. ASSUME NEW c \in Compactor, CompactStep(c) \/ Crash(c)
      PROVE  [RS!Next]_(RS!vars)
  BY <1>3, PassUnseen, SwapUnseen DEF CompactStep
<1>4. ASSUME NEW r \in Reader, Query(r) \/ OpenBlock(r) \/ QueryEnds(r)
      PROVE  [RS!Next]_(RS!vars)
  BY <1>4, QueryBegins, OpenBlockReads, QueryEndsEnds DEF RS!Next
<1>5. ASSUME NEW b \in Block, Age(b)
      PROVE  [RS!Next]_(RS!vars)
  BY <1>5, AgeUnseen
<1> QED
  BY <1>1, <1>2, <1>3, <1>4, <1>5
  DEF NoLostReply, Next, AppendReplyLost, SwapReplyLost

(* Appends, queries, racing compactors, collections and crashes implement  *)
(* a set of rows that only grows, and queries that read a row of it once.  *)
THEOREM ImplementsRowSet ==
  ASSUME NoLostReply
  PROVE  Spec => IsRowSet
<1>1. Init => RS!Init
  BY DEF Init, RS!Init, Acked
<1>2. IInv /\ [Next]_vars => [RS!Next]_(RS!vars)
  BY StepIsSeen
<1> QED
  BY <1>1, <1>2, Invariance, PTL DEF Spec, IsRowSet, RS!Spec

=============================================================================
