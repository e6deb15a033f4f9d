------------------------------ MODULE Retention ------------------------------
(***************************************************************************)
(* Retention of one partition (retention.rs) beside the tasks that         *)
(* replicate it (BlockSync).  The sweep of every node runs each hour: it   *)
(* forgets what the node still owes of an expired partition; the node that *)
(* holds the lease also empties the shared manifest, which stays behind    *)
(* as a tombstone, and its own; every node removes its local directory     *)
(* once its manifest is empty.  A tombstone is reaped when the partition   *)
(* has been expired for TOMBSTONE_GRACE_DAYS more.                         *)
(*                                                                         *)
(* Time only moves the age of the partition; the lease stays with one      *)
(* node, any of them.                                                      *)
(***************************************************************************)
EXTENDS BlockSync

CONSTANT Elsewhere \* nodes of which only the sweep of the shared store is followed

ASSUME ElsewhereAssumption == Elsewhere \cap (Node \cup {Shared}) = {}

VARIABLES
  age,      \* "live", then "expired", then "reapable": past the grace too
  holder,   \* the node that holds the retention lease
  rpc,      \* rpc[n]: where the sweep of n is
  reaps,    \* reaps[n]: its pass may reap the tombstone
  rstore,   \* rstore[n]: the store it empties
  rids,     \* rids[n]: the blocks it drops
  buried    \* ghost: dropped blocks that nothing in flight may still bring

Sweeper == Node \cup Elsewhere

sweeper == <<rpc, reaps, rstore, rids>>
rvars == <<vars, age, holder, sweeper, buried>>

RTypeOK ==
  /\ TypeOK
  /\ age \in {"live", "expired", "reapable"}
  /\ holder \in Sweeper
  /\ rpc \in [Sweeper -> {"idle", "load", "swap", "delete", "reap", "check", "purge"}]
  /\ reaps \in [Sweeper -> BOOLEAN]
  /\ rstore \in [Sweeper -> Store \cup Elsewhere]
  /\ rids \in [Sweeper -> SUBSET Block] /\ buried \in SUBSET Block

RInit ==
  /\ Init
  /\ age = "live" /\ holder \in Sweeper
  /\ rpc = [n \in Sweeper |-> "idle"] /\ reaps = [n \in Sweeper |-> FALSE]
  /\ rstore = [n \in Sweeper |-> n] /\ rids = [n \in Sweeper |-> {}]
  /\ buried = {}

-----------------------------------------------------------------------------

(* The partition shows in the listing of the local or the shared store.    *)
Visible(n) ==
  \/ known \cap {n, Shared} # {}
  \/ n \in Node /\ (objects[n] # {} \/ pending[n] # {})

(* Assumed of time: passes take seconds, sweeps an hour and the grace two  *)
(* days, so a tombstone is not reaped before each node has pulled it.      *)
TombstonePulled ==
  Shared \in known /\ Listed(Shared) = {} =>
    \A m \in Node : ppc[m] = "idle" /\ spc[m] = "idle" /\ Listed(m) \subseteq pending[m]

(* The lease is asked for once a pass; what the node owes is forgotten.    *)
SweepStart(n) ==
  /\ rpc[n] = "idle" /\ age # "live" /\ Visible(n)
  /\ holder = n /\ age = "reapable" => TombstonePulled
  /\ pending' = [m \in Node |-> IF m = n THEN {} ELSE pending[m]]
  /\ \/ /\ holder = n
        /\ rpc' = [rpc EXCEPT ![n] = "load"]
        /\ rstore' = [rstore EXCEPT ![n] = Shared]
        /\ reaps' = [reaps EXCEPT ![n] = (age = "reapable")]
     \/ /\ holder # n /\ n \in Node
        /\ rpc' = [rpc EXCEPT ![n] = "check"]
        /\ UNCHANGED <<rstore, reaps>>
  /\ UNCHANGED <<stores, rids>>

(* What follows a store that has been emptied: the local one, the check.   *)
NextStore(n) ==
  /\ rpc' = [rpc EXCEPT ![n] = IF n \in Elsewhere THEN "idle"
                               ELSE IF rstore[n] = Shared THEN "load" ELSE "check"]
  /\ rstore' = [rstore EXCEPT ![n] = n]
  /\ reaps' = [reaps EXCEPT ![n] = FALSE]

(* empty_manifest: the ids first; a shared manifest that had none is a     *)
(* tombstone, and may be reaped.                                           *)
EmptyLoad(n) ==
  /\ rpc[n] = "load"
  /\ LET ids == Listed(rstore[n]) IN
       \/ /\ ids # {} \/ reaps[n]
          /\ rids' = [rids EXCEPT ![n] = ids]
          /\ rpc' = [rpc EXCEPT ![n] = IF ids # {} THEN "swap" ELSE "reap"]
          /\ UNCHANGED <<rstore, reaps>>
       \/ /\ ids = {} /\ ~reaps[n]
          /\ NextStore(n)
          /\ UNCHANGED rids
  /\ UNCHANGED <<stores, pending>>

(* Mutant: the shared partition is removed, no tombstone stays.            *)
EmptySwapRemoves(n) ==
  /\ rpc[n] = "swap"
  /\ manifest' = [manifest EXCEPT ![rstore[n]] = [b \in Block |-> 0]]
  /\ known' = known \ {rstore[n]}
  /\ rpc' = [rpc EXCEPT ![n] = "delete"]
  /\ UNCHANGED <<objects, pending, reaps, rstore, rids>>

EmptySwap(n) ==
  /\ rpc[n] = "swap"
  /\ SwapBlocks(rstore[n], rids[n], {})
  /\ rpc' = [rpc EXCEPT ![n] = "delete"]
  /\ UNCHANGED <<objects, pending, reaps, rstore, rids>>

EmptyDelete(n) ==
  /\ rpc[n] = "delete"
  /\ \E b \in rids[n] :
       /\ DeleteObject(rstore[n], b)
       /\ rids' = [rids EXCEPT ![n] = @ \ {b}]
  /\ UNCHANGED <<manifest, known, pending, rpc, reaps, rstore>>

EmptyEnds(n) ==
  /\ rpc[n] = "delete" /\ rids[n] = {}
  /\ NextStore(n)
  /\ UNCHANGED <<stores, pending, rids>>

(* The directory or prefix of the partition is gone, with all it held.     *)
PurgePartition(s) ==
  /\ manifest' = [manifest EXCEPT ![s] = [b \in Block |-> 0]]
  /\ known' = known \ {s}
  /\ objects' = [objects EXCEPT ![s] = {}]

(* has_manifest, then purge_partition.                                     *)
Reap(n) ==
  /\ rpc[n] = "reap"
  /\ IF Shared \in known THEN PurgePartition(Shared) ELSE UNCHANGED stores
  /\ NextStore(n)
  /\ UNCHANGED <<pending, rids>>

(* purge_local_if_empty: the check, then the removal; the pending file is  *)
(* in the same directory.                                                  *)
CheckEmpty(n) ==
  /\ rpc[n] = "check"
  /\ rpc' = [rpc EXCEPT ![n] = IF Listed(n) = {} THEN "purge" ELSE "idle"]
  /\ UNCHANGED <<stores, pending, reaps, rstore, rids>>

PurgeLocal(n) ==
  /\ rpc[n] = "purge"
  /\ PurgePartition(n)
  /\ pending' = [pending EXCEPT ![n] = {}]
  /\ rpc' = [rpc EXCEPT ![n] = "idle"]
  /\ UNCHANGED <<reaps, rstore, rids>>

(* The commit fails, or its answer is an error: the drop is given up, the  *)
(* local check still follows.  (A load that fails changes nothing.)        *)
DropFails(n) ==
  /\ rpc[n] = "swap"
  /\ \/ UNCHANGED <<manifest, known>>
     \/ "reply" \in Faults /\ rstore[n] = Shared /\ SwapBlocks(Shared, rids[n], {})
  /\ rpc' = [rpc EXCEPT ![n] = IF n \in Node THEN "check" ELSE "idle"]
  /\ rids' = [rids EXCEPT ![n] = {}]
  /\ rstore' = [rstore EXCEPT ![n] = n]
  /\ reaps' = [reaps EXCEPT ![n] = FALSE]
  /\ UNCHANGED <<objects, pending>>

Sweep(n) ==
  /\ \/ SweepStart(n) \/ EmptyLoad(n) \/ EmptySwap(n) \/ EmptyDelete(n) \/ EmptyEnds(n)
     \/ Reap(n) \/ CheckEmpty(n) \/ PurgeLocal(n) \/ DropFails(n)
  /\ UNCHANGED <<blocks, ingest, uploader, puller, seeder, age, holder>>

-----------------------------------------------------------------------------

Elapse ==
  /\ \/ age = "live" /\ age' = "expired"
     \/ age = "expired" /\ age' = "reapable"
  /\ UNCHANGED <<vars, holder, sweeper>>

Replicate ==
  /\ \/ \E x \in Batch : Ingest(x)
     \/ \E n \in Node :
          \/ Upload(n) \/ UploadFails(n) \/ UploadReplyLost(n)
          \/ Pull(n) \/ Seed(n) \/ CacheBlock(n)
     \/ Compact \/ DeleteMerged
  /\ UNCHANGED <<age, holder, sweeper>>

(* Dropped blocks of the expired partition that nothing still carries: not *)
(* owed, in no upload or seeding that had begun.                           *)
AtRest ==
  {b \in used \ Listed(Shared) :
     /\ age # "live"
     /\ \A x \in Batch : id[x] = b => stage[x] \in {"acked", "lost"}
     /\ \A n \in Node :
          /\ b \notin pending[n] \cup uids[n] \cup uput[n] \cup sids[n] \cup sput[n]
          /\ spc[n] # "load"}

(* The tombstone has to keep them out for as long as it stands.            *)
Bury == buried' = IF Shared \in known' THEN buried \cup AtRest' ELSE {}

RNext ==
  /\ \/ Replicate
     \/ \E n \in Sweeper : Sweep(n)
     \/ Elapse
  /\ Bury

RSpec == RInit /\ [][RNext]_rvars

-----------------------------------------------------------------------------

(* "Tombstone, not removal: an absent shared manifest would let the seeder *)
(* re-upload this partition": as long as the tombstone stands, a dropped   *)
(* block that no upload in flight carries stays out of the shared store,   *)
(* though other nodes still name it and hold it.                           *)
TombstoneHolds == buried \cap Listed(Shared) = {}

(***************************************************************************)
(* Liveness.  The tasks come back in seconds, the sweep each hour: a pull  *)
(* sees the tombstone between two sweeps.                                  *)
(***************************************************************************)
RFairness ==
  /\ \A x \in Batch : WF_rvars(Ingest(x) /\ Replicate /\ Bury)
  /\ \A n \in Node :
       /\ WF_rvars(Upload(n) /\ Replicate /\ Bury)
       /\ WF_rvars(Pull(n) /\ Replicate /\ Bury) /\ WF_rvars(Seed(n) /\ Replicate /\ Bury)
       /\ SF_rvars(PullShared(n) /\ Listed(Shared) = {} /\ Replicate /\ Bury)
  /\ \A n \in Sweeper :
       /\ WF_rvars(Sweep(n) /\ Bury) /\ SF_rvars(Sweep(n) /\ rpc[n] = "idle" /\ Bury)
       /\ SF_rvars(EmptySwap(n) /\ RNext)

RFairSpec == RSpec /\ RFairness

(* An expired partition goes: again and again there is a moment when no    *)
(* store names a block of it that it can read, whichever node still held   *)
(* it, owed it, was late to pull, seeded it back or took rows for it after *)
(* it expired.                                                             *)
EventuallyDropped ==
  (age # "live") ~> (\A s \in Store : Listed(s) \cap objects[s] = {})
=============================================================================
