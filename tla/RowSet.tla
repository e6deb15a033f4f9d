-------------------------------- MODULE RowSet --------------------------------
(***************************************************************************)
(* What a partition promises to those who append to it and to those who    *)
(* search it, with no word of blocks: a set of batches that only grows, a  *)
(* batch with each acknowledgement, and queries that read each batch of    *)
(* the set they began with once, or skip it.  BlockPartition.tla is shown  *)
(* to implement it.                                                        *)
(***************************************************************************)
CONSTANTS
  Batch,    \* the batches of rows that may be appended
  Reader    \* queries

VARIABLES
  held,     \* the batches the partition holds
  acked,    \* the batches whose append was acknowledged
  reading,  \* the queries under way
  left,     \* left[r]: the batches query r has yet to read
  got       \* got[r]: the batches it has read

vars == <<held, acked, reading, left, got>>

Init ==
  /\ held = {} /\ acked = {} /\ reading = {}
  /\ left = [r \in Reader |-> {}]
  /\ got = [r \in Reader |-> {}]

Accept(x) ==
  /\ x \notin acked
  /\ held' = held \cup {x}
  /\ acked' = acked \cup {x}
  /\ UNCHANGED <<reading, left, got>>

Begin(r) ==
  /\ r \notin reading
  /\ reading' = reading \cup {r}
  /\ left' = [left EXCEPT ![r] = held]
  /\ UNCHANGED <<held, acked, got>>

(* Some of what is left, all at once or, when its block is gone, not at    *)
(* all.                                                                    *)
Take(r, part) ==
  /\ r \in reading /\ part \subseteq left[r]
  /\ left' = [left EXCEPT ![r] = @ \ part]
  /\ UNCHANGED <<held, acked, reading>>

Read(r) == \E part \in SUBSET left[r] : Take(r, part) /\ got' = [got EXCEPT ![r] = @ \cup part]

Skip(r) == \E part \in SUBSET left[r] : Take(r, part) /\ UNCHANGED got

End(r) ==
  /\ r \in reading /\ left[r] = {}
  /\ reading' = reading \ {r}
  /\ got' = [got EXCEPT ![r] = {}]
  /\ UNCHANGED <<held, acked, left>>

Next ==
  \/ \E x \in Batch : Accept(x)
  \/ \E r \in Reader : Begin(r) \/ Read(r) \/ Skip(r) \/ End(r)

Spec == Init /\ [][Next]_vars
=============================================================================
