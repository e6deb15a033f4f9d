----------------------------- MODULE ControlDoc -----------------------------
(***************************************************************************)
(* One document of the control plane (control/backend.rs, JsonBackend over *)
(* a ControlStore of control/store.rs) and the read cache every node keeps *)
(* of it.  A change reads the document with its version, computes the next *)
(* value, and puts it if the version has not moved; a lost race starts     *)
(* over.  A cached read fills the cache with what it read a moment ago; a  *)
(* change refreshes an entry that is there.  Nothing is held between these *)
(* steps, so they interleave with those of every other task of any node.   *)
(*                                                                         *)
(* The store is S3 (conditional puts) or a file system used by one process *)
(* (a lock around compare and rename, which delete does not take).  The    *)
(* version is the ETag or hash of the stored bytes, so the bytes stand for *)
(* it here: two writes have the same version only if they are the same     *)
(* bytes, which a sealed document (fresh nonce) never is.                  *)
(*                                                                         *)
(* Time is counted in ticks; only differences matter, so ages are kept.    *)
(***************************************************************************)
EXTENDS Naturals, FiniteSets

CONSTANTS
  Node,           \* processes, each with a cache
  Task,           \* changes of the document, each made once
  Reader,         \* cached reads in flight at a time
  Absent,         \* no document
  NoEntry,        \* no cache entry
  NoTask,         \* the write lock is free
  Config,         \* how the system may be set up: records
                  \*   store : "s3" or "fs"
                  \*   sealed : encryption of the control plane is on
                  \*   flaky : answers of the S3 store may be lost
  Placement,      \* which process a task or reader may run in: functions
  MaxCasRetries,  \* MAX_CAS_RETRIES
  Ttl,            \* cache_ttl in ticks
  MaxLag,         \* bound: ticks from a store call to the cache update after it
  DeleteRaces     \* TRUE: a file is deleted between the compare and the rename

ASSUME ConfigAssumption ==
  /\ Config \subseteq [store : {"s3", "fs"}, sealed : BOOLEAN, flaky : BOOLEAN]
  /\ \A c \in Config : c.flaky => c.store = "s3"
ASSUME PlacementAssumption == Placement \subseteq [Task \cup Reader -> Node]
ASSUME TaskAssumption == Task \cap Reader = {} /\ NoTask \notin Task
ASSUME AbsentAssumption ==
  Absent \notin [Task -> Nat] \cup [value : [Task -> Nat], nonce : Nat]
ASSUME CacheBoundAssumption == Ttl \in Nat /\ MaxLag \in Nat \ {0}
ASSUME RetryAssumption == MaxCasRetries \in Nat \ {0}
ASSUME DeleteRacesAssumption == DeleteRaces \in BOOLEAN

VARIABLES
  config,   \* how the system was set up: fixed
  stored,   \* the bytes in the store, or Absent
  nonces,   \* nonces drawn so far
  kind,     \* kind[t]: what task t does to the document
  pc,       \* where it is
  node,     \* node[t], node[r]: the process a task or reader runs in
  seen,     \* seen[t]: the bytes it read; later the value it wrote
  tries,    \* tries[t]: lost races
  lag,      \* ticks since the store call a cache update waits on
  lock,     \* the holder of write_lock
  cache,    \* cache[n]: value and age, or NoEntry
  got,      \* got[r]: what a reader has fetched and not yet stored
  commits,  \* history: how often the change of t was made
  gone      \* history: the values replaced less than Ttl + MaxLag ticks ago,
            \* and how long ago

kept == <<stored, nonces, commits, gone>>
store == <<stored, nonces, lock, commits, gone>>
setup == <<config, kind, node>>
vars == <<config, stored, nonces, kind, pc, node, seen, tries, lag, lock,
          cache, got, commits, gone>>

A == INSTANCE AtomicDoc WITH
       MaxMarks <- MaxCasRetries,
       value <- IF stored = Absent THEN Absent ELSE stored.value,
       answered <- {t \in Task : pc[t] = "done"}

Value == A!Value
ValueOf(b) == IF b = Absent THEN Absent ELSE b.value

Bytes == [value : Value \ {Absent}, nonce : Nat]

TypeOK ==
  /\ config \in Config
  /\ stored \in Bytes \cup {Absent}
  /\ nonces \in Nat
  /\ kind \in [Task -> A!Kind]
  /\ pc \in [Task -> {"start", "read", "put", "rename", "refresh", "done", "failed"}]
  /\ node \in [Task \cup Reader -> Node]
  /\ seen \in [Task -> Bytes \cup {Absent}]
  /\ tries \in [Task -> 0..MaxCasRetries]
  /\ lag \in [Task \cup Reader -> 0..MaxLag]
  /\ lock \in Task \cup {NoTask}
  /\ cache \in [Node -> [value : Value, age : 0..Ttl] \cup {NoEntry}]
  /\ got \in [Reader -> Value \cup {NoEntry}]
  /\ commits \in [Task -> 0..MaxCasRetries]
  /\ gone \in SUBSET [value : Value, age : 0..(Ttl + MaxLag - 1)]

Init ==
  /\ config \in Config
  /\ stored \in {Absent, [value |-> A!None, nonce |-> 0]}
  /\ nonces = 0 /\ lock = NoTask
  /\ kind \in [Task -> A!Kind]
  /\ node \in Placement
  /\ config.store = "fs" => \A x, y \in Task \cup Reader : node[x] = node[y]
  /\ pc = [t \in Task |-> "start"]
  /\ seen = [t \in Task |-> Absent]
  /\ tries = [t \in Task |-> 0]
  /\ lag = [x \in Task \cup Reader |-> 0]
  /\ cache = [n \in Node |-> NoEntry]
  /\ got = [r \in Reader |-> NoEntry]
  /\ commits = [t \in Task |-> 0]
  /\ gone = {}

-----------------------------------------------------------------------------
(* The store.                                                              *)

Goto(t, p) == pc' = [pc EXCEPT ![t] = p]

(* The call returns, with success or an error.                             *)
Return(t, p) ==
  /\ Goto(t, p)
  /\ seen' = [seen EXCEPT ![t] = Absent]
  /\ tries' = [tries EXCEPT ![t] = 0]
  /\ lag' = [lag EXCEPT ![t] = 0]

(* seal draws a fresh nonce; with encryption off the bytes are the value.  *)
Seal(v) ==
  IF config.sealed
    THEN [value |-> v, nonce |-> nonces + 1]
    ELSE [value |-> v, nonce |-> 0]

(* The bytes b replace the document, or it is removed.                     *)
Replace(t, b) ==
  /\ stored' = b
  /\ nonces' = IF b # Absent THEN IF config.sealed THEN nonces + 1 ELSE 0 ELSE nonces
  /\ commits' = [commits EXCEPT ![t] = @ + 1]
  /\ gone' = IF ValueOf(b) = ValueOf(stored) THEN gone
             ELSE {g \in gone : g.value # ValueOf(stored)}
                    \cup {[value |-> ValueOf(stored), age |-> 0]}

(* What f makes of the document this attempt has read.                     *)
NextBytes(t) == Seal(A!Effect(kind[t], t, ValueOf(seen[t])))

-----------------------------------------------------------------------------
(* mutate_doc, try_mutate_doc and put_doc.                                 *)

(* Mutant: the refusal of f is judged once and not for the retried read.   *)
ReadDocTrustsRetry(t) ==
  /\ pc[t] \in {"start", "read"} /\ kind[t] # "delete"
  /\ \/ /\ pc[t] = "read" \/ A!Accepts(kind[t], t, ValueOf(stored))
        /\ seen' = [seen EXCEPT ![t] = stored]
        /\ Goto(t, "put")
        /\ UNCHANGED <<tries, lag>>
     \/ /\ ~A!Accepts(kind[t], t, ValueOf(stored))
        /\ Return(t, "failed")
  /\ UNCHANGED <<setup, store, cache, got>>

(* get_versioned, then f: an error of f ends the call, and so does its     *)
(* None in try_mutate_doc.                                                 *)
ReadDoc(t) ==
  /\ pc[t] \in {"start", "read"} /\ kind[t] # "delete"
  /\ \/ /\ A!Accepts(kind[t], t, ValueOf(stored))
        /\ seen' = [seen EXCEPT ![t] = stored]
        /\ Goto(t, "put")
        /\ UNCHANGED <<tries, lag>>
     \/ /\ ~A!Accepts(kind[t], t, ValueOf(stored))
        /\ Return(t, "failed")
  /\ UNCHANGED <<setup, store, cache, got>>

(* CasResult::Conflict: the loop goes round, at most MAX_CAS_RETRIES times. *)
Conflict(t) ==
  \/ /\ tries[t] + 1 < MaxCasRetries
     /\ tries' = [tries EXCEPT ![t] = @ + 1]
     /\ seen' = [seen EXCEPT ![t] = Absent]
     /\ Goto(t, "read")
     /\ UNCHANGED lag
  \/ /\ tries[t] + 1 = MaxCasRetries
     /\ Return(t, "failed")

(* CasResult::Written: the cache is to be refreshed with what was written. *)
Written(t, b) ==
  /\ Replace(t, b)
  /\ seen' = [seen EXCEPT ![t] = b]
  /\ tries' = [tries EXCEPT ![t] = 0]
  /\ Goto(t, "refresh")
  /\ UNCHANGED lag

(* Mutant: the precondition of the put is dropped.                         *)
PutAnyVersion(t) ==
  /\ pc[t] = "put" /\ config.store = "s3"
  /\ Written(t, NextBytes(t))
  /\ UNCHANGED <<setup, lock, cache, got>>

(* S3 PutObject with If-Match, or If-None-Match when nothing was read.     *)
PutIfVersion(t) ==
  /\ pc[t] = "put" /\ config.store = "s3"
  /\ \/ stored = seen[t] /\ Written(t, NextBytes(t))
     \/ stored # seen[t] /\ Conflict(t) /\ UNCHANGED kept
  /\ UNCHANGED <<setup, lock, cache, got>>

(* The put is applied and its answer lost: the S3 client repeats it and    *)
(* takes its own write for a conflict, or the call fails.                  *)
PutReplyLost(t) ==
  /\ pc[t] = "put" /\ config.flaky
  /\ stored = seen[t]
  /\ Replace(t, NextBytes(t))
  /\ Conflict(t) \/ Return(t, "failed")
  /\ UNCHANGED <<setup, lock, cache, got>>

(* FsControlStore: under write_lock the hash is compared...                *)
FsCompare(t) ==
  /\ pc[t] = "put" /\ config.store = "fs"
  /\ lock = NoTask
  /\ \/ /\ stored = seen[t]
        /\ lock' = t
        /\ Goto(t, "rename")
        /\ UNCHANGED <<seen, tries, lag>>
     \/ stored # seen[t] /\ Conflict(t) /\ UNCHANGED lock
  /\ UNCHANGED kept
  /\ UNCHANGED <<setup, cache, got>>

(* ... and the new file renamed into place.                                *)
FsRename(t) ==
  /\ pc[t] = "rename"
  /\ lock' = NoTask
  /\ Written(t, NextBytes(t))
  /\ UNCHANGED <<setup, cache, got>>

(* delete: unconditional; a file is removed without the lock.              *)
Delete(t) ==
  /\ pc[t] = "start" /\ kind[t] = "delete"
  /\ DeleteRaces \/ lock = NoTask
  /\ Written(t, Absent)
  /\ UNCHANGED <<setup, lock, cache, got>>

(* cache_refresh_if_present: only an entry that is there.                  *)
Refresh(t) ==
  /\ pc[t] = "refresh"
  /\ cache' = IF cache[node[t]] = NoEntry THEN cache
              ELSE [cache EXCEPT ![node[t]] = [value |-> ValueOf(seen[t]), age |-> 0]]
  /\ Return(t, "done")
  /\ UNCHANGED <<setup, store, got>>

(* The store cannot be reached.                                            *)
StoreFails(t) ==
  /\ pc[t] \in {"start", "read", "put"}
  /\ Return(t, "failed")
  /\ UNCHANGED <<setup, store, cache, got>>

-----------------------------------------------------------------------------
(* cached_read_or_default.                                                 *)

Usable(n) == cache[n] # NoEntry /\ cache[n].age < Ttl

Fetching(r) == got[r] # NoEntry

(* Mutant: a hit keeps the entry alive.                                    *)
CacheHitTouches(r) ==
  /\ ~Fetching(r)
  /\ Usable(node[r])
  /\ cache' = [cache EXCEPT ![node[r]].age = 0]
  /\ UNCHANGED <<setup, store, pc, seen, tries, lag, got>>

(* cache_get: a fresh entry answers, an absent document included; the      *)
(* entry is left as it is.                                                 *)
CacheHit(r) ==
  /\ ~Fetching(r)
  /\ Usable(node[r])
  /\ UNCHANGED vars

(* A miss reads the store...                                               *)
Fetch(r) ==
  /\ ~Fetching(r)
  /\ ~Usable(node[r])
  /\ got' = [got EXCEPT ![r] = ValueOf(stored)]
  /\ lag' = [lag EXCEPT ![r] = 0]
  /\ UNCHANGED <<setup, store, pc, seen, tries, cache>>

(* ... and stores what it read, whatever the entry has become (cache_store; *)
(* a ttl of zero keeps nothing).                                           *)
CacheStore(r) ==
  /\ Fetching(r)
  /\ cache' = IF Ttl = 0 THEN cache
              ELSE [cache EXCEPT ![node[r]] = [value |-> got[r], age |-> 0]]
  /\ got' = [got EXCEPT ![r] = NoEntry]
  /\ lag' = [lag EXCEPT ![r] = 0]
  /\ UNCHANGED <<setup, store, pc, seen, tries>>

-----------------------------------------------------------------------------

Updating(x) ==
  IF x \in Task THEN pc[x] = "refresh" ELSE Fetching(x)

(* A tick: entries age; what waits to update a cache waits MaxLag at most. *)
Tick ==
  /\ \A x \in Task \cup Reader : Updating(x) => lag[x] < MaxLag
  /\ lag' = [x \in Task \cup Reader |-> IF Updating(x) THEN lag[x] + 1 ELSE 0]
  /\ cache' = [n \in Node |->
       IF Usable(n) THEN [cache[n] EXCEPT !.age = @ + 1] ELSE cache[n]]
  /\ gone' = {[g EXCEPT !.age = @ + 1] : g \in {h \in gone : h.age + 1 < Ttl + MaxLag}}
  /\ UNCHANGED <<setup, stored, nonces, lock, commits, pc, seen, tries, got>>

(* The process dies and comes back with an empty cache; its calls are lost. *)
Crash(n) ==
  /\ cache' = [cache EXCEPT ![n] = NoEntry]
  /\ LET lost == {t \in Task : node[t] = n /\ pc[t] \notin {"start", "done"}}
     IN /\ pc' = [t \in Task |-> IF t \in lost THEN "failed" ELSE pc[t]]
        /\ seen' = [t \in Task |-> IF t \in lost THEN Absent ELSE seen[t]]
        /\ tries' = [t \in Task |-> IF t \in lost THEN 0 ELSE tries[t]]
        /\ lock' = IF lock \in lost THEN NoTask ELSE lock
  /\ got' = [r \in Reader |-> IF node[r] = n THEN NoEntry ELSE got[r]]
  /\ lag' = [x \in Task \cup Reader |-> IF node[x] = n THEN 0 ELSE lag[x]]
  /\ UNCHANGED <<setup, stored, nonces, commits, gone>>

Change(t) ==
  \/ ReadDoc(t) \/ PutIfVersion(t) \/ PutReplyLost(t) \/ FsCompare(t)
  \/ FsRename(t) \/ Delete(t) \/ Refresh(t) \/ StoreFails(t)

Read(r) == CacheHit(r) \/ Fetch(r) \/ CacheStore(r)

Next ==
  \/ \E t \in Task : Change(t)
  \/ \E r \in Reader : Read(r)
  \/ \E n \in Node : Crash(n)
  \/ Tick

Spec == Init /\ [][Next]_vars

-----------------------------------------------------------------------------
(***************************************************************************)
(* Safety.                                                                 *)
(***************************************************************************)

(* mutate_doc is "CAS read-modify-write": whatever tasks of whatever nodes *)
(* race, retry, fail or die, the document changes as if each call were one *)
(* step on the value as it stands; no change overwrites another unseen.    *)
(* A change is made twice only when the store lost the answer to it.       *)
IsAtomicDoc ==
  /\ A!Init
  /\ [][A!Next(config.flaky)]_(A!vars)

(* "Seconds of cross-node staleness is acceptable": whatever races a fill, *)
(* a refresh and a commit run, a value a node may still serve was in the   *)
(* store at some moment of the last Ttl + MaxLag ticks.                    *)
BoundedStaleness ==
  \A n \in Node : Usable(n) =>
    \/ cache[n].value = ValueOf(stored)
    \/ \E g \in gone : g.value = cache[n].value
=============================================================================
