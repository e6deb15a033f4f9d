-------------------------- MODULE ControlDoc_proofs --------------------------
(***************************************************************************)
(* A change of a control-plane document is one step on the value as it     *)
(* stands, and a cached read is never staler than the time to live and the *)
(* lag of a cache update, for every number of processes, calls, readers    *)
(* and retries.                                                            *)
(*                                                                         *)
(* CountOK bounds the marks a document carries by the changes made, for    *)
(* the stored bytes and for those a call has read.  StageOK says what a    *)
(* call that is about to write still knows of the store; it holds when a   *)
(* file is not deleted between the compare and the rename.  RecentOK gives *)
(* each value that is or may get into a cache the age it may have.         *)
(***************************************************************************)
EXTENDS ControlDoc, TLAPS

Count(b, u) == A!MarksOf(ValueOf(b))[u]

CountOK ==
  \A t \in Task :
    /\ tries[t] < MaxCasRetries
    /\ pc[t] \in {"start", "read", "put", "rename"} =>
         /\ commits[t] <= tries[t]
         /\ ~config.flaky => commits[t] = 0
    /\ pc[t] \in {"put", "rename"} =>
         /\ kind[t] # "delete"
         /\ \A u \in Task : Count(seen[t], u) <= commits[u]
    /\ pc[t] = "refresh" => commits[t] > 0
    /\ Count(stored, t) <= commits[t]

(* v is in the store, or was a ticks ago.                                  *)
Recent(v, a) ==
  v = ValueOf(stored) \/ \E g \in gone : g.value = v /\ g.age <= a

RecentOK ==
  /\ \A n \in Node : Usable(n) => Recent(cache[n].value, cache[n].age + MaxLag)
  /\ \A r \in Reader : Fetching(r) => Recent(got[r], lag[r])
  /\ \A t \in Task : pc[t] = "refresh" => Recent(ValueOf(seen[t]), lag[t])

IInv == TypeOK /\ CountOK

StageOK ==
  \A t \in Task :
    /\ pc[t] \in {"put", "rename"} => A!Accepts(kind[t], t, ValueOf(seen[t]))
    /\ pc[t] = "rename" => lock = t /\ config.store = "fs" /\ stored = seen[t]

-----------------------------------------------------------------------------
(* Marks and bytes.                                                        *)

LEMMA NoneType ==
  /\ A!None \in A!Marks /\ A!None \in [Task -> Nat] /\ A!None # Absent
  /\ \A t \in Task : A!None[t] = 0
BY RetryAssumption, AbsentAssumption DEF A!None, A!Marks

LEMMA MarksType ==
  ASSUME NEW m \in A!Marks
  PROVE  m # Absent /\ m \in [Task -> Nat] /\ \A u \in Task : m[u] \in Nat
<1>1. m \in [Task -> Nat]  BY RetryAssumption DEF A!Marks
<1> QED  BY <1>1, AbsentAssumption

LEMMA BytesType ==
  ASSUME NEW b \in Bytes
  PROVE  /\ b # Absent /\ ValueOf(b) = b.value /\ b.value \in A!Marks /\ ValueOf(b) # Absent
         /\ \A u \in Task : Count(b, u) = b.value[u] /\ Count(b, u) \in Nat
<1>1. b.value \in A!Marks /\ b.value # Absent  BY DEF Bytes, Value, A!Value
<1>2. b \in [value : [Task -> Nat], nonce : Nat]  BY <1>1, MarksType DEF Bytes
<1>3. b # Absent  BY <1>2, AbsentAssumption
<1> QED  BY <1>1, <1>3, MarksType DEF ValueOf, Count, A!MarksOf

LEMMA StoredType ==
  ASSUME NEW b \in Bytes \cup {Absent}
  PROVE  /\ ValueOf(b) \in Value /\ A!MarksOf(ValueOf(b)) \in A!Marks
         /\ \A u \in Task : Count(b, u) \in Nat
<1>1. CASE b \in Bytes
  BY <1>1, BytesType DEF Value, A!Value, A!MarksOf
<1>2. CASE b = Absent
  BY <1>2, NoneType DEF Value, A!Value, A!MarksOf, ValueOf, Count
<1> QED  BY <1>1, <1>2

(* What a call makes of the document it has read counts one change more.   *)
LEMMA NextBytesOK ==
  ASSUME IInv, NEW t \in Task, pc[t] \in {"put", "rename"}
  PROVE  /\ NextBytes(t) \in Bytes
         /\ NextBytes(t).value = A!Effect(kind[t], t, ValueOf(seen[t]))
         /\ \A u \in Task : Count(NextBytes(t), u) <= commits[u] + (IF u = t THEN 1 ELSE 0)
<1> PICK m \in A!Marks : m = A!MarksOf(ValueOf(seen[t]))  BY StoredType DEF IInv, TypeOK
<1>1. \A u \in Task : m[u] \in Nat /\ m[u] <= commits[u] /\ commits[u] \in Nat
  BY MarksType, RetryAssumption DEF IInv, TypeOK, CountOK, Count
<1>2. kind[t] # "delete" /\ commits[t] < MaxCasRetries
  BY RetryAssumption DEF IInv, TypeOK, CountOK
<1> PICK e : e = A!Effect(kind[t], t, ValueOf(seen[t]))  OBVIOUS
<1>3. e = [A!None EXCEPT ![t] = 1] \/ e = [m EXCEPT ![t] = @ + 1]
  BY <1>2 DEF A!Effect
<1>4. m[t] + 1 \in 0..MaxCasRetries /\ 1 \in 0..MaxCasRetries
  BY <1>1, <1>2, RetryAssumption
<1>5. e \in A!Marks /\ \A u \in Task : e[u] <= commits[u] + (IF u = t THEN 1 ELSE 0)
  <2>1. CASE e = [A!None EXCEPT ![t] = 1]
    <3>1. e \in A!Marks  BY <1>4, <2>1, NoneType DEF A!Marks
    <3>2. \A u \in Task : e[u] = IF u = t THEN 1 ELSE 0  BY <2>1, NoneType DEF A!Marks
    <3> QED  BY <1>1, <3>1, <3>2
  <2>2. CASE e = [m EXCEPT ![t] = @ + 1]
    <3>1. e \in A!Marks  BY <1>4, <2>2 DEF A!Marks
    <3>2. \A u \in Task : e[u] = m[u] + (IF u = t THEN 1 ELSE 0)
      BY <1>1, <2>2, MarksType
    <3> QED  BY <1>1, <3>1, <3>2
  <2> QED  BY <1>3, <2>1, <2>2
<1>6. NextBytes(t) \in Bytes /\ NextBytes(t).value = e
  BY <1>5, MarksType DEF NextBytes, Seal, Bytes, Value, A!Value, IInv, TypeOK
<1> QED  BY <1>5, <1>6, BytesType

-----------------------------------------------------------------------------
(* Types and counts.                                                       *)

LEMMA InitIInv == Init => IInv
<1> SUFFICES ASSUME Init PROVE IInv  OBVIOUS
<1> USE DEF Init
<1>1. stored \in Bytes \cup {Absent}
  <2>1. A!None \in Value \ {Absent}  BY NoneType DEF Value, A!Value
  <2> QED  BY <2>1 DEF Bytes
<1>2. node \in [Task \cup Reader -> Node]  BY PlacementAssumption
<1>3. TypeOK
  BY <1>1, <1>2, RetryAssumption, CacheBoundAssumption DEF TypeOK
<1>4. \A t \in Task : Count(stored, t) = 0
  <2>1. CASE stored = Absent  BY <2>1, NoneType DEF Count, ValueOf, A!MarksOf
  <2>2. CASE stored # Absent  BY <2>2, NoneType DEF Count, ValueOf, A!MarksOf
  <2> QED  BY <2>1, <2>2
<1>5. CountOK  BY <1>4, RetryAssumption DEF CountOK
<1> QED  BY <1>3, <1>5 DEF IInv

(* The next bytes of a change are counted.                                 *)
LEMMA ReplaceFacts ==
  ASSUME IInv, NEW t \in Task, NEW b \in Bytes \cup {Absent}, Replace(t, b),
         commits[t] < MaxCasRetries,
         \A u \in Task : Count(b, u) <= commits[u] + (IF u = t THEN 1 ELSE 0)
  PROVE  /\ stored' \in Bytes \cup {Absent} /\ nonces' \in Nat
         /\ commits' \in [Task -> 0..MaxCasRetries]
         /\ gone' \in SUBSET [value : Value, age : 0..(Ttl + MaxLag - 1)]
         /\ commits'[t] = commits[t] + 1 /\ \A u \in Task \ {t} : commits'[u] = commits[u]
         /\ \A u \in Task : Count(stored', u) <= commits'[u] /\ commits[u] <= commits'[u]
<1>1. commits \in [Task -> 0..MaxCasRetries] /\ \A u \in Task : commits[u] \in Nat
  BY RetryAssumption DEF IInv, TypeOK
<1>2. commits[t] + 1 \in 0..MaxCasRetries  BY <1>1, RetryAssumption
<1>3. commits' = [commits EXCEPT ![t] = @ + 1] /\ stored' = b  BY DEF Replace
<1>4. commits' \in [Task -> 0..MaxCasRetries] /\ commits'[t] = commits[t] + 1
      /\ \A u \in Task \ {t} : commits'[u] = commits[u]
  BY <1>1, <1>2, <1>3
<1>5. \A u \in Task : Count(stored', u) <= commits'[u] /\ commits[u] <= commits'[u]
  <2> SUFFICES ASSUME NEW u \in Task
               PROVE  Count(b, u) <= commits'[u] /\ commits[u] <= commits'[u]
    BY <1>3
  <2>1. Count(b, u) \in Nat  BY StoredType
  <2> QED  BY <1>1, <1>4, <2>1
<1>6. [value |-> ValueOf(stored), age |-> 0] \in [value : Value, age : 0..(Ttl + MaxLag - 1)]
  <2>1. 0 \in 0..(Ttl + MaxLag - 1)  BY CacheBoundAssumption
  <2>2. ValueOf(stored) \in Value  BY StoredType DEF IInv, TypeOK
  <2> QED  BY <2>1, <2>2
<1>7. gone' \in SUBSET [value : Value, age : 0..(Ttl + MaxLag - 1)]
  BY <1>6 DEF Replace, IInv, TypeOK
<1> QED  BY <1>3, <1>4, <1>5, <1>7 DEF Replace, IInv, TypeOK

(* What the loop does with a call's own variables.                         *)
LEMMA LoopFacts ==
  ASSUME IInv, NEW t \in Task,
         \/ Conflict(t)
         \/ \E p \in {"done", "failed"} : Return(t, p)
         \/ \E b \in Bytes \cup {Absent} : Written(t, b)
  PROVE  /\ pc' \in [Task -> {"start", "read", "put", "rename", "refresh", "done", "failed"}]
         /\ seen' \in [Task -> Bytes \cup {Absent}]
         /\ tries' \in [Task -> 0..MaxCasRetries]
         /\ lag' \in [Task \cup Reader -> 0..MaxLag]
         /\ pc'[t] \in {"read", "refresh", "done", "failed"}
         /\ pc'[t] = "read" => Conflict(t) /\ tries'[t] = tries[t] + 1 /\ tries'[t] < MaxCasRetries
         /\ tries'[t] < MaxCasRetries
         /\ \A u \in Task \ {t} : pc'[u] = pc[u] /\ seen'[u] = seen[u] /\ tries'[u] = tries[u]
<1> USE RetryAssumption, CacheBoundAssumption DEF IInv, TypeOK, Goto
<1>1. tries[t] \in Nat /\ tries[t] < MaxCasRetries  BY DEF CountOK
<1>2. ASSUME NEW p \in {"done", "failed"}, Return(t, p)
      PROVE  /\ pc' \in [Task -> {"start", "read", "put", "rename", "refresh", "done", "failed"}]
             /\ seen' \in [Task -> Bytes \cup {Absent}]
             /\ tries' \in [Task -> 0..MaxCasRetries]
             /\ lag' \in [Task \cup Reader -> 0..MaxLag]
             /\ pc'[t] = p /\ tries'[t] = 0
             /\ \A u \in Task \ {t} : pc'[u] = pc[u] /\ seen'[u] = seen[u] /\ tries'[u] = tries[u]
  BY <1>2 DEF Return
<1>3. ASSUME NEW b \in Bytes \cup {Absent}, Written(t, b)
      PROVE  /\ pc' \in [Task -> {"start", "read", "put", "rename", "refresh", "done", "failed"}]
             /\ seen' \in [Task -> Bytes \cup {Absent}]
             /\ tries' \in [Task -> 0..MaxCasRetries]
             /\ lag' \in [Task \cup Reader -> 0..MaxLag]
             /\ pc'[t] = "refresh" /\ tries'[t] = 0
             /\ \A u \in Task \ {t} : pc'[u] = pc[u] /\ seen'[u] = seen[u] /\ tries'[u] = tries[u]
  BY <1>3 DEF Written
<1>4. CASE Conflict(t) /\ tries[t] + 1 < MaxCasRetries
  <2>1. tries[t] + 1 \in 0..MaxCasRetries /\ tries[t] + 1 # MaxCasRetries  BY <1>1, <1>4
  <2> QED  BY <1>4, <2>1 DEF Conflict
<1>5. CASE Conflict(t) /\ ~(tries[t] + 1 < MaxCasRetries)
  BY <1>2, <1>5 DEF Conflict
<1> QED  BY <1>2, <1>3, <1>4, <1>5

(* One call moves: the counts of the others hold with what it has changed. *)
LEMMA CountStep ==
  ASSUME IInv, NEW t \in Task, UNCHANGED <<config, kind>>,
         \A u \in Task \ {t} :
           pc'[u] = pc[u] /\ seen'[u] = seen[u] /\ tries'[u] = tries[u] /\ commits'[u] = commits[u],
         commits' \in [Task -> 0..MaxCasRetries],
         \A u \in Task : Count(stored', u) <= commits'[u] /\ commits[u] <= commits'[u],
         tries'[t] < MaxCasRetries,
         pc'[t] \in {"start", "read", "put", "rename"} =>
           commits'[t] <= tries'[t] /\ (~config.flaky => commits'[t] = 0),
         pc'[t] \in {"put", "rename"} =>
           /\ kind[t] # "delete"
           /\ \A u \in Task : Count(seen'[t], u) <= commits'[u],
         pc'[t] = "refresh" => commits'[t] > 0
  PROVE  CountOK'
<1>1. \A u \in Task : commits[u] \in Nat /\ commits'[u] \in Nat
  BY RetryAssumption DEF IInv, TypeOK
<1>2. ASSUME NEW u \in Task \ {t}, pc[u] \in {"put", "rename"}
      PROVE  kind[u] # "delete" /\ \A w \in Task : Count(seen[u], w) <= commits'[w]
  <2> SUFFICES ASSUME NEW w \in Task PROVE Count(seen[u], w) <= commits'[w]
    BY <1>2 DEF IInv, CountOK
  <2>1. Count(seen[u], w) <= commits[w]  BY <1>2 DEF IInv, CountOK
  <2>2. Count(seen[u], w) \in Nat  BY StoredType DEF IInv, TypeOK
  <2> QED  BY <1>1, <2>1, <2>2
<1>3. ASSUME NEW u \in Task
      PROVE  /\ tries'[u] < MaxCasRetries
             /\ pc'[u] \in {"start", "read", "put", "rename"} =>
                  commits'[u] <= tries'[u] /\ (~config'.flaky => commits'[u] = 0)
             /\ pc'[u] \in {"put", "rename"} =>
                  /\ kind'[u] # "delete"
                  /\ \A w \in Task : Count(seen'[u], w) <= commits'[w]
             /\ pc'[u] = "refresh" => commits'[u] > 0
             /\ Count(stored', u) <= commits'[u]
  <2>1. CASE u = t  BY <2>1
  <2>2. CASE u # t  BY <1>2, <2>2 DEF IInv, CountOK
  <2> QED  BY <2>1, <2>2
<1> QED  BY <1>3 DEF CountOK, Count, ValueOf, A!MarksOf, A!None

(* The change is made.                                                     *)
LEMMA CommitStep ==
  ASSUME IInv, NEW t \in Task, NEW b \in Bytes \cup {Absent}, Replace(t, b),
         pc[t] \in {"start", "put", "rename"},
         \A u \in Task : Count(b, u) <= commits[u] + (IF u = t THEN 1 ELSE 0),
         \/ Written(t, b)
         \/ config.flaky /\ (Conflict(t) \/ Return(t, "failed")),
         lock' \in Task \cup {NoTask}, UNCHANGED <<setup, cache, got>>
  PROVE  IInv'
<1>1. commits[t] <= tries[t] /\ tries[t] < MaxCasRetries
      /\ commits[t] \in Nat /\ tries[t] \in Nat /\ commits[t] < MaxCasRetries
  BY RetryAssumption DEF IInv, TypeOK, CountOK
<1>2. /\ stored' \in Bytes \cup {Absent} /\ nonces' \in Nat
      /\ commits' \in [Task -> 0..MaxCasRetries]
      /\ gone' \in SUBSET [value : Value, age : 0..(Ttl + MaxLag - 1)]
      /\ commits'[t] = commits[t] + 1 /\ \A u \in Task \ {t} : commits'[u] = commits[u]
      /\ \A u \in Task : Count(stored', u) <= commits'[u] /\ commits[u] <= commits'[u]
  BY <1>1, ReplaceFacts
<1>3. /\ pc' \in [Task -> {"start", "read", "put", "rename", "refresh", "done", "failed"}]
      /\ seen' \in [Task -> Bytes \cup {Absent}]
      /\ tries' \in [Task -> 0..MaxCasRetries]
      /\ lag' \in [Task \cup Reader -> 0..MaxLag]
      /\ pc'[t] \in {"read", "refresh", "done", "failed"}
      /\ pc'[t] = "read" => Conflict(t) /\ tries'[t] = tries[t] + 1 /\ tries'[t] < MaxCasRetries
      /\ tries'[t] < MaxCasRetries
      /\ \A u \in Task \ {t} : pc'[u] = pc[u] /\ seen'[u] = seen[u] /\ tries'[u] = tries[u]
  BY LoopFacts
<1>4. TypeOK'  BY <1>2, <1>3 DEF IInv, TypeOK, setup
<1>5. pc'[t] = "read" => config.flaky
  BY DEF Written, Goto, IInv, TypeOK
<1>6. CountOK'
  <2>1. pc'[t] = "read" => commits'[t] <= tries'[t]  BY <1>1, <1>2, <1>3
  <2>2. commits'[t] > 0  BY <1>1, <1>2
  <2> QED  BY <1>2, <1>3, <1>5, <2>1, <2>2, CountStep DEF setup
<1> QED  BY <1>4, <1>6 DEF IInv

(* The document is left as it is, and so is the number of changes.         *)
LEMMA LoopStep ==
  ASSUME IInv, NEW t \in Task, UNCHANGED kept, UNCHANGED <<setup, got>>,
         lock' \in Task \cup {NoTask},
         cache' \in [Node -> [value : Value, age : 0..Ttl] \cup {NoEntry}],
         Conflict(t) \/ \E p \in {"done", "failed"} : Return(t, p),
         pc[t] \in {"start", "read", "put", "refresh"},
         pc[t] = "refresh" => Return(t, "done")
  PROVE  IInv'
<1>1. /\ pc' \in [Task -> {"start", "read", "put", "rename", "refresh", "done", "failed"}]
      /\ seen' \in [Task -> Bytes \cup {Absent}]
      /\ tries' \in [Task -> 0..MaxCasRetries]
      /\ lag' \in [Task \cup Reader -> 0..MaxLag]
      /\ pc'[t] \in {"read", "refresh", "done", "failed"}
      /\ pc'[t] = "read" => Conflict(t) /\ tries'[t] = tries[t] + 1 /\ tries'[t] < MaxCasRetries
      /\ tries'[t] < MaxCasRetries
      /\ \A u \in Task \ {t} : pc'[u] = pc[u] /\ seen'[u] = seen[u] /\ tries'[u] = tries[u]
  BY LoopFacts
<1>2. TypeOK'  BY <1>1 DEF IInv, TypeOK, setup, kept
<1>3. \A u \in Task : Count(stored', u) <= commits'[u] /\ commits[u] <= commits'[u]
  BY RetryAssumption DEF IInv, TypeOK, CountOK, kept
<1>4. pc'[t] # "refresh"
  BY DEF Conflict, Return, Goto, IInv, TypeOK
<1>5. pc'[t] = "read" => commits[t] <= tries'[t] /\ (~config.flaky => commits[t] = 0)
  <2> SUFFICES ASSUME pc'[t] = "read" PROVE commits[t] <= tries'[t] /\ (~config.flaky => commits[t] = 0)
    OBVIOUS
  <2>1. pc[t] \in {"start", "read", "put"}  BY DEF Return, Goto, IInv, TypeOK
  <2>2. commits[t] \in Nat /\ tries[t] \in Nat  BY RetryAssumption DEF IInv, TypeOK
  <2> QED  BY <1>1, <2>1, <2>2 DEF IInv, CountOK
<1>6. CountOK'  BY <1>1, <1>3, <1>4, <1>5, CountStep DEF setup, kept, IInv, TypeOK
<1> QED  BY <1>2, <1>6 DEF IInv

(* A call that goes on to its write, knowing what it has read.             *)
LEMMA StageStep ==
  ASSUME IInv, NEW t \in Task, UNCHANGED kept, UNCHANGED <<setup, cache, got, tries, lag>>,
         lock' \in Task \cup {NoTask},
         pc[t] \in {"start", "read", "put"}, kind[t] # "delete",
         NEW p \in {"put", "rename"}, Goto(t, p),
         seen' = seen \/ seen' = [seen EXCEPT ![t] = stored],
         pc[t] # "put" => seen' = [seen EXCEPT ![t] = stored]
  PROVE  IInv'
<1>1. pc' \in [Task -> {"start", "read", "put", "rename", "refresh", "done", "failed"}]
      /\ pc'[t] = p /\ \A u \in Task \ {t} : pc'[u] = pc[u] /\ seen'[u] = seen[u]
      /\ seen' \in [Task -> Bytes \cup {Absent}]
  BY DEF Goto, IInv, TypeOK
<1>2. TypeOK'  BY <1>1 DEF IInv, TypeOK, setup, kept
<1>3. \A u \in Task : Count(stored', u) <= commits'[u] /\ commits[u] <= commits'[u]
                        /\ Count(stored, u) <= commits[u]
  BY RetryAssumption DEF IInv, TypeOK, CountOK, kept
<1>4. commits'[t] <= tries'[t] /\ (~config.flaky => commits'[t] = 0) /\ tries'[t] < MaxCasRetries
  BY DEF IInv, CountOK, kept
<1>5. \A u \in Task : Count(seen'[t], u) <= commits'[u]
  <2>1. CASE seen' = [seen EXCEPT ![t] = stored]
    <3>1. seen'[t] = stored  BY <2>1 DEF IInv, TypeOK
    <3> QED  BY <1>3, <3>1 DEF kept
  <2>2. CASE seen' # [seen EXCEPT ![t] = stored]
    BY <2>2 DEF IInv, CountOK, kept
  <2> QED  BY <2>1, <2>2
<1>6. CountOK'
  BY <1>1, <1>3, <1>4, <1>5, CountStep DEF setup, kept, IInv, TypeOK
<1> QED  BY <1>2, <1>6 DEF IInv

LEMMA ChangeStep ==
  ASSUME IInv, NEW t \in Task, Change(t)
  PROVE  IInv'
<1>1. CASE ReadDoc(t)
  <2>1. UNCHANGED kept /\ UNCHANGED <<setup, cache, got, lock>>
    BY <1>1 DEF ReadDoc, store, kept
  <2>2. lock' \in Task \cup {NoTask} /\ cache' = cache  BY <2>1 DEF IInv, TypeOK
  <2>3. CASE Return(t, "failed")
    BY <1>1, <2>1, <2>2, <2>3, LoopStep DEF ReadDoc, IInv, TypeOK
  <2>4. CASE ~Return(t, "failed")
    BY <1>1, <2>1, <2>2, <2>4, StageStep DEF ReadDoc
  <2> QED  BY <2>3, <2>4
<1>2. CASE PutIfVersion(t)
  <2>1. pc[t] = "put" /\ UNCHANGED <<setup, lock, cache, got>>  BY <1>2 DEF PutIfVersion
  <2>2. lock' \in Task \cup {NoTask} /\ cache' \in [Node -> [value : Value, age : 0..Ttl] \cup {NoEntry}]
    BY <2>1 DEF IInv, TypeOK
  <2>3. CASE Written(t, NextBytes(t))
    BY <2>1, <2>2, <2>3, NextBytesOK, CommitStep DEF Written
  <2>4. CASE Conflict(t) /\ UNCHANGED kept
    BY <2>1, <2>2, <2>4, LoopStep
  <2> QED  BY <1>2, <2>3, <2>4 DEF PutIfVersion
<1>3. CASE PutReplyLost(t)
  <2>1. lock' \in Task \cup {NoTask}  BY <1>3 DEF PutReplyLost, IInv, TypeOK
  <2> QED  BY <1>3, <2>1, NextBytesOK, CommitStep DEF PutReplyLost
<1>4. CASE FsCompare(t)
  <2>1. pc[t] = "put" /\ UNCHANGED kept /\ UNCHANGED <<setup, cache, got>>
    BY <1>4 DEF FsCompare
  <2>2. cache' \in [Node -> [value : Value, age : 0..Ttl] \cup {NoEntry}]
    BY <2>1 DEF IInv, TypeOK
  <2>3. CASE lock' = t /\ Goto(t, "rename") /\ UNCHANGED <<seen, tries, lag>>
    BY <2>1, <2>3, StageStep DEF IInv, CountOK
  <2>4. CASE Conflict(t) /\ UNCHANGED lock
    <3>1. lock' \in Task \cup {NoTask}  BY <2>4 DEF IInv, TypeOK
    <3> QED  BY <2>1, <2>2, <2>4, <3>1, LoopStep
  <2> QED  BY <1>4, <2>3, <2>4 DEF FsCompare
<1>5. CASE FsRename(t)
  BY <1>5, NextBytesOK, CommitStep DEF FsRename, Written
<1>6. CASE Delete(t)
  <2>1. \A u \in Task : Count(Absent, u) = 0  BY NoneType DEF Count, ValueOf, A!MarksOf
  <2>2. \A u \in Task : Count(Absent, u) <= commits[u] + (IF u = t THEN 1 ELSE 0)
    BY <2>1, RetryAssumption DEF IInv, TypeOK
  <2>3. lock' \in Task \cup {NoTask}  BY <1>6 DEF Delete, IInv, TypeOK
  <2> QED  BY <1>6, <2>2, <2>3, CommitStep DEF Delete, Written
<1>7. CASE Refresh(t)
  <2>1. seen[t] \in Bytes \cup {Absent}  BY DEF IInv, TypeOK
  <2>2. [value |-> ValueOf(seen[t]), age |-> 0] \in [value : Value, age : 0..Ttl]
    BY <2>1, StoredType, CacheBoundAssumption
  <2>3. cache' \in [Node -> [value : Value, age : 0..Ttl] \cup {NoEntry}]
    BY <1>7, <2>2 DEF Refresh, IInv, TypeOK
  <2>4. lock' \in Task \cup {NoTask}  BY <1>7 DEF Refresh, IInv, TypeOK, store
  <2> QED  BY <1>7, <2>3, <2>4, LoopStep DEF Refresh, store, kept
<1>8. CASE StoreFails(t)
  BY <1>8, LoopStep DEF StoreFails, store, kept, IInv, TypeOK
<1> QED  BY <1>1, <1>2, <1>3, <1>4, <1>5, <1>6, <1>7, <1>8 DEF Change

(* Reads, a tick and a crash change no call's count.                       *)
LEMMA ReadTypes ==
  ASSUME TypeOK, NEW r \in Reader, Read(r)
  PROVE  TypeOK'
<1> USE DEF TypeOK, setup, store
<1>1. CASE CacheHit(r)  BY <1>1 DEF CacheHit, vars
<1>2. CASE Fetch(r)
  <2>1. ValueOf(stored) \in Value  BY StoredType
  <2>2. got' \in [Reader -> Value \cup {NoEntry}]  BY <1>2, <2>1 DEF Fetch
  <2>3. lag' \in [Task \cup Reader -> 0..MaxLag]  BY <1>2, CacheBoundAssumption DEF Fetch
  <2> QED  BY <1>2, <2>2, <2>3 DEF Fetch
<1>3. CASE CacheStore(r)
  <2>1. got[r] \in Value  BY <1>3 DEF CacheStore, Fetching
  <2>2. [value |-> got[r], age |-> 0] \in [value : Value, age : 0..Ttl]
    BY <2>1, CacheBoundAssumption
  <2>3. cache' \in [Node -> [value : Value, age : 0..Ttl] \cup {NoEntry}]
    BY <1>3, <2>2 DEF CacheStore
  <2>4. lag' \in [Task \cup Reader -> 0..MaxLag] /\ got' \in [Reader -> Value \cup {NoEntry}]
    BY <1>3, CacheBoundAssumption DEF CacheStore
  <2> QED  BY <1>3, <2>3, <2>4 DEF CacheStore
<1> QED  BY <1>1, <1>2, <1>3 DEF Read

LEMMA TickTypes ==
  ASSUME TypeOK, Tick
  PROVE  TypeOK'
<1> USE DEF TypeOK, setup, Tick
<1>1. lag' \in [Task \cup Reader -> 0..MaxLag]
  <2>1. \A x \in Task \cup Reader : Updating(x) => lag[x] + 1 \in 0..MaxLag
    BY CacheBoundAssumption
  <2> QED  BY <2>1, CacheBoundAssumption
<1>2. cache' \in [Node -> [value : Value, age : 0..Ttl] \cup {NoEntry}]
  <2>1. \A n \in Node : Usable(n) =>
          [cache[n] EXCEPT !.age = @ + 1] \in [value : Value, age : 0..Ttl]
    BY CacheBoundAssumption DEF Usable
  <2> QED  BY <2>1
<1>3. gone' \in SUBSET [value : Value, age : 0..(Ttl + MaxLag - 1)]
  <2>1. \A g \in gone : g.age + 1 < Ttl + MaxLag =>
          [g EXCEPT !.age = @ + 1] \in [value : Value, age : 0..(Ttl + MaxLag - 1)]
    BY CacheBoundAssumption
  <2> QED  BY <2>1
<1> QED  BY <1>1, <1>2, <1>3

LEMMA CrashTypes ==
  ASSUME TypeOK, NEW n \in Node, Crash(n)
  PROVE  TypeOK'
<1> USE DEF TypeOK, setup, Crash
<1> PICK lost \in SUBSET Task : lost = {t \in Task : node[t] = n /\ pc[t] \notin {"start", "done"}}
  OBVIOUS
<1>1. /\ pc' = [t \in Task |-> IF t \in lost THEN "failed" ELSE pc[t]]
      /\ seen' = [t \in Task |-> IF t \in lost THEN Absent ELSE seen[t]]
      /\ tries' = [t \in Task |-> IF t \in lost THEN 0 ELSE tries[t]]
      /\ lock' = IF lock \in lost THEN NoTask ELSE lock
  OBVIOUS
<1>2. pc' \in [Task -> {"start", "read", "put", "rename", "refresh", "done", "failed"}]
      /\ seen' \in [Task -> Bytes \cup {Absent}]
      /\ tries' \in [Task -> 0..MaxCasRetries] /\ lock' \in Task \cup {NoTask}
  BY <1>1, RetryAssumption
<1>3. lag' \in [Task \cup Reader -> 0..MaxLag]
  BY CacheBoundAssumption
<1> QED  BY <1>2, <1>3

LEMMA NextIInv == IInv /\ [Next]_vars => IInv'
<1> SUFFICES ASSUME IInv, [Next]_vars PROVE IInv'  OBVIOUS
<1>1. CASE \E t \in Task : Change(t)  BY <1>1, ChangeStep
<1>2. ASSUME UNCHANGED <<config, kind, pc, seen, tries, stored, commits>> PROVE CountOK'
  BY <1>2 DEF IInv, CountOK, Count, ValueOf, A!MarksOf, A!None
<1>3. CASE \E r \in Reader : Read(r)
  BY <1>2, <1>3, ReadTypes DEF IInv, Read, CacheHit, Fetch, CacheStore, vars, setup, store
<1>4. CASE Tick  BY <1>2, <1>4, TickTypes DEF IInv, Tick, setup
<1>5. CASE \E n \in Node : Crash(n)
  <2> PICK n \in Node : Crash(n)  BY <1>5
  <2>1. TypeOK'  BY CrashTypes DEF IInv
  <2>2. \A t \in Task :
          \/ pc'[t] = "failed" /\ tries'[t] = 0
          \/ pc'[t] = pc[t] /\ tries'[t] = tries[t] /\ seen'[t] = seen[t]
    <3> PICK lost \in SUBSET Task : lost = {t \in Task : node[t] = n /\ pc[t] \notin {"start", "done"}}
      OBVIOUS
    <3>1. /\ pc' = [t \in Task |-> IF t \in lost THEN "failed" ELSE pc[t]]
          /\ seen' = [t \in Task |-> IF t \in lost THEN Absent ELSE seen[t]]
          /\ tries' = [t \in Task |-> IF t \in lost THEN 0 ELSE tries[t]]
      BY DEF Crash
    <3>2. ASSUME NEW t \in lost PROVE pc'[t] = "failed" /\ tries'[t] = 0
      BY <3>1
    <3>3. ASSUME NEW t \in Task \ lost
          PROVE  pc'[t] = pc[t] /\ tries'[t] = tries[t] /\ seen'[t] = seen[t]
      BY <3>1
    <3> QED  BY <3>2, <3>3
  <2>3. CountOK'
    BY <2>2, RetryAssumption DEF Crash, setup, IInv, CountOK, Count, ValueOf, A!MarksOf, A!None
  <2> QED  BY <2>1, <2>3 DEF IInv
<1>6. CASE UNCHANGED vars
  <2>1. TypeOK'  BY <1>6 DEF IInv, TypeOK, vars
  <2> QED  BY <1>2, <1>6, <2>1 DEF IInv, vars
<1> QED  BY <1>1, <1>3, <1>4, <1>5, <1>6 DEF Next

THEOREM CountsBounded == Spec => []IInv
BY InitIInv, NextIInv, PTL DEF Spec

(* control/backend.rs, store.rs: the variables stay what their types say.  *)
THEOREM TypeCorrect == Spec => []TypeOK
<1>1. IInv => TypeOK  BY DEF IInv
<1> QED  BY <1>1, CountsBounded, PTL

-----------------------------------------------------------------------------
(* The cache.                                                              *)

(* A value that was recent stays so when the document is replaced.         *)
LEMMA RecentReplace ==
  ASSUME IInv, NEW t \in Task, NEW b \in Bytes \cup {Absent}, Replace(t, b),
         NEW v, NEW a \in Nat, Recent(v, a)
  PROVE  Recent(v, a)'
<1>1. stored' = b  BY DEF Replace
<1>2. CASE ValueOf(b) = ValueOf(stored)
  BY <1>1, <1>2 DEF Replace, Recent, ValueOf
<1>3. CASE ValueOf(b) # ValueOf(stored)
  <2>1. gone' = {g \in gone : g.value # ValueOf(stored)} \cup {[value |-> ValueOf(stored), age |-> 0]}
    BY <1>3 DEF Replace
  <2>2. CASE v = ValueOf(stored)
    <3>1. [value |-> ValueOf(stored), age |-> 0] \in gone'  BY <2>1
    <3>2. \E g \in gone' : g.value = v /\ g.age <= a  BY <2>2, <3>1
    <3> QED  BY <3>2 DEF Recent
  <2>3. CASE v # ValueOf(stored)
    <3>1. PICK g \in gone : g.value = v /\ g.age <= a  BY <2>3 DEF Recent
    <3>2. g \in gone'  BY <2>1, <2>3, <3>1
    <3> QED  BY <3>1, <3>2 DEF Recent
  <2> QED  BY <2>2, <2>3
<1> QED  BY <1>2, <1>3

(* It is a tick older a tick later, unless it is too old to matter.        *)
LEMMA RecentTick ==
  ASSUME IInv, Tick, NEW v, NEW a \in Nat, Recent(v, a), a + 1 < Ttl + MaxLag
  PROVE  Recent(v, a + 1)'
<1>1. ASSUME v # ValueOf(stored)
      PROVE  \E g \in gone' : g.value = v /\ g.age <= a + 1
  <2>1. PICK g \in gone : g.value = v /\ g.age <= a  BY <1>1 DEF Recent
  <2>2. g \in [value : Value, age : 0..(Ttl + MaxLag - 1)]  BY DEF IInv, TypeOK
  <2>3. g.age \in Nat /\ g.age + 1 < Ttl + MaxLag
    BY <2>1, <2>2, CacheBoundAssumption
  <2> PICK h : h = [g EXCEPT !.age = @ + 1]  OBVIOUS
  <2>4. h \in gone'  BY <2>3 DEF Tick
  <2>5. h.value = v /\ h.age = g.age + 1  BY <2>1, <2>2
  <2>6. h.age <= a + 1  BY <2>1, <2>3, <2>5
  <2> QED  BY <2>4, <2>5, <2>6
<1>2. stored' = stored  BY DEF Tick
<1> QED  BY <1>1, <1>2 DEF Recent, ValueOf

(* RecentOK when the document is replaced: the caches do not move.         *)
LEMMA RecentCommit ==
  ASSUME IInv, RecentOK, NEW t \in Task, NEW b \in Bytes \cup {Absent}, Replace(t, b),
         UNCHANGED <<cache, got>>,
         \/ Written(t, b) \/ Conflict(t) \/ Return(t, "failed")
  PROVE  RecentOK'
<1>1. \A v, a : a \in Nat /\ Recent(v, a) => Recent(v, a)'  BY RecentReplace
<1>2. \A x \in Task \cup Reader : lag[x] \in Nat  BY CacheBoundAssumption DEF IInv, TypeOK
<1>3. \A u \in Task \ {t} : pc'[u] = pc[u] /\ seen'[u] = seen[u]  BY LoopFacts
<1>4. \A x \in Task \cup Reader : x # t => lag'[x] = lag[x]
  BY DEF Written, Conflict, Return, IInv, TypeOK
<1>5. ASSUME NEW n \in Node, Usable(n)' PROVE Recent(cache[n].value, cache[n].age + MaxLag)'
  <2>1. Usable(n) /\ cache' = cache  BY <1>5 DEF Usable
  <2>2. cache[n].age + MaxLag \in Nat  BY <2>1, CacheBoundAssumption DEF Usable, IInv, TypeOK
  <2>3. Recent(cache[n].value, cache[n].age + MaxLag)  BY <2>1 DEF RecentOK
  <2> QED  BY <1>1, <2>1, <2>2, <2>3 DEF Recent, ValueOf
<1>6. ASSUME NEW r \in Reader, Fetching(r)' PROVE Recent(got[r], lag[r])'
  <2>1. Fetching(r) /\ got' = got  BY <1>6 DEF Fetching
  <2>2. lag'[r] = lag[r]  BY <1>4, TaskAssumption
  <2>3. Recent(got[r], lag[r])  BY <2>1 DEF RecentOK
  <2> QED  BY <1>1, <1>2, <2>1, <2>2, <2>3 DEF Recent, ValueOf
<1>7. ASSUME NEW u \in Task, pc'[u] = "refresh" PROVE Recent(ValueOf(seen[u]), lag[u])'
  <2>1. CASE u = t
    <3>1. Written(t, b)  BY <1>7, <2>1 DEF Conflict, Return, Goto, IInv, TypeOK
    <3>2. seen'[t] = stored'  BY <3>1 DEF Written, Replace, IInv, TypeOK
    <3> QED  BY <2>1, <3>2 DEF Recent, ValueOf
  <2>2. CASE u # t
    <3>1. pc[u] = "refresh" /\ seen'[u] = seen[u] /\ lag'[u] = lag[u]  BY <1>3, <1>4, <1>7, <2>2
    <3> PICK v, a : v = ValueOf(seen[u]) /\ a = lag[u]  OBVIOUS
    <3>2. Recent(v, a) /\ a \in Nat  BY <1>2, <3>1 DEF RecentOK
    <3>3. Recent(v, a)'  BY <1>1, <3>2
    <3>4. v = ValueOf(seen[u])' /\ a = lag'[u]  BY <3>1 DEF ValueOf
    <3> QED  BY <3>3, <3>4 DEF Recent
  <2> QED  BY <2>1, <2>2
<1> QED  BY <1>5, <1>6, <1>7 DEF RecentOK, Recent, Usable, Fetching, ValueOf

(* RecentOK when the document stays: what is cached was about to be.       *)
LEMMA RecentKept ==
  ASSUME IInv, RecentOK, UNCHANGED <<stored, gone>>,
         \A n \in Node :
           \/ cache'[n] = cache[n] \/ ~Usable(n)'
           \/ /\ cache'[n].age = 0
              /\ \/ \E r \in Reader : Fetching(r) /\ cache'[n].value = got[r]
                 \/ \E t \in Task : pc[t] = "refresh" /\ cache'[n].value = ValueOf(seen[t]),
         \A r \in Reader : \/ got'[r] = NoEntry
                           \/ got'[r] = got[r] /\ lag'[r] = lag[r]
                           \/ got'[r] = ValueOf(stored),
         \A t \in Task : pc'[t] = "refresh" =>
           pc[t] = "refresh" /\ seen'[t] = seen[t] /\ lag'[t] = lag[t]
  PROVE  RecentOK'
<1>1. \A v, a : Recent(v, a) => Recent(v, a)'  BY DEF Recent, ValueOf
<1>2. \A x \in Task \cup Reader : lag[x] \in Nat /\ lag[x] <= MaxLag
  BY CacheBoundAssumption DEF IInv, TypeOK
<1>3. ASSUME NEW v, NEW x \in Task \cup Reader, Recent(v, lag[x]) PROVE Recent(v, MaxLag)
  <2>1. \A g \in gone : g.age \in Nat  BY CacheBoundAssumption DEF IInv, TypeOK
  <2> QED  BY <1>2, <1>3, <2>1, CacheBoundAssumption DEF Recent
<1>4. ASSUME NEW n \in Node, Usable(n)' PROVE Recent(cache[n].value, cache[n].age + MaxLag)'
  <2>1. CASE cache'[n] = cache[n]
    <3>1. Recent(cache[n].value, cache[n].age + MaxLag)
      BY <1>4, <2>1 DEF Usable, RecentOK
    <3> QED  BY <1>1, <2>1, <3>1 DEF Recent, ValueOf
  <2>2. CASE cache'[n] # cache[n]
    <3>1. cache'[n].age + MaxLag = MaxLag  BY <1>4, <2>2, CacheBoundAssumption
    <3>2. Recent(cache'[n].value, MaxLag)  BY <1>3, <1>4, <2>2 DEF RecentOK
    <3> QED  BY <1>1, <3>1, <3>2 DEF Recent, ValueOf
  <2> QED  BY <2>1, <2>2
<1>5. ASSUME NEW r \in Reader, Fetching(r)' PROVE Recent(got[r], lag[r])'
  <2>1. got'[r] # NoEntry  BY <1>5 DEF Fetching
  <2>2. CASE got'[r] = ValueOf(stored)  BY <2>2 DEF Recent, ValueOf
  <2>3. CASE got'[r] = got[r] /\ lag'[r] = lag[r]
    <3>1. Recent(got[r], lag[r])  BY <2>1, <2>3 DEF RecentOK, Fetching
    <3> QED  BY <1>1, <2>3, <3>1 DEF Recent, ValueOf
  <2> QED  BY <2>1, <2>2, <2>3
<1>6. ASSUME NEW t \in Task, pc'[t] = "refresh" PROVE Recent(ValueOf(seen[t]), lag[t])'
  <2>1. pc[t] = "refresh" /\ seen'[t] = seen[t] /\ lag'[t] = lag[t]  BY <1>6
  <2>2. Recent(ValueOf(seen[t]), lag[t])  BY <2>1 DEF RecentOK
  <2> QED  BY <1>1, <2>1, <2>2 DEF Recent, ValueOf
<1> QED  BY <1>4, <1>5, <1>6 DEF RecentOK, Recent, Usable, Fetching, ValueOf

LEMMA RecentTicked ==
  ASSUME IInv, RecentOK, Tick, 0 < Ttl
  PROVE  RecentOK'
<1>1. \A v, a : (a \in Nat /\ Recent(v, a) /\ a + 1 < Ttl + MaxLag) => Recent(v, a + 1)'
  BY RecentTick
<1>2. UNCHANGED <<stored, pc, seen, got>>  BY DEF Tick
<1>3. \A x \in Task \cup Reader : Updating(x) =>
        lag'[x] = lag[x] + 1 /\ lag[x] \in Nat /\ lag[x] + 1 <= MaxLag
  BY CacheBoundAssumption DEF IInv, TypeOK, Tick
<1>4. ASSUME NEW n \in Node, Usable(n)' PROVE Recent(cache[n].value, cache[n].age + MaxLag)'
  <2>1. Usable(n) /\ cache'[n] = [cache[n] EXCEPT !.age = @ + 1]
    <3>1. cache'[n] = IF Usable(n) THEN [cache[n] EXCEPT !.age = @ + 1] ELSE cache[n]
      BY DEF IInv, TypeOK, Tick
    <3>2. Usable(n)  BY <1>4, <3>1 DEF Usable
    <3> QED  BY <3>1, <3>2
  <2>2. cache[n] \in [value : Value, age : 0..Ttl]  BY <2>1 DEF Usable, IInv, TypeOK
  <2> PICK v, a : v = cache[n].value /\ a = cache[n].age  OBVIOUS
  <2>3. cache'[n].value = v /\ cache'[n].age = a + 1 /\ a \in Nat  BY <2>1, <2>2, CacheBoundAssumption
  <2>4. Recent(v, a + MaxLag)  BY <2>1 DEF RecentOK
  <2>5. a + MaxLag \in Nat /\ (a + MaxLag) + 1 < Ttl + MaxLag /\ (a + MaxLag) + 1 = (a + 1) + MaxLag
    BY <1>4, <2>3, CacheBoundAssumption DEF Usable
  <2>6. Recent(v, (a + MaxLag) + 1)'  BY <1>1, <2>4, <2>5
  <2> QED  BY <2>3, <2>5, <2>6 DEF Recent
<1>5. ASSUME NEW x \in Task \cup Reader, Updating(x), NEW v, Recent(v, lag[x])
      PROVE  Recent(v, lag[x])'
  <2> PICK a : a = lag[x]  OBVIOUS
  <2>1. a \in Nat /\ a + 1 < Ttl + MaxLag /\ lag'[x] = a + 1
    BY <1>3, <1>5, CacheBoundAssumption
  <2>2. Recent(v, a + 1)'  BY <1>1, <1>5, <2>1
  <2> QED  BY <2>1, <2>2 DEF Recent
<1>6. ASSUME NEW r \in Reader, Fetching(r)' PROVE Recent(got[r], lag[r])'
  <2>1. Fetching(r) /\ r \notin Task  BY <1>2, <1>6, TaskAssumption DEF Fetching
  <2>2. Updating(r)  BY <2>1 DEF Updating
  <2> PICK v : v = got[r]  OBVIOUS
  <2>3. Recent(v, lag[r])  BY <2>1 DEF RecentOK
  <2>4. Recent(v, lag[r])'  BY <1>5, <2>2, <2>3
  <2> QED  BY <1>2, <2>4
<1>7. ASSUME NEW t \in Task, pc'[t] = "refresh" PROVE Recent(ValueOf(seen[t]), lag[t])'
  <2>1. pc[t] = "refresh"  BY <1>2, <1>7
  <2>2. Updating(t)  BY <2>1 DEF Updating
  <2> PICK v : v = ValueOf(seen[t])  OBVIOUS
  <2>3. Recent(v, lag[t])  BY <2>1 DEF RecentOK
  <2>4. Recent(v, lag[t])'  BY <1>5, <2>2, <2>3
  <2>5. v = ValueOf(seen[t])'  BY <1>2 DEF ValueOf
  <2> QED  BY <2>4, <2>5
<1> QED  BY <1>4, <1>6, <1>7 DEF RecentOK, Recent, Usable, Fetching, ValueOf

(* With no time to live nothing is kept and nothing is usable.             *)
RecentInv == 0 < Ttl => RecentOK

LEMMA RecentInit == Init => RecentInv
BY DEF Init, RecentInv, RecentOK, Usable, Fetching

LEMMA RecentNext == IInv /\ RecentInv /\ [Next]_vars => RecentInv'
<1> SUFFICES ASSUME IInv, RecentOK, [Next]_vars, 0 < Ttl PROVE RecentOK'
  BY DEF RecentInv
<1>1. ASSUME NEW t \in Task, Change(t) PROVE RecentOK'
  <2>1. ASSUME pc[t] \in {"put", "rename"}, Written(t, NextBytes(t)), UNCHANGED <<setup, cache, got>>
        PROVE  RecentOK'
    BY <2>1, NextBytesOK, RecentCommit DEF Written
  <2>2. ASSUME UNCHANGED <<stored, gone, cache, got>>,
               \A r \in Reader : lag'[r] = lag[r],
               \A u \in Task \ {t} : pc'[u] = pc[u] /\ seen'[u] = seen[u] /\ lag'[u] = lag[u],
               pc'[t] # "refresh"
        PROVE  RecentOK'
    BY <2>2, RecentKept
  <2>3. ASSUME Conflict(t) \/ \E p \in {"done", "failed"} : Return(t, p)
        PROVE  /\ \A r \in Reader : lag'[r] = lag[r]
               /\ \A u \in Task \ {t} : pc'[u] = pc[u] /\ seen'[u] = seen[u] /\ lag'[u] = lag[u]
               /\ pc'[t] # "refresh"
    BY <2>3, TaskAssumption DEF Conflict, Return, Goto, IInv, TypeOK
  <2>4. ASSUME NEW p \in {"put", "rename"}, Goto(t, p), UNCHANGED lag,
               seen' = seen \/ seen' = [seen EXCEPT ![t] = stored]
        PROVE  /\ \A r \in Reader : lag'[r] = lag[r]
               /\ \A u \in Task \ {t} : pc'[u] = pc[u] /\ seen'[u] = seen[u] /\ lag'[u] = lag[u]
               /\ pc'[t] # "refresh"
    BY <2>4 DEF Goto, IInv, TypeOK
  <2>5. CASE ReadDoc(t)  BY <2>2, <2>3, <2>4, <2>5 DEF ReadDoc, store
  <2>6. CASE PutIfVersion(t)
    BY <2>1, <2>2, <2>3, <2>6 DEF PutIfVersion, kept
  <2>7. CASE PutReplyLost(t)
    BY <2>7, NextBytesOK, RecentCommit DEF PutReplyLost
  <2>8. CASE FsCompare(t)
    BY <2>2, <2>3, <2>4, <2>8 DEF FsCompare, kept
  <2>9. CASE FsRename(t)
    BY <2>1, <2>9 DEF FsRename
  <2>10. CASE Delete(t)
    BY <2>10, RecentCommit DEF Delete, Written
  <2>11. CASE Refresh(t)
    <3>1. UNCHANGED <<stored, gone, got>>  BY <2>11 DEF Refresh, store
    <3>2. \A n \in Node : cache'[n] = cache[n]
            \/ (cache'[n].age = 0 /\ cache'[n].value = ValueOf(seen[t]))
      BY <2>11 DEF Refresh, IInv, TypeOK
    <3>3. pc[t] = "refresh" /\ Return(t, "done")  BY <2>11 DEF Refresh
    <3> QED  BY <2>3, <3>1, <3>2, <3>3, RecentKept
  <2>12. CASE StoreFails(t)  BY <2>2, <2>3, <2>12 DEF StoreFails, store
  <2> QED  BY <1>1, <2>5, <2>6, <2>7, <2>8, <2>9, <2>10, <2>11, <2>12 DEF Change
<1>2. ASSUME NEW r \in Reader, Read(r) PROVE RecentOK'
  <2>1. UNCHANGED <<stored, gone, pc, seen>>
    BY <1>2 DEF Read, CacheHit, Fetch, CacheStore, vars, store
  <2>2. \A t \in Task : lag'[t] = lag[t]
    BY <1>2, TaskAssumption DEF Read, CacheHit, Fetch, CacheStore, vars, IInv, TypeOK
  <2>3. \A n \in Node : \/ cache'[n] = cache[n]
                        \/ cache'[n].age = 0 /\ Fetching(r) /\ cache'[n].value = got[r]
    BY <1>2 DEF Read, CacheHit, Fetch, CacheStore, vars, IInv, TypeOK
  <2>4. \A s \in Reader : \/ got'[s] = NoEntry
                          \/ got'[s] = got[s] /\ lag'[s] = lag[s]
                          \/ got'[s] = ValueOf(stored)
    BY <1>2 DEF Read, CacheHit, Fetch, CacheStore, vars, IInv, TypeOK
  <2> QED  BY <2>1, <2>2, <2>3, <2>4, RecentKept
<1>3. ASSUME NEW n \in Node, Crash(n) PROVE RecentOK'
  <2>1. UNCHANGED <<stored, gone>>  BY <1>3 DEF Crash
  <2>2. \A m \in Node : cache'[m] = cache[m] \/ ~Usable(m)'
    BY <1>3 DEF Crash, Usable, IInv, TypeOK
  <2>3. \A r \in Reader :
          got'[r] = NoEntry \/ (got'[r] = got[r] /\ lag'[r] = lag[r])
    BY <1>3 DEF Crash
  <2>4. \A t \in Task : pc'[t] = "refresh" =>
          pc[t] = "refresh" /\ seen'[t] = seen[t] /\ lag'[t] = lag[t]
    <3> PICK lost \in SUBSET Task : lost = {t \in Task : node[t] = n /\ pc[t] \notin {"start", "done"}}
      OBVIOUS
    <3>1. /\ pc' = [t \in Task |-> IF t \in lost THEN "failed" ELSE pc[t]]
          /\ seen' = [t \in Task |-> IF t \in lost THEN Absent ELSE seen[t]]
          /\ lag' = [x \in Task \cup Reader |-> IF node[x] = n THEN 0 ELSE lag[x]]
      BY <1>3 DEF Crash
    <3>2. \A t \in lost : pc'[t] = "failed"  BY <3>1
    <3> SUFFICES ASSUME NEW t \in Task, pc'[t] = "refresh"
                 PROVE  pc[t] = "refresh" /\ seen'[t] = seen[t] /\ lag'[t] = lag[t]
      OBVIOUS
    <3>3. t \notin lost  BY <3>2
    <3>4. pc[t] = "refresh" /\ seen'[t] = seen[t]  BY <3>1, <3>3
    <3>5. node[t] # n  BY <3>3, <3>4
    <3> QED  BY <3>1, <3>4, <3>5
  <2> QED  BY <2>1, <2>2, <2>3, <2>4, RecentKept
<1>4. CASE UNCHANGED vars
  BY <1>4, RecentKept DEF vars
<1> QED  BY <1>1, <1>2, <1>3, <1>4, RecentTicked DEF Next

(* No value a node may still serve was replaced more than Ttl + MaxLag     *)
(* ticks ago, whatever fills, refreshes and commits have raced.            *)
THEOREM StalenessBounded == Spec => []BoundedStaleness
<1>1. IInv /\ RecentInv => BoundedStaleness
  <2>1. IInv /\ Ttl = 0 => \A n \in Node : ~Usable(n)  BY DEF Usable, IInv, TypeOK
  <2>2. Ttl = 0 \/ 0 < Ttl  BY CacheBoundAssumption
  <2> QED  BY <2>1, <2>2 DEF RecentInv, RecentOK, Recent, BoundedStaleness
<1> QED  BY <1>1, CountsBounded, RecentInit, RecentNext, PTL DEF Spec

-----------------------------------------------------------------------------
(* The refinement.                                                         *)

LEMMA StageInit == Init => StageOK
BY DEF Init, StageOK

(* A call moves and the document stays: the stages of the others do.       *)
LEMMA StageKept ==
  ASSUME StageOK, NEW t, UNCHANGED <<stored, config, kind>>,
         \A u \in Task \ {t} :
           \/ pc'[u] \notin {"put", "rename"}
           \/ /\ pc'[u] = pc[u] /\ seen'[u] = seen[u]
              /\ lock = u => lock' = u,
         t \in Task =>
           /\ pc'[t] \in {"put", "rename"} => A!Accepts(kind[t], t, ValueOf(seen'[t]))
           /\ pc'[t] = "rename" => lock' = t /\ config.store = "fs" /\ stored = seen'[t]
  PROVE  StageOK'
BY DEF StageOK, A!Accepts, A!MarksOf, A!None, ValueOf

LEMMA StageNext ==
  ASSUME ~DeleteRaces, IInv, StageOK, [Next]_vars
  PROVE  StageOK'
<1>1. ASSUME NEW t \in Task, Change(t) PROVE StageOK'
  <2>1. ASSUME Conflict(t) \/ (\E p \in {"done", "failed"} : Return(t, p))
                 \/ (\E b \in Bytes \cup {Absent} : Written(t, b))
        PROVE  /\ pc'[t] \notin {"put", "rename"}
               /\ \A u \in Task \ {t} : pc'[u] = pc[u] /\ seen'[u] = seen[u]
    BY <2>1, LoopFacts
  <2>2. ASSUME UNCHANGED <<stored, config, kind, lock>>,
               Conflict(t) \/ \E p \in {"done", "failed"} : Return(t, p)
        PROVE  StageOK'
    BY <2>1, <2>2, StageKept
  <2>3. ASSUME UNCHANGED <<config, kind>>,
               Conflict(t) \/ (\E p \in {"done", "failed"} : Return(t, p))
                 \/ (\E b \in Bytes \cup {Absent} : Written(t, b)),
               \A u \in Task \ {t} : pc[u] # "rename"
        PROVE  StageOK'
    <3>1. \A u \in Task : pc'[u] # "rename"  BY <2>1, <2>3
    <3>2. \A u \in Task : pc'[u] = "put" =>
            pc[u] = "put" /\ seen'[u] = seen[u]
      BY <2>1, <2>3
    <3> QED  BY <2>3, <3>1, <3>2 DEF StageOK, A!Accepts, A!MarksOf, A!None, ValueOf
  <2>4. CASE ReadDoc(t)
    <3>1. UNCHANGED <<stored, config, kind, lock>>  BY <2>4 DEF ReadDoc, setup, store
    <3>2. CASE Return(t, "failed")  BY <2>2, <3>1, <3>2
    <3>3. CASE ~Return(t, "failed")
      <4>1. A!Accepts(kind[t], t, ValueOf(stored)) /\ seen' = [seen EXCEPT ![t] = stored] /\ Goto(t, "put")
        BY <2>4, <3>3 DEF ReadDoc
      <4>2. /\ pc'[t] = "put" /\ seen'[t] = stored
            /\ \A u \in Task \ {t} : pc'[u] = pc[u] /\ seen'[u] = seen[u]
        BY <4>1 DEF Goto, IInv, TypeOK
      <4> QED  BY <3>1, <4>1, <4>2, StageKept
    <3> QED  BY <3>2, <3>3
  <2>5. ASSUME config.store = "s3" PROVE \A u \in Task : pc[u] # "rename"
    BY <2>5 DEF StageOK
  <2>6. config.flaky => config.store = "s3"  BY ConfigAssumption DEF IInv, TypeOK
  <2>7. CASE PutIfVersion(t)
    <3>1. UNCHANGED <<config, kind, lock>> /\ \A u \in Task : pc[u] # "rename"
      BY <2>5, <2>7 DEF PutIfVersion, setup
    <3>2. Conflict(t) \/ Written(t, NextBytes(t))  BY <2>7 DEF PutIfVersion
    <3>3. NextBytes(t) \in Bytes  BY <2>7, NextBytesOK DEF PutIfVersion
    <3> QED  BY <2>3, <3>1, <3>2, <3>3
  <2>8. CASE PutReplyLost(t)
    <3>1. UNCHANGED <<config, kind, lock>> /\ \A u \in Task : pc[u] # "rename"
      BY <2>5, <2>6, <2>8 DEF PutReplyLost, setup
    <3> QED  BY <2>3, <2>8, <3>1 DEF PutReplyLost
  <2>9. CASE FsCompare(t)
    <3>1. UNCHANGED <<stored, config, kind>>  BY <2>9 DEF FsCompare, setup, kept
    <3>2. CASE Conflict(t) /\ UNCHANGED lock  BY <2>2, <3>1, <3>2
    <3>3. CASE stored = seen[t] /\ lock' = t /\ Goto(t, "rename") /\ UNCHANGED seen
      <4>1. pc[t] = "put" /\ config.store = "fs" /\ lock = NoTask  BY <2>9 DEF FsCompare
      <4>2. pc'[t] = "rename" /\ \A u \in Task \ {t} : pc'[u] = pc[u]
        BY <3>3 DEF Goto, IInv, TypeOK
      <4>3. A!Accepts(kind[t], t, ValueOf(seen'[t]))  BY <3>3, <4>1 DEF StageOK
      <4>4. \A u \in Task : lock # u  BY <4>1, TaskAssumption
      <4> QED  BY <3>1, <3>3, <4>1, <4>2, <4>3, <4>4, StageKept
    <3> QED  BY <2>9, <3>2, <3>3 DEF FsCompare
  <2>10. CASE FsRename(t)
    <3>1. pc[t] = "rename" /\ \A u \in Task \ {t} : pc[u] # "rename"
      BY <2>10 DEF FsRename, StageOK
    <3>2. NextBytes(t) \in Bytes  BY <3>1, NextBytesOK
    <3> QED  BY <2>3, <2>10, <3>1, <3>2 DEF FsRename, setup
  <2>11. CASE Delete(t)
    <3>1. lock = NoTask  BY <2>11 DEF Delete
    <3>2. \A u \in Task : pc[u] # "rename"  BY <3>1, TaskAssumption DEF StageOK
    <3> QED  BY <2>3, <2>11, <3>2 DEF Delete, setup
  <2>12. CASE Refresh(t)  BY <2>2, <2>12 DEF Refresh, setup, store
  <2>13. CASE StoreFails(t)  BY <2>2, <2>13 DEF StoreFails, setup, store
  <2> QED  BY <1>1, <2>4, <2>7, <2>8, <2>9, <2>10, <2>11, <2>12, <2>13 DEF Change
<1>2. CASE UNCHANGED vars \/ Tick \/ \E r \in Reader : Read(r)
  <2>1. UNCHANGED <<stored, config, kind, pc, seen, lock>>
    BY <1>2 DEF vars, Tick, Read, CacheHit, Fetch, CacheStore, setup, store
  <2> QED  BY <2>1 DEF StageOK, A!Accepts, A!MarksOf, A!None, ValueOf
<1>3. ASSUME NEW n \in Node, Crash(n) PROVE StageOK'
  <2> PICK lost \in SUBSET Task : lost = {t \in Task : node[t] = n /\ pc[t] \notin {"start", "done"}}
    OBVIOUS
  <2>1. /\ pc' = [t \in Task |-> IF t \in lost THEN "failed" ELSE pc[t]]
        /\ seen' = [t \in Task |-> IF t \in lost THEN Absent ELSE seen[t]]
        /\ lock' = IF lock \in lost THEN NoTask ELSE lock
        /\ UNCHANGED <<stored, config, kind>>
    BY <1>3 DEF Crash, setup
  <2>2. ASSUME NEW u \in Task, pc'[u] \in {"put", "rename"}
        PROVE  pc'[u] = pc[u] /\ seen'[u] = seen[u] /\ (lock = u => lock' = u)
    <3>1. u \notin lost  BY <2>1, <2>2
    <3> QED  BY <2>1, <3>1
  <2> QED  BY <2>1, <2>2 DEF StageOK, A!Accepts, A!MarksOf, A!None, ValueOf
<1> QED  BY <1>1, <1>2, <1>3 DEF Next

(* The abstract value is what is stored; the tasks answered are those that *)
(* have ended well.                                                        *)
Answered == {t \in Task : pc[t] = "done"}

LEMMA RefinesInit == Init => A!Init
<1> SUFFICES ASSUME Init PROVE A!Init  OBVIOUS
<1>1. ValueOf(stored) \in {Absent, A!None}  BY NoneType DEF Init, ValueOf
<1>2. kind \in [Task -> A!Kind] /\ commits = [t \in Task |-> 0]  BY DEF Init
<1>3. Answered = {}  BY DEF Init, Answered
<1> QED  BY <1>1, <1>2, <1>3 DEF A!Init, ValueOf, Answered

(* The change of t, which was not answered before and is not yet.          *)
LEMMA CommitRefines ==
  ASSUME IInv, NEW t \in Task, NEW b \in Bytes \cup {Absent}, Replace(t, b),
         pc[t] \in {"start", "put", "rename"}, UNCHANGED <<config, kind>>,
         A!Accepts(kind[t], t, ValueOf(stored)),
         ValueOf(b) = A!Effect(kind[t], t, ValueOf(stored)),
         \/ Written(t, b)
         \/ config.flaky /\ (Conflict(t) \/ Return(t, "failed"))
  PROVE  A!Next(config.flaky)
<1>1. Answered' = Answered
  <2>1. pc'[t] # "done" /\ \A u \in Task \ {t} : pc'[u] = pc[u]
    BY DEF Written, Conflict, Return, Goto, IInv, TypeOK
  <2> QED  BY <2>1 DEF Answered
<1>2. t \notin Answered  BY DEF Answered
<1>3. commits[t] = 0 \/ config.flaky  BY DEF IInv, CountOK
<1>4. stored' = b /\ commits' = [commits EXCEPT ![t] = @ + 1]  BY DEF Replace
<1>5. ValueOf(stored)' = A!Effect(kind[t], t, ValueOf(stored))  BY <1>4 DEF ValueOf
<1>6. A!Commit(t, config.flaky)
  BY <1>1, <1>2, <1>3, <1>4, <1>5 DEF A!Commit, Answered, ValueOf
<1> QED  BY <1>6 DEF A!Next

(* Every other step leaves the abstract state as it is.                    *)
LEMMA QuietRefines ==
  ASSUME UNCHANGED <<stored, kind, commits>>, \A t \in Task : pc'[t] = "done" <=> pc[t] = "done"
  PROVE  UNCHANGED A!vars
<1>1. Answered' = Answered  BY DEF Answered
<1> QED  BY <1>1 DEF A!vars, Answered

LEMMA RefinesNext ==
  ASSUME IInv, StageOK, ~DeleteRaces, [Next]_vars
  PROVE  [A!Next(config.flaky)]_(A!vars)
<1>1. ASSUME NEW t \in Task, Change(t) PROVE A!Next(config.flaky) \/ UNCHANGED A!vars
  <2>1. ASSUME UNCHANGED <<stored, kind, commits>>, pc[t] # "done",
               \/ \E p \in {"put", "rename"} : Goto(t, p)
               \/ Conflict(t) \/ Return(t, "failed")
        PROVE  UNCHANGED A!vars
    <3>1. pc'[t] # "done" /\ \A u \in Task \ {t} : pc'[u] = pc[u]
      BY <2>1 DEF Conflict, Return, Goto, IInv, TypeOK
    <3> QED  BY <2>1, <3>1, QuietRefines
  <2>2. ASSUME pc[t] \in {"put", "rename"}, stored = seen[t]
        PROVE  /\ NextBytes(t) \in Bytes
               /\ A!Accepts(kind[t], t, ValueOf(stored))
               /\ ValueOf(NextBytes(t)) = A!Effect(kind[t], t, ValueOf(stored))
    BY <2>2, NextBytesOK, BytesType DEF StageOK
  <2>3. CASE ReadDoc(t)  BY <2>1, <2>3 DEF ReadDoc, setup, store
  <2>4. CASE PutIfVersion(t)
    <3>1. CASE stored = seen[t] /\ Written(t, NextBytes(t))
      BY <2>2, <2>4, <3>1, CommitRefines DEF PutIfVersion, Written, setup
    <3>2. CASE Conflict(t) /\ UNCHANGED kept
      BY <2>1, <2>4, <3>2 DEF PutIfVersion, setup, kept
    <3> QED  BY <2>4, <3>1, <3>2 DEF PutIfVersion
  <2>5. CASE PutReplyLost(t)
    BY <2>2, <2>5, CommitRefines DEF PutReplyLost, setup
  <2>6. CASE FsCompare(t)  BY <2>1, <2>6 DEF FsCompare, setup, kept
  <2>7. CASE FsRename(t)
    <3>1. pc[t] = "rename" /\ stored = seen[t]  BY <2>7 DEF FsRename, StageOK
    <3> QED  BY <2>2, <2>7, <3>1, CommitRefines DEF FsRename, Written, setup
  <2>8. CASE Delete(t)
    <3>1. A!Accepts(kind[t], t, ValueOf(stored)) /\ ValueOf(Absent) = A!Effect(kind[t], t, ValueOf(stored))
      BY <2>8 DEF Delete, A!Accepts, A!Effect, ValueOf
    <3> QED  BY <2>8, <3>1, CommitRefines DEF Delete, Written, setup
  <2>9. CASE Refresh(t)
    <3>1. commits[t] > 0  BY <2>9 DEF Refresh, IInv, CountOK
    <3>2. Answered' = Answered \cup {t}
      BY <2>9 DEF Refresh, Return, Goto, Answered, IInv, TypeOK
    <3>3. A!Answer(t)
      BY <2>9, <3>1, <3>2 DEF Refresh, A!Answer, Answered, setup, store
    <3> QED  BY <3>3 DEF A!Next
  <2>10. CASE StoreFails(t)  BY <2>1, <2>10 DEF StoreFails, setup, store
  <2> QED  BY <1>1, <2>3, <2>4, <2>5, <2>6, <2>7, <2>8, <2>9, <2>10 DEF Change
<1>2. CASE UNCHANGED vars \/ Tick \/ \E r \in Reader : Read(r)
  <2>1. UNCHANGED <<stored, kind, commits, pc>>
    BY <1>2 DEF vars, Tick, Read, CacheHit, Fetch, CacheStore, setup, store
  <2> QED  BY <2>1, QuietRefines
<1>3. ASSUME NEW n \in Node, Crash(n) PROVE UNCHANGED A!vars
  <2> PICK lost \in SUBSET Task : lost = {t \in Task : node[t] = n /\ pc[t] \notin {"start", "done"}}
    OBVIOUS
  <2>1. pc' = [t \in Task |-> IF t \in lost THEN "failed" ELSE pc[t]]
        /\ UNCHANGED <<stored, kind, commits>>
    BY <1>3 DEF Crash, setup
  <2>2. \A t \in Task : pc'[t] = "done" <=> pc[t] = "done"
    <3> SUFFICES ASSUME NEW t \in Task PROVE pc'[t] = "done" <=> pc[t] = "done"  OBVIOUS
    <3>1. CASE t \in lost  BY <2>1, <3>1
    <3>2. CASE t \notin lost  BY <2>1, <3>2
    <3> QED  BY <3>1, <3>2
  <2> QED  BY <2>1, <2>2, QuietRefines
<1> QED  BY <1>1, <1>2, <1>3 DEF Next

(* Whatever tasks race, retry, fail or die, the document changes as if     *)
(* each call were one step on the value as it stands, made once unless the *)
(* store loses an answer; no file is deleted while another is renamed.     *)
THEOREM ImplementsAtomicDoc == ~DeleteRaces => (Spec => IsAtomicDoc)
<1> SUFFICES ASSUME ~DeleteRaces PROVE Spec => IsAtomicDoc  OBVIOUS
<1>1. IInv /\ StageOK /\ [Next]_vars => StageOK'  BY StageNext
<1>2. IInv /\ StageOK /\ [Next]_vars => [A!Next(config.flaky)]_(A!vars)  BY RefinesNext
<1> QED
  BY <1>1, <1>2, RefinesInit, StageInit, CountsBounded, PTL DEF Spec, IsAtomicDoc
=============================================================================
