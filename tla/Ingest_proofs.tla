----------------------------- MODULE Ingest_proofs -----------------------------
(***************************************************************************)
(* Ingestion for every number of rows and requests, every partitioning,    *)
(* queue capacity, row threshold and number of slots; for every token,     *)
(* policy and environment, whatever admins change; for every body, whose   *)
(* decoding is not looked into.                                            *)
(*                                                                         *)
(* The first part is the writer's.  Rows only move from place to place:    *)
(* Apart says that the places do not overlap, FlushesOK the same of the    *)
(* batches in flight, and WriterOK what the writer's position says of the  *)
(* places before it.  The second part is the handlers', in front of it.    *)
(* The third is the syslog listener's framing: what a connection keeps of  *)
(* a stream that is framed as RFC 6587 says begins where a frame ends.     *)
(***************************************************************************)
EXTENDS Ingest, FiniteSetTheorems, SequenceTheorems, TLAPS

Apart ==
  /\ queue \cap staging = {}
  /\ batch \cap (queue \cup staging) = {}
  /\ (UNION flushing) \cap (queue \cup staging \cup batch) = {}
  /\ stored \cap InMemory = {}
  /\ failed \cap (stored \cup InMemory) = {}
  /\ shed \cap Accepted = {}

FlushesOK == \A f, g \in flushing : f # g => f \cap g = {}

WriterOK ==
  /\ wpc \in {"drain", "wait", "slot", "lastSlot", "closed", "exited"}
  /\ batch = {} <=> wpc \notin {"slot", "lastSlot"}
  /\ wpc \in {"lastSlot", "closed", "exited"} => ~open /\ queue = {} /\ staging = {}
  /\ wpc = "exited" => flushing = {}

MovesOK == Apart /\ FlushesOK /\ WriterOK

-----------------------------------------------------------------------------
(* What the rows of one partition leave of a batch in flight.              *)
LEMMA RestUnion ==
  ASSUME FlushesOK, NEW f \in flushing, NEW rows \in SUBSET f
  PROVE  UNION Rest(f, rows) = (UNION flushing) \ rows
<1>1. ASSUME NEW r \in UNION Rest(f, rows) PROVE r \in (UNION flushing) \ rows
  <2>1. PICK e \in Rest(f, rows) : r \in e  BY <1>1
  <2>2. CASE e \in flushing \ {f}
    <3>1. e \cap f = {}  BY <2>2 DEF FlushesOK
    <3> QED  BY <3>1, <2>1, <2>2
  <2>3. CASE e = f \ rows  BY <2>1, <2>3
  <2> QED  BY <2>1, <2>2, <2>3 DEF Rest
<1>2. ASSUME NEW r \in UNION flushing, r \notin rows PROVE r \in UNION Rest(f, rows)
  <2>1. PICK g \in flushing : r \in g  BY <1>2
  <2>2. CASE g = f
    <3>1. f \ rows \in Rest(f, rows)  BY <2>1, <2>2, <1>2 DEF Rest
    <3> QED  BY <3>1, <2>1, <2>2, <1>2
  <2>3. CASE g # f  BY <2>1, <2>3 DEF Rest
  <2> QED  BY <2>2, <2>3
<1>3. UNION Rest(f, rows) \subseteq (UNION flushing) \ rows  BY <1>1
<1>4. (UNION flushing) \ rows \subseteq UNION Rest(f, rows)  BY <1>2
<1> QED  BY <1>3, <1>4

(* A row enters the channel.                                               *)
LEMMA EnqueueMoves ==
  ASSUME MovesOK, NEW r, open, Fresh(r), queue' = queue \cup {r},
         UNCHANGED <<open, shed, writer, flushes>>
  PROVE  MovesOK' /\ Accepted' = Accepted \cup {r}
<1> USE DEF MovesOK, writer, flushes
<1>1. Apart'  BY DEF Apart, Fresh, Accepted, InMemory
<1>2. FlushesOK' /\ WriterOK'  BY DEF FlushesOK, WriterOK
<1>3. Accepted' = Accepted \cup {r}  BY DEF Accepted, InMemory
<1> QED  BY <1>1, <1>2, <1>3

(* A submission: the row is taken in, or refused and counted as such.      *)
LEMMA SubmitMoves ==
  ASSUME MovesOK, NEW r, Submit(r) \/ SubmitBlocking(r)
  PROVE  /\ MovesOK' /\ Fresh(r)
         /\ Room => Accepted' = Accepted \cup {r} /\ UNCHANGED shed
         /\ ~Room => shed' = shed \cup {r} /\ Accepted' = Accepted
<1>1. CASE Room /\ queue' = queue \cup {r} /\ UNCHANGED shed
  BY <1>1, EnqueueMoves DEF Submit, SubmitBlocking
<1>2. CASE Submit(r) /\ ~Room /\ shed' = shed \cup {r} /\ UNCHANGED queue
  <2> USE <1>2 DEF Submit, MovesOK, writer, flushes
  <2>1. Apart'  BY DEF Apart, Fresh, Accepted, InMemory
  <2>2. FlushesOK' /\ WriterOK'  BY DEF FlushesOK, WriterOK
  <2>3. Accepted' = Accepted  BY DEF Accepted, InMemory
  <2> QED  BY <2>1, <2>2, <2>3
<1> QED  BY <1>1, <1>2 DEF Submit, SubmitBlocking

(* Closing the channel and the passing of time move no row.                *)
LEMMA QuietMoves ==
  ASSUME MovesOK, DropSenders \/ Tick \/ UNCHANGED vars
  PROVE  MovesOK' /\ Accepted' = Accepted /\ UNCHANGED shed
<1> USE DEF DropSenders, Tick, vars, channel, writer, flushes, MovesOK
<1>1. Apart'  BY DEF Apart, Accepted, InMemory
<1>2. FlushesOK' /\ WriterOK'  BY DEF FlushesOK, WriterOK
<1>3. Accepted' = Accepted  BY DEF Accepted, InMemory
<1> QED  BY <1>1, <1>2, <1>3

(* A row received in the inner loop may complete a batch.                  *)
LEMMA DrainRowMoves ==
  ASSUME MovesOK, DrainRow
  PROVE  MovesOK' /\ Accepted' = Accepted /\ UNCHANGED shed
<1>1. PICK r \in queue :
        /\ queue' = queue \ {r}
        /\ \/ SpawnFlush("drain", "slot", staging \cup {r})
           \/ staging' = staging \cup {r} /\ UNCHANGED <<wpc, batch>>
  BY DEF DrainRow
<1> USE <1>1 DEF DrainRow, SpawnFlush, flushes, MovesOK
<1>2. Apart'  BY DEF Apart, WriterOK, Accepted, InMemory
<1>3. FlushesOK' /\ WriterOK'  BY DEF FlushesOK, WriterOK
<1>4. Accepted' = Accepted  BY DEF WriterOK, Accepted, InMemory
<1> QED  BY <1>2, <1>3, <1>4

(* A row received while idle is only staged.                               *)
LEMMA WaitRowMoves ==
  ASSUME MovesOK, WaitRow
  PROVE  MovesOK' /\ Accepted' = Accepted /\ UNCHANGED shed
<1>1. PICK r \in queue : Receive(r)  BY DEF WaitRow
<1> USE <1>1 DEF WaitRow, Receive, flushes, MovesOK
<1>2. Apart'  BY DEF Apart, Accepted, InMemory
<1>3. FlushesOK' /\ WriterOK'  BY DEF FlushesOK, WriterOK
<1>4. Accepted' = Accepted  BY DEF Accepted, InMemory
<1> QED  BY <1>2, <1>3, <1>4

(* The ends of a pass: what is staged may become a batch, nothing more.    *)
LEMMA PassMoves ==
  ASSUME MovesOK, DrainEnds \/ WaitTimeout \/ WaitClosed \/ Exit
  PROVE  MovesOK' /\ Accepted' = Accepted /\ UNCHANGED shed
<1> USE DEF DrainEnds, WaitTimeout, WaitClosed, Exit, SpawnFlush, channel, flushes, MovesOK
<1>1. Apart'  BY DEF Apart, WriterOK, Accepted, InMemory
<1>2. FlushesOK'  BY DEF FlushesOK
<1>3. WriterOK'  BY DEF WriterOK
<1>4. Accepted' = Accepted  BY DEF WriterOK, Accepted, InMemory
<1> QED  BY <1>1, <1>2, <1>3, <1>4

(* The batch joins those in flight.                                        *)
LEMMA TakeSlotMoves ==
  ASSUME MovesOK, TakeSlot
  PROVE  MovesOK' /\ Accepted' = Accepted /\ UNCHANGED shed
<1> USE DEF TakeSlot, channel, MovesOK
<1>1. (UNION flushing') = (UNION flushing) \cup batch  OBVIOUS
<1>2. Apart'  BY <1>1 DEF Apart, Accepted, InMemory
<1>3. FlushesOK'
  <2>1. \A f \in flushing : f \cap batch = {}  BY DEF Apart
  <2> QED  BY <2>1 DEF FlushesOK
<1>4. WriterOK'  BY DEF WriterOK
<1>5. Accepted' = Accepted  BY <1>1 DEF Accepted, InMemory
<1> QED  BY <1>2, <1>3, <1>4, <1>5

(* Rows leave a batch in flight: stored or failed.                         *)
LEMMA LeaveMoves ==
  ASSUME MovesOK, NEW f \in flushing, NEW rows \in SUBSET f,
         flushing' = Rest(f, rows),
         \/ stored' = stored \cup rows /\ UNCHANGED failed
         \/ failed' = failed \cup rows /\ UNCHANGED stored,
         UNCHANGED <<channel, writer>>
  PROVE  MovesOK' /\ Accepted' = Accepted /\ UNCHANGED shed
<1> USE DEF channel, writer, MovesOK
<1>1. (UNION flushing') = (UNION flushing) \ rows  BY RestUnion
<1>2. rows \subseteq UNION flushing  OBVIOUS
<1>3. Apart'  BY <1>1, <1>2 DEF Apart, Accepted, InMemory
<1>4. FlushesOK'  BY DEF FlushesOK, Rest
<1>5. WriterOK'
  <2>1. flushing = {} => flushing' = {}  OBVIOUS
  <2> QED  BY <2>1 DEF WriterOK
<1>6. Accepted' = Accepted  BY <1>1, <1>2 DEF Accepted, InMemory
<1> QED  BY <1>3, <1>4, <1>5, <1>6

(* A flush task appends a partition, fails to, or panics: rows leave.      *)
LEMMA FlushLeaves ==
  ASSUME NEW f \in flushing, FlushPanics(f) \/ \E k \in Partition : FlushPartition(f, k)
  PROVE  \E rows \in SUBSET f :
           /\ flushing' = Rest(f, rows)
           /\ \/ stored' = stored \cup rows /\ UNCHANGED failed
              \/ failed' = failed \cup rows /\ UNCHANGED stored
           /\ UNCHANGED <<channel, writer>>
<1>1. CASE FlushPanics(f)
  <2>1. flushing' = Rest(f, f)  BY <1>1 DEF FlushPanics, Rest
  <2> QED  BY <2>1, <1>1 DEF FlushPanics
<1>2. ASSUME NEW k \in Partition, FlushPartition(f, k)
      PROVE  \E rows \in SUBSET f :
               /\ flushing' = Rest(f, rows)
               /\ \/ stored' = stored \cup rows /\ UNCHANGED failed
                  \/ failed' = failed \cup rows /\ UNCHANGED stored
               /\ UNCHANGED <<channel, writer>>
  <2> DEFINE leave == {r \in f : PartOf[r] = k}
  <2>1. leave \in SUBSET f  OBVIOUS
  <2>2. /\ flushing' = Rest(f, leave)
        /\ \/ stored' = stored \cup leave /\ UNCHANGED failed
           \/ failed' = failed \cup leave /\ UNCHANGED stored
        /\ UNCHANGED <<channel, writer>>
    BY <1>2 DEF FlushPartition
  <2> HIDE DEF leave
  <2> QED  BY <2>1, <2>2
<1> QED  BY <1>1, <1>2

(* Every step of the writer moves rows from place to place and forgets     *)
(* none.                                                                   *)
LEMMA WriterMoves ==
  ASSUME MovesOK, WriterStep \/ UNCHANGED vars
  PROVE  MovesOK' /\ Accepted' = Accepted /\ UNCHANGED shed
<1>1. CASE DropSenders \/ Tick \/ UNCHANGED vars  BY <1>1, QuietMoves
<1>2. CASE Write
  BY <1>2, DrainRowMoves, WaitRowMoves, PassMoves, TakeSlotMoves DEF Write
<1>3. CASE FlushStep \/ \E f \in flushing : FlushPanics(f)
  BY <1>3, FlushLeaves, LeaveMoves, Zenon DEF FlushStep
<1> QED  BY <1>1, <1>2, <1>3 DEF WriterStep

-----------------------------------------------------------------------------
(***************************************************************************)
(* The writer by itself, fed with the rows of Row: its types and limits.   *)
(***************************************************************************)
Finite == IsFiniteSet(queue) /\ IsFiniteSet(flushing)

IInv == TypeOK /\ Finite /\ MovesOK

(* No more batches are in flight after a partition is flushed.             *)
LEMMA RestSize ==
  ASSUME IsFiniteSet(flushing), NEW f \in flushing, NEW rows
  PROVE  /\ IsFiniteSet(Rest(f, rows))
         /\ Cardinality(Rest(f, rows)) <= Cardinality(flushing)
<1> DEFINE others == flushing \ {f}
<1>1. /\ IsFiniteSet(others)
      /\ Cardinality(others) = Cardinality(flushing) - 1
  BY FS_RemoveElement
<1>2. Cardinality(flushing) \in Nat /\ Cardinality(others) \in Nat
  BY <1>1, FS_CardinalityType
<1>3. CASE f \ rows = {}
  <2>1. Rest(f, rows) = others  BY <1>3 DEF Rest
  <2> QED  BY <2>1, <1>1, <1>2
<1>4. CASE f \ rows # {}
  <2>1. Rest(f, rows) = others \cup {f \ rows}  BY <1>4 DEF Rest
  <2>2. /\ IsFiniteSet(others \cup {f \ rows})
        /\ \/ Cardinality(others \cup {f \ rows}) = Cardinality(others)
           \/ Cardinality(others \cup {f \ rows}) = Cardinality(others) + 1
    BY <1>1, FS_AddElement
  <2> QED  BY <2>1, <2>2, <1>1, <1>2
<1> QED  BY <1>3, <1>4
-----------------------------------------------------------------------------
(* The channel shrinks by one row.                                         *)
LEMMA DequeueSize ==
  ASSUME TypeOK, Finite, NEW r \in queue
  PROVE  /\ IsFiniteSet(queue \ {r})
         /\ Cardinality(queue \ {r}) <= QueueCap
<1>1. Cardinality(queue) \in Nat /\ Cardinality(queue) <= QueueCap
  BY FS_CardinalityType DEF Finite, TypeOK
<1>2. /\ IsFiniteSet(queue \ {r})
      /\ Cardinality(queue \ {r}) = Cardinality(queue) - 1
  BY FS_RemoveElement, Zenon DEF Finite
<1> QED  BY <1>1, <1>2, LimitsAssumption

(* Everything starts empty.                                                *)
LEMMA InitMoves == Init => MovesOK
BY DEF Init, MovesOK, Apart, FlushesOK, WriterOK, InMemory, Accepted

LEMMA InitIInv == Init => IInv
<1> SUFFICES ASSUME Init PROVE IInv  OBVIOUS
<1> USE DEF Init
<1>1. IsFiniteSet({}) /\ Cardinality({}) = 0  BY FS_EmptySet
<1>2. 0 <= QueueCap /\ 0 <= Slots  BY LimitsAssumption
<1>3. TypeOK /\ Finite  BY <1>1, <1>2 DEF TypeOK, Finite
<1> QED  BY <1>3, InitMoves DEF IInv

(* A row fits into the channel, or is refused.                             *)
LEMMA SubmitType ==
  ASSUME IInv, NEW r \in Row, Submit(r) \/ SubmitBlocking(r)
  PROVE  TypeOK' /\ Finite'
<1> USE DEF IInv, writer, flushes
<1>1. CASE Room /\ queue' = queue \cup {r} /\ UNCHANGED <<open, shed, writer, flushes>>
  <2>1. Cardinality(queue) \in Nat /\ Cardinality(queue) < QueueCap
    BY <1>1, FS_CardinalityType DEF Finite, Room
  <2>2. /\ IsFiniteSet(queue \cup {r})
        /\ Cardinality(queue \cup {r}) \in {Cardinality(queue), Cardinality(queue) + 1}
    BY FS_AddElement, Zenon DEF Finite
  <2>3. Cardinality(queue \cup {r}) <= QueueCap  BY <2>1, <2>2, LimitsAssumption
  <2> QED  BY <1>1, <2>2, <2>3 DEF TypeOK, Finite
<1>2. CASE Submit(r) /\ ~Room /\ shed' = shed \cup {r} /\ UNCHANGED queue
  BY <1>2 DEF Submit, TypeOK, Finite
<1> QED  BY <1>1, <1>2 DEF Submit, SubmitBlocking

(* The writer's own steps.                                                 *)
LEMMA DrainType ==
  ASSUME IInv, DrainRow \/ WaitRow
  PROVE  TypeOK' /\ Finite'
<1>1. PICK r \in queue :
        /\ queue' = queue \ {r}
        /\ \/ SpawnFlush("drain", "slot", staging \cup {r})
           \/ staging' = staging \cup {r} /\ UNCHANGED batch /\ wpc' \in {wpc, "drain"}
  BY DEF DrainRow, WaitRow, Receive
<1>2. IsFiniteSet(queue \ {r}) /\ Cardinality(queue \ {r}) <= QueueCap
  BY DequeueSize DEF IInv
<1>3. UNCHANGED <<open, shed, due, flushes>> /\ drained' \in {TRUE, drained}
  BY DEF DrainRow, WaitRow, Receive
<1>4. drained' \in BOOLEAN  BY <1>3 DEF IInv, TypeOK
<1> QED  BY <1>1, <1>2, <1>3, <1>4 DEF SpawnFlush, flushes, IInv, TypeOK, Finite

LEMMA PassType ==
  ASSUME IInv, DrainEnds \/ WaitTimeout \/ WaitClosed \/ Exit \/ DropSenders \/ Tick
               \/ UNCHANGED vars
  PROVE  TypeOK' /\ Finite'
<1> USE DEF DrainEnds, WaitTimeout, WaitClosed, Exit, DropSenders, Tick, vars, SpawnFlush,
            channel, writer, flushes, IInv
<1>1. TypeOK'  BY DEF TypeOK
<1>2. Finite'  BY DEF Finite
<1> QED  BY <1>1, <1>2

LEMMA TakeSlotType == ASSUME IInv, TakeSlot PROVE TypeOK' /\ Finite'
<1> USE DEF TakeSlot, channel, IInv
<1>1. /\ IsFiniteSet(flushing \cup {batch})
      /\ Cardinality(flushing \cup {batch}) <= Slots
  <2>1. Cardinality(flushing) \in Nat /\ Cardinality(flushing) < Slots
    BY FS_CardinalityType DEF Finite
  <2>2. /\ IsFiniteSet(flushing \cup {batch})
        /\ Cardinality(flushing \cup {batch})
             \in {Cardinality(flushing), Cardinality(flushing) + 1}
    BY FS_AddElement, Zenon DEF Finite
  <2> QED  BY <2>1, <2>2, LimitsAssumption
<1>2. batch # {}  BY DEF MovesOK, WriterOK
<1>3. batch \in (SUBSET Row) \ {{}}  BY <1>2 DEF TypeOK
<1>4. flushing' \in SUBSET ((SUBSET Row) \ {{}})  BY <1>3 DEF TypeOK
<1>5. TypeOK'  BY <1>1, <1>4 DEF TypeOK
<1> QED  BY <1>1, <1>5 DEF Finite

LEMMA FlushType ==
  ASSUME IInv, NEW f \in flushing,
         FlushPanics(f) \/ \E k \in Partition : FlushPartition(f, k)
  PROVE  TypeOK' /\ Finite'
<1> USE DEF channel, writer, IInv
<1>1. PICK rows \in SUBSET f :
        /\ flushing' = Rest(f, rows)
        /\ \/ stored' = stored \cup rows /\ UNCHANGED failed
           \/ failed' = failed \cup rows /\ UNCHANGED stored
        /\ UNCHANGED <<channel, writer>>
  BY FlushLeaves, Zenon
<1>2. /\ IsFiniteSet(flushing')
      /\ Cardinality(flushing') <= Slots
  <2>1. Cardinality(flushing) \in Nat /\ Cardinality(flushing) <= Slots
    BY FS_CardinalityType DEF Finite, TypeOK
  <2>2. /\ IsFiniteSet(Rest(f, rows))
        /\ Cardinality(Rest(f, rows)) <= Cardinality(flushing)
    BY RestSize DEF Finite
  <2>3. Cardinality(Rest(f, rows)) \in Nat  BY <2>2, FS_CardinalityType
  <2> QED  BY <1>1, <2>1, <2>2, <2>3, LimitsAssumption
<1>3. rows \subseteq Row /\ flushing' \in SUBSET ((SUBSET Row) \ {{}})
  BY <1>1 DEF TypeOK, Rest
<1>4. TypeOK'  BY <1>1, <1>2, <1>3 DEF TypeOK
<1> QED  BY <1>1, <1>2, <1>4 DEF Finite

(* Every step keeps the invariant.                                         *)
LEMMA NextIInv == ASSUME IInv, [Next]_vars PROVE IInv'
<1>1. CASE \E r \in Row : Submit(r) \/ SubmitBlocking(r)
  BY <1>1, SubmitMoves, SubmitType DEF IInv
<1>2. CASE WriterStep \/ UNCHANGED vars
  <2>1. MovesOK'  BY <1>2, WriterMoves DEF IInv
  <2>2. TypeOK' /\ Finite'
    BY <1>2, DrainType, PassType, TakeSlotType, FlushType DEF WriterStep, Write, FlushStep
  <2> QED  BY <2>1, <2>2 DEF IInv
<1> QED  BY <1>1, <1>2 DEF Next, WriterStep

(* The inductive invariant: the places do not overlap, and the writer's    *)
(* position says which of them are empty.                                  *)
THEOREM Invariance == Spec => []IInv
<1>1. IInv /\ [Next]_vars => IInv'  BY NextIInv
<1> QED  BY <1>1, InitIInv, PTL DEF Spec

(* Type correctness; the channel and the flush slots keep their capacity.  *)
THEOREM TypeCorrect == Spec => []TypeOK
<1>1. IInv => TypeOK  BY DEF IInv
<1> QED  BY <1>1, Invariance, PTL

(* Every row is in one place, however flushes and submissions overlap.     *)
THEOREM OnePlaceHolds == Spec => []OnePlace
<1>1. ASSUME IInv PROVE OnePlace
  <2> USE <1>1 DEF IInv, MovesOK
  <2>1. ASSUME NEW i \in 1..7, NEW j \in 1..7, i < j
        PROVE  Places[i] \cap Places[j] = {}
    <3>1. CASE i = 1  BY <2>1, <3>1 DEF Places, Apart, Accepted, InMemory
    <3>2. CASE i = 2  BY <2>1, <3>2 DEF Places, Apart, Accepted, InMemory
    <3>3. CASE i = 3  BY <2>1, <3>3 DEF Places, Apart, Accepted, InMemory
    <3>4. CASE i = 4  BY <2>1, <3>4 DEF Places, Apart, Accepted, InMemory
    <3>5. CASE i = 5  BY <2>1, <3>5 DEF Places, Apart, Accepted, InMemory
    <3>6. CASE i = 6  BY <2>1, <3>6 DEF Places, Apart, Accepted, InMemory
    <3> QED  BY <2>1, <3>1, <3>2, <3>3, <3>4, <3>5, <3>6
  <2>2. ASSUME NEW i \in 1..7, NEW j \in 1..7, i # j
        PROVE  Places[i] \cap Places[j] = {}
    <3>1. CASE i < j  BY <2>1, <3>1
    <3>2. CASE j < i
      <4>1. Places[j] \cap Places[i] = {}  BY <2>1, <3>2
      <4> QED  BY <4>1
    <3> QED  BY <2>2, <3>1, <3>2
  <2> QED  BY <2>2 DEF OnePlace, FlushesOK
<1> QED  BY <1>1, Invariance, PTL

-----------------------------------------------------------------------------
(***************************************************************************)
(* The handlers.  AskOK follows a request to its target, TargetOK says     *)
(* which copies of the documents gave it that target, RowsOK ties the rows *)
(* in the writer to the target and to the count of those taken in, and     *)
(* CountOK accounts for the items.  A token or a policy may change at any  *)
(* step in between: what matters is that the copy the handler read is one  *)
(* the node has had since the request came, which is what `known` records. *)
(***************************************************************************)
Sent(s) == h[s].pc \in {"send", "died"} \/ (h[s].pc = "done" /\ h[s].status \in {200, 204, 429})
Served(s) == h[s].pc = "parse" \/ Sent(s)

ShapeOK ==
  /\ h = [s \in Shipper |-> h[s]] /\ known = [s \in Shipper |-> known[s]]
  /\ \A s \in Shipper :
       /\ h[s] = [pc |-> h[s].pc, req |-> h[s].req, auth |-> h[s].auth, target |-> h[s].target,
                  items |-> h[s].items, parseErrors |-> h[s].parseErrors, at |-> h[s].at,
                  out |-> h[s].out, try |-> h[s].try, status |-> h[s].status]
       /\ h[s].out \in [ingested : Nat, rejected : Nat, rowErrors : Nat, writeErrors : Nat]
       /\ h[s].at \in Nat \ {0} /\ h[s].try \in Nat \ {0}

AskOK(s) ==
  /\ h[s].pc \notin {"idle", "silent"} => h[s].req \in Requests[s]
  /\ Busy(s) => <<seenAuth, seenEnvs>> \in known[s]
  /\ Busy(s) \/ Served(s) =>
       EnabledIn(h[s].auth, h[s].req) /\ \E k \in known[s] : k[1] = h[s].auth
  /\ h[s].pc = "open" => ~h[s].auth.require /\ h[s].req.scheme # "bearer"

Granted(a, req, target) ==
  /\ req.scheme # "none"
  /\ \E t \in a.tokens :
       t.enabled /\ t.secret = req.token /\ target.env = t.env /\ target.allowed = t.indexes

ByPolicy(a, e, req, target) ==
  /\ ~a.require /\ req.scheme # "bearer"
  /\ target.env = AskedEnv(req) /\ target.env \in e \ Reserved

TargetOK(s) ==
  Served(s) =>
    /\ h[s].target.index = IndexOf(h[s].req)
    /\ \E k, l \in known[s] : \/ Granted(k[1], h[s].req, h[s].target)
                              \/ ByPolicy(k[1], l[2], h[s].req, h[s].target)

RowsOf(s) == {r \in Accepted \cup shed : r.from = s}

InTarget(r, target) ==
  r.part[1] = target.env /\ (target.allowed = {} \/ r.part[2] \in target.allowed)

RowsOK(s) ==
  /\ \A r \in RowsOf(s) : r.try \in 1..h[s].try
  /\ h[s].pc = "idle" => RowsOf(s) = {}
  /\ ~Sent(s) => RowsNow(s) = {}
  /\ IsFiniteSet(Taken(s)) /\ Cardinality(Taken(s)) = h[s].out.ingested
  /\ \A r \in RowsNow(s) : r.at \in 1..h[s].at
  /\ \A r \in Taken(s) : InTarget(r, h[s].target)

Counts(out) == out.ingested + out.rejected + out.rowErrors + out.writeErrors

CountOK(s) ==
  /\ ~Sent(s) => h[s].out = Zero /\ h[s].at = 1
  /\ Counts(h[s].out) = h[s].at - 1
  /\ h[s].pc = "send" => Len(h[s].items) \in Nat /\ h[s].at <= Len(h[s].items) + 1
  /\ h[s].pc = "done" /\ h[s].status \in {200, 204} =>
       Len(h[s].items) \in Nat /\ h[s].at = Len(h[s].items) + 1
  /\ h[s].pc = "done" /\ h[s].status = 429 =>
       \E r \in shed : r.from = s /\ r.try = h[s].try /\ r.at = h[s].at

HandlerOK(s) == AskOK(s) /\ TargetOK(s) /\ RowsOK(s) /\ CountOK(s)

FrontOK == ShapeOK /\ \A s \in Shipper : HandlerOK(s)

(* A handler that begins.                                                  *)
LEMMA IdleShape ==
  ASSUME NEW try \in Nat \ {0}
  PROVE  /\ Idle(try).out \in [ingested : Nat, rejected : Nat, rowErrors : Nat, writeErrors : Nat]
         /\ Counts(Idle(try).out) = 0 /\ Idle(try).at = 1 /\ Idle(try).try = try
BY DEF Idle, Zero, Counts

(* Nothing was sent yet.                                                   *)
LEMMA InitFrontOK == ASSUME NEW scene, FrontAt(scene), Accepted \cup shed = {} PROVE FrontOK
<1> USE DEF FrontAt
<1>1. \A s \in Shipper :
        /\ h[s] = [Idle(1) EXCEPT !.pc = IF s \in scene.senders THEN @ ELSE "silent"]
        /\ h[s].pc \in {"idle", "silent"}
  BY DEF Idle
<1>2. ASSUME NEW s \in Shipper PROVE HandlerOK(s)
  <2>1. ~Busy(s) /\ ~Served(s) /\ ~Sent(s) /\ h[s].pc \in {"idle", "silent"}
    BY <1>1 DEF Busy, Served, Sent
  <2>2. h[s].out = Zero /\ h[s].at = 1  BY <1>1 DEF Idle
  <2>3. AskOK(s) /\ TargetOK(s)  BY <2>1 DEF AskOK, TargetOK
  <2>4. RowsNow(s) = {} /\ Taken(s) = {} /\ RowsOf(s) = {}  BY DEF RowsNow, Taken, RowsOf
  <2>5. RowsOK(s)  BY <2>2, <2>4, FS_EmptySet DEF RowsOK, Zero
  <2>6. CountOK(s)  BY <2>1, <2>2 DEF CountOK, Zero, Counts
  <2> QED  BY <2>3, <2>5, <2>6 DEF HandlerOK
<1>3. ShapeOK
  <2>1. ASSUME NEW s \in Shipper
        PROVE  /\ h[s] = [pc |-> h[s].pc, req |-> h[s].req, auth |-> h[s].auth, target |-> h[s].target,
                          items |-> h[s].items, parseErrors |-> h[s].parseErrors, at |-> h[s].at,
                          out |-> h[s].out, try |-> h[s].try, status |-> h[s].status]
               /\ h[s].out = Zero /\ h[s].at = 1 /\ h[s].try = 1
    BY <1>1 DEF Idle
  <2>2. Zero \in [ingested : Nat, rejected : Nat, rowErrors : Nat, writeErrors : Nat]
    BY DEF Zero
  <2>3. h = [s \in Shipper |-> h[s]] /\ known = [s \in Shipper |-> known[s]]  OBVIOUS
  <2> HIDE DEF FrontAt
  <2>4. \A s \in Shipper :
          /\ h[s].out \in [ingested : Nat, rejected : Nat, rowErrors : Nat, writeErrors : Nat]
          /\ h[s].at \in Nat \ {0} /\ h[s].try \in Nat \ {0}
    <3>1. \A s \in Shipper : h[s].out = Zero /\ h[s].at = 1 /\ h[s].try = 1  BY <2>1
    <3>2. 1 \in Nat \ {0}  OBVIOUS
    <3> QED  BY <3>1, <3>2, <2>2
  <2> QED  BY <2>1, <2>3, <2>4 DEF ShapeOK
<1> QED  BY <1>2, <1>3 DEF FrontOK

(* A handler that others step beside: its rows stay, and the copies of the *)
(* documents it may have read only become more.                            *)
LEMMA Bystander ==
  ASSUME NEW s \in Shipper, HandlerOK(s), h'[s] = h[s], known[s] \subseteq known'[s],
         Busy(s) => <<seenAuth', seenEnvs'>> \in known'[s],
         \A r : r.from = s => (r \in Accepted' <=> r \in Accepted) /\ (r \in shed' <=> r \in shed)
  PROVE  HandlerOK(s)'
<1>1. Busy(s)' = Busy(s) /\ Served(s)' = Served(s) /\ Sent(s)' = Sent(s)
  BY DEF Busy, Served, Sent
<1>2. RowsOf(s)' = RowsOf(s) /\ RowsNow(s)' = RowsNow(s)
  BY DEF RowsOf, RowsNow
<1>3. Taken(s)' = Taken(s)  BY <1>2 DEF Taken, RowsNow
<1>4. AskOK(s)'  BY <1>1 DEF HandlerOK, AskOK
<1>5. TargetOK(s)'  BY <1>1 DEF HandlerOK, TargetOK
<1>6. RowsOK(s)'  BY <1>1, <1>2, <1>3 DEF HandlerOK, RowsOK
<1>7. CountOK(s)'
  <2>1. \A r \in shed : r.from = s => r \in shed'  OBVIOUS
  <2> QED  BY <1>1, <2>1 DEF HandlerOK, CountOK
<1> QED  BY <1>4, <1>5, <1>6, <1>7 DEF HandlerOK

(* The writer, an admin or the listener steps.                             *)
LEMMA AllBystanders ==
  ASSUME FrontOK, UNCHANGED h, Accepted' = Accepted, UNCHANGED shed,
         UNCHANGED <<seenAuth, seenEnvs, known>> \/ Seen(seenAuth', seenEnvs')
  PROVE  FrontOK'
<1>1. ASSUME NEW s \in Shipper
      PROVE  known[s] \subseteq known'[s] /\ (Busy(s) => <<seenAuth', seenEnvs'>> \in known'[s])
  BY DEF Seen, FrontOK, HandlerOK, AskOK
<1>2. known' = [s \in Shipper |-> known'[s]]  BY DEF Seen, FrontOK, ShapeOK
<1>3. ShapeOK'  BY <1>2 DEF FrontOK, ShapeOK
<1>4. \A s \in Shipper : HandlerOK(s)'  BY <1>1, Bystander DEF FrontOK
<1> QED  BY <1>3, <1>4 DEF FrontOK

(* A handler steps to x: the shape it must have.                           *)
Shaped(x) ==
  /\ x = [pc |-> x.pc, req |-> x.req, auth |-> x.auth, target |-> x.target,
          items |-> x.items, parseErrors |-> x.parseErrors, at |-> x.at,
          out |-> x.out, try |-> x.try, status |-> x.status]
  /\ x.out \in [ingested : Nat, rejected : Nat, rowErrors : Nat, writeErrors : Nat]
  /\ x.at \in Nat \ {0} /\ x.try \in Nat \ {0}

(* What an answer leaves of a handler's record.                            *)
Answered(r, status) == [r EXCEPT !.pc = "done", !.status = status]

LEMMA AnswerShape ==
  ASSUME NEW r, Shaped(r), NEW status, NEW x, x = Answered(r, status)
  PROVE  /\ Shaped(x) /\ x.pc = "done" /\ x.status = status /\ x.auth = r.auth
         /\ x.target = r.target /\ x.items = r.items
         /\ x.req = r.req /\ x.out = r.out /\ x.at = r.at /\ x.try = r.try
BY DEF Shaped, Answered

LEMMA HandlerStep ==
  ASSUME FrontOK, NEW s \in Shipper, NEW x, Shaped(x), Become(s, x),
         known' = [s1 \in Shipper |-> known'[s1]],
         \A t \in Shipper : t # s => known'[t] = known[t],
         UNCHANGED <<seenAuth, seenEnvs>>,
         \A r : r.from # s => (r \in Accepted' <=> r \in Accepted) /\ (r \in shed' <=> r \in shed),
         HandlerOK(s)'
  PROVE  FrontOK'
<1>1. /\ h'[s] = x /\ h' = [t \in Shipper |-> h'[t]]
      /\ \A t \in Shipper : t # s => h'[t] = h[t]
  BY DEF Become, FrontOK, ShapeOK
<1>2. ShapeOK'  BY <1>1 DEF ShapeOK, Shaped, FrontOK
<1>3. ASSUME NEW t \in Shipper, t # s PROVE HandlerOK(t)'
  <2>1. Busy(t) => <<seenAuth', seenEnvs'>> \in known'[t]
    BY <1>3 DEF FrontOK, HandlerOK, AskOK
  <2> QED  BY <1>1, <1>3, <2>1, Bystander DEF FrontOK
<1> QED  BY <1>2, <1>3 DEF FrontOK

(* The request a handler serves next.                                      *)
LEMMA Becomes ==
  ASSUME FrontOK, NEW s \in Shipper, NEW x, Become(s, x)
  PROVE  h'[s] = x
BY DEF Become, FrontOK, ShapeOK

(* A request comes, for the first time or again: no row of this attempt is *)
(* there yet.                                                              *)
LEMMA AdmitStep ==
  ASSUME FrontOK, NEW s \in Shipper, NEW req \in Requests[s], NEW try \in Nat \ {0},
         Admit(s, req, try), \A r \in RowsOf(s) : r.try \in 1..(try - 1)
  PROVE  FrontOK'
<1> USE DEF Admit
<1> DEFINE on == [Idle(try) EXCEPT !.pc = "token", !.req = req, !.auth = seenAuth]
           off == [Idle(try) EXCEPT !.pc = "done", !.req = req, !.status = 403]
           x == IF EnabledIn(seenAuth, req) THEN on ELSE off
<1>1. UNCHANGED <<Accepted, shed, seenAuth, seenEnvs>>
  BY DEF vars, documents, Accepted, InMemory
<1>2. /\ on.pc = "token" /\ on.req = req /\ on.auth = seenAuth /\ Shaped(on)
      /\ off.pc = "done" /\ off.req = req /\ off.status = 403 /\ Shaped(off)
      /\ on.out = Zero /\ off.out = Zero /\ on.at = 1 /\ off.at = 1 /\ on.try = try /\ off.try = try
  <2>1. Zero \in [ingested : Nat, rejected : Nat, rowErrors : Nat, writeErrors : Nat]
    BY DEF Zero
  <2>2. PICK i : i = Idle(try)  OBVIOUS
  <2>7. i.at = 1 /\ i.out = Zero /\ i.try = try  BY <2>2 DEF Idle
  <2>8. i = [pc |-> i.pc, req |-> i.req, auth |-> i.auth, target |-> i.target,
             items |-> i.items, parseErrors |-> i.parseErrors, at |-> i.at,
             out |-> i.out, try |-> i.try, status |-> i.status]
    BY <2>2 DEF Idle
  <2>3. /\ on.pc = "token" /\ on.req = req /\ on.auth = seenAuth
        /\ on.out = Zero /\ on.at = 1 /\ on.try = try
    BY <2>2, <2>7, <2>8
  <2>4. /\ off.pc = "done" /\ off.req = req /\ off.status = 403
        /\ off.out = Zero /\ off.at = 1 /\ off.try = try
    BY <2>2, <2>7, <2>8
  <2>5. Shaped(on)
    <3>1. PICK y : y = on  OBVIOUS
    <3>2. y = [pc |-> y.pc, req |-> y.req, auth |-> y.auth, target |-> y.target,
               items |-> y.items, parseErrors |-> y.parseErrors, at |-> y.at,
               out |-> y.out, try |-> y.try, status |-> y.status]
      BY <3>1, <2>2, <2>8
    <3>3. y.out = Zero /\ y.at = 1 /\ y.try = try  BY <3>1, <2>3
    <3>4. Shaped(y)  BY <3>2, <3>3, <2>1 DEF Shaped
    <3> QED  BY <3>1, <3>4
  <2>6. Shaped(off)
    <3>1. PICK y : y = off  OBVIOUS
    <3>2. y = [pc |-> y.pc, req |-> y.req, auth |-> y.auth, target |-> y.target,
               items |-> y.items, parseErrors |-> y.parseErrors, at |-> y.at,
               out |-> y.out, try |-> y.try, status |-> y.status]
      BY <3>1, <2>2, <2>8
    <3>3. y.out = Zero /\ y.at = 1 /\ y.try = try  BY <3>1, <2>4
    <3>4. Shaped(y)  BY <3>2, <3>3, <2>1 DEF Shaped
    <3> QED  BY <3>1, <3>4
  <2> QED  BY <2>3, <2>4, <2>5, <2>6
<1>3. Become(s, x) /\ h'[s] = x  BY Becomes
<1>4. known'[s] = {<<seenAuth, seenEnvs>>} /\ known' = [t \in Shipper |-> known'[t]]
      /\ \A t \in Shipper : t # s => known'[t] = known[t]
  BY DEF FrontOK, ShapeOK
<1> HIDE DEF on, off
<1>5. Shaped(x) /\ x.out = Zero /\ x.at = 1 /\ x.try = try /\ x.req = req
  BY <1>2
<1>6. /\ x.pc \in {"token", "done"} /\ (x.pc = "done" => x.status = 403)
      /\ x.pc = "token" => x.auth = seenAuth /\ EnabledIn(seenAuth, req)
  BY <1>2
<1> HIDE DEF x
<1>7. ~Sent(s)' /\ ~Served(s)' /\ (h'[s].pc = "token" <=> Busy(s)')
  BY <1>3, <1>6 DEF Sent, Served, Busy
<1>8. AskOK(s)'
  <2>1. <<seenAuth, seenEnvs>>[1] = seenAuth  OBVIOUS
  <2>2. h'[s].req = req /\ h'[s].pc # "open"  BY <1>3, <1>5, <1>6
  <2>3. h'[s].pc = "token" =>
          EnabledIn(h'[s].auth, h'[s].req) /\ \E k \in known'[s] : k[1] = h'[s].auth
    BY <1>3, <1>4, <1>5, <1>6, <2>1
  <2> QED  BY <1>1, <1>4, <1>7, <2>2, <2>3 DEF AskOK
<1>9. TargetOK(s)'  BY <1>7 DEF TargetOK
<1>10. RowsOK(s)'
  <2>1. RowsOf(s)' = RowsOf(s)  BY <1>1 DEF RowsOf
  <2>2. h'[s].try = try /\ h'[s].out.ingested = 0 /\ h'[s].pc # "idle"
    BY <1>3, <1>5, <1>6 DEF Zero
  <2>3. \A r \in RowsOf(s) : r.try \in 1..try /\ r.try # try  OBVIOUS
  <2>4. RowsNow(s)' = {}  BY <2>1, <2>2, <2>3 DEF RowsNow, RowsOf
  <2>5. Taken(s)' = {}  BY <2>4 DEF Taken
  <2> QED  BY <2>1, <2>2, <2>3, <2>4, <2>5, FS_EmptySet DEF RowsOK
<1>11. CountOK(s)'
  <2>1. h'[s].out = Zero /\ h'[s].at = 1 /\ Counts(Zero) = 0  BY <1>3, <1>5 DEF Counts, Zero
  <2> QED  BY <1>3, <1>6, <1>7, <2>1 DEF CountOK
<1>12. HandlerOK(s)'  BY <1>8, <1>9, <1>10, <1>11 DEF HandlerOK
<1> QED  BY <1>1, <1>3, <1>4, <1>5, <1>12, HandlerStep

LEMMA ReadPolicyStep == ASSUME FrontOK, NEW s \in Shipper, ReadPolicy(s) PROVE FrontOK'
<1>1. PICK req \in Requests[s] : Admit(s, req, 1)  BY DEF ReadPolicy
<1>2. RowsOf(s) = {}  BY DEF ReadPolicy, FrontOK, HandlerOK, RowsOK
<1> QED  BY <1>1, <1>2, AdmitStep

LEMMA ResendStep == ASSUME FrontOK, NEW s \in Shipper, Resend(s) PROVE FrontOK'
<1> DEFINE try == h[s].try + 1
<1>1. h[s].req \in Requests[s] /\ Admit(s, h[s].req, try)
  BY DEF Resend, FrontOK, HandlerOK, AskOK
<1>2. h[s].try \in Nat \ {0}  BY DEF FrontOK, ShapeOK
<1>3. try \in Nat \ {0} /\ \A r \in RowsOf(s) : r.try \in 1..(try - 1)
  BY <1>2 DEF FrontOK, HandlerOK, RowsOK
<1> HIDE DEF try
<1> QED  BY <1>1, <1>3, AdmitStep

(* A handler that steps without submitting.                                *)
LEMMA OwnStep ==
  ASSUME FrontOK, NEW s \in Shipper, NEW x, Shaped(x), Become(s, x),
         UNCHANGED <<documents, known, vars>>, HandlerOK(s)'
  PROVE  FrontOK'
<1>1. UNCHANGED <<Accepted, shed, seenAuth, seenEnvs, known>>
  BY DEF vars, documents, Accepted, InMemory
<1>2. known' = [s1 \in Shipper |-> known'[s1]]  BY <1>1 DEF FrontOK, ShapeOK
<1> QED  BY <1>1, <1>2, HandlerStep

LEMMA OwnRows ==
  ASSUME NEW s \in Shipper, UNCHANGED vars, h'[s].try = h[s].try
  PROVE  /\ RowsOf(s)' = RowsOf(s) /\ RowsNow(s)' = RowsNow(s) /\ Taken(s)' = Taken(s)
         /\ UNCHANGED <<Accepted, shed>>
BY DEF vars, RowsOf, RowsNow, Taken, Accepted, InMemory

(* A request refused before it sent anything.                              *)
LEMMA RefuseStep ==
  ASSUME FrontOK, NEW s \in Shipper, h[s].pc \in {"token", "open", "parse"},
         NEW status \in {400, 401}, Answer(s, status), UNCHANGED <<documents, known, vars>>
  PROVE  FrontOK'
<1>1. PICK x : x = Answered(h[s], status)  OBVIOUS
<1>2. Shaped(h[s])  BY DEF FrontOK, ShapeOK, Shaped
<1>3. /\ Shaped(x) /\ x.pc = "done" /\ x.status = status
      /\ x.req = h[s].req /\ x.out = h[s].out /\ x.at = h[s].at /\ x.try = h[s].try
  BY <1>1, <1>2, AnswerShape
<1>4. Become(s, x) /\ h'[s] = x  BY <1>1, Becomes DEF Answer, Answered
<1>5. ~Sent(s) /\ ~Sent(s)' /\ ~Served(s)' /\ ~Busy(s)'
  BY <1>3, <1>4 DEF Sent, Served, Busy
<1>6. RowsOf(s)' = RowsOf(s) /\ RowsNow(s)' = RowsNow(s) /\ Taken(s)' = Taken(s)
  BY <1>3, <1>4, OwnRows
<1>7. HandlerOK(s)  BY DEF FrontOK
<1>8. AskOK(s)'  BY <1>3, <1>4, <1>5, <1>7 DEF HandlerOK, AskOK
<1>9. TargetOK(s)'  BY <1>5 DEF TargetOK
<1>10. RowsOK(s)'
  <2>1. RowsNow(s) = {}  BY <1>5, <1>7 DEF HandlerOK, RowsOK
  <2>2. Taken(s) = {}  BY <2>1 DEF Taken
  <2> QED  BY <1>3, <1>4, <1>6, <1>7, <2>1, <2>2 DEF HandlerOK, RowsOK
<1>11. CountOK(s)'  BY <1>3, <1>4, <1>5, <1>7 DEF HandlerOK, CountOK
<1> QED  BY <1>3, <1>4, <1>8, <1>9, <1>10, <1>11, OwnStep DEF HandlerOK

(* A token is looked up, or an environment: the target is one that a copy  *)
(* the node has had allows.                                                *)
LEMMA AimStep ==
  ASSUME FrontOK, NEW s \in Shipper, h[s].pc \in {"token", "open"}, NEW target,
         target.index = IndexOf(h[s].req),
         \E k, l \in known[s] : Granted(k[1], h[s].req, target) \/ ByPolicy(k[1], l[2], h[s].req, target),
         Aim(s, target), UNCHANGED <<documents, known, vars>>
  PROVE  FrontOK'
<1>1. PICK x : x = [h[s] EXCEPT !.pc = "parse", !.target = target]  OBVIOUS
<1>2. Shaped(h[s])  BY DEF FrontOK, ShapeOK, Shaped
<1>3. /\ Shaped(x) /\ x.pc = "parse" /\ x.target = target /\ x.auth = h[s].auth
      /\ x.req = h[s].req /\ x.out = h[s].out /\ x.at = h[s].at /\ x.try = h[s].try
  BY <1>1, <1>2 DEF Shaped
<1>4. Become(s, x) /\ h'[s] = x  BY <1>1, Becomes DEF Aim
<1>5. ~Sent(s) /\ ~Sent(s)' /\ Served(s)' /\ Busy(s)' /\ Busy(s)
  BY <1>3, <1>4 DEF Sent, Served, Busy
<1>6. RowsOf(s)' = RowsOf(s) /\ RowsNow(s)' = RowsNow(s) /\ Taken(s)' = Taken(s)
  BY <1>3, <1>4, OwnRows
<1>7. HandlerOK(s)  BY DEF FrontOK
<1>8. AskOK(s)'  BY <1>3, <1>4, <1>5, <1>7 DEF HandlerOK, AskOK, documents
<1>9. TargetOK(s)'  BY <1>3, <1>4 DEF TargetOK
<1>10. RowsOK(s)'
  <2>1. RowsNow(s) = {}  BY <1>5, <1>7 DEF HandlerOK, RowsOK
  <2>2. Taken(s) = {}  BY <2>1 DEF Taken
  <2> QED  BY <1>3, <1>4, <1>6, <1>7, <2>1, <2>2 DEF HandlerOK, RowsOK
<1>11. CountOK(s)'  BY <1>3, <1>4, <1>5, <1>7 DEF HandlerOK, CountOK
<1> QED  BY <1>3, <1>4, <1>8, <1>9, <1>10, <1>11, OwnStep DEF HandlerOK

(* The second read of authorize_ingest.                                    *)
LEMMA ReadTokenStep == ASSUME FrontOK, NEW s \in Shipper, ReadToken(s) PROVE FrontOK'
<1> USE DEF ReadToken
<1>1. HandlerOK(s) /\ Busy(s) /\ ~Sent(s)  BY DEF FrontOK, Busy, Sent
<1>2. CASE h[s].req.scheme # "none" /\ \E t \in Found(s) : Aim(s, Target(t.env, IndexOf(h[s].req), t.indexes))
  <2>1. PICK t \in Found(s) : Aim(s, Target(t.env, IndexOf(h[s].req), t.indexes))  BY <1>2
  <2> DEFINE target == Target(t.env, IndexOf(h[s].req), t.indexes)
             k == <<seenAuth, seenEnvs>>
  <2>2. target.index = IndexOf(h[s].req) /\ target.env = t.env /\ target.allowed = t.indexes
    BY DEF Target
  <2>3. k \in known[s] /\ k[1] = seenAuth  BY <1>1 DEF HandlerOK, AskOK
  <2>4. Granted(k[1], h[s].req, target)  BY <1>2, <2>2, <2>3 DEF Granted, Found
  <2>5. Aim(s, target) /\ UNCHANGED <<documents, known, vars>>  BY <2>1
  <2> HIDE DEF target, k
  <2> QED  BY <2>2, <2>3, <2>4, <2>5, AimStep
<1>3. CASE Answer(s, 401)  BY <1>3, RefuseStep
<1>4. CASE /\ h[s].req.scheme = "none" \/ (h[s].req.scheme = "basic" /\ Found(s) = {})
           /\ ~h[s].auth.require /\ Become(s, [h[s] EXCEPT !.pc = "open"])
  <2>1. PICK x : x = [h[s] EXCEPT !.pc = "open"]  OBVIOUS
  <2>2. Shaped(h[s])  BY DEF FrontOK, ShapeOK, Shaped
  <2>3. /\ Shaped(x) /\ x.pc = "open" /\ x.auth = h[s].auth /\ x.req = h[s].req
        /\ x.out = h[s].out /\ x.at = h[s].at /\ x.try = h[s].try
    BY <2>1, <2>2 DEF Shaped
  <2>4. Become(s, x) /\ h'[s] = x  BY <1>4, <2>1, Becomes
  <2>5. ~Sent(s)' /\ ~Served(s)' /\ Busy(s)'  BY <2>3, <2>4 DEF Sent, Served, Busy
  <2>6. RowsOf(s)' = RowsOf(s) /\ RowsNow(s)' = RowsNow(s) /\ Taken(s)' = Taken(s)
    BY <2>3, <2>4, OwnRows
  <2>7. h[s].req.scheme # "bearer"  BY <1>4
  <2>8. AskOK(s)'  BY <1>1, <1>4, <2>3, <2>4, <2>5, <2>7 DEF HandlerOK, AskOK, documents
  <2>9. TargetOK(s)'  BY <2>5 DEF TargetOK
  <2>10. RowsOK(s)'
    <3>1. RowsNow(s) = {}  BY <1>1 DEF HandlerOK, RowsOK
    <3>2. Taken(s) = {}  BY <3>1 DEF Taken
    <3> QED  BY <1>1, <2>3, <2>4, <2>6, <3>1, <3>2 DEF HandlerOK, RowsOK
  <2>11. CountOK(s)'  BY <1>1, <2>3, <2>4, <2>5 DEF HandlerOK, CountOK
  <2> QED  BY <2>3, <2>4, <2>8, <2>9, <2>10, <2>11, OwnStep DEF HandlerOK
<1> QED  BY <1>2, <1>3, <1>4

(* resolve_target: the policy is that of the first read, the environments  *)
(* are those of now.                                                       *)
LEMMA OpenPathStep == ASSUME FrontOK, NEW s \in Shipper, OpenPath(s) PROVE FrontOK'
<1> USE DEF OpenPath
<1> DEFINE env == AskedEnv(h[s].req)
           target == Target(env, IndexOf(h[s].req), {})
<1>1. HandlerOK(s) /\ Busy(s)  BY DEF FrontOK, Busy
<1>2. CASE Answer(s, 400)  BY <1>2, RefuseStep
<1>3. CASE env \in seenEnvs \ Reserved /\ Aim(s, target)
  <2>1. target.index = IndexOf(h[s].req) /\ target.env = env  BY DEF Target
  <2>2. PICK k \in known[s] : k[1] = h[s].auth  BY <1>1 DEF HandlerOK, AskOK
  <2> DEFINE l == <<seenAuth, seenEnvs>>
  <2>3. l \in known[s] /\ l[2] = seenEnvs  BY <1>1 DEF HandlerOK, AskOK
  <2>4. ~k[1].require /\ h[s].req.scheme # "bearer"  BY <1>1, <2>2 DEF HandlerOK, AskOK
  <2>5. ByPolicy(k[1], l[2], h[s].req, target)  BY <1>3, <2>1, <2>3, <2>4 DEF ByPolicy
  <2>6. Aim(s, target) /\ UNCHANGED <<documents, known, vars>>  BY <1>3
  <2> HIDE DEF target, l
  <2> QED  BY <2>1, <2>2, <2>3, <2>5, <2>6, AimStep
<1> QED  BY <1>2, <1>3

(* The body is decoded: the items are to be sent.                          *)
LEMMA ParseStep == ASSUME FrontOK, NEW s \in Shipper, ParseRequest(s) PROVE FrontOK'
<1> USE DEF ParseRequest
<1>1. HandlerOK(s) /\ Busy(s) /\ Served(s) /\ ~Sent(s)  BY DEF FrontOK, Busy, Served, Sent
<1>2. PICK got : got = ItemsOf(h[s].req, h[s].target.index)  OBVIOUS
<1>3. Len(got.items) \in Nat
  <2>1. h[s].req \in Requests[s] /\ h[s].target.index = IndexOf(h[s].req)
    BY <1>1 DEF HandlerOK, AskOK, TargetOK
  <2> QED  BY <1>2, <2>1, DecodersAssumption
<1>4. CASE Answer(s, 400)  BY <1>4, RefuseStep
<1>5. CASE Become(s, [h[s] EXCEPT !.pc = "send", !.items = got.items, !.parseErrors = got.errors])
  <2>1. PICK x : x = [h[s] EXCEPT !.pc = "send", !.items = got.items, !.parseErrors = got.errors]
    OBVIOUS
  <2>2. Shaped(h[s])  BY DEF FrontOK, ShapeOK, Shaped
  <2>3. /\ Shaped(x) /\ x.pc = "send" /\ x.auth = h[s].auth /\ x.req = h[s].req
        /\ x.target = h[s].target /\ x.items = got.items
        /\ x.out = h[s].out /\ x.at = h[s].at /\ x.try = h[s].try
    BY <2>1, <2>2 DEF Shaped
  <2>4. Become(s, x) /\ h'[s] = x  BY <1>5, <2>1, Becomes
  <2>5. Sent(s)' /\ Served(s)' /\ Busy(s)' /\ h'[s].pc = "send"
    BY <2>3, <2>4 DEF Sent, Served, Busy
  <2>6. RowsOf(s)' = RowsOf(s) /\ RowsNow(s)' = RowsNow(s) /\ Taken(s)' = Taken(s)
    BY <2>3, <2>4, OwnRows
  <2>7. AskOK(s)'  BY <1>1, <2>3, <2>4, <2>5 DEF HandlerOK, AskOK, documents
  <2>8. TargetOK(s)'  BY <1>1, <2>3, <2>4 DEF HandlerOK, TargetOK
  <2>9. RowsOK(s)'
    <3>1. RowsNow(s) = {}  BY <1>1 DEF HandlerOK, RowsOK
    <3>2. Taken(s) = {}  BY <3>1 DEF Taken
    <3> QED  BY <1>1, <2>3, <2>4, <2>6, <3>1, <3>2 DEF HandlerOK, RowsOK
  <2>10. CountOK(s)'
    <3>1. h[s].at = 1  BY <1>1 DEF HandlerOK, CountOK
    <3>2. h'[s].at <= Len(h'[s].items) + 1  BY <1>3, <2>3, <2>4, <3>1
    <3> QED  BY <1>1, <1>3, <2>3, <2>4, <2>5, <3>2 DEF HandlerOK, CountOK
  <2> QED  BY <2>3, <2>4, <2>7, <2>8, <2>9, <2>10, OwnStep DEF HandlerOK
<1> QED  BY <1>2, <1>4, <1>5 DEF Decoded

(* One item more is accounted for.                                         *)
Counters == {"ingested", "rejected", "rowErrors", "writeErrors"}

LEMMA CountedOnce ==
  ASSUME FrontOK, NEW s \in Shipper, NEW what \in Counters, Counted(s, what)
  PROVE  /\ Become(s, h'[s]) /\ Shaped(h'[s])
         /\ h'[s].at = h[s].at + 1 /\ Counts(h'[s].out) = Counts(h[s].out) + 1
         /\ h'[s].out.ingested = h[s].out.ingested + (IF what = "ingested" THEN 1 ELSE 0)
         /\ h'[s].pc = h[s].pc /\ h'[s].req = h[s].req /\ h'[s].auth = h[s].auth
         /\ h'[s].target = h[s].target /\ h'[s].items = h[s].items
         /\ h'[s].try = h[s].try /\ h'[s].status = h[s].status
<1> DEFINE e == [h[s].out EXCEPT ![what] = h[s].out[what] + 1]
           y == [h[s] EXCEPT !.at = @ + 1, !.out = e]
<1>6. Become(s, y)  BY DEF Counted
<1>1. PICK o : o = e  OBVIOUS
<1>2. PICK x : x = y /\ x = [h[s] EXCEPT !.at = @ + 1, !.out = o]  BY <1>1
<1>3. Shaped(h[s])  BY DEF FrontOK, ShapeOK, Shaped
<1>4. /\ o \in [ingested : Nat, rejected : Nat, rowErrors : Nat, writeErrors : Nat]
      /\ Counts(o) = Counts(h[s].out) + 1
      /\ o.ingested = h[s].out.ingested + (IF what = "ingested" THEN 1 ELSE 0)
  <2>1. PICK c : c = h[s].out  OBVIOUS
  <2>2. c \in [ingested : Nat, rejected : Nat, rowErrors : Nat, writeErrors : Nat]
    BY <1>3, <2>1 DEF Shaped
  <2>3. CASE what = "ingested"
    <3>1. o = [c EXCEPT !.ingested = c.ingested + 1]  BY <1>1, <2>1, <2>3
    <3> QED  BY <2>1, <2>2, <2>3, <3>1 DEF Counts
  <2>4. CASE what = "rejected"
    <3>1. o = [c EXCEPT !.rejected = c.rejected + 1]  BY <1>1, <2>1, <2>4
    <3> QED  BY <2>1, <2>2, <2>4, <3>1 DEF Counts
  <2>5. CASE what = "rowErrors"
    <3>1. o = [c EXCEPT !.rowErrors = c.rowErrors + 1]  BY <1>1, <2>1, <2>5
    <3> QED  BY <2>1, <2>2, <2>5, <3>1 DEF Counts
  <2>6. CASE what = "writeErrors"
    <3>1. o = [c EXCEPT !.writeErrors = c.writeErrors + 1]  BY <1>1, <2>1, <2>6
    <3>2. o \in [ingested : Nat, rejected : Nat, rowErrors : Nat, writeErrors : Nat]
      BY <2>2, <3>1
    <3>3. /\ o.ingested = c.ingested /\ o.rejected = c.rejected
          /\ o.rowErrors = c.rowErrors /\ o.writeErrors = c.writeErrors + 1
      BY <2>2, <3>1
    <3>4. Counts(o) = Counts(c) + 1  BY <2>2, <3>3 DEF Counts
    <3> QED  BY <2>1, <2>6, <3>2, <3>3, <3>4
  <2> QED  BY <2>3, <2>4, <2>5, <2>6 DEF Counters
<1>5. /\ Shaped(x) /\ x.at = h[s].at + 1 /\ x.out = o
      /\ x.pc = h[s].pc /\ x.req = h[s].req /\ x.auth = h[s].auth
      /\ x.target = h[s].target /\ x.items = h[s].items
      /\ x.try = h[s].try /\ x.status = h[s].status
  <2>1. PICK r : r = h[s]  OBVIOUS
  <2>2. /\ r = [pc |-> r.pc, req |-> r.req, auth |-> r.auth, target |-> r.target,
                items |-> r.items, parseErrors |-> r.parseErrors, at |-> r.at,
                out |-> r.out, try |-> r.try, status |-> r.status]
        /\ r.at \in Nat \ {0} /\ r.try \in Nat \ {0}
    BY <1>3, <2>1 DEF Shaped
  <2>3. x = [r EXCEPT !.at = r.at + 1, !.out = o]  BY <1>2, <2>1
  <2>4. /\ x = [pc |-> x.pc, req |-> x.req, auth |-> x.auth, target |-> x.target,
                items |-> x.items, parseErrors |-> x.parseErrors, at |-> x.at,
                out |-> x.out, try |-> x.try, status |-> x.status]
        /\ x.at = r.at + 1 /\ x.out = o
        /\ x.pc = r.pc /\ x.req = r.req /\ x.auth = r.auth
        /\ x.target = r.target /\ x.items = r.items
        /\ x.try = r.try /\ x.status = r.status
    BY <2>2, <2>3
  <2>5. Shaped(x)  BY <1>4, <2>2, <2>4 DEF Shaped
  <2> QED  BY <2>1, <2>4, <2>5
<1> HIDE DEF y
<1>7. Become(s, x)  BY <1>2, <1>6
<1>8. h'[s] = x  BY <1>7, Becomes
<1> QED  BY <1>4, <1>5, <1>7, <1>8

(* An item that goes nowhere.                                              *)
LEMMA PassStep == ASSUME FrontOK, NEW s \in Shipper, Pass(s) PROVE FrontOK'
<1>1. PICK what \in {"rejected", "rowErrors", "writeErrors"} : Counted(s, what)
  BY DEF Pass
<1>2. /\ Become(s, h'[s]) /\ Shaped(h'[s])
      /\ h'[s].at = h[s].at + 1 /\ Counts(h'[s].out) = Counts(h[s].out) + 1
      /\ h'[s].out.ingested = h[s].out.ingested + (IF what = "ingested" THEN 1 ELSE 0)
      /\ h'[s].pc = h[s].pc /\ h'[s].req = h[s].req /\ h'[s].auth = h[s].auth
      /\ h'[s].target = h[s].target /\ h'[s].items = h[s].items
      /\ h'[s].try = h[s].try /\ h'[s].status = h[s].status
  BY <1>1, CountedOnce DEF Counters
<1>3. /\ h[s].pc = "send" /\ h[s].at <= Len(h[s].items)
      /\ UNCHANGED <<documents, known, vars>>
  BY DEF Pass, Sending
<1>4. HandlerOK(s) /\ Shaped(h[s])  BY DEF FrontOK, ShapeOK, Shaped
<1>5. h'[s].out.ingested = h[s].out.ingested  BY <1>1, <1>2, <1>4 DEF Shaped
<1>6. RowsOf(s)' = RowsOf(s) /\ RowsNow(s)' = RowsNow(s) /\ Taken(s)' = Taken(s)
  BY <1>2, <1>3, OwnRows
<1>7. Busy(s) /\ Sent(s) /\ Served(s) /\ Sent(s)'  BY <1>2, <1>3 DEF Busy, Sent, Served
<1>8. AskOK(s)'  BY <1>2, <1>3, <1>4, <1>7 DEF HandlerOK, AskOK, documents
<1>9. TargetOK(s)'  BY <1>2, <1>3, <1>4, <1>7 DEF HandlerOK, TargetOK
<1>10. RowsOK(s)'
  <2>1. h[s].at \in Nat  BY <1>4 DEF Shaped
  <2>2. \A r \in RowsNow(s) : r.at \in 1..(h[s].at + 1)
    BY <1>4, <2>1 DEF HandlerOK, RowsOK
  <2> QED  BY <1>2, <1>3, <1>4, <1>5, <1>6, <1>7, <2>2 DEF HandlerOK, RowsOK
<1>11. CountOK(s)'
  <2>1. h[s].at \in Nat /\ Len(h[s].items) \in Nat /\ Counts(h[s].out) = h[s].at - 1
    BY <1>3, <1>4 DEF Shaped, HandlerOK, CountOK
  <2>2. Counts(h'[s].out) = h'[s].at - 1 /\ h'[s].at <= Len(h'[s].items) + 1
    BY <1>2, <1>3, <2>1
  <2> QED  BY <1>2, <1>3, <1>7, <2>1, <2>2 DEF CountOK
<1> QED  BY <1>2, <1>3, <1>8, <1>9, <1>10, <1>11, OwnStep DEF HandlerOK

(* Every item has been dealt with.                                         *)
LEMMA FinishStep == ASSUME FrontOK, NEW s \in Shipper, Finish(s) PROVE FrontOK'
<1> USE DEF Finish
<1> DEFINE status == IF h[s].req.proto = "loki" THEN 204 ELSE 200
<1>1. PICK x : x = Answered(h[s], status)  OBVIOUS
<1>2. Shaped(h[s]) /\ HandlerOK(s)  BY DEF FrontOK, ShapeOK, Shaped
<1>3. /\ Shaped(x) /\ x.pc = "done" /\ x.status \in {200, 204} /\ x.auth = h[s].auth
      /\ x.target = h[s].target /\ x.items = h[s].items
      /\ x.req = h[s].req /\ x.out = h[s].out /\ x.at = h[s].at /\ x.try = h[s].try
  BY <1>1, <1>2, AnswerShape
<1>4. Become(s, x) /\ h'[s] = x  BY <1>1, Becomes DEF Answer, Answered
<1>5. Sent(s) /\ Sent(s)' /\ Served(s) /\ ~Busy(s)' /\ Busy(s)
  BY <1>3, <1>4 DEF Sent, Served, Busy
<1>6. RowsOf(s)' = RowsOf(s) /\ RowsNow(s)' = RowsNow(s) /\ Taken(s)' = Taken(s)
  BY <1>3, <1>4, OwnRows
<1>7. AskOK(s)'  BY <1>2, <1>3, <1>4, <1>5 DEF HandlerOK, AskOK
<1>8. TargetOK(s)'  BY <1>2, <1>3, <1>4, <1>5 DEF HandlerOK, TargetOK
<1>9. RowsOK(s)'  BY <1>2, <1>3, <1>4, <1>5, <1>6 DEF HandlerOK, RowsOK
<1>10. CountOK(s)'
  <2>1. h[s].at = Len(h[s].items) + 1  BY <1>2 DEF HandlerOK, CountOK, Shaped
  <2> QED  BY <1>2, <1>3, <1>4, <1>5, <2>1 DEF HandlerOK, CountOK
<1> QED  BY <1>3, <1>4, <1>7, <1>8, <1>9, <1>10, OwnStep DEF HandlerOK

(* The task of a request dies: what it sent stays.                         *)
Dead(r, status) == [r EXCEPT !.pc = "died", !.status = status]

LEMMA DeadShape ==
  ASSUME NEW r, Shaped(r), NEW status, NEW x, x = Dead(r, status)
  PROVE  /\ Shaped(x) /\ x.pc = "died" /\ x.auth = r.auth
         /\ x.target = r.target /\ x.items = r.items
         /\ x.req = r.req /\ x.out = r.out /\ x.at = r.at /\ x.try = r.try
BY DEF Shaped, Dead

LEMMA TaskDiesStep == ASSUME FrontOK, NEW s \in Shipper, TaskDies(s) PROVE FrontOK'
<1> USE DEF TaskDies
<1> DEFINE status == IF h[s].req.proto = "ingest" THEN 200 ELSE 400
<1>1. PICK x : x = Dead(h[s], status)  OBVIOUS
<1>2. Shaped(h[s]) /\ HandlerOK(s)  BY DEF FrontOK, ShapeOK, Shaped
<1>3. /\ Shaped(x) /\ x.pc = "died" /\ x.auth = h[s].auth
      /\ x.target = h[s].target /\ x.items = h[s].items
      /\ x.req = h[s].req /\ x.out = h[s].out /\ x.at = h[s].at /\ x.try = h[s].try
  BY <1>1, <1>2, DeadShape
<1>4. Become(s, x) /\ h'[s] = x  BY <1>1, Becomes DEF Dead
<1>5. Sent(s)' /\ Served(s) /\ ~Busy(s)' /\ Busy(s)
  BY <1>3, <1>4 DEF Sent, Served, Busy
<1>6. RowsOf(s)' = RowsOf(s) /\ RowsNow(s)' = RowsNow(s) /\ Taken(s)' = Taken(s)
  BY <1>3, <1>4, OwnRows
<1>7. AskOK(s)'  BY <1>2, <1>3, <1>4, <1>5 DEF HandlerOK, AskOK
<1>8. TargetOK(s)'  BY <1>2, <1>3, <1>4, <1>5 DEF HandlerOK, TargetOK
<1>9. RowsOK(s)'  BY <1>2, <1>3, <1>4, <1>5, <1>6 DEF HandlerOK, RowsOK
<1>10. CountOK(s)'  BY <1>2, <1>3, <1>4, <1>5 DEF HandlerOK, CountOK
<1> QED  BY <1>3, <1>4, <1>7, <1>8, <1>9, <1>10, OwnStep DEF HandlerOK

(* A row is handed to the writer: it is taken in, within the target, or    *)
(* refused, and that is the end of the request.                            *)
LEMMA SubmitStep == ASSUME FrontOK, MovesOK, NEW s \in Shipper, SubmitRow(s) PROVE FrontOK' /\ MovesOK'
<1> USE DEF SubmitRow
<1> DEFINE row == RowNow(s)
<1>1. /\ row.from = s /\ row.try = h[s].try /\ row.at = h[s].at
      /\ row.part[1] = h[s].target.env /\ row.part[2] = IndexNow(s)
  BY DEF RowNow
<1>2. InTarget(row, h[s].target)  BY <1>1 DEF SendRow, Allowed, MayGo, IndexNow, InTarget
<1> HIDE DEF row
<1>3. /\ MovesOK' /\ Fresh(row)
      /\ Room => Accepted' = Accepted \cup {row} /\ UNCHANGED shed
      /\ ~Room => shed' = shed \cup {row} /\ Accepted' = Accepted
  BY SubmitMoves DEF SendRow, row
<1>4. /\ h[s].pc = "send" /\ h[s].at <= Len(h[s].items) /\ UNCHANGED <<documents, known>>
  BY DEF SendRow, Sending
<1>5. HandlerOK(s) /\ Shaped(h[s])  BY DEF FrontOK, ShapeOK, Shaped
<1>6. /\ h[s].at \in Nat \ {0} /\ h[s].try \in Nat \ {0} /\ h[s].out.ingested \in Nat
  BY <1>5 DEF Shaped
<1>7. RowsOf(s)' = RowsOf(s) \cup {row}
  BY <1>1, <1>3 DEF RowsOf
<1>8. ASSUME NEW x, Become(s, x), Shaped(x), x.try = h[s].try PROVE RowsNow(s)' = RowsNow(s) \cup {row}
  <2>1. h'[s].try = h[s].try  BY <1>8, Becomes
  <2> QED  BY <1>1, <1>3, <2>1 DEF RowsNow
<1>9. \A r : r.from # s => (r \in Accepted' <=> r \in Accepted) /\ (r \in shed' <=> r \in shed)
  BY <1>1, <1>3
<1>10. known' = [s1 \in Shipper |-> known'[s1]] /\ UNCHANGED <<seenAuth, seenEnvs, known>>
  BY <1>4 DEF documents, FrontOK, ShapeOK
<1>11. row \notin Accepted \cup shed  BY <1>3 DEF Fresh
<1>12. Busy(s) /\ Sent(s) /\ Served(s)  BY <1>4 DEF Busy, Sent, Served
<1>13. CASE Room
  <2>1. /\ Become(s, h'[s]) /\ Shaped(h'[s])
        /\ h'[s].at = h[s].at + 1 /\ Counts(h'[s].out) = Counts(h[s].out) + 1
        /\ h'[s].out.ingested = h[s].out.ingested + (IF "ingested" = "ingested" THEN 1 ELSE 0)
        /\ h'[s].pc = h[s].pc /\ h'[s].req = h[s].req /\ h'[s].auth = h[s].auth
        /\ h'[s].target = h[s].target /\ h'[s].items = h[s].items
        /\ h'[s].try = h[s].try /\ h'[s].status = h[s].status
    BY <1>13, CountedOnce DEF Counters
  <2>2. RowsNow(s)' = RowsNow(s) \cup {row}  BY <1>8, <2>1
  <2>3. Taken(s)' = Taken(s) \cup {row} /\ row \notin Taken(s)
    BY <1>3, <1>11, <1>13, <2>2 DEF Taken, RowsNow
  <2>4. Sent(s)' /\ Served(s)' /\ Busy(s)'  BY <1>4, <2>1 DEF Sent, Served, Busy
  <2>5. AskOK(s)'  BY <1>5, <1>10, <1>12, <1>4, <2>1 DEF HandlerOK, AskOK
  <2>6. TargetOK(s)'  BY <1>5, <1>10, <1>12, <2>1 DEF HandlerOK, TargetOK
  <2>7. RowsOK(s)'
    <3>1. IsFiniteSet(Taken(s)) /\ Cardinality(Taken(s)) = h[s].out.ingested
      BY <1>5 DEF HandlerOK, RowsOK
    <3>2. /\ IsFiniteSet(Taken(s) \cup {row})
          /\ Cardinality(Taken(s) \cup {row}) = Cardinality(Taken(s)) + 1
      BY <2>3, <3>1, FS_AddElement
    <3>3. IsFiniteSet(Taken(s)') /\ Cardinality(Taken(s)') = h'[s].out.ingested
      BY <1>6, <2>1, <2>3, <3>1, <3>2
    <3>4. \A r \in RowsOf(s)' : r.try \in 1..h'[s].try
      BY <1>1, <1>5, <1>6, <1>7, <2>1 DEF HandlerOK, RowsOK
    <3>5. \A r \in RowsNow(s)' : r.at \in 1..h'[s].at
      BY <1>1, <1>5, <1>6, <2>1, <2>2 DEF HandlerOK, RowsOK
    <3>6. \A r \in Taken(s)' : InTarget(r, h'[s].target)
      BY <1>2, <1>5, <2>1, <2>3 DEF HandlerOK, RowsOK
    <3>7. h'[s].pc # "idle"  BY <1>4, <2>1
    <3> QED  BY <2>4, <3>3, <3>4, <3>5, <3>6, <3>7 DEF RowsOK
  <2>8. CountOK(s)'
    <3>1. Len(h[s].items) \in Nat /\ Counts(h[s].out) = h[s].at - 1
      BY <1>4, <1>5 DEF HandlerOK, CountOK
    <3>2. Counts(h'[s].out) = h'[s].at - 1 /\ h'[s].at <= Len(h'[s].items) + 1
      BY <1>4, <1>6, <2>1, <3>1
    <3> QED  BY <1>4, <2>1, <2>4, <3>1, <3>2 DEF CountOK
  <2>9. HandlerOK(s)'  BY <2>5, <2>6, <2>7, <2>8 DEF HandlerOK
  <2> QED  BY <1>3, <1>9, <1>10, <2>1, <2>9, HandlerStep
<1>14. CASE ~Room
  <2>1. PICK x : x = Answered(h[s], 429)  OBVIOUS
  <2>2. /\ Shaped(x) /\ x.pc = "done" /\ x.status = 429 /\ x.auth = h[s].auth
        /\ x.target = h[s].target /\ x.items = h[s].items
        /\ x.req = h[s].req /\ x.out = h[s].out /\ x.at = h[s].at /\ x.try = h[s].try
    BY <1>5, <2>1, AnswerShape
  <2>3. Become(s, x)  BY <1>14, <2>1 DEF Answer, Answered
  <2>4. h'[s] = x  BY <2>3, Becomes
  <2>5. RowsNow(s)' = RowsNow(s) \cup {row}  BY <1>8, <2>2, <2>3
  <2>6. Taken(s)' = Taken(s)  BY <1>3, <1>11, <1>14, <2>5 DEF Taken, RowsNow
  <2>7. Sent(s)' /\ Served(s)' /\ ~Busy(s)'  BY <2>2, <2>4 DEF Sent, Served, Busy
  <2>8. AskOK(s)'  BY <1>5, <1>10, <1>12, <1>4, <2>2, <2>4, <2>7 DEF HandlerOK, AskOK
  <2>9. TargetOK(s)'  BY <1>5, <1>10, <1>12, <2>2, <2>4 DEF HandlerOK, TargetOK
  <2>10. RowsOK(s)'
    <3>1. \A r \in RowsOf(s)' : r.try \in 1..h'[s].try
      BY <1>1, <1>5, <1>6, <1>7, <2>2, <2>4 DEF HandlerOK, RowsOK
    <3>2. \A r \in RowsNow(s)' : r.at \in 1..h'[s].at
      BY <1>1, <1>5, <1>6, <2>2, <2>4, <2>5 DEF HandlerOK, RowsOK
    <3> QED  BY <1>5, <2>2, <2>4, <2>6, <2>7, <3>1, <3>2 DEF HandlerOK, RowsOK
  <2>11. CountOK(s)'
    <3>1. row \in shed'  BY <1>3, <1>14
    <3> QED  BY <1>1, <1>5, <2>2, <2>4, <2>7, <3>1 DEF HandlerOK, CountOK
  <2>12. HandlerOK(s)'  BY <2>8, <2>9, <2>10, <2>11 DEF HandlerOK
  <2> QED  BY <1>3, <1>9, <1>10, <2>2, <2>3, <2>12, HandlerStep
<1> QED  BY <1>13, <1>14

(* An admin changes a document, or this node reads one again.              *)
LEMMA AdministerStep == ASSUME FrontOK, Administer PROVE FrontOK'
<1>1. UNCHANGED <<h, vars>>
  BY DEF Administer, ChangeAuth, CreateEnv, DeleteEnv, Reread
<1>2. UNCHANGED <<seenAuth, seenEnvs, known>> \/ \E a, e : Seen(a, e)
  <2>1. CASE \E here \in BOOLEAN : ChangeAuth(here)  BY <2>1 DEF ChangeAuth
  <2>2. CASE \E here \in BOOLEAN : CreateEnv(here)  BY <2>2 DEF CreateEnv
  <2>3. CASE \E here \in BOOLEAN : DeleteEnv(here)  BY <2>3 DEF DeleteEnv
  <2>4. CASE Reread  BY <2>4 DEF Reread
  <2> QED  BY <2>1, <2>2, <2>3, <2>4 DEF Administer
<1>3. UNCHANGED <<seenAuth, seenEnvs, known>> \/ Seen(seenAuth', seenEnvs')
  BY <1>2 DEF Seen
<1>4. Accepted' = Accepted /\ UNCHANGED shed  BY <1>1 DEF vars, Accepted, InMemory
<1> QED  BY <1>1, <1>3, <1>4, AllBystanders

(* The writer's rows and the handlers', whichever of the two ways in is    *)
(* open.                                                                   *)
IngestOK == FrontOK /\ MovesOK

LEMMA InitIngestOK == IngestInit => IngestOK
<1>1. CASE FrontInit
  <2>1. Accepted \cup shed = {}  BY <1>1 DEF FrontInit, Init, Accepted, InMemory
  <2> QED  BY <1>1, <2>1, InitMoves, InitFrontOK DEF FrontInit, IngestOK
<1>2. CASE NoRequests
  <2>1. Accepted \cup shed = {}  BY <1>2 DEF NoRequests, Accepted, InMemory
  <2>2. FrontOK  BY <1>2, <2>1, InitFrontOK DEF NoRequests
  <2>3. MovesOK
    BY <1>2 DEF NoRequests, MovesOK, Apart, FlushesOK, WriterOK, InMemory, Accepted
  <2> QED  BY <2>2, <2>3 DEF IngestOK
<1> QED  BY <1>1, <1>2 DEF IngestInit

LEMMA NextIngestOK ==
  ASSUME IngestOK, [IngestNext]_<<everything, net>>
  PROVE  IngestOK' /\ Accepted \subseteq Accepted'
<1> USE DEF IngestOK
<1>1. ASSUME UNCHANGED vars PROVE MovesOK' /\ Accepted' = Accepted /\ UNCHANGED shed
  BY <1>1, WriterMoves
<1>2. ASSUME NEW s \in Shipper, ReadPolicy(s) \/ Resend(s) \/ ReadToken(s) \/ OpenPath(s)
                               \/ ParseRequest(s) \/ Pass(s) \/ Finish(s) \/ TaskDies(s)
      PROVE  IngestOK' /\ Accepted \subseteq Accepted'
  <2>1. UNCHANGED vars
    BY <1>2 DEF ReadPolicy, Resend, Admit, ReadToken, OpenPath, ParseRequest, Pass, Finish,
              TaskDies
  <2>2. FrontOK'
    BY <1>2, ReadPolicyStep, ResendStep, ReadTokenStep, OpenPathStep, ParseStep, PassStep, FinishStep,
       TaskDiesStep
  <2> QED  BY <1>1, <2>1, <2>2
<1>3. ASSUME NEW s \in Shipper, SubmitRow(s) PROVE IngestOK' /\ Accepted \subseteq Accepted'
  <2>1. Submit(RowNow(s)) \/ SubmitBlocking(RowNow(s))  BY <1>3 DEF SubmitRow, SendRow
  <2>2. Accepted \subseteq Accepted'  BY <2>1, SubmitMoves
  <2> QED  BY <1>3, <2>2, SubmitStep
<1>4. CASE Administer
  <2>1. UNCHANGED vars  BY <1>4 DEF Administer, ChangeAuth, CreateEnv, DeleteEnv, Reread
  <2> QED  BY <1>1, <1>4, <2>1, AdministerStep
<1>5. CASE (WriterStep \/ UNCHANGED vars) /\ UNCHANGED front
  <2>1. MovesOK' /\ Accepted' = Accepted /\ UNCHANGED shed  BY <1>5, WriterMoves
  <2>2. FrontOK'  BY <1>5, <2>1, AllBystanders DEF front, documents
  <2> QED  BY <2>1, <2>2
<1> QED  BY <1>2, <1>3, <1>4, <1>5 DEF IngestNext, FrontNext, Handle, everything

(* The inductive invariant of requests and writer together.                *)
THEOREM RequestsAndRows == IngestSpec => []IngestOK
<1>1. IngestOK /\ [IngestNext]_<<everything, net>> => IngestOK'  BY NextIngestOK
<1> QED  BY <1>1, InitIngestOK, PTL DEF IngestSpec

(* A row is accepted only where the tokens, the policy and the             *)
(* environments let its request write (authorize_ingest, resolve_target,   *)
(* submit_routed), for every sequence of changes to them.                  *)
THEOREM RowsStayInScope == IngestSpec => []ScopeHolds
<1>1. ASSUME IngestOK PROVE ScopeHolds
  <2> SUFFICES ASSUME NEW s \in Shipper, NEW r \in Taken(s)
               PROVE  /\ \E k \in known[s] : EnabledIn(k[1], h[s].req)
                      /\ \E k, l \in known[s] : \/ ByToken(k[1], h[s].req, r.part)
                                                \/ ByDefault(k[1], l[2], h[s].req, r.part)
    BY DEF ScopeHolds
  <2>1. HandlerOK(s) /\ r \in RowsNow(s)  BY <1>1 DEF IngestOK, FrontOK, Taken
  <2>2. Served(s)  BY <2>1 DEF HandlerOK, RowsOK, Served
  <2>3. PICK k \in known[s], l \in known[s] :
          Granted(k[1], h[s].req, h[s].target) \/ ByPolicy(k[1], l[2], h[s].req, h[s].target)
    BY <2>1, <2>2 DEF HandlerOK, TargetOK
  <2>4. InTarget(r, h[s].target)  BY <2>1 DEF HandlerOK, RowsOK
  <2>5. ByToken(k[1], h[s].req, r.part) \/ ByDefault(k[1], l[2], h[s].req, r.part)
    BY <2>3, <2>4 DEF Granted, ByPolicy, InTarget, ByToken, ByDefault
  <2>6. \E c \in known[s] : EnabledIn(c[1], h[s].req)  BY <2>1, <2>2 DEF HandlerOK, AskOK
  <2> QED  BY <2>5, <2>6
<1> QED  BY <1>1, RequestsAndRows, PTL

(* PassedOK: what became of the items behind a handler.  A counter is what *)
(* is left of an item that was not taken in and that no token bars.        *)
PassedOK(s) ==
  \A i \in 1..(h[s].at - 1) :
    \/ Arrived(s, i) \/ Barred(s, i)
    \/ h[s].items[i][2][1] # "obj" /\ h[s].out.rowErrors > 0
    \/ ~open /\ h[s].out.writeErrors > 0

AllPassedOK == \A s \in Shipper : PassedOK(s)

LEMMA StaysClosed == ASSUME [IngestNext]_<<everything, net>> PROVE open' => open
<1>1. CASE UNCHANGED vars  BY <1>1 DEF vars, channel
<1>2. ASSUME NEW r, Submit(r) \/ SubmitBlocking(r) PROVE UNCHANGED open
  BY <1>2 DEF Submit, SubmitBlocking
<1>3. CASE WriterStep
  <2>1. CASE DropSenders \/ Tick  BY <2>1 DEF DropSenders, Tick, channel
  <2>2. CASE Write
    BY <2>2 DEF Write, DrainRow, DrainEnds, WaitRow, WaitTimeout, WaitClosed, TakeSlot, Exit,
                Receive, channel
  <2>3. CASE FlushStep \/ \E f \in flushing : FlushPanics(f)
    BY <2>3, FlushLeaves, Zenon DEF FlushStep, channel
  <2> QED  BY <1>3, <2>1, <2>2, <2>3 DEF WriterStep
<1>4. CASE \E s \in Shipper : ReadPolicy(s) \/ Handle(s) \/ Resend(s)
  <2>1. PICK s \in Shipper : ReadPolicy(s) \/ Handle(s) \/ Resend(s)  BY <1>4
  <2>2. CASE SubmitRow(s)  BY <2>2, <1>2 DEF SubmitRow, SendRow
  <2>3. CASE ~SubmitRow(s)
    BY <1>1, <2>1, <2>3
    DEF Handle, ReadPolicy, Resend, Admit, ReadToken, OpenPath, ParseRequest, Pass, Finish, TaskDies
  <2> QED  BY <2>2, <2>3
<1>5. CASE Administer
  BY <1>1, <1>5 DEF Administer, ChangeAuth, CreateEnv, DeleteEnv, Reread
<1> QED  BY <1>1, <1>3, <1>4, <1>5 DEF IngestNext, FrontNext, everything

(* The rows of a request stay where they are, and more may come.           *)
LEMMA TakenGrows ==
  ASSUME NEW s \in Shipper, h'[s].try = h[s].try, Accepted \subseteq Accepted',
         \A r : r.from = s => (r \in shed' => r \in shed)
  PROVE  Taken(s) \subseteq Taken(s)'
BY DEF Taken, RowsNow

LEMMA PassedStays ==
  ASSUME NEW s \in Shipper, PassedOK(s), Taken(s) \subseteq Taken(s)', open' => open,
         h'[s].items = h[s].items, h'[s].target = h[s].target, h'[s].at = h[s].at,
         h'[s].out = h[s].out
  PROVE  PassedOK(s)'
BY DEF PassedOK, Arrived, Barred

(* A handler that has passed nothing.                                      *)
LEMMA NothingPassed == ASSUME NEW s \in Shipper, h'[s].at = 1 PROVE PassedOK(s)'
BY DEF PassedOK

(* The other handlers stay.                                                *)
LEMMA PassedStep ==
  ASSUME FrontOK, AllPassedOK, NEW s \in Shipper, NEW x, Become(s, x), PassedOK(s)',
         open' => open, Accepted \subseteq Accepted',
         \A r : r.from # s => (r \in shed' => r \in shed)
  PROVE  AllPassedOK'
<1>1. \A t \in Shipper : t # s => h'[t] = h[t]  BY DEF Become, FrontOK, ShapeOK
<1>2. ASSUME NEW t \in Shipper, t # s PROVE PassedOK(t)'
  <2>1. Taken(t) \subseteq Taken(t)'  BY <1>1, <1>2, TakenGrows
  <2> QED  BY <1>1, <1>2, <2>1, PassedStays DEF AllPassedOK
<1> QED  BY <1>2 DEF AllPassedOK

(* One item more behind the handler, and what became of it.                *)
LEMMA OneMorePassed ==
  ASSUME NEW s \in Shipper, PassedOK(s), Taken(s) \subseteq Taken(s)', open' => open,
         h[s].at \in Nat \ {0}, h'[s].at = h[s].at + 1,
         h'[s].items = h[s].items, h'[s].target = h[s].target,
         h[s].out.rowErrors > 0 => h'[s].out.rowErrors > 0,
         h[s].out.writeErrors > 0 => h'[s].out.writeErrors > 0,
         \/ (\E r \in Taken(s)' : r.at = h[s].at) \/ Barred(s, h[s].at)
         \/ ItemNow(s)[2][1] # "obj" /\ h'[s].out.rowErrors > 0
         \/ ~open' /\ h'[s].out.writeErrors > 0
  PROVE  PassedOK(s)'
<1> SUFFICES ASSUME NEW i \in 1..(h'[s].at - 1)
             PROVE  \/ Arrived(s, i)' \/ Barred(s, i)'
                    \/ h'[s].items[i][2][1] # "obj" /\ h'[s].out.rowErrors > 0
                    \/ ~open' /\ h'[s].out.writeErrors > 0
  BY DEF PassedOK, Arrived, Barred
<1>1. CASE i \in 1..(h[s].at - 1)  BY <1>1 DEF PassedOK, Arrived, Barred
<1>2. CASE i = h[s].at  BY <1>2 DEF Arrived, Barred, ItemNow
<1> QED  BY <1>1, <1>2

LEMMA CountedHow ==
  ASSUME FrontOK, NEW s \in Shipper, NEW what \in Counters, Counted(s, what)
  PROVE  /\ h'[s].out.rowErrors = h[s].out.rowErrors + (IF what = "rowErrors" THEN 1 ELSE 0)
         /\ h'[s].out.writeErrors = h[s].out.writeErrors + (IF what = "writeErrors" THEN 1 ELSE 0)
         /\ h[s].out.rowErrors \in Nat /\ h[s].out.writeErrors \in Nat
<1>1. PICK c : c = h[s].out  OBVIOUS
<1>2. c \in [ingested : Nat, rejected : Nat, rowErrors : Nat, writeErrors : Nat]
  BY <1>1 DEF FrontOK, ShapeOK
<1>3. PICK o : o = [c EXCEPT ![what] = c[what] + 1]  OBVIOUS
<1>4. h'[s].out = o
  <2>1. Become(s, [h[s] EXCEPT !.at = h[s].at + 1, !.out = o])  BY <1>1, <1>3 DEF Counted
  <2>2. PICK x : x = [h[s] EXCEPT !.at = h[s].at + 1, !.out = o]  OBVIOUS
  <2>3. h'[s] = x  BY <2>1, <2>2, Becomes
  <2>4. PICK r : r = h[s]  OBVIOUS
  <2>5. r = [pc |-> r.pc, req |-> r.req, auth |-> r.auth, target |-> r.target,
             items |-> r.items, parseErrors |-> r.parseErrors, at |-> r.at,
             out |-> r.out, try |-> r.try, status |-> r.status]
    BY <2>4 DEF FrontOK, ShapeOK
  <2>6. x.out = o  BY <2>2, <2>4, <2>5
  <2> QED  BY <2>3, <2>6
<1>5. CASE what = "ingested"
  <2>1. o = [c EXCEPT !.ingested = c.ingested + 1]  BY <1>3, <1>5
  <2> QED  BY <1>1, <1>2, <1>4, <1>5, <2>1
<1>6. CASE what = "rejected"
  <2>1. o = [c EXCEPT !.rejected = c.rejected + 1]  BY <1>3, <1>6
  <2> QED  BY <1>1, <1>2, <1>4, <1>6, <2>1
<1>7. CASE what = "rowErrors"
  <2>1. o = [c EXCEPT !.rowErrors = c.rowErrors + 1]  BY <1>3, <1>7
  <2> QED  BY <1>1, <1>2, <1>4, <1>7, <2>1
<1>8. CASE what = "writeErrors"
  <2>1. o = [c EXCEPT !.writeErrors = c.writeErrors + 1]  BY <1>3, <1>8
  <2> QED  BY <1>1, <1>2, <1>4, <1>8, <2>1
<1> QED  BY <1>5, <1>6, <1>7, <1>8 DEF Counters

(* A handler that only answers, or whose task dies, passes nothing.        *)
LEMMA AnswerPasses ==
  ASSUME FrontOK, AllPassedOK, NEW s \in Shipper, NEW status, NEW x,
         x = Answered(h[s], status) \/ x = Dead(h[s], status), Become(s, x),
         open' => open, Accepted \subseteq Accepted',
         \A r \in shed' : r \in shed \/ r \notin Taken(s)
  PROVE  PassedOK(s)'
<1>1. /\ x.items = h[s].items /\ x.target = h[s].target /\ x.at = h[s].at
      /\ x.out = h[s].out /\ x.try = h[s].try
  BY AnswerShape, DeadShape DEF FrontOK, ShapeOK, Shaped
<1>2. h'[s] = x  BY Becomes
<1>3. Taken(s) \subseteq Taken(s)'  BY <1>1, <1>2 DEF Taken, RowsNow
<1> QED  BY <1>1, <1>2, <1>3, PassedStays DEF AllPassedOK

Aimed(r, target) == [r EXCEPT !.pc = "parse", !.target = target]
Opened(r) == [r EXCEPT !.pc = "open"]
Parsed(r, items, errors) == [r EXCEPT !.pc = "send", !.items = items, !.parseErrors = errors]

(* A request that has sent nothing has passed nothing.                     *)
LEMMA UnsentPasses ==
  ASSUME FrontOK, NEW s \in Shipper,
         \/ ReadPolicy(s) \/ Resend(s) \/ ReadToken(s) \/ OpenPath(s) \/ ParseRequest(s)
  PROVE  PassedOK(s)' /\ \E x : Become(s, x)
<1>1. PICK r : r = h[s]  OBVIOUS
<1>2. r = [pc |-> r.pc, req |-> r.req, auth |-> r.auth, target |-> r.target,
           items |-> r.items, parseErrors |-> r.parseErrors, at |-> r.at,
           out |-> r.out, try |-> r.try, status |-> r.status]
  BY <1>1 DEF FrontOK, ShapeOK
<1>3. ASSUME NEW req, NEW try, Admit(s, req, try) PROVE PassedOK(s)' /\ \E x : Become(s, x)
  <2> DEFINE on == [Idle(try) EXCEPT !.pc = "token", !.req = req, !.auth = seenAuth]
             off == [Idle(try) EXCEPT !.pc = "done", !.req = req, !.status = 403]
             x == IF EnabledIn(seenAuth, req) THEN on ELSE off
  <2>1. on.at = 1 /\ off.at = 1  BY DEF Idle
  <2>2. Become(s, x)  BY <1>3 DEF Admit
  <2> HIDE DEF on, off
  <2>3. x.at = 1  BY <2>1
  <2> HIDE DEF x
  <2>4. h'[s] = x  BY <2>2, Becomes
  <2> QED  BY <2>2, <2>3, <2>4, NothingPassed
<1>4. CASE ReadPolicy(s) \/ Resend(s)  BY <1>3, <1>4 DEF ReadPolicy, Resend
<1>5. ASSUME h[s].pc \in {"token", "open", "parse"}, NEW x, Become(s, x), x.at = h[s].at
      PROVE  PassedOK(s)'
  <2>1. ~Sent(s)  BY <1>5 DEF Sent
  <2>2. h[s].at = 1  BY <2>1 DEF FrontOK, HandlerOK, CountOK
  <2>3. h'[s] = x  BY <1>5, Becomes
  <2> QED  BY <1>5, <2>2, <2>3, NothingPassed
<1>6. /\ \A status : Answered(r, status).at = r.at
      /\ \A target : Aimed(r, target).at = r.at
      /\ \A items, errors : Parsed(r, items, errors).at = r.at
      /\ Opened(r).at = r.at
  BY <1>2 DEF Answered, Aimed, Parsed, Opened
<1>7. ASSUME h[s].pc \in {"token", "open", "parse"}, NEW x, Become(s, x),
             \/ \E status : x = Answered(r, status)
             \/ \E target : x = Aimed(r, target)
             \/ \E items, errors : x = Parsed(r, items, errors)
             \/ x = Opened(r)
      PROVE  PassedOK(s)' /\ \E y : Become(s, y)
  <2>1. x.at = h[s].at  BY <1>1, <1>6, <1>7
  <2> QED  BY <1>5, <1>7, <2>1
<1>8. ASSUME h[s].pc \in {"token", "open", "parse"}, NEW status, Answer(s, status)
      PROVE  PassedOK(s)' /\ \E y : Become(s, y)
  <2>1. Become(s, Answered(r, status))  BY <1>1, <1>8 DEF Answer, Answered
  <2> QED  BY <1>7, <1>8, <2>1
<1>9. ASSUME h[s].pc \in {"token", "open", "parse"}, NEW target, Aim(s, target)
      PROVE  PassedOK(s)' /\ \E y : Become(s, y)
  <2>1. Become(s, Aimed(r, target))  BY <1>1, <1>9 DEF Aim, Aimed
  <2> QED  BY <1>7, <1>9, <2>1
<1>10. CASE ReadToken(s)
  <2>1. h[s].pc = "token"  BY <1>10 DEF ReadToken
  <2>2. CASE Become(s, [h[s] EXCEPT !.pc = "open"])
    <3>1. Become(s, Opened(r))  BY <1>1, <2>2 DEF Opened
    <3> QED  BY <1>7, <2>1, <3>1
  <2> QED  BY <1>8, <1>9, <1>10, <2>1, <2>2 DEF ReadToken
<1>11. CASE OpenPath(s)
  BY <1>8, <1>9, <1>11 DEF OpenPath
<1>12. CASE ParseRequest(s)
  <2>1. h[s].pc = "parse"  BY <1>12 DEF ParseRequest
  <2>2. PICK got : Decoded(s, got)  BY <1>12 DEF ParseRequest
  <2>3. CASE got.ok
    <3>1. Become(s, Parsed(r, got.items, got.errors))
      BY <1>1, <2>2, <2>3 DEF Decoded, Parsed
    <3> QED  BY <1>7, <2>1, <3>1
  <2> QED  BY <1>8, <2>1, <2>2, <2>3 DEF Decoded
<1> QED  BY <1>4, <1>10, <1>11, <1>12

LEMMA NextPassed ==
  ASSUME IngestOK, AllPassedOK, [IngestNext]_<<everything, net>>
  PROVE  AllPassedOK'
<1>1. (open' => open) /\ Accepted \subseteq Accepted' /\ FrontOK
  BY StaysClosed, NextIngestOK DEF IngestOK
<1>2. ASSUME UNCHANGED h, UNCHANGED shed PROVE AllPassedOK'
  <2>1. ASSUME NEW s \in Shipper PROVE PassedOK(s)'
    <3>1. Taken(s) \subseteq Taken(s)'  BY <1>1, <1>2, TakenGrows
    <3> QED  BY <1>1, <1>2, <3>1, PassedStays DEF AllPassedOK
  <2> QED  BY <2>1 DEF AllPassedOK
<1>3. ASSUME NEW s \in Shipper,
             \/ ReadPolicy(s) \/ Resend(s) \/ ReadToken(s) \/ OpenPath(s) \/ ParseRequest(s)
      PROVE  AllPassedOK'
  <2>1. UNCHANGED shed
    BY <1>3 DEF ReadPolicy, Resend, Admit, ReadToken, OpenPath, ParseRequest, vars, channel
  <2>2. PassedOK(s)' /\ \E x : Become(s, x)  BY <1>1, <1>3, UnsentPasses
  <2> QED  BY <1>1, <2>1, <2>2, PassedStep
<1>4. ASSUME NEW s \in Shipper, Finish(s) \/ TaskDies(s) PROVE AllPassedOK'
  <2>1. UNCHANGED shed  BY <1>4 DEF Finish, TaskDies, vars, channel
  <2>2. PICK status, x : Become(s, x) /\ (x = Answered(h[s], status) \/ x = Dead(h[s], status))
    <3>1. CASE Finish(s)
      <4>1. PICK status : Answer(s, status)  BY <3>1 DEF Finish
      <4>2. Become(s, Answered(h[s], status))  BY <4>1 DEF Answer, Answered
      <4> QED  BY <4>2
    <3>2. CASE TaskDies(s)
      <4>1. PICK status : Become(s, Dead(h[s], status))  BY <3>2 DEF TaskDies, Dead
      <4> QED  BY <4>1
    <3> QED  BY <1>4, <3>1, <3>2
  <2>3. PassedOK(s)'  BY <1>1, <2>1, <2>2, AnswerPasses
  <2> QED  BY <1>1, <2>1, <2>2, <2>3, PassedStep
<1>5. ASSUME NEW s \in Shipper, NEW what \in Counters, Counted(s, what),
             \A r : r.from = s => (r \in shed' => r \in shed),
             \/ what = "ingested" /\ \E r \in Taken(s)' : r.at = h[s].at
             \/ what = "rejected" /\ Barred(s, h[s].at)
             \/ what = "rowErrors" /\ ItemNow(s)[2][1] # "obj"
             \/ what = "writeErrors" /\ ~open
      PROVE  PassedOK(s)' /\ \E x : Become(s, x)
  <2>1. /\ Become(s, h'[s]) /\ h'[s].at = h[s].at + 1 /\ h'[s].try = h[s].try
        /\ h'[s].target = h[s].target /\ h'[s].items = h[s].items
    BY <1>1, <1>5, CountedOnce
  <2>2. /\ h'[s].out.rowErrors = h[s].out.rowErrors + (IF what = "rowErrors" THEN 1 ELSE 0)
        /\ h'[s].out.writeErrors = h[s].out.writeErrors + (IF what = "writeErrors" THEN 1 ELSE 0)
        /\ h[s].out.rowErrors \in Nat /\ h[s].out.writeErrors \in Nat
    BY <1>1, <1>5, CountedHow
  <2>3. Taken(s) \subseteq Taken(s)'  BY <1>1, <1>5, <2>1, TakenGrows
  <2>4. /\ h[s].out.rowErrors > 0 => h'[s].out.rowErrors > 0
        /\ h[s].out.writeErrors > 0 => h'[s].out.writeErrors > 0
        /\ what = "rowErrors" => h'[s].out.rowErrors > 0
        /\ what = "writeErrors" => h'[s].out.writeErrors > 0
    BY <2>2
  <2>5. h[s].at \in Nat \ {0}  BY <1>1 DEF FrontOK, ShapeOK
  <2>6. PassedOK(s)  BY DEF AllPassedOK
  <2> QED  BY <1>1, <1>5, <2>1, <2>3, <2>4, <2>5, <2>6, OneMorePassed
<1>6. ASSUME NEW s \in Shipper, Pass(s) PROVE AllPassedOK'
  <2>1. UNCHANGED shed  BY <1>6 DEF Pass, vars, channel
  <2>2. \/ Counted(s, "rejected") /\ Barred(s, h[s].at)
        \/ Counted(s, "rowErrors") /\ ItemNow(s)[2][1] # "obj"
        \/ Counted(s, "writeErrors") /\ ~open
    BY <1>6 DEF Pass, Allowed, Barred, ItemNow, IsRow
  <2>3. PassedOK(s)' /\ \E x : Become(s, x)  BY <1>5, <2>1, <2>2 DEF Counters
  <2> QED  BY <1>1, <2>1, <2>3, PassedStep
<1>7. ASSUME NEW s \in Shipper, SubmitRow(s) PROVE AllPassedOK'
  <2>1. PICK row : row = RowNow(s)  OBVIOUS
  <2>2. row.from = s /\ row.try = h[s].try /\ row.at = h[s].at  BY <2>1 DEF RowNow
  <2>3. /\ Fresh(row)
        /\ Room => Accepted' = Accepted \cup {row} /\ UNCHANGED shed
        /\ ~Room => shed' = shed \cup {row} /\ Accepted' = Accepted
    BY <1>7, <2>1, SubmitMoves DEF SubmitRow, SendRow, IngestOK
  <2>4. row \notin Accepted \cup shed  BY <2>3 DEF Fresh
  <2>5. \A r : r.from # s => (r \in shed' => r \in shed)  BY <2>2, <2>3
  <2>6. CASE Room
    <3>1. Counted(s, "ingested")  BY <1>7, <2>6 DEF SubmitRow
    <3>2. h'[s].try = h[s].try  BY <1>1, <3>1, CountedOnce DEF Counters
    <3>3. row \in Taken(s)'  BY <2>2, <2>3, <2>4, <2>6, <3>2 DEF Taken, RowsNow
    <3>4. PassedOK(s)' /\ \E x : Become(s, x)  BY <1>5, <2>2, <2>3, <2>6, <3>1, <3>3 DEF Counters
    <3> QED  BY <1>1, <2>5, <3>4, PassedStep
  <2>7. CASE ~Room
    <3>1. PICK x : x = Answered(h[s], 429) /\ Become(s, x)
      BY <1>7, <2>7 DEF SubmitRow, Answer, Answered
    <3>2. \A r \in shed' : r \in shed \/ r \notin Taken(s)
      BY <2>3, <2>4, <2>7 DEF Taken, RowsNow
    <3>3. PassedOK(s)'  BY <1>1, <3>1, <3>2, AnswerPasses
    <3> QED  BY <1>1, <2>5, <3>1, <3>3, PassedStep
  <2> QED  BY <2>6, <2>7
<1>8. CASE Administer
  BY <1>2, <1>8 DEF Administer, ChangeAuth, CreateEnv, DeleteEnv, Reread, vars, channel
<1>9. CASE (WriterStep \/ UNCHANGED vars) /\ UNCHANGED front
  <2>1. UNCHANGED shed  BY <1>9, WriterMoves DEF IngestOK
  <2> QED  BY <1>2, <1>9, <2>1 DEF front
<1> QED  BY <1>3, <1>4, <1>6, <1>7, <1>8, <1>9 DEF IngestNext, FrontNext, Handle, everything

(* A shipper may go by its answer (IngestOutcome, the answers of the six   *)
(* protocols, the 429 of a full queue) as far as its protocol's goes,      *)
(* however others' rows come in between and whatever admins change.  The   *)
(* answer of a request whose task died is not among them.                  *)
THEOREM AnswersAreHonest == IngestSpec => []AnswerHonest
<1>1. IngestInit => AllPassedOK
  <2>1. ASSUME NEW scene, FrontAt(scene), NEW s \in Shipper PROVE h[s].at = 1
    <3>1. h[s] = [Idle(1) EXCEPT !.pc = IF s \in scene.senders THEN @ ELSE "silent"]
      BY <2>1 DEF FrontAt
    <3> QED  BY <3>1 DEF Idle
  <2> QED  BY <2>1 DEF IngestInit, FrontInit, NoRequests, AllPassedOK, PassedOK
<1>2. IngestOK /\ AllPassedOK /\ [IngestNext]_<<everything, net>> => AllPassedOK'
  BY NextPassed
<1>3. ASSUME IngestOK, AllPassedOK PROVE AnswerHonest
  <2> SUFFICES ASSUME NEW s \in Shipper, h[s].pc = "done", NEW x, x = h[s], NEW said, said = Reply(x),
                      NEW n, n = Cardinality(Taken(s))
               PROVE  /\ "ingested" \in DOMAIN said =>
                           said.ingested = n /\ said.errors = x.parseErrors + (Len(x.items) - n)
                      /\ "items" \in DOMAIN said =>
                           /\ said.items = n
                           /\ ~said.failed =>
                                \A i \in 1..Len(x.items) : Arrived(s, i) \/ Barred(s, i)
                      /\ x.status \in {200, 204} =>
                           \A i \in 1..Len(x.items) : Arrived(s, i) \/ Barred(s, i) \/ Unfit(s, i)
                      /\ x.status = 429 =>
                           /\ \A i \in 1..(x.at - 1) : Arrived(s, i) \/ Barred(s, i) \/ Unfit(s, i)
                           /\ {r.at : r \in RowsNow(s)} \subseteq 1..x.at
                           /\ \E r \in shed : r.from = s /\ r.try = x.try /\ r.at = x.at
                      /\ x.status \in {400, 401, 403} => RowsNow(s) = {}
    BY DEF AnswerHonest
  <2>1. HandlerOK(s) /\ Shaped(x) /\ PassedOK(s)
    BY <1>3 DEF IngestOK, FrontOK, ShapeOK, Shaped, AllPassedOK
  <2>2. n = x.out.ingested  BY <2>1 DEF HandlerOK, RowsOK
  <2>3. PICK o : o = x.out  OBVIOUS
  <2>4. o \in [ingested : Nat, rejected : Nat, rowErrors : Nat, writeErrors : Nat]
    BY <2>1, <2>3 DEF Shaped
  <2>5. ASSUME x.status \in {200, 204}
        PROVE  Len(x.items) \in Nat /\ x.at = Len(x.items) + 1
    BY <2>1, <2>5 DEF HandlerOK, CountOK
  <2>6. ASSUME x.status \in {200, 204}
        PROVE  o.rejected + o.rowErrors + o.writeErrors = Len(x.items) - n
    <3>1. o.ingested + o.rejected + o.rowErrors + o.writeErrors = x.at - 1
      BY <2>1, <2>3 DEF HandlerOK, CountOK, Counts
    <3>2. /\ o.ingested \in Nat /\ o.rejected \in Nat /\ o.rowErrors \in Nat /\ o.writeErrors \in Nat
          /\ n = o.ingested
      BY <2>2, <2>3, <2>4
    <3>3. PICK a, b, c : a = o.rejected /\ b = o.rowErrors /\ c = o.writeErrors  OBVIOUS
    <3>4. PICK len : len = Len(x.items)  OBVIOUS
    <3>5. len \in Nat /\ x.at = len + 1 /\ n + a + b + c = x.at - 1
      BY <2>5, <2>6, <3>1, <3>2, <3>3, <3>4
    <3>6. a + b + c = len - n  BY <3>2, <3>3, <3>5
    <3> QED  BY <3>3, <3>4, <3>6
  <2>7. \A i \in 1..(x.at - 1) :
          \/ Arrived(s, i) \/ Barred(s, i)
          \/ x.items[i][2][1] # "obj" /\ o.rowErrors > 0
          \/ ~open /\ o.writeErrors > 0
    BY <2>1, <2>3 DEF PassedOK
  <2>8. \A i \in 1..(x.at - 1) : Arrived(s, i) \/ Barred(s, i) \/ Unfit(s, i)
    BY <2>7 DEF Unfit
  <2>9. ASSUME x.status \in {200, 204}
        PROVE  /\ \A i \in 1..Len(x.items) : Arrived(s, i) \/ Barred(s, i) \/ Unfit(s, i)
               /\ ~(o.rowErrors > 0) /\ ~(o.writeErrors > 0) =>
                    \A i \in 1..Len(x.items) : Arrived(s, i) \/ Barred(s, i)
    <3>1. x.at - 1 = Len(x.items)  BY <2>5, <2>9
    <3> QED  BY <2>7, <2>8, <3>1
  <2>10. CASE x.status = 200 /\ x.req.proto \notin Uncounted
    <3>1. said = [ingested |-> o.ingested,
                  errors |-> x.parseErrors + (o.rejected + o.rowErrors + o.writeErrors)]
      BY <2>3, <2>10 DEF Reply, Uncounted
    <3>2. said.ingested = n /\ said.errors = x.parseErrors + (Len(x.items) - n)
      BY <2>2, <2>3, <2>6, <2>10, <3>1
    <3>3. "items" \notin DOMAIN said  BY <3>1
    <3> QED  BY <2>9, <2>10, <3>2, <3>3
  <2>11. CASE /\ ~(x.status = 200 /\ x.req.proto \notin Uncounted)
              /\ x.status \in {200, 429} /\ x.req.proto = "es"
    <3>1. said = [items |-> o.ingested,
                  failed |-> x.status = 429 \/ o.rowErrors > 0 \/ o.writeErrors > 0]
      BY <2>3, <2>11 DEF Reply, Uncounted
    <3>2. "ingested" \notin DOMAIN said /\ said.items = n  BY <2>2, <2>3, <3>1
    <3>3. ~said.failed => x.status = 200 /\ ~(o.rowErrors > 0) /\ ~(o.writeErrors > 0)
      <4>1. said.failed = (x.status = 429 \/ o.rowErrors > 0 \/ o.writeErrors > 0)  BY <3>1
      <4> QED  BY <2>11, <4>1
    <3> QED  BY <2>1, <2>8, <2>9, <2>11, <3>2, <3>3 DEF HandlerOK, RowsOK, CountOK
  <2>12. CASE /\ ~(x.status = 200 /\ x.req.proto \notin Uncounted)
              /\ ~(x.status \in {200, 429} /\ x.req.proto = "es")
    <3>1. said = <<>>  BY <2>12 DEF Reply, Uncounted
    <3>2. "ingested" \notin DOMAIN said /\ "items" \notin DOMAIN said  BY <3>1
    <3>3. x.status \in {400, 401, 403} => RowsNow(s) = {}
      BY <2>1 DEF HandlerOK, RowsOK, Sent
    <3>4. {r.at : r \in RowsNow(s)} \subseteq 1..x.at  BY <2>1 DEF HandlerOK, RowsOK
    <3>5. x.status = 429 => \E r \in shed : r.from = s /\ r.try = x.try /\ r.at = x.at
      BY <2>1 DEF HandlerOK, CountOK
    <3> QED  BY <2>8, <2>9, <3>2, <3>3, <3>4, <3>5
  <2> QED  BY <2>10, <2>11, <2>12
<1> QED  BY <1>1, <1>2, <1>3, RequestsAndRows, PTL DEF IngestSpec

-----------------------------------------------------------------------------
(***************************************************************************)
(* From a body to the rows of its sender.  A decoder is a function of a    *)
(* body; what a proof can add is that a handler sends what its decoder     *)
(* gave for this request and this index, from the first row to the last,   *)
(* whatever the writer and the admins do meanwhile.                        *)
(***************************************************************************)
(* The decoders bring the sender's rows through, their times as nearly as  *)
(* AsSaid has it: a fact about constants.                                  *)
DecodersFaithful ==
  \A s \in Shipper : \A req \in Requests[s] :
    LET got == ItemsOf(req, IndexOf(req))
    IN  req.said # Absent /\ got.ok => AsSaid(req.said, got.errors, got.items)

DecodedFrom(x) ==
  LET got == ItemsOf(x.req, IndexOf(x.req))
  IN  got.ok /\ x.items = got.items /\ x.parseErrors = got.errors

DecodedOK == \A s \in Shipper : h[s].pc = "send" => DecodedFrom(h[s])

(* The other handlers stay.                                                *)
LEMMA DecodedStep ==
  ASSUME FrontOK, DecodedOK, NEW s \in Shipper, NEW x, Become(s, x),
         x.pc = "send" => DecodedFrom(x)
  PROVE  DecodedOK'
<1>1. h'[s] = x /\ \A t \in Shipper : t # s => h'[t] = h[t]
  BY DEF Become, FrontOK, ShapeOK
<1>2. ASSUME NEW t \in Shipper, h'[t].pc = "send" PROVE DecodedFrom(h'[t])
  <2>1. CASE t = s  BY <1>1, <1>2, <2>1
  <2>2. CASE t # s  BY <1>1, <1>2, <2>2 DEF DecodedOK
  <2> QED  BY <2>1, <2>2
<1> QED  BY <1>2 DEF DecodedOK, DecodedFrom

(* What counting an item leaves of a handler's record.                     *)
Stepped(r, at, out) == [r EXCEPT !.at = at, !.out = out]

(* A handler that counts, answers or asks again decodes nothing.           *)
LEMMA HandlerKeeps ==
  ASSUME FrontOK, NEW s \in Shipper
  PROVE  /\ \A status : Answered(h[s], status).pc = "done"
         /\ \A at, out, x :
              x = Stepped(h[s], at, out)
                => x.req = h[s].req /\ x.items = h[s].items /\ x.parseErrors = h[s].parseErrors
         /\ \A target : [h[s] EXCEPT !.pc = "parse", !.target = target].pc = "parse"
         /\ [h[s] EXCEPT !.pc = "open"].pc = "open"
<1>1. PICK r : r = h[s]  OBVIOUS
<1>2. r = [pc |-> r.pc, req |-> r.req, auth |-> r.auth, target |-> r.target,
           items |-> r.items, parseErrors |-> r.parseErrors, at |-> r.at,
           out |-> r.out, try |-> r.try, status |-> r.status]
  BY <1>1 DEF FrontOK, ShapeOK
<1>3. \A status : Answered(r, status).pc = "done"  BY <1>2 DEF Answered
<1>4. ASSUME NEW at, NEW out, NEW x, x = Stepped(r, at, out)
      PROVE  x.req = r.req /\ x.items = r.items /\ x.parseErrors = r.parseErrors
  BY <1>2, <1>4 DEF Stepped
<1>5. \A target : [r EXCEPT !.pc = "parse", !.target = target].pc = "parse"  BY <1>2
<1>6. [r EXCEPT !.pc = "open"].pc = "open"  BY <1>2
<1>7. \A at, out, x :
        x = Stepped(h[s], at, out)
          => x.req = h[s].req /\ x.items = h[s].items /\ x.parseErrors = h[s].parseErrors
  BY <1>1, <1>4
<1>8. \A target : [h[s] EXCEPT !.pc = "parse", !.target = target].pc = "parse"  BY <1>1, <1>5
<1>9. \A status : Answered(h[s], status).pc = "done"  BY <1>1, <1>3
<1> QED  BY <1>1, <1>6, <1>7, <1>8, <1>9

LEMMA AdmitDecodes ==
  ASSUME FrontOK, DecodedOK, NEW s \in Shipper, NEW req, NEW try, Admit(s, req, try)
  PROVE  DecodedOK'
<1> DEFINE on == [Idle(try) EXCEPT !.pc = "token", !.req = req, !.auth = seenAuth]
           off == [Idle(try) EXCEPT !.pc = "done", !.req = req, !.status = 403]
           x == IF EnabledIn(seenAuth, req) THEN on ELSE off
<1>1. on.pc = "token" /\ off.pc = "done"  BY DEF Idle
<1>2. Become(s, x)  BY DEF Admit
<1> HIDE DEF on, off
<1>3. x.pc # "send"  BY <1>1
<1> HIDE DEF x
<1> QED  BY <1>2, <1>3, DecodedStep

LEMMA NextDecoded ==
  ASSUME FrontOK, DecodedOK, [IngestNext]_<<everything, net>>
  PROVE  DecodedOK'
<1>1. CASE UNCHANGED h  BY <1>1 DEF DecodedOK, DecodedFrom
<1>2. ASSUME NEW s \in Shipper, NEW status, Answer(s, status) PROVE DecodedOK'
  <2>1. Become(s, Answered(h[s], status))  BY <1>2 DEF Answer, Answered
  <2> QED  BY <2>1, HandlerKeeps, DecodedStep
<1>3. ASSUME NEW s \in Shipper, NEW target, Aim(s, target) PROVE DecodedOK'
  <2> DEFINE x == [h[s] EXCEPT !.pc = "parse", !.target = target]
  <2>1. Become(s, x)  BY <1>3 DEF Aim
  <2>2. x.pc # "send"
    <3>1. x.pc = "parse"  BY HandlerKeeps
    <3> QED  BY <3>1
  <2> HIDE DEF x
  <2> QED  BY <2>1, <2>2, DecodedStep
<1>4. ASSUME NEW s \in Shipper, h[s].pc = "send", NEW what, Counted(s, what) PROVE DecodedOK'
  <2> DEFINE at == h[s].at + 1
             out == [h[s].out EXCEPT ![what] = h[s].out[what] + 1]
             x == Stepped(h[s], at, out)
  <2>2. Become(s, x)  BY <1>4 DEF Counted, Stepped
  <2> HIDE DEF at, out
  <2>1. x = Stepped(h[s], at, out)  OBVIOUS
  <2>3. x.req = h[s].req /\ x.items = h[s].items /\ x.parseErrors = h[s].parseErrors
    <3> HIDE DEF x
    <3> QED  BY <2>1, HandlerKeeps
  <2> HIDE DEF x
  <2>4. DecodedFrom(x)  BY <1>4, <2>3 DEF DecodedOK, DecodedFrom
  <2> QED  BY <2>2, <2>4, DecodedStep
<1>5. ASSUME NEW s \in Shipper, NEW req, NEW try, Admit(s, req, try) PROVE DecodedOK'
  BY <1>5, AdmitDecodes
<1>6. ASSUME NEW s \in Shipper, ReadToken(s) PROVE DecodedOK'
  <2>1. ASSUME Become(s, [h[s] EXCEPT !.pc = "open"]) PROVE DecodedOK'
    <3> DEFINE x == [h[s] EXCEPT !.pc = "open"]
    <3>1. x.pc # "send"
      <4>1. x.pc = "open"  BY HandlerKeeps
      <4> QED  BY <4>1
    <3>2. Become(s, x)  BY <2>1
    <3> HIDE DEF x
    <3> QED  BY <3>1, <3>2, DecodedStep
  <2> QED  BY <1>2, <1>3, <1>6, <2>1 DEF ReadToken
<1>7. ASSUME NEW s \in Shipper, OpenPath(s) PROVE DecodedOK'
  BY <1>2, <1>3, <1>7 DEF OpenPath
<1>8. ASSUME NEW s \in Shipper, ParseRequest(s) PROVE DecodedOK'
  <2> DEFINE got == ItemsOf(h[s].req, h[s].target.index)
  <2>1. h[s].pc = "parse" /\ Decoded(s, got)  BY <1>8 DEF ParseRequest
  <2>2. h[s].target.index = IndexOf(h[s].req)
    BY <2>1 DEF FrontOK, HandlerOK, TargetOK, Served
  <2>3. CASE ~got.ok  BY <1>2, <2>1, <2>3 DEF Decoded
  <2>4. CASE got.ok
    <3>1. PICK g : g = got  OBVIOUS
    <3>2. PICK x : x = [h[s] EXCEPT !.pc = "send", !.items = g.items, !.parseErrors = g.errors]
      OBVIOUS
    <3>3. Become(s, x)  BY <2>1, <2>4, <3>1, <3>2 DEF Decoded
    <3>4. x.req = h[s].req /\ x.items = g.items /\ x.parseErrors = g.errors
      <4>1. PICK r : r = h[s]  OBVIOUS
      <4>2. r = [pc |-> r.pc, req |-> r.req, auth |-> r.auth, target |-> r.target,
                 items |-> r.items, parseErrors |-> r.parseErrors, at |-> r.at,
                 out |-> r.out, try |-> r.try, status |-> r.status]
        BY <4>1 DEF FrontOK, ShapeOK
      <4>3. x = [r EXCEPT !.pc = "send", !.items = g.items, !.parseErrors = g.errors]
        BY <3>2, <4>1
      <4>4. x.req = r.req /\ x.items = g.items /\ x.parseErrors = g.errors  BY <4>2, <4>3
      <4> QED  BY <4>1, <4>4
    <3>5. DecodedFrom(x)  BY <2>2, <2>4, <3>1, <3>4 DEF DecodedFrom
    <3> QED  BY <3>3, <3>5, DecodedStep
  <2> QED  BY <2>3, <2>4
<1>9. ASSUME NEW s \in Shipper, Pass(s) PROVE DecodedOK'
  <2>1. h[s].pc = "send"  BY <1>9 DEF Pass, Sending
  <2> QED  BY <1>4, <1>9, <2>1 DEF Pass
<1>10. ASSUME NEW s \in Shipper, SubmitRow(s) PROVE DecodedOK'
  <2>1. h[s].pc = "send"  BY <1>10 DEF SubmitRow, SendRow, Sending
  <2> QED  BY <1>2, <1>4, <1>10, <2>1 DEF SubmitRow
<1>11. ASSUME NEW s \in Shipper, ReadPolicy(s) \/ Resend(s) \/ Finish(s) PROVE DecodedOK'
  BY <1>2, <1>5, <1>11 DEF ReadPolicy, Resend, Finish
<1>12. ASSUME Administer PROVE UNCHANGED h
  BY <1>12 DEF Administer, ChangeAuth, CreateEnv, DeleteEnv, Reread
<1>13. ASSUME NEW s \in Shipper, TaskDies(s) PROVE DecodedOK'
  <2>1. PICK status : Become(s, Dead(h[s], status))  BY <1>13 DEF TaskDies, Dead
  <2>2. Dead(h[s], status).pc = "died"  BY DeadShape DEF FrontOK, ShapeOK, Shaped
  <2> QED  BY <2>1, <2>2, DecodedStep
<1> QED
  BY <1>1, <1>6, <1>7, <1>8, <1>9, <1>10, <1>11, <1>12, <1>13
  DEF IngestNext, FrontNext, Handle, everything, front

(* What a handler is about to send is what the sender of its request wrote *)
(* (RowsAsSaid, ParseRequest over all seven protocols), its times but for  *)
(* the rounding of AsSaid, if what the decoders give for the request is -  *)
(* which TLC finds of the bodies of the run.                               *)
THEOREM RowsAreAsSaid ==
  ASSUME DecodersFaithful
  PROVE  IngestSpec => []RowsAsSaid
<1>1. IngestInit => DecodedOK
  <2>1. ASSUME NEW scene, FrontAt(scene), NEW s \in Shipper PROVE h[s].pc # "send"
    <3>1. h[s] = [Idle(1) EXCEPT !.pc = IF s \in scene.senders THEN @ ELSE "silent"]
      BY <2>1 DEF FrontAt
    <3>2. h[s].pc \in {"idle", "silent"}  BY <3>1 DEF Idle
    <3> QED  BY <3>2
  <2> QED  BY <2>1 DEF IngestInit, FrontInit, NoRequests, DecodedOK
<1>2. DecodedOK /\ IngestOK /\ [IngestNext]_<<everything, net>> => DecodedOK'
  BY NextDecoded DEF IngestOK
<1>3. ASSUME DecodedOK, FrontOK PROVE RowsAsSaid
  <2> SUFFICES ASSUME NEW s \in Shipper, h[s].pc = "send", h[s].req.said # Absent
               PROVE  AsSaid(h[s].req.said, h[s].parseErrors, h[s].items)
    BY DEF RowsAsSaid
  <2>1. h[s].req \in Requests[s]  BY <1>3 DEF FrontOK, HandlerOK, AskOK
  <2>2. DecodedFrom(h[s])  BY <1>3 DEF DecodedOK
  <2> QED  BY <1>3, <2>1, <2>2 DEF DecodersFaithful, DecodedFrom
<1> QED  BY <1>1, <1>2, <1>3, RequestsAndRows, PTL DEF IngestSpec, IngestOK

(* A clean shutdown loses nothing: the writer leaves no row in memory.     *)
THEOREM CleanShutdownHolds == IngestSpec => []CleanShutdown
<1>1. ASSUME IngestOK PROVE CleanShutdown
  <2>1. wpc = "exited" => batch = {}  BY <1>1 DEF IngestOK, MovesOK, WriterOK
  <2> QED  BY <1>1, <2>1 DEF IngestOK, MovesOK, WriterOK, CleanShutdown, InMemory
<1> QED  BY <1>1, RequestsAndRows, PTL

(* An accepted row is never forgotten, by no error path and no flush.      *)
THEOREM AcceptedKeptHolds == IngestSpec => AcceptedKept
<1>1. IngestOK /\ [IngestNext]_<<everything, net>> => [Accepted \subseteq Accepted']_vars
  BY NextIngestOK
<1> QED  BY <1>1, RequestsAndRows, PTL DEF IngestSpec, AcceptedKept

-----------------------------------------------------------------------------
(***************************************************************************)
(* The listener's framing.  At any time the bytes a connection keeps are   *)
(* those read after the end of some frame of its sender's, and what it has *)
(* told are the messages up to there: FramesOK.  A chunk adds to the bytes *)
(* and changes no frame; TryExtract takes the frame that begins the buffer *)
(* and no other, or waits, whichever bytes of it have come (NextFrame).    *)
(***************************************************************************)
(* The first c of a text (find).                                           *)
LEMMA FirstAt ==
  ASSUME NEW S, NEW buf \in Seq(S), NEW c, NEW i \in 1..Len(buf), buf[i] = c,
         \A j \in 1..(i - 1) : buf[j] # c
  PROVE  First(buf, c) = i
<1> DEFINE I == {j \in 1..Len(buf) : buf[j] = c}
<1>1. i \in I /\ \A j \in I : i <= j  OBVIOUS
<1>2. \A n \in I : (\A j \in I : n <= j) => n = i  BY <1>1
<1>3. Min(I) = i  BY <1>1, <1>2 DEF Min
<1> QED  BY <1>1, <1>3 DEF First, SelectInSeq

(* A text without one.                                                     *)
LEMMA FirstNone ==
  ASSUME NEW S, NEW buf \in Seq(S), NEW c, \A j \in 1..Len(buf) : buf[j] # c
  PROVE  First(buf, c) = 0
BY DEF First, SelectInSeq

(* Nothing, trimmed.                                                       *)
LEMMA TrimNothing == Trim(<<>>) = <<>>
BY DEF Trim, TrimEnd, TrimStart, SelectInSeq, SelectLastInSeq

(* A slice of a sequence.                                                  *)
LEMMA Slice ==
  ASSUME NEW S, NEW s \in Seq(S), NEW i \in 1..Len(s) + 1, NEW j \in (i - 1)..Len(s)
  PROVE  /\ SubSeq(s, i, j) \in Seq(S)
         /\ Len(SubSeq(s, i, j)) = j - i + 1
         /\ \A n \in 1..(j - i + 1) : SubSeq(s, i, j)[n] = s[i + n - 1]
<1>1. \A n \in i..j : s[n] \in S  OBVIOUS
<1> QED  BY <1>1, SubSeqProperties

(* A slice of a slice.                                                     *)
LEMMA SliceOfSlice ==
  ASSUME NEW S, NEW s \in Seq(S), NEW i \in 1..Len(s) + 1, NEW j \in (i - 1)..Len(s),
         NEW m \in 1..(j - i + 2), NEW n \in (m - 1)..(j - i + 1)
  PROVE  SubSeq(SubSeq(s, i, j), m, n) = SubSeq(s, i + m - 1, i + n - 1)
<1>1. CASE n = m - 1
  <2>1. SubSeq(SubSeq(s, i, j), m, n) = <<>>  BY <1>1, SubSeqEmpty
  <2>2. SubSeq(s, i + m - 1, i + n - 1) = <<>>  BY <1>1, SubSeqEmpty
  <2> QED  BY <2>1, <2>2
<1>2. CASE n >= m
  <2>1. i \in 1..Len(s) /\ j \in 1..Len(s) /\ m \in 1..(j - i + 1) /\ n \in 1..(j - i + 1)  BY <1>2
  <2> QED  BY <2>1, SubSeqOfSubSeq
<1> QED  BY <1>1, <1>2

(* A buffer and a frame that begin alike, as far as both go.               *)
Agree(buf, piece) == \A i \in (1..Len(buf)) \cap (1..Len(piece)) : buf[i] = piece[i]

(* What they have in common is the same.                                   *)
LEMMA SameStart ==
  ASSUME NEW S, NEW buf \in Seq(S), NEW piece \in Seq(S), Agree(buf, piece),
         NEW n \in 0..Len(buf), n <= Len(piece), NEW m \in 1..(n + 1)
  PROVE  SubSeq(buf, m, n) = SubSeq(piece, m, n)
<1>1. /\ SubSeq(buf, m, n) \in Seq(S) /\ Len(SubSeq(buf, m, n)) = n - m + 1
      /\ \A k \in 1..(n - m + 1) : SubSeq(buf, m, n)[k] = buf[m + k - 1]
  BY Slice
<1>2. /\ SubSeq(piece, m, n) \in Seq(S) /\ Len(SubSeq(piece, m, n)) = n - m + 1
      /\ \A k \in 1..(n - m + 1) : SubSeq(piece, m, n)[k] = piece[m + k - 1]
  BY Slice
<1>3. \A k \in 1..(n - m + 1) : buf[m + k - 1] = piece[m + k - 1]  BY DEF Agree
<1> DEFINE b == SubSeq(buf, m, n)  p == SubSeq(piece, m, n)
<1>4. b \in Seq(S) /\ p \in Seq(S) /\ Len(b) = Len(p) /\ \A k \in 1..Len(b) : b[k] = p[k]
  BY <1>1, <1>2, <1>3
<1> HIDE DEF b, p
<1>5. b = p  BY <1>4
<1> QED  BY <1>5 DEF b, p

(* A digit; and what is none.                                              *)
IsDigit(x) == x \in DOMAIN Digit

LEMMA Limits == MaxLine \in Nat /\ MaxToken \in Nat
BY StreamsAssumption, Zenon

LEMMA NoDigits == ~IsDigit(" ") /\ ~IsDigit("\n")
<1>1. Space \cap DOMAIN Digit = {}  BY StreamsAssumption, Zenon
<1>2. " " \in Space /\ "\n" \in Space  BY DEF Space
<1> QED  BY <1>1, <1>2, Zenon DEF IsDigit

(* A text of digits.                                                       *)
LEMMA DigitsAre ==
  ASSUME NEW S, NEW text \in Seq(S), Digits(text)
  PROVE  \A i \in 1..Len(text) : IsDigit(text[i])
BY Zenon DEF Digits, IsDigit

LEMMA DigitsUnspaced ==
  ASSUME NEW x, IsDigit(x)
  PROVE  ~Spaced(x)
<1>1. Space \cap DOMAIN Digit = {}  BY StreamsAssumption, Zenon
<1> QED  BY <1>1, Zenon DEF IsDigit, Spaced

(* Digits have nothing around them to trim.                                *)
LEMMA TrimDigits ==
  ASSUME NEW S, NEW text \in Seq(S), text # <<>>, \A i \in 1..Len(text) : IsDigit(text[i])
  PROVE  Trim(text) = text
<1> DEFINE I == {i \in 1..Len(text) : ~Spaced(text[i])}
<1>1. I = 1..Len(text)  BY DigitsUnspaced
<1>2. Len(text) \in I /\ \A j \in I : j <= Len(text)  BY <1>1
<1>3. 1 \in I /\ \A j \in I : 1 <= j  BY <1>1
<1>4. Max(I) = Len(text)
  <2>1. \A n \in I : (\A j \in I : n >= j) => n = Len(text)  BY <1>1, <1>2
  <2> QED  BY <1>2, <2>1 DEF Max
<1>5. Min(I) = 1
  <2>1. \A n \in I : (\A j \in I : n <= j) => n = 1  BY <1>1, <1>3
  <2> QED  BY <1>3, <2>1 DEF Min
<1>6. SelectLastInSeq(text, LAMBDA c : ~Spaced(c)) = Len(text)  BY <1>2, <1>4 DEF SelectLastInSeq
<1>7. SelectInSeq(text, LAMBDA c : ~Spaced(c)) = 1  BY <1>3, <1>5 DEF SelectInSeq
<1>8. SubSeq(text, 1, Len(text)) = text  BY SubSeqFull
<1>9. TrimEnd(text) = text  BY <1>6, <1>8 DEF TrimEnd
<1>10. TrimStart(text) = text
  <2>1. 1 # 0  OBVIOUS
  <2> QED  BY <1>7, <1>8, <2>1, Zenon DEF TrimStart, From
<1> QED  BY <1>9, <1>10 DEF Trim

(* try_octet_counted, given where the space is and what the digits say.    *)
CountedAt(buf, sp, len) ==
  CASE sp = 0 -> IF Len(buf) > MaxToken THEN DropToNewline(buf) ELSE More
    [] sp > 0 /\ (sp - 1 > MaxToken \/ len \notin 1..MaxLine) -> DropToNewline(buf)
    [] OTHER -> IF Len(buf) >= sp + len
                THEN Frame1(SubSeq(buf, sp + 1, sp + len), From(buf, sp + len + 1)) ELSE More

LEMMA CountedAtSpace ==
  ASSUME NEW buf, NEW sp, sp = First(buf, " "),
         NEW len, len = LengthOf(Trim(UpTo(buf, sp)))
  PROVE  TryOctetCounted(buf) = CountedAt(buf, sp, len)
BY Zenon DEF TryOctetCounted, CountedAt

LEMMA CountedCases ==
  ASSUME NEW buf \in Seq(STRING), NEW sp \in Nat, NEW len
  PROVE  /\ sp = 0 /\ ~(Len(buf) > MaxToken) => CountedAt(buf, sp, len) = More
         /\ sp # 0 /\ ~(sp - 1 > MaxToken) /\ len \in 1..MaxLine =>
              CountedAt(buf, sp, len) = IF Len(buf) >= sp + len
                                        THEN Frame1(SubSeq(buf, sp + 1, sp + len), From(buf, sp + len + 1))
                                        ELSE More
<1>1. MaxLine \in Nat /\ MaxToken \in Nat  BY Limits
<1> QED  BY <1>1 DEF CountedAt

(* A counted frame is taken whole, when its last byte is there.            *)
LEMMA TakesCounted ==
  ASSUME NEW buf \in Seq(STRING), NEW piece \in Seq(STRING), NEW text,
         Counted1(piece, text), Agree(buf, piece), buf # <<>>
  PROVE  TryExtract(buf) = IF Len(buf) >= Len(piece) THEN Frame1(text, From(buf, Len(piece) + 1)) ELSE More
<1>1. PICK d \in 1..MaxToken :
        /\ d + 1 < Len(piece) /\ Len(piece) - (d + 1) <= MaxLine
        /\ Digits(SubSeq(piece, 1, d)) /\ piece[d + 1] = " "
        /\ NumberOf(SubSeq(piece, 1, d)) = Len(piece) - (d + 1)
        /\ text = SubSeq(piece, d + 2, Len(piece))
  BY Zenon DEF Counted1
<1>n. d + 1 < Len(piece) /\ Len(piece) - (d + 1) <= MaxLine  BY <1>1, Zenon
<1>s. piece[d + 1] = " "  BY <1>1, Zenon
<1>2. MaxLine \in Nat /\ MaxToken \in Nat  BY Limits
<1>t. Trim(SubSeq(piece, 1, d)) = SubSeq(piece, 1, d) /\ SubSeq(piece, 1, d) # <<>>
  <2>1. Len(SubSeq(piece, 1, d)) = d /\ SubSeq(piece, 1, d) \in Seq(STRING)
    <3>1. 1 \in 1..Len(piece) + 1 /\ d \in (1 - 1)..Len(piece)  BY <1>n, <1>2
    <3> QED  BY <3>1, Slice, <1>n, <1>2
  <2>2. SubSeq(piece, 1, d) # <<>>
    <3>1. Len(<<>>) = 0 /\ d # 0  BY <1>2
    <3> QED  BY <2>1, <3>1, Zenon
  <2>3. \A i \in 1..Len(SubSeq(piece, 1, d)) : IsDigit(SubSeq(piece, 1, d)[i])
    BY <1>1, <2>1, DigitsAre, Zenon
  <2> QED  BY <2>1, <2>2, <2>3, TrimDigits
<1>3. \A i \in 1..d : IsDigit(piece[i])
  <2>1. Len(SubSeq(piece, 1, d)) = d /\ \A n \in 1..d : SubSeq(piece, 1, d)[n] = piece[n]
    <3>1. 1 \in 1..Len(piece) + 1 /\ d \in (1 - 1)..Len(piece)  BY <1>n, <1>2
    <3> QED  BY <3>1, Slice, <1>n, <1>2
  <2>2. SubSeq(piece, 1, d) \in Seq(STRING)  BY <1>n, <1>2
  <2>3. \A i \in 1..Len(SubSeq(piece, 1, d)) : IsDigit(SubSeq(piece, 1, d)[i])
    BY <1>1, <2>2, DigitsAre, Zenon
  <2> QED  BY <2>1, <2>3
<1>4. IsDigit(buf[1])
  <2>1. 1 \in (1..Len(buf)) \cap (1..Len(piece))  BY <1>n, <1>2
  <2> QED  BY <2>1, <1>2, <1>n, <1>3 DEF Agree
<1>5. TryExtract(buf) = TryOctetCounted(buf)  BY <1>4, Zenon DEF TryExtract, IsDigit
<1>6. CASE Len(buf) <= d
  <2>1. \A j \in 1..Len(buf) : buf[j] # " "
    <3>1. ASSUME NEW j \in 1..Len(buf) PROVE buf[j] # " "
      <4>1. j \in 1..d /\ j \in (1..Len(buf)) \cap (1..Len(piece))  BY <1>n, <1>2, <1>6
      <4>2. IsDigit(buf[j])  BY <1>3, <4>1 DEF Agree
      <4> QED  BY <4>2, NoDigits, Zenon
    <3> QED  BY <3>1
  <2>2. First(buf, " ") = 0  BY <2>1, FirstNone
  <2>3. ~(Len(buf) > MaxToken) /\ ~(Len(buf) >= Len(piece))  BY <1>n, <1>2, <1>6
  <2>4. TryOctetCounted(buf) = More
    <3>1. PICK len : len = LengthOf(Trim(UpTo(buf, 0)))  OBVIOUS
    <3>2. TryOctetCounted(buf) = CountedAt(buf, 0, len)  BY <2>2, <3>1, CountedAtSpace, Zenon
    <3> QED  BY <2>3, <3>2, CountedCases
  <2> QED  BY <1>5, <2>3, <2>4, Zenon
<1>7. CASE Len(buf) > d
  <2>1. buf[d + 1] = " " /\ \A j \in 1..d : buf[j] # " "
    <3>1. \A j \in 1..(d + 1) : j \in (1..Len(buf)) \cap (1..Len(piece))  BY <1>n, <1>2, <1>7
    <3>2. d + 1 \in 1..(d + 1) /\ \A j \in 1..d : j \in 1..(d + 1)  BY <1>2
    <3>3. buf[d + 1] = piece[d + 1] /\ \A j \in 1..d : buf[j] = piece[j]
      BY <3>1, <3>2, Zenon DEF Agree
    <3>4. \A j \in 1..d : buf[j] # " "  BY <3>3, NoDigits, <1>3, Zenon
    <3> QED  BY <3>3, <3>4, <1>s, Zenon
  <2>2. First(buf, " ") = d + 1
    <3>1. d + 1 \in 1..Len(buf) /\ (d + 1) - 1 = d  BY <1>7, <1>2
    <3> QED  BY <3>1, <2>1, FirstAt
  <2>3. UpTo(buf, d + 1) = SubSeq(piece, 1, d)
    <3>1. d \in 0..Len(buf) /\ d <= Len(piece) /\ 1 \in 1..(d + 1) /\ (d + 1) - 1 = d  BY <1>n, <1>2, <1>7
    <3> QED  BY <3>1, SameStart DEF UpTo
  <2> DEFINE len == Len(piece) - (d + 1)
  <2>4. /\ len \in 1..MaxLine /\ d + 1 + len = Len(piece) /\ d + 1 > 1 /\ ~(d + 1 - 1 > MaxToken) /\ d + 1 # 0
        /\ d + 1 + 1 = d + 2
    BY <1>n, <1>2
  <2>5. TryOctetCounted(buf) = IF Len(buf) >= Len(piece)
                              THEN Frame1(SubSeq(buf, d + 1 + 1, Len(piece)), From(buf, Len(piece) + 1)) ELSE More
    <3>1. LengthOf(Trim(UpTo(buf, d + 1))) = len
      BY <1>1, <1>t, <2>3, Zenon DEF LengthOf
    <3>2. TryOctetCounted(buf) = CountedAt(buf, d + 1, len)  BY <2>2, <3>1, CountedAtSpace, Zenon
    <3>3. len \in Nat /\ d + 1 \in Nat  BY <2>4, <1>2
    <3> HIDE DEF len
    <3>4. CountedAt(buf, d + 1, len) = IF Len(buf) >= d + 1 + len
                                       THEN Frame1(SubSeq(buf, d + 1 + 1, d + 1 + len), From(buf, d + 1 + len + 1))
                                       ELSE More
      BY <2>4, <3>3, CountedCases
    <3> QED  BY <3>2, <3>4, <2>4, Zenon
  <2>6. Len(buf) >= Len(piece) => SubSeq(buf, d + 1 + 1, Len(piece)) = text
    <3>1. ASSUME Len(buf) >= Len(piece) PROVE SubSeq(buf, d + 2, Len(piece)) = SubSeq(piece, d + 2, Len(piece))
      <4>1. Len(piece) \in 0..Len(buf) /\ Len(piece) <= Len(piece) /\ d + 2 \in 1..(Len(piece) + 1)
        BY <1>n, <1>2, <3>1
      <4> QED  BY <4>1, SameStart
    <3> QED  BY <3>1, <2>4, <1>1, Zenon
  <2> QED  BY <1>5, <2>5, <2>6, Zenon
<1>8. Len(buf) <= d \/ Len(buf) > d  BY <1>2
<1> QED  BY <1>6, <1>7, <1>8, Zenon

(* try_newline, given where the newline is.                                *)
NewlineAt(buf, nl, end) ==
  IF nl > 0 THEN Frame1(UpTo(buf, end), From(buf, nl + 1))
  ELSE IF Len(buf) > MaxLine THEN DropToNewline(buf) ELSE More

LEMMA NewlineAtNewline ==
  ASSUME NEW buf, NEW nl, nl = First(buf, "\n"),
         NEW end, end = IF nl > 1 /\ buf[nl - 1] = "\r" THEN nl - 1 ELSE nl
  PROVE  TryNewline(buf) = NewlineAt(buf, nl, end)
BY Zenon DEF TryNewline, NewlineAt

LEMMA NewlineCases ==
  ASSUME NEW buf \in Seq(STRING), NEW nl \in Nat, NEW end \in Nat
  PROVE  /\ nl > 0 => NewlineAt(buf, nl, end) = Frame1(UpTo(buf, end), From(buf, nl + 1))
         /\ nl = 0 /\ ~(Len(buf) > MaxLine) => NewlineAt(buf, nl, end) = More
<1>1. MaxLine \in Nat  BY Limits
<1> QED  BY <1>1 DEF NewlineAt

(* While no newline is there, a line of at most MaxLine waits.             *)
LEMMA WaitsForNewline ==
  ASSUME NEW buf \in Seq(STRING), Len(buf) <= MaxLine, \A i \in 1..Len(buf) : buf[i] # "\n",
         buf # <<>> => ~IsDigit(buf[1])
  PROVE  TryExtract(buf) = More
<1>1. CASE buf = <<>>  BY <1>1, Zenon DEF TryExtract
<1>2. CASE buf # <<>>
  <2>1. TryExtract(buf) = TryNewline(buf)  BY <1>2, Zenon DEF TryExtract, IsDigit
  <2>2. First(buf, "\n") = 0  BY FirstNone
  <2>3. (IF 0 > 1 /\ buf[0 - 1] = "\r" THEN 0 - 1 ELSE 0) = 0
    <3>1. ~(0 > 1)  OBVIOUS
    <3> QED  BY <3>1, Zenon
  <2>4. TryNewline(buf) = NewlineAt(buf, 0, 0)  BY <2>2, <2>3, NewlineAtNewline, Zenon
  <2>5. ~(Len(buf) > MaxLine)  BY Limits
  <2>6. NewlineAt(buf, 0, 0) = More  BY <2>5, NewlineCases
  <2> QED  BY <2>1, <2>4, <2>6, Zenon
<1> QED  BY <1>1, <1>2

(* A line is taken whole, when its newline is there.                       *)
LEMMA TakesLine ==
  ASSUME NEW buf \in Seq(STRING), NEW piece \in Seq(STRING), piece # <<>>, NEW text,
         Line1(piece, text), Agree(buf, piece), buf # <<>>
  PROVE  TryExtract(buf) = IF Len(buf) >= Len(piece) THEN Frame1(text, From(buf, Len(piece) + 1)) ELSE More
<1> DEFINE n == Len(piece)
<1>1. /\ ~IsDigit(piece[1]) /\ n - 1 <= MaxLine
      /\ piece[n] = "\n" /\ \A i \in 1..(n - 1) : piece[i] # "\n"
      /\ text = IF n > 1 /\ piece[n - 1] = "\r" THEN SubSeq(piece, 1, n - 2) ELSE SubSeq(piece, 1, n - 1)
  BY Zenon DEF Line1, IsDigit
<1>2. n \in Nat \ {0} /\ Len(buf) \in Nat \ {0} /\ MaxLine \in Nat  BY Limits
<1> HIDE DEF n
<1>3. \A i \in 1..Len(buf) : i <= n => buf[i] = piece[i]  BY <1>2 DEF Agree, n
<1>4. ~IsDigit(buf[1])
  <2>1. 1 \in 1..Len(buf) /\ 1 <= n  BY <1>2
  <2> QED  BY <2>1, <1>3, <1>1, Zenon
<1>5. CASE Len(buf) < n
  <2>1. \A i \in 1..Len(buf) : i <= n /\ i \in 1..(n - 1)  BY <1>2, <1>5
  <2>2. \A i \in 1..Len(buf) : buf[i] # "\n"  BY <2>1, <1>1, <1>3, Zenon
  <2>3. n - 1 <= MaxLine  BY <1>1, Zenon
  <2>4. Len(buf) <= MaxLine /\ ~(Len(buf) >= n)  BY <2>3, <1>2, <1>5
  <2>5. TryExtract(buf) = More  BY <2>2, <2>4, <1>4, WaitsForNewline, Zenon
  <2> QED  BY <2>4, <2>5, Zenon DEF n
<1>6. CASE Len(buf) >= n
  <2>1. TryExtract(buf) = TryNewline(buf)  BY <1>4, Zenon DEF TryExtract, IsDigit
  <2>2. /\ n \in 1..Len(buf) /\ n <= n
        /\ \A i \in 1..(n - 1) : i \in 1..Len(buf) /\ i <= n
    BY <1>2, <1>6
  <2>3. buf[n] = "\n" /\ \A i \in 1..(n - 1) : buf[i] # "\n"  BY <2>2, <1>1, <1>3, Zenon
  <2>4. First(buf, "\n") = n  BY <2>2, <2>3, FirstAt, Zenon
  <2> DEFINE end == IF n > 1 /\ buf[n - 1] = "\r" THEN n - 1 ELSE n
  <2>5. TryNewline(buf) = NewlineAt(buf, n, end)  BY <2>4, NewlineAtNewline, Zenon
  <2>6. UpTo(buf, end) = text
    <3>1. CASE n > 1
      <4>1. n - 1 \in 1..Len(buf) /\ n - 1 <= n  BY <1>2, <1>6, <3>1
      <4>2. buf[n - 1] = piece[n - 1]  BY <4>1, <1>3
      <4>3. CASE piece[n - 1] = "\r"
        <5>1. end = n - 1 /\ text = SubSeq(piece, 1, n - 2)  BY <4>2, <4>3, <3>1, <1>1, Zenon
        <5>2. n - 1 - 1 = n - 2 /\ n - 2 \in 0..Len(buf) /\ n - 2 <= Len(piece) /\ 1 \in 1..(n - 2 + 1)
          BY <1>2, <1>6, <3>1 DEF n
        <5>3. SubSeq(buf, 1, n - 2) = SubSeq(piece, 1, n - 2)  BY <5>2, SameStart
        <5> QED  BY <5>1, <5>2, <5>3, Zenon DEF UpTo
      <4>4. CASE piece[n - 1] # "\r"
        <5>1. end = n /\ text = SubSeq(piece, 1, n - 1)  BY <4>2, <4>4, <1>1, Zenon
        <5>2. n - 1 \in 0..Len(buf) /\ n - 1 <= Len(piece) /\ 1 \in 1..(n - 1 + 1)
          BY <1>2, <1>6, <3>1 DEF n
        <5>3. SubSeq(buf, 1, n - 1) = SubSeq(piece, 1, n - 1)  BY <5>2, SameStart
        <5> QED  BY <5>1, <5>3, Zenon DEF UpTo
      <4> QED  BY <4>3, <4>4
    <3>2. CASE ~(n > 1)
      <4>1. end = n /\ text = SubSeq(piece, 1, n - 1)  BY <3>2, <1>1, Zenon
      <4>2. n - 1 \in 0..Len(buf) /\ n - 1 <= Len(piece) /\ 1 \in 1..(n - 1 + 1)
        BY <1>2, <1>6, <3>2 DEF n
      <4>3. SubSeq(buf, 1, n - 1) = SubSeq(piece, 1, n - 1)  BY <4>2, SameStart
      <4> QED  BY <4>1, <4>3, Zenon DEF UpTo
    <3> QED  BY <3>1, <3>2
  <2>7. end \in Nat
    <3>1. n - 1 \in Nat /\ n \in Nat  BY <1>2
    <3> QED  BY <3>1, Zenon
  <2> HIDE DEF end
  <2>8. n > 0 /\ n \in Nat  BY <1>2
  <2>9. NewlineAt(buf, n, end) = Frame1(UpTo(buf, end), From(buf, n + 1))  BY <2>7, <2>8, NewlineCases
  <2> QED  BY <2>1, <2>5, <2>6, <2>9, <1>6, Zenon DEF n
<1>7. Len(buf) < n \/ Len(buf) >= n  BY <1>2
<1> QED  BY <1>5, <1>6, <1>7, Zenon

-----------------------------------------------------------------------------
(* A stream and its frames.                                                *)

(* A stream's frames end within it, and tell of its messages.              *)
LEMMA StreamShape ==
  ASSUME NEW st, WellFramed(st)
  PROVE  /\ st.bytes \in Seq(STRING) /\ st.lines \in Seq(Seq(STRING)) /\ Len(st.frames) \in Nat
         /\ \A k \in 0..Len(st.frames) : EndOf(st, k) \in 0..Len(st.bytes) /\ ToldBy(st, k) \in 0..Len(st.lines)
         /\ EndOf(st, Len(st.frames)) = Len(st.bytes) /\ ToldBy(st, Len(st.frames)) = Len(st.lines)
<1>1. /\ st.bytes \in Seq(STRING) /\ st.lines \in Seq(Seq(STRING))
      /\ st.frames \in Seq([end : 0..Len(st.bytes), told : 0..Len(st.lines)])
      /\ EndOf(st, Len(st.frames)) = Len(st.bytes) /\ ToldBy(st, Len(st.frames)) = Len(st.lines)
  BY Zenon DEF WellFramed
<1>2. ASSUME NEW k \in 0..Len(st.frames)
      PROVE  EndOf(st, k) \in 0..Len(st.bytes) /\ ToldBy(st, k) \in 0..Len(st.lines)
  <2>1. CASE k = 0  BY <2>1, <1>1 DEF EndOf, ToldBy
  <2>2. CASE k # 0
    <3>1. k \in 1..Len(st.frames)  BY <2>2, <1>1
    <3>2. st.frames[k] \in [end : 0..Len(st.bytes), told : 0..Len(st.lines)]  BY <3>1, <1>1, ElementOfSeq
    <3> QED  BY <3>2, <2>2 DEF EndOf, ToldBy
  <2> QED  BY <2>1, <2>2
<1> QED  BY <1>1, <1>2

(* The bytes after the k-th frame that have been read.                     *)
Unframed(st, k, at) == SubSeq(st.bytes, EndOf(st, k) + 1, at)

(* What the bytes read so far of the frames after the k-th give: the next  *)
(* frame, or nothing until it is there, or nothing as it is the last line. *)
LEMMA NextFrame ==
  ASSUME NEW st, WellFramed(st), NEW k \in 1..Len(st.frames),
         NEW at \in EndOf(st, k - 1)..Len(st.bytes)
  PROVE  /\ EndOf(st, k - 1) < EndOf(st, k)
         /\ \E text :
              /\ Tells(st, k, text)
              /\ \/ at >= EndOf(st, k) /\ TryExtract(Unframed(st, k - 1, at)) = Frame1(text, Unframed(st, k, at))
                 \/ at < EndOf(st, k) /\ TryExtract(Unframed(st, k - 1, at)) = More
                 \/ /\ k = Len(st.frames) /\ text = Piece(st, k)
                    /\ TryExtract(Unframed(st, k - 1, at)) = More
<1>1. /\ EndOf(st, k - 1) < EndOf(st, k)
      /\ \E i \in 1..Len(st.bytes) + 1, j \in 0..Len(st.bytes) :
           LET text == SubSeq(Piece(st, k), i, j) IN Framed(st, k, text) /\ Tells(st, k, text)
  BY Zenon DEF WellFramed
<1>2. PICK text : Framed(st, k, text) /\ Tells(st, k, text)  BY <1>1, Zenon
<1> DEFINE e == EndOf(st, k - 1)  f == EndOf(st, k)  P == Piece(st, k)  B == Unframed(st, k - 1, at)
           N == Len(st.bytes)
<1>3. /\ e \in Nat /\ f \in Nat /\ e < f /\ f <= N /\ N \in Nat /\ at \in Nat /\ e <= at /\ at <= N
      /\ st.bytes \in Seq(STRING)
  <2>1. Len(st.frames) \in Nat /\ N \in Nat /\ st.bytes \in Seq(STRING)  BY StreamShape
  <2>2. k - 1 \in 0..Len(st.frames) /\ k \in 0..Len(st.frames)  BY <2>1
  <2>3. e \in 0..N /\ f \in 0..N  BY <2>2, StreamShape
  <2>4. e < f  BY <1>1
  <2>5. at \in e..N  OBVIOUS
  <2> HIDE DEF e, f, N
  <2> QED  BY <2>1, <2>3, <2>4, <2>5
<1>4. P = SubSeq(st.bytes, e + 1, f) /\ B = SubSeq(st.bytes, e + 1, at)  BY DEF Piece, Unframed
<1> HIDE DEF e, f, P, B
<1>5. /\ P \in Seq(STRING) /\ Len(P) = f - e /\ \A n \in 1..(f - e) : P[n] = st.bytes[e + 1 + n - 1]
  <2>1. e + 1 \in 1..Len(st.bytes) + 1 /\ f \in (e + 1 - 1)..Len(st.bytes) /\ f - (e + 1) + 1 = f - e
    BY <1>3
  <2> QED  BY <2>1, <1>3, <1>4, Slice
<1>6. /\ B \in Seq(STRING) /\ Len(B) = at - e /\ \A n \in 1..(at - e) : B[n] = st.bytes[e + 1 + n - 1]
  <2>1. e + 1 \in 1..Len(st.bytes) + 1 /\ at \in (e + 1 - 1)..Len(st.bytes) /\ at - (e + 1) + 1 = at - e
    BY <1>3
  <2> QED  BY <2>1, <1>3, <1>4, Slice
<1>7. Agree(B, P)  BY <1>3, <1>5, <1>6 DEF Agree
<1>8. P # <<>>  BY <1>3, <1>5
<1>9. CASE at = e
  <2>1. B = <<>>  BY <1>6, <1>9, <1>3
  <2>2. TryExtract(B) = More /\ at < f  BY <2>1, <1>9, <1>3, Zenon DEF TryExtract
  <2> QED  BY <2>2, <1>1, <1>2, Zenon DEF B, f
<1>10. CASE at # e
  <2>1. B # <<>>  BY <1>3, <1>6, <1>10
  <2>2. From(B, Len(P) + 1) = Unframed(st, k, at) \/ at < f
    <3>1. ASSUME at >= f PROVE From(B, Len(P) + 1) = SubSeq(st.bytes, f + 1, at)
      <4>1. /\ e + 1 \in 1..Len(st.bytes) + 1 /\ at \in (e + 1 - 1)..Len(st.bytes)
            /\ f - e + 1 \in 1..(at - (e + 1) + 2) /\ at - e \in (f - e + 1 - 1)..(at - (e + 1) + 1)
            /\ e + 1 + (f - e + 1) - 1 = f + 1 /\ e + 1 + (at - e) - 1 = at
        BY <1>3, <3>1
      <4>2. SubSeq(SubSeq(st.bytes, e + 1, at), f - e + 1, at - e)
              = SubSeq(st.bytes, e + 1 + (f - e + 1) - 1, e + 1 + (at - e) - 1)
        BY <4>1, <1>3, SliceOfSlice
      <4>3. From(B, Len(P) + 1) = SubSeq(B, f - e + 1, at - e)  BY <1>5, <1>6 DEF From
      <4> QED  BY <4>1, <4>2, <4>3, <1>4
    <3>2. at >= f \/ at < f  BY <1>3
    <3> QED  BY <3>1, <3>2 DEF Unframed, f
  <2>3. (Len(B) >= Len(P)) <=> (at >= f)  BY <1>3, <1>5, <1>6
  <2>4. at >= f \/ at < f  BY <1>3
  <2>5. ASSUME TryExtract(B) = IF Len(B) >= Len(P) THEN Frame1(text, From(B, Len(P) + 1)) ELSE More
        PROVE  \/ at >= f /\ TryExtract(B) = Frame1(text, Unframed(st, k, at))
               \/ at < f /\ TryExtract(B) = More
    <3>1. CASE at >= f
      <4>1. ~(at < f)  BY <3>1, <1>3
      <4> QED  BY <3>1, <4>1, <2>2, <2>3, <2>5, Zenon
    <3>2. CASE at < f
      <4>1. ~(at >= f)  BY <3>2, <1>3
      <4> QED  BY <3>2, <4>1, <2>3, <2>5, Zenon
    <3> QED  BY <2>4, <3>1, <3>2
  <2>6. CASE Counted1(P, text)
    <3>1. TryExtract(B) = IF Len(B) >= Len(P) THEN Frame1(text, From(B, Len(P) + 1)) ELSE More
      BY <1>5, <1>6, <1>7, <2>1, <2>6, TakesCounted, Zenon
    <3> QED  BY <3>1, <2>5, <1>1, <1>2, Zenon DEF B, f
  <2>7. CASE Line1(P, text)
    <3>1. TryExtract(B) = IF Len(B) >= Len(P) THEN Frame1(text, From(B, Len(P) + 1)) ELSE More
      BY <1>5, <1>6, <1>7, <1>8, <2>1, <2>7, TakesLine, Zenon
    <3> QED  BY <3>1, <2>5, <1>1, <1>2, Zenon DEF B, f
  <2>8. CASE k = Len(st.frames) /\ Rest1(P, text)
    <3>1. /\ ~IsDigit(P[1]) /\ Len(P) <= MaxLine
          /\ \A i \in 1..Len(P) : P[i] # "\n"
          /\ text = P
      BY <2>8, Zenon DEF Rest1, IsDigit
    <3>2. f = N
      <4>1. EndOf(st, Len(st.frames)) = Len(st.bytes)  BY StreamShape
      <4> QED  BY <4>1, <2>8 DEF f
    <3>3. /\ \A i \in 1..Len(B) : i \in (1..Len(B)) \cap (1..Len(P)) /\ i \in 1..Len(P)
          /\ 1 \in 1..Len(B)
          /\ Len(B) <= Len(P)
      BY <1>3, <1>5, <1>6, <1>10, <3>2
    <3>4. \A i \in 1..Len(B) : B[i] = P[i]  BY <3>3, <1>7, Zenon DEF Agree
    <3>5. ~IsDigit(B[1]) /\ \A i \in 1..Len(B) : B[i] # "\n"  BY <3>1, <3>3, <3>4, Zenon
    <3>6. Len(P) <= MaxLine  BY <3>1, Zenon
    <3>7. Len(B) <= MaxLine  BY <3>3, <3>6, <1>5, <1>6, <1>3, Limits
    <3>8. TryExtract(B) = More  BY <3>5, <3>7, <1>6, WaitsForNewline, Zenon
    <3> QED  BY <3>1, <3>8, <2>8, <1>1, <1>2, Zenon DEF B, P
  <2>9. Counted1(P, text) \/ Line1(P, text) \/ (k = Len(st.frames) /\ Rest1(P, text))
    BY <1>2, Zenon DEF Framed, P
  <2> QED  BY <2>6, <2>7, <2>8, <2>9, Zenon
<1> QED  BY <1>9, <1>10

(* What a frame adds to the messages told.                                 *)
LEMMA TellsNext ==
  ASSUME NEW st, WellFramed(st), NEW k \in 1..Len(st.frames), NEW text, Tells(st, k, text)
  PROVE  Told(SubSeq(st.lines, 1, ToldBy(st, k - 1)), text) = SubSeq(st.lines, 1, ToldBy(st, k))
<1> DEFINE t == ToldBy(st, k - 1)  u == ToldBy(st, k)
<1>1. t \in 0..Len(st.lines) /\ u \in 0..Len(st.lines) /\ st.lines \in Seq(Seq(STRING))
  <2>1. k - 1 \in 0..Len(st.frames) /\ k \in 0..Len(st.frames)  BY StreamShape
  <2> QED  BY <2>1, StreamShape
<1>2. CASE Trim(text) = <<>>
  <2>1. u = t  BY <1>2, Zenon DEF Tells
  <2> QED  BY <1>2, <2>1, Zenon DEF Told
<1>3. CASE Trim(text) # <<>>
  <2>1. u = t + 1 /\ st.lines[u] = Trim(text)  BY <1>3, Zenon DEF Tells
  <2>2. Told(SubSeq(st.lines, 1, t), text) = Append(SubSeq(st.lines, 1, t), st.lines[u])
    BY <1>3, <2>1, Zenon DEF Told
  <2> HIDE DEF t, u
  <2>3. u \in 1..Len(st.lines) /\ 1 \in 1..Len(st.lines) /\ u - 1 = t  BY <1>1, <2>1
  <2>4. SubSeq(st.lines, 1, u) = SubSeq(st.lines, 1, u - 1) \o <<st.lines[u]>>
    BY <1>1, <2>3, SubSeqRecursiveSecond
  <2>5. SubSeq(st.lines, 1, t) \in Seq(Seq(STRING))  BY <1>1
  <2>6. st.lines[u] \in Seq(STRING)  BY <1>1, <2>3
  <2>7. Append(SubSeq(st.lines, 1, t), st.lines[u]) = SubSeq(st.lines, 1, t) \o <<st.lines[u]>>
    BY <2>5, <2>6, AppendIsConcat
  <2>8. Append(SubSeq(st.lines, 1, t), st.lines[u]) = SubSeq(st.lines, 1, u)  BY <2>3, <2>4, <2>7, Zenon
  <2> QED  BY <2>2, <2>8, Zenon DEF t, u
<1> QED  BY <1>2, <1>3

-----------------------------------------------------------------------------
(* A connection.                                                           *)

(* A connection between two frames: what it has told and what it keeps.    *)
Between(x, k) ==
  /\ EndOf(x.stream, k) <= x.at
  /\ x.buf = Unframed(x.stream, k, x.at)
  /\ x.lines = SubSeq(x.stream.lines, 1, ToldBy(x.stream, k))

Following(x) ==
  /\ WellFramed(x.stream) /\ x.at \in 0..Len(x.stream.bytes)
  /\ IF x.pc = "ended" THEN x.lines = x.stream.lines
     ELSE \E k \in 0..Len(x.stream.frames) : Between(x, k)

(* The shape of a connection, and the invariant of all of them.            *)
ConnShape(x) ==
  x = [pc |-> x.pc, stream |-> x.stream, chan |-> x.chan, at |-> x.at, buf |-> x.buf, lines |-> x.lines]

FramesOK ==
  conn = [c \in Sender |-> conn[c]] /\ \A c \in Sender : ConnShape(conn[c]) /\ Following(conn[c])

(* A connection is opened.                                                 *)
LEMMA StaysFollowing ==
  ASSUME NEW x, Following(x), NEW y,
         x.pc # "ended", y.pc # "ended",
         y.stream = x.stream, y.at = x.at, y.buf = x.buf, y.lines = x.lines
  PROVE  Following(y)
BY Zenon DEF Following, Between

(* A frame is taken.                                                       *)
LEMMA ExtractFollows ==
  ASSUME NEW x, Following(x), NEW got \in TryExtract(x.buf), NEW y,
         x.pc # "ended", y.pc # "ended", y.stream = x.stream, y.at = x.at,
         y.buf = got.rest, y.lines = Told(x.lines, got.frame)
  PROVE  Following(y)
<1> DEFINE st == x.stream
<1>1. WellFramed(st) /\ x.at \in 0..Len(st.bytes)  BY Zenon DEF Following
<1>2. PICK k \in 0..Len(st.frames) : Between(x, k)  BY Zenon DEF Following
<1>3. x.buf = Unframed(st, k, x.at) /\ EndOf(st, k) <= x.at /\ x.lines = SubSeq(st.lines, 1, ToldBy(st, k))
  BY <1>2, Zenon DEF Between
<1>4. /\ Len(st.frames) \in Nat /\ Len(st.bytes) \in Nat /\ EndOf(st, k) \in 0..Len(st.bytes)
      /\ EndOf(st, Len(st.frames)) = Len(st.bytes) /\ st.bytes \in Seq(STRING)
  BY <1>1, StreamShape
<1> HIDE DEF st
<1>5. CASE k = Len(st.frames)
  <2>1. x.at = Len(st.bytes)  BY <1>1, <1>3, <1>4, <1>5
  <2>2. x.buf = <<>>
    <3>1. x.buf = SubSeq(st.bytes, Len(st.bytes) + 1, Len(st.bytes))
      BY <1>3, <1>4, <1>5, <2>1, Zenon DEF Unframed
    <3>2. Len(st.bytes) + 1 \in Int /\ Len(st.bytes) \in Int /\ Len(st.bytes) < Len(st.bytes) + 1  BY <1>4
    <3> QED  BY <3>1, <3>2, SubSeqEmpty
  <2>3. TryExtract(x.buf) = {}  BY <2>2, Zenon DEF TryExtract, More
  <2> QED  BY <2>3
<1>6. CASE k # Len(st.frames)
  <2>1. k + 1 \in 1..Len(st.frames) /\ (k + 1) - 1 = k /\ x.at \in EndOf(st, k)..Len(st.bytes)
    BY <1>1, <1>3, <1>4, <1>6
  <2>2. PICK text :
          /\ Tells(st, k + 1, text)
          /\ \/ x.at >= EndOf(st, k + 1) /\ TryExtract(x.buf) = Frame1(text, Unframed(st, k + 1, x.at))
             \/ TryExtract(x.buf) = More
    <3>1. x.at \in EndOf(st, (k + 1) - 1)..Len(st.bytes)  BY <2>1
    <3>2. x.buf = Unframed(st, (k + 1) - 1, x.at)  BY <1>3, <2>1, Zenon
    <3>3. \E text :
              /\ Tells(st, k + 1, text)
              /\ \/ /\ x.at >= EndOf(st, k + 1)
                    /\ TryExtract(Unframed(st, (k + 1) - 1, x.at)) = Frame1(text, Unframed(st, k + 1, x.at))
                 \/ x.at < EndOf(st, k + 1) /\ TryExtract(Unframed(st, (k + 1) - 1, x.at)) = More
                 \/ /\ (k + 1) = Len(st.frames) /\ text = Piece(st, k + 1)
                    /\ TryExtract(Unframed(st, (k + 1) - 1, x.at)) = More
      BY <1>1, <2>1, <3>1, NextFrame, Zenon
    <3> QED  BY <3>2, <3>3, Zenon
  <2>3. TryExtract(x.buf) # More  BY DEF More
  <2>4. /\ x.at >= EndOf(st, k + 1)
        /\ got \in {[frame |-> text, rest |-> Unframed(st, k + 1, x.at)]}
    BY <2>2, <2>3, Zenon DEF Frame1
  <2>5. got.frame = text /\ got.rest = Unframed(st, k + 1, x.at)  BY <2>4
  <2>6. y.lines = SubSeq(st.lines, 1, ToldBy(st, k + 1))
    <3>1. Told(SubSeq(st.lines, 1, ToldBy(st, (k + 1) - 1)), text) = SubSeq(st.lines, 1, ToldBy(st, k + 1))
      BY <1>1, <2>1, <2>2, TellsNext, Zenon
    <3> QED  BY <3>1, <2>1, <2>5, <1>3, Zenon
  <2>7. EndOf(st, k + 1) <= x.at /\ k + 1 \in 0..Len(st.frames)
    <3>1. k + 1 \in 0..Len(st.frames)  BY <2>1, <1>4
    <3>2. EndOf(st, k + 1) \in Nat  BY <3>1, <1>1, StreamShape
    <3>3. x.at \in Nat  BY <1>1, <1>4
    <3> QED  BY <3>1, <3>2, <3>3, <2>4
  <2>8. Between(y, k + 1)  BY <2>5, <2>6, <2>7, Zenon DEF Between, st
  <2> QED  BY <2>7, <2>8, <1>1, Zenon DEF Following, st
<1> QED  BY <1>5, <1>6

(* The bytes kept and the next ones are the bytes kept next.               *)
LEMMA ReadOn ==
  ASSUME NEW st, WellFramed(st), NEW k \in 0..Len(st.frames),
         NEW at \in 0..Len(st.bytes), EndOf(st, k) <= at, NEW n \in 1..(Len(st.bytes) - at)
  PROVE  /\ Unframed(st, k, at) \o SubSeq(st.bytes, at + 1, at + n) = Unframed(st, k, at + n)
         /\ at + n \in 0..Len(st.bytes) /\ EndOf(st, k) <= at + n
<1>1. Len(st.bytes) \in Nat /\ EndOf(st, k) \in 0..Len(st.bytes) /\ st.bytes \in Seq(STRING)
  BY StreamShape
<1>2. /\ EndOf(st, k) + 1 \in 1..Len(st.bytes) + 1 /\ at \in (EndOf(st, k) + 1 - 1)..Len(st.bytes)
      /\ at + n \in at..Len(st.bytes)
  BY <1>1
<1>3. SubSeq(st.bytes, EndOf(st, k) + 1, at) \o SubSeq(st.bytes, at + 1, at + n)
        = SubSeq(st.bytes, EndOf(st, k) + 1, at + n)
  <2> DEFINE m == EndOf(st, k) + 1  e == at + n  bytes == st.bytes
  <2>1. /\ m \in 1..Len(bytes) + 1 /\ at \in (m - 1)..Len(bytes) /\ e \in at..Len(bytes)
        /\ bytes \in Seq(STRING)
    BY <1>1, <1>2
  <2> HIDE DEF m, e, bytes
  <2>2. SubSeq(bytes, m, at) \o SubSeq(bytes, at + 1, e) = SubSeq(bytes, m, e)
    BY <2>1, ConcatAdjacentSubSeq
  <2> QED  BY <2>2 DEF m, e, bytes
<1>4. at + n \in 0..Len(st.bytes) /\ EndOf(st, k) <= at + n  BY <1>1
<1> QED  BY <1>3, <1>4 DEF Unframed

(* A chunk is read.                                                        *)
LEMMA ReadFollows ==
  ASSUME NEW x, Following(x), NEW n \in 1..(Len(x.stream.bytes) - x.at), NEW y,
         x.pc # "ended", y.pc # "ended", y.stream = x.stream, y.at = x.at + n,
         y.buf = x.buf \o SubSeq(x.stream.bytes, x.at + 1, x.at + n), y.lines = x.lines
  PROVE  Following(y)
<1>1. WellFramed(x.stream) /\ x.at \in 0..Len(x.stream.bytes)  BY Zenon DEF Following
<1>2. PICK k \in 0..Len(x.stream.frames) : Between(x, k)  BY Zenon DEF Following
<1>3. EndOf(x.stream, k) <= x.at /\ x.buf = Unframed(x.stream, k, x.at)  BY <1>2, Zenon DEF Between
<1>4. /\ Unframed(x.stream, k, x.at) \o SubSeq(x.stream.bytes, x.at + 1, x.at + n)
           = Unframed(x.stream, k, x.at + n)
      /\ x.at + n \in 0..Len(x.stream.bytes) /\ EndOf(x.stream, k) <= x.at + n
  BY <1>1, <1>2, <1>3, ReadOn, Zenon
<1>5. Between(y, k)  BY <1>2, <1>3, <1>4, Zenon DEF Between
<1> QED  BY <1>1, <1>4, <1>5, Zenon DEF Following

(* The stream ends.                                                        *)
LEMMA EndFollows ==
  ASSUME NEW x, Following(x), TryExtract(x.buf) = More, x.at = Len(x.stream.bytes), NEW y,
         x.pc # "ended", y.pc = "ended", y.stream = x.stream, y.at = x.at,
         y.lines = Told(x.lines, x.buf)
  PROVE  Following(y)
<1> DEFINE st == x.stream
<1>1. WellFramed(st) /\ x.at \in 0..Len(st.bytes) /\ x.at = Len(st.bytes)  BY Zenon DEF Following
<1>2. PICK k \in 0..Len(st.frames) : Between(x, k)  BY Zenon DEF Following
<1>3. x.buf = Unframed(st, k, x.at) /\ EndOf(st, k) <= x.at /\ x.lines = SubSeq(st.lines, 1, ToldBy(st, k))
  BY <1>2, Zenon DEF Between
<1>4. /\ Len(st.frames) \in Nat /\ Len(st.bytes) \in Nat /\ EndOf(st, k) \in 0..Len(st.bytes)
      /\ EndOf(st, Len(st.frames)) = Len(st.bytes) /\ st.bytes \in Seq(STRING)
      /\ ToldBy(st, Len(st.frames)) = Len(st.lines) /\ st.lines \in Seq(Seq(STRING))
  BY <1>1, StreamShape
<1> HIDE DEF st
<1>5. SubSeq(st.lines, 1, Len(st.lines)) = st.lines  BY <1>4, SubSeqFull
<1>6. CASE k = Len(st.frames)
  <2>1. x.buf = SubSeq(st.bytes, Len(st.bytes) + 1, Len(st.bytes))
    BY <1>1, <1>3, <1>4, <1>6, Zenon DEF Unframed
  <2>2. Len(st.bytes) + 1 \in Int /\ Len(st.bytes) \in Int /\ Len(st.bytes) < Len(st.bytes) + 1  BY <1>4
  <2>3. x.buf = <<>>  BY <2>1, <2>2, SubSeqEmpty
  <2>4. y.lines = x.lines  BY <2>3, TrimNothing, Zenon DEF Told
  <2>5. y.lines = st.lines  BY <2>4, <1>3, <1>4, <1>5, <1>6, Zenon
  <2> QED  BY <2>5, <1>1, Zenon DEF Following, st
<1>7. CASE k # Len(st.frames)
  <2>1. k + 1 \in 1..Len(st.frames) /\ (k + 1) - 1 = k /\ x.at \in EndOf(st, k)..Len(st.bytes)
        /\ k + 1 \in 0..Len(st.frames)
    BY <1>1, <1>3, <1>4, <1>7
  <2>2. PICK text :
          /\ Tells(st, k + 1, text)
          /\ \/ x.at >= EndOf(st, k + 1) /\ TryExtract(x.buf) = Frame1(text, Unframed(st, k + 1, x.at))
             \/ x.at < EndOf(st, k + 1)
             \/ k + 1 = Len(st.frames) /\ text = Piece(st, k + 1)
    <3>1. x.at \in EndOf(st, (k + 1) - 1)..Len(st.bytes)  BY <2>1
    <3>2. x.buf = Unframed(st, (k + 1) - 1, x.at)  BY <1>3, <2>1, Zenon
    <3>3. \E text :
              /\ Tells(st, k + 1, text)
              /\ \/ /\ x.at >= EndOf(st, k + 1)
                    /\ TryExtract(Unframed(st, (k + 1) - 1, x.at)) = Frame1(text, Unframed(st, k + 1, x.at))
                 \/ x.at < EndOf(st, k + 1) /\ TryExtract(Unframed(st, (k + 1) - 1, x.at)) = More
                 \/ /\ (k + 1) = Len(st.frames) /\ text = Piece(st, k + 1)
                    /\ TryExtract(Unframed(st, (k + 1) - 1, x.at)) = More
      BY <1>1, <2>1, <3>1, NextFrame, Zenon
    <3> QED  BY <3>2, <3>3, Zenon
  <2>3. TryExtract(x.buf) # Frame1(text, Unframed(st, k + 1, x.at))
    <3>1. Frame1(text, Unframed(st, k + 1, x.at)) # {}  BY DEF Frame1
    <3> QED  BY <3>1, Zenon DEF More
  <2>4. ~(x.at < EndOf(st, k + 1))
    <3>1. EndOf(st, k + 1) \in 0..Len(st.bytes)  BY <1>1, <2>1, StreamShape
    <3> QED  BY <3>1, <1>1, <1>4
  <2>5. k + 1 = Len(st.frames) /\ text = Piece(st, k + 1)  BY <2>2, <2>3, <2>4, Zenon
  <2>6. Piece(st, k + 1) = x.buf
    <3>1. EndOf(st, k + 1) = x.at  BY <2>5, <1>1, <1>4, Zenon
    <3> QED  BY <3>1, <2>1, <1>3, Zenon DEF Piece, Unframed
  <2>7. y.lines = SubSeq(st.lines, 1, ToldBy(st, k + 1))
    <3>1. Told(SubSeq(st.lines, 1, ToldBy(st, (k + 1) - 1)), text) = SubSeq(st.lines, 1, ToldBy(st, k + 1))
      BY <1>1, <2>1, <2>2, TellsNext, Zenon
    <3> QED  BY <3>1, <2>1, <2>5, <2>6, <1>3, Zenon
  <2>8. y.lines = st.lines  BY <2>7, <2>5, <1>4, <1>5, Zenon
  <2> QED  BY <2>8, <1>1, Zenon DEF Following, st
<1> QED  BY <1>6, <1>7

(* Before a connection is opened.                                          *)
LEMMA UnconnectedFollows ==
  ASSUME NEW st, WellFramed(st), NEW pc, pc # "ended"
  PROVE  ConnShape(Unconnected(pc, st)) /\ Following(Unconnected(pc, st))
<1> DEFINE x == Unconnected(pc, st)
<1>1. ConnShape(x) /\ x.pc = pc /\ x.stream = st /\ x.at = 0 /\ x.buf = <<>> /\ x.lines = <<>>
  BY DEF Unconnected, ConnShape
<1> HIDE DEF x
<1>2. /\ Len(st.bytes) \in Nat /\ Len(st.frames) \in Nat /\ EndOf(st, 0) = 0 /\ ToldBy(st, 0) = 0
  BY StreamShape DEF EndOf, ToldBy
<1>3. 0 \in 0..Len(st.bytes) /\ 0 \in 0..Len(st.frames) /\ 0 <= 0  BY <1>2
<1>4. SubSeq(st.bytes, 0 + 1, 0) = <<>> /\ SubSeq(st.lines, 1, 0) = <<>>
  BY SubSeqEmpty
<1>5. Between(x, 0)  BY <1>1, <1>2, <1>3, <1>4, Zenon DEF Between, Unframed
<1>6. Following(x)  BY <1>1, <1>3, <1>5, Zenon DEF Following
<1> QED  BY <1>1, <1>6 DEF x

LEMMA SilenceFramed == WellFramed(Silence)
<1>1. /\ Silence = [bytes |-> Silence.bytes, frames |-> Silence.frames, lines |-> Silence.lines]
      /\ Silence.bytes = <<>> /\ Silence.frames = <<>> /\ Silence.lines = <<>>
  BY DEF Silence
<1>2. /\ <<>> \in Seq(STRING) /\ <<>> \in Seq(Seq(STRING))
      /\ <<>> \in Seq([end : 0..0, told : 0..0]) /\ Len(<<>>) = 0
      /\ \A k \in 1..0 : FALSE
  OBVIOUS
<1>3. EndOf(Silence, 0) = 0 /\ ToldBy(Silence, 0) = 0  BY Zenon DEF EndOf, ToldBy
<1>4. /\ Silence.bytes \in Seq(STRING) /\ Silence.lines \in Seq(Seq(STRING))
      /\ Silence.frames \in Seq([end : 0..Len(Silence.bytes), told : 0..Len(Silence.lines)])
      /\ EndOf(Silence, Len(Silence.frames)) = Len(Silence.bytes)
      /\ ToldBy(Silence, Len(Silence.frames)) = Len(Silence.lines)
      /\ \A k \in 1..Len(Silence.frames) : FALSE
  BY <1>1, <1>2, <1>3, Zenon
<1> QED  BY <1>1, <1>4, Zenon DEF WellFramed

LEMMA InitFramesOK == IngestInit => FramesOK
<1>1. ASSUME NEW pc, NEW send, \A c \in Sender : pc[c] # "ended" /\ WellFramed(send[c]),
             conn = [c \in Sender |-> Unconnected(pc[c], send[c])]
      PROVE  FramesOK
  <2>1. \A c \in Sender : conn[c] = Unconnected(pc[c], send[c])  BY <1>1
  <2>2. conn = [c \in Sender |-> conn[c]]  BY <1>1
  <2> QED  BY <1>1, <2>1, <2>2, UnconnectedFollows, Zenon DEF FramesOK
<1>2. CASE NoListener
  <2> DEFINE pc == [c \in Sender |-> "silent"]  send == [c \in Sender |-> Silence]
  <2>1. \A c \in Sender : pc[c] = "silent" /\ send[c] = Silence  OBVIOUS
  <2>2. conn = [c \in Sender |-> Unconnected("silent", Silence)]  BY <1>2, Zenon DEF NoListener
  <2> HIDE DEF pc, send
  <2>3. conn = [c \in Sender |-> Unconnected(pc[c], send[c])]  BY <2>1, <2>2
  <2>4. "silent" # "ended"  OBVIOUS
  <2> QED  BY <1>1, <2>1, <2>3, <2>4, SilenceFramed, Zenon
<1>3. CASE NetInit
  <2>1. PICK scene \in SyslogScenes, send \in [Sender -> UNION {Streams[c] : c \in Sender} \cup {Silence}] :
          /\ \A c \in Sender : IF c \in scene.senders THEN send[c] \in Streams[c] ELSE send[c] = Silence
          /\ conn = [c \in Sender |->
                       Unconnected(IF c \in scene.senders THEN "closed" ELSE "silent", send[c])]
    BY <1>3, Zenon DEF NetInit
  <2>2. \A c \in Sender : WellFramed(send[c])  BY <2>1, SilenceFramed, StreamsAssumption, Zenon
  <2> DEFINE pc == [c \in Sender |-> IF c \in scene.senders THEN "closed" ELSE "silent"]
  <2>3. \A c \in Sender : pc[c] = (IF c \in scene.senders THEN "closed" ELSE "silent") /\ pc[c] # "ended"
    OBVIOUS
  <2> HIDE DEF pc
  <2>4. conn = [c \in Sender |-> Unconnected(pc[c], send[c])]  BY <2>1, <2>3
  <2> QED  BY <1>1, <2>2, <2>3, <2>4, Zenon
<1> QED  BY <1>2, <1>3, Zenon DEF IngestInit

(* One connection changes.                                                 *)
LEMMA ConnBecomes ==
  ASSUME FramesOK, NEW c \in Sender, NEW y, conn' = [conn EXCEPT ![c] = y],
         ConnShape(y), Following(y)
  PROVE  FramesOK'
<1>1. conn' = [d \in Sender |-> conn'[d]] /\ \A d \in Sender : conn'[d] = IF d = c THEN y ELSE conn[d]
  BY DEF FramesOK
<1>2. \A d \in Sender : ConnShape(conn'[d]) /\ Following(conn'[d])  BY <1>1, Zenon DEF FramesOK
<1> QED  BY <1>1, <1>2, Zenon DEF FramesOK

(* The four steps of a sender.                                             *)
LEMMA ConnectStep == ASSUME FramesOK, NEW c \in Sender, Connect(c) PROVE FramesOK'
<1>1. conn[c].pc = "closed" /\ ConnShape(conn[c]) /\ Following(conn[c])  BY Zenon DEF FramesOK, Connect
<1>2. PICK s \in socks :
        conn' = [conn EXCEPT ![c] = [conn[c] EXCEPT !.pc = "open", !.chan = s.chan]]
  BY DEF Connect, Listening
<1> DEFINE y == [conn[c] EXCEPT !.pc = "open", !.chan = s.chan]
<1>3. /\ ConnShape(y) /\ y.pc = "open" /\ y.stream = conn[c].stream /\ y.at = conn[c].at
      /\ y.buf = conn[c].buf /\ y.lines = conn[c].lines
  <2>1. PICK x, ch : x = conn[c] /\ ch = s.chan /\ y = [x EXCEPT !.pc = "open", !.chan = ch]  OBVIOUS
  <2>2. ConnShape(x)  BY <1>1, <2>1
  <2> HIDE DEF y
  <2> QED  BY <2>1, <2>2 DEF ConnShape
<1> HIDE DEF y
<1>4. y.pc # "ended" /\ conn[c].pc # "ended"  BY <1>1, <1>3
<1>5. Following(y)  BY <1>1, <1>3, <1>4, StaysFollowing, Zenon
<1>6. conn' = [conn EXCEPT ![c] = y]  BY <1>2 DEF y
<1> QED  BY <1>3, <1>5, <1>6, ConnBecomes, Zenon

LEMMA ExtractStep == ASSUME FramesOK, NEW c \in Sender, Extract(c) PROVE FramesOK'
<1>1. conn[c].pc = "open" /\ ConnShape(conn[c]) /\ Following(conn[c])  BY Zenon DEF FramesOK, Extract
<1>2. PICK got \in TryExtract(conn[c].buf) :
        conn' = [conn EXCEPT ![c] = [conn[c] EXCEPT !.buf = got.rest, !.lines = Told(conn[c].lines, got.frame)]]
  BY Zenon DEF Extract
<1> DEFINE y == [conn[c] EXCEPT !.buf = got.rest, !.lines = Told(conn[c].lines, got.frame)]
<1>3. /\ ConnShape(y) /\ y.pc = conn[c].pc /\ y.stream = conn[c].stream /\ y.at = conn[c].at
      /\ y.buf = got.rest /\ y.lines = Told(conn[c].lines, got.frame)
  <2>1. PICK x, rest, told : /\ x = conn[c] /\ rest = got.rest /\ told = Told(conn[c].lines, got.frame)
                            /\ y = [x EXCEPT !.buf = rest, !.lines = told]
    OBVIOUS
  <2>2. ConnShape(x)  BY <1>1, <2>1
  <2> HIDE DEF y
  <2> QED  BY <2>1, <2>2 DEF ConnShape
<1>4. conn' = [conn EXCEPT ![c] = y]  BY <1>2, Zenon
<1> HIDE DEF y
<1>5. y.pc # "ended" /\ conn[c].pc # "ended"  BY <1>1, <1>3
<1>6. Following(y)  BY <1>1, <1>3, <1>5, ExtractFollows, Zenon
<1> QED  BY <1>3, <1>4, <1>6, ConnBecomes, Zenon

LEMMA ReadStep == ASSUME FramesOK, NEW c \in Sender, ReadChunk(c) PROVE FramesOK'
<1>1. conn[c].pc = "open" /\ ConnShape(conn[c]) /\ Following(conn[c])  BY Zenon DEF FramesOK, ReadChunk
<1>2. PICK n \in 1..(Len(conn[c].stream.bytes) - conn[c].at) :
        conn' = [conn EXCEPT ![c] =
          [conn[c] EXCEPT !.at = conn[c].at + n,
                          !.buf = conn[c].buf \o SubSeq(conn[c].stream.bytes, conn[c].at + 1, conn[c].at + n)]]
  BY Zenon DEF ReadChunk
<1> DEFINE more == SubSeq(conn[c].stream.bytes, conn[c].at + 1, conn[c].at + n)
           y == [conn[c] EXCEPT !.at = conn[c].at + n, !.buf = conn[c].buf \o more]
<1>3. conn' = [conn EXCEPT ![c] = y]  BY <1>2, Zenon
<1>4. /\ ConnShape(y) /\ y.pc = conn[c].pc /\ y.stream = conn[c].stream /\ y.at = conn[c].at + n
      /\ y.buf = conn[c].buf \o more /\ y.lines = conn[c].lines
  <2>1. PICK x, at, buf : /\ x = conn[c] /\ at = conn[c].at + n /\ buf = conn[c].buf \o more
                         /\ y = [x EXCEPT !.at = at, !.buf = buf]
    OBVIOUS
  <2>2. ConnShape(x)  BY <1>1, <2>1
  <2> HIDE DEF y
  <2> QED  BY <2>1, <2>2 DEF ConnShape
<1> HIDE DEF y
<1>5. y.pc # "ended" /\ conn[c].pc # "ended"  BY <1>1, <1>4
<1>6. Following(y)  BY <1>1, <1>2, <1>4, <1>5, ReadFollows, Zenon
<1> QED  BY <1>3, <1>4, <1>6, ConnBecomes, Zenon

LEMMA EndStep == ASSUME FramesOK, NEW c \in Sender, EndOfStream(c) PROVE FramesOK'
<1>1. /\ conn[c].pc = "open" /\ ConnShape(conn[c]) /\ Following(conn[c])
      /\ TryExtract(conn[c].buf) = More /\ conn[c].at = Len(conn[c].stream.bytes)
  BY Zenon DEF FramesOK, EndOfStream
<1> DEFINE y == [conn[c] EXCEPT !.pc = "ended", !.buf = <<>>, !.lines = Told(conn[c].lines, conn[c].buf)]
<1>2. conn' = [conn EXCEPT ![c] = y]  BY Zenon DEF EndOfStream
<1>3. /\ ConnShape(y) /\ y.pc = "ended" /\ y.stream = conn[c].stream /\ y.at = conn[c].at
      /\ y.lines = Told(conn[c].lines, conn[c].buf)
  <2>1. PICK x, told : /\ x = conn[c] /\ told = Told(conn[c].lines, conn[c].buf)
                      /\ y = [x EXCEPT !.pc = "ended", !.buf = <<>>, !.lines = told]
    OBVIOUS
  <2>2. ConnShape(x)  BY <1>1, <2>1
  <2> HIDE DEF y
  <2> QED  BY <2>1, <2>2 DEF ConnShape
<1> HIDE DEF y
<1>4. conn[c].pc # "ended"  BY <1>1
<1>5. Following(y)  BY <1>1, <1>3, <1>4, EndFollows, Zenon
<1> QED  BY <1>2, <1>3, <1>5, ConnBecomes, Zenon

(* Whatever else happens leaves the connections alone.                     *)
LEMMA NextFramesOK ==
  ASSUME FramesOK, [IngestNext]_<<everything, net>>
  PROVE  FramesOK'
<1>1. ASSUME UNCHANGED conn PROVE FramesOK'  BY <1>1, Zenon DEF FramesOK
<1>2. CASE UNCHANGED net  BY <1>1, <1>2 DEF net, traffic
<1>3. CASE NetNext
  <2>1. CASE Post \/ StoreKey \/ StoreFails
    BY <1>1, <2>1 DEF Post, StoreKey, StoreFails, traffic
  <2>2. CASE Supervise
    <3>1. UNCHANGED traffic
      BY <2>2, Zenon DEF Supervise, ReadKey, ReadFails, Reconcile, BindUdp, BindTcp, BindStep, BindFails
    <3> QED  BY <1>1, <3>1 DEF traffic
  <2>3. CASE Closed \/ Datagram  BY <1>1, <2>3 DEF Closed, Datagram, traffic
  <2>4. ASSUME NEW c \in Sender, Connect(c) \/ Extract(c) \/ ReadChunk(c) \/ EndOfStream(c) PROVE FramesOK'
    BY <2>4, ConnectStep, ExtractStep, ReadStep, EndStep, Zenon
  <2> QED  BY <1>3, <2>1, <2>2, <2>3, <2>4, Zenon DEF NetNext
<1> QED  BY <1>2, <1>3, Zenon DEF IngestNext

(* A sender's frames come out as its messages, one by one and in order,    *)
(* wherever the network cuts the stream (try_extract, next_frame, finish). *)
THEOREM FramesAreExact == IngestSpec => []FramingExact
<1>1. ASSUME FramesOK PROVE FramingExact
  <2> SUFFICES ASSUME NEW c \in Sender
               PROVE  /\ IsPrefix(conn[c].lines, conn[c].stream.lines)
                      /\ conn[c].pc = "ended" => conn[c].lines = conn[c].stream.lines
    BY DEF FramingExact
  <2> DEFINE st == conn[c].stream  told == conn[c].lines
  <2>1. Following(conn[c])  BY <1>1, Zenon DEF FramesOK
  <2>2. WellFramed(st)  BY <2>1, Zenon DEF Following
  <2>3. conn[c].pc = "ended" => told = st.lines  BY <2>1, Zenon DEF Following
  <2>4. \E n \in 0..Len(st.lines) : told = SubSeq(st.lines, 1, n)
    <3>1. CASE conn[c].pc = "ended"
      <4>1. Len(st.lines) \in 0..Len(st.lines) /\ SubSeq(st.lines, 1, Len(st.lines)) = st.lines
        BY <2>2, StreamShape, SubSeqFull
      <4> QED  BY <2>3, <3>1, <4>1, Zenon
    <3>2. CASE conn[c].pc # "ended"
      <4>1. PICK k \in 0..Len(st.frames) : told = SubSeq(st.lines, 1, ToldBy(st, k))
        BY <2>1, <3>2, Zenon DEF Following, Between
      <4>2. ToldBy(st, k) \in 0..Len(st.lines)  BY <2>2, StreamShape
      <4> QED  BY <4>1, <4>2, Zenon
    <3> QED  BY <3>1, <3>2
  <2>5. st.lines \in Seq(Seq(STRING))  BY <2>2, StreamShape
  <2> HIDE DEF st, told
  <2>6. PICK n \in 0..Len(st.lines) : told = SubSeq(st.lines, 1, n)  BY <2>4
  <2>7. IsPrefix(told, st.lines)
    <3>1. told \in Seq(Seq(STRING)) /\ Len(told) = n  BY <2>5, <2>6
    <3>2. SubSeq(told, 1, Len(told)) = told  BY <3>1, SubSeqFull
    <3> QED  BY <3>1, <3>2, <2>5, <2>6 DEF IsPrefix
  <2> QED  BY <2>3, <2>7 DEF st, told
<1>2. FramesOK /\ [IngestNext]_<<everything, net>> => FramesOK'  BY NextFramesOK
<1> QED  BY <1>1, <1>2, InitFramesOK, PTL DEF IngestSpec
=============================================================================
