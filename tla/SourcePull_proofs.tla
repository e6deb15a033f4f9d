-------------------------- MODULE SourcePull_proofs --------------------------
(***************************************************************************)
(* One run at a time, and no line passed over, for every number of runs,   *)
(* files, lines, failures and deaths, when no run outlives its lease.      *)
(*                                                                         *)
(* LeaseOK ties the runs to the lease: while one is active the lease is    *)
(* taken and fresh, so nobody else takes it.  MarksOK ties the marks, the  *)
(* stored ones and those a run works on, to the lines submitted, unless    *)
(* the last reset dropped the checkpoint under a run that had loaded it.   *)
(*                                                                         *)
(* The second part looks at the other side of the marks, LagOK: until      *)
(* something fails, a run's marks are ahead of the stored ones in one file *)
(* at most, and no line beyond them was submitted.                         *)
(***************************************************************************)
EXTENDS SourcePull, FiniteSetTheorems, TLAPS

InTime == Slow = FALSE

LeaseOK ==
  /\ \A u, v \in Active : u = v
  /\ exists /\ Active # {} => running /\ ~stuck

Submitted(m) == \A f \in File : \A i \in 1..m[f] : sent[f][i] > 0

MarksOK ==
  exists /\ ~late =>
    /\ Submitted(mark)
    /\ \A u \in Active : Submitted(ckpt[u])

FreshOK ==
  /\ \A u \in Run : pc[u] \in {"idle", "lease", "load"} => ckpt[u] = NoMarks
  /\ \A u \in Run : pc[u] \in {"check", "read"} => at[u] \in File

IInv == TypeOK /\ LeaseOK /\ MarksOK /\ FreshOK

-----------------------------------------------------------------------------
(* No mark covers no line.                                                 *)
LEMMA NoMarksSubmitted == Submitted(NoMarks)
BY DEF Submitted, NoMarks

(* A source nobody has read yet.                                           *)
LEMMA InitIInv == Init => IInv
<1> SUFFICES ASSUME Init PROVE IInv  OBVIOUS
<1> USE DEF Init
<1>1. TypeOK
  <2>1. NoMarks \in Marks  BY BoundAssumption DEF Marks, NoMarks
  <2>2. NotSent \in [File -> [1..MaxLen -> 0..2]]  BY DEF NotSent
  <2>3. ckpt \in [Run -> Marks]  BY <2>1
  <2>4. faults \in Nat /\ deaths \in Nat /\ faults + deaths <= MaxFaults  BY BoundAssumption
  <2>5. /\ pc \in [Run -> {"idle", "lease", "load", "scan", "check", "read", "put", "finish"}]
        /\ todo \in [Run -> SUBSET File] /\ seen \in [Run -> SUBSET File]
        /\ at \in [Run -> File \cup {NoFile}]
    OBVIOUS
  <2> QED  BY <2>1, <2>2, <2>3, <2>4, <2>5 DEF TypeOK
<1>2. Active = {}  BY DEF Active
<1>3. Submitted(mark)  BY NoMarksSubmitted
<1>4. LeaseOK /\ MarksOK  BY <1>2, <1>3 DEF LeaseOK, MarksOK
<1>5. FreshOK  BY DEF FreshOK
<1> QED  BY <1>1, <1>4, <1>5 DEF IInv

-----------------------------------------------------------------------------
(* Marks that are covered stay covered while nothing is forgotten.         *)
LEMMA SubmittedUnchanged ==
  ASSUME NEW m, Submitted(m), UNCHANGED sent
  PROVE  Submitted(m)'
BY DEF Submitted

(* A run that goes on holds on to its lease.                               *)
LEMMA GoesOn ==
  ASSUME TypeOK, LeaseOK, NEW u \in Active, NEW p \in {"scan", "check", "read", "put", "finish"},
         Goto(u, p), UNCHANGED <<exists, running, stuck>>
  PROVE  Active' = Active /\ LeaseOK'
<1>1. Active' = Active  BY DEF Active, Goto, TypeOK
<1> QED  BY <1>1 DEF LeaseOK

(* A run that ends leaves nobody active.                                   *)
LEMMA Ends ==
  ASSUME TypeOK, LeaseOK, NEW u \in Active, Goto(u, "idle")
  PROVE  Active' = {} /\ LeaseOK'
<1>1. Active' = {}  BY DEF Active, Goto, TypeOK, LeaseOK
<1> QED  BY <1>1 DEF LeaseOK

(* The world moves, the user flips the switch: no lease and no mark does,  *)
(* but for a lease nobody holds.                                           *)
LEMMA QuietStep ==
  ASSUME InTime, IInv,
         (\E f \in File : Grow(f)) \/ Elapse \/ LeaseAges \/ SetEnabled \/ RunNow
  PROVE  IInv'
<1>1. UNCHANGED <<exists, late, mark, user, pc, ckpt, todo, seen, at, sent>>
  BY DEF Grow, Elapse, LeaseAges, SetEnabled, RunNow, document, runs
<1>2. Active' = Active  BY <1>1 DEF Active
<1>3. Active = {} \/ UNCHANGED <<running, stuck>>
  BY DEF InTime, Grow, Elapse, LeaseAges, SetEnabled, RunNow, document, runs
<1>4. TypeOK'
  <2> USE DEF IInv, TypeOK, runs, document
  <2>1. CASE \E f \in File : Grow(f)
    <3>1. PICK f \in File : Grow(f)  BY <2>1
    <3>2. len[f] \in 0..MaxLen /\ len[f] < MaxLen /\ MaxLen \in Nat
      BY <3>1, BoundAssumption DEF Grow, Marks
    <3>3. len[f] + 1 \in 0..MaxLen /\ MaxLen \in 0..MaxLen  BY <3>2
    <3>4. len' = [len EXCEPT ![f] = len[f] + 1] \/ len' = [len EXCEPT ![f] = MaxLen]
      BY <3>1 DEF Grow
    <3>5. len' \in Marks  BY <3>3, <3>4 DEF Marks
    <3> QED  BY <3>5, <2>1 DEF Grow
  <2>2. CASE Elapse  BY <2>2 DEF Elapse
  <2>3. CASE LeaseAges  BY <2>3 DEF LeaseAges
  <2>4. CASE SetEnabled  BY <2>4 DEF SetEnabled
  <2>5. CASE RunNow  BY <2>5 DEF RunNow
  <2> QED  BY <2>1, <2>2, <2>3, <2>4, <2>5
<1>5. LeaseOK'  BY <1>1, <1>2, <1>3 DEF IInv, LeaseOK
<1>6. MarksOK'  BY <1>1, <1>2 DEF IInv, MarksOK, Submitted
<1>8. FreshOK'  BY <1>1 DEF IInv, FreshOK
<1> QED  BY <1>4, <1>5, <1>6, <1>8 DEF IInv

(* A reset finds no run, for the lease is free.                            *)
LEMMA ResetStep ==
  ASSUME InTime, IInv, ResetSource
  PROVE  IInv'
<1> USE DEF IInv, ResetSource, runs
<1>1. Active = {}  BY DEF LeaseOK
<1>2. Active' = {}  BY <1>1 DEF Active
<1>3. TypeOK'  BY DEF TypeOK
<1>4. LeaseOK'  BY <1>2 DEF LeaseOK
<1>5. MarksOK'  BY <1>2 DEF MarksOK, Submitted
<1>7. FreshOK'  BY DEF FreshOK
<1> QED  BY <1>3, <1>4, <1>5, <1>7

(* A source deleted promises nothing.                                      *)
LEMMA DeleteStep ==
  ASSUME InTime, IInv, DeleteSource
  PROVE  IInv'
<1> USE DEF IInv, DeleteSource, runs
<1>1. Active' = Active  BY DEF Active
<1>2. TypeOK'  BY DEF TypeOK
<1>3. LeaseOK'  BY <1>1 DEF LeaseOK
<1>4. MarksOK'  BY DEF MarksOK
<1>6. FreshOK'  BY DEF FreshOK
<1> QED  BY <1>2, <1>3, <1>4, <1>6

(* A fault is counted within its bound.                                    *)
LEMMA FaultCounted ==
  ASSUME TypeOK, Fault \/ UNCHANGED faults, UNCHANGED deaths
  PROVE  faults' \in Nat /\ deaths' \in Nat /\ faults' + deaths' <= MaxFaults
BY BoundAssumption DEF TypeOK, Fault

(* When the submissions are forgotten, so are the stored marks.            *)
LEMMA DropStep ==
  ASSUME InTime, IInv, DropCheckpoint
  PROVE  IInv'
<1> USE DEF IInv, DropCheckpoint, document, runs
<1>1. Active' = Active  BY DEF Active
<1>2. TypeOK'
  <2>1. NoMarks \in Marks  BY BoundAssumption DEF Marks, NoMarks
  <2>2. NotSent \in [File -> [1..MaxLen -> 0..2]]  BY DEF NotSent
  <2>3. mark' \in Marks /\ sent' \in [File -> [1..MaxLen -> 0..2]]
    BY <2>1, <2>2 DEF TypeOK
  <2>4. faults' \in Nat /\ deaths' \in Nat /\ faults' + deaths' <= MaxFaults
    <3>1. Fault \/ UNCHANGED faults  OBVIOUS
    <3> QED  BY <3>1, FaultCounted
  <2>5. late' \in BOOLEAN  BY DEF TypeOK
  <2> QED  BY <2>3, <2>4, <2>5 DEF TypeOK
<1>3. LeaseOK'  BY <1>1 DEF LeaseOK
<1>4. MarksOK'
  <2>1. CASE UNCHANGED <<mark, sent, late>>  BY <2>1, <1>1 DEF MarksOK, Submitted
  <2>2. CASE /\ mark' = NoMarks /\ sent' = NotSent
             /\ late' = (\E u \in Active : ckpt[u] # NoMarks)
    <3>1. ASSUME ~late' PROVE \A u \in Active : ckpt[u] = NoMarks
      BY <2>2, <3>1
    <3> QED  BY <3>1, <2>2, <1>1 DEF MarksOK, Submitted, NoMarks
  <2> QED  BY <2>1, <2>2
<1>6. FreshOK'  BY DEF FreshOK
<1> QED  BY <1>2, <1>3, <1>4, <1>6
-----------------------------------------------------------------------------
(* A supervisor that has seen the source due is not active yet.            *)
LEMMA TickStep ==
  ASSUME InTime, IInv, NEW u \in Run, Tick(u)
  PROVE  IInv'
<1> USE DEF IInv, Tick, Goto, document
<1>1. Active' = Active  BY DEF Active, TypeOK
<1>2. TypeOK'  BY DEF TypeOK
<1>3. LeaseOK'  BY <1>1 DEF LeaseOK
<1>4. MarksOK'  BY <1>1 DEF MarksOK, Submitted
<1>6. FreshOK'  BY DEF FreshOK, TypeOK
<1> QED  BY <1>2, <1>3, <1>4, <1>6

(* Who takes the lease finds no other run, and starts from no marks.       *)
LEMMA TryLeaseStep ==
  ASSUME InTime, IInv, NEW u \in Run, TryLease(u)
  PROVE  IInv'
<1> USE DEF IInv, TryLease, Goto
<1>1. CASE exists /\ (~running \/ stuck) /\ running' = TRUE /\ stuck' = FALSE /\ Goto(u, "load")
  <2> USE <1>1
  <2>1. Active = {}  BY DEF LeaseOK
  <2>2. Active' = {u}  BY <2>1 DEF Active, TypeOK
  <2>3. ckpt[u] = NoMarks /\ pc'[u] = "load"  BY DEF FreshOK, TypeOK
  <2>4. TypeOK'  BY DEF TypeOK
  <2>5. LeaseOK'  BY <2>2 DEF LeaseOK
  <2>6. MarksOK'
    <3>1. Submitted(ckpt[u])  BY <2>3, NoMarksSubmitted
    <3> QED  BY <3>1, <2>2 DEF MarksOK, Submitted
  <2>8. FreshOK'  BY DEF FreshOK, TypeOK
  <2> QED  BY <2>4, <2>5, <2>6, <2>8
<1>2. CASE Goto(u, "idle") /\ UNCHANGED <<running, stuck>>
  <2> USE <1>2
  <2>1. Active' = Active  BY DEF Active, TypeOK
  <2>2. TypeOK'  BY DEF TypeOK
  <2>3. LeaseOK'  BY <2>1 DEF LeaseOK
  <2>4. MarksOK'  BY <2>1 DEF MarksOK, Submitted
  <2>6. FreshOK'  BY DEF FreshOK, TypeOK
  <2> QED  BY <2>2, <2>3, <2>4, <2>6
<1> QED  BY <1>1, <1>2

(* A run works from the stored marks.                                      *)
LEMMA LoadStep ==
  ASSUME InTime, IInv, NEW u \in Run, LoadCheckpoint(u)
  PROVE  IInv'
<1> USE DEF IInv, LoadCheckpoint, document
<1>1. u \in Active /\ UNCHANGED <<exists, running, stuck>>  BY DEF Active
<1>2. Active' = Active /\ LeaseOK'  BY <1>1, GoesOn
<1>3. TypeOK'
  <2>1. todo' \in [Run -> SUBSET File] /\ seen' \in [Run -> SUBSET File]  BY DEF TypeOK
  <2>2. ckpt' \in [Run -> Marks]  BY DEF TypeOK
  <2>3. pc' \in [Run -> {"idle", "lease", "load", "scan", "check", "read", "put", "finish"}]
    BY DEF TypeOK, Goto
  <2> QED  BY <2>1, <2>2, <2>3 DEF TypeOK
<1>4. MarksOK'
  <2>1. ckpt'[u] = mark  BY DEF TypeOK
  <2>2. \A v \in Active : v = u  BY <1>1 DEF LeaseOK
  <2> QED  BY <1>2, <2>1, <2>2 DEF MarksOK, Submitted
<1>6. FreshOK'  BY DEF FreshOK, TypeOK, Goto
<1> QED  BY <1>2, <1>3, <1>4, <1>6

(* A run that could not load ends with no marks.                           *)
LEMMA LoadFailsStep ==
  ASSUME InTime, IInv, NEW u \in Run, LoadFails(u)
  PROVE  IInv'
<1> USE DEF IInv, LoadFails, document
<1>1. u \in Active /\ UNCHANGED <<exists, running, stuck>>  BY DEF Active
<1>2. Active' = Active /\ LeaseOK'  BY <1>1, GoesOn
<1>3. TypeOK'  BY FaultCounted DEF TypeOK, Goto
<1>4. MarksOK'  BY <1>2 DEF MarksOK, Submitted
<1>6. FreshOK'  BY DEF FreshOK, TypeOK, Goto
<1> QED  BY <1>2, <1>3, <1>4, <1>6

(* What is stored is what the run has submitted, or it was stored before.  *)
LEMMA AnnounceStep ==
  ASSUME InTime, IInv, NEW u \in Run, Announce(u)
  PROVE  IInv'
<1> USE DEF IInv, Announce, document
<1>1. u \in Active /\ UNCHANGED <<exists, running, stuck>>  BY DEF Active
<1>2. Active' = Active /\ LeaseOK'  BY <1>1, GoesOn
<1>3. PICK f \in Ahead(u) : at' = [at EXCEPT ![u] = f] /\ seen' = [seen EXCEPT ![u] = @ \cup {f}]
  OBVIOUS
<1>4. f \in File  BY <1>3 DEF TypeOK, Ahead
<1>5. TypeOK'
  <2>1. at' \in [Run -> File \cup {NoFile}] /\ seen' \in [Run -> SUBSET File]
    BY <1>3, <1>4 DEF TypeOK
  <2>2. mark' \in Marks  BY DEF TypeOK
  <2>3. faults' \in Nat /\ deaths' \in Nat /\ faults' + deaths' <= MaxFaults  BY FaultCounted
  <2>4. pc' \in [Run -> {"idle", "lease", "load", "scan", "check", "read", "put", "finish"}]
    BY DEF TypeOK, Goto
  <2> QED  BY <2>1, <2>2, <2>3, <2>4 DEF TypeOK
<1>6. MarksOK'
  <2>1. mark' = ckpt[u] \/ mark' = mark  OBVIOUS
  <2> QED  BY <1>1, <1>2, <2>1 DEF MarksOK, Submitted
<1>8. FreshOK'  BY <1>3, <1>4 DEF FreshOK, TypeOK, Goto
<1> QED  BY <1>2, <1>5, <1>6, <1>8

(* The cancel check stores and submits nothing.                            *)
LEMMA CheckStep ==
  ASSUME InTime, IInv, NEW u \in Run, CheckEnabled(u)
  PROVE  IInv'
<1> USE DEF IInv, CheckEnabled, document
<1>1. u \in Active /\ UNCHANGED <<exists, running, stuck>>  BY DEF Active
<1>2. PICK p \in {"read", "put"} : Goto(u, p)  OBVIOUS
<1>3. Active' = Active /\ LeaseOK'  BY <1>1, <1>2, GoesOn
<1>4. TypeOK'
  <2>1. faults' \in Nat /\ deaths' \in Nat /\ faults' + deaths' <= MaxFaults  BY FaultCounted
  <2>2. pc' \in [Run -> {"idle", "lease", "load", "scan", "check", "read", "put", "finish"}]
    BY <1>2 DEF TypeOK, Goto
  <2> QED  BY <2>1, <2>2 DEF TypeOK
<1>5. MarksOK'  BY <1>3 DEF MarksOK, Submitted
<1>7. FreshOK'  BY <1>2 DEF FreshOK, TypeOK, Goto
<1> QED  BY <1>3, <1>4, <1>5, <1>7

(* The lines between the old mark of a file and its new one are those that *)
(* were submitted.                                                         *)
LEMMA ReadStep ==
  ASSUME InTime, IInv, NEW u \in Run, ReadFile(u)
  PROVE  IInv'
<1> USE DEF IInv, ReadFile, Visited, document
<1> DEFINE f == at[u]
           start == IF len[f] < ckpt[u][f] THEN 0 ELSE ckpt[u][f]
           more == [i \in 1..MaxLen |-> IF start < i /\ i <= len[f] /\ sent[f][i] < 2
                                        THEN sent[f][i] + 1 ELSE sent[f][i]]
<1>1. u \in Active /\ UNCHANGED <<exists, running, stuck>>  BY DEF Active
<1>2. Active' = Active /\ LeaseOK'  BY <1>1, GoesOn
<1>3. f \in File  BY DEF FreshOK
<1>4. sent' = [sent EXCEPT ![f] = more] /\ ckpt' = [ckpt EXCEPT ![u][f] = len[f]]  OBVIOUS
<1>5. /\ len[f] \in 0..MaxLen /\ ckpt[u] \in Marks /\ MaxLen \in Nat
      /\ \A i \in 1..MaxLen : sent[f][i] \in 0..2
  BY <1>3, BoundAssumption DEF TypeOK, Marks
<1>6. \A i \in 1..MaxLen : more[i] \in 0..2
  <2> SUFFICES ASSUME NEW i \in 1..MaxLen PROVE more[i] \in 0..2  OBVIOUS
  <2>1. sent[f][i] \in 0..2  BY <1>5
  <2>2. (more[i] = sent[f][i] + 1 /\ sent[f][i] < 2) \/ more[i] = sent[f][i]  OBVIOUS
  <2> HIDE DEF more, f
  <2> QED  BY <2>1, <2>2
<1>7. \A i \in 1..MaxLen : sent[f][i] > 0 \/ (start < i /\ i <= len[f]) => more[i] > 0
  <2> SUFFICES ASSUME NEW i \in 1..MaxLen, sent[f][i] > 0 \/ (start < i /\ i <= len[f])
               PROVE  more[i] > 0
    OBVIOUS
  <2>1. sent[f][i] \in 0..2  BY <1>5
  <2>2. \/ more[i] = sent[f][i] + 1
        \/ (more[i] = sent[f][i]) /\ (sent[f][i] > 0 \/ ~(sent[f][i] < 2))
    OBVIOUS
  <2> HIDE DEF more, f
  <2> QED  BY <2>1, <2>2
<1>8. \A g \in File, i \in 1..MaxLen : sent[g][i] > 0 => sent'[g][i] > 0
  BY <1>3, <1>4, <1>7 DEF TypeOK
<1>9. ckpt'[u] = [ckpt[u] EXCEPT ![f] = len[f]]  BY <1>4 DEF TypeOK
<1>10. TypeOK'
  <2>1. more \in [1..MaxLen -> 0..2]  BY <1>6
  <2>2. sent' \in [File -> [1..MaxLen -> 0..2]]  BY <1>4, <2>1 DEF TypeOK
  <2>3. ckpt'[u] \in Marks
    <3>1. \A m \in Marks, g \in File, n \in 0..MaxLen : [m EXCEPT ![g] = n] \in Marks
      BY DEF Marks
    <3> HIDE DEF f
    <3> QED  BY <3>1, <1>3, <1>5, <1>9
  <2>4. ckpt' = [ckpt EXCEPT ![u] = ckpt'[u]]  BY <1>4, <1>9 DEF TypeOK
  <2>5. ckpt' \in [Run -> Marks]  BY <2>3, <2>4 DEF TypeOK
  <2>6. todo' \in [Run -> SUBSET File] /\ at' \in [Run -> File \cup {NoFile}]  BY DEF TypeOK
  <2>7. pc' \in [Run -> {"idle", "lease", "load", "scan", "check", "read", "put", "finish"}]
    BY DEF TypeOK, Goto
  <2> QED  BY <2>2, <2>5, <2>6, <2>7 DEF TypeOK
<1>11. MarksOK'
  <2> SUFFICES ASSUME exists, ~late PROVE Submitted(mark)' /\ \A v \in Active : Submitted(ckpt[v])'
    BY <1>1, <1>2 DEF MarksOK
  <2>1. \A m \in Marks : Submitted(m) =>
          \A g \in File : \A i \in 1..m[g] : sent'[g][i] > 0
    <3> SUFFICES ASSUME NEW m \in Marks, Submitted(m), NEW g \in File, NEW i \in 1..m[g]
                 PROVE  sent'[g][i] > 0
      OBVIOUS
    <3>1. m[g] \in 0..MaxLen  BY DEF Marks
    <3>2. i \in 1..MaxLen  BY <3>1, <1>5
    <3>3. sent[g][i] > 0  BY DEF Submitted
    <3> QED  BY <3>2, <3>3, <1>8
  <2>2. Submitted(mark)'  BY <2>1 DEF MarksOK, Submitted, TypeOK
  <2>3. \A v \in Active : v = u  BY <1>1 DEF LeaseOK
  <2>4. Submitted(ckpt[u])  BY <1>1 DEF MarksOK
  <2>5. \A i \in 1..len[f] : sent'[f][i] > 0
    <3> SUFFICES ASSUME NEW i \in 1..len[f] PROVE sent'[f][i] > 0  OBVIOUS
    <3>1. i \in 1..MaxLen /\ i <= len[f]  BY <1>5
    <3>2. ckpt[u][f] \in 0..MaxLen  BY <1>3, <1>5 DEF Marks
    <3>3. sent'[f][i] = more[i]  BY <1>3, <1>4 DEF TypeOK
    <3>4. CASE start < i  BY <3>1, <3>3, <3>4, <1>7
    <3>5. CASE ~(start < i)
      <4>1. i \in 1..ckpt[u][f]  BY <3>1, <3>2, <3>5
      <4>2. sent[f][i] > 0  BY <4>1, <2>4, <1>3 DEF Submitted
      <4> QED  BY <4>2, <3>1, <1>8, <1>3
    <3> QED  BY <3>4, <3>5
  <2>6. \A g \in File : \A i \in 1..ckpt[u][g] : sent'[g][i] > 0
    BY <2>1, <2>4, <1>5
  <2>7. \A g \in File : g # f => ckpt'[u][g] = ckpt[u][g]  BY <1>9, <1>5 DEF Marks
  <2>8. ckpt'[u][f] = len[f]  BY <1>3, <1>9, <1>5 DEF Marks
  <2>9. Submitted(ckpt[u])'
    <3> SUFFICES ASSUME NEW g \in File, NEW i \in 1..ckpt'[u][g] PROVE sent'[g][i] > 0
      BY DEF Submitted
    <3>1. CASE g = f  BY <3>1, <2>5, <2>8
    <3>2. CASE g # f  BY <3>2, <2>6, <2>7
    <3> QED  BY <3>1, <3>2
  <2> QED  BY <2>2, <2>3, <2>9
<1>13. FreshOK'
  <2>1. \A v \in Run : v # u => ckpt'[v] = ckpt[v] /\ at'[v] = at[v] /\ pc'[v] = pc[v]
    BY <1>4 DEF TypeOK, Goto
  <2>2. pc'[u] = "scan"  BY DEF TypeOK, Goto
  <2> QED  BY <2>1, <2>2 DEF FreshOK
<1> QED  BY <1>2, <1>10, <1>11, <1>13

(* A file that was not read leaves its mark where it was.                  *)
LEMMA ReadFailsStep ==
  ASSUME InTime, IInv, NEW u \in Run, ReadFails(u)
  PROVE  IInv'
<1> USE DEF IInv, ReadFails, Visited, document
<1>1. u \in Active /\ UNCHANGED <<exists, running, stuck>>  BY DEF Active
<1>2. PICK p \in {"scan", "finish"} : Goto(u, p)  OBVIOUS
<1>3. Active' = Active /\ LeaseOK'  BY <1>1, <1>2, GoesOn
<1>4. TypeOK'
  <2>1. faults' \in Nat /\ deaths' \in Nat /\ faults' + deaths' <= MaxFaults  BY FaultCounted
  <2>2. todo' \in [Run -> SUBSET File] /\ at' \in [Run -> File \cup {NoFile}]  BY DEF TypeOK
  <2>3. pc' \in [Run -> {"idle", "lease", "load", "scan", "check", "read", "put", "finish"}]
    BY <1>2 DEF TypeOK, Goto
  <2> QED  BY <2>1, <2>2, <2>3 DEF TypeOK
<1>5. MarksOK'  BY <1>3 DEF MarksOK, Submitted
<1>7. FreshOK'  BY <1>2 DEF FreshOK, TypeOK, Goto
<1> QED  BY <1>3, <1>4, <1>5, <1>7

(* Of marks that are covered, those kept are.                              *)
LEMMA PutStep ==
  ASSUME InTime, IInv, NEW u \in Run, FinalPut(u)
  PROVE  IInv'
<1> USE DEF IInv, FinalPut, document
<1>1. u \in Active /\ UNCHANGED <<exists, running, stuck>>  BY DEF Active
<1>2. Active' = Active /\ LeaseOK'  BY <1>1, GoesOn
<1>3. ckpt[u] \in Marks  BY DEF TypeOK
<1>4. mark' \in {mark, ckpt[u], Retained(u)}  OBVIOUS
<1>5. TypeOK'
  <2>1. faults' \in Nat /\ deaths' \in Nat /\ faults' + deaths' <= MaxFaults  BY FaultCounted
  <2>2. Retained(u) \in Marks  BY <1>3, BoundAssumption DEF Retained, Marks
  <2>3. mark' \in Marks  BY <1>3, <1>4, <2>2 DEF TypeOK
  <2>4. pc' \in [Run -> {"idle", "lease", "load", "scan", "check", "read", "put", "finish"}]
    BY DEF TypeOK, Goto
  <2> QED  BY <2>1, <2>3, <2>4 DEF TypeOK
<1>6. MarksOK'
  <2> SUFFICES ASSUME exists, ~late PROVE Submitted(mark)' /\ \A v \in Active : Submitted(ckpt[v])'
    BY <1>1, <1>2 DEF MarksOK
  <2>1. Submitted(mark) /\ \A v \in Active : Submitted(ckpt[v])  BY DEF MarksOK
  <2>2. Submitted(Retained(u))
    <3> SUFFICES ASSUME NEW g \in File, NEW i \in 1..Retained(u)[g] PROVE sent[g][i] > 0
      BY DEF Submitted
    <3>1. g \in seen[u] /\ i \in 1..ckpt[u][g]  BY DEF Retained
    <3> QED  BY <3>1, <2>1, <1>1 DEF Submitted
  <2>3. Submitted(mark')  BY <2>1, <2>2, <1>1, <1>4
  <2> QED  BY <2>1, <2>3 DEF Submitted
<1>8. FreshOK'  BY DEF FreshOK, TypeOK, Goto
<1> QED  BY <1>2, <1>5, <1>6, <1>8

(* What a run that is over leaves of itself.                               *)
LEMMA Forgotten ==
  ASSUME TypeOK, FreshOK, NEW u \in Run, Forget(u)
  PROVE  /\ pc' \in [Run -> {"idle", "lease", "load", "scan", "check", "read", "put", "finish"}]
         /\ ckpt' \in [Run -> Marks]
         /\ todo' \in [Run -> SUBSET File] /\ seen' \in [Run -> SUBSET File]
         /\ at' \in [Run -> File \cup {NoFile}]
         /\ FreshOK'
<1> USE DEF Forget, Goto, TypeOK
<1>1. NoMarks \in Marks  BY BoundAssumption DEF Marks, NoMarks
<1>2. ckpt' \in [Run -> Marks]  BY <1>1
<1>3. FreshOK'  BY DEF FreshOK
<1> QED  BY <1>2, <1>3

(* The run that ends is the one the lease was for.                         *)
LEMMA FinishStep ==
  ASSUME InTime, IInv, NEW u \in Run, Finish(u)
  PROVE  IInv'
<1> USE DEF IInv, Finish
<1>1. u \in Active  BY DEF Active
<1>2. Active' = {} /\ LeaseOK'  BY <1>1, Ends DEF Forget
<1>3. FreshOK'  BY Forgotten
<1>4. TypeOK'
  <2>1. faults' \in Nat /\ deaths' \in Nat /\ faults' + deaths' <= MaxFaults  BY FaultCounted
  <2> QED  BY <2>1, Forgotten DEF TypeOK
<1>5. MarksOK'  BY <1>2 DEF MarksOK, Submitted
<1> QED  BY <1>2, <1>3, <1>4, <1>5

(* A run that dies leaves the lease behind, and nobody under it; one that  *)
(* had no lease leaves the others alone.                                   *)
LEMMA CrashStep ==
  ASSUME InTime, IInv, NEW u \in Run, Crash(u)
  PROVE  IInv'
<1> USE DEF IInv, Crash, document
<1>1. Active' \subseteq Active  BY DEF Active, TypeOK, Forget, Goto
<1>2. \A v \in Active' : pc'[v] = pc[v] /\ ckpt'[v] = ckpt[v]
  BY DEF Active, TypeOK, Forget, Goto
<1>3. LeaseOK'  BY <1>1 DEF LeaseOK
<1>4. FreshOK'  BY Forgotten
<1>5. TypeOK'
  <2>1. faults' \in Nat /\ deaths' \in Nat /\ faults' + deaths' <= MaxFaults
    BY BoundAssumption DEF TypeOK
  <2> QED  BY <2>1, Forgotten DEF TypeOK
<1>6. MarksOK'  BY <1>1, <1>2 DEF MarksOK, Submitted
<1> QED  BY <1>3, <1>4, <1>5, <1>6

-----------------------------------------------------------------------------
(* The invariant is inductive.                                             *)
LEMMA NextIInv == ASSUME InTime, IInv, [Next]_vars PROVE IInv'
<1>1. CASE Next
  <2>1. ASSUME NEW u \in Run, Step(u) \/ LoadFails(u) \/ ReadFails(u) \/ Crash(u) PROVE IInv'
    BY <2>1, TickStep, TryLeaseStep, LoadStep, LoadFailsStep, AnnounceStep, CheckStep,
       ReadStep, ReadFailsStep, PutStep, FinishStep, CrashStep DEF Step
  <2>2. CASE (\E f \in File : Grow(f)) \/ Elapse \/ LeaseAges \/ SetEnabled \/ RunNow
    BY <2>2, QuietStep
  <2>3. CASE ResetSource  BY <2>3, ResetStep
  <2>4. CASE DeleteSource  BY <2>4, DeleteStep
  <2>5. CASE DropCheckpoint  BY <2>5, DropStep
  <2> QED  BY <1>1, <2>1, <2>2, <2>3, <2>4, <2>5 DEF Next
<1>2. CASE UNCHANGED vars
  <2> USE <1>2 DEF vars
  <2>1. Active' = Active  BY DEF Active
  <2>2. TypeOK'  BY DEF IInv, TypeOK
  <2>3. LeaseOK' /\ MarksOK' /\ FreshOK'
    BY <2>1 DEF IInv, LeaseOK, MarksOK, Submitted, FreshOK
  <2> QED  BY <2>2, <2>3 DEF IInv
<1> QED  BY <1>1, <1>2

(* The strengthening holds in every state, when no run outlives its lease. *)
THEOREM Invariance == ASSUME InTime PROVE Spec => []IInv
<1>1. Init => IInv  BY InitIInv
<1>2. IInv /\ [Next]_vars => IInv'  BY NextIInv
<1> QED  BY <1>1, <1>2, PTL DEF Spec

(* Type correctness, with the counters of failures within their bound.     *)
THEOREM TypeCorrect == ASSUME InTime PROVE Spec => []TypeOK
<1>1. IInv => TypeOK  BY DEF IInv
<1> QED  BY <1>1, Invariance, PTL

(* The lease lets one run at a time read the source (source_try_lease),    *)
(* whatever dies and whoever disables, re-enables, resets or triggers it.  *)
THEOREM OneRunHolds == ASSUME InTime PROVE Spec => []OneRun
<1>1. IInv => OneRun  BY DEF IInv, LeaseOK, OneRun
<1> QED  BY <1>1, Invariance, PTL

(* The stored checkpoint (source_checkpoint_put) covers only lines that    *)
(* were submitted since the last reset: none is passed over, if no run     *)
(* outlives its lease.  What a reset that came late (source_reset) leaves, *)
(* the marks of a run that began between its two calls, is excepted by     *)
(* NothingSkipped itself.                                                  *)
THEOREM NothingSkippedHolds == ASSUME InTime PROVE Spec => []NothingSkipped
<1>1. IInv => NothingSkipped  BY DEF IInv, MarksOK, Submitted, NothingSkipped
<1> QED  BY <1>1, Invariance, PTL
-----------------------------------------------------------------------------
(***************************************************************************)
(* How far the marks lag behind the submissions.  WalkOK: a mark is within *)
(* its file, and a file with a mark is on the walk, so the final put drops *)
(* none.  OnceOK: while nothing has failed, the lines past the marks that  *)
(* count - those the working run holds, or the stored ones when there is   *)
(* none - were not submitted at all.  ResumeOK: the stored marks lag by    *)
(* the file just read, and only until the next file is announced.          *)
(***************************************************************************)
Within(m) == \A f \in File : m[f] <= len[f]
Unsent(m) == \A f \in File : \A i \in 1..MaxLen : i > m[f] => sent[f][i] = 0
Working == {u \in Run : pc[u] \in {"scan", "check", "read", "put"}}
Behind(u) == {f \in File : ckpt[u][f] > mark[f]}

WalkOK ==
  /\ Within(mark) /\ \A u \in Run : Within(ckpt[u])
  /\ \A u \in Run : pc[u] \in {"scan", "check", "read"} =>
       \A f \in File : ckpt[u][f] > 0 => f \in todo[u] \cup seen[u]
  /\ \A u \in Run : pc[u] \in {"check", "read"} => at[u] \in seen[u]

OnceOK ==
  faults = 0 /\ deaths = 0 =>
    /\ \A f \in File : \A i \in 1..MaxLen : sent[f][i] <= 1
    /\ \A u \in Working : Unsent(ckpt[u])
    /\ Working = {} => Unsent(mark)

ResumeOK ==
  exists /\ ~late /\ faults = 0 => \A u \in Active :
    /\ pc[u] = "scan" => \E f \in File \cup {NoFile} : Behind(u) \subseteq {f}
    /\ pc[u] # "scan" => Behind(u) = {}

LagOK == WalkOK /\ OnceOK /\ ResumeOK

(* Marks are numbers of lines.                                             *)
LEMMA MarkNat ==
  ASSUME TypeOK, NEW f \in File
  PROVE  /\ MaxLen \in Nat /\ len[f] \in Nat /\ mark[f] \in Nat
         /\ \A u \in Run : ckpt[u][f] \in Nat
BY BoundAssumption DEF TypeOK, Marks

(* Marks that start at nothing lag behind nothing.                         *)
LEMMA NothingBehind ==
  ASSUME TypeOK, NEW u \in Run, ckpt[u] = NoMarks \/ ckpt[u] = mark
  PROVE  Behind(u) = {}
BY MarkNat DEF Behind, NoMarks

(* A source nobody has read yet.                                           *)
LEMMA InitLagOK == Init => LagOK
<1> SUFFICES ASSUME Init PROVE LagOK  OBVIOUS
<1> USE DEF Init
<1>1. Active = {} /\ Working = {}  BY DEF Active, Working
<1>2. WalkOK  BY DEF WalkOK, Within, NoMarks
<1>3. OnceOK  BY <1>1 DEF OnceOK, Unsent, NotSent
<1>4. ResumeOK  BY <1>1 DEF ResumeOK
<1> QED  BY <1>2, <1>3, <1>4 DEF LagOK

(* What leaves the marks, the submissions and the walk alone: files grow,  *)
(* the lease moves, a run looks whether it may go on.                      *)
Outside(v) ==
  \/ pc'[v] = pc[v]
  \/ pc[v] \in {"idle", "lease", "load"} /\ pc'[v] \in {"idle", "lease", "load", "finish"}
  \/ pc[v] = "check" /\ pc'[v] \in {"read", "put"}

LEMMA OutsideStep ==
  ASSUME IInv, IInv', LagOK, UNCHANGED <<mark, sent, ckpt, todo, seen, at>>,
         \A f \in File : len[f] <= len'[f],
         exists' => exists, late' = late, faults' = 0 => faults = 0,
         deaths' = 0 => deaths = 0,
         \A v \in Run : Outside(v)
  PROVE  LagOK'
<1>1. WalkOK'
  <2>1. \A f \in File : len[f] \in Nat /\ len'[f] \in Nat
    BY BoundAssumption DEF IInv, TypeOK, Marks
  <2>2. \A f \in File : mark[f] <= len'[f] /\ \A v \in Run : ckpt[v][f] <= len'[f]
    BY <2>1, MarkNat DEF LagOK, WalkOK, Within, IInv
  <2>3. \A v \in Run : /\ pc'[v] \in {"scan", "check", "read"} => pc[v] \in {"scan", "check", "read"}
                       /\ pc'[v] \in {"check", "read"} => pc[v] \in {"check", "read"}
    BY DEF Outside
  <2> QED  BY <2>2, <2>3 DEF LagOK, WalkOK, Within
<1>2. OnceOK'
  <2>1. Working' = Working  BY DEF Outside, Working
  <2> QED  BY <2>1 DEF LagOK, OnceOK, Unsent
<1>3. ResumeOK'
  <2> SUFFICES ASSUME exists', ~late', faults' = 0, NEW u \in Active'
               PROVE  /\ pc'[u] = "scan" => \E f \in File \cup {NoFile} : Behind(u) \subseteq {f}
                      /\ pc'[u] # "scan" => Behind(u) = {}
    BY DEF ResumeOK, Behind
  <2>1. u \in Run  BY DEF Active
  <2>2. CASE pc[u] \in {"idle", "lease", "load"}
    <3>1. ckpt[u] = NoMarks  BY <2>1, <2>2 DEF IInv, FreshOK
    <3>2. pc'[u] # "scan"  BY <2>1, <2>2 DEF Outside
    <3> QED  BY <2>1, <3>1, <3>2, NothingBehind DEF IInv
  <2>3. CASE pc[u] \notin {"idle", "lease", "load"}
    <3>1. u \in Active  BY <2>1, <2>3 DEF Active
    <3>2. pc'[u] = pc[u] \/ (pc[u] # "scan" /\ pc'[u] # "scan")  BY <2>1, <2>3 DEF Outside
    <3> QED  BY <3>1, <3>2 DEF LagOK, ResumeOK
  <2> QED  BY <2>2, <2>3
<1> QED  BY <1>1, <1>2, <1>3 DEF LagOK

(* The steps that lemma is for.                                            *)
LEMMA OutsideSteps ==
  ASSUME IInv, IInv', LagOK,
         \/ \E u \in Run : Tick(u) \/ TryLease(u) \/ LoadFails(u) \/ CheckEnabled(u)
         \/ \E f \in File : Grow(f)
         \/ Elapse \/ LeaseAges \/ SetEnabled \/ RunNow \/ ResetSource \/ DeleteSource
         \/ UNCHANGED vars
  PROVE  LagOK'
<1> USE DEF document, runs, Outside
<1>0. \A f \in File : len[f] \in Nat  BY MarkNat DEF IInv
<1>1. ASSUME NEW u \in Run, Tick(u) \/ TryLease(u) \/ LoadFails(u) \/ CheckEnabled(u)
      PROVE  LagOK'
  <2>1. UNCHANGED <<mark, sent, ckpt, todo, seen, at, len, exists, late, deaths>>
    BY <1>1 DEF Tick, TryLease, LoadFails, CheckEnabled
  <2>2. faults' = 0 => faults = 0
    BY <1>1 DEF Tick, TryLease, LoadFails, CheckEnabled, Fault, IInv, TypeOK
  <2>3. \A v \in Run : Outside(v)
    <3>1. CASE Tick(u)  BY <3>1 DEF Tick, Goto, IInv, TypeOK
    <3>2. CASE TryLease(u)  BY <3>2 DEF TryLease, Goto, IInv, TypeOK
    <3>3. CASE LoadFails(u)  BY <3>3 DEF LoadFails, Goto, IInv, TypeOK
    <3>4. CASE CheckEnabled(u)  BY <3>4 DEF CheckEnabled, Goto, IInv, TypeOK
    <3> QED  BY <1>1, <3>1, <3>2, <3>3, <3>4
  <2>4. \A f \in File : len[f] <= len'[f]  BY <1>0, <2>1
  <2> QED  BY <2>1, <2>2, <2>3, <2>4, OutsideStep
<1>2. ASSUME NEW g \in File, Grow(g) PROVE LagOK'
  <2>1. UNCHANGED <<mark, sent, ckpt, todo, seen, at, pc, exists, late, faults, deaths>>
    BY <1>2 DEF Grow
  <2>2. \A f \in File : len[f] <= len'[f]
    <3>1. len' = [len EXCEPT ![g] = len[g] + 1] \/ (len' = [len EXCEPT ![g] = MaxLen])
      BY <1>2 DEF Grow
    <3>2. len[g] < MaxLen /\ MaxLen \in Nat  BY <1>2, BoundAssumption DEF Grow
    <3>3. \A f \in File : f # g => len'[f] = len[f]
      BY <3>1 DEF IInv, TypeOK, Marks
    <3>4. len'[g] \in {len[g] + 1, MaxLen}  BY <3>1 DEF IInv, TypeOK, Marks
    <3>5. len[g] <= len'[g]  BY <1>0, <3>2, <3>4
    <3> QED  BY <1>0, <3>3, <3>5
  <2> QED  BY <2>1, <2>2, OutsideStep
<1>3. CASE Elapse \/ LeaseAges \/ SetEnabled \/ RunNow \/ ResetSource \/ DeleteSource
           \/ UNCHANGED vars
  <2>1. /\ UNCHANGED <<mark, sent, ckpt, todo, seen, at, pc, len, late, faults, deaths>>
        /\ exists' => exists
    BY <1>3 DEF Elapse, LeaseAges, SetEnabled, RunNow, ResetSource, DeleteSource, vars
  <2>2. \A f \in File : len[f] <= len'[f]  BY <1>0, <2>1
  <2> QED  BY <2>1, <2>2, OutsideStep
<1> QED  BY <1>1, <1>2, <1>3

(* A reset, or the end of a source, forgets marks and submissions at once. *)
LEMMA DropLag == ASSUME IInv, LagOK, DropCheckpoint PROVE LagOK'
<1> USE DEF DropCheckpoint, document, runs, LagOK
<1>0. Active' = Active /\ Working' = Working  BY DEF Active, Working
<1>1. WalkOK'
  <2>1. \A f \in File : 0 <= len[f]  BY MarkNat DEF IInv
  <2>2. Within(mark)'  BY <2>1 DEF WalkOK, Within, NoMarks
  <2> QED  BY <2>2 DEF WalkOK, Within
<1>2. OnceOK'
  <2>1. CASE mark' = NoMarks /\ sent' = NotSent
    BY <2>1 DEF OnceOK, Unsent, NotSent
  <2>2. CASE Fault
    BY <2>2 DEF OnceOK, Fault, IInv, TypeOK
  <2> QED  BY <2>1, <2>2
<1>3. ResumeOK'
  <2>1. CASE /\ mark' = NoMarks /\ UNCHANGED faults
             /\ late' = (\E u \in Active : ckpt[u] # NoMarks)
    <3> SUFFICES ASSUME ~late', NEW u \in Active PROVE Behind(u)' = {}
      BY <1>0 DEF ResumeOK
    <3>1. ckpt[u] = NoMarks  BY <2>1
    <3> QED  BY <2>1, <3>1 DEF Behind, NoMarks
  <2>2. CASE Fault
    BY <2>2 DEF ResumeOK, Fault, IInv, TypeOK
  <2> QED  BY <2>1, <2>2
<1> QED  BY <1>1, <1>2, <1>3

(* Nobody but the run that steps is active.                                *)
LEMMA OnlyRun ==
  ASSUME IInv, NEW u \in Active
  PROVE  u \in Run /\ Active \subseteq {u} /\ Working \subseteq {u}
BY DEF IInv, LeaseOK, Active, Working

(* A run begins where the stored marks are.                                *)
LEMMA LoadLag == ASSUME IInv, LagOK, NEW u \in Run, LoadCheckpoint(u) PROVE LagOK'
<1> USE DEF LoadCheckpoint, document, LagOK
<1>1. u \in Active /\ u \notin Working  BY DEF Active, Working
<1>2. Active \subseteq {u} /\ Working = {}  BY <1>1, OnlyRun
<1>3. /\ ckpt' = [ckpt EXCEPT ![u] = mark] /\ pc' = [pc EXCEPT ![u] = "scan"]
      /\ UNCHANGED <<len, exists, mark, sent, at, faults, deaths>>
  BY DEF Goto
<1>4. ckpt'[u] = mark /\ pc'[u] = "scan" /\ Working' = {u} /\ Active' = {u}
  BY <1>1, <1>2, <1>3 DEF IInv, TypeOK, Working, Active
<1>5. \A f \in File : mark[f] > 0 => f \in todo'[u] \cup seen'[u]
  <2> DEFINE listed == {f \in File : len[f] > 0}
             known  == {f \in listed : kind = "s3" /\ mark[f] > 0}
  <2>1. todo'[u] = listed \ known /\ seen'[u] = known  BY DEF IInv, TypeOK
  <2>2. \A f \in File : mark[f] > 0 => f \in listed
    BY MarkNat DEF IInv, WalkOK, Within
  <2> HIDE DEF listed, known
  <2> QED  BY <2>1, <2>2
<1>6. WalkOK'
  <2>1. Within(mark)' /\ \A v \in Run : Within(ckpt[v])'
    BY <1>3 DEF WalkOK, Within, IInv, TypeOK
  <2>2. \A v \in Run : v # u => /\ pc'[v] = pc[v] /\ ckpt'[v] = ckpt[v] /\ at'[v] = at[v]
                                /\ todo'[v] = todo[v] /\ seen'[v] = seen[v]
    BY DEF Goto, IInv, TypeOK
  <2> QED  BY <1>4, <1>5, <2>1, <2>2 DEF WalkOK
<1>7. OnceOK'  BY <1>2, <1>3, <1>4 DEF OnceOK, Unsent
<1>8. ResumeOK'
  <2>1. Behind(u)' = {}  BY <1>3, <1>4, MarkNat DEF Behind, IInv
  <2> QED  BY <1>4, <2>1 DEF ResumeOK
<1> QED  BY <1>6, <1>7, <1>8

(* The put before a file closes the gap.                                   *)
LEMMA AnnounceLag == ASSUME IInv, LagOK, NEW u \in Run, Announce(u) PROVE LagOK'
<1> USE DEF Announce, document, LagOK
<1>1. u \in Active /\ u \in Working  BY DEF Active, Working
<1>2. Active \subseteq {u} /\ Working = {u}  BY <1>1, OnlyRun
<1>3. PICK f \in Ahead(u) : at' = [at EXCEPT ![u] = f] /\ seen' = [seen EXCEPT ![u] = seen[u] \cup {f}]
  OBVIOUS
<1>4. pc'[u] = "check" /\ Working' = {u} /\ Active' = {u}
  BY <1>1, <1>2 DEF IInv, TypeOK, Working, Active, Goto
<1>5. mark' = ckpt[u] \/ mark' = mark  OBVIOUS
<1>6. WalkOK'
  <2>1. Within(mark)' /\ \A v \in Run : Within(ckpt[v])'
    BY <1>5 DEF WalkOK, Within
  <2>2. \A v \in Run : v # u => /\ pc'[v] = pc[v] /\ at'[v] = at[v] /\ seen'[v] = seen[v]
    BY <1>3 DEF Goto, IInv, TypeOK
  <2>3. at'[u] = f /\ seen'[u] = seen[u] \cup {f}  BY <1>3 DEF IInv, TypeOK
  <2>4. \A g \in File : ckpt[u][g] > 0 => g \in todo[u] \cup seen'[u]  BY <2>3 DEF WalkOK
  <2> QED  BY <1>4, <2>1, <2>2, <2>3, <2>4 DEF WalkOK
<1>7. OnceOK'
  <2>1. faults' = 0 => faults = 0  BY DEF Fault, IInv, TypeOK
  <2> QED  BY <1>2, <1>4, <2>1 DEF OnceOK, Unsent
<1>8. ResumeOK'
  <2> SUFFICES ASSUME faults' = 0 PROVE Behind(u)' = {}  BY <1>4 DEF ResumeOK
  <2>1. mark' = ckpt[u]  BY DEF Fault, IInv, TypeOK
  <2> QED  BY <2>1, MarkNat DEF Behind, IInv
<1> QED  BY <1>6, <1>7, <1>8

(* The lines read lie past the run's mark, so they are new; the gap is the *)
(* file read.                                                              *)
LEMMA ReadLag == ASSUME IInv, LagOK, NEW u \in Run, ReadFile(u) PROVE LagOK'
<1> USE DEF ReadFile, Visited, document, LagOK
<1> DEFINE f == at[u]
           start == IF len[f] < ckpt[u][f] THEN 0 ELSE ckpt[u][f]
           more == [i \in 1..MaxLen |-> IF start < i /\ i <= len[f] /\ sent[f][i] < 2
                                        THEN sent[f][i] + 1 ELSE sent[f][i]]
<1>1. u \in Active /\ u \in Working  BY DEF Active, Working
<1>2. Active \subseteq {u} /\ Working = {u}  BY <1>1, OnlyRun
<1>3. f \in File  BY DEF IInv, FreshOK
<1>4. /\ sent' = [sent EXCEPT ![f] = more] /\ ckpt' = [ckpt EXCEPT ![u][f] = len[f]]
      /\ todo' = [todo EXCEPT ![u] = todo[u] \ {f}] /\ UNCHANGED seen
      /\ UNCHANGED <<len, exists, mark, faults, deaths>>
  OBVIOUS
<1>5. ckpt'[u] = [ckpt[u] EXCEPT ![f] = len[f]]  BY <1>4 DEF IInv, TypeOK
<1>6. /\ ckpt'[u][f] = len[f]
      /\ \A g \in File : g # f => ckpt'[u][g] = ckpt[u][g]
  BY <1>3, <1>5 DEF IInv, TypeOK, Marks
<1>7. pc'[u] = "scan" /\ Working' = {u} /\ Active' = {u}
  BY <1>1, <1>2 DEF IInv, TypeOK, Working, Active, Goto
<1>8. \A v \in Run : v # u => /\ pc'[v] = pc[v] /\ at'[v] = at[v] /\ ckpt'[v] = ckpt[v]
                              /\ todo'[v] = todo[v]
  BY <1>4 DEF IInv, TypeOK, Goto
<1>9. \A g \in File : len[g] \in Nat /\ ckpt[u][g] \in Nat /\ mark[g] \in Nat
  BY MarkNat DEF IInv
<1>10. WalkOK'
  <2>1. \A g \in File : ckpt'[u][g] <= len[g]  BY <1>6, <1>9 DEF WalkOK, Within
  <2>2. Within(mark)' /\ \A v \in Run : Within(ckpt[v])'
    BY <1>4, <1>8, <2>1 DEF WalkOK, Within
  <2>3. \A g \in File : ckpt'[u][g] > 0 => g \in todo'[u] \cup seen'[u]
    <3>1. f \in seen[u]  BY DEF WalkOK
    <3>2. todo'[u] = todo[u] \ {f} /\ seen'[u] = seen[u]  BY <1>4 DEF IInv, TypeOK
    <3>3. \A g \in File : ckpt[u][g] > 0 => g \in todo[u] \cup seen[u]  BY DEF WalkOK
    <3> QED  BY <1>6, <3>1, <3>2, <3>3
  <2> QED  BY <1>4, <1>7, <1>8, <2>2, <2>3 DEF WalkOK
<1>11. OnceOK'
  <2> SUFFICES ASSUME faults = 0, deaths = 0
               PROVE  /\ \A g \in File : \A i \in 1..MaxLen : sent'[g][i] <= 1
                      /\ Unsent(ckpt[u])'
    BY <1>4, <1>7 DEF OnceOK
  <2>1. Unsent(ckpt[u])  BY <1>1 DEF OnceOK
  <2>2. start = ckpt[u][f]  BY <1>3, <1>9 DEF WalkOK, Within
  <2>3. \A i \in 1..MaxLen : more[i] = IF start < i /\ i <= len[f] /\ sent[f][i] < 2
                                       THEN sent[f][i] + 1 ELSE sent[f][i]
    OBVIOUS
  <2>4. \A g \in File : \A i \in 1..MaxLen : g # f => sent'[g][i] = sent[g][i]
    BY <1>4 DEF IInv, TypeOK
  <2>5. \A i \in 1..MaxLen : sent'[f][i] = more[i]  BY <1>3, <1>4 DEF IInv, TypeOK
  <2> HIDE DEF more, start, f
  <2>6. \A i \in 1..MaxLen : more[i] <= 1
    <3> SUFFICES ASSUME NEW i \in 1..MaxLen PROVE more[i] <= 1  OBVIOUS
    <3>1. CASE start < i
      <4>1. sent[f][i] = 0  BY <3>1, <2>1, <2>2, <1>3, <1>9 DEF Unsent
      <4> QED  BY <2>3, <4>1
    <3>2. CASE ~(start < i)  BY <3>2, <2>3, <1>3 DEF OnceOK
    <3> QED  BY <3>1, <3>2
  <2>7. \A g \in File : \A i \in 1..MaxLen : sent'[g][i] <= 1
    BY <2>4, <2>5, <2>6 DEF OnceOK
  <2>8. \A g \in File : \A i \in 1..MaxLen : i > ckpt'[u][g] => sent'[g][i] = 0
    <3> SUFFICES ASSUME NEW g \in File, NEW i \in 1..MaxLen, i > ckpt'[u][g]
                 PROVE  sent'[g][i] = 0
      OBVIOUS
    <3>1. CASE g # f  BY <3>1, <1>6, <2>1, <2>4 DEF Unsent
    <3>2. CASE g = f
      <4>1. i > len[f]  BY <3>2, <1>6
      <4>2. ~(i <= len[f])  BY <4>1, <1>3, <1>9
      <4>3. more[i] = sent[f][i]  BY <2>3, <4>2
      <4>4. i > ckpt[u][f]  BY <4>1, <1>3, <1>9 DEF WalkOK, Within
      <4>5. sent[f][i] = 0  BY <4>4, <2>1, <1>3 DEF Unsent
      <4> QED  BY <3>2, <4>3, <4>5, <2>5
    <3> QED  BY <3>1, <3>2
  <2> QED  BY <2>7, <2>8 DEF Unsent
<1>12. ResumeOK'
  <2> SUFFICES ASSUME exists, ~late, faults = 0 PROVE Behind(u)' \subseteq {f}
    BY <1>3, <1>4, <1>7 DEF ResumeOK
  <2>1. Behind(u) = {}  BY <1>1 DEF ResumeOK
  <2> QED  BY <1>4, <1>6, <2>1 DEF Behind
<1> QED  BY <1>10, <1>11, <1>12

(* A file passed over is on the walk all the same.                         *)
LEMMA ReadFailsLag == ASSUME IInv, LagOK, NEW u \in Run, ReadFails(u) PROVE LagOK'
<1> USE DEF ReadFails, Visited, document, LagOK
<1>1. faults' # 0  BY DEF Fault, IInv, TypeOK
<1>2. OnceOK' /\ ResumeOK'  BY <1>1 DEF OnceOK, ResumeOK
<1>3. PICK p \in {"scan", "finish"} : Goto(u, p)  OBVIOUS
<1>4. \A v \in Run : v # u => pc'[v] = pc[v] /\ at'[v] = at[v] /\ todo'[v] = todo[v]
  BY <1>3 DEF IInv, TypeOK, Goto
<1>5. pc'[u] \in {"scan", "finish"} /\ todo'[u] = todo[u] \ {at[u]}
  BY <1>3 DEF IInv, TypeOK, Goto
<1>6. WalkOK'
  <2>1. Within(mark)' /\ \A v \in Run : Within(ckpt[v])'  BY DEF WalkOK, Within
  <2>2. \A g \in File : ckpt[u][g] > 0 => g \in todo'[u] \cup seen[u]
    <3>1. at[u] \in seen[u]  BY DEF WalkOK
    <3>2. \A g \in File : ckpt[u][g] > 0 => g \in todo[u] \cup seen[u]  BY DEF WalkOK
    <3> QED  BY <1>5, <3>1, <3>2
  <2> QED  BY <1>4, <1>5, <2>1, <2>2 DEF WalkOK
<1> QED  BY <1>2, <1>6

(* A complete walk has seen every file that has a mark.                    *)
LEMMA NoneDropped ==
  ASSUME IInv, WalkOK, NEW u \in Run, pc[u] = "scan", todo[u] = {}
  PROVE  \A f \in File : Retained(u)[f] = ckpt[u][f]
<1> SUFFICES ASSUME NEW f \in File PROVE Retained(u)[f] = ckpt[u][f]  OBVIOUS
<1>1. ckpt[u][f] \in Nat  BY MarkNat DEF IInv
<1>2. ckpt[u][f] > 0 => f \in seen[u]  BY DEF WalkOK
<1> QED  BY <1>1, <1>2 DEF Retained

(* The last put stores what the run holds.                                 *)
LEMMA PutLag == ASSUME IInv, LagOK, NEW u \in Run, FinalPut(u) PROVE LagOK'
<1> USE DEF FinalPut, document, LagOK
<1>1. u \in Active /\ u \in Working  BY DEF Active, Working
<1>2. Active \subseteq {u} /\ Working = {u}  BY <1>1, OnlyRun
<1>3. pc'[u] = "finish" /\ Working' = {} /\ Active' = {u}
  BY <1>1, <1>2 DEF IInv, TypeOK, Working, Active, Goto
<1>4. \/ Fault /\ UNCHANGED mark
      \/ UNCHANGED faults /\ \A f \in File : mark'[f] = ckpt[u][f]
  BY NoneDropped
<1>5. WalkOK'
  <2>1. \A f \in File : mark'[f] <= len[f]  BY <1>4 DEF WalkOK, Within
  <2>2. \A v \in Run : v # u => pc'[v] = pc[v]  BY DEF IInv, TypeOK, Goto
  <2> QED  BY <1>3, <2>1, <2>2 DEF WalkOK, Within
<1>6. CASE Fault
  BY <1>5, <1>6 DEF OnceOK, ResumeOK, Fault, IInv, TypeOK
<1>7. CASE UNCHANGED faults /\ \A f \in File : mark'[f] = ckpt[u][f]
  <2>1. OnceOK'  BY <1>1, <1>3, <1>7 DEF OnceOK, Unsent
  <2>2. Behind(u)' = {}  BY <1>7, MarkNat DEF Behind, IInv
  <2>3. ResumeOK'  BY <1>3, <2>2 DEF ResumeOK
  <2> QED  BY <1>5, <2>1, <2>3
<1> QED  BY <1>4, <1>6, <1>7

(* A run that is over leaves no trace but its marks.                       *)
LEMMA ForgetWalk ==
  ASSUME IInv, WalkOK, NEW u \in Run, Forget(u), UNCHANGED <<len, mark>>
  PROVE  WalkOK'
<1>1. /\ pc'[u] = "idle" /\ ckpt'[u] = NoMarks
      /\ \A v \in Run : v # u => /\ pc'[v] = pc[v] /\ ckpt'[v] = ckpt[v] /\ at'[v] = at[v]
                                 /\ todo'[v] = todo[v] /\ seen'[v] = seen[v]
  BY DEF Forget, Goto, IInv, TypeOK
<1>2. \A f \in File : NoMarks[f] <= len[f]  BY MarkNat DEF NoMarks, IInv
<1> QED  BY <1>1, <1>2 DEF WalkOK, Within

LEMMA FinishLag == ASSUME IInv, LagOK, NEW u \in Run, Finish(u) PROVE LagOK'
<1> USE DEF Finish, LagOK
<1>1. u \in Active /\ u \notin Working  BY DEF Active, Working
<1>2. Working = {} /\ Active' = {} /\ Working' = {}
  <2>1. Working = {}  BY <1>1, OnlyRun
  <2>2. Active' = {}  BY <1>1, Ends DEF Forget, IInv
  <2> QED  BY <2>1, <2>2 DEF Working, Active
<1>3. WalkOK'  BY ForgetWalk
<1>4. OnceOK'
  <2>1. faults' = 0 => faults = 0  BY DEF Fault, IInv, TypeOK
  <2> QED  BY <1>2, <2>1 DEF OnceOK, Unsent
<1>5. ResumeOK'  BY <1>2 DEF ResumeOK
<1> QED  BY <1>3, <1>4, <1>5

LEMMA CrashLag == ASSUME IInv, LagOK, NEW u \in Run, Crash(u) PROVE LagOK'
<1> USE DEF Crash, document, LagOK
<1>1. WalkOK'  BY ForgetWalk
<1>2. OnceOK'  BY DEF OnceOK, IInv, TypeOK
<1>3. ResumeOK'
  <2>1. \A v \in Active' : v \in Active /\ pc'[v] = pc[v] /\ ckpt'[v] = ckpt[v]
    BY DEF Active, IInv, TypeOK, Forget, Goto
  <2>2. \A v \in Active' : Behind(v)' = Behind(v)  BY <2>1 DEF Behind
  <2> QED  BY <2>1, <2>2 DEF ResumeOK
<1> QED  BY <1>1, <1>2, <1>3

(* Every step keeps the marks that close.                                  *)
LEMMA NextLagOK == ASSUME IInv, IInv', LagOK, [Next]_vars PROVE LagOK'
<1>1. ASSUME NEW u \in Run, Step(u) \/ LoadFails(u) \/ ReadFails(u) \/ Crash(u) PROVE LagOK'
  BY <1>1, OutsideSteps, LoadLag, AnnounceLag, ReadLag, ReadFailsLag, PutLag, FinishLag,
     CrashLag DEF Step
<1>2. CASE DropCheckpoint  BY <1>2, DropLag
<1> QED  BY <1>1, <1>2, OutsideSteps DEF Next

(* Both strengthenings together hold in every state.                       *)
THEOREM MarksLagLittle == ASSUME InTime PROVE Spec => [](IInv /\ LagOK)
<1>1. Init => IInv /\ LagOK  BY InitIInv, InitLagOK
<1>2. (IInv /\ LagOK) /\ [Next]_vars => (IInv /\ LagOK)'
  <2> SUFFICES ASSUME IInv, LagOK, [Next]_vars PROVE IInv' /\ LagOK'  OBVIOUS
  <2>1. IInv'  BY NextIInv
  <2> QED  BY <2>1, NextLagOK
<1> QED  BY <1>1, <1>2, PTL DEF Spec

(* What a crash has the next run submit again is one file (the announcing  *)
(* put of pull_fs), whatever died, as long as no put failed.               *)
THEOREM OneFileToRepeat == ASSUME InTime PROVE Spec => []CrashResumesHere
<1>1. IInv /\ LagOK => CrashResumesHere
  <2> SUFFICES ASSUME LagOK, exists, ~late, faults = 0, NEW u \in Active
               PROVE  Cardinality({f \in File : ckpt[u][f] > mark[f]}) <= 1
    BY DEF CrashResumesHere
  <2>1. \E f \in File \cup {NoFile} : Behind(u) \subseteq {f}
    BY DEF LagOK, ResumeOK
  <2>2. PICK f \in File \cup {NoFile} : Behind(u) \subseteq {f}  BY <2>1
  <2>3. Behind(u) = {} \/ Behind(u) = {f}  BY <2>2
  <2>4. Cardinality(Behind(u)) \in {0, 1}  BY <2>3, FS_EmptySet, FS_Singleton
  <2> QED  BY <2>4 DEF Behind
<1> QED  BY <1>1, MarksLagLittle, PTL

(* No line is submitted twice between resets while nothing fails: the      *)
(* lease, the marks and the final put together never lose one.             *)
THEOREM SentOnceHolds == ASSUME InTime PROVE Spec => []SentOnce
<1>1. IInv /\ LagOK => SentOnce  BY DEF LagOK, OnceOK, SentOnce
<1> QED  BY <1>1, MarksLagLittle, PTL
=============================================================================
