-------------------------- MODULE MonitorRun_proofs --------------------------
(***************************************************************************)
(* No breach goes without its alert and none is alerted twice, for every   *)
(* number of schedulers, runs and faults, as long as the runs are serial.  *)
(*                                                                         *)
(* While they are, one run is under way at most, and what it took from the *)
(* list is still what the document says; so the edge it computes is the    *)
(* edge of the document.  The history tells where the last alert stands:   *)
(* in the document, in a run about to record it, or cut.                   *)
(***************************************************************************)
EXTENDS MonitorRun, TLAPS

AtMostOneRun ==
  \A r, q \in Run : (run[r] # Idle /\ run[q] # Idle) => r = q

(* Between its list and its record a run holds what the document says, and *)
(* goes by the edge.                                                       *)
RunOK(r) ==
  /\ run[r].step \in {"alert", "set"} => run[r].kind = "threshold"
  /\ run[r].step = "alert" => run[r].last # "breach" /\ run[r].seen
  /\ (mon # Gone /\ run[r].kind = "threshold") =>
       run[r].last = mon.last /\ mon.kind = "threshold"
  /\ Unrecorded(r) => alerted

(* A run that may still raise an alert is not preceded by another.         *)
FirstAlert(r) ==
  (run[r].kind = "threshold" /\ run[r].step \in {"query", "alert"}
     /\ run[r].last # "breach" /\ alerted) => cut

(* The last alert is on record, or about to be, or was cut.                *)
AlertStands ==
  (alerted /\ mon # Gone) =>
    mon.last = "breach" \/ cut \/ \E r \in Run : Unrecorded(r)

SerialOK ==
  /\ AtMostOneRun
  /\ \A r \in Run : run[r] # Idle => RunOK(r) /\ FirstAlert(r)
  /\ AlertStands
  /\ (mon # Gone /\ mon.last = "breach") => alerted

IInv == TypeOK /\ (serial => SerialOK)

-----------------------------------------------------------------------------
(* Types.                                                                  *)

LEMMA InitIInv == Init => IInv
<1> SUFFICES ASSUME Init PROVE IInv  OBVIOUS
<1>1. mon \in Monitor /\ mon.last = "none"
  <2>1. PICK k \in Kind, e \in BOOLEAN :
          mon = [kind |-> k, enabled |-> e, last |-> "none", running |-> FALSE, due |-> TRUE]
    BY DEF Init
  <2> QED  BY <2>1 DEF Monitor, Breaching
<1>2. TypeOK
  <2>1. snap \in [Node -> View \cup {Idle}] /\ run \in [Run -> InProgress \cup {Idle}]
    BY DEF Init
  <2>2. faults \in 0..MaxFaults  BY FaultAssumption DEF Init
  <2>3. stuck = FALSE /\ alerted = FALSE /\ cut = FALSE /\ serial = TRUE
    BY Zenon DEF Init
  <2>4. agent \in BOOLEAN  BY DEF Init
  <2> QED  BY <1>1, <2>1, <2>2, <2>3, <2>4 DEF TypeOK
<1>3. SerialOK  BY <1>1 DEF Init, SerialOK, AtMostOneRun, AlertStands
<1> QED  BY <1>2, <1>3 DEF IInv

(* What a run in progress becomes when it moves.                           *)
LEMMA Moved ==
  ASSUME TypeOK, NEW r \in Run, run[r] # Idle
  PROVE  /\ run[r] \in InProgress /\ run[r].kind \in Kind
         /\ run[r].last \in Breaching /\ run[r].seen \in BOOLEAN
         /\ \A s \in {"query", "alert", "set", "finish"} :
              Goto(r, s) =>
                /\ run' \in [Run -> InProgress \cup {Idle}] /\ run'[r] # Idle
                /\ run' = [run EXCEPT ![r] = run'[r]]
                /\ run'[r].kind = run[r].kind /\ run'[r].last = run[r].last
                /\ run'[r].seen = run[r].seen /\ run'[r].step = s
         /\ ToFinish(r) =>
                /\ run' \in [Run -> InProgress \cup {Idle}] /\ run'[r] # Idle
                /\ run' = [run EXCEPT ![r] = run'[r]]
                /\ run'[r].kind = "ai" /\ run'[r].step = "finish"
<1>1. run[r] \in InProgress  BY DEF TypeOK
<1>2. /\ run[r].kind \in Kind /\ run[r].last \in Breaching /\ run[r].seen \in BOOLEAN
  BY <1>1 DEF InProgress
<1>3. ASSUME NEW s \in {"query", "alert", "set", "finish"}, Goto(r, s)
      PROVE  /\ run' \in [Run -> InProgress \cup {Idle}] /\ run'[r] # Idle
             /\ run' = [run EXCEPT ![r] = run'[r]]
             /\ run'[r].kind = run[r].kind /\ run'[r].last = run[r].last
             /\ run'[r].seen = run[r].seen /\ run'[r].step = s
  <2>1. PICK n : n = [run[r] EXCEPT !.step = s]  OBVIOUS
  <2>2. n \in InProgress /\ n # Idle  BY <1>1, <2>1, IdleAssumption DEF InProgress
  <2>3. /\ n.kind = run[r].kind /\ n.last = run[r].last
        /\ n.seen = run[r].seen /\ n.step = s
    BY <1>1, <2>1 DEF InProgress
  <2>4. run' = [run EXCEPT ![r] = n]  BY <1>3, <2>1 DEF Goto
  <2>5. run'[r] = n  BY <2>4 DEF TypeOK
  <2> QED  BY <2>2, <2>3, <2>4, <2>5 DEF TypeOK
<1>4. ASSUME ToFinish(r)
      PROVE  /\ run' \in [Run -> InProgress \cup {Idle}] /\ run'[r] # Idle
             /\ run' = [run EXCEPT ![r] = run'[r]]
             /\ run'[r].kind = "ai" /\ run'[r].step = "finish"
  <2>1. PICK n : n = [kind |-> "ai", last |-> "none", seen |-> FALSE, step |-> "finish"]
    OBVIOUS
  <2>2. n \in InProgress /\ n.kind = "ai" /\ n.step = "finish"
    BY <2>1 DEF InProgress, Kind, Breaching
  <2>3. run' = [run EXCEPT ![r] = n]  BY <1>4, <2>1 DEF ToFinish
  <2>4. run'[r] = n  BY <2>3 DEF TypeOK
  <2> QED  BY <2>2, <2>3, <2>4, IdleAssumption DEF TypeOK
<1> QED  BY <1>1, <1>2, <1>3, <1>4

(* A counted run.                                                          *)
LEMMA CountedRun ==
  ASSUME TypeOK, NEW r \in Run, run[r] # Idle, NEW b \in BOOLEAN,
         NEW s \in {"alert", "set"}, Counted(r, b, s)
  PROVE  /\ run' \in [Run -> InProgress \cup {Idle}] /\ run'[r] # Idle
         /\ run' = [run EXCEPT ![r] = run'[r]]
         /\ run'[r].kind = run[r].kind /\ run'[r].last = run[r].last
         /\ run'[r].seen = b /\ run'[r].step = s
<1>1. run[r] \in InProgress  BY DEF TypeOK
<1>2. PICK n : n = [run[r] EXCEPT !.seen = b, !.step = s]  OBVIOUS
<1>3. n \in InProgress /\ n # Idle  BY <1>1, <1>2, IdleAssumption DEF InProgress
<1>4. n.kind = run[r].kind /\ n.last = run[r].last /\ n.seen = b /\ n.step = s
  BY <1>1, <1>2 DEF InProgress
<1>5. run' = [run EXCEPT ![r] = n]  BY <1>2 DEF Counted
<1>6. run'[r] = n  BY <1>5 DEF TypeOK
<1> QED  BY <1>3, <1>4, <1>5, <1>6 DEF TypeOK

(* The document after a change of some of its fields.                      *)
LEMMA MonFields ==
  ASSUME TypeOK, mon # Gone
  PROVE  /\ mon \in Monitor /\ mon.kind \in Kind /\ mon.last \in Breaching
         /\ \A b \in BOOLEAN :
              /\ [mon EXCEPT !.running = b] \in Monitor
              /\ [mon EXCEPT !.running = b].last = mon.last
              /\ [mon EXCEPT !.running = b].kind = mon.kind
              /\ [mon EXCEPT !.due = b] \in Monitor
              /\ [mon EXCEPT !.due = b].last = mon.last
              /\ [mon EXCEPT !.due = b].kind = mon.kind
              /\ [mon EXCEPT !.enabled = b] \in Monitor
              /\ [mon EXCEPT !.enabled = b].last = mon.last
              /\ [mon EXCEPT !.enabled = b].kind = mon.kind
         /\ \A l \in Breaching :
              /\ [mon EXCEPT !.last = l] \in Monitor
              /\ [mon EXCEPT !.last = l].last = l
              /\ [mon EXCEPT !.last = l].kind = mon.kind
         /\ [mon EXCEPT !.running = FALSE, !.due = FALSE] \in Monitor
         /\ [mon EXCEPT !.running = FALSE, !.due = FALSE].last = mon.last
         /\ [mon EXCEPT !.running = FALSE, !.due = FALSE].kind = mon.kind
         /\ mon.enabled \in BOOLEAN
<1>1. mon \in Monitor  BY DEF TypeOK
<1> QED  BY <1>1 DEF Monitor

LEMMA ViewType == ASSUME NEW m \in Monitor PROVE ViewOf(m) \in View
BY DEF Monitor, ViewOf, View, Kind, Breaching

(* The run that a lease starts.                                            *)
LEMMA Started ==
  ASSUME TypeOK, mon # Gone, HasSlot, NEW v \in View, Start(FreeSlot, v)
  PROVE  /\ FreeSlot \in Run /\ run[FreeSlot] = Idle
         /\ run' \in [Run -> InProgress \cup {Idle}] /\ run'[FreeSlot] # Idle
         /\ run' = [run EXCEPT ![FreeSlot] = run'[FreeSlot]]
         /\ run'[FreeSlot].kind = v.kind /\ run'[FreeSlot].last = v.last
         /\ run'[FreeSlot].step = "query"
         /\ mon' \in Monitor /\ mon' # Gone
         /\ mon'.last = mon.last /\ mon'.kind = mon.kind
<1>1. FreeSlot \in Run /\ run[FreeSlot] = Idle  BY DEF HasSlot, FreeSlot
<1>2. PICK n : n = [kind |-> v.kind, last |-> v.last, seen |-> FALSE, step |-> "query"]
  OBVIOUS
<1>3. n \in InProgress /\ n # Idle
  <2>1. n \in InProgress  BY <1>2 DEF InProgress, View
  <2> QED  BY <2>1, IdleAssumption
<1>4. n.kind = v.kind /\ n.last = v.last /\ n.step = "query"  BY <1>2
<1>5. run' = [run EXCEPT ![FreeSlot] = n]  BY <1>2 DEF Start
<1>6. run'[FreeSlot] = n  BY <1>1, <1>5 DEF TypeOK
<1>7. /\ mon' \in Monitor /\ mon' # Gone /\ mon'.last = mon.last /\ mon'.kind = mon.kind
  BY MonFields, GoneAssumption DEF Start
<1> QED  BY <1>1, <1>3, <1>4, <1>5, <1>6, <1>7 DEF TypeOK

(* An action that fails.                                                   *)
LEMMA FaultType ==
  ASSUME TypeOK, Fault
  PROVE  faults' \in 0..MaxFaults
BY FaultAssumption DEF TypeOK, Fault

LEMMA TypeNext == TypeOK /\ [Next]_vars => TypeOK'
<1> SUFFICES ASSUME TypeOK, [Next]_vars PROVE TypeOK'  OBVIOUS
<1> USE DEF sched, history
<1>1. ASSUME NEW n \in Node, List(n) PROVE TypeOK'
  <2>1. ViewOf(mon) \in View  BY <1>1, ViewType, MonFields DEF List, Runnable
  <2> QED  BY <1>1, <2>1 DEF List, TypeOK
<1>2. ASSUME NEW r \in Run, Step(r) PROVE TypeOK'
  <2>1. CASE RunAi(r)  BY <2>1, Moved DEF RunAi, In, TypeOK
  <2>2. CASE Count(r)
    <3>1. PICK b \in BOOLEAN, s \in {"alert", "set"} : Counted(r, b, s) /\ run[r] # Idle
      BY <2>2 DEF Count, In
    <3> QED  BY <3>1, CountedRun DEF Counted, TypeOK
  <2>3. CASE Raise(r)  BY <2>3, Moved DEF Raise, In, TypeOK
  <2>4. CASE SetBreaching(r)
    <3>1. run' \in [Run -> InProgress \cup {Idle}]  BY <2>4, Moved DEF SetBreaching, In
    <3>2. mon' \in Monitor \cup {Gone}
      <4>1. CASE mon = Gone  BY <2>4, <4>1 DEF SetBreaching
      <4>2. CASE mon # Gone
        BY <2>4, <4>2, MonFields DEF SetBreaching, Breaching
      <4> QED  BY <4>1, <4>2
    <3>3. run[r].seen \in BOOLEAN  BY <2>4, Moved DEF SetBreaching, In
    <3>4. alerted' \in BOOLEAN /\ cut' \in BOOLEAN /\ serial' \in BOOLEAN
      BY <2>4, <3>3 DEF SetBreaching, TypeOK
    <3> QED  BY <2>4, <3>1, <3>2, <3>4 DEF SetBreaching, TypeOK
  <2>5. CASE FinishRun(r)
    <3>1. mon' \in Monitor \cup {Gone}  BY <2>5, MonFields DEF FinishRun, TypeOK
    <3> QED  BY <2>5, <3>1 DEF FinishRun, TypeOK
  <2> QED  BY <1>2, <2>1, <2>2, <2>3, <2>4, <2>5 DEF Step
<1>3. ASSUME NEW v \in View, mon # Gone, HasSlot, Start(FreeSlot, v)
      PROVE  /\ mon' \in Monitor \cup {Gone} /\ run' \in [Run -> InProgress \cup {Idle}]
             /\ stuck' \in BOOLEAN
             /\ alerted' \in BOOLEAN /\ cut' \in BOOLEAN /\ serial' \in BOOLEAN
  <2>1. /\ stuck' \in BOOLEAN
        /\ alerted' \in BOOLEAN /\ cut' \in BOOLEAN /\ serial' \in BOOLEAN
    BY <1>3, Zenon DEF Start, TypeOK
  <2> QED  BY <1>3, <2>1, Started
<1>4. ASSUME NEW n \in Node, Lease(n) PROVE TypeOK'
  <2>1. snap[n] \in View /\ snap' \in [Node -> View \cup {Idle}]
    BY <1>4 DEF Lease, TypeOK
  <2>2. CASE mon # Gone /\ HasSlot /\ Start(FreeSlot, snap[n])
    BY <1>3, <1>4, <2>1, <2>2 DEF Lease, TypeOK
  <2>3. CASE UNCHANGED <<mon, stuck, run, history>>
    BY <1>4, <2>1, <2>3 DEF Lease, TypeOK
  <2> QED  BY <1>4, <2>2, <2>3 DEF Lease
<1>5. CASE RunLive
  <2>1. ViewOf(mon) \in View  BY <1>5, ViewType, MonFields DEF RunLive
  <2> QED  BY <1>3, <1>5, <2>1 DEF RunLive, TypeOK
<1>6. ASSUME NEW r \in Run, RunFails(r) \/ RunDies(r) PROVE TypeOK'
  <2>1. cut' \in BOOLEAN
    BY <1>6, Zenon DEF RunFails, RunDies, TypeOK, Unrecorded, In
  <2>2. run' \in [Run -> InProgress \cup {Idle}]
    BY <1>6, Moved DEF RunFails, RunDies, TypeOK
  <2>3. faults' \in 0..MaxFaults  BY <1>6, FaultType DEF RunFails, RunDies
  <2> QED  BY <1>6, <2>1, <2>2, <2>3 DEF RunFails, RunDies, Fault, TypeOK
<1>7. ASSUME NEW n \in Node, TickFails(n) PROVE TypeOK'
  <2>1. faults' \in 0..MaxFaults  BY <1>7, FaultType DEF TickFails
  <2> QED  BY <1>7, <2>1 DEF TickFails, Fault, TypeOK
<1>8. CASE GrowStuck  BY <1>8 DEF GrowStuck, TypeOK
<1>9. CASE Elapse  BY <1>9, MonFields DEF Elapse, TypeOK
<1>10. CASE User
  <2>1. CASE Update  BY <2>1, MonFields DEF Update, TypeOK
  <2>2. CASE Rearm
    <3>1. serial' \in BOOLEAN  BY <2>2, Zenon DEF Rearm, TypeOK
    <3>2. mon' \in Monitor  BY <2>2, MonFields DEF Rearm, Breaching
    <3> QED  BY <2>2, <3>1, <3>2 DEF Rearm, TypeOK
  <2>3. CASE ClearLastRun  BY <2>3, MonFields DEF ClearLastRun, TypeOK
  <2>4. CASE Delete  BY <2>4 DEF Delete, TypeOK
  <2>5. CASE SwitchAgent  BY <2>5 DEF SwitchAgent, TypeOK
  <2> QED  BY <1>10, <2>1, <2>2, <2>3, <2>4, <2>5 DEF User
<1>11. CASE UNCHANGED vars  BY <1>11 DEF vars, TypeOK
<1> QED
  BY <1>1, <1>2, <1>4, <1>5, <1>6, <1>7, <1>8, <1>9, <1>10, <1>11 DEF Next

-----------------------------------------------------------------------------
(* The invariant.                                                          *)

(* A step that leaves the runs and the history as they are, and the edge.  *)
LEMMA Quiet ==
  ASSUME TypeOK, serial => SerialOK, run' = run, alerted' = alerted, cut' = cut,
         serial' => serial,
         mon' = Gone \/ (mon # Gone /\ mon'.last = mon.last /\ mon'.kind = mon.kind)
  PROVE  serial' => SerialOK'
<1> SUFFICES ASSUME serial, SerialOK PROVE SerialOK'  OBVIOUS
<1>1. AtMostOneRun'  BY DEF SerialOK, AtMostOneRun
<1>2. \A r \in Run : Unrecorded(r)' <=> Unrecorded(r)  BY DEF Unrecorded, In
<1>3. ASSUME NEW r \in Run, run'[r] # Idle PROVE RunOK(r)' /\ FirstAlert(r)'
  <2>1. RunOK(r) /\ FirstAlert(r)  BY <1>3 DEF SerialOK
  <2> QED  BY <1>2, <2>1 DEF RunOK, FirstAlert
<1>4. AlertStands'  BY <1>2 DEF SerialOK, AlertStands
<1>5. (mon' # Gone /\ mon'.last = "breach") => alerted'  BY DEF SerialOK
<1> QED  BY <1>1, <1>3, <1>4, <1>5 DEF SerialOK

(* Only run r moves: the others are not there.                             *)
LEMMA Alone ==
  ASSUME TypeOK, SerialOK, NEW r \in Run, run[r] # Idle,
         run' = [run EXCEPT ![r] = run'[r]]
  PROVE  /\ AtMostOneRun'
         /\ \A q \in Run : run'[q] # Idle => q = r
         /\ \A q \in Run : Unrecorded(q) => q = r
<1>1. \A q \in Run : q # r => run[q] = Idle /\ run'[q] = Idle
  BY DEF SerialOK, AtMostOneRun, TypeOK
<1> QED  BY <1>1 DEF AtMostOneRun, Unrecorded, In

(* A lease starts a run.                                                   *)
LEMMA StartOK ==
  ASSUME IInv, mon # Gone, HasSlot, NEW v \in View, Start(FreeSlot, v)
  PROVE  serial' => SerialOK'
<1> SUFFICES ASSUME serial' PROVE SerialOK'  OBVIOUS
<1>1. serial /\ SerialOK /\ v = ViewOf(mon) /\ \A q \in Run : run[q] = Idle
  BY DEF Start, IInv
<1>2. /\ FreeSlot \in Run /\ run'[FreeSlot] # Idle
      /\ run' = [run EXCEPT ![FreeSlot] = run'[FreeSlot]]
      /\ run'[FreeSlot].kind = v.kind /\ run'[FreeSlot].last = v.last
      /\ run'[FreeSlot].step = "query"
      /\ mon' # Gone /\ mon'.last = mon.last /\ mon'.kind = mon.kind
  BY Started DEF IInv
<1>3. PICK f \in Run : f = FreeSlot  BY <1>2
<1>4. \A q \in Run : run'[q] # Idle => q = f  BY <1>1, <1>2, <1>3 DEF IInv, TypeOK
<1>5. (alerted' <=> alerted) /\ (cut' <=> cut)  BY <1>1 DEF Start
<1>6. AlertStands /\ (mon.last = "breach" => alerted)  BY <1>1 DEF SerialOK
<1>7. \A q \in Run : ~Unrecorded(q)  BY <1>1 DEF Unrecorded, In
<1>8. alerted' => (mon'.last = "breach" \/ cut')
  BY <1>2, <1>5, <1>6, <1>7 DEF AlertStands
<1>9. ~Unrecorded(f)'  BY <1>2, <1>3 DEF Unrecorded, In
<1>10. run'[f].kind = "threshold" => (run'[f].last = mon'.last /\ mon'.kind = "threshold")
  BY <1>1, <1>2, <1>3 DEF ViewOf
<1>11. RunOK(f)'  BY <1>2, <1>3, <1>9, <1>10 DEF RunOK
<1>12. FirstAlert(f)'  BY <1>8, <1>10 DEF FirstAlert
<1>13. AtMostOneRun'  BY <1>4 DEF AtMostOneRun
<1>14. AlertStands'  BY <1>8 DEF AlertStands
<1>15. mon'.last = "breach" => alerted'  BY <1>2, <1>5, <1>6
<1> QED  BY <1>4, <1>11, <1>12, <1>13, <1>14, <1>15 DEF SerialOK

(* A run fails or dies: nothing of it is left but its alert.               *)
LEMMA LostOK ==
  ASSUME IInv, serial, Fault, NEW r \in Run, run[r] # Idle,
         cut' = (cut \/ (serial /\ Unrecorded(r))),
         run' = [run EXCEPT ![r] = run'[r]],
         run'[r] # Idle => (run'[r].kind = "ai" /\ run'[r].step = "finish")
  PROVE  SerialOK'
<1>1. SerialOK /\ TypeOK  BY DEF IInv
<1>2. /\ AtMostOneRun'
      /\ \A q \in Run : run'[q] # Idle => q = r
      /\ \A q \in Run : Unrecorded(q) => q = r
  BY <1>1, Alone
<1>3. mon' = mon /\ alerted' = alerted  BY DEF Fault
<1>4. AlertStands'  BY <1>1, <1>2, <1>3 DEF SerialOK, AlertStands
<1>5. ASSUME NEW q \in Run, run'[q] # Idle PROVE RunOK(q)' /\ FirstAlert(q)'
  <2>1. q = r /\ run'[q].kind = "ai" /\ run'[q].step = "finish"  BY <1>2, <1>5
  <2> QED  BY <2>1 DEF RunOK, FirstAlert, Unrecorded, In
<1>6. (mon' # Gone /\ mon'.last = "breach") => alerted'  BY <1>1, <1>3 DEF SerialOK
<1> QED  BY <1>2, <1>4, <1>5, <1>6 DEF SerialOK

(* A run moves.                                                            *)
LEMMA StepOK ==
  ASSUME IInv, serial, NEW r \in Run, Step(r)
  PROVE  SerialOK'
<1>1. SerialOK /\ TypeOK  BY DEF IInv
<1>2. run[r] # Idle
  BY DEF Step, RunAi, Count, Raise, SetBreaching, FinishRun, In
<1>3. RunOK(r) /\ FirstAlert(r)  BY <1>1, <1>2 DEF SerialOK
<1>4. AlertStands /\ ((mon # Gone /\ mon.last = "breach") => alerted)
  BY <1>1 DEF SerialOK
<1>5. /\ run[r].kind \in Kind /\ run[r].last \in Breaching /\ run[r].seen \in BOOLEAN
  BY <1>1, <1>2, Moved
<1>6. \A q \in Run : Unrecorded(q) => q = r
  BY <1>1, <1>2 DEF SerialOK, AtMostOneRun, Unrecorded, In
<1>7. ASSUME run' = [run EXCEPT ![r] = run'[r]],
             run'[r] # Idle => (RunOK(r)' /\ FirstAlert(r)'),
             AlertStands', (mon' # Gone /\ mon'.last = "breach") => alerted'
      PROVE  SerialOK'
  <2>1. AtMostOneRun' /\ \A q \in Run : run'[q] # Idle => q = r
    BY <1>1, <1>2, <1>7, Alone
  <2> QED  BY <1>7, <2>1 DEF SerialOK
<1>8. CASE RunAi(r)
  <2>1. /\ run'[r].kind = "ai" /\ run'[r].step = "finish"
        /\ run' = [run EXCEPT ![r] = run'[r]]
    BY <1>1, <1>2, <1>8, Moved DEF RunAi
  <2>2. mon' = mon /\ alerted' = alerted /\ cut' = cut  BY <1>8 DEF RunAi, history
  <2>3. RunOK(r)' /\ FirstAlert(r)'  BY <2>1 DEF RunOK, FirstAlert, Unrecorded, In
  <2>4. ~Unrecorded(r)  BY <1>8 DEF RunAi, Unrecorded, In
  <2>5. AlertStands'  BY <1>4, <1>6, <2>2, <2>4 DEF AlertStands
  <2> QED  BY <1>4, <1>7, <2>1, <2>2, <2>3, <2>5
<1>9. CASE Count(r)
  <2>1. run[r].step = "query" /\ run[r].kind = "threshold"  BY <1>9 DEF Count, In
  <2>2. PICK b \in BOOLEAN, s \in {"alert", "set"} :
          Counted(r, b, s) /\ s = IF b /\ run[r].last # "breach" THEN "alert" ELSE "set"
    BY <1>9 DEF Count
  <2>3. /\ run'[r] # Idle /\ run' = [run EXCEPT ![r] = run'[r]]
        /\ run'[r].kind = run[r].kind /\ run'[r].last = run[r].last
        /\ run'[r].seen = b /\ run'[r].step = s
    BY <1>1, <1>2, <2>2, CountedRun
  <2>4. mon' = mon /\ alerted' = alerted /\ cut' = cut
    BY <2>2 DEF Counted, history
  <2>5. ~Unrecorded(r)'  BY <2>2, <2>3 DEF Unrecorded, In
  <2>6. RunOK(r)'  BY <1>3, <2>1, <2>2, <2>3, <2>4, <2>5 DEF RunOK
  <2>7. FirstAlert(r)'  BY <1>3, <2>1, <2>3, <2>4 DEF FirstAlert
  <2>8. ~Unrecorded(r)  BY <2>1 DEF Unrecorded, In
  <2>9. AlertStands'  BY <1>4, <1>6, <2>4, <2>8 DEF AlertStands
  <2> QED  BY <1>4, <1>7, <2>3, <2>4, <2>6, <2>7, <2>9
<1>10. CASE Raise(r)
  <2>1. /\ run[r].step = "alert" /\ run[r].kind = "threshold"
        /\ run[r].last # "breach" /\ run[r].seen
    BY <1>3, <1>10 DEF Raise, In, RunOK
  <2>2. mon' = mon  BY <1>10 DEF Raise
  <2>3. ~Unrecorded(r)  BY <2>1 DEF Unrecorded, In
  <2>4. CASE mon = Gone
    <3>1. /\ run'[r].kind = "ai" /\ run'[r].step = "finish"
          /\ run' = [run EXCEPT ![r] = run'[r]]
      BY <1>1, <1>2, <1>10, <2>4, Moved DEF Raise
    <3>2. RunOK(r)' /\ FirstAlert(r)'  BY <3>1 DEF RunOK, FirstAlert, Unrecorded, In
    <3>3. AlertStands'  BY <2>2, <2>4 DEF AlertStands
    <3> QED  BY <1>7, <2>2, <2>4, <3>1, <3>2, <3>3
  <2>5. CASE mon # Gone
    <3>1. Goto(r, "set") /\ alerted' /\ cut' = cut  BY <1>10, <2>5 DEF Raise, IInv
    <3>2. /\ run'[r] # Idle /\ run' = [run EXCEPT ![r] = run'[r]]
          /\ run'[r].kind = run[r].kind /\ run'[r].last = run[r].last
          /\ run'[r].seen = run[r].seen /\ run'[r].step = "set"
      BY <1>1, <1>2, <3>1, Moved
    <3>3. RunOK(r)'  BY <1>3, <2>1, <2>2, <3>1, <3>2 DEF RunOK
    <3>4. FirstAlert(r)'  BY <3>2 DEF FirstAlert
    <3>5. Unrecorded(r)'  BY <2>1, <3>2 DEF Unrecorded, In
    <3>6. AlertStands'  BY <3>5 DEF AlertStands
    <3> QED  BY <1>7, <3>1, <3>2, <3>3, <3>4, <3>6
  <2> QED  BY <2>4, <2>5
<1>11. CASE SetBreaching(r)
  <2>1. run[r].step = "set" /\ run[r].kind = "threshold"
    BY <1>3, <1>11 DEF SetBreaching, In, RunOK
  <2>2. /\ run'[r].kind = "ai" /\ run'[r].step = "finish"
        /\ run' = [run EXCEPT ![r] = run'[r]]
    BY <1>1, <1>2, <1>11, Moved DEF SetBreaching
  <2>3. RunOK(r)' /\ FirstAlert(r)'  BY <2>2 DEF RunOK, FirstAlert, Unrecorded, In
  <2>4. CASE mon = Gone
    <3>1. mon' = Gone  BY <1>11, <2>4 DEF SetBreaching
    <3> QED  BY <1>7, <2>2, <2>3, <3>1 DEF AlertStands
  <2>5. CASE mon # Gone
    <3>1. /\ mon' = [mon EXCEPT !.last = IF run[r].seen THEN "breach" ELSE "clear"]
          /\ alerted' = (alerted /\ run[r].seen)
      BY <1>11, <2>5 DEF SetBreaching
    <3>2. mon'.last = IF run[r].seen THEN "breach" ELSE "clear"
      BY <1>1, <2>5, <3>1, MonFields DEF Breaching
    <3>3. run[r].seen => alerted
      <4>1. ASSUME run[r].seen, run[r].last = "breach" PROVE alerted
        BY <1>3, <1>4, <2>1, <2>5, <4>1 DEF RunOK
      <4>2. ASSUME run[r].seen, run[r].last # "breach" PROVE alerted
        BY <1>2, <1>3, <2>1, <4>2 DEF RunOK, Unrecorded, In
      <4> QED  BY <4>1, <4>2
    <3>4. AlertStands'  BY <3>1, <3>2 DEF AlertStands
    <3>5. ASSUME mon'.last = "breach" PROVE alerted'
      <4>1. run[r].seen  BY <1>5, <3>2, <3>5
      <4> QED  BY <3>1, <3>3, <4>1, Zenon
    <3> QED  BY <1>7, <2>2, <2>3, <3>4, <3>5
  <2> QED  BY <2>4, <2>5
<1>12. CASE FinishRun(r)
  <2>1. run' = [run EXCEPT ![r] = run'[r]] /\ run'[r] = Idle
    BY <1>1, <1>12 DEF FinishRun, TypeOK
  <2>2. mon' = Gone \/ (mon # Gone /\ mon'.last = mon.last)
    BY <1>1, <1>12, MonFields DEF FinishRun
  <2>3. alerted' = alerted /\ cut' = cut  BY <1>12 DEF FinishRun, history
  <2>4. ~Unrecorded(r)  BY <1>12 DEF FinishRun, Unrecorded, In
  <2>5. AlertStands'  BY <1>4, <1>6, <2>2, <2>3, <2>4 DEF AlertStands
  <2> QED  BY <1>4, <1>7, <2>1, <2>2, <2>3, <2>5
<1> QED  BY <1>8, <1>9, <1>10, <1>11, <1>12 DEF Step

LEMMA SerialNext == IInv /\ [Next]_vars => (serial' => SerialOK')
<1> SUFFICES ASSUME IInv, [Next]_vars PROVE serial' => SerialOK'  OBVIOUS
<1> USE DEF sched, history
<1>1. TypeOK /\ (serial => SerialOK)  BY DEF IInv
<1>2. ASSUME NEW n \in Node, List(n) PROVE serial' => SerialOK'
  BY <1>1, <1>2, Quiet DEF List
<1>3. ASSUME NEW n \in Node, Lease(n) PROVE serial' => SerialOK'
  <2>1. snap[n] \in View  BY <1>1, <1>3 DEF Lease, TypeOK
  <2>2. CASE mon # Gone /\ HasSlot /\ Start(FreeSlot, snap[n])  BY <2>1, <2>2, StartOK
  <2>3. CASE UNCHANGED <<mon, stuck, run, history>>  BY <1>1, <2>3, Quiet
  <2> QED  BY <1>3, <2>2, <2>3 DEF Lease
<1>4. ASSUME NEW r \in Run, Step(r) PROVE serial' => SerialOK'
  <2>1. serial' = serial
    BY <1>4 DEF Step, RunAi, Count, Counted, Raise, SetBreaching, FinishRun
  <2> QED  BY <1>4, <2>1, StepOK
<1>5. ASSUME NEW r \in Run, RunFails(r) PROVE serial' => SerialOK'
  <2>1. /\ run' = [run EXCEPT ![r] = run'[r]]
        /\ run'[r].kind = "ai" /\ run'[r].step = "finish"
    BY <1>1, <1>5, Moved DEF RunFails
  <2>2. serial' = serial  BY <1>5 DEF RunFails, Fault
  <2> QED  BY <1>5, <2>1, <2>2, LostOK DEF RunFails
<1>6. ASSUME NEW r \in Run, RunDies(r) PROVE serial' => SerialOK'
  <2>1. run' = [run EXCEPT ![r] = run'[r]] /\ run'[r] = Idle
    BY <1>1, <1>6 DEF RunDies, TypeOK
  <2>2. serial' = serial  BY <1>6 DEF RunDies, Fault
  <2> QED  BY <1>6, <2>1, <2>2, LostOK DEF RunDies
<1>7. ASSUME NEW n \in Node, TickFails(n) PROVE serial' => SerialOK'
  BY <1>1, <1>7, Quiet DEF TickFails, Fault
<1>8. CASE RunLive
  <2>1. ViewOf(mon) \in View  BY <1>1, <1>8, ViewType, MonFields DEF RunLive
  <2> QED  BY <1>8, <2>1, StartOK DEF RunLive
<1>9. CASE GrowStuck  BY <1>1, <1>9, Quiet DEF GrowStuck
<1>10. CASE Elapse  BY <1>1, <1>10, Quiet, MonFields DEF Elapse
<1>11. CASE Update  BY <1>1, <1>11, Quiet, MonFields DEF Update
<1>12. CASE Rearm
  <2> SUFFICES ASSUME serial' PROVE SerialOK'  OBVIOUS
  <2>1. (\A r \in Run : run'[r] = Idle) /\ ~alerted'  BY <1>12 DEF Rearm
  <2>2. mon'.last = "none"  BY <1>1, <1>12, MonFields DEF Rearm, Breaching
  <2> QED  BY <2>1, <2>2 DEF SerialOK, AtMostOneRun, AlertStands
<1>13. CASE ClearLastRun  BY <1>1, <1>13, Quiet, MonFields DEF ClearLastRun
<1>14. CASE Delete  BY <1>1, <1>14, Quiet DEF Delete
<1>15. CASE SwitchAgent  BY <1>1, <1>15, Quiet DEF SwitchAgent
<1>16. CASE UNCHANGED vars  BY <1>1, <1>16, Quiet DEF vars
<1> QED
  BY <1>2, <1>3, <1>4, <1>5, <1>6, <1>7, <1>8, <1>9, <1>10, <1>11, <1>12, <1>13, <1>14,
     <1>15, <1>16 DEF Next, User

(* The invariant of every behaviour.                                       *)
THEOREM SerialRunsKeepTheEdge == Spec => []IInv
<1>1. IInv /\ [Next]_vars => IInv'  BY TypeNext, SerialNext DEF IInv
<1> QED  BY InitIInv, <1>1, PTL DEF Spec

(* TypeOK: the documents, the runs and the history stay in their types.    *)
THEOREM TypeCorrect == Spec => []TypeOK
<1>1. IInv => TypeOK  BY DEF IInv
<1> QED  BY <1>1, SerialRunsKeepTheEdge, PTL

(* A monitor on record as breaching has had its alert (run_threshold).     *)
THEOREM NoBreachWithoutAlert == Spec => []BreachWasAlerted
<1>1. IInv => BreachWasAlerted  BY DEF IInv, SerialOK, BreachWasAlerted
<1> QED  BY <1>1, SerialRunsKeepTheEdge, PTL

(* No second alert while the breach holds (run_threshold).                 *)
THEOREM OneAlertPerBreach == Spec => NoRefire
<1>1. ASSUME IInv, NEW r \in Run, In(r, "alert"), alerted, serial PROVE cut
  <2>1. RunOK(r) /\ FirstAlert(r)  BY <1>1 DEF IInv, SerialOK, In
  <2> QED  BY <1>1, <2>1 DEF RunOK, FirstAlert, In
<1>2. IInv /\ [Next]_vars =>
        [\A r \in Run :
           (In(r, "alert") /\ Goto(r, "set") /\ alerted) => (cut \/ ~serial)]_vars
  BY <1>1
<1> QED  BY <1>2, SerialRunsKeepTheEdge, PTL DEF Spec, NoRefire
=============================================================================
