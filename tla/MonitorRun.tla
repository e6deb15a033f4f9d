----------------------------- MODULE MonitorRun -----------------------------
(***************************************************************************)
(* One monitor and the schedulers that run it (monitor/mod.rs, the monitor *)
(* documents of control/backend.rs, the handlers of http/monitors.rs).     *)
(* Every node ticks: it lists the monitors, and runs the ones that are due *)
(* after winning a lease in the monitor's document.  A run goes by what    *)
(* the list had, not by the document as the lease found it.  A threshold   *)
(* monitor raises an alert when it sees a breach and the last run did not, *)
(* and then records what it saw; an AI monitor leaves it to the agent.     *)
(*                                                                         *)
(* A change of a document is one step (ControlDoc implements AtomicDoc).   *)
(* The lease carries no owner and is stolen when it is older than          *)
(* STUCK_LEASE_SECS, also from a run that is merely slow.                  *)
(***************************************************************************)
EXTENDS Naturals, FiniteSets

CONSTANTS
  Node,       \* processes, each with a scheduler
  Run,        \* slots for runs in progress
  Idle,       \* nothing there
  Gone,       \* the monitor has been deleted
  MaxFaults   \* bound: crashes and failures; one step for each thing lost

ASSUME FaultAssumption == MaxFaults \in Nat

VARIABLES
  mon,      \* the document, or Gone
  stuck,    \* running_since is older than STUCK_LEASE_SECS
  agent,    \* the global agent switch
  snap,     \* snap[n]: the monitor as the tick of node n has listed it
  run,      \* run[r]: a run in progress
  faults,   \* crashes and failures so far
  alerted,  \* history: an alert was raised since the monitor was last seen
            \* clear or was re-armed
  cut,      \* history: the last run to raise an alert could not record it
  serial    \* history: so far every run began on the monitor as the one
            \* before had left it, and was alone; the two others are of no
            \* use after that and kept FALSE

sched == <<snap, run>>
history == <<alerted, cut, serial>>
vars == <<mon, stuck, agent, snap, run, faults, alerted, cut, serial>>

Kind == {"ai", "threshold"}
Breaching == {"none", "clear", "breach"}
Monitor == [kind : Kind, enabled : BOOLEAN, last : Breaching, running : BOOLEAN,
            due : BOOLEAN]
View == [kind : Kind, last : Breaching]
InProgress ==
  [kind : Kind, last : Breaching, seen : BOOLEAN,
   step : {"query", "alert", "set", "finish"}]

ASSUME GoneAssumption == Gone \notin Monitor
ASSUME IdleAssumption == Idle \notin View \cup InProgress

TypeOK ==
  /\ mon \in Monitor \cup {Gone}
  /\ stuck \in BOOLEAN /\ agent \in BOOLEAN
  /\ snap \in [Node -> View \cup {Idle}]
  /\ run \in [Run -> InProgress \cup {Idle}]
  /\ faults \in 0..MaxFaults
  /\ alerted \in BOOLEAN /\ cut \in BOOLEAN /\ serial \in BOOLEAN

(* A monitor that was just created: due at once.                           *)
Init ==
  /\ mon \in {[kind |-> k, enabled |-> e, last |-> "none", running |-> FALSE,
               due |-> TRUE] : k \in Kind, e \in BOOLEAN}
  /\ stuck = FALSE /\ agent \in BOOLEAN
  /\ snap = [n \in Node |-> Idle]
  /\ run = [r \in Run |-> Idle]
  /\ faults = 0
  /\ alerted = FALSE /\ cut = FALSE /\ serial = TRUE

-----------------------------------------------------------------------------
(* The scheduler's tick.                                                   *)

(* Enabled, due, and for an AI monitor the agent is switched on.           *)
Runnable ==
  /\ mon # Gone
  /\ mon.enabled /\ mon.due
  /\ mon.kind = "ai" => agent

(* What a run uses of the monitor listed: an AI monitor has no edge.       *)
ViewOf(m) == [kind |-> m.kind, last |-> IF m.kind = "ai" THEN "none" ELSE m.last]

(* monitor_list_all, and the conditions on each monitor listed.            *)
List(n) ==
  /\ snap[n] = Idle
  /\ Runnable
  /\ snap' = [snap EXCEPT ![n] = ViewOf(mon)]
  /\ UNCHANGED <<mon, stuck, agent, run, faults, history>>

Leasable == ~mon.running \/ stuck

HasSlot == \E r \in Run : run[r] = Idle
FreeSlot == CHOOSE r \in Run : run[r] = Idle

(* monitor_try_lease won: a run by the view v starts in slot r.            *)
Start(r, v) ==
  /\ mon' = [mon EXCEPT !.running = TRUE]
  /\ stuck' = FALSE
  /\ run' = [run EXCEPT ![r] = [kind |-> v.kind, last |-> v.last, seen |-> FALSE,
                                step |-> "query"]]
  /\ serial' = (serial /\ v = ViewOf(mon) /\ \A q \in Run : run[q] = Idle)
  /\ alerted' = (alerted /\ serial') /\ cut' = (cut /\ serial')

(* Mutant: a lease is never taken over.                                    *)
LeaseNeverStolen(n) ==
  /\ snap[n] # Idle
  /\ snap' = [snap EXCEPT ![n] = Idle]
  /\ \/ /\ mon # Gone /\ ~mon.running
        /\ HasSlot /\ Start(FreeSlot, snap[n])
     \/ mon # Gone /\ mon.running /\ UNCHANGED <<mon, stuck, run, history>>
     \/ mon = Gone /\ UNCHANGED <<mon, stuck, run, history>>
  /\ UNCHANGED <<agent, faults>>

(* The tick tries the lease; whether the monitor is still due is not asked. *)
Lease(n) ==
  /\ snap[n] # Idle
  /\ snap' = [snap EXCEPT ![n] = Idle]
  /\ \/ /\ mon # Gone /\ Leasable
        /\ HasSlot /\ Start(FreeSlot, snap[n])
     \/ mon # Gone /\ ~Leasable /\ UNCHANGED <<mon, stuck, run, history>>
     \/ mon = Gone /\ UNCHANGED <<mon, stuck, run, history>>
  /\ UNCHANGED <<agent, faults>>

(* run_monitor_live_handler: an AI monitor, the agent on, the same lease.  *)
RunLive ==
  /\ mon # Gone /\ mon.kind = "ai" /\ agent
  /\ Leasable /\ HasSlot
  /\ Start(FreeSlot, ViewOf(mon))
  /\ UNCHANGED <<agent, snap, faults>>

(* Time: the lease grows old, whatever its run is doing.                   *)
GrowStuck ==
  /\ mon # Gone /\ mon.running /\ ~stuck
  /\ stuck' = TRUE
  /\ UNCHANGED <<mon, agent, sched, faults, history>>

(* Time: the interval since the last run is over.                          *)
Elapse ==
  /\ mon # Gone /\ ~mon.due
  /\ mon' = [mon EXCEPT !.due = TRUE]
  /\ UNCHANGED <<stuck, agent, sched, faults, history>>

-----------------------------------------------------------------------------
(* A run.                                                                  *)

In(r, s) == run[r] # Idle /\ run[r].step = s
Goto(r, s) == run' = [run EXCEPT ![r].step = s]

(* The outcome is to be recorded; nothing else is still needed.            *)
ToFinish(r) ==
  run' = [run EXCEPT ![r] = [kind |-> "ai", last |-> "none", seen |-> FALSE,
                             step |-> "finish"]]

(* The agent's turn: the alerts it raises are its own affair.              *)
RunAi(r) ==
  /\ In(r, "query") /\ run[r].kind = "ai"
  /\ ToFinish(r)
  /\ UNCHANGED <<mon, stuck, agent, snap, faults, history>>

Counted(r, breaching, s) ==
  /\ run' = [run EXCEPT ![r].seen = breaching, ![r].step = s]
  /\ UNCHANGED <<mon, stuck, agent, snap, faults, history>>

(* Mutant: every run that sees a breach raises an alert.                   *)
CountEveryTime(r) ==
  /\ In(r, "query") /\ run[r].kind = "threshold"
  /\ \E breaching \in BOOLEAN : Counted(r, breaching, IF breaching THEN "alert" ELSE "set")

(* The search counts the matches: an alert only on the edge of the view.   *)
Count(r) ==
  /\ In(r, "query") /\ run[r].kind = "threshold"
  /\ \E breaching \in BOOLEAN :
       Counted(r, breaching,
               IF breaching /\ run[r].last # "breach" THEN "alert" ELSE "set")

(* Mutant: an alert that could not be stored does not end the run.         *)
RaiseOrGoOn(r) ==
  /\ In(r, "alert")
  /\ Goto(r, "set")
  /\ \/ mon # Gone /\ alerted' = serial /\ UNCHANGED <<faults, cut, serial>>
     \/ faults < MaxFaults /\ faults' = faults + 1 /\ UNCHANGED history
     \/ mon = Gone /\ UNCHANGED <<faults, history>>
  /\ UNCHANGED <<mon, stuck, agent, snap>>

(* alert_create: it needs the monitor; its failure is that of the run.     *)
Raise(r) ==
  /\ In(r, "alert")
  /\ IF mon = Gone
       THEN ToFinish(r) /\ UNCHANGED history
       ELSE Goto(r, "set") /\ alerted' = serial /\ UNCHANGED <<cut, serial>>
  /\ UNCHANGED <<mon, stuck, agent, snap, faults>>

(* monitor_set_breaching: an error when the monitor has vanished.          *)
SetBreaching(r) ==
  /\ In(r, "set")
  /\ ToFinish(r)
  /\ IF mon = Gone
       THEN UNCHANGED <<mon, history>>
       ELSE /\ mon' = [mon EXCEPT !.last = IF run[r].seen THEN "breach" ELSE "clear"]
            /\ alerted' = (alerted /\ run[r].seen)
            /\ cut' = FALSE
            /\ UNCHANGED serial
  /\ UNCHANGED <<stuck, agent, snap, faults>>

(* monitor_finish_run: the lease goes, whoever holds it now.               *)
FinishRun(r) ==
  /\ In(r, "finish")
  /\ run' = [run EXCEPT ![r] = Idle]
  /\ mon' = IF mon = Gone THEN Gone ELSE [mon EXCEPT !.running = FALSE, !.due = FALSE]
  /\ stuck' = FALSE
  /\ UNCHANGED <<agent, snap, faults, history>>

Step(r) ==
  RunAi(r) \/ Count(r) \/ Raise(r) \/ SetBreaching(r) \/ FinishRun(r)

-----------------------------------------------------------------------------
(* Faults.                                                                 *)

Unrecorded(r) == In(r, "set") /\ run[r].seen /\ run[r].last # "breach"

Fault ==
  /\ faults < MaxFaults
  /\ faults' = faults + 1
  /\ UNCHANGED <<mon, stuck, agent, alerted, serial>>

(* A query, an agent's turn or a write of a run fails: the run is recorded *)
(* as failed.                                                              *)
RunFails(r) ==
  /\ Fault
  /\ run[r] # Idle
  /\ ToFinish(r)
  /\ cut' = (cut \/ (serial /\ Unrecorded(r)))
  /\ UNCHANGED snap

(* The process of a run dies, or its last write fails: the lease stays     *)
(* until it is old.                                                        *)
RunDies(r) ==
  /\ Fault
  /\ run[r] # Idle
  /\ run' = [run EXCEPT ![r] = Idle]
  /\ cut' = (cut \/ (serial /\ Unrecorded(r)))
  /\ UNCHANGED snap

(* The process of a scheduler dies in a tick, or the tick fails.           *)
TickFails(n) ==
  /\ Fault
  /\ snap[n] # Idle
  /\ snap' = [snap EXCEPT ![n] = Idle]
  /\ UNCHANGED <<run, cut>>

-----------------------------------------------------------------------------
(* What users do.                                                          *)

(* monitor_update without a new threshold; a change of kind is left out.   *)
Update ==
  /\ mon # Gone
  /\ mon' = [mon EXCEPT !.enabled = ~@]
  /\ UNCHANGED <<stuck, agent, sched, faults, history>>

(* "Config change re-arms edge-triggered alerting."                        *)
Rearm ==
  /\ mon # Gone
  /\ mon' = [mon EXCEPT !.last = "none"]
  /\ alerted' = FALSE /\ cut' = FALSE
  /\ serial' = (serial /\ \A r \in Run : run[r] = Idle)
  /\ UNCHANGED <<stuck, agent, sched, faults>>

(* monitor_clear_last_run: "run now".                                      *)
ClearLastRun ==
  /\ mon # Gone
  /\ mon' = [mon EXCEPT !.due = TRUE]
  /\ UNCHANGED <<stuck, agent, sched, faults, history>>

Delete ==
  /\ mon # Gone
  /\ mon' = Gone
  /\ UNCHANGED <<stuck, agent, sched, faults, history>>

SwitchAgent ==
  /\ agent' = ~agent
  /\ UNCHANGED <<mon, stuck, sched, faults, history>>

User == Update \/ Rearm \/ ClearLastRun \/ Delete \/ SwitchAgent

Next ==
  \/ \E n \in Node : List(n) \/ Lease(n) \/ TickFails(n)
  \/ \E r \in Run : Step(r) \/ RunFails(r) \/ RunDies(r)
  \/ RunLive \/ GrowStuck \/ Elapse \/ User

Spec == Init /\ [][Next]_vars

(* Schedulers tick for ever, a run gets on or fails, time passes.  Nobody  *)
(* has to use or change the monitor.                                       *)
FairSpec ==
  /\ Spec
  /\ \A n \in Node : WF_vars(List(n)) /\ WF_vars(Lease(n))
  /\ \A r \in Run : WF_vars(Step(r))
  /\ WF_vars(GrowStuck)

-----------------------------------------------------------------------------
(***************************************************************************)
(* Properties.                                                             *)
(***************************************************************************)

(* "Fire only on the not-breaching to breaching edge", no alert missed: a  *)
(* monitor is on record as breaching only when an alert was stored, in     *)
(* spite of crashes and failing writes, as long as the runs were serial.   *)
BreachWasAlerted ==
  (serial /\ mon # Gone /\ mon.last = "breach") => alerted

(* "No re-fire while it holds": serial runs raise no second alert before   *)
(* the monitor was seen clear or was re-armed, but for the one after a run *)
(* that died between its alert and its record.                             *)
NoRefire ==
  [][\A r \in Run :
       (In(r, "alert") /\ Goto(r, "set") /\ alerted) => (cut \/ ~serial)]_vars

(* A monitor that is due runs, whatever became of the run that had its     *)
(* lease.                                                                  *)
EventuallyRuns == Runnable ~> ~Runnable
=============================================================================
