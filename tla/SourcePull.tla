------------------------------ MODULE SourcePull ------------------------------
(***************************************************************************)
(* One pull source (source/mod.rs) and its two documents in the control    *)
(* store (control/backend.rs): the source itself, which carries the switch *)
(* `enabled` and the lease `running`, and the checkpoint, how far each     *)
(* file has been read.  Supervisors tick, lease the source and spawn a run *)
(* that walks the files; users edit, reset and delete the source meanwhile.*)
(* Every write of a document is one step (mutate_doc is a compare-and-swap *)
(* loop), and steps of the supervisors, the runs and the users interleave. *)
(*                                                                         *)
(* A file is its number of complete lines and only grows; an S3 object     *)
(* appears at once.  Compressed files, which are read whole when they      *)
(* change, are left out.                                                   *)
(***************************************************************************)
EXTENDS Naturals, FiniteSets

CONSTANTS
  Run,       \* the runs that may exist at a time, each of a supervisor
  File,      \* the files the glob matches, the keys of the bucket
  NoFile,
  MaxLen,    \* bound: lines of a file
  MaxFaults, \* bound: calls that fail and processes that die
  Slow       \* TRUE: a run may take longer than STUCK_LEASE_SECS

ASSUME NoFileAssumption == NoFile \notin File
ASSUME BoundAssumption ==
  MaxLen \in Nat \ {0} /\ MaxFaults \in Nat
ASSUME TimingAssumption == Slow \in BOOLEAN

VARIABLES
  kind,     \* "fs" or "s3"
  len,      \* len[f]: the lines in f; 0 when it does not exist
  exists,   \* the source document exists
  enabled, running,
  stuck,    \* running_since is more than STUCK_LEASE_SECS ago
  due,      \* last_run_at is None or interval_seconds ago
  mark,     \* mark[f]: the offset in the checkpoint document; 0 for none
  user,     \* where the user's reset or delete is
  pc,       \* where each run is
  ckpt,     \* the checkpoint it works on
  todo,     \* the files it found and has still to visit
  seen,     \* the files it has visited
  at,       \* the file it is at
  sent,     \* sent[f][i]: times line i of f was submitted since the last
            \* reset, counted up to 2
  late,     \* the last reset dropped the checkpoint under a run that had
            \* loaded it, whose next put brings its marks back
  faults, deaths

document == <<exists, enabled, running, stuck, due>>
runs     == <<pc, ckpt, todo, seen, at>>
vars == <<kind, len, exists, enabled, running, stuck, due, mark, user,
          pc, ckpt, todo, seen, at, sent, late, faults, deaths>>

Marks == [File -> 0..MaxLen]
NoMarks == [f \in File |-> 0]
NotSent == [f \in File |-> [i \in 1..MaxLen |-> 0]]

TypeOK ==
  /\ kind \in {"fs", "s3"} /\ len \in Marks
  /\ exists \in BOOLEAN /\ enabled \in BOOLEAN /\ due \in BOOLEAN
  /\ running \in BOOLEAN /\ stuck \in BOOLEAN
  /\ mark \in Marks /\ user \in {"idle", "reset", "delete"}
  /\ pc \in [Run -> {"idle", "lease", "load", "scan", "check", "read", "put", "finish"}]
  /\ ckpt \in [Run -> Marks]
  /\ todo \in [Run -> SUBSET File] /\ seen \in [Run -> SUBSET File]
  /\ at \in [Run -> File \cup {NoFile}]
  /\ sent \in [File -> [1..MaxLen -> 0..2]] /\ late \in BOOLEAN
  /\ faults \in Nat /\ deaths \in Nat /\ faults + deaths <= MaxFaults

Init ==
  /\ kind \in {"fs", "s3"} /\ len = NoMarks
  /\ exists = TRUE /\ enabled = TRUE /\ due = TRUE
  /\ running = FALSE /\ stuck = FALSE
  /\ mark = NoMarks /\ user = "idle"
  /\ pc = [u \in Run |-> "idle"] /\ ckpt = [u \in Run |-> NoMarks]
  /\ todo = [u \in Run |-> {}] /\ seen = [u \in Run |-> {}]
  /\ at = [u \in Run |-> NoFile]
  /\ sent = NotSent /\ late = FALSE /\ faults = 0 /\ deaths = 0

-----------------------------------------------------------------------------
(* The world: files grow, time passes, calls fail.                         *)

Grow(f) ==
  /\ len[f] < MaxLen
  /\ \/ kind = "fs" /\ len' = [len EXCEPT ![f] = @ + 1]
     \/ kind = "s3" /\ len[f] = 0 /\ len' = [len EXCEPT ![f] = MaxLen]
  /\ UNCHANGED <<kind, late, document, mark, user, runs, sent, faults, deaths>>

Elapse ==
  /\ exists /\ ~due
  /\ due' = TRUE
  /\ UNCHANGED <<kind, late, len, exists, enabled, running, stuck, mark, user,
                 runs, sent, faults, deaths>>

(* The runs that took the lease and have not finished.                     *)
Active == {u \in Run : pc[u] \notin {"idle", "lease"}}

(* STUCK_LEASE_SECS pass: "assumed stuck (crash mid-run)".  The timing     *)
(* assumption is that a run that lives takes less.                         *)
LeaseAges ==
  /\ running /\ ~stuck
  /\ Slow \/ Active = {}
  /\ stuck' = TRUE
  /\ UNCHANGED <<kind, late, len, exists, enabled, running, due, mark, user,
                 runs, sent, faults, deaths>>

Fault == faults + deaths < MaxFaults /\ faults' = faults + 1

-----------------------------------------------------------------------------
(* The supervisor.                                                         *)

Goto(u, p) == pc' = [pc EXCEPT ![u] = p]

(* tick: the list of the sources; this one is enabled and due.             *)
Tick(u) ==
  /\ pc[u] = "idle"
  /\ exists /\ enabled /\ due
  /\ Goto(u, "lease")
  /\ UNCHANGED <<kind, late, len, document, mark, user, ckpt, todo, seen, at,
                 sent, faults, deaths>>

(* Mutant: an old lease is never given up.                                 *)
TryLeaseNoSteal(u) ==
  /\ pc[u] = "lease"
  /\ \/ /\ exists /\ ~running
        /\ running' = TRUE /\ stuck' = FALSE
        /\ Goto(u, "load")
     \/ /\ ~exists \/ running
        /\ Goto(u, "idle")
        /\ UNCHANGED <<running, stuck>>
  /\ UNCHANGED <<kind, late, len, exists, enabled, due, mark, user, ckpt, todo,
                 seen, at, sent, faults, deaths>>

(* source_try_lease: what the list said is not looked at again.            *)
TryLease(u) ==
  /\ pc[u] = "lease"
  /\ \/ /\ exists /\ (~running \/ stuck)
        /\ running' = TRUE /\ stuck' = FALSE
        /\ Goto(u, "load")
     \/ /\ ~exists \/ (running /\ ~stuck)
        /\ Goto(u, "idle")
        /\ UNCHANGED <<running, stuck>>
  /\ UNCHANGED <<kind, late, len, exists, enabled, due, mark, user, ckpt, todo,
                 seen, at, sent, faults, deaths>>

-----------------------------------------------------------------------------
(* run_source, pull_fs and pull_s3.                                        *)

(* The checkpoint is read and the files found: those of todo are visited   *)
(* for sure.  An object that has a mark is not visited again.              *)
LoadCheckpoint(u) ==
  /\ pc[u] = "load"
  /\ LET listed == {f \in File : len[f] > 0}
         known  == {f \in listed : kind = "s3" /\ mark[f] > 0} IN
       /\ ckpt' = [ckpt EXCEPT ![u] = mark]
       /\ todo' = [todo EXCEPT ![u] = listed \ known]
       /\ seen' = [seen EXCEPT ![u] = known]
  /\ Goto(u, "scan")
  /\ UNCHANGED <<kind, late, len, document, mark, user, at, sent, faults,
                 deaths>>

(* The checkpoint or the listing cannot be had: the run ends in an error.  *)
LoadFails(u) ==
  /\ pc[u] = "load"
  /\ Fault
  /\ Goto(u, "finish")
  /\ UNCHANGED <<kind, late, len, document, mark, user, ckpt, todo, seen, at,
                 sent, deaths>>

(* The files the walk may come to next: the glob looks as it goes, so a    *)
(* file that appeared since the run began may be among them.               *)
Ahead(u) ==
  todo[u] \cup (IF kind = "fs" THEN {f \in File : len[f] > 0} \ seen[u] ELSE {})

(* Mutant: the file about to be read is counted as read.                   *)
AnnounceAhead(u) ==
  /\ pc[u] = "scan"
  /\ \E f \in Ahead(u) :
       /\ at' = [at EXCEPT ![u] = f]
       /\ seen' = [seen EXCEPT ![u] = @ \cup {f}]
       /\ mark' = [ckpt[u] EXCEPT ![f] = len[f]]
  /\ Goto(u, "check")
  /\ UNCHANGED <<kind, late, len, document, user, ckpt, todo, sent, faults,
                 deaths>>

(* Mutant: the checkpoint is stored at the end of the run only.            *)
AnnounceOnly(u) ==
  /\ pc[u] = "scan"
  /\ \E f \in Ahead(u) :
       /\ at' = [at EXCEPT ![u] = f]
       /\ seen' = [seen EXCEPT ![u] = @ \cup {f}]
  /\ Goto(u, "check")
  /\ UNCHANGED <<kind, late, len, document, mark, user, ckpt, todo, sent,
                 faults, deaths>>

(* "Announce the file and checkpoint everything before it"; a put that     *)
(* fails goes unnoticed.                                                   *)
Announce(u) ==
  /\ pc[u] = "scan"
  /\ \E f \in Ahead(u) :
       /\ at' = [at EXCEPT ![u] = f]
       /\ seen' = [seen EXCEPT ![u] = @ \cup {f}]
  /\ \/ mark' = ckpt[u] /\ UNCHANGED faults
     \/ Fault /\ UNCHANGED mark
  /\ Goto(u, "check")
  /\ UNCHANGED <<kind, late, len, document, user, ckpt, todo, sent, deaths>>

(* source_progress_update: a source disabled or gone stops the run before  *)
(* the file is touched, and so does an error.                              *)
CheckEnabled(u) ==
  /\ pc[u] = "check"
  /\ \/ exists /\ enabled /\ Goto(u, "read") /\ UNCHANGED faults
     \/ ~(exists /\ enabled) /\ Goto(u, "put") /\ UNCHANGED faults
     \/ Fault /\ Goto(u, "put")
  /\ UNCHANGED <<kind, late, len, document, mark, user, ckpt, todo, seen, at,
                 sent, deaths>>

Visited(u) ==
  /\ todo' = [todo EXCEPT ![u] = @ \ {at[u]}]
  /\ at' = [at EXCEPT ![u] = NoFile]
  /\ UNCHANGED seen

(* ingest_file, parse_and_submit: the lines past the mark are submitted.   *)
ReadFile(u) ==
  /\ pc[u] = "read"
  /\ LET f == at[u]
         start == IF len[f] < ckpt[u][f] THEN 0 ELSE ckpt[u][f] IN
       /\ sent' = [sent EXCEPT ![f] =
            [i \in 1..MaxLen |-> IF start < i /\ i <= len[f] /\ @[i] < 2
                                 THEN @[i] + 1 ELSE @[i]]]
       /\ ckpt' = [ckpt EXCEPT ![u][f] = len[f]]
  /\ Visited(u)
  /\ Goto(u, "scan")
  /\ UNCHANGED <<kind, late, len, document, mark, user, faults, deaths>>

(* A file that cannot be read is passed over; an object ends the run.      *)
ReadFails(u) ==
  /\ pc[u] = "read"
  /\ Fault
  /\ Visited(u)
  /\ Goto(u, IF kind = "fs" THEN "scan" ELSE "finish")
  /\ UNCHANGED <<kind, late, len, document, mark, user, ckpt, sent, deaths>>

Retained(u) == [f \in File |-> IF f \in seen[u] THEN ckpt[u][f] ELSE 0]

(* Mutant: marks are dropped after an early stop too.                      *)
FinalPutAlwaysRetains(u) ==
  /\ \/ pc[u] = "put" \/ (pc[u] = "scan" /\ todo[u] = {})
  /\ mark' = Retained(u)
  /\ Goto(u, "finish")
  /\ UNCHANGED <<kind, late, len, document, user, ckpt, todo, seen, at, sent,
                 faults, deaths>>

(* The walk is over: after a complete one, the marks of files that are no  *)
(* longer there are dropped; the checkpoint is stored.                     *)
FinalPut(u) ==
  /\ \/ pc[u] = "put" \/ (pc[u] = "scan" /\ todo[u] = {})
  /\ \/ /\ mark' = IF pc[u] = "put" THEN ckpt[u] ELSE Retained(u)
        /\ UNCHANGED faults
     \/ Fault /\ UNCHANGED mark
  /\ Goto(u, "finish")
  /\ UNCHANGED <<kind, late, len, document, user, ckpt, todo, seen, at, sent,
                 deaths>>

Forget(u) ==
  /\ Goto(u, "idle")
  /\ ckpt' = [ckpt EXCEPT ![u] = NoMarks]
  /\ todo' = [todo EXCEPT ![u] = {}]
  /\ seen' = [seen EXCEPT ![u] = {}]
  /\ at' = [at EXCEPT ![u] = NoFile]

(* source_finish_run releases the lease, whoever holds it; an error leaves *)
(* it to grow old.                                                         *)
Finish(u) ==
  /\ pc[u] = "finish"
  /\ \/ /\ exists
        /\ running' = FALSE /\ stuck' = FALSE /\ due' = FALSE
        /\ UNCHANGED faults
     \/ ~exists /\ UNCHANGED <<running, stuck, due, faults>>
     \/ Fault /\ UNCHANGED <<running, stuck, due>>
  /\ Forget(u)
  /\ UNCHANGED <<kind, late, len, exists, enabled, mark, user, sent, deaths>>

(* The process of the run dies.                                            *)
Crash(u) ==
  /\ pc[u] # "idle"
  /\ faults + deaths < MaxFaults /\ deaths' = deaths + 1
  /\ Forget(u)
  /\ UNCHANGED <<kind, late, len, document, mark, user, sent, faults>>

-----------------------------------------------------------------------------
(* The users.                                                              *)

(* Mutant: disabling a source releases its lease.                          *)
SetEnabledReleases ==
  /\ exists
  /\ enabled' = ~enabled
  /\ running' = (running /\ enabled')
  /\ UNCHANGED <<kind, late, len, exists, stuck, due, mark, user, runs, sent,
                 faults, deaths>>

(* source_update: "leave the lease alone on disable".                      *)
SetEnabled ==
  /\ exists
  /\ enabled' = ~enabled
  /\ UNCHANGED <<kind, late, len, exists, running, stuck, due, mark, user,
                 runs, sent, faults, deaths>>

RunNow ==
  /\ exists /\ ~due
  /\ due' = TRUE
  /\ UNCHANGED <<kind, late, len, exists, enabled, running, stuck, mark, user,
                 runs, sent, faults, deaths>>

(* source_reset "refuses while running"; the checkpoint goes afterwards.   *)
ResetSource ==
  /\ user = "idle"
  /\ exists /\ ~running
  /\ due' = TRUE
  /\ user' = "reset"
  /\ UNCHANGED <<kind, late, len, exists, enabled, running, stuck, mark, runs,
                 sent, faults, deaths>>

(* source_delete: the document goes, with the switch and the lease in it. *)
DeleteSource ==
  /\ user = "idle"
  /\ exists /\ exists' = FALSE
  /\ enabled' = FALSE /\ running' = FALSE /\ stuck' = FALSE /\ due' = FALSE
  /\ user' = "delete"
  /\ UNCHANGED <<kind, late, len, mark, runs, sent, faults, deaths>>

(* The checkpoint document is deleted, though a run may have taken the     *)
(* lease and loaded it since; an error is ignored.                         *)
DropCheckpoint ==
  /\ user \in {"reset", "delete"}
  /\ \/ /\ mark' = NoMarks /\ sent' = NotSent
        /\ late' = (\E u \in Active : ckpt[u] # NoMarks)
        /\ UNCHANGED faults
     \/ Fault /\ UNCHANGED <<mark, sent, late>>
  /\ user' = "idle"
  /\ UNCHANGED <<kind, len, document, runs, deaths>>

-----------------------------------------------------------------------------

Step(u) ==
  \/ Tick(u) \/ TryLease(u) \/ LoadCheckpoint(u) \/ Announce(u) \/ CheckEnabled(u)
  \/ ReadFile(u) \/ FinalPut(u) \/ Finish(u)

Next ==
  \/ \E u \in Run : Step(u) \/ LoadFails(u) \/ ReadFails(u) \/ Crash(u)
  \/ \E f \in File : Grow(f)
  \/ Elapse \/ LeaseAges
  \/ SetEnabled \/ RunNow \/ ResetSource \/ DeleteSource \/ DropCheckpoint

Spec == Init /\ [][Next]_vars

-----------------------------------------------------------------------------
(***************************************************************************)
(* Safety.                                                                 *)
(***************************************************************************)

(* The lease lets one run at a time read the source, through crashes,      *)
(* stolen leases, resets, and the "disable, re-enable double-run"          *)
(* source_update speaks of.                                                *)
OneRun == \A u, v \in Active : u = v

(* At least once: no mark covers a line that was not submitted (since the  *)
(* last reset), so no line is passed over, whatever fails or dies.  (A run *)
(* that took the lease between the two calls of a reset brings the marks   *)
(* back: then the reset is as good as not made, for the lines they cover.) *)
NothingSkipped ==
  exists /\ ~late => \A f \in File : \A i \in 1..mark[f] : sent[f][i] > 0

(* "Announce the file and checkpoint everything before it, so a crash      *)
(* resumes here": what a run has submitted and the stored checkpoint does  *)
(* not cover is in one file, unless a put failed or a reset came late.     *)
CrashResumesHere ==
  exists /\ ~late /\ faults = 0 => \A u \in Active :
    Cardinality({f \in File : ckpt[u][f] > mark[f]}) <= 1

(* No line is submitted twice between resets, by however many runs that    *)
(* were disabled, re-enabled or triggered by hand, unless a process died   *)
(* or a call failed.                                                       *)
SentOnce ==
  faults = 0 /\ deaths = 0 => \A f \in File, i \in 1..MaxLen : sent[f][i] <= 1

(***************************************************************************)
(* Liveness.  The supervisors and the runs go on, the clock does not stop, *)
(* a reset once begun is completed; users owe nothing.                     *)
(***************************************************************************)
FairSpec ==
  /\ Spec
  /\ \A u \in Run : WF_vars(Step(u))
  /\ WF_vars(Elapse) /\ WF_vars(LeaseAges) /\ WF_vars(DropCheckpoint)

(* A source that stays enabled is caught up with again and again: every    *)
(* line there is has been submitted, though runs died holding the lease.   *)
(* (Files grow up to a bound, so no line waits for others to come.)        *)
EventuallySent ==
  <>[](exists /\ enabled /\ ~late) =>
    []<>(\A f \in File : \A i \in 1..len[f] : sent[f][i] > 0)
=============================================================================
