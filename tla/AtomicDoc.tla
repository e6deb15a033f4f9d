------------------------------ MODULE AtomicDoc ------------------------------
(***************************************************************************)
(* What one control-plane document promises to the handlers that change    *)
(* it: every change is a single step from the value as it stands, made     *)
(* once, and a caller is told of success only when its change was made.    *)
(* The handlers' modules (Accounts, Monitors) take their steps on          *)
(* documents like this one.  ControlDoc.tla is shown to implement it.      *)
(***************************************************************************)
EXTENDS Naturals

CONSTANTS
  Task,      \* the calls of mutate_doc, try_mutate_doc, put_doc and delete
  Absent,    \* no document
  MaxMarks   \* bound: how often one call's change may be repeated

(* upsert creates what is missing, patch is an error then; elect is a      *)
(* try_mutate_doc that declines when another holds the document.           *)
Kind == {"upsert", "patch", "elect", "put", "delete"}

Marks == [Task -> 0..MaxMarks]
None == [t \in Task |-> 0]
Value == Marks \cup {Absent}

MarksOf(v) == IF v = Absent THEN None ELSE v

(* The caller's closure on the value v: what it bails out or declines on.  *)
Accepts(k, t, v) ==
  /\ k = "patch" => v # Absent
  /\ k = "elect" => \A u \in Task \ {t} : MarksOf(v)[u] = 0

(* The value it makes: put_doc replaces the document, the others amend it. *)
Effect(k, t, v) ==
  IF k = "delete" THEN Absent
  ELSE IF k = "put" THEN [None EXCEPT ![t] = 1]
  ELSE [MarksOf(v) EXCEPT ![t] = @ + 1]

VARIABLES
  value,     \* the document
  kind,      \* kind[t]: what task t does
  commits,   \* commits[t]: how often its change was made
  answered   \* the tasks told of success

vars == <<value, kind, commits, answered>>

Init ==
  /\ value \in {Absent, None}
  /\ kind \in [Task -> Kind]
  /\ commits = [t \in Task |-> 0]
  /\ answered = {}

(* again: the store may report a change it made as refused.                *)
Commit(t, again) ==
  /\ t \notin answered /\ (commits[t] = 0 \/ again)
  /\ Accepts(kind[t], t, value)
  /\ value' = Effect(kind[t], t, value)
  /\ commits' = [commits EXCEPT ![t] = @ + 1]
  /\ UNCHANGED <<kind, answered>>

Answer(t) ==
  /\ commits[t] > 0
  /\ answered' = answered \cup {t}
  /\ UNCHANGED <<value, kind, commits>>

Next(again) == \E t \in Task : Commit(t, again) \/ Answer(t)

Spec == Init /\ [][Next(TRUE)]_vars

(* Without lost replies a change is made once.                             *)
OnceSpec == Init /\ [][Next(FALSE)]_vars
=============================================================================
