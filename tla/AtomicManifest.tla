--------------------------- MODULE AtomicManifest ---------------------------
(***************************************************************************)
(* What one partition's manifest promises to the code above BlockStore:    *)
(* the set of live block ids changes in single, indivisible steps, each    *)
(* the whole effect of one request on the set as it stands, and a request  *)
(* that is refused or answered was judged on a set that really was live.   *)
(* Generations, conditional puts and garbage collection do not appear.     *)
(* ManifestCAS.tla is shown to implement this module.                      *)
(***************************************************************************)
EXTENDS FiniteSets

CONSTANTS
  Writer,     \* tasks (of any node) that use the manifest
  Block,      \* block ids
  LostReply   \* TRUE: the store may apply a commit and lose the answer

Kind == {"load", "update", "guarded"}

(* try_update with its mutate closure: drop `remove`, add `add`.           *)
Request == [kind : Kind, remove : SUBSET Block, add : SUBSET Block]

NoRequest == [kind |-> "load", remove |-> {}, add |-> {}]

(* As a set: append_block pushes without looking, which differs only for an *)
(* id that is listed already.                                              *)
Apply(r, m) == (m \ r.remove) \cup r.add

(* A guarded request commits only if every id it removes is still live.    *)
Admits(r, m) == r.kind = "guarded" => r.remove \subseteq m

VARIABLES
  live,    \* the live block ids
  req,     \* the request each writer is serving
  phase,   \* "idle", "pending", "viewed", "acked" or "refused"
  view     \* the live set a viewed request is judged on, {} otherwise

vars == <<live, req, phase, view>>

AbstractTypeOK ==
  /\ live \in SUBSET Block
  /\ req \in [Writer -> Request]
  /\ phase \in [Writer -> {"idle", "pending", "viewed", "acked", "refused"}]
  /\ view \in [Writer -> SUBSET Block]

Init ==
  /\ live \in SUBSET Block
  /\ req = [w \in Writer |-> NoRequest]
  /\ phase = [w \in Writer |-> "idle"]
  /\ view = [w \in Writer |-> {}]

To(w, p, v) ==
  /\ phase' = [phase EXCEPT ![w] = p]
  /\ view' = [view EXCEPT ![w] = v]

Submit(w) ==
  /\ phase[w] = "idle"
  /\ \E r \in Request : req' = [req EXCEPT ![w] = r]
  /\ To(w, "pending", {})
  /\ UNCHANGED live

View(w) ==
  /\ phase[w] = "pending"
  /\ To(w, "viewed", live)
  /\ UNCHANGED <<live, req>>

(* A reader's request is answered with its view.                           *)
Answer(w) ==
  /\ phase[w] = "viewed"
  /\ req[w].kind = "load"
  /\ To(w, "acked", {})
  /\ UNCHANGED <<live, req>>

(* The whole effect of the request, on the set nobody changed since the    *)
(* view; the store's answer can be lost, and is then reported as a failure *)
(* or as a lost race.                                                      *)
Commit(w) ==
  /\ phase[w] = "viewed"
  /\ req[w].kind # "load"
  /\ view[w] = live
  /\ Admits(req[w], live)
  /\ live' = Apply(req[w], live)
  /\ \/ To(w, "acked", {}) /\ UNCHANGED req
     \/ LostReply /\ To(w, "pending", {}) /\ UNCHANGED req
     \/ LostReply /\ To(w, "idle", {}) /\ req' = [req EXCEPT ![w] = NoRequest]

(* Somebody else committed since the view: look again.                     *)
Retry(w) ==
  /\ phase[w] = "viewed"
  /\ To(w, "pending", {})
  /\ UNCHANGED <<live, req>>

(* A guarded request is refused only for an id that was not live.          *)
Refuse(w) ==
  /\ phase[w] = "viewed"
  /\ ~Admits(req[w], view[w])
  /\ To(w, "refused", {})
  /\ UNCHANGED <<live, req>>

(* The answer reaches the caller, or an error (a crash) ends the request   *)
(* before it has any effect.                                               *)
Finish(w) ==
  /\ phase[w] # "idle"
  /\ To(w, "idle", {})
  /\ req' = [req EXCEPT ![w] = NoRequest]
  /\ UNCHANGED live

Next ==
  \E w \in Writer :
    \/ Submit(w) \/ View(w) \/ Answer(w) \/ Commit(w)
    \/ Refuse(w) \/ Retry(w) \/ Finish(w)

Spec == Init /\ [][Next]_vars

=============================================================================
