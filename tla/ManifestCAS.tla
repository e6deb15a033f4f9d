----------------------------- MODULE ManifestCAS -----------------------------
(***************************************************************************)
(* The manifest of one partition in one object store, as BlockStore keeps  *)
(* it (engine/block/store.rs): numbered generations <n>.json, each written *)
(* once with put_if_absent; the newest one is the current manifest.  Any   *)
(* number of tasks, of any node, read, write and garbage collect it with   *)
(* no lock.  Every call to the object store is a step of its own, so the   *)
(* tasks interleave between the list, the get, the conditional put and the *)
(* deletes.                                                                *)
(***************************************************************************)
EXTENDS Naturals, FiniteSets

CONSTANTS
  Writer,           \* tasks that call the BlockStore, on all nodes
  Block,            \* block ids
  Offered,          \* the requests a task may make: a set of requests
  KeepGenerations,  \* KEEP_GENERATIONS
  MaxCasRetries,    \* MAX_CAS_RETRIES
  MaxLag,           \* bound: commits of others while a request runs
  MaxGen,           \* bound: the last generation number
  LostReply         \* TRUE: the store may apply a put and lose the answer

ASSUME KeepAssumption == KeepGenerations \in Nat \ {0}
ASSUME BoundAssumption ==
  MaxCasRetries \in Nat \ {0} /\ MaxLag \in Nat /\ MaxGen \in Nat
ASSUME LostReplyAssumption == LostReply \in BOOLEAN

VARIABLES
  gens,     \* the generation numbers whose object exists
  content,  \* content[g]: the block ids in generation g; content[0]: the
            \* legacy manifest.json, or the empty default
  pc,       \* where each writer is in try_update or current
  req,      \* the request it serves: a mutate closure
  base,     \* the generation it listed as the newest
  seen,     \* the manifest it read
  tries,    \* conditional puts it has lost so far
  victims   \* the generations its garbage collection still has to delete

vars == <<gens, content, pc, req, base, seen, tries, victims>>

(* latest_gen: the highest number listed; 0 stands for no generation yet.  *)
LatestOf(G) == IF G = {} THEN 0 ELSE CHOOSE g \in G : \A h \in G : h <= g

Latest == LatestOf(gens)

PhaseOf(p) ==
  IF p = "list" THEN "pending"
  ELSE IF p \in {"get", "put"} THEN "viewed"
  ELSE IF p \in {"gclist", "gcdel", "done"} THEN "acked"
  ELSE p

ViewOf(w) == IF pc[w] \in {"get", "put"} THEN content[base[w]] ELSE {}

AM == INSTANCE AtomicManifest WITH
        live  <- content[Latest],
        phase <- [w \in Writer |-> PhaseOf(pc[w])],
        view  <- [w \in Writer |-> ViewOf(w)]

ASSUME OfferedAssumption == Offered \subseteq AM!Request

PC == {"idle", "list", "get", "put", "gclist", "gcdel", "done", "refused"}

TypeOK ==
  /\ gens \in SUBSET (1..MaxGen)
  /\ content \in [0..MaxGen -> SUBSET Block]
  /\ pc \in [Writer -> PC]
  /\ req \in [Writer -> AM!Request]
  /\ base \in [Writer -> 0..MaxGen]
  /\ seen \in [Writer -> SUBSET Block]
  /\ tries \in [Writer -> 0..MaxCasRetries]
  /\ victims \in [Writer -> SUBSET (1..MaxGen)]

Init ==
  /\ gens = {}
  /\ \E legacy \in SUBSET Block :
       content = [g \in 0..MaxGen |-> IF g = 0 THEN legacy ELSE {}]
  /\ pc = [w \in Writer |-> "idle"]
  /\ req = [w \in Writer |-> AM!NoRequest]
  /\ base = [w \in Writer |-> 0]
  /\ seen = [w \in Writer |-> {}]
  /\ tries = [w \in Writer |-> 0]
  /\ victims = [w \in Writer |-> {}]

-----------------------------------------------------------------------------

Goto(w, p) == pc' = [pc EXCEPT ![w] = p]

(* A caller enters update, swap_blocks, swap_blocks_if_present or           *)
(* load_manifest.  MaxGen bounds the requests that need a generation.      *)
Submit(w) ==
  /\ pc[w] = "idle"
  /\ \E r \in Offered :
       /\ r.kind = "load" \/ Latest + Cardinality(Writer) <= MaxGen
       /\ req' = [req EXCEPT ![w] = r]
  /\ Goto(w, "list")
  /\ UNCHANGED <<gens, content, base, seen, tries, victims>>

(* latest_gen: one list of the manifest prefix.                            *)
LatestGen(w) ==
  /\ pc[w] = "list"
  /\ base' = [base EXCEPT ![w] = Latest]
  /\ Goto(w, "get")
  /\ UNCHANGED <<gens, content, req, seen, tries, victims>>

(* The second half of current, then the closure: the generation listed is  *)
(* fetched (the legacy manifest when there was none); a generation deleted *)
(* since the list is an error.  load_manifest returns here, and mutate     *)
(* refuses here.                                                           *)
Current(w) ==
  /\ pc[w] = "get"
  /\ base[w] = 0 \/ base[w] \in gens
  /\ LET m == content[base[w]] IN
       /\ seen' = [seen EXCEPT ![w] = m]
       /\ \/ req[w].kind = "load" /\ Goto(w, "done")
          \/ ~AM!Admits(req[w], m) /\ Goto(w, "refused")
          \/ req[w].kind # "load" /\ AM!Admits(req[w], m) /\ Goto(w, "put")
  /\ UNCHANGED <<gens, content, req, base, tries, victims>>

Reset(w) ==
  /\ Goto(w, "idle")
  /\ req' = [req EXCEPT ![w] = AM!NoRequest]
  /\ base' = [base EXCEPT ![w] = 0]
  /\ seen' = [seen EXCEPT ![w] = {}]
  /\ tries' = [tries EXCEPT ![w] = 0]
  /\ victims' = [victims EXCEPT ![w] = {}]

(* The caller gets its answer, true or false.                              *)
Return(w) ==
  /\ pc[w] \in {"done", "refused"}
  /\ Reset(w)
  /\ UNCHANGED <<gens, content>>

(* An error of the store surfaces from list, get or put with no effect;    *)
(* or the process dies, anywhere.                                          *)
FailOrCrash(w) ==
  /\ pc[w] # "idle"
  /\ Reset(w)
  /\ UNCHANGED <<gens, content>>

(* The timing assumption the retry loop rests on: between a request's list *)
(* and its put the others commit at most MaxLag generations.               *)
WithinLag(w) ==
  \A v \in Writer \ {w} :
    pc[v] \in {"get", "put"} => base[w] + 1 <= base[v] + MaxLag

(* Mutant: a plain put, that overwrites the generation a peer wrote.       *)
CreateGenerationOverwrites(w) ==
  /\ pc[w] = "put"
  /\ base[w] < MaxGen /\ WithinLag(w)
  /\ gens' = gens \cup {base[w] + 1}
  /\ content' = [content EXCEPT ![base[w] + 1] = AM!Apply(req[w], seen[w])]

(* What put_if_absent does when it finds no object of the next generation. *)
CreateGeneration(w) ==
  /\ pc[w] = "put"
  /\ base[w] < MaxGen /\ WithinLag(w)
  /\ base[w] + 1 \notin gens
  /\ gens' = gens \cup {base[w] + 1}
  /\ content' = [content EXCEPT ![base[w] + 1] = AM!Apply(req[w], seen[w])]

(* put_if_absent answers true.                                             *)
PutWins(w) ==
  /\ CreateGeneration(w)
  /\ Goto(w, "gclist")
  /\ UNCHANGED <<req, base, seen, tries, victims>>

(* A lost race, or the count of tries used up.                             *)
LoseRace(w) ==
  \/ /\ tries[w] + 1 < MaxCasRetries
     /\ tries' = [tries EXCEPT ![w] = @ + 1]
     /\ Goto(w, "list")
     /\ UNCHANGED <<req, base, seen, victims>>
  \/ /\ tries[w] + 1 >= MaxCasRetries
     /\ Reset(w)

(* Mutant: any failure of the put is taken for a lost race.                *)
PutLosesOnAnyError(w) ==
  /\ pc[w] = "put"
  /\ LoseRace(w)
  /\ UNCHANGED <<gens, content>>

(* put_if_absent answers false: the generation exists.                     *)
PutLoses(w) ==
  /\ pc[w] = "put"
  /\ base[w] + 1 \in gens
  /\ LoseRace(w)
  /\ UNCHANGED <<gens, content>>

(* The put took effect and its answer was lost: the S3 client sends it     *)
(* again and reads the 412 as a lost race, or the call returns an error.   *)
PutReplyLost(w) ==
  /\ LostReply
  /\ CreateGeneration(w)
  /\ LoseRace(w) \/ Reset(w)

(* gc_old_generations lists, and skips the KeepGenerations newest.         *)
Newer(g) == {h \in gens : h > g}

(* Mutant: one generation fewer is kept.                                   *)
GcListKeepsOneFewer(w) ==
  /\ pc[w] = "gclist"
  /\ victims' = [victims EXCEPT ![w] =
                   {g \in gens : Cardinality(Newer(g)) + 1 >= KeepGenerations}]
  /\ Goto(w, "gcdel")
  /\ UNCHANGED <<gens, content, req, base, seen, tries>>

GcList(w) ==
  /\ pc[w] = "gclist"
  /\ victims' = [victims EXCEPT ![w] =
                   {g \in gens : Cardinality(Newer(g)) >= KeepGenerations}]
  /\ Goto(w, "gcdel")
  /\ UNCHANGED <<gens, content, req, base, seen, tries>>

(* Best effort: a list that fails ends the collection.                     *)
GcListFails(w) ==
  /\ pc[w] = "gclist"
  /\ Goto(w, "done")
  /\ UNCHANGED <<gens, content, req, base, seen, tries, victims>>

(* One delete, the newest victim first; a delete that fails is ignored.    *)
GcDelete(w) ==
  /\ pc[w] = "gcdel"
  /\ \E g \in victims[w] :
       /\ \A h \in victims[w] : h <= g
       /\ victims' = [victims EXCEPT ![w] = @ \ {g}]
       /\ gens' \in {gens, gens \ {g}}
  /\ UNCHANGED <<content, pc, req, base, seen, tries>>

GcEnds(w) ==
  /\ pc[w] = "gcdel"
  /\ victims[w] = {}
  /\ Goto(w, "done")
  /\ UNCHANGED <<gens, content, req, base, seen, tries, victims>>

(* The steps of a request that is being served.                            *)
Serve(w) ==
  \/ LatestGen(w) \/ Current(w)
  \/ PutWins(w) \/ PutLoses(w)
  \/ GcList(w) \/ GcDelete(w) \/ GcEnds(w)
  \/ Return(w)

Next ==
  \E w \in Writer :
    \/ Submit(w) \/ Serve(w)
    \/ PutReplyLost(w) \/ GcListFails(w) \/ FailOrCrash(w)

Spec == Init /\ [][Next]_vars

-----------------------------------------------------------------------------
(***************************************************************************)
(* Safety.                                                                 *)
(***************************************************************************)

(* "reload and retry if a peer won": a put that would succeed is the put   *)
(* of a task whose manifest is still the current one.  This is what makes  *)
(* put_if_absent a compare-and-swap although gc_old_generations frees old  *)
(* generation numbers behind the writers' backs.                           *)
NoStaleWin ==
  \A w \in Writer :
    pc[w] = "put" /\ base[w] + 1 \notin gens =>
      base[w] = Latest /\ seen[w] = content[Latest]

(* No collection, however late it runs, deletes one of the KeepGenerations *)
(* newest generations: a conditional put that comes at most that many      *)
(* commits late still finds its number taken, and "a slow reader may be     *)
(* mid-list": a read that gets, fewer commits later than that, the          *)
(* generation it listed finds it.                                          *)
NewestKept ==
  \A g \in 1..MaxGen :
    g <= Latest /\ Latest < g + KeepGenerations => g \in gens

(* A generation once written never changes while it can be read: only a    *)
(* new newest generation is ever created.                                  *)
HistoryOnlyGrows ==
  [][/\ \A g \in gens' \ gens : \A h \in gens : h < g
     /\ \A g \in gens : content'[g] = content[g]
     /\ content'[0] = content[0]]_vars

(* "contention is rare and each race has one winner": a request goes back  *)
(* to the list only because the newest generation moved past the one it    *)
(* read, so somebody's commit was acknowledged, or (a reply lost) its own. *)
RetryOnlyAfterCommit ==
  [][\A w \in Writer :
       pc[w] = "put" /\ pc'[w] = "list" => Latest' > base[w]]_vars

(* The whole protocol is one atomic manifest.                              *)
IsAtomicManifest == AM!Spec
=============================================================================
