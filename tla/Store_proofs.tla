----------------------------- MODULE Store_proofs -----------------------------
(***************************************************************************)
(* The theorems on what is stored.  First ManifestCAS, for every number of *)
(* writers, every set of requests, every KEEP_GENERATIONS and every retry  *)
(* bound: as long as no request falls more than KEEP_GENERATIONS commits   *)
(* behind, the generations implement one atomic manifest.  Then EventStore,*)
(* SearchAnswer and Aggregate, for every set of events and every sequence  *)
(* of flushes, compactions and queries: no row is lost or stored twice,    *)
(* and a search answers with every row that matches.                       *)
(***************************************************************************)
EXTENDS ManifestCAS, Aggregate, FiniteSetTheorems, FunctionTheorems,
        SequenceTheorems, WellFoundedInduction, TLAPS

(* The timing assumption.                                                  *)
LagAssumption == MaxLag <= KeepGenerations

-----------------------------------------------------------------------------
(* The inductive invariant.                                                *)

(* The set of generations has a greatest element.                          *)
HasNewest == gens # {} => \E g \in gens : \A h \in gens : h <= g

(* Collections only ever delete generations past the ones that are kept,   *)
(* however old the list they work from.                                    *)
VictimsOld == \A w \in Writer : \A g \in victims[w] : g + KeepGenerations <= Latest

(* What WithinLag maintains.                                               *)
LagBounded ==
  \A w \in Writer :
    pc[w] \in {"get", "put"} => base[w] <= Latest /\ Latest <= base[w] + MaxLag

(* A put carries the manifest of the generation it was based on, and a     *)
(* request that mutate accepted on it.                                     *)
PutIsBased ==
  \A w \in Writer :
    pc[w] = "put" =>
      /\ seen[w] = content[base[w]]
      /\ req[w].kind # "load"
      /\ AM!Admits(req[w], seen[w])

IInv ==
  TypeOK /\ HasNewest /\ NewestKept /\ VictimsOld /\ LagBounded /\ PutIsBased

-----------------------------------------------------------------------------
(* Facts about latest_gen.                                                 *)

(* latest_gen returns the greatest generation of a listing.                *)
LEMMA LatestIsGreatest ==
  ASSUME NEW G \in SUBSET (1..MaxGen), NEW l \in G, \A h \in G : h <= l
  PROVE  LatestOf(G) = l
<1>1. \A m \in G : (\A h \in G : h <= m) => m = l
  BY BoundAssumption
<1>2. QED
  BY <1>1 DEF LatestOf

(* The newest generation is one that exists, and no other is newer.        *)
LEMMA LatestBounds ==
  ASSUME TypeOK, HasNewest
  PROVE  /\ Latest \in 0..MaxGen
         /\ \A h \in gens : h <= Latest
         /\ gens # {} => Latest \in gens
         /\ gens = {} => Latest = 0
<1>1. CASE gens = {}
  BY <1>1, BoundAssumption DEF Latest, LatestOf
<1>2. CASE gens # {}
  <2>1. PICK g \in gens : \A h \in gens : h <= g
    BY <1>2 DEF HasNewest
  <2>2. gens \in SUBSET (1..MaxGen)
    BY DEF TypeOK
  <2>3. LatestOf(gens) = g
    BY <2>1, <2>2, LatestIsGreatest
  <2>4. QED
    BY <1>2, <2>1, <2>2, <2>3, BoundAssumption DEF Latest
<1>3. QED
  BY <1>1, <1>2

(* A conditional put that will succeed was based on the current manifest.  *)
LEMMA FreshPut ==
  ASSUME LagAssumption, IInv, NEW w \in Writer,
         pc[w] = "put", base[w] + 1 \notin gens
  PROVE  base[w] = Latest /\ seen[w] = content[Latest]
<1>1. base[w] \in 0..MaxGen /\ base[w] <= Latest /\ Latest <= base[w] + MaxLag
  BY DEF IInv, TypeOK, LagBounded
<1>2. Latest \in 0..MaxGen
  BY LatestBounds DEF IInv
<1>3. ASSUME base[w] < Latest
      PROVE  FALSE
  <2>1. base[w] + 1 \in 1..MaxGen /\ base[w] + 1 <= Latest
    BY <1>1, <1>2, <1>3, BoundAssumption
  <2>2. Latest < base[w] + 1 + KeepGenerations
    BY <1>1, <1>2, KeepAssumption, BoundAssumption DEF LagAssumption
  <2>3. QED
    BY <2>1, <2>2 DEF IInv, NewestKept
<1>4. base[w] = Latest
  BY <1>1, <1>2, <1>3, BoundAssumption
<1>5. QED
  BY <1>4 DEF IInv, PutIsBased

(* A conditional put that succeeds makes the next generation, out of the   *)
(* one that is current.                                                    *)
LEMMA CreateMovesLatest ==
  ASSUME LagAssumption, IInv, NEW w \in Writer, CreateGeneration(w)
  PROVE  /\ base[w] = Latest
         /\ Latest' = Latest + 1
         /\ gens' = gens \cup {Latest + 1}
         /\ Latest + 1 \in 1..MaxGen
         /\ content'[Latest'] = AM!Apply(req[w], content[Latest])
         /\ \A g \in 0..MaxGen : g <= Latest => content'[g] = content[g]
         /\ content' \in [0..MaxGen -> SUBSET Block]
<1>1. base[w] = Latest /\ seen[w] = content[Latest]
  BY FreshPut DEF CreateGeneration
<1>2. Latest \in 0..MaxGen /\ \A h \in gens : h <= Latest
  BY LatestBounds DEF IInv
<1>3. Latest + 1 \in 1..MaxGen
  BY <1>1, <1>2, BoundAssumption DEF CreateGeneration
<1>4. gens' = gens \cup {Latest + 1}
  BY <1>1 DEF CreateGeneration
<1>5. gens' \in SUBSET (1..MaxGen)
  BY <1>3, <1>4 DEF IInv, TypeOK
<1>6. \A h \in gens' : h <= Latest + 1
  BY <1>2, <1>4, <1>5, BoundAssumption
<1>7. LatestOf(gens') = Latest + 1
  BY <1>4, <1>5, <1>6, LatestIsGreatest
<1>8. Latest' = Latest + 1
  BY <1>7 DEF Latest
<1>9. content' = [content EXCEPT ![Latest + 1] = AM!Apply(req[w], content[Latest])]
  BY <1>1 DEF CreateGeneration
<1>10. content \in [0..MaxGen -> SUBSET Block] /\ req[w] \in AM!Request
  BY DEF IInv, TypeOK
<1>11. AM!Apply(req[w], content[Latest]) \in SUBSET Block
  BY <1>2, <1>10 DEF AM!Apply, AM!Request
<1>12. QED
  BY <1>1, <1>2, <1>3, <1>4, <1>8, <1>9, <1>10, <1>11, BoundAssumption

(* A collection does not delete the newest generation.                     *)
LEMMA DeleteKeepsLatest ==
  ASSUME IInv, NEW w \in Writer, GcDelete(w)
  PROVE  /\ Latest' = Latest
         /\ HasNewest'
         /\ gens' \subseteq gens
         /\ \A g \in gens \ gens' : g + KeepGenerations <= Latest
<1>1. PICK v \in victims[w] : gens' \in {gens, gens \ {v}}
  BY DEF GcDelete
<1>2. v \in 1..MaxGen /\ v + KeepGenerations <= Latest
  BY <1>1 DEF IInv, TypeOK, VictimsOld
<1>3. Latest \in 0..MaxGen /\ (\A h \in gens : h <= Latest)
  BY LatestBounds DEF IInv
<1>4. Latest \in gens
  BY <1>2, <1>3, KeepAssumption, BoundAssumption, LatestBounds DEF IInv
<1>5. v # Latest
  BY <1>2, <1>3, KeepAssumption
<1>6. Latest \in gens' /\ gens' \subseteq gens
  BY <1>1, <1>4, <1>5
<1>7. gens' \in SUBSET (1..MaxGen)
  BY <1>6 DEF IInv, TypeOK
<1>8. LatestOf(gens') = Latest
  BY <1>3, <1>6, <1>7, LatestIsGreatest
<1>9. QED
  BY <1>1, <1>2, <1>3, <1>6, <1>8 DEF Latest, HasNewest

(* gc_old_generations skips what must be kept: a generation with at least  *)
(* KeepGenerations newer ones lies that far behind the newest.             *)
LEMMA ListedVictimsAreOld ==
  ASSUME IInv, NEW g \in gens, Cardinality(Newer(g)) >= KeepGenerations
  PROVE  g + KeepGenerations <= Latest
<1>1. Latest \in 0..MaxGen /\ (\A h \in gens : h <= Latest)
  BY LatestBounds DEF IInv
<1>2. gens \in SUBSET (1..MaxGen) /\ g \in 1..MaxGen
  BY DEF IInv, TypeOK
<1>3. Newer(g) \subseteq (g + 1)..Latest
  <2>1. SUFFICES ASSUME NEW h \in gens, h > g
                 PROVE  h \in (g + 1)..Latest
    BY DEF Newer
  <2>2. h \in 1..MaxGen /\ h <= Latest
    BY <1>1, <1>2
  <2>3. QED
    BY <1>1, <1>2, <2>1, <2>2, BoundAssumption
<1>4. /\ IsFiniteSet((g + 1)..Latest)
      /\ Cardinality((g + 1)..Latest) =
           IF g + 1 > Latest THEN 0 ELSE Latest - (g + 1) + 1
  <2>1. g + 1 \in Int /\ Latest \in Int
    BY <1>1, <1>2, BoundAssumption
  <2>2. \A a, b \in Int :
          /\ IsFiniteSet(a..b)
          /\ Cardinality(a..b) = IF a > b THEN 0 ELSE b - a + 1
    BY FS_Interval
  <2>3. QED
    BY <2>1, <2>2
<1>5. /\ Cardinality(Newer(g)) <= Cardinality((g + 1)..Latest)
      /\ IsFiniteSet(Newer(g))
  BY <1>3, <1>4, FS_Subset
<1>6. Cardinality(Newer(g)) \in Nat
  BY <1>5, FS_CardinalityType
<1>7. QED
  BY <1>1, <1>2, <1>4, <1>5, <1>6, KeepAssumption, BoundAssumption

(* The idle request is well formed.                                        *)
LEMMA NoRequestIsRequest == AM!NoRequest \in AM!Request
  BY DEF AM!NoRequest, AM!Request, AM!Kind

(* A task that returns to its caller leaves well-typed state behind.       *)
LEMMA ResetTyped ==
  ASSUME TypeOK, UNCHANGED <<gens, content>>, NEW w \in Writer, Reset(w)
  PROVE  TypeOK'
<1>1. pc' \in [Writer -> PC]
  BY DEF TypeOK, PC, Reset, Goto
<1>2. req' \in [Writer -> AM!Request]
  BY NoRequestIsRequest DEF TypeOK, Reset
<1>3. base' \in [Writer -> 0..MaxGen] /\ tries' \in [Writer -> 0..MaxCasRetries]
  BY BoundAssumption DEF TypeOK, Reset
<1>4. seen' \in [Writer -> SUBSET Block] /\ victims' \in [Writer -> SUBSET (1..MaxGen)]
  BY DEF TypeOK, Reset
<1>5. QED
  BY <1>1, <1>2, <1>3, <1>4 DEF TypeOK

-----------------------------------------------------------------------------
(* The invariant is inductive.                                             *)

(* The invariant holds of a partition without generations.                 *)
LEMMA InitIInv == Init => IInv
<1> SUFFICES ASSUME Init PROVE IInv
  OBVIOUS
<1>1. TypeOK
  BY KeepAssumption, BoundAssumption
  DEF Init, TypeOK, PC, AM!NoRequest, AM!Request, AM!Kind
<1>2. Latest = 0
  BY DEF Init, Latest, LatestOf
<1>3. QED
  BY <1>1, <1>2
  DEF Init, IInv, HasNewest, NewestKept, VictimsOld, LagBounded, PutIsBased

(* Steps that touch neither the generations nor their content.             *)
LEMMA LocalStep ==
  ASSUME IInv, UNCHANGED <<gens, content>>, NEW w \in Writer,
         \/ Submit(w) \/ LatestGen(w) \/ Current(w) \/ Return(w)
         \/ FailOrCrash(w) \/ PutLoses(w) \/ GcList(w) \/ GcListFails(w)
         \/ GcEnds(w)
  PROVE  IInv'
<1>1. Latest' = Latest /\ HasNewest'
  BY DEF Latest, HasNewest, IInv
<1>2. Latest \in 0..MaxGen
  BY LatestBounds DEF IInv
<1>3. TypeOK'
  <2>1. CASE Submit(w)
    BY <2>1, OfferedAssumption DEF Submit, Goto, IInv, TypeOK, PC
  <2>2. CASE LatestGen(w)
    BY <2>2, <1>2 DEF LatestGen, Goto, IInv, TypeOK, PC
  <2>3. CASE Current(w)
    BY <2>3, BoundAssumption DEF Current, Goto, IInv, TypeOK, PC
  <2>4. CASE Return(w) \/ FailOrCrash(w)
    BY <2>4, ResetTyped DEF Return, FailOrCrash, IInv
  <2>5. CASE PutLoses(w)
    <3>1. CASE Reset(w)
      BY <3>1, ResetTyped DEF IInv
    <3>2. CASE ~Reset(w)
      <4>1. /\ tries[w] + 1 < MaxCasRetries
            /\ tries' = [tries EXCEPT ![w] = @ + 1]
            /\ Goto(w, "list")
            /\ UNCHANGED <<req, base, seen, victims>>
        BY <2>5, <3>2 DEF PutLoses, LoseRace
      <4>2. tries[w] \in 0..MaxCasRetries
        BY DEF IInv, TypeOK
      <4>3. tries[w] + 1 \in 0..MaxCasRetries
        BY <4>1, <4>2, BoundAssumption
      <4>4. QED
        BY <4>1, <4>3 DEF Goto, IInv, TypeOK, PC
    <3>3. QED
      BY <3>1, <3>2
  <2>6. CASE GcList(w) \/ GcListFails(w) \/ GcEnds(w)
    BY <2>6 DEF GcList, GcListFails, GcEnds, Goto, IInv, TypeOK, PC
  <2>7. QED
    BY <2>1, <2>2, <2>3, <2>4, <2>5, <2>6
<1>4. NewestKept'
  BY <1>1 DEF NewestKept, IInv
<1>5. VictimsOld'
  <2>1. CASE GcList(w)
    <3>1. \A g \in victims'[w] : g + KeepGenerations <= Latest
      BY <2>1, ListedVictimsAreOld DEF GcList, IInv, TypeOK
    <3>2. \A v \in Writer \ {w} : victims'[v] = victims[v]
      BY <2>1 DEF GcList, IInv, TypeOK
    <3>3. QED
      BY <1>1, <3>1, <3>2 DEF VictimsOld, IInv
  <2>2. CASE ~GcList(w)
    <3>1. \A v \in Writer : victims'[v] \subseteq victims[v]
      BY <2>2
      DEF Submit, LatestGen, Current, Return, FailOrCrash, PutLoses, LoseRace,
          Reset, GcListFails, GcEnds, IInv, TypeOK
    <3>2. QED
      BY <1>1, <3>1 DEF VictimsOld, IInv
  <2>3. QED
    BY <2>1, <2>2
<1>6. LagBounded'
  <2>1. CASE LatestGen(w)
    BY <2>1, <1>1, <1>2, BoundAssumption
    DEF LatestGen, Goto, LagBounded, IInv, TypeOK
  <2>2. CASE ~LatestGen(w)
    <3>1. \A v \in Writer : pc'[v] \in {"get", "put"} =>
            pc[v] \in {"get", "put"} /\ base'[v] = base[v]
      BY <2>2
      DEF Submit, Current, Return, FailOrCrash, PutLoses, LoseRace, Reset,
          Goto, GcList, GcListFails, GcEnds, IInv, TypeOK
    <3>2. QED
      BY <1>1, <3>1 DEF LagBounded, IInv
  <2>3. QED
    BY <2>1, <2>2
<1>7. PutIsBased'
  <2>1. CASE Current(w)
    <3>1. pc'[w] = "put" =>
            /\ seen'[w] = content[base[w]]
            /\ req[w].kind # "load"
            /\ AM!Admits(req[w], seen'[w])
      BY <2>1 DEF Current, Goto, IInv, TypeOK
    <3>2. QED
      BY <2>1, <3>1 DEF Current, Goto, PutIsBased, IInv, TypeOK
  <2>2. CASE ~Current(w)
    <3>1. \A v \in Writer : pc'[v] = "put" =>
            /\ pc[v] = "put" /\ base'[v] = base[v]
            /\ seen'[v] = seen[v] /\ req'[v] = req[v]
      BY <2>2
      DEF Submit, LatestGen, Return, FailOrCrash, PutLoses, LoseRace, Reset,
          Goto, GcList, GcListFails, GcEnds, IInv, TypeOK
    <3>2. QED
      BY <3>1 DEF PutIsBased, IInv
  <2>3. QED
    BY <2>1, <2>2
<1>8. QED
  BY <1>1, <1>3, <1>4, <1>5, <1>6, <1>7 DEF IInv

(* The writer's own variables after a put, whatever the store answered.    *)
AfterPut(w) ==
  \/ Goto(w, "gclist") /\ UNCHANGED <<req, base, seen, tries, victims>>
  \/ LoseRace(w)
  \/ Reset(w)

(* A put that takes effect creates a generation, whether its answer        *)
(* arrives or not.                                                         *)
LEMMA PutIsCreateAndAfter ==
  ASSUME NEW w \in Writer, PutWins(w) \/ PutReplyLost(w)
  PROVE  CreateGeneration(w) /\ AfterPut(w)
BY DEF PutWins, PutReplyLost, AfterPut

(* Creating a generation keeps the invariant.                              *)
LEMMA CreateStep ==
  ASSUME LagAssumption, IInv, NEW w \in Writer, CreateGeneration(w), AfterPut(w)
  PROVE  IInv'
<1>1. /\ base[w] = Latest
      /\ Latest' = Latest + 1
      /\ gens' = gens \cup {Latest + 1}
      /\ Latest + 1 \in 1..MaxGen
      /\ \A g \in 0..MaxGen : g <= Latest => content'[g] = content[g]
      /\ content' \in [0..MaxGen -> SUBSET Block]
  BY CreateMovesLatest
<1>2. Latest \in 0..MaxGen /\ \A h \in gens : h <= Latest
  BY LatestBounds DEF IInv
<1>3. \A v \in Writer \ {w} :
        /\ pc'[v] = pc[v] /\ req'[v] = req[v] /\ base'[v] = base[v]
        /\ seen'[v] = seen[v] /\ victims'[v] = victims[v]
  BY DEF AfterPut, LoseRace, Reset, Goto, IInv, TypeOK
<1>4. pc'[w] \in {"gclist", "list", "idle"} /\ victims'[w] \subseteq victims[w]
  BY DEF AfterPut, LoseRace, Reset, Goto, IInv, TypeOK
<1>5. TypeOK'
  <2>1. gens' \in SUBSET (1..MaxGen)
    BY <1>1 DEF IInv, TypeOK
  <2>2. pc' \in [Writer -> PC]
    BY DEF AfterPut, LoseRace, Reset, Goto, IInv, TypeOK, PC
  <2>3. req' \in [Writer -> AM!Request]
    BY NoRequestIsRequest DEF AfterPut, LoseRace, Reset, IInv, TypeOK
  <2>4. base' \in [Writer -> 0..MaxGen]
    BY BoundAssumption DEF AfterPut, LoseRace, Reset, IInv, TypeOK
  <2>5. tries' \in [Writer -> 0..MaxCasRetries]
    <3>1. tries[w] \in 0..MaxCasRetries
      BY DEF IInv, TypeOK
    <3>2. tries[w] + 1 < MaxCasRetries => tries[w] + 1 \in 0..MaxCasRetries
      BY <3>1, BoundAssumption
    <3>3. QED
      BY <3>2, BoundAssumption DEF AfterPut, LoseRace, Reset, IInv, TypeOK
  <2>6. seen' \in [Writer -> SUBSET Block] /\ victims' \in [Writer -> SUBSET (1..MaxGen)]
    BY DEF AfterPut, LoseRace, Reset, IInv, TypeOK
  <2>7. QED
    BY <1>1, <2>1, <2>2, <2>3, <2>4, <2>5, <2>6 DEF TypeOK
<1>6. HasNewest'
  <2>1. \A h \in gens' : h <= Latest + 1
    BY <1>1, <1>2, BoundAssumption DEF IInv, TypeOK
  <2>2. QED
    BY <1>1, <2>1 DEF HasNewest
<1>7. NewestKept'
  BY <1>1, <1>2, KeepAssumption, BoundAssumption DEF IInv, NewestKept
<1>8. VictimsOld'
  <2>1. SUFFICES ASSUME NEW v \in Writer, NEW g \in victims'[v]
                 PROVE  g + KeepGenerations <= Latest + 1
    BY <1>1 DEF VictimsOld
  <2>2. g \in victims[v] /\ g \in 1..MaxGen
    BY <1>3, <1>4, <2>1 DEF IInv, TypeOK
  <2>3. g + KeepGenerations <= Latest
    BY <2>2 DEF IInv, VictimsOld
  <2>4. QED
    BY <1>2, <2>2, <2>3, KeepAssumption, BoundAssumption
<1>9. LagBounded'
  <2>1. SUFFICES ASSUME NEW v \in Writer, pc'[v] \in {"get", "put"}
                 PROVE  base'[v] <= Latest + 1 /\ Latest + 1 <= base'[v] + MaxLag
    BY <1>1 DEF LagBounded
  <2>2. v # w /\ pc[v] \in {"get", "put"} /\ base'[v] = base[v]
    BY <1>3, <1>4, <2>1
  <2>3. base[v] <= Latest /\ base[v] \in 0..MaxGen
    BY <2>2 DEF IInv, TypeOK, LagBounded
  <2>4. Latest + 1 <= base[v] + MaxLag
    BY <1>1, <2>2 DEF CreateGeneration, WithinLag
  <2>5. QED
    BY <1>2, <2>2, <2>3, <2>4, BoundAssumption
<1>10. PutIsBased'
  <2>1. SUFFICES ASSUME NEW v \in Writer, pc'[v] = "put"
                 PROVE  /\ seen'[v] = content'[base'[v]]
                        /\ req'[v].kind # "load"
                        /\ AM!Admits(req'[v], seen'[v])
    BY DEF PutIsBased
  <2>2. v # w /\ pc[v] = "put" /\ base'[v] = base[v]
    BY <1>3, <1>4, <2>1
  <2>3. base[v] <= Latest /\ base[v] \in 0..MaxGen
    BY <2>2 DEF IInv, TypeOK, LagBounded
  <2>4. content'[base[v]] = content[base[v]]
    BY <1>1, <2>3
  <2>5. QED
    BY <1>3, <2>2, <2>4 DEF IInv, PutIsBased
<1>11. QED
  BY <1>5, <1>6, <1>7, <1>8, <1>9, <1>10 DEF IInv

(* So does deleting an old one.                                            *)
LEMMA DeleteStep ==
  ASSUME IInv, NEW w \in Writer, GcDelete(w)
  PROVE  IInv'
<1>1. /\ Latest' = Latest
      /\ HasNewest'
      /\ gens' \subseteq gens
      /\ \A g \in gens \ gens' : g + KeepGenerations <= Latest
  BY DeleteKeepsLatest
<1>2. Latest \in 0..MaxGen
  BY LatestBounds DEF IInv
<1>3. \A v \in Writer : victims'[v] \subseteq victims[v]
  BY DEF GcDelete, IInv, TypeOK
<1>4. victims' \in [Writer -> SUBSET (1..MaxGen)]
  BY DEF GcDelete, IInv, TypeOK
<1>5. TypeOK'
  BY <1>1, <1>4 DEF GcDelete, IInv, TypeOK
<1>6. NewestKept'
  <2>1. SUFFICES ASSUME NEW g \in 1..MaxGen, g <= Latest,
                        Latest < g + KeepGenerations
                 PROVE  g \in gens'
    BY <1>1 DEF NewestKept
  <2>2. g \in gens
    BY <2>1 DEF IInv, NewestKept
  <2>3. ~(g + KeepGenerations <= Latest)
    BY <1>2, <2>1, KeepAssumption, BoundAssumption
  <2>4. QED
    BY <1>1, <2>2, <2>3
<1>7. VictimsOld'
  BY <1>1, <1>3 DEF IInv, VictimsOld
<1>8. LagBounded' /\ PutIsBased'
  BY <1>1 DEF GcDelete, IInv, LagBounded, PutIsBased
<1>9. QED
  BY <1>1, <1>5, <1>6, <1>7, <1>8 DEF IInv

(* Every step keeps the invariant.                                         *)
LEMMA NextIInv ==
  ASSUME LagAssumption, IInv, [Next]_vars
  PROVE  IInv'
<1>1. CASE Next
  <2>1. PICK w \in Writer :
          Submit(w) \/ Serve(w) \/ PutReplyLost(w) \/ GcListFails(w) \/ FailOrCrash(w)
    BY <1>1 DEF Next
  <2>2. CASE PutWins(w) \/ PutReplyLost(w)
    BY <2>2, PutIsCreateAndAfter, CreateStep
  <2>3. CASE GcDelete(w)
    BY <2>3, DeleteStep
  <2>4. CASE \/ Submit(w) \/ LatestGen(w) \/ Current(w) \/ Return(w)
             \/ FailOrCrash(w) \/ PutLoses(w) \/ GcList(w) \/ GcListFails(w)
             \/ GcEnds(w)
    <3>1. UNCHANGED <<gens, content>>
      BY <2>4
      DEF Submit, LatestGen, Current, Return, FailOrCrash, PutLoses, GcList,
          GcListFails, GcEnds
    <3>2. QED
      BY <2>4, <3>1, LocalStep
  <2>5. QED
    BY <2>1, <2>2, <2>3, <2>4 DEF Serve
<1>2. CASE UNCHANGED vars
  BY <1>2
  DEF vars, IInv, TypeOK, HasNewest, NewestKept, VictimsOld, LagBounded,
      PutIsBased, Latest
<1>3. QED
  BY <1>1, <1>2

-----------------------------------------------------------------------------
(* The theorems.                                                           *)

(* The inductive invariant holds in every reachable state.                 *)
THEOREM Invariance ==
  ASSUME LagAssumption
  PROVE  Spec => []IInv
<1>1. Init => IInv
  BY InitIInv
<1>2. IInv /\ [Next]_vars => IInv'
  BY NextIInv
<1>3. QED
  BY <1>1, <1>2, PTL DEF Spec

(* Every variable keeps its type.                                          *)
THEOREM TypeCorrect ==
  ASSUME LagAssumption
  PROVE  Spec => []TypeOK
<1>1. IInv => TypeOK
  BY DEF IInv
<1>2. QED
  BY <1>1, Invariance, PTL

(* "reload and retry if a peer won": put_if_absent never succeeds on a     *)
(* manifest that is no longer the current one, in spite of the garbage     *)
(* collection of generation numbers.                                       *)
THEOREM NoStaleWinHolds ==
  ASSUME LagAssumption
  PROVE  Spec => []NoStaleWin
<1>1. IInv => NoStaleWin
  BY FreshPut DEF NoStaleWin
<1>2. QED
  BY <1>1, Invariance, PTL

(* A garbage collection, however late, keeps the newest generations.       *)
THEOREM NewestKeptHolds ==
  ASSUME LagAssumption
  PROVE  Spec => []NewestKept
<1>1. IInv => NewestKept
  BY DEF IInv
<1>2. QED
  BY <1>1, Invariance, PTL

(* Only a new newest generation is ever created, and a generation that can *)
(* be read never changes.                                                  *)
THEOREM HistoryOnlyGrowsHolds ==
  ASSUME LagAssumption
  PROVE  Spec => HistoryOnlyGrows
<1> DEFINE Grows == /\ \A g \in gens' \ gens : \A h \in gens : h < g
                    /\ \A g \in gens : content'[g] = content[g]
                    /\ content'[0] = content[0]
<1>1. IInv /\ [Next]_vars => [Grows]_vars
  <2>1. SUFFICES ASSUME IInv, NEW w \in Writer,
                        Submit(w) \/ Serve(w) \/ PutReplyLost(w)
                        \/ GcListFails(w) \/ FailOrCrash(w)
                 PROVE  Grows
    BY DEF Next
  <2>2. CASE CreateGeneration(w)
    <3>1. /\ gens' = gens \cup {Latest + 1}
          /\ \A g \in 0..MaxGen : g <= Latest => content'[g] = content[g]
      BY <2>1, <2>2, CreateMovesLatest
    <3>2. Latest \in 0..MaxGen /\ (\A h \in gens : h <= Latest)
      BY <2>1, LatestBounds DEF IInv
    <3>3. gens \in SUBSET (1..MaxGen)
      BY <2>1 DEF IInv, TypeOK
    <3>4. QED
      BY <3>1, <3>2, <3>3, BoundAssumption
  <2>3. CASE ~CreateGeneration(w)
    <3>1. gens' \subseteq gens /\ content' = content
      BY <2>1, <2>3
      DEF Submit, Serve, LatestGen, Current, PutWins, PutLoses, GcList,
          GcDelete, GcEnds, Return, PutReplyLost, GcListFails, FailOrCrash
    <3>2. QED
      BY <3>1
  <2>4. QED
    BY <2>2, <2>3
<1>2. QED
  BY <1>1, Invariance, PTL DEF Spec, HistoryOnlyGrows

(* A lost race means that somebody's commit was acknowledged.              *)
THEOREM RetryOnlyAfterCommitHolds ==
  ASSUME LagAssumption
  PROVE  Spec => RetryOnlyAfterCommit
<1> DEFINE Lost == \A w \in Writer :
                     pc[w] = "put" /\ pc'[w] = "list" => Latest' > base[w]
<1>1. IInv /\ [Next]_vars => [Lost]_vars
  <2>1. SUFFICES ASSUME IInv, NEW u \in Writer,
                        Submit(u) \/ Serve(u) \/ PutReplyLost(u)
                        \/ GcListFails(u) \/ FailOrCrash(u),
                        NEW w \in Writer, pc[w] = "put", pc'[w] = "list"
                 PROVE  Latest' > base[w]
    BY DEF Next
  <2>2. u = w /\ (PutLoses(w) \/ PutReplyLost(w))
    BY <2>1
    DEF Submit, Serve, LatestGen, Current, PutWins, PutLoses, GcList,
        GcDelete, GcEnds, Return, PutReplyLost, GcListFails, FailOrCrash,
        LoseRace, Reset, Goto, IInv, TypeOK
  <2>3. Latest \in 0..MaxGen /\ (\A h \in gens : h <= Latest) /\ base[w] \in 0..MaxGen
    BY <2>1, LatestBounds DEF IInv, TypeOK
  <2>4. CASE PutLoses(w)
    BY <2>3, <2>4, BoundAssumption DEF PutLoses, Latest
  <2>5. CASE PutReplyLost(w)
    <3>1. base[w] = Latest /\ Latest' = Latest + 1
      BY <2>1, <2>5, CreateMovesLatest DEF PutReplyLost
    <3>2. QED
      BY <2>3, <3>1, BoundAssumption
  <2>6. QED
    BY <2>2, <2>4, <2>5
<1>2. QED
  BY <1>1, Invariance, PTL DEF Spec, RetryOnlyAfterCommit

-----------------------------------------------------------------------------
(* The refinement.                                                         *)

(* What the abstract phases and views see of a step of one task.           *)
LEMMA Moves ==
  ASSUME IInv, NEW w \in Writer, NEW p \in PC,
         pc' = [pc EXCEPT ![w] = p],
         \A v \in Writer \ {w} : ViewOf(v)' = ViewOf(v),
         NEW x, ViewOf(w)' = x
  PROVE  AM!To(w, PhaseOf(p), x)
<1>1. pc \in [Writer -> PC]
  BY DEF IInv, TypeOK
<1>2. [v \in Writer |-> PhaseOf(pc'[v])] =
        [[v \in Writer |-> PhaseOf(pc[v])] EXCEPT ![w] = PhaseOf(p)]
  BY <1>1
<1>3. [v \in Writer |-> ViewOf(v)'] =
        [[v \in Writer |-> ViewOf(v)] EXCEPT ![w] = x]
  OBVIOUS
<1>4. QED
  BY <1>2, <1>3 DEF AM!To

(* A step of w that leaves the store alone leaves the others' views alone. *)
LEMMA OthersViews ==
  ASSUME IInv, NEW w \in Writer, UNCHANGED content,
         \A v \in Writer \ {w} : pc'[v] = pc[v] /\ base'[v] = base[v]
  PROVE  \A v \in Writer \ {w} : ViewOf(v)' = ViewOf(v)
BY DEF ViewOf

(* A commit leaves the generations the others are looking at alone.        *)
LEMMA OthersViewsAfterPut ==
  ASSUME LagAssumption, IInv, NEW w \in Writer, CreateGeneration(w), AfterPut(w)
  PROVE  \A v \in Writer \ {w} : ViewOf(v)' = ViewOf(v)
<1>1. SUFFICES ASSUME NEW v \in Writer \ {w}
               PROVE  ViewOf(v)' = ViewOf(v)
  OBVIOUS
<1>2. pc'[v] = pc[v] /\ base'[v] = base[v]
  BY DEF AfterPut, LoseRace, Reset, Goto, IInv, TypeOK
<1>3. pc[v] \in {"get", "put"} => content'[base[v]] = content[base[v]]
  <2>1. pc[v] \in {"get", "put"} => base[v] \in 0..MaxGen /\ base[v] <= Latest
    BY DEF IInv, TypeOK, LagBounded
  <2>2. \A g \in 0..MaxGen : g <= Latest => content'[g] = content[g]
    BY CreateMovesLatest
  <2>3. QED
    BY <2>1, <2>2
<1>4. QED
  BY <1>2, <1>3 DEF ViewOf

(* A put that takes effect is the abstract commit.                         *)
LEMMA CommitStep ==
  ASSUME LagAssumption, IInv, NEW w \in Writer, PutWins(w) \/ PutReplyLost(w)
  PROVE  AM!Commit(w)
<1>1. CreateGeneration(w) /\ AfterPut(w) /\ pc[w] = "put"
  BY PutIsCreateAndAfter DEF CreateGeneration
<1>2. /\ base[w] = Latest
      /\ content'[Latest'] = AM!Apply(req[w], content[Latest])
  BY <1>1, CreateMovesLatest
<1>3. \A v \in Writer \ {w} : ViewOf(v)' = ViewOf(v)
  BY <1>1, OthersViewsAfterPut
<1>4. req[w].kind # "load" /\ AM!Admits(req[w], content[Latest])
  BY <1>1, <1>2 DEF IInv, PutIsBased
<1>5. ViewOf(w) = content[Latest] /\ PhaseOf(pc[w]) = "viewed"
  BY <1>1, <1>2 DEF ViewOf, PhaseOf
<1>6. \/ AM!To(w, "acked", {}) /\ UNCHANGED req
      \/ LostReply /\ AM!To(w, "pending", {}) /\ UNCHANGED req
      \/ LostReply /\ AM!To(w, "idle", {}) /\ req' = [req EXCEPT ![w] = AM!NoRequest]
  <2>1. ASSUME NEW p \in {"gclist", "list", "idle"}, Goto(w, p)
        PROVE  AM!To(w, PhaseOf(p), {})
    <3>1. p \in PC /\ pc' = [pc EXCEPT ![w] = p] /\ pc'[w] = p
      BY <2>1 DEF Goto, PC, IInv, TypeOK
    <3>2. ViewOf(w)' = {}
      BY <2>1, <3>1 DEF ViewOf
    <3>3. QED
      BY <1>3, <3>1, <3>2, Moves
  <2>2. CASE PutWins(w)
    <3>1. Goto(w, "gclist") /\ UNCHANGED req
      BY <2>2 DEF PutWins
    <3>2. AM!To(w, PhaseOf("gclist"), {})
      BY <2>1, <3>1
    <3>3. QED
      BY <3>1, <3>2 DEF PhaseOf
  <2>3. CASE PutReplyLost(w)
    <3>1. LostReply /\ (LoseRace(w) \/ Reset(w))
      BY <2>3 DEF PutReplyLost
    <3>2. CASE Goto(w, "list") /\ UNCHANGED req
      <4>1. AM!To(w, PhaseOf("list"), {})
        BY <2>1, <3>2
      <4>2. QED
        BY <3>1, <3>2, <4>1 DEF PhaseOf
    <3>3. CASE Goto(w, "idle") /\ req' = [req EXCEPT ![w] = AM!NoRequest]
      <4>1. AM!To(w, PhaseOf("idle"), {})
        BY <2>1, <3>3
      <4>2. QED
        BY <3>1, <3>3, <4>1 DEF PhaseOf
    <3>4. QED
      BY <3>1, <3>2, <3>3 DEF LoseRace, Reset
  <2>4. QED
    BY <2>2, <2>3
<1>7. QED
  BY <1>2, <1>4, <1>5, <1>6 DEF AM!Commit

(* A step of w that touches no object: its phase and its view, exactly.    *)
LEMMA LocalMove ==
  ASSUME IInv, NEW w \in Writer, NEW p \in PC, Goto(w, p),
         UNCHANGED <<gens, content>>,
         \A v \in Writer \ {w} : base'[v] = base[v],
         NEW x, ViewOf(w)' = x
  PROVE  AM!To(w, PhaseOf(p), x) /\ content'[Latest'] = content[Latest]
<1>1. pc' = [pc EXCEPT ![w] = p] /\ \A v \in Writer \ {w} : pc'[v] = pc[v]
  BY DEF Goto, IInv, TypeOK
<1>2. \A v \in Writer \ {w} : ViewOf(v)' = ViewOf(v)
  BY <1>1, OthersViews
<1>3. QED
  BY <1>1, <1>2, Moves DEF Latest

(* Every step is a step of the atomic manifest or leaves it as it is.      *)
LEMMA StepRefines ==
  ASSUME LagAssumption, IInv, NEW w \in Writer,
         Submit(w) \/ Serve(w) \/ PutReplyLost(w) \/ GcListFails(w) \/ FailOrCrash(w)
  PROVE  AM!Next \/ UNCHANGED AM!vars
<1> DEFINE Quiet(p) == /\ Goto(w, p) /\ p \in PC /\ pc'[w] = p
                       /\ UNCHANGED <<gens, content>>
                       /\ \A v \in Writer \ {w} : base'[v] = base[v]
<1>0. ASSUME NEW p, Quiet(p), p \notin {"get", "put"}
      PROVE  AM!To(w, PhaseOf(p), {}) /\ content'[Latest'] = content[Latest]
  BY <1>0, LocalMove DEF ViewOf
<1>1. CASE Submit(w)
  <2>1. Quiet("list")
    BY <1>1 DEF Submit, Goto, PC, IInv, TypeOK
  <2>2. AM!To(w, "pending", {}) /\ content'[Latest'] = content[Latest]
    BY <1>0, <2>1 DEF PhaseOf
  <2>3. \E r \in AM!Request : req' = [req EXCEPT ![w] = r]
    BY <1>1, OfferedAssumption DEF Submit
  <2>4. AM!Submit(w)
    BY <1>1, <2>2, <2>3 DEF AM!Submit, Submit, PhaseOf
  <2>5. QED
    BY <2>4 DEF AM!Next
<1>2. CASE LatestGen(w)
  <2>1. Quiet("get") /\ base'[w] = Latest
    BY <1>2 DEF LatestGen, Goto, PC, IInv, TypeOK
  <2>2. AM!To(w, "viewed", content[Latest]) /\ content'[Latest'] = content[Latest]
    <3>1. ViewOf(w)' = content[Latest]
      BY <1>2, <2>1 DEF LatestGen, ViewOf
    <3>2. AM!To(w, PhaseOf("get"), content[Latest]) /\ content'[Latest'] = content[Latest]
      BY <2>1, <3>1, LocalMove
    <3>3. QED
      BY <3>2 DEF PhaseOf
  <2>3. AM!View(w)
    BY <1>2, <2>2 DEF AM!View, LatestGen, PhaseOf
  <2>4. QED
    BY <2>3 DEF AM!Next
<1>3. CASE Current(w)
  <2>1. PhaseOf(pc[w]) = "viewed" /\ ViewOf(w) = content[base[w]]
    BY <1>3 DEF Current, PhaseOf, ViewOf
  <2>2. CASE req[w].kind = "load" /\ Goto(w, "done")
    <3>1. Quiet("done")
      BY <1>3, <2>2 DEF Current, Goto, PC, IInv, TypeOK
    <3>2. AM!To(w, "acked", {}) /\ content'[Latest'] = content[Latest]
      BY <1>0, <3>1 DEF PhaseOf
    <3>3. AM!Answer(w)
      BY <1>3, <2>1, <2>2, <3>2 DEF AM!Answer, Current
    <3>4. QED
      BY <3>3 DEF AM!Next
  <2>3. CASE ~AM!Admits(req[w], content[base[w]]) /\ Goto(w, "refused")
    <3>1. Quiet("refused")
      BY <1>3, <2>3 DEF Current, Goto, PC, IInv, TypeOK
    <3>2. AM!To(w, "refused", {}) /\ content'[Latest'] = content[Latest]
      BY <1>0, <3>1 DEF PhaseOf
    <3>3. AM!Refuse(w)
      BY <1>3, <2>1, <2>3, <3>2 DEF AM!Refuse, Current
    <3>4. QED
      BY <3>3 DEF AM!Next
  <2>4. CASE Goto(w, "put")
    <3>1. \A v \in Writer : PhaseOf(pc'[v]) = PhaseOf(pc[v]) /\ ViewOf(v)' = ViewOf(v)
      BY <1>3, <2>4 DEF Current, Goto, PhaseOf, ViewOf, IInv, TypeOK
    <3>2. content'[Latest'] = content[Latest] /\ req' = req
      BY <1>3 DEF Current, Latest
    <3>3. QED
      BY <3>1, <3>2 DEF AM!vars
  <2>5. QED
    BY <1>3, <2>2, <2>3, <2>4 DEF Current
<1>4. CASE Reset(w) /\ pc[w] # "idle" /\ UNCHANGED <<gens, content>>
  <2>1. Quiet("idle")
    BY <1>4 DEF Reset, Goto, PC, IInv, TypeOK
  <2>2. AM!To(w, "idle", {}) /\ content'[Latest'] = content[Latest]
    BY <1>0, <2>1 DEF PhaseOf
  <2>3. PhaseOf(pc[w]) # "idle"
    BY <1>4 DEF PhaseOf
  <2>4. AM!Finish(w)
    BY <1>4, <2>2, <2>3 DEF AM!Finish, Reset
  <2>5. QED
    BY <2>4 DEF AM!Next
<1>5. CASE PutLoses(w) /\ ~Reset(w)
  <2>1. Quiet("list") /\ req' = req
    BY <1>5 DEF PutLoses, LoseRace, Goto, PC, IInv, TypeOK
  <2>2. AM!To(w, "pending", {}) /\ content'[Latest'] = content[Latest]
    BY <1>0, <2>1 DEF PhaseOf
  <2>3. AM!Retry(w)
    BY <1>5, <2>1, <2>2 DEF AM!Retry, PutLoses, PhaseOf
  <2>4. QED
    BY <2>3 DEF AM!Next
<1>6. CASE PutWins(w) \/ PutReplyLost(w)
  BY <1>6, CommitStep DEF AM!Next
<1>7. CASE GcList(w) \/ GcListFails(w) \/ GcDelete(w) \/ GcEnds(w)
  <2>1. Latest' = Latest /\ content' = content /\ req' = req
    <3>1. CASE GcDelete(w)
      BY <3>1, DeleteKeepsLatest DEF GcDelete
    <3>2. CASE ~GcDelete(w)
      BY <1>7, <3>2 DEF GcList, GcListFails, GcEnds, Latest
    <3>3. QED
      BY <3>1, <3>2
  <2>2. \A v \in Writer : PhaseOf(pc'[v]) = PhaseOf(pc[v]) /\ ViewOf(v)' = ViewOf(v)
    BY <1>7, <2>1
    DEF GcList, GcListFails, GcDelete, GcEnds, Goto, PhaseOf, ViewOf, IInv, TypeOK
  <2>3. QED
    BY <2>1, <2>2 DEF AM!vars
<1>8. QED
  BY <1>1, <1>2, <1>3, <1>4, <1>5, <1>6, <1>7
  DEF Serve, Return, FailOrCrash, PutLoses

(* Generations, conditional puts, retries and garbage collection together  *)
(* are one atomic manifest.                                                *)
THEOREM Implements ==
  ASSUME LagAssumption
  PROVE  Spec => IsAtomicManifest
<1>1. Init => AM!Init
  <2>1. SUFFICES ASSUME Init PROVE AM!Init
    OBVIOUS
  <2>2. Latest = 0
    BY <2>1 DEF Init, Latest, LatestOf
  <2>3. content[Latest] \in SUBSET Block
    BY <2>1, <2>2, BoundAssumption DEF Init
  <2>4. \A w \in Writer : PhaseOf(pc[w]) = "idle" /\ ViewOf(w) = {}
    BY <2>1 DEF Init, PhaseOf, ViewOf
  <2>5. QED
    BY <2>1, <2>3, <2>4 DEF Init, AM!Init
<1>2. IInv /\ [Next]_vars => [AM!Next]_(AM!vars)
  <2>1. SUFFICES ASSUME IInv, [Next]_vars
                 PROVE  AM!Next \/ UNCHANGED AM!vars
    OBVIOUS
  <2>2. CASE Next
    BY <2>1, <2>2, StepRefines DEF Next
  <2>3. CASE UNCHANGED vars
    <3>1. \A w \in Writer : PhaseOf(pc'[w]) = PhaseOf(pc[w]) /\ ViewOf(w)' = ViewOf(w)
      BY <2>3 DEF vars, PhaseOf, ViewOf
    <3>2. QED
      BY <2>3, <3>1 DEF vars, AM!vars, Latest
  <2>4. QED
    BY <2>1, <2>2, <2>3
<1>3. QED
  BY <1>1, <1>2, Invariance, PTL DEF Spec, IsAtomicManifest, AM!Spec

-----------------------------------------------------------------------------
(* Induction over numbers, said of a set: a nonempty set has a least one.  *)

LEMMA LeastNat ==
  ASSUME NEW T \in SUBSET Nat, T # {}
  PROVE  \E m \in T : \A k \in T : m <= k
<1> DEFINE R == OpToRel(<, Nat)
<1>1. IsWellFoundedOn(R, Nat)  BY NatLessThanWellFounded
<1>2. PICK m \in T : \A k \in T : ~(<<k, m>> \in R)
  <2> HIDE DEF R
  <2> QED  BY <1>1, WFMin
<1>3. ASSUME NEW k \in T PROVE m <= k
  <2>1. ~(k < m)  BY <1>2 DEF OpToRel
  <2> QED  BY <2>1
<1> QED  BY <1>3

LEMMA InductionOn ==
  ASSUME NEW T, 0 \in T, \A n \in Nat : n \in T => n + 1 \in T
  PROVE  \A n \in Nat : n \in T
<1> DEFINE U == Nat \ T
<1>1. CASE U = {}  BY <1>1
<1>2. CASE U # {}
  <2>1. PICK m \in U : \A k \in U : m <= k  BY <1>2, LeastNat
  <2>2. m \in Nat /\ m # 0 /\ m - 1 \in Nat  BY <2>1
  <2>3. m - 1 \in T  BY <2>1, <2>2
  <2>4. (m - 1) + 1 \in T  BY <2>2, <2>3
  <2> QED  BY <2>1, <2>2, <2>4
<1> QED  BY <1>1, <1>2

-----------------------------------------------------------------------------
(* Ranked, for a strict total order given as a set of pairs.               *)

StrictOrder(S, R) ==
  /\ \A x \in S : <<x, x>> \notin R
  /\ \A x, y \in S : x # y => <<x, y>> \in R \/ <<y, x>> \in R
  /\ \A x, y, z \in S : <<x, y>> \in R /\ <<y, z>> \in R => <<x, z>> \in R

Below(S, R, x) == {y \in S : <<y, x>> \in R}

(* What f has of being a CHOOSE for each rank.                             *)
Ranks(f, S, R) ==
  /\ f = [i \in 1..Cardinality(S) |-> f[i]]
  /\ \A i \in 1..Cardinality(S) :
       (\E x \in S : Cardinality(Below(S, R, x)) = i - 1)
         => f[i] \in S /\ Cardinality(Below(S, R, f[i])) = i - 1

(* f lists S, without repetition, in the order R.                          *)
Lists(f, S, R) ==
  /\ f \in [1..Cardinality(S) -> S]
  /\ \A x \in S : \E i \in 1..Cardinality(S) : f[i] = x
  /\ \A i, j \in 1..Cardinality(S) : i < j <=> <<f[i], f[j]>> \in R
  /\ \A i \in 1..Cardinality(S) : Cardinality(Below(S, R, f[i])) = i - 1

LEMMA RankedLists ==
  ASSUME NEW S, NEW R, IsFiniteSet(S), StrictOrder(S, R), NEW f, Ranks(f, S, R)
  PROVE  Lists(f, S, R)
<1> DEFINE n == Cardinality(S)
           c == [x \in S |-> Cardinality(Below(S, R, x))]
<1>1. n \in Nat  BY FS_CardinalityType
<1>2. ASSUME NEW x \in S
      PROVE  IsFiniteSet(Below(S, R, x)) /\ c[x] \in Nat /\ c[x] < n
  <2>1. Below(S, R, x) \in SUBSET (S \ {x})  BY DEF Below, StrictOrder
  <2>2. IsFiniteSet(S \ {x}) /\ Cardinality(S \ {x}) = n - 1  BY FS_RemoveElement
  <2>3. IsFiniteSet(Below(S, R, x)) /\ Cardinality(Below(S, R, x)) <= n - 1
    BY <2>1, <2>2, FS_Subset
  <2>4. Cardinality(Below(S, R, x)) \in Nat  BY <2>3, FS_CardinalityType
  <2> QED  BY <1>1, <2>3, <2>4
<1>3. ASSUME NEW x \in S, NEW z \in S, <<x, z>> \in R PROVE c[x] < c[z]
  <2>1. Below(S, R, x) \in SUBSET Below(S, R, z)  BY <1>3 DEF Below, StrictOrder
  <2>2. x \in Below(S, R, z) /\ x \notin Below(S, R, x)  BY <1>3 DEF Below, StrictOrder
  <2>3. IsFiniteSet(Below(S, R, z))  BY <1>2
  <2>4. /\ Cardinality(Below(S, R, x)) <= Cardinality(Below(S, R, z))
        /\ Cardinality(Below(S, R, x)) # Cardinality(Below(S, R, z))
    BY <2>1, <2>2, <2>3, FS_Subset
  <2>5. c[x] \in Nat /\ c[z] \in Nat  BY <1>2
  <2> QED  BY <2>4, <2>5
<1>4. \A x, z \in S : c[x] = c[z] => x = z
  <2> SUFFICES ASSUME NEW x \in S, NEW z \in S, x # z PROVE c[x] # c[z]  OBVIOUS
  <2>1. c[x] < c[z] \/ c[z] < c[x]  BY <1>3 DEF StrictOrder
  <2>2. c[x] \in Nat /\ c[z] \in Nat  BY <1>2
  <2> HIDE DEF c
  <2> QED  BY <2>1, <2>2
<1>5. c \in [S -> 0..(n - 1)]
  <2>1. \A x \in S : c[x] \in 0..(n - 1)
    <3> HIDE DEF c, n
    <3> QED  BY <1>1, <1>2
  <2> QED  BY <2>1
<1>6. c \in Surjection(S, 0..(n - 1))
  <2>1. c \in Injection(S, 0..(n - 1))  BY <1>4, <1>5 DEF Injection, IsInjective
  <2>2. IsFiniteSet(0..(n - 1)) /\ Cardinality(0..(n - 1)) = n
    <3>1. 0 \in Int /\ n - 1 \in Int  BY <1>1
    <3>2. /\ IsFiniteSet(0..(n - 1))
          /\ Cardinality(0..(n - 1)) = IF 0 > n - 1 THEN 0 ELSE (n - 1) - 0 + 1
      BY <3>1, FS_Interval
    <3> HIDE DEF n
    <3> QED  BY <1>1, <3>2
  <2> HIDE DEF c
  <2> QED  BY <2>1, <2>2, FS_Injection
<1>7. \A i \in 1..n : \E x \in S : c[x] = i - 1
  <2> SUFFICES ASSUME NEW i \in 1..n PROVE \E x \in S : c[x] = i - 1  OBVIOUS
  <2>1. i - 1 \in 0..(n - 1)  BY <1>1
  <2> HIDE DEF c
  <2> QED  BY <1>6, <2>1 DEF Surjection
<1>8. \A i \in 1..n : f[i] \in S /\ c[f[i]] = i - 1
  BY <1>7 DEF Ranks
<1>9. ASSUME NEW x \in S PROVE \E i \in 1..n : f[i] = x
  <2>1. c[x] + 1 \in 1..n /\ (c[x] + 1) - 1 = c[x]
    <3> HIDE DEF c, n
    <3> QED  BY <1>1, <1>2
  <2>2. c[f[c[x] + 1]] = c[x] /\ f[c[x] + 1] \in S
    <3> HIDE DEF c, n
    <3> QED  BY <1>8, <2>1
  <2>3. f[c[x] + 1] = x
    <3> HIDE DEF c
    <3> QED  BY <1>4, <2>2
  <2> QED  BY <2>1, <2>3
<1>10. ASSUME NEW i \in 1..n, NEW j \in 1..n PROVE i < j <=> <<f[i], f[j]>> \in R
  <2>1. f[i] \in S /\ f[j] \in S /\ c[f[i]] = i - 1 /\ c[f[j]] = j - 1  BY <1>8
  <2>2. <<f[i], f[j]>> \in R => c[f[i]] < c[f[j]]
    <3> HIDE DEF c
    <3> QED  BY <1>3, <2>1
  <2>3. <<f[j], f[i]>> \in R => c[f[j]] < c[f[i]]
    <3> HIDE DEF c
    <3> QED  BY <1>3, <2>1
  <2>4. f[i] # f[j] => <<f[i], f[j]>> \in R \/ <<f[j], f[i]>> \in R
    BY <2>1 DEF StrictOrder
  <2>5. i \in Nat /\ j \in Nat  BY <1>1
  <2> HIDE DEF c
  <2> QED  BY <2>1, <2>2, <2>3, <2>4, <2>5
<1>11. f \in [1..n -> S]  BY <1>8 DEF Ranks
<1>12. \A i \in 1..n : Cardinality(Below(S, R, f[i])) = i - 1
  <2> SUFFICES ASSUME NEW i \in 1..n PROVE Cardinality(Below(S, R, f[i])) = i - 1  OBVIOUS
  <2>1. f[i] \in S /\ c[f[i]] = i - 1  BY <1>8
  <2> QED  BY <2>1
<1> QED  BY <1>9, <1>10, <1>11, <1>12 DEF Lists

-----------------------------------------------------------------------------
(* Folds over a sequence: that the recursive function a fold is made of    *)
(* exists, and what it is on the prefixes.                                 *)

LEMMA MaxIs ==
  ASSUME NEW n \in Nat, NEW T \in SUBSET (1..n), T # {}
  PROVE  Max(T) \in T /\ \A y \in T : y <= Max(T)
<1> DEFINE U == {n - t : t \in T}
<1>1. PICK m \in U : \A k \in U : m <= k
  <2>1. \A t \in T : n - t \in Nat  OBVIOUS
  <2>2. U \in SUBSET Nat /\ U # {}  BY <2>1
  <2> HIDE DEF U
  <2> QED  BY <2>2, LeastNat
<1>2. PICK x \in T : m = n - x  BY <1>1
<1>3. \A y \in T : x >= y
  <2> SUFFICES ASSUME NEW y \in T PROVE x >= y  OBVIOUS
  <2>1. n - y \in U  OBVIOUS
  <2>2. n - x <= n - y  BY <1>1, <1>2, <2>1
  <2> QED  BY <2>2
<1>4. Max(T) \in T /\ \A y \in T : Max(T) >= y  BY <1>3 DEF Max
<1> QED  BY <1>4

(* op says how the fold goes on: op[<<what is folded, the next element>>].  *)
Iterates(it, n, s, start, op) ==
  it = [T \in SUBSET (1..n) |->
          IF T = {} THEN start ELSE op[<<it[T \ {Max(T)}], s[Max(T)]>>]]

LEMMA IterationExists ==
  ASSUME NEW N \in Nat, NEW V, NEW X, NEW start \in V, NEW op \in [V \X X -> V],
         NEW s \in [1..N -> X]
  PROVE  \E it \in [SUBSET (1..N) -> V] : Iterates(it, N, s, start, op)
<1> DEFINE Reached(n) == \E it \in [SUBSET (1..n) -> V] : Iterates(it, n, s, start, op)
           Good == {n \in Nat : n <= N => Reached(n)}
<1>1. 0 \in Good
  <2> DEFINE it == [T \in SUBSET (1..0) |-> start]
  <2>1. it \in [SUBSET (1..0) -> V]  OBVIOUS
  <2>2. \A T \in SUBSET (1..0) : T = {}  OBVIOUS
  <2>3. Iterates(it, 0, s, start, op)  BY <2>2 DEF Iterates
  <2> HIDE DEF it
  <2> QED  BY <2>1, <2>3
<1>2. ASSUME NEW n \in Nat, n \in Good PROVE n + 1 \in Good
  <2> SUFFICES ASSUME n + 1 <= N PROVE Reached(n + 1)
    <3> HIDE DEF Reached
    <3> QED  OBVIOUS
  <2>1. PICK it \in [SUBSET (1..n) -> V] : Iterates(it, n, s, start, op)
    <3>1. Reached(n)
      <4> HIDE DEF Reached
      <4> QED  BY <1>2
    <3> QED  BY <3>1
  <2> DEFINE new1 == [T \in SUBSET (1..(n + 1)) |->
                      IF n + 1 \in T THEN op[<<it[T \ {n + 1}], s[n + 1]>>] ELSE it[T]]
  <2>2. \A T \in SUBSET (1..(n + 1)) : T \ {n + 1} \in SUBSET (1..n)  OBVIOUS
  <2>3. \A T \in SUBSET (1..(n + 1)) : n + 1 \notin T => T \in SUBSET (1..n)  OBVIOUS
  <2>4. s[n + 1] \in X  OBVIOUS
  <2>5. new1 \in [SUBSET (1..(n + 1)) -> V]  BY <2>2, <2>3, <2>4
  <2>6. ASSUME NEW T \in SUBSET (1..(n + 1)), T # {}
        PROVE  new1[T] = op[<<new1[T \ {Max(T)}], s[Max(T)]>>]
    <3>1. Max(T) \in T /\ \A y \in T : y <= Max(T)
      <4>1. n + 1 \in Nat  OBVIOUS
      <4> QED  BY <2>6, <4>1, MaxIs
    <3>2. CASE n + 1 \in T
      <4>1. Max(T) = n + 1
        <5>1. Max(T) \in 1..(n + 1) /\ n + 1 <= Max(T)  BY <3>1, <3>2
        <5> QED  BY <5>1
      <4>2. T \ {n + 1} \in SUBSET (1..(n + 1)) /\ n + 1 \notin T \ {n + 1}  OBVIOUS
      <4>3. new1[T \ {n + 1}] = it[T \ {n + 1}]  BY <4>2
      <4>4. new1[T] = op[<<it[T \ {n + 1}], s[n + 1]>>]  BY <3>2
      <4> HIDE DEF new1
      <4> QED  BY <4>1, <4>3, <4>4
    <3>3. CASE n + 1 \notin T
      <4>1. T \in SUBSET (1..n)  BY <2>3, <3>3
      <4>2. it[T] = op[<<it[T \ {Max(T)}], s[Max(T)]>>]  BY <2>1, <2>6, <4>1 DEF Iterates
      <4>3. T \ {Max(T)} \in SUBSET (1..(n + 1)) /\ n + 1 \notin T \ {Max(T)}  BY <3>3
      <4>4. new1[T \ {Max(T)}] = it[T \ {Max(T)}]  BY <4>3
      <4>5. new1[T] = it[T]  BY <3>3
      <4> HIDE DEF new1
      <4> QED  BY <4>2, <4>4, <4>5
    <3> QED  BY <3>2, <3>3
  <2>7. new1[{}] = start
    <3>1. it[{}] = start  BY <2>1 DEF Iterates
    <3>2. {} \in SUBSET (1..(n + 1)) /\ n + 1 \notin {}  OBVIOUS
    <3> QED  BY <3>1, <3>2
  <2>8. Iterates(new1, n + 1, s, start, op)
    <3> HIDE DEF new1
    <3> QED  BY <2>5, <2>6, <2>7 DEF Iterates
  <2> HIDE DEF new1
  <2> QED  BY <2>5, <2>8
<1>3. N \in Good
  <2> HIDE DEF Good
  <2> QED  BY <1>1, <1>2, InductionOn
<1>4. Reached(N)
  <2> HIDE DEF Reached
  <2> QED  BY <1>3
<1> QED  BY <1>4

(* A sum, unfolded.                                                        *)
Sums(g, n, s) ==
  /\ g \in [0..n -> Nat] /\ g[0] = 0
  /\ \A k \in 1..n : g[k] = g[k - 1] + s[k]

LEMMA SumUnfolds ==
  ASSUME NEW n \in Nat, NEW s \in [1..n -> Nat]
  PROVE  \E g : Sums(g, n, s) /\ SumSeq(s) = g[n]
<1> DEFINE op == [p \in Nat \X Nat |-> p[1] + p[2]]
           F(it) == [T \in SUBSET (1..n) |->
                       IF T = {} THEN 0 ELSE it[T \ {Max(T)}] + s[Max(T)]]
           c == CHOOSE it : it = F(it)
<1>1. op \in [Nat \X Nat -> Nat] /\ \A a, b \in Nat : op[<<a, b>>] = a + b  OBVIOUS
<1>2. PICK it0 \in [SUBSET (1..n) -> Nat] : Iterates(it0, n, s, 0, op)
  <2> HIDE DEF op
  <2>1. 0 \in Nat  OBVIOUS
  <2> QED  BY <1>1, <2>1, IterationExists
<1>3. it0 = F(it0)
  <2>1. ASSUME NEW T \in SUBSET (1..n), T # {}
        PROVE  op[<<it0[T \ {Max(T)}], s[Max(T)]>>] = it0[T \ {Max(T)}] + s[Max(T)]
    <3>1. Max(T) \in T  BY <2>1, MaxIs
    <3>2. it0[T \ {Max(T)}] \in Nat /\ s[Max(T)] \in Nat  BY <3>1
    <3> HIDE DEF op
    <3> QED  BY <1>1, <3>2
  <2> HIDE DEF op
  <2> QED  BY <1>2, <2>1 DEF Iterates
<1>4. c = F(c)
  <2>1. \E it : it = F(it)  BY <1>3
  <2> HIDE DEF F
  <2> QED  BY <2>1
<1>5. SumSeq(s) = c[1..n]
  <2>1. DOMAIN s = 1..n  OBVIOUS
  <2> QED  BY <2>1 DEF SumSeq, FoldLeft, MapThenFoldSet
<1>6. /\ c[1..0] = 0
      /\ \A k \in 1..n : c[1..k] = c[1..(k - 1)] + s[k]
  <2>1. 1..0 = {} /\ {} \in SUBSET (1..n)  OBVIOUS
  <2>2. c[1..0] = 0  
    <3> HIDE DEF c
    <3> QED  BY <1>4, <2>1
  <2>3. ASSUME NEW k \in 1..n PROVE c[1..k] = c[1..(k - 1)] + s[k]
    <3>1. 1..k \in SUBSET (1..n) /\ 1..k # {} /\ k \in Nat
      <4> HIDE DEF c
      <4> QED  OBVIOUS
    <3>2. Max(1..k) = k
      <4>1. Max(1..k) \in 1..k /\ \A y \in 1..k : y <= Max(1..k)  BY <3>1, MaxIs
      <4> QED  BY <4>1
    <3>3. (1..k) \ {k} = 1..(k - 1)  OBVIOUS
    <3> HIDE DEF c
    <3> QED  BY <1>4, <3>1, <3>2, <3>3
  <2> QED  BY <2>2, <2>3
<1> DEFINE g == [k \in 0..n |-> c[1..k]]
<1>7. g[0] = 0 /\ g[n] = SumSeq(s) /\ \A k \in 1..n : g[k] = g[k - 1] + s[k]
  <2> HIDE DEF c
  <2>1. \A k \in 1..n : k \in 0..n /\ k - 1 \in 0..n  OBVIOUS
  <2> QED  BY <1>5, <1>6, <2>1
<1>8. \A k \in 0..n : g[k] \in Nat
  <2> DEFINE Good == {k \in Nat : k <= n => g[k] \in Nat}
  <2>1. 0 \in Good  BY <1>7
  <2>2. ASSUME NEW k \in Nat, k \in Good PROVE k + 1 \in Good
    <3> SUFFICES ASSUME k + 1 <= n PROVE g[k + 1] \in Nat  OBVIOUS
    <3>1. k + 1 \in 1..n /\ (k + 1) - 1 = k  OBVIOUS
    <3>2. g[k] \in Nat  BY <2>2
    <3>3. g[k + 1] = g[(k + 1) - 1] + s[k + 1]
      <4> HIDE DEF g
      <4> QED  BY <1>7, <3>1
    <3> HIDE DEF g
    <3> QED  BY <3>1, <3>2, <3>3
  <2>3. \A k \in Nat : k \in Good
    <3> HIDE DEF Good
    <3> QED  BY <2>1, <2>2, InductionOn
  <2> HIDE DEF g
  <2> QED  BY <2>3
<1>9. g \in [0..n -> Nat]
  <2>1. g = [k \in 0..n |-> g[k]]  OBVIOUS
  <2> HIDE DEF g
  <2> QED  BY <1>8, <2>1
<1> HIDE DEF g
<1> QED  BY <1>7, <1>9 DEF Sums

(* The classes of a finite set, counted one by one, make up the set.       *)
Class(M, f, i) == {x \in M : f[x] = i}

LEMMA SumOfClasses ==
  ASSUME NEW M, IsFiniteSet(M), NEW n \in Nat, NEW f \in [M -> 1..n],
         NEW s \in [1..n -> Nat],
         \A i \in 1..n : s[i] = Cardinality(Class(M, f, i))
  PROVE  SumSeq(s) = Cardinality(M)
<1>1. PICK g : Sums(g, n, s) /\ SumSeq(s) = g[n]  BY SumUnfolds
<1> DEFINE Upto(k) == {x \in M : f[x] <= k}
           Good == {k \in Nat : k <= n => g[k] = Cardinality(Upto(k))}
<1>2. 0 \in Good
  <2>1. Upto(0) = {}  OBVIOUS
  <2> QED  BY <1>1, <2>1, FS_EmptySet DEF Sums
<1>3. ASSUME NEW k \in Nat, k \in Good PROVE k + 1 \in Good
  <2> SUFFICES ASSUME k + 1 <= n PROVE g[k + 1] = Cardinality(Upto(k + 1))
    <3> HIDE DEF Upto
    <3> QED  OBVIOUS
  <2> DEFINE C == {x \in M : f[x] = k + 1}
  <2>1. g[k] = Cardinality(Upto(k))
    <3> HIDE DEF Upto
    <3> QED  BY <1>3
  <2>2. g[k + 1] = g[k] + s[k + 1]
    <3>1. k + 1 \in 1..n /\ (k + 1) - 1 = k  OBVIOUS
    <3> QED  BY <1>1, <3>1 DEF Sums
  <2>3. s[k + 1] = Cardinality(C)
    <3>1. k + 1 \in 1..n /\ Class(M, f, k + 1) = C  BY DEF Class
    <3> HIDE DEF C
    <3> QED  BY <3>1
  <2>4. Upto(k + 1) = Upto(k) \cup C
    <3>1. \A x \in M : f[x] \in Nat  OBVIOUS
    <3> QED  BY <3>1
  <2>5. Upto(k) \cap C = {}
    <3>1. \A x \in M : f[x] \in Nat  OBVIOUS
    <3> QED  BY <3>1
  <2>6. IsFiniteSet(Upto(k)) /\ IsFiniteSet(C)  BY FS_Subset
  <2>7. /\ Cardinality(Upto(k)) \in Nat /\ Cardinality(C) \in Nat
        /\ Cardinality({}) = 0
    BY <2>6, FS_CardinalityType, FS_EmptySet
  <2>8. Cardinality(Upto(k) \cup C)
          = Cardinality(Upto(k)) + Cardinality(C) - Cardinality(Upto(k) \cap C)
    <3> HIDE DEF Upto, C
    <3> QED  BY <2>6, FS_Union
  <2> HIDE DEF Upto, C
  <2>9. Cardinality(Upto(k) \cap C) = 0  BY <2>5, <2>7
  <2>10. Cardinality(Upto(k) \cup C) = Cardinality(Upto(k)) + Cardinality(C)
    BY <2>7, <2>8, <2>9
  <2>11. Cardinality(Upto(k + 1)) = Cardinality(Upto(k)) + Cardinality(C)  BY <2>4, <2>10
  <2> QED  BY <2>1, <2>2, <2>3, <2>11
<1>4. n \in Good
  <2> HIDE DEF Good
  <2> QED  BY <1>2, <1>3, InductionOn
<1>5. Upto(n) = M  OBVIOUS
<1> HIDE DEF Upto
<1> QED  BY <1>1, <1>4, <1>5

(* Sequences laid end to end: g[i - 1] + j is where the j-th element of    *)
(* the i-th one goes.                                                      *)
Joins(F, g, n, ss) ==
  /\ Sums(g, n, [i \in 1..n |-> Len(ss[i])])
  /\ Len(F) = g[n]
  /\ \A i \in 1..n : \A j \in 1..Len(ss[i]) :
       g[i - 1] + j \in 1..Len(F) /\ F[g[i - 1] + j] = ss[i][j]
  /\ \A p \in 1..Len(F) : \E i \in 1..n : \E j \in 1..Len(ss[i]) : p = g[i - 1] + j

LEMMA FlattenJoins ==
  ASSUME NEW n \in Nat, NEW X, NEW ss \in [1..n -> Seq(X)]
  PROVE  FlattenSeq(ss) \in Seq(X) /\ \E g : Joins(FlattenSeq(ss), g, n, ss)
<1> DEFINE lens == [i \in 1..n |-> Len(ss[i])]
           F(m, fl) == [i \in 1..m |-> IF i = 1 THEN ss[i] ELSE fl[i - 1] \o ss[i]]
           Reached(m) == \E fl \in [1..m -> Seq(X)] : fl = F(m, fl)
           Good == {m \in Nat : m <= n => Reached(m)}
           c == CHOOSE fl : fl = F(n, fl)
<1>1. Len(ss) = n /\ DOMAIN ss = 1..n  OBVIOUS
<1>2. PICK g : Sums(g, n, lens)
  <2>1. lens \in [1..n -> Nat]  OBVIOUS
  <2> HIDE DEF lens
  <2> QED  BY <2>1, SumUnfolds
<1>3. CASE n = 0
  <2>1. FlattenSeq(ss) = ss  BY <1>1, <1>3 DEF FlattenSeq
  <2>2. ss \in Seq(X)  BY <1>1, <1>3
  <2>3. Joins(ss, g, n, ss)
    <3>1. g[0] = 0  BY <1>2 DEF Sums
    <3>2. 1..n = {} /\ Len(ss) = 0  BY <1>1, <1>3
    <3> QED  BY <1>2, <1>3, <3>1, <3>2 DEF Joins
  <2> QED  BY <2>1, <2>2, <2>3
<1>4. CASE n # 0
  <2>1. 0 \in Good
    <3> DEFINE e == [i \in 1..0 |-> <<>>]
    <3>1. e \in [1..0 -> Seq(X)] /\ e = F(0, e)  OBVIOUS
    <3> HIDE DEF e, F
    <3>2. Reached(0)  BY <3>1
    <3> HIDE DEF Reached
    <3> QED  BY <3>2
  <2>2. ASSUME NEW m \in Nat, m \in Good PROVE m + 1 \in Good
    <3> SUFFICES ASSUME m + 1 <= n PROVE Reached(m + 1)
      <4> HIDE DEF Reached
      <4> QED  OBVIOUS
    <3>1. PICK fl \in [1..m -> Seq(X)] : fl = F(m, fl)
      <4>1. Reached(m)
        <5> HIDE DEF Reached
        <5> QED  BY <2>2
      <4> HIDE DEF F
      <4> QED  BY <4>1
    <3> DEFINE end == IF m = 0 THEN ss[1] ELSE fl[m] \o ss[m + 1]
               more == [i \in 1..(m + 1) |-> IF i = m + 1 THEN end ELSE fl[i]]
    <3>2. end \in Seq(X)
      <4>1. ss[m + 1] \in Seq(X)  OBVIOUS
      <4>2. m # 0 => fl[m] \in Seq(X)  OBVIOUS
      <4> QED  BY <4>1, <4>2
    <3>3. more \in [1..(m + 1) -> Seq(X)]
      <4> HIDE DEF end
      <4> QED  BY <3>2
    <3>4. ASSUME NEW i \in 1..(m + 1)
          PROVE  more[i] = IF i = 1 THEN ss[i] ELSE more[i - 1] \o ss[i]
      <4>1. CASE i = m + 1
        <5>1. CASE m = 0  BY <4>1, <5>1
        <5>2. CASE m # 0
          <6>1. more[m] = fl[m]  BY <5>2
          <6>2. more[i] = fl[m] \o ss[m + 1] /\ i # 1 /\ i - 1 = m
            <7>1. end = fl[m] \o ss[m + 1]  BY <5>2
            <7> HIDE DEF end
            <7>2. more[i] = end  BY <4>1
            <7>3. i # 1 /\ i - 1 = m  BY <4>1, <5>2
            <7> HIDE DEF more
            <7> QED  BY <7>1, <7>2, <7>3
          <6> HIDE DEF more
          <6> QED  BY <4>1, <6>1, <6>2
        <5> QED  BY <5>1, <5>2
      <4>2. CASE i # m + 1
        <5>1. i \in 1..m /\ more[i] = fl[i]  BY <4>2
        <5>2. fl[i] = IF i = 1 THEN ss[i] ELSE fl[i - 1] \o ss[i]  BY <3>1, <5>1
        <5>3. i # 1 => more[i - 1] = fl[i - 1]  BY <4>2
        <5> HIDE DEF more
        <5> QED  BY <5>1, <5>2, <5>3
      <4> QED  BY <4>1, <4>2
    <3>5. more = F(m + 1, more)
      <4> HIDE DEF end
      <4>1. more = [i \in 1..(m + 1) |-> more[i]]  OBVIOUS
      <4> HIDE DEF more
      <4> QED  BY <3>4, <4>1
    <3> HIDE DEF F, more
    <3> QED  BY <3>3, <3>5
  <2>3. \E fl \in [1..n -> Seq(X)] : fl = F(n, fl)
    <3>1. n \in Good
      <4> HIDE DEF Good
      <4> QED  BY <2>1, <2>2, InductionOn
    <3>2. Reached(n)
      <4> HIDE DEF Reached
      <4> QED  BY <3>1
    <3> HIDE DEF F
    <3> QED  BY <3>2
  <2>4. c = F(n, c)
    <3> HIDE DEF F
    <3> QED  BY <2>3
  <2>5. FlattenSeq(ss) = c[n]
    <3>1. Len(ss) # 0  BY <1>1, <1>4
    <3> QED  BY <1>1, <3>1 DEF FlattenSeq
  <2>6. /\ c[1] = ss[1]
        /\ \A i \in 1..n : i # 1 => c[i] = c[i - 1] \o ss[i]
    <3> HIDE DEF c
    <3>1. 1 \in 1..n  BY <1>4
    <3> QED  BY <2>4, <3>1
  <2> DEFINE Whole(k, C) ==
        /\ C \in Seq(X) /\ Len(C) = g[k]
        /\ \A i \in 1..k : \A j \in 1..Len(ss[i]) :
             g[i - 1] + j \in 1..g[k] /\ C[g[i - 1] + j] = ss[i][j]
        /\ \A p \in 1..g[k] : \E i \in 1..k : \E j \in 1..Len(ss[i]) : p = g[i - 1] + j
  <2>7. Whole(1, c[1])
    <3>1. g[0] = 0 /\ g[1] = g[0] + lens[1] /\ ss[1] \in Seq(X) /\ g[1] = Len(ss[1])
      <4>1. 1 \in 1..n /\ 1 - 1 = 0  BY <1>4
      <4> QED  BY <1>2, <4>1 DEF Sums
    <3>2. \A j \in 1..Len(ss[1]) : g[1 - 1] + j = j  BY <3>1
    <3> HIDE DEF c
    <3> QED  BY <2>6, <3>1, <3>2
  <2>8. ASSUME NEW k \in Nat \ {0}, k + 1 <= n, Whole(k, c[k]) PROVE Whole(k + 1, c[k + 1])
    <3> DEFINE l == Len(ss[k + 1])
    <3>1. k + 1 \in 1..n /\ k + 1 # 1 /\ (k + 1) - 1 = k /\ k \in 0..n
      <4> HIDE DEF c, Whole
      <4> QED  BY <2>8
    <3>2. c[k + 1] = c[k] \o ss[k + 1]
      <4> HIDE DEF c, Whole
      <4> QED  BY <2>6, <3>1
    <3>3. g[k + 1] = g[k] + l /\ g[k] \in Nat /\ l \in Nat /\ ss[k + 1] \in Seq(X)
      <4>1. ss[k + 1] \in Seq(X) /\ l \in Nat  BY <3>1
      <4>2. lens[k + 1] = l  BY <3>1
      <4> HIDE DEF lens, l
      <4>3. g[k] \in Nat  BY <1>2, <3>1 DEF Sums
      <4>4. g[k + 1] = g[k] + lens[k + 1]  BY <1>2, <3>1 DEF Sums
      <4> QED  BY <4>1, <4>2, <4>3, <4>4
    <3>4. c[k] \in Seq(X) /\ Len(c[k]) = g[k]  BY <2>8
    <3>5. /\ c[k + 1] \in Seq(X) /\ Len(c[k + 1]) = g[k + 1]
          /\ \A p \in 1..g[k] : c[k + 1][p] = c[k][p]
          /\ \A j \in 1..l : c[k + 1][g[k] + j] = ss[k + 1][j]
      <4> HIDE DEF c
      <4>1. c[k] \o ss[k + 1] \in Seq(X) /\ Len(c[k] \o ss[k + 1]) = Len(c[k]) + Len(ss[k + 1])
        BY <3>3, <3>4, ConcatProperties
      <4>2. \A p \in 1..(Len(c[k]) + Len(ss[k + 1])) :
              (c[k] \o ss[k + 1])[p] = IF p <= Len(c[k]) THEN c[k][p] ELSE ss[k + 1][p - Len(c[k])]
        BY <3>3, <3>4, ConcatProperties
      <4>3. Len(ss[k + 1]) = l  OBVIOUS
      <4> HIDE DEF l
      <4>4. ASSUME NEW p \in 1..g[k] PROVE c[k + 1][p] = c[k][p]
        <5>1. p \in 1..(g[k] + l) /\ p <= g[k]  BY <3>3
        <5> QED  BY <3>2, <3>4, <4>2, <4>3, <5>1
      <4>5. ASSUME NEW j \in 1..l PROVE c[k + 1][g[k] + j] = ss[k + 1][j]
        <5>1. g[k] + j \in 1..(g[k] + l) /\ ~(g[k] + j <= g[k]) /\ (g[k] + j) - g[k] = j
          BY <3>3
        <5> QED  BY <3>2, <3>4, <4>2, <4>3, <5>1
      <4> QED  BY <3>2, <3>3, <3>4, <4>1, <4>3, <4>4, <4>5
    <3>6. ASSUME NEW i \in 1..(k + 1), NEW j \in 1..Len(ss[i])
          PROVE  g[i - 1] + j \in 1..g[k + 1] /\ c[k + 1][g[i - 1] + j] = ss[i][j]
      <4> HIDE DEF c, l
      <4>1. CASE i = k + 1
        <5>1. Len(ss[i]) = l  BY <4>1 DEF l
        <5>2. g[i - 1] = g[k] /\ j \in 1..l  BY <3>1, <4>1, <5>1
        <5>3. g[k] + j \in 1..g[k + 1]
          <6> HIDE DEF Whole
          <6>1. j \in Nat /\ j >= 1 /\ j <= l  BY <3>3, <5>2
          <6> QED  BY <3>3, <6>1
        <5>4. c[k + 1][g[k] + j] = ss[i][j]  BY <3>5, <4>1, <5>2
        <5> QED  BY <5>2, <5>3, <5>4
      <4>2. CASE i # k + 1
        <5>1. i \in 1..k  BY <4>2
        <5>2. g[i - 1] + j \in 1..g[k] /\ c[k][g[i - 1] + j] = ss[i][j]  BY <2>8, <5>1
        <5>3. g[i - 1] + j \in 1..g[k + 1]
          <6> HIDE DEF Whole
          <6>1. PICK p \in 1..g[k] : p = g[i - 1] + j  BY <5>2
          <6> QED  BY <3>3, <6>1
        <5>4. c[k + 1][g[i - 1] + j] = c[k][g[i - 1] + j]  BY <3>5, <5>2
        <5> QED  BY <5>2, <5>3, <5>4
      <4> QED  BY <4>1, <4>2
    <3>7. ASSUME NEW p \in 1..g[k + 1]
          PROVE  \E i \in 1..(k + 1) : \E j \in 1..Len(ss[i]) : p = g[i - 1] + j
      <4> HIDE DEF c
      <4>1. CASE p <= g[k]
        <5>1. p \in 1..g[k]  BY <3>3, <4>1
        <5>2. PICK i \in 1..k : \E j \in 1..Len(ss[i]) : p = g[i - 1] + j  BY <2>8, <5>1
        <5>3. i \in 1..(k + 1)  OBVIOUS
        <5> QED  BY <5>2, <5>3
      <4>2. CASE p > g[k]
        <5>1. p - g[k] \in 1..l /\ p = g[k] + (p - g[k])
          <6> HIDE DEF l, Whole
          <6>1. PICK a \in Nat : a = g[k]  BY <3>3
          <6>2. p \in 1..(a + l)  BY <3>3, <6>1
          <6> QED  BY <3>3, <4>2, <6>1, <6>2
        <5> QED  BY <3>1, <5>1
      <4> QED  BY <3>3, <4>1, <4>2
    <3> HIDE DEF c
    <3> QED  BY <3>5, <3>6, <3>7
  <2>9. Whole(n, c[n])
    <3> DEFINE Fine == {k \in Nat : k + 1 <= n => Whole(k + 1, c[k + 1])}
    <3> HIDE DEF Whole, c
    <3>1. 0 \in Fine  BY <2>7
    <3>2. ASSUME NEW k \in Nat, k \in Fine PROVE k + 1 \in Fine
      <4> SUFFICES ASSUME (k + 1) + 1 <= n PROVE Whole((k + 1) + 1, c[(k + 1) + 1])  OBVIOUS
      <4>1. k + 1 \in Nat \ {0} /\ k + 1 <= n  OBVIOUS
      <4>2. Whole(k + 1, c[k + 1])  BY <3>2, <4>1
      <4> QED  BY <2>8, <4>1, <4>2
    <3>3. n - 1 \in Nat /\ (n - 1) + 1 = n  BY <1>4
    <3>4. n - 1 \in Fine
      <4> HIDE DEF Fine
      <4> QED  BY <3>1, <3>2, <3>3, InductionOn
    <3> QED  BY <3>3, <3>4
  <2>10. Joins(c[n], g, n, ss)
    <3> HIDE DEF c
    <3> QED  BY <1>2, <2>9 DEF Joins
  <2> HIDE DEF c
  <2> QED  BY <2>5, <2>9, <2>10
<1> QED  BY <1>3, <1>4

-----------------------------------------------------------------------------
(* A stable sort by a key.                                                 *)

KeyOrder(n, key) ==
  {p \in (1..n) \X (1..n) :
     key[p[1]] < key[p[2]] \/ (key[p[1]] = key[p[2]] /\ p[1] < p[2])}

LEMMA KeyOrderStrict ==
  ASSUME NEW n \in Nat, NEW key \in [1..n -> Int]
  PROVE  StrictOrder(1..n, KeyOrder(n, key))
BY DEF StrictOrder, KeyOrder

(* o is a way to put 1..n in the order of the key.                         *)
Sorts(o, n, key) ==
  /\ o \in [1..n -> 1..n]
  /\ \A x \in 1..n : \E i \in 1..n : o[i] = x
  /\ \A i, j \in 1..n : o[i] = o[j] => i = j
  /\ \A i, j \in 1..n : i <= j => key[o[i]] <= key[o[j]]

LEMMA OrderSorts ==
  ASSUME NEW n \in Nat, NEW key \in [1..n -> Int], NEW o, Ranks(o, 1..n, KeyOrder(n, key))
  PROVE  Sorts(o, n, key)
<1> DEFINE R == KeyOrder(n, key)
<1>1. IsFiniteSet(1..n) /\ Cardinality(1..n) = n
  <2>1. 1 \in Int /\ n \in Int  OBVIOUS
  <2>2. IsFiniteSet(1..n) /\ Cardinality(1..n) = IF 1 > n THEN 0 ELSE n - 1 + 1
    BY <2>1, FS_Interval
  <2> QED  BY <2>2
<1>2. Lists(o, 1..n, R)  BY <1>1, KeyOrderStrict, RankedLists
<1>3. /\ o \in [1..n -> 1..n] /\ \A x \in 1..n : \E i \in 1..n : o[i] = x
      /\ \A i, j \in 1..n : i < j <=> <<o[i], o[j]>> \in R
  BY <1>1, <1>2 DEF Lists
<1>4. \A i, j \in 1..n : i < j => o[i] # o[j] /\ key[o[i]] <= key[o[j]]
  <2> SUFFICES ASSUME NEW i \in 1..n, NEW j \in 1..n, i < j
               PROVE  o[i] # o[j] /\ key[o[i]] <= key[o[j]]
    OBVIOUS
  <2>1. <<o[i], o[j]>> \in R /\ o[i] \in 1..n /\ o[j] \in 1..n  BY <1>3
  <2> QED  BY <2>1 DEF KeyOrder
<1>5. \A i, j \in 1..n : o[i] = o[j] => i = j
  <2> HIDE DEF R
  <2> QED  BY <1>4
<1>6. \A i, j \in 1..n : i <= j => key[o[i]] <= key[o[j]]
  <2> SUFFICES ASSUME NEW i \in 1..n, NEW j \in 1..n, i <= j PROVE key[o[i]] <= key[o[j]]
    OBVIOUS
  <2>1. CASE i = j
    <3>1. o[i] \in 1..n  BY <1>3
    <3> QED  BY <2>1, <3>1
  <2>2. CASE i < j  BY <1>4, <2>2
  <2> QED  BY <2>1, <2>2
<1> QED  BY <1>3, <1>5, <1>6 DEF Sorts

LEMMA SortedByTime ==
  ASSUME NEW n \in Nat, NEW X, NEW s \in [1..n -> X], \A x \in X : x.ts \in Int
  PROVE  \E o : /\ Sorts(o, n, [i \in 1..n |-> s[i].ts])
                /\ StableSort(s, LAMBDA r : r.ts) = [i \in 1..n |-> s[o[i]]]
<1> DEFINE key == [i \in 1..n |-> s[i].ts]
           o == Ranked(DOMAIN s, LAMBDA i, j : \/ s[i].ts < s[j].ts
                                               \/ s[i].ts = s[j].ts /\ i < j)
<1>1. StableSort(s, LAMBDA r : r.ts) = [i \in 1..n |-> s[o[i]]]  BY DEF StableSort
<1>2. key \in [1..n -> Int]  OBVIOUS
<1> DEFINE First(x) == {y \in DOMAIN s : s[y].ts < s[x].ts \/ (s[y].ts = s[x].ts /\ y < x)}
<1>3. \A x \in 1..n : First(x) = Below(1..n, KeyOrder(n, key), x)
  BY DEF Below, KeyOrder
<1>4. Ranks(o, 1..n, KeyOrder(n, key))
  <2>1. DOMAIN s = 1..n  OBVIOUS
  <2>2. o = [i \in 1..Cardinality(DOMAIN s) |->
               CHOOSE x \in DOMAIN s : Cardinality(First(x)) = i - 1]
    BY DEF Ranked
  <2> HIDE DEF o, First, key
  <2>3. o = [i \in 1..Cardinality(1..n) |-> CHOOSE x \in 1..n : Cardinality(First(x)) = i - 1]
    BY <2>1, <2>2
  <2>4. ASSUME NEW i \in 1..Cardinality(1..n),
               \E x \in 1..n : Cardinality(Below(1..n, KeyOrder(n, key), x)) = i - 1
        PROVE  o[i] \in 1..n /\ Cardinality(Below(1..n, KeyOrder(n, key), o[i])) = i - 1
    <3>1. \E x \in 1..n : Cardinality(First(x)) = i - 1  BY <1>3, <2>4
    <3>2. o[i] = CHOOSE x \in 1..n : Cardinality(First(x)) = i - 1  BY <2>3
    <3>3. o[i] \in 1..n /\ Cardinality(First(o[i])) = i - 1  BY <3>1, <3>2
    <3> QED  BY <1>3, <3>3
  <2>5. o = [i \in 1..Cardinality(1..n) |-> o[i]]  BY <2>3
  <2> QED  BY <2>4, <2>5 DEF Ranks
<1>5. Sorts(o, n, key)
  <2> HIDE DEF o, key
  <2> QED  BY <1>2, <1>4, OrderSorts
<1> HIDE DEF o
<1> QED  BY <1>1, <1>5

(* The elements at some places of a sequence, each once.                   *)
Picks(t, o, s, places) ==
  /\ o \in [1..Cardinality(places) -> places]
  /\ \A x \in places : \E i \in 1..Cardinality(places) : o[i] = x
  /\ \A i, j \in 1..Cardinality(places) : o[i] = o[j] => i = j
  /\ t = [i \in 1..Cardinality(places) |-> s[o[i]]]

LEMMA PlacesAt ==
  ASSUME NEW n \in Nat, NEW X, NEW s \in [1..n -> X], NEW places \in SUBSET (1..n)
  PROVE  Cardinality(places) \in Nat /\ \E o : Picks(AtPlaces(s, places), o, s, places)
<1> DEFINE m == Cardinality(places)
           o == Ranked(places, LAMBDA i, j : i < j)
           R == {p \in places \X places : p[1] < p[2]}
           First(x) == {y \in places : y < x}
<1>1. IsFiniteSet(places) /\ m \in Nat
  <2>1. IsFiniteSet(1..n)
    <3>1. 1 \in Int /\ n \in Int  OBVIOUS
    <3> QED  BY <3>1, FS_Interval
  <2> QED  BY <2>1, FS_Subset, FS_CardinalityType
<1>2. StrictOrder(places, R)  BY DEF StrictOrder
<1>3. \A x \in places : First(x) = Below(places, R, x)  BY DEF Below
<1>4. o = [i \in 1..m |-> CHOOSE x \in places : Cardinality(First(x)) = i - 1]
  BY DEF Ranked
<1>5. AtPlaces(s, places) = [i \in 1..m |-> s[o[i]]]
  <2>1. AtPlaces(s, places) = [i \in DOMAIN o |-> s[o[i]]]  BY DEF AtPlaces
  <2>2. DOMAIN o = 1..m
    <3> HIDE DEF o, First, m
    <3> QED  BY <1>4
  <2> HIDE DEF o
  <2> QED  BY <2>1, <2>2
<1> HIDE DEF o, First, R
<1>6. Ranks(o, places, R)
  <2>4. ASSUME NEW i \in 1..m, \E x \in places : Cardinality(Below(places, R, x)) = i - 1
        PROVE  o[i] \in places /\ Cardinality(Below(places, R, o[i])) = i - 1
    <3>1. \E x \in places : Cardinality(First(x)) = i - 1  BY <1>3, <2>4
    <3>2. o[i] = CHOOSE x \in places : Cardinality(First(x)) = i - 1  BY <1>4
    <3>3. o[i] \in places /\ Cardinality(First(o[i])) = i - 1  BY <3>1, <3>2
    <3> QED  BY <1>3, <3>3
  <2>5. o = [i \in 1..m |-> o[i]]  BY <1>4
  <2> QED  BY <2>4, <2>5 DEF Ranks
<1>7. Lists(o, places, R)  BY <1>1, <1>2, <1>6, RankedLists
<1>8. \A i, j \in 1..m : o[i] = o[j] => i = j
  <2> SUFFICES ASSUME NEW i \in 1..m, NEW j \in 1..m, o[i] = o[j] PROVE i = j  OBVIOUS
  <2>1. <<o[i], o[i]>> \notin R /\ <<o[j], o[j]>> \notin R  BY <1>2, <1>7 DEF Lists, StrictOrder
  <2>2. ~(i < j) /\ ~(j < i)
    <3>1. (i < j <=> <<o[i], o[j]>> \in R) /\ (j < i <=> <<o[j], o[i]>> \in R)
      BY <1>7 DEF Lists
    <3> QED  BY <2>1, <3>1
  <2> QED  BY <1>1, <2>2
<1>9. /\ o \in [1..m -> places] /\ \A x \in places : \E i \in 1..m : o[i] = x
  BY <1>7 DEF Lists
<1> HIDE DEF m
<1> DEFINE t == AtPlaces(s, places)
<1> HIDE DEF t
<1>10. Picks(t, o, s, places)
  BY <1>5, <1>8, <1>9 DEF Picks, m, t
<1> QED  BY <1>1, <1>10 DEF m, t

-----------------------------------------------------------------------------
(* Rows and blocks.                                                        *)

AnyRow == {Row(e) : e \in Events} \cup {ReadBack(Row(e)) : e \in Events}

LEMMA RowFacts ==
  ASSUME NEW r \in AnyRow
  PROVE  /\ r.event \in Events /\ r.ts \in Int
         /\ r.ts = IF r.event.ts = None THEN 0 ELSE r.event.ts
         /\ ReadBack(r) \in AnyRow
         /\ ReadBack(r).event = r.event /\ ReadBack(r).ts = r.ts
<1>1. PICK e \in Events : r = Row(e) \/ r = ReadBack(Row(e))  BY DEF AnyRow
<1>2. PICK w : w = Row(e)  OBVIOUS
<1>3. /\ w = [event |-> w.event, ts |-> w.ts, words |-> w.words, source |-> w.source,
              first |-> w.first, extra |-> w.extra]
      /\ w.event = e /\ w.ts = IF e.ts = None THEN 0 ELSE e.ts
  <2>1. w = [event |-> e, ts |-> IF e.ts = None THEN 0 ELSE e.ts, words |-> w.words,
             source |-> w.source, first |-> w.first, extra |-> w.extra]
    BY <1>2 DEF Row
  <2>2. w.event = e /\ w.ts = IF e.ts = None THEN 0 ELSE e.ts  BY <2>1
  <2> QED  BY <2>1, <2>2
<1>4. PICK v : v = ReadBack(w)  OBVIOUS
<1>5. v.event = e /\ v.ts = w.ts /\ ReadBack(v) = v
  <2>1. v = [w EXCEPT !.extra = {}]  BY <1>4 DEF ReadBack
  <2>2. v = [event |-> w.event, ts |-> w.ts, words |-> w.words, source |-> w.source,
             first |-> w.first, extra |-> {}]
    BY <1>3, <2>1
  <2>3. [v EXCEPT !.extra = {}] = v  BY <2>2
  <2> QED  BY <1>3, <2>2, <2>3 DEF ReadBack
<1>6. w \in AnyRow /\ v \in AnyRow  BY <1>2, <1>4 DEF AnyRow
<1>7. w.ts \in Int  BY <1>3, BatchesAssumption
<1>8. r = w \/ r = v  BY <1>1, <1>2, <1>4
<1> QED  BY <1>3, <1>4, <1>5, <1>6, <1>7, <1>8

InOrder(rs) == \A i, j \in DOMAIN rs : i <= j => rs[i].ts <= rs[j].ts
Distinct(rs) == \A i, j \in DOMAIN rs : rs[i].event = rs[j].event => i = j
EventsOf(rs) == {rs[i].event : i \in DOMAIN rs}

(* A block's rows: some, in the order of time, no event twice.             *)
RowsFit(rs) ==
  /\ rs \in Seq(AnyRow) /\ Len(rs) # 0
  /\ InOrder(rs) /\ Distinct(rs)

LEMMA NewBlockFits ==
  ASSUME NEW id1, NEW rs \in Seq(AnyRow), Len(rs) # 0, Distinct(rs)
  PROVE  LET b == NewBlock(id1, rs)
         IN  /\ b = [id |-> id1, rows |-> b.rows]
             /\ RowsFit(b.rows) /\ EventsOf(b.rows) = EventsOf(rs)
<1> DEFINE n == Len(rs)
           key == [i \in 1..n |-> rs[i].ts]
           t == StableSort(rs, LAMBDA r : r.ts)
<1>1. rs \in [1..n -> AnyRow] /\ n \in Nat /\ DOMAIN rs = 1..n  OBVIOUS
<1>2. PICK o : Sorts(o, n, key) /\ t = [i \in 1..n |-> rs[o[i]]]
  <2>1. \A x \in AnyRow : x.ts \in Int  BY RowFacts
  <2> HIDE DEF n, key, t
  <2>2. \E o : Sorts(o, n, [i \in 1..n |-> rs[i].ts]) /\ t = [i \in 1..n |-> rs[o[i]]]
    BY <1>1, <2>1, SortedByTime, ZenonT(60) DEF t
  <2> QED  BY <2>2 DEF key
<1>3. NewBlock(id1, rs) = [id |-> id1, rows |-> t]  BY DEF NewBlock
<1> HIDE DEF t, n
<1>4. /\ \A i \in 1..n : o[i] \in 1..n
      /\ \A x \in 1..n : \E i \in 1..n : o[i] = x
      /\ \A i, j \in 1..n : o[i] = o[j] => i = j
      /\ \A i, j \in 1..n : i <= j => rs[o[i]].ts <= rs[o[j]].ts
  BY <1>2 DEF Sorts
<1>5. t \in [1..n -> AnyRow] /\ DOMAIN t = 1..n /\ \A i \in 1..n : t[i] = rs[o[i]]
  BY <1>1, <1>2, <1>4
<1>6. t \in Seq(AnyRow) /\ Len(t) = n  BY <1>1, <1>5
<1>7. InOrder(t)
  <2>1. \A i, j \in 1..n : i <= j => t[i].ts <= t[j].ts
    <3> SUFFICES ASSUME NEW i \in 1..n, NEW j \in 1..n, i <= j PROVE t[i].ts <= t[j].ts
      OBVIOUS
    <3>1. rs[o[i]].ts <= rs[o[j]].ts  BY <1>4
    <3>2. t[i] = rs[o[i]] /\ t[j] = rs[o[j]]  BY <1>5
    <3> QED  BY <3>1, <3>2
  <2> QED  BY <1>5, <2>1 DEF InOrder
<1>8. Distinct(t)
  <2>1. \A i, j \in 1..n : t[i].event = t[j].event => i = j
    <3> SUFFICES ASSUME NEW i \in 1..n, NEW j \in 1..n, t[i].event = t[j].event PROVE i = j
      OBVIOUS
    <3>1. t[i] = rs[o[i]] /\ t[j] = rs[o[j]] /\ o[i] \in 1..n /\ o[j] \in 1..n  BY <1>4, <1>5
    <3>2. \A x, y \in 1..n : rs[x].event = rs[y].event => x = y  BY <1>1 DEF Distinct
    <3>3. o[i] = o[j]  BY <3>1, <3>2
    <3> QED  BY <1>4, <3>3
  <2> QED  BY <1>5, <2>1 DEF Distinct
<1>9. EventsOf(t) = EventsOf(rs)
  <2>1. \A i \in 1..n : t[i] = rs[o[i]] /\ o[i] \in 1..n  BY <1>4, <1>5
  <2>2. ASSUME NEW e, e \in EventsOf(t) PROVE e \in EventsOf(rs)
    <3>1. PICK i \in 1..n : e = t[i].event  BY <1>5, <2>2 DEF EventsOf
    <3>2. e = rs[o[i]].event /\ o[i] \in 1..n  BY <2>1, <3>1
    <3> QED  BY <1>1, <3>2 DEF EventsOf
  <2>3. ASSUME NEW e, e \in EventsOf(rs) PROVE e \in EventsOf(t)
    <3>1. PICK x \in 1..n : e = rs[x].event  BY <1>1, <2>3 DEF EventsOf
    <3>2. PICK i \in 1..n : o[i] = x  BY <1>4
    <3>3. e = t[i].event  BY <2>1, <3>1, <3>2
    <3> QED  BY <1>5, <3>3 DEF EventsOf
  <2> QED  BY <2>2, <2>3
<1>10. RowsFit(t)  BY <1>6, <1>7, <1>8 DEF RowsFit, n
<1>11. [id |-> id1, rows |-> t].rows = t  OBVIOUS
<1> QED  BY <1>3, <1>9, <1>10, <1>11

-----------------------------------------------------------------------------
(* The store: what every partition holds, and what the cache may say.      *)

EventKeys == {KeyOf(e) : e \in Events}
AnyBlock == [id : Nat, rows : Seq(AnyRow)]

(* A block of partition k: one of the first w written, of events of a.     *)
BlockFits(b, k, w, a) ==
  /\ b \in AnyBlock /\ b.id < w /\ RowsFit(b.rows)
  /\ \A e \in EventsOf(b.rows) : e \in a /\ KeyOf(e) = k

(* No identity and no event in two blocks.                                 *)
Apart(s) ==
  \A i, j \in DOMAIN s : i # j => /\ s[i].id # s[j].id
                                  /\ EventsOf(s[i].rows) \cap EventsOf(s[j].rows) = {}

BlocksFit(s, k, w, a) ==
  /\ s \in Seq(AnyBlock) /\ Apart(s)
  /\ \A i \in DOMAIN s : BlockFits(s[i], k, w, a)

HasAll(s, k, a) ==
  \A e \in a : KeyOf(e) = k => \E i \in DOMAIN s : e \in EventsOf(s[i].rows)

CacheFits ==
  \A c \in cache :
    /\ c.id \in Nat /\ c.id < written
    /\ \A k \in Keys : \A i \in DOMAIN Blocks(k) :
         Blocks(k)[i].id = c.id => c.rows = Eval(Blocks(k)[i], c.node)

StoreFits ==
  /\ written \in Nat /\ arrived \in SUBSET Events
  /\ manifest = [k \in Keys |-> Blocks(k)] /\ IsFiniteSet(Keys)
  /\ Keys \in SUBSET EventKeys
  /\ \A e \in arrived : KeyOf(e) \in Keys
  /\ \A k \in Keys : /\ BlocksFit(Blocks(k), k, written, arrived)
                     /\ HasAll(Blocks(k), k, arrived)
  /\ \A k, l \in Keys : \A i \in DOMAIN Blocks(k), j \in DOMAIN Blocks(l) :
       Blocks(k)[i].id = Blocks(l)[j].id => k = l

(* The blocks kept and a new one share no event, and have those of a.      *)
Share(kept, nb, k, a) ==
  /\ \A i \in DOMAIN kept : EventsOf(kept[i].rows) \cap EventsOf(nb.rows) = {}
  /\ \A e \in a : KeyOf(e) = k => \/ e \in EventsOf(nb.rows)
                                  \/ \E i \in DOMAIN kept : e \in EventsOf(kept[i].rows)

LEMMA AppendFits ==
  ASSUME NEW k, NEW w \in Nat, NEW a, NEW kept, BlocksFit(kept, k, w, a),
         NEW nb, BlockFits(nb, k, w + 1, a), nb.id = w, Share(kept, nb, k, a)
  PROVE  /\ BlocksFit(Append(kept, nb), k, w + 1, a) /\ HasAll(Append(kept, nb), k, a)
         /\ \A i \in DOMAIN Append(kept, nb) :
              Append(kept, nb)[i].id = w \/ \E j \in DOMAIN kept : Append(kept, nb)[i] = kept[j]
<1> DEFINE n == Len(kept)
           s == Append(kept, nb)
<1>1. kept \in Seq(AnyBlock) /\ n \in Nat /\ DOMAIN kept = 1..n /\ nb \in AnyBlock
  BY DEF BlocksFit, BlockFits
<1>a. /\ \A i \in 1..n : EventsOf(kept[i].rows) \cap EventsOf(nb.rows) = {}
      /\ \A e \in a : KeyOf(e) = k => \/ e \in EventsOf(nb.rows)
                                      \/ \E i \in 1..n : e \in EventsOf(kept[i].rows)
  BY <1>1 DEF Share
<1>2. /\ s \in Seq(AnyBlock) /\ DOMAIN s = 1..(n + 1) /\ s[n + 1] = nb
      /\ \A i \in 1..n : s[i] = kept[i]
  BY <1>1
<1> HIDE DEF s, n
<1>3. \A i \in 1..n : BlockFits(kept[i], k, w, a) /\ kept[i].id \in Nat /\ kept[i].id < w
  BY <1>1 DEF BlocksFit, BlockFits, AnyBlock
<1>4. \A i \in 1..n : BlockFits(kept[i], k, w + 1, a)
  <2> SUFFICES ASSUME NEW i \in 1..n PROVE BlockFits(kept[i], k, w + 1, a)  OBVIOUS
  <2>1. kept[i].id \in Nat /\ kept[i].id < w  BY <1>3
  <2>2. kept[i].id < w + 1  BY <2>1
  <2> QED  BY <1>3, <2>2 DEF BlockFits
<1>5. \A i \in 1..(n + 1) : BlockFits(s[i], k, w + 1, a)
  <2> SUFFICES ASSUME NEW i \in 1..(n + 1) PROVE BlockFits(s[i], k, w + 1, a)  OBVIOUS
  <2>1. CASE i = n + 1  BY <1>2, <2>1
  <2>2. CASE i # n + 1
    <3>1. i \in 1..n  BY <1>1, <2>2
    <3> QED  BY <1>2, <1>4, <3>1
  <2> QED  BY <2>1, <2>2
<1>6. Apart(s)
  <2> SUFFICES ASSUME NEW i \in 1..(n + 1), NEW j \in 1..(n + 1), i # j
               PROVE  /\ s[i].id # s[j].id
                      /\ EventsOf(s[i].rows) \cap EventsOf(s[j].rows) = {}
    BY <1>2 DEF Apart
  <2>1. CASE i # n + 1 /\ j # n + 1
    <3>1. i \in 1..n /\ j \in 1..n  BY <1>1, <2>1
    <3>2. Apart(kept)  BY DEF BlocksFit
    <3> QED  BY <1>1, <1>2, <3>1, <3>2 DEF Apart
  <2>2. CASE i = n + 1
    <3>1. j \in 1..n  BY <1>1, <2>2
    <3>2. s[i] = nb /\ s[j] = kept[j] /\ kept[j].id < w /\ kept[j].id \in Nat
      BY <1>2, <1>3, <2>2, <3>1
    <3>3. EventsOf(kept[j].rows) \cap EventsOf(nb.rows) = {}  BY <1>a, <3>1
    <3>4. s[i].id # s[j].id  BY <3>2
    <3> QED  BY <3>2, <3>3, <3>4
  <2>3. CASE j = n + 1
    <3>1. i \in 1..n  BY <1>1, <2>3
    <3>2. s[j] = nb /\ s[i] = kept[i] /\ kept[i].id < w /\ kept[i].id \in Nat
      BY <1>2, <1>3, <2>3, <3>1
    <3>3. EventsOf(kept[i].rows) \cap EventsOf(nb.rows) = {}  BY <1>a, <3>1
    <3>4. s[i].id # s[j].id  BY <3>2
    <3> QED  BY <3>2, <3>3, <3>4
  <2> QED  BY <2>1, <2>2, <2>3
<1>7. HasAll(s, k, a)
  <2> SUFFICES ASSUME NEW e \in a, KeyOf(e) = k
               PROVE  \E i \in 1..(n + 1) : e \in EventsOf(s[i].rows)
    BY <1>2 DEF HasAll
  <2>1. CASE e \in EventsOf(nb.rows)
    <3>1. n + 1 \in 1..(n + 1)  BY <1>1
    <3> QED  BY <1>2, <2>1, <3>1
  <2>2. CASE \E i \in 1..n : e \in EventsOf(kept[i].rows)
    <3>1. PICK i \in 1..n : e \in EventsOf(kept[i].rows)  BY <2>2
    <3>2. i \in 1..(n + 1)  BY <1>1
    <3> QED  BY <1>2, <3>1, <3>2
  <2> QED  BY <1>a, <2>1, <2>2
<1>8. ASSUME NEW i \in 1..(n + 1) PROVE s[i].id = w \/ \E j \in 1..n : s[i] = kept[j]
  <2>1. CASE i = n + 1  BY <1>2, <2>1
  <2>2. CASE i # n + 1
    <3>1. i \in 1..n  BY <1>1, <2>2
    <3> QED  BY <1>2, <3>1
  <2> QED  BY <2>1, <2>2
<1>9. BlocksFit(s, k, w + 1, a)  BY <1>2, <1>5, <1>6 DEF BlocksFit
<1>10. \A i \in DOMAIN s : s[i].id = w \/ \E j \in DOMAIN kept : s[i] = kept[j]
  BY <1>1, <1>2, <1>8
<1> QED  BY <1>7, <1>9, <1>10 DEF s

(* One partition gets a block, and may lose some.                          *)
Replaced(k, s1) ==
  /\ manifest' = [x \in Keys \cup {k} |-> IF x = k THEN s1 ELSE Blocks(x)]
  /\ written' = written + 1 /\ cache' = cache
  /\ arrived' \in SUBSET Events
  /\ \A e \in arrived : e \in arrived'
  /\ \A e \in arrived' : e \in arrived \/ KeyOf(e) = k
  /\ BlocksFit(s1, k, written + 1, arrived') /\ HasAll(s1, k, arrived')
  /\ \A i \in DOMAIN s1 :
       \/ s1[i].id = written
       \/ k \in Keys /\ \E j \in DOMAIN Blocks(k) : s1[i] = Blocks(k)[j]

LEMMA ReplacedFits ==
  ASSUME StoreFits, CacheFits, NEW k \in EventKeys, NEW s1, Replaced(k, s1)
  PROVE  StoreFits' /\ CacheFits'
<1>1. /\ Keys' = Keys \cup {k} /\ Blocks(k)' = s1
      /\ \A x \in Keys : x # k => Blocks(x)' = Blocks(x)
  BY DEF Replaced, Keys, Blocks
<1>2. written \in Nat /\ written' = written + 1 /\ cache' = cache  BY DEF StoreFits, Replaced
<1>3. ASSUME NEW x \in Keys, x # k
      PROVE  BlocksFit(Blocks(x), x, written + 1, arrived') /\ HasAll(Blocks(x), x, arrived')
  <2> DEFINE s == Blocks(x)
  <2>1. BlocksFit(s, x, written, arrived) /\ HasAll(s, x, arrived)  BY DEF StoreFits
  <2> HIDE DEF s
  <2>2. ASSUME NEW i \in DOMAIN s PROVE BlockFits(s[i], x, written + 1, arrived')
    <3>1. BlockFits(s[i], x, written, arrived)  BY <2>1 DEF BlocksFit
    <3>2. s[i].id \in Nat /\ s[i].id < written  BY <3>1 DEF BlockFits, AnyBlock
    <3>3. s[i].id < written + 1  BY <1>2, <3>2
    <3>4. \A e \in arrived : e \in arrived'  BY DEF Replaced
    <3> QED  BY <3>1, <3>3, <3>4 DEF BlockFits
  <2>3. BlocksFit(s, x, written + 1, arrived')  BY <2>1, <2>2 DEF BlocksFit
  <2>4. \A e \in arrived' : KeyOf(e) = x => e \in arrived  BY <1>3 DEF Replaced
  <2>5. HasAll(s, x, arrived')  BY <2>1, <2>4 DEF HasAll
  <2> QED  BY <2>3, <2>5 DEF s
<1>4. \A x \in Keys' : BlocksFit(Blocks(x)', x, written', arrived') /\ HasAll(Blocks(x)', x, arrived')
  <2> SUFFICES ASSUME NEW x \in Keys'
               PROVE BlocksFit(Blocks(x)', x, written', arrived') /\ HasAll(Blocks(x)', x, arrived')
    OBVIOUS
  <2>1. CASE x = k  BY <1>1, <1>2, <2>1 DEF Replaced
  <2>2. CASE x # k
    <3>1. x \in Keys /\ Blocks(x)' = Blocks(x)  BY <1>1, <2>2
    <3> QED  BY <1>2, <1>3, <2>2, <3>1
  <2> QED  BY <2>1, <2>2
<1>5. ASSUME NEW x \in Keys', NEW i \in DOMAIN Blocks(x)'
      PROVE  \/ x = k /\ Blocks(x)'[i].id = written
             \/ x \in Keys /\ \E j \in DOMAIN Blocks(x) : Blocks(x)'[i] = Blocks(x)[j]
  <2>1. CASE x = k  BY <1>1, <1>5, <2>1 DEF Replaced
  <2>2. CASE x # k
    <3>1. x \in Keys /\ Blocks(x)' = Blocks(x)  BY <1>1, <2>2
    <3> QED  BY <1>5, <3>1
  <2> QED  BY <2>1, <2>2
<1>6. ASSUME NEW x \in Keys, NEW j \in DOMAIN Blocks(x)
      PROVE  Blocks(x)[j].id \in Nat /\ Blocks(x)[j].id < written
  <2>1. BlockFits(Blocks(x)[j], x, written, arrived)
    <3>1. BlocksFit(Blocks(x), x, written, arrived)  BY DEF StoreFits
    <3> QED  BY <1>6, <3>1 DEF BlocksFit
  <2> QED  BY <2>1 DEF BlockFits, AnyBlock
<1>7. ASSUME NEW x \in Keys', NEW y \in Keys', NEW i \in DOMAIN Blocks(x)',
             NEW j \in DOMAIN Blocks(y)', Blocks(x)'[i].id = Blocks(y)'[j].id
      PROVE  x = y
  <2>1. /\ \/ x = k /\ Blocks(x)'[i].id = written
           \/ x \in Keys /\ \E p \in DOMAIN Blocks(x) : Blocks(x)'[i] = Blocks(x)[p]
        /\ \/ y = k /\ Blocks(y)'[j].id = written
           \/ y \in Keys /\ \E p \in DOMAIN Blocks(y) : Blocks(y)'[j] = Blocks(y)[p]
    BY <1>5
  <2>2. \A z \in Keys : \A p \in DOMAIN Blocks(z) : Blocks(z)[p].id # written
    <3> SUFFICES ASSUME NEW z \in Keys, NEW p \in DOMAIN Blocks(z) PROVE Blocks(z)[p].id # written
      OBVIOUS
    <3>1. Blocks(z)[p].id \in Nat /\ Blocks(z)[p].id < written  BY <1>6
    <3> QED  BY <1>2, <3>1
  <2>3. \A z, u \in Keys : \A p \in DOMAIN Blocks(z), r \in DOMAIN Blocks(u) :
          Blocks(z)[p].id = Blocks(u)[r].id => z = u
    BY DEF StoreFits
  <2> QED  BY <1>7, <2>1, <2>2, <2>3
<1>8. ASSUME NEW c \in cache
      PROVE  /\ c.id \in Nat /\ c.id < written + 1
             /\ \A x \in Keys' : \A i \in DOMAIN Blocks(x)' :
                  Blocks(x)'[i].id = c.id => c.rows = Eval(Blocks(x)'[i], c.node)
  <2>1. /\ c.id \in Nat /\ c.id < written
        /\ \A x \in Keys : \A i \in DOMAIN Blocks(x) :
             Blocks(x)[i].id = c.id => c.rows = Eval(Blocks(x)[i], c.node)
    BY DEF CacheFits
  <2>2. c.id < written + 1 /\ c.id # written  BY <1>2, <2>1
  <2> QED  BY <1>5, <2>1, <2>2
<1>9. CacheFits'  BY <1>2, <1>8 DEF CacheFits
<1>10. manifest' = [x \in Keys' |-> Blocks(x)']
  <2>1. manifest' = [x \in DOMAIN manifest' |-> manifest'[x]]  BY DEF Replaced
  <2> QED  BY <2>1 DEF Keys, Blocks
<1>11. IsFiniteSet(Keys') /\ Keys' \in SUBSET EventKeys
  <2>1. IsFiniteSet(Keys) /\ Keys \in SUBSET EventKeys  BY DEF StoreFits
  <2> QED  BY <1>1, <2>1, FS_AddElement
<1>12. \A e \in arrived' : KeyOf(e) \in Keys'
  <2>1. \A e \in arrived : KeyOf(e) \in Keys  BY DEF StoreFits
  <2> QED  BY <1>1, <2>1 DEF Replaced
<1>13. written' \in Nat /\ arrived' \in SUBSET Events  BY <1>2 DEF Replaced
<1>14. StoreFits'
  BY <1>4, <1>7, <1>10, <1>11, <1>12, <1>13 DEF StoreFits
<1> QED  BY <1>9, <1>14

LEMMA KeysAreRecords ==
  ASSUME NEW e \in Events
  PROVE  /\ KeyOf(e) \in EventKeys
         /\ Row(e) \in AnyRow /\ Row(e).event = e
<1>1. KeyOf(e) \in EventKeys  BY DEF EventKeys
<1>2. Row(e) \in AnyRow  BY DEF AnyRow
<1>3. Row(e).event = e  BY DEF Row
<1> QED  BY <1>1, <1>2, <1>3

LEMMA IngestFits ==
  ASSUME StoreFits, CacheFits, NEW es \in Batches, Ingest(es)
  PROVE  StoreFits' /\ CacheFits'
<1> DEFINE n == Len(es)
           k == KeyOf(es[1])
           rs == [i \in DOMAIN es |-> Row(es[i])]
           nb == NewBlock(written, rs)
           kept == IF k \in Keys THEN Blocks(k) ELSE <<>>
<1>1. /\ es \in Seq(Events) /\ n \in Nat /\ n # 0 /\ DOMAIN es = 1..n
      /\ \A i \in 1..n : es[i] \in Events
      /\ \A i, j \in 1..n : es[i] = es[j] => i = j
  <2>1. es \in Seq(Events) /\ IsInjective(es)  BY BatchesAssumption
  <2>2. n \in Nat /\ DOMAIN es = 1..n /\ \A i \in 1..n : es[i] \in Events  BY <2>1
  <2>3. es # <<>>  BY DEF Ingest
  <2>4. n # 0  BY <2>1, <2>3, EmptySeq
  <2> QED  BY <2>1, <2>2, <2>4 DEF IsInjective
<1>2. /\ \A i \in 1..n : es[i] \notin arrived /\ KeyOf(es[i]) = k
      /\ manifest' = WithPartition(k, IF k \in Keys THEN Append(Blocks(k), nb) ELSE <<nb>>)
      /\ arrived' = arrived \cup ToSet(es) /\ written' = written + 1 /\ cache' = cache
  BY <1>1 DEF Ingest
<1> HIDE DEF n
<1>3. k \in EventKeys /\ es[1] \in Events
  <2>1. 1 \in 1..n  BY <1>1
  <2> QED  BY <1>1, <2>1, KeysAreRecords
<1>4. /\ rs \in Seq(AnyRow) /\ Len(rs) = n /\ DOMAIN rs = 1..n
      /\ \A i \in 1..n : rs[i].event = es[i]
  <2>1. \A i \in 1..n : Row(es[i]) \in AnyRow /\ Row(es[i]).event = es[i]
    BY <1>1, KeysAreRecords
  <2>2. rs \in [1..n -> AnyRow]  BY <1>1, <2>1
  <2>3. rs \in Seq(AnyRow) /\ Len(rs) = n  BY <1>1, <2>2
  <2>4. \A i \in 1..n : rs[i] = Row(es[i])  BY <1>1
  <2> HIDE DEF rs
  <2> QED  BY <2>1, <2>2, <2>3, <2>4
<1> HIDE DEF rs
<1>5. Distinct(rs)  BY <1>1, <1>4 DEF Distinct
<1>6. /\ nb = [id |-> written, rows |-> nb.rows]
      /\ RowsFit(nb.rows) /\ EventsOf(nb.rows) = EventsOf(rs)
  BY <1>1, <1>4, <1>5, NewBlockFits
<1> HIDE DEF nb
<1>7. EventsOf(rs) = ToSet(es) /\ ToSet(es) = {es[i] : i \in 1..n}
  <2>1. ToSet(es) = {es[i] : i \in 1..n}  BY <1>1 DEF ToSet
  <2> QED  BY <1>4, <2>1 DEF EventsOf
<1>8. /\ \A e \in EventsOf(nb.rows) : e \in arrived' /\ e \notin arrived /\ KeyOf(e) = k
      /\ \A e \in arrived' : e \in arrived \/ e \in EventsOf(nb.rows)
      /\ \A e \in arrived : e \in arrived'
      /\ arrived' \in SUBSET Events
  <2>1. arrived \in SUBSET Events  BY DEF StoreFits
  <2>2. ToSet(es) \in SUBSET Events  BY <1>1, <1>7
  <2> QED  BY <1>2, <1>6, <1>7, <2>1, <2>2
<1>9. written \in Nat  BY DEF StoreFits
<1>10. nb.id = written /\ BlockFits(nb, k, written + 1, arrived')
  <2>1. nb.id = written  BY <1>6
  <2>2. nb.rows \in Seq(AnyRow)  BY <1>6 DEF RowsFit
  <2>3. nb \in AnyBlock  BY <1>6, <1>9, <2>2 DEF AnyBlock
  <2>4. nb.id < written + 1  BY <1>9, <2>1
  <2> HIDE DEF k
  <2> QED  BY <1>6, <1>8, <2>1, <2>3, <2>4 DEF BlockFits
<1>11. /\ BlocksFit(kept, k, written, arrived) /\ HasAll(kept, k, arrived)
       /\ \A i \in DOMAIN kept : k \in Keys /\ kept[i] = Blocks(k)[i] /\ i \in DOMAIN Blocks(k)
  <2>1. CASE k \in Keys
    <3>1. kept = Blocks(k)  BY <2>1
    <3> HIDE DEF k, kept
    <3>2. BlocksFit(Blocks(k), k, written, arrived) /\ HasAll(Blocks(k), k, arrived)
      BY <2>1 DEF StoreFits
    <3> QED  BY <2>1, <3>1, <3>2
  <2>2. CASE k \notin Keys
    <3>1. kept = <<>>  BY <2>2
    <3>2. \A e \in arrived : KeyOf(e) # k  BY <2>2 DEF StoreFits
    <3> HIDE DEF k, kept
    <3>3. kept \in Seq(AnyBlock) /\ DOMAIN kept = {}  BY <3>1
    <3> QED  BY <3>2, <3>3 DEF BlocksFit, HasAll, Apart
  <2> QED  BY <2>1, <2>2
<1> DEFINE s1 == Append(kept, nb)
<1>12. manifest' = WithPartition(k, s1)
  <2>1. CASE k \in Keys  BY <1>2, <2>1
  <2>2. CASE k \notin Keys
    <3>1. Append(<<>>, nb) = <<nb>>  OBVIOUS
    <3> QED  BY <1>2, <2>2, <3>1
  <2> QED  BY <2>1, <2>2
<1> HIDE DEF kept, k
<1>13. BlocksFit(kept, k, written, arrived')
  <2>1. kept \in Seq(AnyBlock) /\ Apart(kept)  BY <1>11 DEF BlocksFit
  <2>2. ASSUME NEW i \in DOMAIN kept PROVE BlockFits(kept[i], k, written, arrived')
    <3>1. BlockFits(kept[i], k, written, arrived)  BY <1>11, <2>2 DEF BlocksFit
    <3> QED  BY <1>8, <3>1 DEF BlockFits
  <2> QED  BY <2>1, <2>2 DEF BlocksFit
<1>14. \A i \in DOMAIN kept : EventsOf(kept[i].rows) \cap EventsOf(nb.rows) = {}
  <2> SUFFICES ASSUME NEW i \in DOMAIN kept, NEW e \in EventsOf(kept[i].rows)
               PROVE  e \notin EventsOf(nb.rows)
    OBVIOUS
  <2>1. BlockFits(kept[i], k, written, arrived)  BY <1>11 DEF BlocksFit
  <2> QED  BY <1>8, <2>1 DEF BlockFits
<1>15. \A e \in arrived' : KeyOf(e) = k =>
          e \in EventsOf(nb.rows) \/ \E i \in DOMAIN kept : e \in EventsOf(kept[i].rows)
  BY <1>8, <1>11 DEF HasAll
<1>16. /\ BlocksFit(s1, k, written + 1, arrived') /\ HasAll(s1, k, arrived')
       /\ \A i \in DOMAIN s1 : s1[i].id = written \/ \E j \in DOMAIN kept : s1[i] = kept[j]
  <2>1. Share(kept, nb, k, arrived')  BY <1>14, <1>15 DEF Share
  <2> QED  BY <1>9, <1>10, <1>13, <2>1, AppendFits
<1> HIDE DEF s1
<1>17. Replaced(k, s1)
  <2>1. manifest' = [x \in Keys \cup {k} |-> IF x = k THEN s1 ELSE Blocks(x)]
    BY <1>12 DEF WithPartition, Blocks
  <2>2. \A e \in arrived' : e \in arrived \/ KeyOf(e) = k  BY <1>8
  <2>3. \A i \in DOMAIN s1 :
          \/ s1[i].id = written
          \/ k \in Keys /\ \E j \in DOMAIN Blocks(k) : s1[i] = Blocks(k)[j]
    <3> SUFFICES ASSUME NEW i \in DOMAIN s1
                 PROVE  \/ s1[i].id = written
                        \/ k \in Keys /\ \E j \in DOMAIN Blocks(k) : s1[i] = Blocks(k)[j]
      OBVIOUS
    <3>1. CASE s1[i].id = written  BY <3>1
    <3>2. CASE \E j \in DOMAIN kept : s1[i] = kept[j]
      <4>1. PICK j \in DOMAIN kept : s1[i] = kept[j]  BY <3>2
      <4>2. k \in Keys /\ kept[j] = Blocks(k)[j] /\ j \in DOMAIN Blocks(k)  BY <1>11
      <4> QED  BY <4>1, <4>2
    <3> QED  BY <1>16, <3>1, <3>2
  <2> QED  BY <1>2, <1>8, <1>16, <2>1, <2>2, <2>3 DEF Replaced
<1> QED  BY <1>3, <1>17, ReplacedFits

LEMMA CompactFits ==
  ASSUME StoreFits, CacheFits, NEW k \in Keys, NEW places \in SUBSET (DOMAIN Blocks(k)),
         Compact(k, places)
  PROVE  StoreFits' /\ CacheFits'
<1> DEFINE s == Blocks(k)
           n == Len(s)
           others == (DOMAIN s) \ places
           grp == AtPlaces(s, places)
           kept == AtPlaces(s, others)
           nb == Merged(written, grp)
           s1 == Append(kept, nb)
           backs == [i \in DOMAIN grp |-> [j \in DOMAIN grp[i].rows |-> ReadBack(grp[i].rows[j])]]
           m == Cardinality(places)
           rest == Cardinality(others)
<1>1. BlocksFit(s, k, written, arrived) /\ HasAll(s, k, arrived) /\ written \in Nat
  BY DEF StoreFits
<1>2. s \in [1..n -> AnyBlock] /\ n \in Nat /\ DOMAIN s = 1..n /\ s \in Seq(AnyBlock)
  BY <1>1 DEF BlocksFit
<1>3. /\ m > 1 /\ written' = written + 1 /\ arrived' = arrived /\ cache' = cache
      /\ manifest' = [manifest EXCEPT ![k] = s1]
  BY DEF Compact
<1>4. places \in SUBSET (1..n) /\ others \in SUBSET (1..n) /\ places \cap others = {}
      /\ \A x \in 1..n : x \in places \/ x \in others
  BY <1>2
<1> HIDE DEF s, n, others
<1>5. PICK o : Picks(grp, o, s, places)  BY <1>2, <1>4, PlacesAt
<1>6. PICK u : Picks(kept, u, s, others)  BY <1>2, <1>4, PlacesAt
<1>7. m \in Nat /\ rest \in Nat
  <2> HIDE DEF m, rest
  <2> QED  BY <1>2, <1>4, PlacesAt DEF m, rest
<1> HIDE DEF grp, kept, m, rest
<1>a. /\ o \in [1..m -> places]
      /\ \A x \in places : \E i \in 1..m : o[i] = x
      /\ \A i, j \in 1..m : o[i] = o[j] => i = j
      /\ grp = [i \in 1..m |-> s[o[i]]]
  BY <1>5 DEF Picks, m
<1>b. /\ u \in [1..rest -> others]
      /\ \A x \in others : \E i \in 1..rest : u[i] = x
      /\ \A i, j \in 1..rest : u[i] = u[j] => i = j
      /\ kept = [i \in 1..rest |-> s[u[i]]]
  BY <1>6 DEF Picks, rest
<1>8. /\ grp \in [1..m -> AnyBlock] /\ DOMAIN grp = 1..m
      /\ \A i \in 1..m : grp[i] = s[o[i]] /\ o[i] \in 1..n /\ o[i] \in places
  <2> QED  BY <1>2, <1>4, <1>a
<1>9. /\ kept \in [1..rest -> AnyBlock] /\ DOMAIN kept = 1..rest /\ kept \in Seq(AnyBlock)
      /\ \A i \in 1..rest : kept[i] = s[u[i]] /\ u[i] \in 1..n /\ u[i] \in others
  <2>1. \A i \in 1..rest : u[i] \in others /\ u[i] \in 1..n  BY <1>4, <1>b
  <2>2. \A i \in 1..rest : s[u[i]] \in AnyBlock  BY <1>2, <2>1
  <2>3. kept \in [1..rest -> AnyBlock]  BY <1>b, <2>2
  <2>4. kept \in Seq(AnyBlock) /\ DOMAIN kept = 1..rest  BY <1>7, <2>3
  <2>5. \A i \in 1..rest : kept[i] = s[u[i]]  BY <1>b
  <2> QED  BY <2>1, <2>3, <2>4, <2>5
<1>10. \A x \in 1..n : /\ BlockFits(s[x], k, written, arrived)
                       /\ s[x].rows \in Seq(AnyRow) /\ Len(s[x].rows) # 0 /\ Distinct(s[x].rows)
  BY <1>1, <1>2 DEF BlocksFit, BlockFits, RowsFit
<1>11. \A x, y \in 1..n : x # y => /\ s[x].id # s[y].id
                                   /\ EventsOf(s[x].rows) \cap EventsOf(s[y].rows) = {}
  BY <1>1, <1>2 DEF BlocksFit, Apart
<1>12. ASSUME NEW i \in 1..m
       PROVE  /\ backs[i] \in Seq(AnyRow) /\ Len(backs[i]) = Len(grp[i].rows)
              /\ Len(grp[i].rows) \in Nat
              /\ grp[i].rows \in Seq(AnyRow)
              /\ \A j \in 1..Len(grp[i].rows) : backs[i][j].event = grp[i].rows[j].event
  <2> DEFINE rs == grp[i].rows
             bk == [j \in DOMAIN rs |-> ReadBack(rs[j])]
  <2>1. backs[i] = bk  BY <1>8
  <2>2. rs \in Seq(AnyRow)  BY <1>8, <1>10
  <2> HIDE DEF rs
  <2>3. DOMAIN rs = 1..Len(rs) /\ Len(rs) \in Nat /\ \A j \in 1..Len(rs) : rs[j] \in AnyRow
    BY <2>2
  <2>4. \A j \in 1..Len(rs) : ReadBack(rs[j]) \in AnyRow /\ ReadBack(rs[j]).event = rs[j].event
    BY <2>3, RowFacts
  <2>5. bk \in [1..Len(rs) -> AnyRow] /\ \A j \in 1..Len(rs) : bk[j] = ReadBack(rs[j])
    BY <2>3, <2>4
  <2> HIDE DEF bk
  <2>6. bk \in Seq(AnyRow) /\ Len(bk) = Len(rs)  BY <2>3, <2>5
  <2>7. \A j \in 1..Len(rs) : bk[j].event = rs[j].event  BY <2>4, <2>5
  <2> HIDE DEF backs
  <2> QED  BY <2>1, <2>2, <2>3, <2>6, <2>7 DEF rs
<1>13. backs \in [1..m -> Seq(AnyRow)]
  <2>1. backs = [i \in 1..m |-> backs[i]]  BY <1>8
  <2> HIDE DEF backs
  <2> QED  BY <1>12, <2>1
<1> DEFINE fl == FlattenSeq(backs)
<1>14. PICK g : fl \in Seq(AnyRow) /\ Joins(fl, g, m, backs)
  <2> HIDE DEF backs, fl
  <2> QED  BY <1>7, <1>13, FlattenJoins DEF fl
<1>15. nb = NewBlock(written, fl)  BY DEF Merged
<1> HIDE DEF backs, fl, nb
<1>16. /\ Len(fl) \in Nat /\ DOMAIN fl = 1..Len(fl)
       /\ \A i \in 1..m : \A j \in 1..Len(grp[i].rows) :
            /\ g[i - 1] + j \in 1..Len(fl)
            /\ fl[g[i - 1] + j].event = grp[i].rows[j].event
  <2> SUFFICES ASSUME NEW i \in 1..m, NEW j \in 1..Len(grp[i].rows)
               PROVE  /\ g[i - 1] + j \in 1..Len(fl)
                      /\ fl[g[i - 1] + j].event = grp[i].rows[j].event
    BY <1>14
  <2>1. j \in 1..Len(backs[i])  BY <1>12
  <2>2. g[i - 1] + j \in 1..Len(fl) /\ fl[g[i - 1] + j] = backs[i][j]
    BY <1>14, <2>1 DEF Joins
  <2> QED  BY <1>12, <2>2
<1>17. \A p \in 1..Len(fl) : \E i \in 1..m : \E j \in 1..Len(grp[i].rows) : p = g[i - 1] + j
  <2> SUFFICES ASSUME NEW p \in 1..Len(fl)
               PROVE  \E i \in 1..m : \E j \in 1..Len(grp[i].rows) : p = g[i - 1] + j
    OBVIOUS
  <2>1. PICK i \in 1..m : \E j \in 1..Len(backs[i]) : p = g[i - 1] + j  BY <1>14 DEF Joins
  <2> QED  BY <1>12, <2>1
<1>18. ASSUME NEW i \in 1..m, NEW x \in 1..m, NEW j \in 1..Len(grp[i].rows),
              NEW y \in 1..Len(grp[x].rows), grp[i].rows[j].event = grp[x].rows[y].event
       PROVE  i = x /\ j = y
  <2>1. /\ grp[i].rows[j].event \in EventsOf(grp[i].rows)
        /\ grp[x].rows[y].event \in EventsOf(grp[x].rows)
    BY <1>12 DEF EventsOf
  <2>a. grp[i] = s[o[i]] /\ grp[x] = s[o[x]] /\ o[i] \in 1..n /\ o[x] \in 1..n  BY <1>8
  <2>b. EventsOf(grp[i].rows) \cap EventsOf(grp[x].rows) # {}  BY <1>18, <2>1
  <2>2. o[i] = o[x]  BY <1>11, <2>a, <2>b
  <2>3. i = x  BY <1>a, <2>2
  <2>4. Distinct(grp[i].rows) /\ DOMAIN grp[i].rows = 1..Len(grp[i].rows)  BY <1>8, <1>10, <1>12
  <2>5. j = y  BY <1>18, <2>3, <2>4 DEF Distinct
  <2> QED  BY <2>3, <2>5
<1>19. Distinct(fl)
  <2> SUFFICES ASSUME NEW p \in 1..Len(fl), NEW r \in 1..Len(fl), fl[p].event = fl[r].event
               PROVE  p = r
    BY <1>16 DEF Distinct
  <2>a. PICK i \in 1..m : \E j \in 1..Len(grp[i].rows) : p = g[i - 1] + j  BY <1>17
  <2>1. PICK j \in 1..Len(grp[i].rows) : p = g[i - 1] + j  BY <2>a
  <2>b. PICK x \in 1..m : \E y \in 1..Len(grp[x].rows) : r = g[x - 1] + y  BY <1>17
  <2>2. PICK y \in 1..Len(grp[x].rows) : r = g[x - 1] + y  BY <2>b
  <2>3. grp[i].rows[j].event = grp[x].rows[y].event  BY <1>16, <2>1, <2>2
  <2>4. i = x /\ j = y  BY <1>18, <2>3, SMTT(30)
  <2> QED  BY <2>1, <2>2, <2>4
<1>20. Len(fl) # 0
  <2>1. 1 \in 1..m  BY <1>3, <1>7
  <2>2. Len(grp[1].rows) # 0  BY <1>8, <1>10, <2>1
  <2>3. 1 \in 1..Len(grp[1].rows)  BY <1>12, <2>1, <2>2
  <2>4. g[1 - 1] + 1 \in 1..Len(fl)  BY <1>16, <2>1, <2>3
  <2> QED  BY <1>16, <2>4
<1>21. /\ nb = [id |-> written, rows |-> nb.rows]
       /\ RowsFit(nb.rows) /\ EventsOf(nb.rows) = EventsOf(fl)
  BY <1>14, <1>15, <1>19, <1>20, NewBlockFits
<1>22. ASSUME NEW e
       PROVE  e \in EventsOf(fl) <=> \E x \in places : e \in EventsOf(s[x].rows)
  <2>1. ASSUME e \in EventsOf(fl) PROVE \E x \in places : e \in EventsOf(s[x].rows)
    <3>1. PICK p \in 1..Len(fl) : e = fl[p].event  BY <1>16, <2>1 DEF EventsOf
    <3>a. PICK i \in 1..m : \E j \in 1..Len(grp[i].rows) : p = g[i - 1] + j  BY <1>17
    <3>2. PICK j \in 1..Len(grp[i].rows) : p = g[i - 1] + j  BY <3>a
    <3>3. e = grp[i].rows[j].event  BY <1>16, <3>1, <3>2
    <3>4. e \in EventsOf(grp[i].rows)  BY <1>12, <3>3 DEF EventsOf
    <3> QED  BY <1>8, <3>4
  <2>2. ASSUME NEW x \in places, e \in EventsOf(s[x].rows) PROVE e \in EventsOf(fl)
    <3>1. PICK i \in 1..m : o[i] = x  BY <1>a
    <3>2. grp[i] = s[x]  BY <1>8, <3>1
    <3>3. PICK j \in 1..Len(grp[i].rows) : e = grp[i].rows[j].event
      BY <1>12, <2>2, <3>2 DEF EventsOf
    <3>4. g[i - 1] + j \in 1..Len(fl) /\ fl[g[i - 1] + j].event = e  BY <1>16, <3>3
    <3> QED  BY <1>16, <3>4 DEF EventsOf
  <2> QED  BY <2>1, <2>2
<1>23. \A x \in 1..n : \A e \in EventsOf(s[x].rows) : e \in arrived /\ KeyOf(e) = k
  BY <1>10 DEF BlockFits
<1>24. nb.id = written /\ BlockFits(nb, k, written + 1, arrived)
  <2>1. nb.id = written  BY <1>21
  <2>2. nb.rows \in Seq(AnyRow)  BY <1>21 DEF RowsFit
  <2>3. nb \in AnyBlock  BY <1>1, <1>21, <2>2 DEF AnyBlock
  <2>4. nb.id < written + 1  BY <1>1, <2>1
  <2>5. \A e \in EventsOf(nb.rows) : e \in arrived /\ KeyOf(e) = k  BY <1>4, <1>21, <1>22, <1>23
  <2> QED  BY <1>21, <2>3, <2>4, <2>5 DEF BlockFits
<1>25. BlocksFit(kept, k, written, arrived)
  <2>1. Apart(kept)
    <3> SUFFICES ASSUME NEW i \in 1..rest, NEW j \in 1..rest, i # j
                 PROVE  /\ kept[i].id # kept[j].id
                        /\ EventsOf(kept[i].rows) \cap EventsOf(kept[j].rows) = {}
      BY <1>9 DEF Apart
    <3>1. u[i] # u[j]  BY <1>b
    <3>2. kept[i] = s[u[i]] /\ kept[j] = s[u[j]] /\ u[i] \in 1..n /\ u[j] \in 1..n  BY <1>9
    <3> QED  BY <1>11, <3>1, <3>2
  <2> QED  BY <1>9, <1>10, <2>1 DEF BlocksFit
<1>26. \A i \in DOMAIN kept : EventsOf(kept[i].rows) \cap EventsOf(nb.rows) = {}
  <2> SUFFICES ASSUME NEW i \in 1..rest, NEW e, e \in EventsOf(kept[i].rows), e \in EventsOf(nb.rows)
               PROVE  FALSE
    BY <1>9
  <2>1. PICK x \in places : e \in EventsOf(s[x].rows)  BY <1>21, <1>22
  <2>2. u[i] # x /\ kept[i] = s[u[i]] /\ u[i] \in 1..n /\ x \in 1..n  BY <1>4, <1>9
  <2> QED  BY <1>11, <2>1, <2>2
<1>27. \A e \in arrived : KeyOf(e) = k =>
          e \in EventsOf(nb.rows) \/ \E i \in DOMAIN kept : e \in EventsOf(kept[i].rows)
  <2> SUFFICES ASSUME NEW e \in arrived, KeyOf(e) = k
               PROVE  e \in EventsOf(nb.rows) \/ \E i \in 1..rest : e \in EventsOf(kept[i].rows)
    BY <1>9
  <2>1. PICK x \in 1..n : e \in EventsOf(s[x].rows)  BY <1>1, <1>2 DEF HasAll
  <2>2. CASE x \in places  BY <1>21, <1>22, <2>1, <2>2
  <2>3. CASE x \in others
    <3>1. PICK i \in 1..rest : u[i] = x  BY <1>b, <2>3
    <3> QED  BY <1>9, <2>1, <3>1
  <2> QED  BY <1>4, <2>2, <2>3
<1>28. /\ BlocksFit(s1, k, written + 1, arrived) /\ HasAll(s1, k, arrived)
       /\ \A i \in DOMAIN s1 : s1[i].id = written \/ \E j \in DOMAIN kept : s1[i] = kept[j]
  <2>1. Share(kept, nb, k, arrived)  BY <1>26, <1>27 DEF Share
  <2>2. written \in Nat /\ nb.id = written  BY <1>1, <1>24
  <2>3. BlockFits(nb, k, written + 1, arrived)  BY <1>24
  <2>4. BlocksFit(kept, k, written, arrived)  BY <1>25
  <2>5. PICK a : a = arrived  OBVIOUS
  <2>6. PICK x : x = k  OBVIOUS
  <2>7. /\ BlocksFit(Append(kept, nb), x, written + 1, a) /\ HasAll(Append(kept, nb), x, a)
        /\ \A i \in DOMAIN Append(kept, nb) :
             \/ Append(kept, nb)[i].id = written
             \/ \E j \in DOMAIN kept : Append(kept, nb)[i] = kept[j]
    BY <2>1, <2>2, <2>3, <2>4, <2>5, <2>6, AppendFits
  <2> QED  BY <2>5, <2>6, <2>7
<1> HIDE DEF s1
<1>29. Replaced(k, s1)
  <2>1. manifest' = [x \in Keys \cup {k} |-> IF x = k THEN s1 ELSE Blocks(x)]
    <3>1. manifest = [x \in Keys |-> manifest[x]]  BY DEF StoreFits, Blocks
    <3>2. Keys = DOMAIN manifest /\ k \in Keys  BY DEF Keys
    <3> QED  BY <1>3, <3>1, <3>2 DEF Blocks
  <2>2. ASSUME NEW i \in DOMAIN s1
        PROVE  \/ s1[i].id = written
               \/ k \in Keys /\ \E j \in DOMAIN Blocks(k) : s1[i] = Blocks(k)[j]
    <3>1. CASE s1[i].id = written  BY <3>1
    <3>2. CASE \E j \in DOMAIN kept : s1[i] = kept[j]
      <4>1. PICK j \in DOMAIN kept : s1[i] = kept[j]  BY <3>2
      <4>2. kept[j] = s[u[j]] /\ u[j] \in DOMAIN s  BY <1>2, <1>9
      <4>3. s1[i] = s[u[j]]  BY <4>1, <4>2
      <4>4. \E x \in DOMAIN s : s1[i] = s[x]  BY <4>2, <4>3
      <4> QED  BY <4>4 DEF s
    <3> QED  BY <1>28, <3>1, <3>2
  <2>3. arrived \in SUBSET Events  BY DEF StoreFits
  <2> QED  BY <1>3, <1>28, <2>1, <2>2, <2>3 DEF Replaced
<1>30. k \in EventKeys  BY DEF StoreFits
<1> QED  BY <1>29, <1>30, ReplacedFits

LEMMA InitFits == StoreInit => StoreFits /\ CacheFits
<1> SUFFICES ASSUME StoreInit PROVE StoreFits /\ CacheFits  OBVIOUS
<1>1. Keys = {}  BY DEF StoreInit, Keys
<1>2. manifest = [k \in Keys |-> Blocks(k)]
  <2>1. <<>> = [k \in {} |-> manifest[k]]  OBVIOUS
  <2> QED  BY <1>1, <2>1 DEF StoreInit, Blocks
<1>3. IsFiniteSet(Keys)  BY <1>1, FS_EmptySet
<1>4. StoreFits  BY <1>1, <1>2, <1>3 DEF StoreFits, StoreInit
<1>5. CacheFits  BY <1>1 DEF CacheFits, StoreInit
<1> QED  BY <1>4, <1>5

(* What stays when only the cache changes.                                 *)
LEMMA UnchangedFits ==
  ASSUME StoreFits, UNCHANGED <<manifest, arrived, written>>
  PROVE  StoreFits' /\ Keys' = Keys /\ \A k : Blocks(k)' = Blocks(k)
<1>1. Keys' = Keys /\ \A k : Blocks(k)' = Blocks(k)  BY DEF Keys, Blocks
<1>2. StoreFits'
  <2>1. manifest' = [k \in Keys' |-> Blocks(k)']  BY <1>1 DEF StoreFits
  <2> QED  BY <1>1, <2>1 DEF StoreFits
<1> QED  BY <1>1, <1>2

(* An identity names one block.                                            *)
LEMMA OneBlock ==
  ASSUME StoreFits, NEW k \in Keys, NEW l \in Keys,
         NEW i \in DOMAIN Blocks(k), NEW j \in DOMAIN Blocks(l),
         Blocks(k)[i].id = Blocks(l)[j].id
  PROVE  k = l /\ i = j
<1>1. k = l  BY DEF StoreFits
<1>2. Apart(Blocks(k))  BY DEF StoreFits, BlocksFit
<1>3. i = j  BY <1>1, <1>2 DEF Apart
<1> QED  BY <1>1, <1>3

LEMMA BlockFacts ==
  ASSUME StoreFits, NEW k \in Keys, NEW i \in DOMAIN Blocks(k)
  PROVE  /\ Blocks(k)[i] \in AnyBlock /\ Blocks(k)[i].id < written
         /\ RowsFit(Blocks(k)[i].rows)
         /\ \A e \in EventsOf(Blocks(k)[i].rows) : e \in arrived /\ KeyOf(e) = k
<1>1. BlockFits(Blocks(k)[i], k, written, arrived)
  <2>1. BlocksFit(Blocks(k), k, written, arrived)  BY DEF StoreFits
  <2> QED  BY <2>1 DEF BlocksFit
<1> QED  BY <1>1 DEF BlockFits

LEMMA AskFits ==
  ASSUME StoreFits, CacheFits, NEW q, Ask(q)
  PROVE  StoreFits' /\ CacheFits'
<1>1. /\ UNCHANGED <<manifest, arrived, written>>
      /\ cache' = cache \cup NewEntries(Read(q), PlannedNode(q), q)
  BY DEF Ask
<1>2. StoreFits' /\ Keys' = Keys /\ \A k : Blocks(k)' = Blocks(k)  BY <1>1, UnchangedFits
<1>3. ASSUME NEW c \in NewEntries(Read(q), PlannedNode(q), q)
      PROVE  /\ c.id \in Nat /\ c.id < written
             /\ \A k \in Keys : \A i \in DOMAIN Blocks(k) :
                  Blocks(k)[i].id = c.id => c.rows = Eval(Blocks(k)[i], c.node)
  <2>1. PICK b \in Read(q) : c = Entry(b, PlannedNode(q), q)  BY DEF NewEntries
  <2>2. c.id = b.id /\ c.rows = Eval(b, c.node)  BY <2>1 DEF Entry
  <2>3. PICK l \in Planned(q) : b \in ToSet(Blocks(l))  BY DEF Read
  <2>4. l \in Keys  BY <2>3 DEF Planned, PlannedOf, FilterPartitions
  <2>5. PICK j \in DOMAIN Blocks(l) : b = Blocks(l)[j]  BY <2>3 DEF ToSet
  <2>6. b \in AnyBlock /\ b.id < written  BY <2>4, <2>5, BlockFacts
  <2>7. b.id \in Nat  BY <2>6 DEF AnyBlock
  <2>8. ASSUME NEW k \in Keys, NEW i \in DOMAIN Blocks(k), Blocks(k)[i].id = c.id
        PROVE  c.rows = Eval(Blocks(k)[i], c.node)
    <3>1. k = l /\ i = j  BY <2>2, <2>4, <2>5, <2>8, OneBlock
    <3> QED  BY <2>2, <2>5, <3>1
  <2> QED  BY <2>2, <2>6, <2>7, <2>8
<1>4. CacheFits'
  <2> SUFFICES ASSUME NEW c \in cache'
               PROVE  /\ c.id \in Nat /\ c.id < written
                      /\ \A k \in Keys : \A i \in DOMAIN Blocks(k) :
                           Blocks(k)[i].id = c.id => c.rows = Eval(Blocks(k)[i], c.node)
    BY <1>1, <1>2 DEF CacheFits
  <2>1. CASE c \in cache  BY <2>1 DEF CacheFits
  <2>2. CASE c \in NewEntries(Read(q), PlannedNode(q), q)  BY <1>3, <2>2
  <2> QED  BY <1>1, <2>1, <2>2
<1> QED  BY <1>2, <1>4

LEMMA EvictFits ==
  ASSUME StoreFits, CacheFits, NEW c, Evict(c)
  PROVE  StoreFits' /\ CacheFits'
<1>1. /\ UNCHANGED <<manifest, arrived, written>> /\ cache' = cache \ {c}
  BY DEF Evict
<1>2. StoreFits' /\ Keys' = Keys /\ \A k : Blocks(k)' = Blocks(k)  BY <1>1, UnchangedFits
<1>3. CacheFits'  BY <1>1, <1>2 DEF CacheFits
<1> QED  BY <1>2, <1>3

LEMMA StoreStep ==
  ASSUME StoreFits, CacheFits, [StoreNext]_store
  PROVE  StoreFits' /\ CacheFits'
<1>1. CASE \E es \in Batches : Ingest(es)  BY <1>1, IngestFits
<1>2. CASE \E k \in Keys : \E places \in SUBSET (DOMAIN Blocks(k)) : Compact(k, places)
  BY <1>2, CompactFits
<1>3. CASE \E q \in CachedQuery : Ask(q)  BY <1>3, AskFits
<1>4. CASE \E c \in cache : Evict(c)  BY <1>4, EvictFits
<1>5. CASE UNCHANGED store
  <2>1. UNCHANGED <<manifest, arrived, written>> /\ cache' = cache /\ written' = written
    BY <1>5 DEF store
  <2>2. StoreFits' /\ Keys' = Keys /\ \A k : Blocks(k)' = Blocks(k)  BY <2>1, UnchangedFits
  <2>3. CacheFits'  BY <2>1, <2>2 DEF CacheFits
  <2> QED  BY <2>2, <2>3
<1> QED  BY <1>1, <1>2, <1>3, <1>4, <1>5 DEF StoreNext

LEMMA StoreAlways == StoreSpec => [](StoreFits /\ CacheFits)
<1>1. StoreInit => StoreFits /\ CacheFits  BY InitFits
<1>2. (StoreFits /\ CacheFits) /\ [StoreNext]_store => (StoreFits /\ CacheFits)'  BY StoreStep
<1> QED  BY <1>1, <1>2, PTL DEF StoreSpec

(* Every event is stored in one row, of the partition it belongs to,       *)
(* through flushes and compactions in any order (ingest_batch, compact).   *)
EventsOnce ==
  /\ \A k \in Keys : \A i \in DOMAIN Blocks(k) :
       EventsOf(Blocks(k)[i].rows) \in SUBSET arrived
  /\ \A e \in arrived : \E k \in Keys : \E i \in DOMAIN Blocks(k) :
       \E j \in DOMAIN Blocks(k)[i].rows :
         /\ Blocks(k)[i].rows[j].event = e
         /\ \A l \in Keys : \A x \in DOMAIN Blocks(l) : \A y \in DOMAIN Blocks(l)[x].rows :
              Blocks(l)[x].rows[y].event = e => l = k /\ x = i /\ y = j

(* No row is lost by a flush or a compaction, and none is there twice.     *)
THEOREM StoredOnce == StoreSpec => []EventsOnce
<1>1. StoreFits => EventsOnce
  <2> SUFFICES ASSUME StoreFits PROVE EventsOnce  OBVIOUS
  <2>1. ASSUME NEW k \in Keys, NEW i \in DOMAIN Blocks(k)
        PROVE  EventsOf(Blocks(k)[i].rows) \in SUBSET arrived
    BY BlockFacts
  <2>2. ASSUME NEW e \in arrived
        PROVE  \E k \in Keys : \E i \in DOMAIN Blocks(k) : \E j \in DOMAIN Blocks(k)[i].rows :
                 /\ Blocks(k)[i].rows[j].event = e
                 /\ \A l \in Keys : \A x \in DOMAIN Blocks(l) : \A y \in DOMAIN Blocks(l)[x].rows :
                      Blocks(l)[x].rows[y].event = e => l = k /\ x = i /\ y = j
    <3>1. PICK k \in Keys : k = KeyOf(e)  BY DEF StoreFits
    <3>2. HasAll(Blocks(k), k, arrived) /\ Apart(Blocks(k))  BY DEF StoreFits, BlocksFit
    <3>3. PICK i \in DOMAIN Blocks(k) : e \in EventsOf(Blocks(k)[i].rows)
      BY <3>1, <3>2 DEF HasAll
    <3>4. PICK j \in DOMAIN Blocks(k)[i].rows : Blocks(k)[i].rows[j].event = e
      BY <3>3 DEF EventsOf
    <3>5. ASSUME NEW l \in Keys, NEW x \in DOMAIN Blocks(l), NEW y \in DOMAIN Blocks(l)[x].rows,
                 Blocks(l)[x].rows[y].event = e
          PROVE  l = k /\ x = i /\ y = j
      <4>1. e \in EventsOf(Blocks(l)[x].rows)  BY <3>5 DEF EventsOf
      <4>2. l = k  BY <3>1, <4>1, BlockFacts
      <4>3. x = i  BY <3>2, <3>3, <4>1, <4>2 DEF Apart
      <4>4. Distinct(Blocks(k)[i].rows)  BY BlockFacts DEF RowsFit
      <4>5. y = j  BY <3>4, <3>5, <4>2, <4>3, <4>4 DEF Distinct
      <4> QED  BY <4>2, <4>3, <4>5
    <3> QED  BY <3>4, <3>5
  <2> QED  BY <2>1, <2>2 DEF EventsOnce
<1> QED  BY <1>1, StoreAlways, PTL

(* Whatever was asked and evicted, and whatever a compaction wrote since,  *)
(* the cache says of a stored block what the filter selects in it          *)
(* (eval_cached).                                                          *)
CacheExact ==
  \A k \in Keys : \A b \in ToSet(Blocks(k)) : \A c \in cache :
    c.id = b.id => c.rows = Eval(b, c.node)

(* A cached answer for a stored block is always the one its filter gives.  *)
THEOREM CacheIsExact == StoreSpec => []CacheExact
<1>1. StoreFits /\ CacheFits => CacheExact
  <2> SUFFICES ASSUME StoreFits, CacheFits, NEW k \in Keys, NEW b \in ToSet(Blocks(k)),
                      NEW c \in cache, c.id = b.id
               PROVE  c.rows = Eval(b, c.node)
    BY DEF CacheExact
  <2>1. PICK i \in DOMAIN Blocks(k) : b = Blocks(k)[i]  BY DEF ToSet
  <2> QED  BY <2>1 DEF CacheFits
<1> QED  BY <1>1, StoreAlways, PTL

-----------------------------------------------------------------------------
(* Counting.                                                               *)

LEMMA SameCount ==
  ASSUME NEW S, IsFiniteSet(S), NEW T, NEW f \in [S -> T],
         \A x, y \in S : f[x] = f[y] => x = y, \A y \in T : \E x \in S : f[x] = y
  PROVE  IsFiniteSet(T) /\ Cardinality(T) = Cardinality(S)
<1>1. f \in Surjection(S, T)  BY DEF Surjection
<1>2. f \in Injection(S, T)  BY DEF Injection, IsInjective
<1> QED  BY <1>1, <1>2, FS_Surjection

LEMMA AtLeast ==
  ASSUME NEW S, IsFiniteSet(S), NEW n \in Nat, NEW f \in [1..n -> S],
         \A i, j \in 1..n : f[i] = f[j] => i = j
  PROVE  n <= Cardinality(S)
<1>1. f \in Injection(1..n, S)  BY DEF Injection, IsInjective
<1>2. Cardinality(1..n) <= Cardinality(S)  BY <1>1, FS_Injection
<1>3. Cardinality(1..n) = n
  <2>1. 1 \in Int /\ n \in Int  OBVIOUS
  <2>2. Cardinality(1..n) = IF 1 > n THEN 0 ELSE n - 1 + 1  BY <2>1, FS_Interval
  <2> QED  BY <2>2
<1> QED  BY <1>2, <1>3

LEMMA AtMost ==
  ASSUME NEW S, NEW n \in Nat, NEW f, \A x \in S : \E i \in 1..n : f[i] = x
  PROVE  IsFiniteSet(S) /\ Cardinality(S) <= n
<1> DEFINE g == [x \in S |-> CHOOSE i \in 1..n : f[i] = x]
<1>1. \A x \in S : g[x] \in 1..n /\ f[g[x]] = x  OBVIOUS
<1>2. g \in [S -> 1..n]  BY <1>1
<1>3. g \in Injection(S, 1..n)
  <2>1. \A x, y \in S : g[x] = g[y] => x = y
    <3> SUFFICES ASSUME NEW x \in S, NEW y \in S, g[x] = g[y] PROVE x = y  OBVIOUS
    <3>1. f[g[x]] = x /\ f[g[y]] = y  BY <1>1
    <3> HIDE DEF g
    <3> QED  BY <3>1
  <2> HIDE DEF g
  <2> QED  BY <1>2, <2>1 DEF Injection, IsInjective
<1>4. IsFiniteSet(1..n) /\ Cardinality(1..n) = n
  <2>1. 1 \in Int /\ n \in Int  OBVIOUS
  <2>2. IsFiniteSet(1..n) /\ Cardinality(1..n) = IF 1 > n THEN 0 ELSE n - 1 + 1
    BY <2>1, FS_Interval
  <2> QED  BY <2>2
<1> HIDE DEF g
<1> QED  BY <1>3, <1>4, FS_Injection

LEMMA ListExists ==
  ASSUME NEW S, NEW R, IsFiniteSet(S), StrictOrder(S, R)
  PROVE  \E f : Lists(f, S, R)
<1> DEFINE f == [i \in 1..Cardinality(S) |-> CHOOSE x \in S : Cardinality(Below(S, R, x)) = i - 1]
<1>1. \A i \in 1..Cardinality(S) :
        (\E x \in S : Cardinality(Below(S, R, x)) = i - 1)
           => f[i] \in S /\ Cardinality(Below(S, R, f[i])) = i - 1
  OBVIOUS
<1>2. f = [i \in 1..Cardinality(S) |-> f[i]]  OBVIOUS
<1> HIDE DEF f
<1>3. Ranks(f, S, R)  BY <1>1, <1>2 DEF Ranks
<1> QED  BY <1>3, RankedLists

(* Of the numbers in T, those with fewer than lim greater ones: as many as *)
(* lim when one was left out, and it is below them all.                    *)
LEMMA NewestAre ==
  ASSUME NEW n \in Nat, NEW T \in SUBSET (1..n), NEW lim \in Nat, NEW j \in T,
         j \notin Newest(T, lim)
  PROVE  /\ Newest(T, lim) \in SUBSET T
         /\ \A x \in Newest(T, lim) : x > j
         /\ \E f \in [1..lim -> Newest(T, lim)] : \A x, y \in 1..lim : f[x] = f[y] => x = y
<1> DEFINE R == {p \in T \X T : p[1] > p[2]}
           Over(x) == {y \in T : y > x}
<1>1. IsFiniteSet(T) /\ Cardinality(T) \in Nat
  <2>1. 1 \in Int /\ n \in Int  OBVIOUS
  <2>2. IsFiniteSet(1..n)  BY <2>1, FS_Interval
  <2> QED  BY <2>2, FS_Subset, FS_CardinalityType
<1>2. StrictOrder(T, R)  BY DEF StrictOrder
<1>3. \A x \in T : Below(T, R, x) = Over(x)  BY DEF Below
<1>4. Newest(T, lim) = {x \in T : Cardinality(Over(x)) < lim}  BY DEF Newest
<1>5. PICK f : Lists(f, T, R)
  <2> HIDE DEF R
  <2> QED  BY <1>1, <1>2, ListExists
<1>6. \A x \in T : /\ IsFiniteSet(Over(x)) /\ Cardinality(Over(x)) \in Nat
                   /\ Cardinality(Over(x)) <= Cardinality(T)
  <2> SUFFICES ASSUME NEW x \in T
               PROVE  /\ IsFiniteSet(Over(x)) /\ Cardinality(Over(x)) \in Nat
                      /\ Cardinality(Over(x)) <= Cardinality(T)
    OBVIOUS
  <2>1. Over(x) \in SUBSET T  OBVIOUS
  <2> HIDE DEF Over
  <2> QED  BY <1>1, <2>1, FS_Subset, FS_CardinalityType
<1>7. lim <= Cardinality(T)
  <2>1. ~(Cardinality(Over(j)) < lim)
    <3> HIDE DEF Over
    <3> QED  BY <1>4
  <2>2. Cardinality(Over(j)) \in Nat /\ Cardinality(Over(j)) <= Cardinality(T)
    <3> HIDE DEF Over
    <3> QED  BY <1>6
  <2> HIDE DEF Over
  <2> QED  BY <1>1, <2>1, <2>2
<1>8. ASSUME NEW x \in Newest(T, lim) PROVE x \in T /\ x > j
  <2>1. x \in T /\ Cardinality(Over(x)) < lim
    <3> HIDE DEF Over
    <3> QED  BY <1>4
  <2>2. x \in 1..n /\ j \in 1..n  BY <2>1
  <2>3. SUFFICES ASSUME ~(x > j) PROVE FALSE  BY <2>1
  <2>4. Over(j) \in SUBSET T /\ Over(x) \in SUBSET T  OBVIOUS
  <2>5. Over(j) \in SUBSET Over(x)
    <3>1. ASSUME NEW y \in T, y > j PROVE y > x
      <4>1. y \in 1..n  OBVIOUS
      <4> QED  BY <2>2, <2>3, <3>1, <4>1
    <3> QED  BY <3>1
  <2> HIDE DEF Over
  <2>6. Cardinality(Over(j)) <= Cardinality(Over(x))  BY <1>6, <2>1, <2>5, FS_Subset
  <2>7. Cardinality(Over(j)) \in Nat /\ Cardinality(Over(x)) \in Nat  BY <1>6, <2>1
  <2>8. Cardinality(Over(j)) < lim  BY <2>1, <2>6, <2>7
  <2> QED  BY <1>4, <2>8
<1> DEFINE h == [i \in 1..lim |-> f[i]]
<1> HIDE DEF R, Over
<1>9. ASSUME NEW i \in 1..lim PROVE i \in 1..Cardinality(T) /\ h[i] = f[i] /\ f[i] \in Newest(T, lim)
  <2>1. i \in 1..Cardinality(T)  BY <1>1, <1>7
  <2>2. f[i] \in T /\ Cardinality(Below(T, R, f[i])) = i - 1  BY <1>5, <2>1 DEF Lists
  <2>3. Cardinality(Over(f[i])) = i - 1  BY <1>3, <2>2
  <2>4. i - 1 < lim  OBVIOUS
  <2> QED  BY <1>4, <2>1, <2>2, <2>3, <2>4
<1>10. h \in [1..lim -> Newest(T, lim)]  BY <1>9
<1>11. ASSUME NEW x \in 1..lim, NEW y \in 1..lim, h[x] = h[y] PROVE x = y
  <2>1. f[x] = f[y] /\ x \in 1..Cardinality(T) /\ y \in 1..Cardinality(T)  BY <1>9, <1>11
  <2>2. (x < y <=> <<f[x], f[y]>> \in R) /\ (y < x <=> <<f[y], f[x]>> \in R)
    BY <1>5, <2>1 DEF Lists
  <2>3. <<f[x], f[x]>> \notin R
    <3>1. f[x] \in T  BY <1>5, <2>1 DEF Lists
    <3> QED  BY <1>2, <3>1 DEF StrictOrder
  <2> QED  BY <2>1, <2>2, <2>3
<1> HIDE DEF h
<1> QED  BY <1>8, <1>10, <1>11

-----------------------------------------------------------------------------
(* What one partition answers, said of the events of the selected rows.    *)

Time(e) == IF e.ts = None THEN 0 ELSE e.ts

(* sel selects some rows of each of the blocks bs of one partition.        *)
Selects(bs, sel, n) ==
  /\ n \in Nat /\ DOMAIN bs = 1..n
  /\ \A i \in 1..n : RowsFit(bs[i].rows) /\ sel[i] \in SUBSET (DOMAIN bs[i].rows)
  /\ \A i, j \in 1..n : i # j => EventsOf(bs[i].rows) \cap EventsOf(bs[j].rows) = {}

Found(bs, sel, n) ==
  {e \in Events : \E i \in 1..n : \E j \in sel[i] : bs[i].rows[j].event = e}

LEMMA PlaceFacts ==
  ASSUME NEW bs, NEW sel, NEW n, Selects(bs, sel, n), NEW i \in 1..n, NEW j \in sel[i]
  PROVE  /\ n \in Nat /\ i \in Nat /\ j \in Nat
         /\ bs[i].rows[j].event \in Found(bs, sel, n)
         /\ bs[i].rows[j].event \in Events
         /\ bs[i].rows[j].ts = Time(bs[i].rows[j].event)
         /\ bs[i].rows[j].ts \in Int
<1>1. /\ n \in Nat /\ bs[i].rows \in Seq(AnyRow) /\ sel[i] \in SUBSET (DOMAIN bs[i].rows)
  BY DEF Selects, RowsFit
<1>2. bs[i].rows[j] \in AnyRow /\ j \in Nat  BY <1>1
<1>3. /\ bs[i].rows[j].event \in Events /\ bs[i].rows[j].ts \in Int
      /\ bs[i].rows[j].ts = Time(bs[i].rows[j].event)
  BY <1>2, RowFacts DEF Time
<1>4. bs[i].rows[j].event \in Found(bs, sel, n)  BY <1>3 DEF Found
<1> QED  BY <1>1, <1>2, <1>3, <1>4

LEMMA OnePlace ==
  ASSUME NEW bs, NEW sel, NEW n, Selects(bs, sel, n),
         NEW i \in 1..n, NEW j \in sel[i], NEW x \in 1..n, NEW y \in sel[x],
         bs[i].rows[j].event = bs[x].rows[y].event
  PROVE  i = x /\ j = y
<1>1. /\ j \in DOMAIN bs[i].rows /\ y \in DOMAIN bs[x].rows
      /\ Distinct(bs[i].rows)
  BY DEF Selects, RowsFit
<1>2. /\ bs[i].rows[j].event \in EventsOf(bs[i].rows)
      /\ bs[x].rows[y].event \in EventsOf(bs[x].rows)
  BY <1>1 DEF EventsOf
<1>3. i = x  BY <1>2 DEF Selects
<1>4. j = y  BY <1>1, <1>3 DEF Distinct
<1> QED  BY <1>3, <1>4

LEMMA SelFinite ==
  ASSUME NEW bs, NEW sel, NEW n, Selects(bs, sel, n), NEW i \in 1..n
  PROVE  /\ IsFiniteSet(sel[i]) /\ Cardinality(sel[i]) \in Nat
         /\ Len(bs[i].rows) \in Nat /\ sel[i] \in SUBSET (1..Len(bs[i].rows))
<1>1. bs[i].rows \in Seq(AnyRow) /\ sel[i] \in SUBSET (DOMAIN bs[i].rows)
  BY DEF Selects, RowsFit
<1>2. Len(bs[i].rows) \in Nat /\ sel[i] \in SUBSET (1..Len(bs[i].rows))  BY <1>1
<1>3. 1 \in Int /\ Len(bs[i].rows) \in Int  BY <1>2
<1>4. IsFiniteSet(1..Len(bs[i].rows))  BY <1>3, FS_Interval
<1> QED  BY <1>2, <1>4, FS_Subset, FS_CardinalityType

LEMMA FoundFinite ==
  ASSUME NEW bs, NEW sel, NEW n, Selects(bs, sel, n)
  PROVE  IsFiniteSet(Found(bs, sel, n)) /\ Cardinality(Found(bs, sel, n)) \in Nat
<1> DEFINE In(i) == {e \in Events : \E j \in sel[i] : bs[i].rows[j].event = e}
           Ins == {In(i) : i \in 1..n}
           f == [i \in 1..n |-> In(i)]
<1>1. n \in Nat  BY DEF Selects
<1>2. ASSUME NEW i \in 1..n PROVE IsFiniteSet(In(i))
  <2> DEFINE g == [j \in sel[i] |-> bs[i].rows[j].event]
  <2>1. \A j \in sel[i] : bs[i].rows[j].event \in Events  BY PlaceFacts
  <2>2. g \in Surjection(sel[i], In(i))  BY <2>1 DEF Surjection
  <2> HIDE DEF g, In
  <2> QED  BY <2>2, SelFinite, FS_Surjection
<1>3. IsFiniteSet(Ins)
  <2>1. f \in Surjection(1..n, Ins)
    <3> HIDE DEF In
    <3> QED  BY DEF Surjection
  <2>2. IsFiniteSet(1..n)
    <3>1. 1 \in Int /\ n \in Int  BY <1>1
    <3> QED  BY <3>1, FS_Interval
  <2> HIDE DEF f, Ins
  <2> QED  BY <2>1, <2>2, FS_Surjection
<1>4. Found(bs, sel, n) = UNION Ins  BY DEF Found
<1>5. IsFiniteSet(UNION Ins)
  <2>1. \A T \in Ins : IsFiniteSet(T)
    <3> HIDE DEF In
    <3> QED  BY <1>2
  <2> HIDE DEF Ins
  <2> QED  BY <1>3, <2>1, FS_UNION
<1> QED  BY <1>4, <1>5, FS_CardinalityType

LEMMA TotalExact ==
  ASSUME NEW bs, NEW sel, NEW n, Selects(bs, sel, n)
  PROVE  SumSeq([i \in DOMAIN bs |-> Cardinality(sel[i])]) = Cardinality(Found(bs, sel, n))
<1> DEFINE M == Found(bs, sel, n)
           f == [e \in M |-> CHOOSE i \in 1..n : \E j \in sel[i] : bs[i].rows[j].event = e]
           s == [i \in 1..n |-> Cardinality(sel[i])]
<1>1. IsFiniteSet(M)  BY FoundFinite
<1>2. n \in Nat /\ DOMAIN bs = 1..n  BY DEF Selects
<1>3. \A e \in M : f[e] \in 1..n /\ \E j \in sel[f[e]] : bs[f[e]].rows[j].event = e
  BY DEF Found
<1>4. s \in [1..n -> Nat]  BY SelFinite
<1>5. ASSUME NEW i \in 1..n PROVE s[i] = Cardinality(Class(M, f, i))
  <2> DEFINE g == [j \in sel[i] |-> bs[i].rows[j].event]
             T == {e \in M : f[e] = i}
  <2> HIDE DEF f, M
  <2>1. ASSUME NEW j \in sel[i] PROVE g[j] \in T
    <3>1. g[j] = bs[i].rows[j].event /\ g[j] \in M  BY PlaceFacts DEF M
    <3>a. PICK e \in M : e = g[j]  BY <3>1
    <3> HIDE DEF g
    <3>2. PICK z \in 1..n : z = f[e] /\ \E y \in sel[z] : bs[z].rows[y].event = e  BY <1>3
    <3>3. PICK y \in sel[z] : bs[z].rows[y].event = bs[i].rows[j].event  BY <3>1, <3>a, <3>2
    <3>5. z = i  BY <3>3, OnePlace
    <3>4. f[g[j]] = i  BY <3>a, <3>2, <3>5
    <3> QED  BY <3>1, <3>4
  <2>2. g \in [sel[i] -> T]
    <3>1. g = [j \in sel[i] |-> g[j]]  OBVIOUS
    <3> HIDE DEF g, T
    <3> QED  BY <2>1, <3>1
  <2>3. \A x, y \in sel[i] : g[x] = g[y] => x = y
    <3> SUFFICES ASSUME NEW x \in sel[i], NEW y \in sel[i], g[x] = g[y] PROVE x = y  OBVIOUS
    <3>1. bs[i].rows[x].event = bs[i].rows[y].event  OBVIOUS
    <3> HIDE DEF g
    <3> QED  BY <3>1, OnePlace
  <2>4. \A e \in T : \E x \in sel[i] : g[x] = e
    <3> SUFFICES ASSUME NEW e \in M, f[e] = i PROVE \E x \in sel[i] : g[x] = e  OBVIOUS
    <3>1. PICK j \in sel[i] : bs[i].rows[j].event = e  BY <1>3
    <3> QED  BY <3>1
  <2> HIDE DEF g, T
  <2>5. Cardinality(T) = Cardinality(sel[i])  BY <2>2, <2>3, <2>4, SelFinite, SameCount
  <2> QED  BY <2>5 DEF T, Class
<1>6. f \in [M -> 1..n]
  <2> HIDE DEF M
  <2> QED  BY <1>3
<1>7. SumSeq(s) = Cardinality(M)
  <2> HIDE DEF f, s, M
  <2> QED  BY <1>1, <1>2, <1>4, <1>5, <1>6, SumOfClasses, SMTT(30)
<1>8. s = [i \in DOMAIN bs |-> Cardinality(sel[i])]  BY <1>2
<1> HIDE DEF s, f
<1> QED  BY <1>7, <1>8

Hit == [ts : Int, block : Nat, row : Nat, event : Events]

(* hits is a newest part of E, all of it unless there are lim of them.     *)
PartHits(hits, E, lim) ==
  /\ hits \in Seq(Hit) /\ Len(hits) <= lim
  /\ \A x \in 1..Len(hits) : hits[x].event \in E /\ hits[x].ts = Time(hits[x].event)
  /\ \A x, y \in 1..Len(hits) : hits[x].event = hits[y].event => x = y
  /\ \A e \in E : \/ \E x \in 1..Len(hits) : hits[x].event = e
                  \/ Len(hits) = lim /\ \A x \in 1..Len(hits) : hits[x].ts >= Time(e)

HitAt(bs, i, j) ==
  [ts |-> bs[i].rows[j].ts, block |-> i, row |-> j, event |-> bs[i].rows[j].event]

Candidates(bs, sel, lim) == UNION {{HitAt(bs, i, j) : j \in Newest(sel[i], lim)} : i \in DOMAIN bs}

SoonerIn(C) == {p \in C \X C : Sooner(p[1], p[2])}

LEMMA CandidateFacts ==
  ASSUME NEW bs, NEW sel, NEW n, Selects(bs, sel, n), NEW lim
  PROVE  LET C == Candidates(bs, sel, lim)
         IN  /\ \A i \in 1..n : \A j \in Newest(sel[i], lim) : j \in sel[i] /\ HitAt(bs, i, j) \in C
             /\ \A c \in C : /\ c \in Hit /\ c.event \in Found(bs, sel, n) /\ c.ts = Time(c.event)
                             /\ c.block \in 1..n /\ c.row \in sel[c.block]
                             /\ c = HitAt(bs, c.block, c.row)
             /\ \A c, d \in C : c.event = d.event => c = d
<1> DEFINE C == Candidates(bs, sel, lim)
<1>1. DOMAIN bs = 1..n /\ n \in Nat  BY DEF Selects
<1>2. \A i : Newest(sel[i], lim) \in SUBSET sel[i]  BY DEF Newest
<1>3. \A c : c \in C <=> \E i \in 1..n : \E j \in Newest(sel[i], lim) : c = HitAt(bs, i, j)
  BY <1>1 DEF Candidates
<1> HIDE DEF C
<1>4. ASSUME NEW c \in C
      PROVE  /\ c \in Hit /\ c.event \in Found(bs, sel, n) /\ c.ts = Time(c.event)
             /\ c.block \in 1..n /\ c.row \in sel[c.block]
             /\ c = HitAt(bs, c.block, c.row)
  <2>1. PICK i \in 1..n : \E j \in Newest(sel[i], lim) : c = HitAt(bs, i, j)  BY <1>3
  <2>2. PICK j \in Newest(sel[i], lim) : c = HitAt(bs, i, j)  BY <2>1
  <2>3. j \in sel[i]  BY <1>2
  <2>4. /\ i \in Nat /\ j \in Nat /\ bs[i].rows[j].event \in Found(bs, sel, n)
        /\ bs[i].rows[j].event \in Events
        /\ bs[i].rows[j].ts = Time(bs[i].rows[j].event) /\ bs[i].rows[j].ts \in Int
    BY <2>3, PlaceFacts
  <2>5. /\ c.block = i /\ c.row = j /\ c.ts = bs[i].rows[j].ts
        /\ c.event = bs[i].rows[j].event /\ c \in Hit
    BY <2>2, <2>4 DEF HitAt, Hit
  <2> QED  BY <2>2, <2>3, <2>4, <2>5
<1>5. ASSUME NEW c \in C, NEW d \in C, c.event = d.event PROVE c = d
  <2>1. /\ c.block \in 1..n /\ c.row \in sel[c.block] /\ c = HitAt(bs, c.block, c.row)
        /\ d.block \in 1..n /\ d.row \in sel[d.block] /\ d = HitAt(bs, d.block, d.row)
    BY <1>4
  <2>2. /\ c.event = bs[c.block].rows[c.row].event
        /\ d.event = bs[d.block].rows[d.row].event
    BY <2>1 DEF HitAt
  <2>a. PICK i \in 1..n : i = c.block  BY <2>1
  <2>b. PICK x \in 1..n : x = d.block  BY <2>1
  <2>c. PICK j \in sel[i] : j = c.row  BY <2>1, <2>a
  <2>d. PICK y \in sel[x] : y = d.row  BY <2>1, <2>b
  <2>e. bs[i].rows[j].event = bs[x].rows[y].event  BY <1>5, <2>2, <2>a, <2>b, <2>c, <2>d
  <2>f. i = x /\ j = y  BY <2>e, OnePlace
  <2>3. c.block = d.block /\ c.row = d.row  BY <2>a, <2>b, <2>c, <2>d, <2>f
  <2> QED  BY <2>1, <2>3
<1>6. \A i \in 1..n : \A j \in Newest(sel[i], lim) : j \in sel[i] /\ HitAt(bs, i, j) \in C
  BY <1>2, <1>3
<1> QED  BY <1>4, <1>5, <1>6 DEF C

LEMMA CandidatesRanked ==
  ASSUME NEW bs, NEW sel, NEW n, Selects(bs, sel, n), NEW lim
  PROVE  LET C == Candidates(bs, sel, lim)
         IN  /\ IsFiniteSet(C) /\ Cardinality(C) \in Nat
             /\ StrictOrder(C, SoonerIn(C))
             /\ Lists(Ranked(C, Sooner), C, SoonerIn(C))
<1> DEFINE C == Candidates(bs, sel, lim)
           R == SoonerIn(C)
           f == [c \in C |-> c.event]
           First(x) == {y \in C : Sooner(y, x)}
           o == Ranked(C, Sooner)
<1>1. /\ \A c \in C : /\ c \in Hit /\ c.event \in Found(bs, sel, n)
                      /\ c = HitAt(bs, c.block, c.row)
      /\ \A c, d \in C : c.event = d.event => c = d
  BY CandidateFacts
<1> HIDE DEF C
<1>2. IsFiniteSet(C) /\ Cardinality(C) \in Nat
  <2>1. f \in Injection(C, Found(bs, sel, n))  BY <1>1 DEF Injection, IsInjective
  <2> HIDE DEF f
  <2> QED  BY <2>1, FoundFinite, FS_Injection, FS_CardinalityType
<1>3. \A c \in C : c.ts \in Int /\ c.block \in Nat /\ c.row \in Nat  BY <1>1 DEF Hit
<1>4. \A c, d \in C : c.block = d.block /\ c.row = d.row => c = d  BY <1>1
<1>5. \A c \in C : ~Sooner(c, c)  BY <1>3 DEF Sooner
<1>6. \A c, d \in C : c # d => Sooner(c, d) \/ Sooner(d, c)
  <2> SUFFICES ASSUME NEW c \in C, NEW d \in C, c # d PROVE Sooner(c, d) \/ Sooner(d, c)
    OBVIOUS
  <2>1. c.block # d.block \/ c.row # d.row  BY <1>4
  <2> QED  BY <1>3, <2>1 DEF Sooner
<1>7. \A c, d, e \in C : Sooner(c, d) /\ Sooner(d, e) => Sooner(c, e)
  <2> SUFFICES ASSUME NEW c \in C, NEW d \in C, NEW e \in C, Sooner(c, d), Sooner(d, e)
               PROVE  Sooner(c, e)
    OBVIOUS
  <2>1. /\ c.ts \in Int /\ c.block \in Nat /\ c.row \in Nat
        /\ d.ts \in Int /\ d.block \in Nat /\ d.row \in Nat
        /\ e.ts \in Int /\ e.block \in Nat /\ e.row \in Nat
    BY <1>3
  <2> QED  BY <2>1 DEF Sooner
<1>8. \A c, d \in C : <<c, d>> \in R <=> Sooner(c, d)  BY DEF SoonerIn
<1> HIDE DEF R
<1>9. StrictOrder(C, R)
  <2>1. \A x \in C : <<x, x>> \notin R  BY <1>5, <1>8
  <2>2. \A x, y \in C : x # y => <<x, y>> \in R \/ <<y, x>> \in R  BY <1>6, <1>8
  <2>3. \A x, y, z \in C : <<x, y>> \in R /\ <<y, z>> \in R => <<x, z>> \in R  BY <1>7, <1>8
  <2> QED  BY <2>1, <2>2, <2>3 DEF StrictOrder
<1>10. \A x \in C : First(x) = Below(C, R, x)  BY <1>8 DEF Below
<1>11. Ranks(o, C, R)
  <2>1. o = [i \in 1..Cardinality(C) |-> CHOOSE x \in C : Cardinality(First(x)) = i - 1]
    BY DEF Ranked
  <2> HIDE DEF o, First
  <2>2. ASSUME NEW i \in 1..Cardinality(C), \E x \in C : Cardinality(Below(C, R, x)) = i - 1
        PROVE  o[i] \in C /\ Cardinality(Below(C, R, o[i])) = i - 1
    <3>1. \E x \in C : Cardinality(First(x)) = i - 1  BY <1>10, <2>2
    <3>2. o[i] = CHOOSE x \in C : Cardinality(First(x)) = i - 1  BY <2>1
    <3>3. o[i] \in C /\ Cardinality(First(o[i])) = i - 1  BY <3>1, <3>2
    <3> QED  BY <1>10, <3>3
  <2>3. o = [i \in 1..Cardinality(C) |-> o[i]]  BY <2>1
  <2> QED  BY <2>2, <2>3 DEF Ranks
<1>12. Lists(o, C, R)
  <2> HIDE DEF o
  <2> QED  BY <1>2, <1>9, <1>11, RankedLists
<1> QED  BY <1>2, <1>9, <1>12 DEF C, R

LEMMA TakeIs ==
  ASSUME NEW X, NEW s \in Seq(X), NEW lim \in Nat
  PROVE  /\ Take(s, lim) \in Seq(X)
         /\ Len(Take(s, lim)) = IF lim < Len(s) THEN lim ELSE Len(s)
         /\ \A x \in 1..Len(Take(s, lim)) : Take(s, lim)[x] = s[x]
<1> DEFINE m == IF lim < Len(s) THEN lim ELSE Len(s)
<1>1. Len(s) \in Nat /\ m \in Nat /\ m <= Len(s)  OBVIOUS
<1>2. Take(s, lim) = SubSeq(s, 1, m)  BY DEF Take
<1>3. \A i \in 1..m : s[i] \in X
  <2> HIDE DEF m
  <2> QED  BY <1>1
<1>4. /\ SubSeq(s, 1, m) \in Seq(X) /\ Len(SubSeq(s, 1, m)) = m
      /\ \A i \in 1..m : SubSeq(s, 1, m)[i] = s[i]
  <2> HIDE DEF m
  <2>1. 1 \in Int /\ m \in Int  BY <1>1
  <2>2. /\ SubSeq(s, 1, m) \in Seq(X)
        /\ Len(SubSeq(s, 1, m)) = IF 1 <= m THEN m - 1 + 1 ELSE 0
        /\ \A i \in 1..(m - 1 + 1) : SubSeq(s, 1, m)[i] = s[1 + i - 1]
    BY <1>3, <2>1, SubSeqProperties
  <2>3. m - 1 + 1 = m /\ \A i \in 1..m : 1 + i - 1 = i  BY <1>1
  <2>4. Len(SubSeq(s, 1, m)) = m  BY <1>1, <2>2
  <2>5. ASSUME NEW i \in 1..m PROVE SubSeq(s, 1, m)[i] = s[i]
    <3>1. i \in 1..(m - 1 + 1) /\ 1 + i - 1 = i  BY <2>3
    <3> QED  BY <2>2, <3>1
  <2> QED  BY <2>2, <2>4, <2>5
<1> QED  BY <1>2, <1>4

LEMMA HitsExact ==
  ASSUME NEW bs, NEW sel, NEW n, Selects(bs, sel, n), NEW lim \in Nat
  PROVE  PartHits(Take(Ranked(Candidates(bs, sel, lim), Sooner), lim), Found(bs, sel, n), lim)
<1> DEFINE C == Candidates(bs, sel, lim)
           R == SoonerIn(C)
           o == Ranked(C, Sooner)
           N == Cardinality(C)
           E == Found(bs, sel, n)
           hits == Take(o, lim)
<1>1. /\ \A i \in 1..n : \A j \in Newest(sel[i], lim) : j \in sel[i] /\ HitAt(bs, i, j) \in C
      /\ \A c \in C : c \in Hit /\ c.event \in E /\ c.ts = Time(c.event)
      /\ \A c, d \in C : c.event = d.event => c = d
  BY CandidateFacts
<1>2. IsFiniteSet(C) /\ N \in Nat /\ StrictOrder(C, R) /\ Lists(o, C, R)
  BY CandidatesRanked
<1> HIDE DEF C, o, E
<1>3. /\ \A c \in C : Below(C, R, c) = {d \in C : Sooner(d, c)}
      /\ \A c, d \in C : <<c, d>> \in R <=> Sooner(c, d)
  BY DEF Below, SoonerIn
<1> HIDE DEF R, N
<1>4. /\ o \in [1..N -> C] /\ \A x \in C : \E i \in 1..N : o[i] = x
      /\ \A i, j \in 1..N : i < j <=> <<o[i], o[j]>> \in R
      /\ \A i \in 1..N : Cardinality(Below(C, R, o[i])) = i - 1
  BY <1>2 DEF Lists, N
<1>5. /\ hits \in Seq(Hit) /\ Len(hits) = (IF lim < N THEN lim ELSE N)
      /\ \A x \in 1..Len(hits) : hits[x] = o[x] /\ x \in 1..N /\ x <= lim
  <2>1. \A i \in 1..N : o[i] \in Hit  BY <1>1, <1>4
  <2>2. o \in Seq(Hit) /\ Len(o) = N  BY <1>2, <1>4, <2>1
  <2>3. /\ hits \in Seq(Hit) /\ Len(hits) = IF lim < N THEN lim ELSE N
        /\ \A x \in 1..Len(hits) : hits[x] = o[x]
    BY <2>2, TakeIs
  <2> HIDE DEF hits
  <2>4. \A x \in 1..Len(hits) : x \in 1..N /\ x <= lim  BY <1>2, <2>3
  <2> QED  BY <2>3, <2>4
<1> HIDE DEF hits
<1>6. Len(hits) \in Nat /\ Len(hits) <= lim  BY <1>2, <1>5
<1>7. ASSUME NEW x \in 1..Len(hits) PROVE hits[x].event \in E /\ hits[x].ts = Time(hits[x].event)
  <2>1. hits[x] \in C  BY <1>4, <1>5
  <2> QED  BY <1>1, <2>1
<1>8. ASSUME NEW x \in 1..Len(hits), NEW y \in 1..Len(hits), hits[x].event = hits[y].event
      PROVE  x = y
  <2>1. hits[x] \in C /\ hits[y] \in C /\ hits[x] = o[x] /\ hits[y] = o[y] /\ x \in 1..N /\ y \in 1..N
    BY <1>4, <1>5
  <2>2. o[x] = o[y]  BY <1>1, <1>8, <2>1
  <2>3. <<o[x], o[x]>> \notin R  BY <1>2, <2>1 DEF StrictOrder
  <2>4. (x < y <=> <<o[x], o[y]>> \in R) /\ (y < x <=> <<o[y], o[x]>> \in R)  BY <1>4, <2>1
  <2> QED  BY <1>2, <2>1, <2>2, <2>3, <2>4
(* An event that was left out.                                             *)
<1>9. ASSUME NEW e \in E, \A x \in 1..Len(hits) : hits[x].event # e
      PROVE  Len(hits) = lim /\ \A x \in 1..Len(hits) : hits[x].ts >= Time(e)
  <2>1. PICK i \in 1..n : \E j \in sel[i] : bs[i].rows[j].event = e  BY DEF E, Found
  <2>2. PICK j \in sel[i] : bs[i].rows[j].event = e  BY <2>1
  <2>3. Time(e) \in Int /\ bs[i].rows[j].ts = Time(e)  BY <2>2, PlaceFacts
  <2> DEFINE a == HitAt(bs, i, j)
  <2>4. a.event = e /\ a.ts = Time(e)  BY <2>2, <2>3 DEF HitAt
  <2> HIDE DEF a
  <2>5. CASE a \in C
    <3>1. PICK y \in 1..N : o[y] = a  BY <1>4, <2>5
    <3>2. y \notin 1..Len(hits)
      <4>1. ASSUME y \in 1..Len(hits) PROVE FALSE
        <5>1. hits[y] = a  BY <1>5, <3>1, <4>1
        <5> QED  BY <1>9, <2>4, <4>1, <5>1
      <4> QED  BY <4>1
    <3>3. Len(hits) = lim /\ lim < y  BY <1>2, <1>5, <3>2
    <3>4. ASSUME NEW x \in 1..Len(hits) PROVE hits[x].ts >= Time(e)
      <4>1. x < y /\ x \in 1..N
        <5>1. x \in Nat /\ x >= 1 /\ x <= lim /\ y \in 1..N  BY <3>1, <3>3
        <5> QED  BY <1>2, <3>3, <5>1
      <4>a. hits[x] = o[x] /\ o[x] \in C  BY <1>4, <1>5, <4>1
      <4>2. <<o[x], o[y]>> \in R  BY <1>4, <4>1
      <4>3. Sooner(o[x], a)  BY <1>3, <2>5, <3>1, <4>a, <4>2
      <4>4. o[x].ts \in Int  BY <1>1, <4>a DEF Hit
      <4>5. o[x].ts >= a.ts  BY <2>3, <2>4, <4>3, <4>4 DEF Sooner
      <4> QED  BY <2>4, <4>a, <4>5
    <3> QED  BY <3>3, <3>4
  <2>6. CASE a \notin C
    <3>1. j \notin Newest(sel[i], lim)  BY <1>1, <2>6 DEF a
    <3>2. Len(bs[i].rows) \in Nat /\ sel[i] \in SUBSET (1..Len(bs[i].rows))  BY SelFinite
    <3>3. /\ Newest(sel[i], lim) \in SUBSET sel[i]
          /\ \A x \in Newest(sel[i], lim) : x > j
          /\ \E f \in [1..lim -> Newest(sel[i], lim)] : \A x, y \in 1..lim : f[x] = f[y] => x = y
      BY <3>1, <3>2, NewestAre
    <3>4. PICK f \in [1..lim -> Newest(sel[i], lim)] : \A x, y \in 1..lim : f[x] = f[y] => x = y
      BY <3>3
    <3>5. ASSUME NEW x \in 1..lim
          PROVE  /\ HitAt(bs, i, f[x]) \in C
                 /\ HitAt(bs, i, f[x]).row = f[x]
                 /\ HitAt(bs, i, f[x]).ts >= Time(e)
                 /\ HitAt(bs, i, f[x]).ts \in Int
      <4>1. f[x] \in sel[i] /\ f[x] > j /\ f[x] \in Newest(sel[i], lim)  BY <3>3, <3>4
      <4>2. HitAt(bs, i, f[x]) \in C  BY <1>1, <4>1
      <4>3. HitAt(bs, i, f[x]).row = f[x] /\ HitAt(bs, i, f[x]).ts = bs[i].rows[f[x]].ts
        BY DEF HitAt
      <4>4. bs[i].rows[j].ts <= bs[i].rows[f[x]].ts
        <5>1. InOrder(bs[i].rows) /\ sel[i] \in SUBSET (DOMAIN bs[i].rows)
          BY DEF Selects, RowsFit
        <5>2. j <= f[x] /\ j \in DOMAIN bs[i].rows /\ f[x] \in DOMAIN bs[i].rows
          <6>1. j \in 1..Len(bs[i].rows) /\ f[x] \in 1..Len(bs[i].rows)  BY <3>2, <4>1
          <6>2. j <= f[x]  BY <4>1, <6>1
          <6> QED  BY <4>1, <5>1, <6>2
        <5> QED  BY <5>1, <5>2 DEF InOrder
      <4>5. bs[i].rows[f[x]].ts \in Int  BY <4>1, PlaceFacts
      <4> QED  BY <2>3, <4>2, <4>3, <4>4, <4>5
    <3> DEFINE h == [x \in 1..lim |-> HitAt(bs, i, f[x])]
    <3>6. \A x, y \in 1..lim : h[x] = h[y] => x = y
      <4> SUFFICES ASSUME NEW x \in 1..lim, NEW y \in 1..lim, h[x] = h[y] PROVE x = y  OBVIOUS
      <4>1. HitAt(bs, i, f[x]) = HitAt(bs, i, f[y])  OBVIOUS
      <4>2. f[x] = f[y]  BY <3>5, <4>1
      <4> QED  BY <3>4, <4>2
    <3>7. \A x \in 1..lim : h[x] \in C /\ h[x].ts >= Time(e) /\ h[x].ts \in Int  BY <3>5
    <3>8. h = [x \in 1..lim |-> h[x]]  OBVIOUS
    <3> HIDE DEF h
    <3>9. h \in [1..lim -> C]  BY <3>7, <3>8
    <3>10. lim <= N  BY <1>2, <3>6, <3>9, AtLeast DEF N
    <3>11. Len(hits) = lim  BY <1>2, <1>5, <3>10
    <3>12. ASSUME NEW x \in 1..lim PROVE hits[x].ts >= Time(e)
      <4>1. hits[x] = o[x] /\ x \in 1..N /\ o[x] \in C  BY <1>4, <1>5, <3>11
      <4>2. o[x].ts \in Int  BY <1>1, <4>1 DEF Hit
      <4>3. SUFFICES ASSUME o[x].ts < Time(e) PROVE FALSE  BY <2>3, <4>1, <4>2
      <4> DEFINE B == Below(C, R, o[x])
      <4>4. \A y \in 1..lim : h[y] \in B
        <5> SUFFICES ASSUME NEW y \in 1..lim PROVE h[y] \in C /\ Sooner(h[y], o[x])
          BY <1>3, <4>1
        <5>1. h[y].ts > o[x].ts  BY <2>3, <3>7, <4>2, <4>3
        <5> QED  BY <3>7, <5>1 DEF Sooner
      <4>5. IsFiniteSet(B) /\ Cardinality(B) = x - 1
        <5>1. B \in SUBSET C  BY DEF Below
        <5> HIDE DEF B
        <5>2. IsFiniteSet(B)  BY <1>2, <5>1, FS_Subset
        <5> QED  BY <1>4, <4>1, <5>2 DEF B
      <4> HIDE DEF B
      <4>6. h \in [1..lim -> B]  BY <3>9, <4>4
      <4>7. lim <= x - 1  BY <3>6, <4>5, <4>6, AtLeast
      <4> QED  BY <4>7
    <3> QED  BY <3>11, <3>12
  <2> QED  BY <2>5, <2>6
<1>10. PartHits(hits, E, lim)
  BY <1>5, <1>6, <1>7, <1>8, <1>9 DEF PartHits
<1> QED  BY <1>10 DEF hits, o, C, E

-----------------------------------------------------------------------------
(* Counts: the events of E by what g makes of them, over those values and  *)
(* the values of D besides.                                                *)

InSlot(E, t, g) == {e \in E : g[e] = t}
Slots(E, g) == {g[e] : e \in E}

CountsOver(D, E, g) ==
  [t \in D \cup Slots(E, g) |-> Cardinality(InSlot(E, t, g))]

LEMMA SlotFacts ==
  ASSUME NEW E, IsFiniteSet(E), NEW t, NEW g
  PROVE  /\ IsFiniteSet(InSlot(E, t, g)) /\ Cardinality(InSlot(E, t, g)) \in Nat
         /\ t \notin Slots(E, g) => Cardinality(InSlot(E, t, g)) = 0
<1>1. InSlot(E, t, g) \in SUBSET E  BY DEF InSlot
<1>2. IsFiniteSet(InSlot(E, t, g)) /\ Cardinality(InSlot(E, t, g)) \in Nat
  BY <1>1, FS_Subset, FS_CardinalityType
<1>3. ASSUME t \notin Slots(E, g) PROVE Cardinality(InSlot(E, t, g)) = 0
  <2>1. InSlot(E, t, g) = {}  BY <1>3 DEF InSlot, Slots
  <2> QED  BY <2>1, FS_EmptySet
<1> QED  BY <1>2, <1>3

LEMMA CountsAdd ==
  ASSUME NEW D, NEW E, NEW D2, NEW E2, NEW g, IsFiniteSet(E), IsFiniteSet(E2), E \cap E2 = {}
  PROVE  AddCounts(CountsOver(D, E, g), CountsOver(D2, E2, g))
           = CountsOver(D \cup D2, E \cup E2, g)
<1> DEFINE a == CountsOver(D, E, g)
           b == CountsOver(D2, E2, g)
           all == CountsOver(D \cup D2, E \cup E2, g)
<1>1. /\ DOMAIN a = D \cup Slots(E, g) /\ DOMAIN b = D2 \cup Slots(E2, g)
      /\ \A t \in DOMAIN a : a[t] = Cardinality(InSlot(E, t, g))
      /\ \A t \in DOMAIN b : b[t] = Cardinality(InSlot(E2, t, g))
      /\ all = [t \in (D \cup D2) \cup Slots(E \cup E2, g) |->
                  Cardinality(InSlot(E \cup E2, t, g))]
  BY DEF CountsOver
<1> HIDE DEF a, b, all
<1>2. Slots(E \cup E2, g) = Slots(E, g) \cup Slots(E2, g)  BY DEF Slots
<1>3. ASSUME NEW t
      PROVE  Count(a, t) + Count(b, t) = Cardinality(InSlot(E \cup E2, t, g))
  <2>1. Count(a, t) = Cardinality(InSlot(E, t, g))
    <3>1. CASE t \in DOMAIN a  BY <1>1, <3>1 DEF Count
    <3>2. CASE t \notin DOMAIN a
      <4>1. t \notin Slots(E, g)  BY <1>1, <3>2
      <4> QED  BY <3>2, <4>1, SlotFacts DEF Count
    <3> QED  BY <3>1, <3>2
  <2>2. Count(b, t) = Cardinality(InSlot(E2, t, g))
    <3>1. CASE t \in DOMAIN b  BY <1>1, <3>1 DEF Count
    <3>2. CASE t \notin DOMAIN b
      <4>1. t \notin Slots(E2, g)  BY <1>1, <3>2
      <4> QED  BY <3>2, <4>1, SlotFacts DEF Count
    <3> QED  BY <3>1, <3>2
  <2> DEFINE A == InSlot(E, t, g)
             B == InSlot(E2, t, g)
  <2>3. InSlot(E \cup E2, t, g) = A \cup B /\ A \cap B = {}  BY DEF InSlot
  <2>4. /\ IsFiniteSet(A) /\ IsFiniteSet(B)
        /\ Cardinality(A) \in Nat /\ Cardinality(B) \in Nat
    BY SlotFacts
  <2>5. Count(a, t) = Cardinality(A) /\ Count(b, t) = Cardinality(B)  BY <2>1, <2>2
  <2> HIDE DEF A, B
  <2>6. Cardinality(A \cup B) = Cardinality(A) + Cardinality(B) - Cardinality(A \cap B)
    BY <2>4, FS_Union
  <2>7. Cardinality(A \cap B) = 0  BY <2>3, FS_EmptySet
  <2>8. Cardinality(A \cup B) = Cardinality(A) + Cardinality(B)  BY <2>4, <2>6, <2>7
  <2> QED  BY <2>3, <2>5, <2>8
<1>4. DOMAIN a \cup DOMAIN b = (D \cup D2) \cup Slots(E \cup E2, g)  BY <1>1, <1>2
<1>5. AddCounts(a, b) = [t \in DOMAIN a \cup DOMAIN b |-> Count(a, t) + Count(b, t)]
  BY DEF AddCounts
<1>6. AddCounts(a, b) = all  BY <1>1, <1>3, <1>4, <1>5
<1> QED  BY <1>6 DEF a, b, all

LEMMA NoCounts ==
  ASSUME NEW g
  PROVE  <<>> = CountsOver({}, {}, g)
<1>1. Slots({}, g) = {}  BY DEF Slots
<1>2. CountsOver({}, {}, g) = [t \in {} |-> Cardinality(InSlot({}, t, g))]
  <2>1. {} \cup {} = {}  OBVIOUS
  <2> QED  BY <1>1, <2>1 DEF CountsOver
<1>3. <<>> = [t \in {} |-> Cardinality(InSlot({}, t, g))]  OBVIOUS
<1> QED  BY <1>2, <1>3

Together(f, T) == UNION {f[i] : i \in T}

LEMMA TogetherFacts ==
  ASSUME NEW n \in Nat, NEW f, NEW T \in SUBSET (1..n)
  PROVE  /\ T = {} => Together(f, T) = {}
         /\ \A m \in T : Together(f, T) = Together(f, T \ {m}) \cup f[m]
         /\ (\A i \in T : IsFiniteSet(f[i])) => IsFiniteSet(Together(f, T))
<1>1. T = {} => Together(f, T) = {}  BY DEF Together
<1>2. ASSUME NEW m \in T PROVE Together(f, T) = Together(f, T \ {m}) \cup f[m]
  BY DEF Together
<1>3. ASSUME \A i \in T : IsFiniteSet(f[i]) PROVE IsFiniteSet(Together(f, T))
  <2> DEFINE g == [i \in T |-> f[i]]
             Fs == {f[i] : i \in T}
  <2>1. g \in Surjection(T, Fs)  BY DEF Surjection
  <2>2. IsFiniteSet(T)
    <3>1. 1 \in Int /\ n \in Int  OBVIOUS
    <3>2. IsFiniteSet(1..n)  BY <3>1, FS_Interval
    <3> QED  BY <3>2, FS_Subset
  <2>3. IsFiniteSet(Fs)
    <3> HIDE DEF g, Fs
    <3> QED  BY <2>1, <2>2, FS_Surjection
  <2>4. \A X \in Fs : IsFiniteSet(X)  BY <1>3
  <2>5. IsFiniteSet(UNION Fs)
    <3> HIDE DEF Fs
    <3> QED  BY <2>3, <2>4, FS_UNION
  <2> QED  BY <2>5 DEF Together
<1> QED  BY <1>1, <1>2, <1>3

(* What holds of nothing and survives one more addend holds of the sum:    *)
(* B[T] is what is allowed once the addends of T are in.                   *)
LEMMA AddAllWithin ==
  ASSUME NEW n \in Nat, NEW s, DOMAIN s = 1..n, Len(s) = n,
         NEW B, <<>> \in B[{}],
         \A T \in SUBSET (1..n) : \A m \in T : \A c \in B[T \ {m}] : AddCounts(c, s[m]) \in B[T]
  PROVE  AddAll(s) \in B[1..n]
<1> DEFINE F(it) == [T \in SUBSET (1..n) |->
                       IF T = {} THEN <<>> ELSE AddCounts(it[T \ {Max(T)}], s[Max(T)])]
           V == UNION {B[T] : T \in SUBSET (1..n)}
           X == {s[i] : i \in 1..n}
           s0 == [i \in 1..n |-> s[i]]
           sum(p) == AddCounts(p[1], p[2])
           op == [p \in V \X X |-> IF sum(p) \in V THEN sum(p) ELSE <<>>]
           c == CHOOSE it : it = F(it)
<1>1. \A T \in SUBSET (1..n) : B[T] \in SUBSET V  OBVIOUS
<1>2. {} \in SUBSET (1..n) /\ <<>> \in V
  <2>1. {} \in SUBSET (1..n)  OBVIOUS
  <2> QED  BY <1>1, <2>1
<1>3. s0 \in [1..n -> X]  OBVIOUS
<1>4. op \in [V \X X -> V] /\ \A v \in V, x \in X : AddCounts(v, x) \in V => op[<<v, x>>] = AddCounts(v, x)
  <2>1. \A p \in V \X X : (IF sum(p) \in V THEN sum(p) ELSE <<>>) \in V  BY <1>2
  <2>2. op \in [V \X X -> V]
    <3> HIDE DEF V, X, sum
    <3> QED  BY <2>1
  <2>3. ASSUME NEW v \in V, NEW x \in X, AddCounts(v, x) \in V PROVE op[<<v, x>>] = AddCounts(v, x)
    <3>1. <<v, x>> \in V \X X /\ sum(<<v, x>>) = AddCounts(v, x)  OBVIOUS
    <3> HIDE DEF V, X, sum
    <3> QED  BY <2>3, <3>1
  <2> QED  BY <2>2, <2>3
<1> HIDE DEF V, X, s0, op
<1>5. PICK it0 \in [SUBSET (1..n) -> V] : Iterates(it0, n, s0, <<>>, op)
  BY <1>2, <1>3, <1>4, IterationExists
<1>6. it0[{}] = <<>> /\ \A T \in SUBSET (1..n) :
        T # {} => it0[T] = op[<<it0[T \ {Max(T)}], s0[Max(T)]>>]
  BY <1>2, <1>5 DEF Iterates
<1>7. ASSUME NEW T \in SUBSET (1..n), T # {}, it0[T \ {Max(T)}] \in B[T \ {Max(T)}]
      PROVE  it0[T] = AddCounts(it0[T \ {Max(T)}], s[Max(T)]) /\ it0[T] \in B[T]
  <2>1. PICK m \in T : m = Max(T)  BY <1>7, MaxIs
  <2>2. PICK v : v = it0[T \ {m}]  OBVIOUS
  <2>3. v \in B[T \ {m}] /\ AddCounts(v, s[m]) \in B[T]  BY <1>7, <2>1, <2>2
  <2>4. T \ {m} \in SUBSET (1..n)  OBVIOUS
  <2>5. v \in V /\ AddCounts(v, s[m]) \in V /\ s[m] \in X /\ s0[m] = s[m]
    BY <1>1, <2>3, <2>4 DEF X, s0
  <2>6. op[<<v, s[m]>>] = AddCounts(v, s[m])  BY <1>4, <2>5
  <2>7. it0[T] = op[<<v, s[m]>>]  BY <1>6, <1>7, <2>1, <2>2, <2>5
  <2> QED  BY <2>1, <2>2, <2>3, <2>6, <2>7
<1> DEFINE Good == {k \in Nat : \A T \in SUBSET (1..n) : T \in SUBSET (1..k) => it0[T] \in B[T]}
<1>8. 0 \in Good
  <2>1. \A T : T \in SUBSET (1..0) => T = {}  OBVIOUS
  <2> QED  BY <1>6, <2>1
<1>9. ASSUME NEW k \in Nat, k \in Good PROVE k + 1 \in Good
  <2> SUFFICES ASSUME NEW T \in SUBSET (1..n), T \in SUBSET (1..(k + 1)) PROVE it0[T] \in B[T]
    OBVIOUS
  <2>1. CASE T = {}  BY <1>6, <2>1
  <2>2. CASE T # {}
    <3>1. Max(T) \in T /\ \A y \in T : y <= Max(T)  BY <2>2, MaxIs
    <3>2. T \ {Max(T)} \in SUBSET (1..k)
      <4> SUFFICES ASSUME NEW y \in T, y # Max(T) PROVE y \in 1..k  OBVIOUS
      <4>1. PICK m : m = Max(T)  OBVIOUS
      <4>2. m \in 1..(k + 1) /\ y \in 1..(k + 1)  BY <3>1, <4>1
      <4>3. y <= m /\ y # m  BY <3>1, <4>1
      <4> QED  BY <4>2, <4>3
    <3>3. T \ {Max(T)} \in SUBSET (1..n)  OBVIOUS
    <3>4. it0[T \ {Max(T)}] \in B[T \ {Max(T)}]  BY <1>9, <3>2, <3>3
    <3> QED  BY <1>7, <2>2, <3>4
  <2> QED  BY <2>1, <2>2
<1>10. \A T \in SUBSET (1..n) : it0[T] \in B[T]
  <2>1. n \in Good
    <3> HIDE DEF Good
    <3> QED  BY <1>8, <1>9, InductionOn
  <2> QED  BY <2>1
<1>11. it0 = F(it0)
  <2>1. ASSUME NEW T \in SUBSET (1..n), T # {}
        PROVE  it0[T] = AddCounts(it0[T \ {Max(T)}], s[Max(T)])
    <3>1. T \ {Max(T)} \in SUBSET (1..n)  OBVIOUS
    <3> QED  BY <1>7, <1>10, <2>1, <3>1
  <2>2. it0 = [T \in SUBSET (1..n) |-> it0[T]]  BY <1>5
  <2> QED  BY <1>6, <2>1, <2>2
<1>12. c = F(c)
  <2>1. \E it : it = F(it)
    <3> HIDE DEF F
    <3> QED  BY <1>11
  <2> HIDE DEF F
  <2> QED  BY <2>1
<1>13. AddAll(s) = c[1..n]
  BY DEF AddAll, FoldLeft, MapThenFoldSet
<1> HIDE DEF c
<1>14. c[{}] = <<>> /\ \A T \in SUBSET (1..n) :
         T # {} => c[T] = AddCounts(c[T \ {Max(T)}], s[Max(T)])
  BY <1>2, <1>12
<1> DEFINE Same == {k \in Nat : k <= n => c[1..k] \in B[1..k]}
<1>15. 0 \in Same
  <2>1. 1..0 = {}  OBVIOUS
  <2> QED  BY <1>14, <2>1
<1>16. ASSUME NEW k \in Nat, k \in Same PROVE k + 1 \in Same
  <2> SUFFICES ASSUME k + 1 <= n PROVE c[1..(k + 1)] \in B[1..(k + 1)]  OBVIOUS
  <2> DEFINE T == 1..(k + 1)
  <2>e. k + 1 \in Nat /\ k + 1 >= 1 /\ k + 1 <= n  OBVIOUS
  <2>a. T \in SUBSET (1..n) /\ T # {} /\ k + 1 \in T  BY <2>e
  <2>b. \A y : y \in T \ {k + 1} <=> y \in 1..k  OBVIOUS
  <2>c. \A y \in T : y <= k + 1  OBVIOUS
  <2>d. c[1..k] \in B[1..k]  BY <1>16
  <2> HIDE DEF T
  <2>1. T \ {k + 1} = 1..k  BY <2>b
  <2>2. Max(T) = k + 1
    <3>1. Max(T) \in T /\ \A y \in T : y <= Max(T)  BY <2>a, MaxIs
    <3>2. Max(T) <= k + 1 /\ k + 1 <= Max(T) /\ Max(T) \in 1..n  BY <2>a, <2>c, <3>1
    <3> QED  BY <3>2
  <2>3. c[T] = AddCounts(c[1..k], s[k + 1])  BY <1>14, <2>a, <2>1, <2>2
  <2>4. c[T] \in B[T]
    <3>1. PICK v : v = c[1..k]  OBVIOUS
    <3>2. v \in B[T \ {k + 1}]  BY <2>d, <2>1, <3>1
    <3>3. AddCounts(v, s[k + 1]) \in B[T]  BY <2>a, <3>2
    <3> QED  BY <2>3, <3>1, <3>3
  <2> QED  BY <2>4 DEF T
<1>17. n \in Same
  <2> HIDE DEF Same
  <2> QED  BY <1>15, <1>16, InductionOn
<1> QED  BY <1>13, <1>17

(* Counts of disjoint sets, added up.                                      *)
LEMMA CountsAddUp ==
  ASSUME NEW n \in Nat, NEW Ds, NEW Es, NEW g, NEW s, DOMAIN s = 1..n, Len(s) = n,
         \A i \in 1..n : IsFiniteSet(Es[i]) /\ s[i] = CountsOver(Ds[i], Es[i], g),
         \A i, j \in 1..n : i # j => Es[i] \cap Es[j] = {}
  PROVE  AddAll(s) = CountsOver(Together(Ds, 1..n), Together(Es, 1..n), g)
<1> DEFINE Sum(T) == CountsOver(Together(Ds, T), Together(Es, T), g)
           B == [T \in SUBSET (1..n) |-> {Sum(T)}]
<1>1. Sum({}) = <<>>
  <2>1. {} \in SUBSET (1..n)  OBVIOUS
  <2>2. Together(Ds, {}) = {} /\ Together(Es, {}) = {}  BY <2>1, TogetherFacts
  <2> QED  BY <2>2, NoCounts
<1>2. ASSUME NEW T \in SUBSET (1..n), NEW m \in T
      PROVE  Sum(T) = AddCounts(Sum(T \ {m}), s[m])
  <2>1. /\ Together(Ds, T) = Together(Ds, T \ {m}) \cup Ds[m]
        /\ Together(Es, T) = Together(Es, T \ {m}) \cup Es[m]
    BY TogetherFacts
  <2>2. T \ {m} \in SUBSET (1..n) /\ m \in 1..n  OBVIOUS
  <2>3. IsFiniteSet(Together(Es, T \ {m})) /\ IsFiniteSet(Es[m])
    BY <2>2, TogetherFacts
  <2>4. Together(Es, T \ {m}) \cap Es[m] = {}  BY <2>2 DEF Together
  <2>5. s[m] = CountsOver(Ds[m], Es[m], g)  BY <2>2
  <2> DEFINE X == Together(Ds, T \ {m})
             A == Together(Es, T \ {m})
  <2>6. Sum(T) = CountsOver(X \cup Ds[m], A \cup Es[m], g) /\ Sum(T \ {m}) = CountsOver(X, A, g)
    BY <2>1
  <2> HIDE DEF X, A, Sum
  <2>7. IsFiniteSet(A) /\ A \cap Es[m] = {}  BY <2>3, <2>4 DEF A
  <2>8. AddCounts(CountsOver(X, A, g), CountsOver(Ds[m], Es[m], g))
          = CountsOver(X \cup Ds[m], A \cup Es[m], g)
    BY <2>3, <2>7, CountsAdd
  <2> QED  BY <2>5, <2>6, <2>8
<1> HIDE DEF Sum
<1>3. <<>> \in B[{}]
  <2>1. {} \in SUBSET (1..n)  OBVIOUS
  <2> QED  BY <1>1, <2>1
<1>4. ASSUME NEW T \in SUBSET (1..n), NEW m \in T, NEW c \in B[T \ {m}]
      PROVE  AddCounts(c, s[m]) \in B[T]
  <2>1. T \ {m} \in SUBSET (1..n)  OBVIOUS
  <2>2. c = Sum(T \ {m})  BY <1>4, <2>1
  <2> QED  BY <1>2, <2>2
<1>5. 1..n \in SUBSET (1..n)  OBVIOUS
<1>6. B[1..n] = {Sum(1..n)}  BY <1>5
<1> HIDE DEF B
<1>7. AddAll(s) \in B[1..n]  BY <1>3, <1>4, AddAllWithin
<1> QED  BY <1>6, <1>7 DEF Sum

(* What S holds, counted by what at makes of its elements.                 *)
Tally(at, S) == [t \in {at[j] : j \in S} |-> Cardinality({j \in S : at[j] = t})]

(* s are the blocks' tallies of the rows they select, by what at makes of  *)
(* their places and g of their events.                                     *)
Tallied(s, at, bs, sel, n, g) ==
  /\ DOMAIN s = 1..n /\ Len(s) = n
  /\ \A i \in 1..n : s[i] = Tally(at[i], sel[i])
  /\ \A i \in 1..n : \A j \in sel[i] : at[i][j] = g[bs[i].rows[j].event]

(* They add up to the counts of the events found.                          *)
LEMMA TalliesAddUp ==
  ASSUME NEW bs, NEW sel, NEW n, Selects(bs, sel, n), NEW g, NEW at, NEW s,
         Tallied(s, at, bs, sel, n, g)
  PROVE  AddAll(s) = CountsOver({}, Found(bs, sel, n), g)
<1> DEFINE Es == [i \in 1..n |-> {bs[i].rows[j].event : j \in sel[i]}]
           Ds == [i \in 1..n |-> {}]
<1>1. n \in Nat /\ DOMAIN bs = 1..n  BY DEF Selects
<1>a. /\ DOMAIN s = 1..n /\ Len(s) = n
      /\ \A i \in 1..n : s[i] = Tally(at[i], sel[i])
      /\ \A i \in 1..n : \A j \in sel[i] : at[i][j] = g[bs[i].rows[j].event]
  BY DEF Tallied
<1>2. ASSUME NEW i \in 1..n
      PROVE  /\ IsFiniteSet(Es[i])
             /\ s[i] = CountsOver(Ds[i], Es[i], g)
  <2> DEFINE E == {bs[i].rows[j].event : j \in sel[i]}
             ev == [j \in sel[i] |-> bs[i].rows[j].event]
  <2>1. PICK a : a = at[i]  OBVIOUS
  <2>2. \A j \in sel[i] : a[j] = g[bs[i].rows[j].event]  BY <1>a, <2>1
  <2>3. \A x, y \in sel[i] : bs[i].rows[x].event = bs[i].rows[y].event => x = y  BY OnePlace
  <2>4. IsFiniteSet(sel[i])  BY SelFinite
  <2>5. IsFiniteSet(E)
    <3>1. ev \in Surjection(sel[i], E)  BY DEF Surjection
    <3> HIDE DEF ev, E
    <3> QED  BY <2>4, <3>1, FS_Surjection
  <2>6. {a[j] : j \in sel[i]} = {} \cup Slots(E, g)  BY <2>2 DEF Slots
  <2>7. ASSUME NEW t PROVE Cardinality({j \in sel[i] : a[j] = t}) = Cardinality(InSlot(E, t, g))
    <3> DEFINE S == {j \in sel[i] : a[j] = t}
               T == InSlot(E, t, g)
               h == [j \in S |-> bs[i].rows[j].event]
    <3>1. IsFiniteSet(S)
      <4>1. S \in SUBSET sel[i]  OBVIOUS
      <4> HIDE DEF S
      <4> QED  BY <2>4, <4>1, FS_Subset
    <3>2. \A j \in S : h[j] = bs[i].rows[j].event /\ j \in sel[i]  OBVIOUS
    <3>3. \A j \in S : h[j] \in T
      <4> SUFFICES ASSUME NEW j \in sel[i], a[j] = t PROVE bs[i].rows[j].event \in T  OBVIOUS
      <4> QED  BY <2>2 DEF InSlot
    <3>4. \A x, y \in S : h[x] = h[y] => x = y  BY <2>3
    <3>5. \A e \in T : \E j \in S : h[j] = e
      <4> SUFFICES ASSUME NEW e \in T PROVE \E j \in S : h[j] = e  OBVIOUS
      <4>1. PICK j \in sel[i] : e = bs[i].rows[j].event  BY DEF InSlot
      <4>2. g[e] = t  BY DEF InSlot
      <4>3. a[j] = t  BY <2>2, <4>1, <4>2
      <4>4. j \in S  BY <4>3
      <4> QED  BY <4>1, <4>4
    <3>6. h \in [S -> T]
      <4>1. h = [j \in S |-> h[j]]  OBVIOUS
      <4> HIDE DEF h, S, T
      <4> QED  BY <3>3, <4>1
    <3> HIDE DEF h, S, T
    <3>7. Cardinality(T) = Cardinality(S)  BY <3>1, <3>4, <3>5, <3>6, SameCount
    <3> QED  BY <3>7 DEF S, T
  <2>8. s[i] = [t \in {a[j] : j \in sel[i]} |-> Cardinality({j \in sel[i] : a[j] = t})]
    <3>1. s[i] = Tally(a, sel[i])  BY <1>a, <2>1
    <3> QED  BY <3>1 DEF Tally
  <2>9. CountsOver({}, E, g) = [t \in {} \cup Slots(E, g) |-> Cardinality(InSlot(E, t, g))]
    BY DEF CountsOver
  <2>10. Es[i] = E /\ Ds[i] = {}  OBVIOUS
  <2> HIDE DEF E, Es, Ds
  <2>11. s[i] = CountsOver({}, E, g)  BY <2>6, <2>7, <2>8, <2>9
  <2> QED  BY <2>5, <2>10, <2>11
<1>3. \A i, j \in 1..n : i # j => Es[i] \cap Es[j] = {}
  <2> SUFFICES ASSUME NEW i \in 1..n, NEW j \in 1..n, i # j,
                      NEW x \in sel[i], NEW y \in sel[j],
                      bs[i].rows[x].event = bs[j].rows[y].event
               PROVE  FALSE
    OBVIOUS
  <2> QED  BY OnePlace
<1> HIDE DEF Es, Ds
<1>5. AddAll(s) = CountsOver(Together(Ds, 1..n), Together(Es, 1..n), g)
  <2>1. \A i \in 1..n : IsFiniteSet(Es[i]) /\ s[i] = CountsOver(Ds[i], Es[i], g)  BY <1>2
  <2> QED  BY <1>1, <1>a, <1>3, <2>1, CountsAddUp
<1>6. Together(Ds, 1..n) = {}  BY DEF Together, Ds
<1>7. Together(Es, 1..n) = Found(bs, sel, n)
  <2>1. \A i \in 1..n : \A j \in sel[i] : bs[i].rows[j].event \in Events  BY PlaceFacts
  <2> QED  BY <2>1 DEF Together, Es, Found
<1> QED  BY <1>5, <1>6, <1>7

(* The slot of the histogram an event falls in.                            *)
SlotOf(interval) == [e \in Events |-> FloorTo(Time(e), interval)]

LEMMA BucketsExact ==
  ASSUME NEW bs, NEW sel, NEW n, Selects(bs, sel, n), NEW iv
  PROVE  AddAll([i \in DOMAIN bs |-> Buckets(bs[i], sel[i], iv)])
           = CountsOver({}, Found(bs, sel, n), SlotOf(iv))
<1> DEFINE s == [i \in DOMAIN bs |-> Buckets(bs[i], sel[i], iv)]
           at == [i \in 1..n |-> [j \in sel[i] |-> FloorTo(bs[i].rows[j].ts, iv)]]
           g == SlotOf(iv)
<1>1. n \in Nat /\ DOMAIN bs = 1..n  BY DEF Selects
<1>2. DOMAIN s = 1..n /\ \A i \in 1..n : s[i] = Buckets(bs[i], sel[i], iv)  BY <1>1
<1>3. Len(s) = n
  <2>1. s = [i \in 1..n |-> s[i]]  BY <1>1
  <2> HIDE DEF s
  <2> QED  BY <1>1, <2>1
<1>4. ASSUME NEW i \in 1..n, NEW j \in sel[i] PROVE at[i][j] = g[bs[i].rows[j].event]
  <2>1. /\ bs[i].rows[j].event \in Events
        /\ bs[i].rows[j].ts = Time(bs[i].rows[j].event)
    BY PlaceFacts
  <2>2. at[i][j] = FloorTo(bs[i].rows[j].ts, iv)  OBVIOUS
  <2> HIDE DEF at
  <2> QED  BY <2>1, <2>2 DEF SlotOf
<1>5. ASSUME NEW i \in 1..n PROVE s[i] = Tally(at[i], sel[i])
  <2> DEFINE At(j) == FloorTo(bs[i].rows[j].ts, iv)
             S == sel[i]
  <2>1. Buckets(bs[i], S, iv)
          = [t \in {At(j) : j \in S} |-> Cardinality({j \in S : At(j) = t})]
    BY DEF Buckets
  <2>2. PICK a : a = at[i]  OBVIOUS
  <2>3. \A j \in S : a[j] = At(j)  BY <2>2
  <2> HIDE DEF At, S
  <2>4. {At(j) : j \in S} = {a[j] : j \in S}  BY <2>3
  <2>5. ASSUME NEW t PROVE {j \in S : At(j) = t} = {j \in S : a[j] = t}  BY <2>3
  <2>6. Buckets(bs[i], S, iv) = Tally(a, S)  BY <2>1, <2>4, <2>5 DEF Tally
  <2> HIDE DEF s, at
  <2> QED  BY <1>2, <2>2, <2>6 DEF S
<1> HIDE DEF s, at, g
<1>6. Tallied(s, at, bs, sel, n, g)  BY <1>2, <1>3, <1>4, <1>5 DEF Tallied
<1>7. AddAll(s) = CountsOver({}, Found(bs, sel, n), g)  BY <1>6, TalliesAddUp
<1> QED  BY <1>7 DEF s, g

-----------------------------------------------------------------------------
(* The answers of the partitions, merged.                                  *)

DownKey(s, n) == [i \in 1..n |-> -s[i].ts]
Reordered(s, o, n) == [i \in 1..n |-> s[o[i]]]

LEMMA SortedDown ==
  ASSUME NEW n \in Nat, NEW X, NEW s \in [1..n -> X], \A x \in X : x.ts \in Int
  PROVE  \E o : /\ Sorts(o, n, DownKey(s, n))
                /\ StableSort(s, LAMBDA h : -h.ts) = Reordered(s, o, n)
<1> DEFINE key == [i \in 1..n |-> -s[i].ts]
           o == Ranked(DOMAIN s, LAMBDA i, j : \/ -s[i].ts < -s[j].ts
                                               \/ -s[i].ts = -s[j].ts /\ i < j)
<1>1. StableSort(s, LAMBDA h : -h.ts) = [i \in 1..n |-> s[o[i]]]  BY DEF StableSort
<1>2. key \in [1..n -> Int]  OBVIOUS
<1> DEFINE First(x) == {y \in DOMAIN s : -s[y].ts < -s[x].ts \/ (-s[y].ts = -s[x].ts /\ y < x)}
<1>3. \A x \in 1..n : First(x) = Below(1..n, KeyOrder(n, key), x)
  BY DEF Below, KeyOrder
<1>4. Ranks(o, 1..n, KeyOrder(n, key))
  <2>1. DOMAIN s = 1..n  OBVIOUS
  <2>2. o = [i \in 1..Cardinality(DOMAIN s) |->
               CHOOSE x \in DOMAIN s : Cardinality(First(x)) = i - 1]
    BY DEF Ranked
  <2> HIDE DEF o, First, key
  <2>3. o = [i \in 1..Cardinality(1..n) |-> CHOOSE x \in 1..n : Cardinality(First(x)) = i - 1]
    BY <2>1, <2>2
  <2>4. ASSUME NEW i \in 1..Cardinality(1..n),
               \E x \in 1..n : Cardinality(Below(1..n, KeyOrder(n, key), x)) = i - 1
        PROVE  o[i] \in 1..n /\ Cardinality(Below(1..n, KeyOrder(n, key), o[i])) = i - 1
    <3>1. \E x \in 1..n : Cardinality(First(x)) = i - 1  BY <1>3, <2>4
    <3>2. o[i] = CHOOSE x \in 1..n : Cardinality(First(x)) = i - 1  BY <2>3
    <3>3. o[i] \in 1..n /\ Cardinality(First(o[i])) = i - 1  BY <3>1, <3>2
    <3> QED  BY <1>3, <3>3
  <2>5. o = [i \in 1..Cardinality(1..n) |-> o[i]]  BY <2>3
  <2> QED  BY <2>4, <2>5 DEF Ranks
<1>5. Sorts(o, n, key)
  <2> HIDE DEF o, key
  <2> QED  BY <1>2, <1>4, OrderSorts
<1> HIDE DEF o
<1>6. key = DownKey(s, n)  BY DEF DownKey
<1> HIDE DEF key
<1> DEFINE t == StableSort(s, LAMBDA h : -h.ts)
<1>7. t = Reordered(s, o, n)  BY <1>1 DEF Reordered
<1> HIDE DEF t
<1>8. \E p : Sorts(p, n, DownKey(s, n)) /\ t = Reordered(s, p, n)  BY <1>5, <1>6, <1>7
<1> QED  BY <1>8 DEF t

(* The answers ps of m partitions that have the events Es.                 *)
Answers(ps, Es, m) ==
  /\ m \in Nat /\ DOMAIN ps = 1..m
  /\ \A i \in 1..m : /\ Es[i] \in SUBSET Events /\ IsFiniteSet(Es[i])
                     /\ ps[i].total = Cardinality(Es[i])
  /\ \A i, j \in 1..m : i # j => Es[i] \cap Es[j] = {}

LEMMA MergedTotal ==
  ASSUME NEW ps, NEW Es, NEW m, Answers(ps, Es, m)
  PROVE  /\ IsFiniteSet(Together(Es, 1..m)) /\ Cardinality(Together(Es, 1..m)) \in Nat
         /\ SumSeq([i \in DOMAIN ps |-> ps[i].total]) = Cardinality(Together(Es, 1..m))
<1> DEFINE M == Together(Es, 1..m)
           f == [e \in M |-> CHOOSE i \in 1..m : e \in Es[i]]
           s == [i \in 1..m |-> ps[i].total]
<1>1. /\ m \in Nat /\ DOMAIN ps = 1..m
      /\ \A i \in 1..m : IsFiniteSet(Es[i]) /\ ps[i].total = Cardinality(Es[i])
      /\ \A i, j \in 1..m : i # j => Es[i] \cap Es[j] = {}
  BY DEF Answers
<1>2. IsFiniteSet(M) /\ Cardinality(M) \in Nat
  <2>1. 1..m \in SUBSET (1..m)  OBVIOUS
  <2> QED  BY <1>1, <2>1, TogetherFacts, FS_CardinalityType
<1>3. \A e \in M : f[e] \in 1..m /\ e \in Es[f[e]]  BY DEF Together
<1>4. \A i \in 1..m : Es[i] \in SUBSET M  BY DEF Together
<1> HIDE DEF M
<1>5. f \in [M -> 1..m]  BY <1>3
<1>6. s \in [1..m -> Nat]
  <2>1. \A i \in 1..m : ps[i].total \in Nat  BY <1>1, FS_CardinalityType
  <2> QED  BY <2>1
<1> HIDE DEF f
<1>7. ASSUME NEW i \in 1..m PROVE s[i] = Cardinality(Class(M, f, i))
  <2>1. Class(M, f, i) = Es[i]
    <3>1. ASSUME NEW e \in M, f[e] = i PROVE e \in Es[i]  BY <1>3, <3>1
    <3>2. ASSUME NEW e \in Es[i] PROVE e \in M /\ f[e] = i
      <4>1. e \in M  BY <1>4
      <4>2. e \in Es[f[e]] /\ f[e] \in 1..m  BY <1>3, <4>1
      <4> QED  BY <1>1, <4>1, <4>2
    <3> QED  BY <3>1, <3>2 DEF Class
  <2> QED  BY <1>1, <2>1
<1>8. s = [i \in DOMAIN ps |-> ps[i].total]  BY <1>1
<1> HIDE DEF s
<1>9. SumSeq(s) = Cardinality(M)
  <2>1. m \in Nat /\ IsFiniteSet(M)  BY <1>1, <1>2
  <2>2. \A i \in 1..m : s[i] = Cardinality(Class(M, f, i))  BY <1>7
  <2> QED  BY <1>5, <1>6, <2>1, <2>2, SumOfClasses, SMTT(30)
<1> QED  BY <1>2, <1>8, <1>9 DEF M

(* A merge: G is in the order of time, newest first, and has at least lim  *)
(* events that are no older than any it misses.                            *)
Whole(G, M, lim) ==
  /\ G \in Seq(Hit)
  /\ \A x \in 1..Len(G) : G[x].event \in M /\ G[x].ts = Time(G[x].event)
  /\ \A x, y \in 1..Len(G) : G[x].event = G[y].event => x = y
  /\ \A x, y \in 1..Len(G) : x <= y => G[x].ts >= G[y].ts
  /\ \A e \in M : \/ \E x \in 1..Len(G) : G[x].event = e
                  \/ lim <= Len(G) /\ \A x \in 1..lim : G[x].ts >= Time(e)

LEMMA MergedWhole ==
  ASSUME NEW ps, NEW Es, NEW m, Answers(ps, Es, m), NEW lim \in Nat,
         \A i \in 1..m : PartHits(ps[i].hits, Es[i], lim)
  PROVE  Whole(StableSort(FlattenSeq([i \in DOMAIN ps |-> ps[i].hits]), LAMBDA h : -h.ts),
               Together(Es, 1..m), lim)
<1> DEFINE M == Together(Es, 1..m)
           ss == [i \in DOMAIN ps |-> ps[i].hits]
           F == FlattenSeq(ss)
           N == Len(F)
           G == StableSort(F, LAMBDA h : -h.ts)
<1>1. /\ m \in Nat /\ DOMAIN ps = 1..m
      /\ \A i \in 1..m : Es[i] \in SUBSET Events
      /\ \A i, j \in 1..m : i # j => Es[i] \cap Es[j] = {}
  BY DEF Answers
<1>2. \A i \in 1..m : /\ ss[i] \in Seq(Hit) /\ Len(ss[i]) \in Nat
                      /\ PartHits(ss[i], Es[i], lim)
  <2>1. \A i \in 1..m : ss[i] = ps[i].hits  BY <1>1
  <2> HIDE DEF ss
  <2>2. \A i \in 1..m : PartHits(ss[i], Es[i], lim)  BY <2>1
  <2>3. \A i \in 1..m : ss[i] \in Seq(Hit)  BY <2>2 DEF PartHits
  <2> QED  BY <2>2, <2>3
<1>3. ss \in [1..m -> Seq(Hit)]
  <2>1. ss = [i \in 1..m |-> ss[i]]  BY <1>1
  <2> HIDE DEF ss
  <2> QED  BY <1>2, <2>1
<1> HIDE DEF ss
<1>4. PICK g : F \in Seq(Hit) /\ Joins(F, g, m, ss)  BY <1>1, <1>3, FlattenJoins
<1> HIDE DEF F
<1>5. N \in Nat /\ F \in [1..N -> Hit]  BY <1>4
<1>6. \A h \in Hit : h.ts \in Int  BY DEF Hit
<1>7. PICK o : Sorts(o, N, DownKey(F, N)) /\ G = Reordered(F, o, N)
  <2> HIDE DEF N
  <2> QED  BY <1>5, <1>6, SortedDown
<1> HIDE DEF N, G
<1>8. /\ \A x \in 1..N : o[x] \in 1..N
      /\ \A p \in 1..N : \E x \in 1..N : o[x] = p
      /\ \A x, y \in 1..N : o[x] = o[y] => x = y
      /\ \A x, y \in 1..N : x <= y => -F[o[x]].ts <= -F[o[y]].ts
  <2>1. \A x \in 1..N : DownKey(F, N)[x] = -F[x].ts  BY DEF DownKey
  <2>2. /\ \A x \in 1..N : o[x] \in 1..N
        /\ \A p \in 1..N : \E x \in 1..N : o[x] = p
        /\ \A x, y \in 1..N : o[x] = o[y] => x = y
        /\ \A x, y \in 1..N : x <= y => DownKey(F, N)[o[x]] <= DownKey(F, N)[o[y]]
    BY <1>7 DEF Sorts
  <2> QED  BY <2>1, <2>2
<1>9. G \in Seq(Hit) /\ Len(G) = N /\ \A x \in 1..N : G[x] = F[o[x]]
  <2>1. G = [i \in 1..N |-> F[o[i]]]  BY <1>7 DEF Reordered
  <2>2. G \in [1..N -> Hit]  BY <1>5, <1>8, <2>1
  <2> QED  BY <1>5, <2>1, <2>2
<1>10. /\ \A i \in 1..m : \A j \in 1..Len(ss[i]) :
            g[i - 1] + j \in 1..N /\ F[g[i - 1] + j] = ss[i][j]
       /\ \A p \in 1..N : \E i \in 1..m : \E j \in 1..Len(ss[i]) : p = g[i - 1] + j
  BY <1>4 DEF Joins, N
<1>11. \A i \in 1..m :
         /\ Len(ss[i]) <= lim
         /\ \A j \in 1..Len(ss[i]) : ss[i][j].event \in Es[i] /\ ss[i][j].ts = Time(ss[i][j].event)
         /\ \A j, y \in 1..Len(ss[i]) : ss[i][j].event = ss[i][y].event => j = y
         /\ \A e \in Es[i] : \/ \E j \in 1..Len(ss[i]) : ss[i][j].event = e
                             \/ Len(ss[i]) = lim /\ \A j \in 1..Len(ss[i]) : ss[i][j].ts >= Time(e)
  BY <1>2 DEF PartHits
<1>12. \A e : e \in M <=> \E i \in 1..m : e \in Es[i]  BY DEF Together
<1> HIDE DEF M
<1>13. ASSUME NEW p \in 1..N PROVE F[p].event \in M /\ F[p].ts = Time(F[p].event)
  <2>1. PICK i \in 1..m : \E j \in 1..Len(ss[i]) : p = g[i - 1] + j  BY <1>10
  <2>2. PICK j \in 1..Len(ss[i]) : p = g[i - 1] + j  BY <2>1
  <2>3. F[p] = ss[i][j]  BY <1>10, <2>2
  <2> QED  BY <1>11, <1>12, <2>3
<1>14. ASSUME NEW p \in 1..N, NEW r \in 1..N, F[p].event = F[r].event PROVE p = r
  <2>1. PICK i \in 1..m : \E j \in 1..Len(ss[i]) : p = g[i - 1] + j  BY <1>10
  <2>2. PICK j \in 1..Len(ss[i]) : p = g[i - 1] + j  BY <2>1
  <2>3. PICK x \in 1..m : \E y \in 1..Len(ss[x]) : r = g[x - 1] + y  BY <1>10
  <2>4. PICK y \in 1..Len(ss[x]) : r = g[x - 1] + y  BY <2>3
  <2>5. F[p] = ss[i][j] /\ F[r] = ss[x][y]  BY <1>10, <2>2, <2>4
  <2>6. ss[i][j].event \in Es[i] /\ ss[x][y].event \in Es[x]  BY <1>11
  <2>7. i = x  BY <1>1, <1>14, <2>5, <2>6
  <2>8. j = y  BY <1>11, <1>14, <2>5, <2>7
  <2> QED  BY <2>2, <2>4, <2>7, <2>8
<1>15. \A x \in 1..N : G[x].event \in M /\ G[x].ts = Time(G[x].event) /\ G[x].ts \in Int
  <2> SUFFICES ASSUME NEW x \in 1..N
               PROVE  G[x].event \in M /\ G[x].ts = Time(G[x].event) /\ G[x].ts \in Int
    OBVIOUS
  <2>1. o[x] \in 1..N /\ G[x] = F[o[x]] /\ F[o[x]] \in Hit  BY <1>5, <1>8, <1>9
  <2> QED  BY <1>6, <1>13, <2>1
<1>16. \A x, y \in 1..N : G[x].event = G[y].event => x = y
  <2> SUFFICES ASSUME NEW x \in 1..N, NEW y \in 1..N, G[x].event = G[y].event PROVE x = y
    OBVIOUS
  <2>1. o[x] \in 1..N /\ G[x] = F[o[x]] /\ o[y] \in 1..N /\ G[y] = F[o[y]]  BY <1>8, <1>9
  <2>2. o[x] = o[y]  BY <1>14, <2>1
  <2> QED  BY <1>8, <2>2
<1>17. \A x, y \in 1..N : x <= y => G[x].ts >= G[y].ts
  <2> SUFFICES ASSUME NEW x \in 1..N, NEW y \in 1..N, x <= y PROVE G[x].ts >= G[y].ts
    OBVIOUS
  <2>1. -F[o[x]].ts <= -F[o[y]].ts  BY <1>8
  <2>2. G[x] = F[o[x]] /\ G[y] = F[o[y]] /\ G[x].ts \in Int /\ G[y].ts \in Int  BY <1>9, <1>15
  <2> QED  BY <2>1, <2>2
<1>18. ASSUME NEW e \in M, \A x \in 1..N : G[x].event # e
       PROVE  lim <= N /\ \A x \in 1..lim : G[x].ts >= Time(e)
  <2>1. PICK i \in 1..m : e \in Es[i]  BY <1>12
  <2>2. \A j \in 1..Len(ss[i]) : ss[i][j].event # e
    <3> SUFFICES ASSUME NEW j \in 1..Len(ss[i]), ss[i][j].event = e PROVE FALSE  OBVIOUS
    <3>1. g[i - 1] + j \in 1..N /\ F[g[i - 1] + j] = ss[i][j]  BY <1>10
    <3>2. PICK x \in 1..N : o[x] = g[i - 1] + j  BY <1>8, <3>1
    <3>3. G[x] = ss[i][j]  BY <1>9, <3>1, <3>2
    <3> QED  BY <1>18, <3>3
  <2>3. Len(ss[i]) = lim /\ \A j \in 1..Len(ss[i]) : ss[i][j].ts >= Time(e)
    BY <1>11, <2>1, <2>2
  <2>4. Time(e) \in Int
    <3>1. e \in Events  BY <1>1, <2>1
    <3> QED  BY <3>1, BatchesAssumption DEF Time
  <2> DEFINE at == [j \in 1..lim |-> CHOOSE x \in 1..N : o[x] = g[i - 1] + j]
  <2>5. ASSUME NEW j \in 1..lim
        PROVE  at[j] \in 1..N /\ o[at[j]] = g[i - 1] + j /\ G[at[j]].ts >= Time(e)
    <3>1. j \in 1..Len(ss[i])  BY <2>3
    <3>2. g[i - 1] + j \in 1..N /\ F[g[i - 1] + j] = ss[i][j]  BY <1>10, <3>1
    <3>3. \E x \in 1..N : o[x] = g[i - 1] + j  BY <1>8, <3>2
    <3>4. at[j] \in 1..N /\ o[at[j]] = g[i - 1] + j  BY <3>3
    <3> HIDE DEF at
    <3>5. G[at[j]] = ss[i][j]  BY <1>9, <3>2, <3>4
    <3>6. ss[i][j].ts >= Time(e)  BY <2>3, <3>1
    <3> QED  BY <3>4, <3>5, <3>6
  <2>6. at = [j \in 1..lim |-> at[j]]  OBVIOUS
  <2> HIDE DEF at
  <2>7. ASSUME NEW j \in 1..lim, NEW y \in 1..lim, at[j] = at[y] PROVE j = y
    <3>1. g[i - 1] + j = g[i - 1] + y  BY <2>5, <2>7
    <3>2. g[i - 1] \in Nat
      <4>1. i - 1 \in 0..m  BY <1>1
      <4> QED  BY <1>4, <4>1 DEF Joins, Sums
    <3> QED  BY <3>1, <3>2
  <2>8. lim <= N
    <3>1. at \in [1..lim -> 1..N]  BY <2>5, <2>6
    <3>2. IsFiniteSet(1..N) /\ Cardinality(1..N) = N
      <4>1. 1 \in Int /\ N \in Int  BY <1>5
      <4>2. IsFiniteSet(1..N) /\ Cardinality(1..N) = IF 1 > N THEN 0 ELSE N - 1 + 1
        BY <4>1, FS_Interval
      <4> QED  BY <1>5, <4>2
    <3>3. lim <= Cardinality(1..N)  BY <2>7, <3>1, <3>2, AtLeast
    <3> QED  BY <3>2, <3>3
  <2>9. ASSUME NEW x \in 1..lim PROVE G[x].ts >= Time(e)
    <3>1. x \in 1..N /\ G[x].ts \in Int  BY <1>5, <1>15, <2>8
    <3>2. SUFFICES ASSUME G[x].ts < Time(e) PROVE FALSE  BY <2>4, <3>1
    <3>3. \A j \in 1..lim : at[j] \in 1..(x - 1)
      <4> SUFFICES ASSUME NEW j \in 1..lim PROVE at[j] \in 1..(x - 1)  OBVIOUS
      <4>1. at[j] \in 1..N /\ G[at[j]].ts >= Time(e) /\ G[at[j]].ts \in Int  BY <1>15, <2>5
      <4>2. x <= at[j] => G[x].ts >= G[at[j]].ts  BY <1>17, <3>1, <4>1
      <4>3. ~(x <= at[j])  BY <2>4, <3>1, <3>2, <4>1, <4>2
      <4> QED  BY <3>1, <4>1, <4>3
    <3>4. at \in [1..lim -> 1..(x - 1)]  BY <2>6, <3>3
    <3>5. IsFiniteSet(1..(x - 1)) /\ Cardinality(1..(x - 1)) = x - 1
      <4>1. 1 \in Int /\ x - 1 \in Int  OBVIOUS
      <4>2. /\ IsFiniteSet(1..(x - 1))
            /\ Cardinality(1..(x - 1)) = IF 1 > x - 1 THEN 0 ELSE (x - 1) - 1 + 1
        BY <4>1, FS_Interval
      <4> QED  BY <4>2
    <3>6. lim <= Cardinality(1..(x - 1))  BY <2>7, <3>4, <3>5, AtLeast
    <3>7. lim <= x - 1  BY <3>5, <3>6
    <3> QED  BY <3>7
  <2> QED  BY <2>8, <2>9
<1>19. Whole(G, M, lim)
  BY <1>9, <1>15, <1>16, <1>17, <1>18 DEF Whole
<1> QED  BY <1>19 DEF G, F, ss, M

LEMMA OfTwo ==
  ASSUME NEW a \in Int, NEW b \in Int
  PROVE  /\ Max({a, b}) = IF a >= b THEN a ELSE b
         /\ Min({a, b}) = IF a <= b THEN a ELSE b
<1>1. Max({a, b}) = IF a >= b THEN a ELSE b
  <2>1. \E x \in {a, b} : \A y \in {a, b} : x >= y  OBVIOUS
  <2>2. Max({a, b}) \in {a, b} /\ \A y \in {a, b} : Max({a, b}) >= y  BY <2>1 DEF Max
  <2> QED  BY <2>2
<1>2. Min({a, b}) = IF a <= b THEN a ELSE b
  <2>1. \E x \in {a, b} : \A y \in {a, b} : x <= y  OBVIOUS
  <2>2. Min({a, b}) \in {a, b} /\ \A y \in {a, b} : Min({a, b}) <= y  BY <2>1 DEF Min
  <2> QED  BY <2>2
<1> QED  BY <1>1, <1>2

LEMMA DropIs ==
  ASSUME NEW X, NEW s \in Seq(X), NEW k \in Nat
  PROVE  /\ Drop(s, k) \in Seq(X)
         /\ Len(Drop(s, k)) = IF k < Len(s) THEN Len(s) - k ELSE 0
         /\ \A x \in 1..Len(Drop(s, k)) : Drop(s, k)[x] = s[k + x]
<1>1. Len(s) \in Nat /\ \A i \in (k + 1)..Len(s) : s[i] \in X  OBVIOUS
<1>2. k + 1 \in Int /\ Len(s) \in Int  BY <1>1
<1>3. /\ SubSeq(s, k + 1, Len(s)) \in Seq(X)
      /\ Len(SubSeq(s, k + 1, Len(s))) = IF k + 1 <= Len(s) THEN Len(s) - (k + 1) + 1 ELSE 0
      /\ \A i \in 1..(Len(s) - (k + 1) + 1) : SubSeq(s, k + 1, Len(s))[i] = s[(k + 1) + i - 1]
  BY <1>1, <1>2, SubSeqProperties
<1> DEFINE t == SubSeq(s, k + 1, Len(s))
<1>4. Drop(s, k) = t  BY DEF Drop
<1> HIDE DEF t
<1>5. t \in Seq(X) /\ Len(t) = IF k < Len(s) THEN Len(s) - k ELSE 0
  BY <1>1, <1>3 DEF t
<1>6. ASSUME NEW x \in 1..Len(t) PROVE t[x] = s[k + x]
  <2>1. x \in 1..(Len(s) - (k + 1) + 1) /\ (k + 1) + x - 1 = k + x  BY <1>1, <1>5
  <2>2. t[x] = s[(k + 1) + x - 1]  BY <1>3, <2>1 DEF t
  <2> QED  BY <2>1, <2>2
<1> QED  BY <1>4, <1>5, <1>6

LaterThan(M, t) == {e \in M : Time(e) > t}
NoSooner(M, t) == {e \in M : Time(e) >= t}

(* A page of w events from place off on, of the events of M by time.       *)
PageOf(page, M, off, w) ==
  /\ DOMAIN page = 1..Len(page)
  /\ Len(page) = Max({0, Min({w, Cardinality(M) - off})})
  /\ IsInjective(page)
  /\ \A i \in 1..Len(page) :
       /\ page[i].event \in M
       /\ Cardinality(LaterThan(M, page[i].ts)) < off + i
       /\ Cardinality(NoSooner(M, page[i].ts)) >= off + i

LEMMA PageExact ==
  ASSUME NEW M \in SUBSET Events, IsFiniteSet(M), NEW off \in Nat, NEW w \in Nat \ {0},
         NEW G, Whole(G, M, off + w)
  PROVE  PageOf(Take(Drop(G, off), w), M, off, w)
<1> DEFINE page == Take(Drop(G, off), w)
           N == Len(G)
           c == Cardinality(M)
           lim == off + w
<1>1. /\ G \in Seq(Hit)
      /\ \A x \in 1..N : G[x].event \in M /\ G[x].ts = Time(G[x].event)
      /\ \A x, y \in 1..N : G[x].event = G[y].event => x = y
      /\ \A x, y \in 1..N : x <= y => G[x].ts >= G[y].ts
      /\ \A e \in M : \/ \E x \in 1..N : G[x].event = e
                      \/ lim <= N /\ \A x \in 1..lim : G[x].ts >= Time(e)
  BY DEF Whole
<1>2. N \in Nat /\ c \in Nat /\ lim \in Nat  BY <1>1, FS_CardinalityType
<1>3. /\ page \in Seq(Hit)
      /\ Len(page) = IF w < Len(Drop(G, off)) THEN w ELSE Len(Drop(G, off))
      /\ \A x \in 1..Len(page) : page[x] = Drop(G, off)[x]
      /\ Len(Drop(G, off)) = IF off < N THEN N - off ELSE 0
      /\ \A x \in 1..Len(Drop(G, off)) : Drop(G, off)[x] = G[off + x]
  <2>1. PICK d : d = Drop(G, off)  OBVIOUS
  <2>2. /\ d \in Seq(Hit) /\ Len(d) = IF off < N THEN N - off ELSE 0
        /\ \A x \in 1..Len(d) : d[x] = G[off + x]
    BY <1>1, <2>1, DropIs
  <2>3. PICK p : p = Take(d, w)  OBVIOUS
  <2>4. /\ p \in Seq(Hit) /\ Len(p) = IF w < Len(d) THEN w ELSE Len(d)
        /\ \A x \in 1..Len(p) : p[x] = d[x]
    BY <2>2, <2>3, TakeIs
  <2> QED  BY <2>1, <2>2, <2>3, <2>4
<1> HIDE DEF page, N, c, lim
<1>4. Len(page) \in Nat /\ DOMAIN page = 1..Len(page)  BY <1>3
<1>5. ASSUME NEW i \in 1..Len(page)
      PROVE  /\ page[i] = G[off + i] /\ off + i \in 1..N /\ off + i <= lim /\ i \in Nat
             /\ page[i].ts \in Int
  <2>1. i \in 1..Len(Drop(G, off)) /\ i <= w  BY <1>2, <1>3
  <2>2. page[i] = G[off + i] /\ off + i \in 1..N  BY <1>2, <1>3, <2>1
  <2>3. off + i <= lim  BY <2>1 DEF lim
  <2>4. page[i] \in Hit  BY <1>3
  <2>5. page[i].ts \in Int  BY <2>4 DEF Hit
  <2> QED  BY <2>2, <2>3, <2>5
<1>6. \A e \in M : Time(e) \in Int
  BY BatchesAssumption DEF Time
<1>7. N <= c
  <2> DEFINE h == [x \in 1..N |-> G[x].event]
  <2>1. h \in [1..N -> M] /\ \A x, y \in 1..N : h[x] = h[y] => x = y  BY <1>1
  <2> HIDE DEF h
  <2> QED  BY <1>2, <2>1, AtLeast DEF c
<1>8. N < lim => N = c
  <2> SUFFICES ASSUME N < lim PROVE c <= N  BY <1>2, <1>7
  <2> DEFINE h == [x \in 1..N |-> G[x].event]
  <2>1. \A e \in M : \E x \in 1..N : h[x] = e  BY <1>1, <1>2
  <2> HIDE DEF h
  <2> QED  BY <1>2, <2>1, AtMost DEF c
<1>9. Len(page) = Max({0, Min({w, c - off})})
  <2>1. Min({w, c - off}) = IF w <= c - off THEN w ELSE c - off  BY <1>2, OfTwo
  <2>2. Min({w, c - off}) \in Int  BY <1>2, <2>1
  <2>3. Max({0, Min({w, c - off})}) = IF 0 >= Min({w, c - off}) THEN 0 ELSE Min({w, c - off})
    <3>1. PICK y \in Int : y = Min({w, c - off})  BY <2>2
    <3>2. 0 \in Int  OBVIOUS
    <3>3. Max({0, y}) = IF 0 >= y THEN 0 ELSE y  BY <3>2, OfTwo
    <3> QED  BY <3>1, <3>3
  <2>4. lim = off + w  BY DEF lim
  <2>5. CASE N < lim
    <3>1. N = c  BY <1>8, <2>5
    <3> QED  BY <1>2, <1>3, <2>1, <2>3, <2>4, <3>1
  <2>6. CASE ~(N < lim)
    <3>1. N - off >= w /\ c - off >= w  BY <1>2, <1>7, <2>4, <2>6
    <3>2. Min({w, c - off}) = w  BY <1>2, <2>1, <3>1
    <3>3. Max({0, Min({w, c - off})}) = w  BY <2>3, <3>2
    <3>4. Len(page) = w  BY <1>2, <1>3, <3>1
    <3> QED  BY <3>3, <3>4
  <2> QED  BY <2>5, <2>6
<1>10. IsInjective(page)
  <2>1. \A x, y \in 1..Len(page) : page[x] = page[y] => x = y
    <3> SUFFICES ASSUME NEW x \in 1..Len(page), NEW y \in 1..Len(page), page[x] = page[y]
                 PROVE  x = y
      OBVIOUS
    <3>1. /\ page[x] = G[off + x] /\ page[y] = G[off + y] /\ x \in Nat /\ y \in Nat
          /\ off + x \in 1..N /\ off + y \in 1..N
      BY <1>5
    <3>2. off + x = off + y  BY <1>1, <3>1
    <3> QED  BY <3>1, <3>2
  <2> QED  BY <1>4, <2>1 DEF IsInjective
<1>11. ASSUME NEW i \in 1..Len(page)
       PROVE  /\ page[i].event \in M
              /\ Cardinality(LaterThan(M, page[i].ts)) < off + i
              /\ Cardinality(NoSooner(M, page[i].ts)) >= off + i
  <2> DEFINE r == off + i
             t == page[i].ts
  <2>1. r \in 1..N /\ r <= lim /\ page[i] = G[r] /\ t \in Int /\ t = G[r].ts  BY <1>5
  <2> HIDE DEF r, t
  <2>2. page[i].event \in M  BY <1>1, <2>1
  <2>3. Cardinality(LaterThan(M, t)) <= r - 1
    <3> DEFINE h == [x \in 1..(r - 1) |-> G[x].event]
    <3>1. ASSUME NEW e \in LaterThan(M, t) PROVE \E x \in 1..(r - 1) : h[x] = e
      <4>1. e \in M /\ Time(e) > t /\ Time(e) \in Int  BY <1>6 DEF LaterThan
      <4>2. ~(lim <= N /\ \A x \in 1..lim : G[x].ts >= Time(e))
        <5> SUFFICES ASSUME lim <= N, \A x \in 1..lim : G[x].ts >= Time(e) PROVE FALSE  OBVIOUS
        <5>1. r \in 1..lim  BY <1>2, <2>1
        <5>2. G[r].ts >= Time(e)  BY <5>1
        <5> QED  BY <2>1, <4>1, <5>2
      <4>3. PICK x \in 1..N : G[x].event = e  BY <1>1, <4>1, <4>2
      <4>4. G[x].ts = Time(e)  BY <1>1, <4>3
      <4>5. r <= x => G[r].ts >= G[x].ts  BY <1>1, <2>1
      <4>6. ~(r <= x)  BY <2>1, <4>1, <4>4, <4>5
      <4>7. x \in 1..(r - 1)  BY <1>2, <2>1, <4>6
      <4> QED  BY <4>3, <4>7
    <3>2. r - 1 \in Nat  BY <1>2, <2>1
    <3> HIDE DEF h
    <3> QED  BY <3>1, <3>2, AtMost
  <2>4. r <= Cardinality(NoSooner(M, t))
    <3> DEFINE h == [x \in 1..r |-> G[x].event]
    <3>1. ASSUME NEW x \in 1..r PROVE h[x] \in NoSooner(M, t) /\ h[x] = G[x].event /\ x \in 1..N
      <4>1. x \in 1..N /\ x <= r  BY <1>2, <2>1
      <4>2. G[x].ts >= G[r].ts /\ G[x].event \in M /\ G[x].ts = Time(G[x].event)
        BY <1>1, <2>1, <4>1
      <4> QED  BY <2>1, <4>1, <4>2 DEF NoSooner
    <3>2. h = [x \in 1..r |-> h[x]]  OBVIOUS
    <3> HIDE DEF h
    <3>3. h \in [1..r -> NoSooner(M, t)]  BY <3>1, <3>2
    <3>4. \A x, y \in 1..r : h[x] = h[y] => x = y  BY <1>1, <3>1
    <3>5. IsFiniteSet(NoSooner(M, t))
      <4>1. NoSooner(M, t) \in SUBSET M  BY DEF NoSooner
      <4> QED  BY <4>1, FS_Subset
    <3>6. r \in Nat  BY <1>2, <2>1
    <3> QED  BY <3>3, <3>4, <3>5, <3>6, AtLeast
  <2>5. Cardinality(LaterThan(M, t)) \in Nat
    <3>1. LaterThan(M, t) \in SUBSET M  BY DEF LaterThan
    <3> QED  BY <3>1, FS_Subset, FS_CardinalityType
  <2>6. Cardinality(NoSooner(M, t)) \in Nat
    <3>1. NoSooner(M, t) \in SUBSET M  BY DEF NoSooner
    <3> QED  BY <3>1, FS_Subset, FS_CardinalityType
  <2>7. r \in Nat  BY <1>2, <2>1
  <2>8. Cardinality(LaterThan(M, t)) < r /\ Cardinality(NoSooner(M, t)) >= r
    BY <2>3, <2>4, <2>5, <2>6, <2>7
  <2> QED  BY <2>2, <2>8 DEF r, t
<1>12. PageOf(page, M, off, w)
  BY <1>4, <1>9, <1>10, <1>11 DEF PageOf, c
<1> QED  BY <1>12 DEF page

-----------------------------------------------------------------------------
(* The rows a query selects of a block, and the partitions it reads.       *)

(* Its filter and its patterns say what its expression says of a row.      *)
FilterFits(q) ==
  \A b \in AnyBlock : \A k \in EventKeys : RowsFit(b.rows) => FilterExact(q, b, k)

LEMMA MatchedIs ==
  ASSUME StoreFits, CacheFits, NEW q, QueryFits(q), NEW node,
         NEW k \in Keys, NEW i \in DOMAIN Blocks(k)
  PROVE  Matched(Blocks(k)[i], node, q) = Eval(Blocks(k)[i], node) \cap TimeRows(Blocks(k)[i], q)
<1> DEFINE b == Blocks(k)[i]
           n == Len(b.rows)
<1>1. EvalCached(b, node) = Eval(b, node)
  <2>1. CASE Cached(b, node) = {}  BY <2>1 DEF EvalCached
  <2>2. CASE Cached(b, node) # {}
    <3>1. PICK c \in Cached(b, node) : EvalCached(b, node) = c.rows
      <4>1. (CHOOSE c \in Cached(b, node) : TRUE) \in Cached(b, node)  BY <2>2
      <4> QED  BY <2>2, <4>1 DEF EvalCached
    <3>2. c \in cache /\ c.id = b.id /\ c.node = node  BY DEF Cached
    <3>3. c.rows = Eval(b, c.node)  BY <3>2 DEF CacheFits
    <3> QED  BY <3>1, <3>2, <3>3
  <2> QED  BY <2>1, <2>2
<1>2. b \in AnyBlock /\ RowsFit(b.rows)  BY BlockFacts
<1> HIDE DEF b
<1>3. /\ b.rows \in Seq(AnyRow) /\ n \in Nat /\ n # 0 /\ DOMAIN b.rows = 1..n
      /\ \A x \in 1..n : b.rows[x].ts \in Int
      /\ \A x, y \in 1..n : x <= y => b.rows[x].ts <= b.rows[y].ts
  <2>1. b.rows \in Seq(AnyRow) /\ n \in Nat /\ n # 0 /\ DOMAIN b.rows = 1..n
    BY <1>2 DEF RowsFit
  <2>2. \A x \in 1..n : b.rows[x] \in AnyRow  BY <2>1
  <2>3. \A x \in 1..n : b.rows[x].ts \in Int
    <3> HIDE DEF n
    <3> QED  BY <2>2, RowFacts
  <2>4. InOrder(b.rows)  BY <1>2 DEF RowsFit
  <2> QED  BY <2>1, <2>3, <2>4 DEF InOrder
<1>4. ~Overlaps(b, q) => TimeRows(b, q) = {}
  <2> SUFFICES ASSUME NEW x \in TimeRows(b, q) PROVE Overlaps(b, q)  OBVIOUS
  <2>1. x \in 1..n /\ After(b.rows[x].ts, q.start) /\ Before(b.rows[x].ts, q.end)
    BY <1>3 DEF TimeRows, AllRows
  <2>2. 1 \in 1..n /\ n \in 1..n /\ 1 <= x /\ x <= n  BY <1>3, <2>1
  <2>3. b.rows[1].ts <= b.rows[x].ts /\ b.rows[x].ts <= b.rows[n].ts  BY <1>3, <2>1, <2>2
  <2>4. b.rows[1].ts \in Int /\ b.rows[x].ts \in Int /\ b.rows[n].ts \in Int  BY <1>3, <2>1, <2>2
  <2>5. After(b.rows[n].ts, q.start)  BY <2>1, <2>3, <2>4 DEF After, QueryFits
  <2>6. Before(b.rows[1].ts, q.end)  BY <2>1, <2>3, <2>4 DEF Before, QueryFits
  <2> QED  BY <2>5, <2>6 DEF Overlaps
<1>5. Matched(b, node, q) = Eval(b, node) \cap TimeRows(b, q)
  BY <1>1, <1>4 DEF Matched
<1> QED  BY <1>5 DEF b

LEMMA DaysInOrder ==
  ASSUME NEW a \in Int, NEW b \in Int
  PROVE  /\ Day(a) \in Int
         /\ a <= b => Day(a) <= Day(b)
         /\ 0 <= a <=> 0 <= Day(a)
<1> DEFINE T == TicksPerDay
           x == a \div T
           y == b \div T
<1>1. T \in Int /\ T > 0  BY DaysAssumption
<1> HIDE DEF T
<1>2. /\ x \in Int /\ y \in Int /\ a % T \in Int /\ b % T \in Int
      /\ a = T * x + (a % T) /\ 0 <= a % T /\ a % T < T
      /\ b = T * y + (b % T) /\ 0 <= b % T /\ b % T < T
  BY <1>1
<1>3. Day(a) = x /\ Day(b) = y  BY DEF Day, T
<1> HIDE DEF x, y
<1>4. ASSUME a <= b, x > y PROVE FALSE
  <2>1. PICK d \in Int : x = y + 1 + d /\ d >= 0
    <3>1. x - y - 1 \in Int /\ x - y - 1 >= 0 /\ x = y + 1 + (x - y - 1)  BY <1>2, <1>4
    <3> QED  BY <3>1
  <2>2. T * x = T * y + T + T * d
    <3>1. T * (y + 1 + d) = T * y + T + T * d  BY <1>1, <1>2, <2>1
    <3> QED  BY <2>1, <3>1
  <2>3. T * d >= 0 /\ T * d \in Int /\ T * y \in Int /\ T * x \in Int  BY <1>1, <1>2, <2>1
  <2> QED  BY <1>1, <1>2, <1>4, <2>2, <2>3
<1>5. ASSUME 0 <= a, x < 0 PROVE FALSE
  <2>1. PICK d \in Int : x = -1 - d /\ d >= 0
    <3>1. -1 - x \in Int /\ -1 - x >= 0 /\ x = -1 - (-1 - x)  BY <1>2, <1>5
    <3> QED  BY <3>1
  <2>2. T * x = -T - T * d
    <3>1. T * (-1 - d) = -T - T * d  BY <1>1, <1>2, <2>1
    <3> QED  BY <2>1, <3>1
  <2>3. T * d >= 0 /\ T * d \in Int /\ T * x \in Int  BY <1>1, <1>2, <2>1
  <2> QED  BY <1>1, <1>2, <1>5, <2>2, <2>3
<1>6. ASSUME a < 0, 0 <= x PROVE FALSE
  <2>1. T * x >= 0 /\ T * x \in Int  BY <1>1, <1>2, <1>6
  <2> QED  BY <1>2, <1>6, <2>1
<1> QED  BY <1>2, <1>3, <1>4, <1>5, <1>6

LEMMA KeyFacts ==
  ASSUME NEW e \in Events
  PROVE  LET k == KeyOf(e)
         IN  /\ k = [env |-> k.env, index |-> k.index, day |-> k.day]
             /\ k.env \in {UserEnv, SystemEnv} /\ k.index \in Int /\ k.day \in Int
             /\ k.day = IF e.ts = None THEN Today ELSE Day(e.ts)
<1>1. e.ts = None \/ e.ts \in Int  BY BatchesAssumption
<1>2. e.env \in {UserEnv, SystemEnv} /\ e.index \in Int  BY BatchesAssumption
<1>3. Today \in Int  BY DaysAssumption
<1>4. e.ts \in Int => Day(e.ts) \in Int  BY DaysInOrder
<1> DEFINE d == IF e.ts = None THEN Today ELSE Day(e.ts)
<1>5. KeyOf(e) = [env |-> e.env, index |-> e.index, day |-> d]  BY DEF KeyOf
<1>6. d \in Int  BY <1>1, <1>3, <1>4
<1> HIDE DEF d
<1>7. KeyOf(e).env = e.env /\ KeyOf(e).index = e.index /\ KeyOf(e).day = d  BY <1>5
<1> QED  BY <1>2, <1>5, <1>6, <1>7 DEF d

(* A row in the window is in a partition of one of its days.               *)
LEMMA WindowIs ==
  ASSUME NEW q, QueryFits(q), NEW r \in AnyRow, NEW s, s.row = r
  PROVE  LET k == KeyOf(r.event)
         IN  InWindow(s, q) <=> /\ q.start = None \/ k.day >= Day(q.start)
                                /\ q.end = None \/ k.day <= Day(q.end)
                                /\ After(r.ts, q.start) /\ Before(r.ts, q.end)
<1> DEFINE e == r.event
           k == KeyOf(e)
<1>1. e \in Events /\ r.ts \in Int /\ r.ts = IF e.ts = None THEN 0 ELSE e.ts  BY RowFacts
<1>2. k.day \in Int /\ k.day = IF e.ts = None THEN Today ELSE Day(e.ts)  BY <1>1, KeyFacts
<1>3. Today \in Int /\ Today >= 0  BY DaysAssumption
<1> HIDE DEF k
<1>4. q.start \in Int \cup {None} /\ q.end \in Int \cup {None}  BY DEF QueryFits
<1>5. InWindow(s, q) <=> /\ After(r.ts, q.start)
                         /\ IF e.ts # None THEN Before(r.ts, q.end)
                            ELSE q.end = None \/ Day(q.end) >= Today
  BY DEF InWindow
<1>6. q.start # None => q.start \in Int /\ Day(q.start) \in Int
  BY <1>4, DaysInOrder
<1>7. q.end # None => q.end \in Int /\ Day(q.end) \in Int
  BY <1>4, DaysInOrder
<1>8. CASE e.ts # None
  <2>1. k.day = Day(r.ts) /\ r.ts \in Int  BY <1>1, <1>2, <1>8
  <2>2. After(r.ts, q.start) => q.start = None \/ k.day >= Day(q.start)
    <3> SUFFICES ASSUME q.start # None, r.ts >= q.start PROVE k.day >= Day(q.start)
      BY DEF After
    <3>1. q.start \in Int /\ q.start <= r.ts  BY <1>6, <2>1
    <3>2. Day(q.start) <= Day(r.ts)  BY <2>1, <3>1, DaysInOrder
    <3> QED  BY <1>2, <1>6, <2>1, <3>2
  <2>3. Before(r.ts, q.end) => q.end = None \/ k.day <= Day(q.end)
    <3> SUFFICES ASSUME q.end # None, r.ts <= q.end PROVE k.day <= Day(q.end)
      BY DEF Before
    <3>1. q.end \in Int  BY <1>7
    <3>2. Day(r.ts) <= Day(q.end)  BY <2>1, <3>1, DaysInOrder
    <3> QED  BY <2>1, <3>2
  <2> QED  BY <1>5, <1>8, <2>2, <2>3 DEF k, e
<1>9. CASE e.ts = None
  <2>1. k.day = Today /\ r.ts = 0  BY <1>1, <1>2, <1>9
  <2>2. After(r.ts, q.start) => q.start = None \/ k.day >= Day(q.start)
    <3> SUFFICES ASSUME q.start # None, 0 >= q.start PROVE Today >= Day(q.start)
      BY <2>1 DEF After
    <3>1. q.start \in Int /\ q.start <= 0 /\ 0 \in Int /\ 1 \in Int /\ -1 \in Int  BY <1>6
    <3>2. Day(q.start) <= Day(0)  BY <3>1, DaysInOrder
    <3>3. Day(0) \in Int /\ Day(0) <= 0
      <4>1. Day(0) = 0  BY DaysAssumption DEF Day
      <4> QED  BY <4>1
    <3> QED  BY <1>3, <1>6, <3>2, <3>3
  <2>3. q.end # None /\ Day(q.end) >= Today => Before(r.ts, q.end)
    <3> SUFFICES ASSUME q.end # None, Day(q.end) >= Today PROVE 0 <= q.end
      BY <2>1 DEF Before
    <3>1. q.end \in Int /\ 0 <= Day(q.end)  BY <1>3, <1>7
    <3> QED  BY <3>1, DaysInOrder
  <2>4. q.end # None => (Day(q.end) >= Today <=> k.day <= Day(q.end))  BY <1>3, <1>7, <2>1
  <2>5. q.end = None => Before(r.ts, q.end)  BY DEF Before
  <2> QED  BY <1>5, <1>9, <2>2, <2>3, <2>4, <2>5 DEF k, e
<1> QED  BY <1>8, <1>9

StoredAt(k, r) == [row |-> r, index |-> k.index, key |-> k]

(* A row matches when its partition is planned and the filter selects it.  *)
LEMMA PlanIs ==
  ASSUME StoreFits, CacheFits, NEW q, QueryFits(q), FilterFits(q),
         NEW k \in Keys, NEW i \in DOMAIN Blocks(k), NEW j \in DOMAIN Blocks(k)[i].rows
  PROVE  LET s == StoredAt(k, Blocks(k)[i].rows[j])
         IN  InWindow(s, q) /\ InScope(s, q) /\ Meant(q, s)
               <=> k \in Planned(q) /\ j \in Matched(Blocks(k)[i], PlannedNode(q), q)
<1> DEFINE b == Blocks(k)[i]
           r == b.rows[j]
           s == StoredAt(k, r)
           own == PlannedPatterns(q)
           node == PlannedNode(q)
           days == (q.start = None \/ k.day >= Day(q.start)) /\ (q.end = None \/ k.day <= Day(q.end))
           here == After(r.ts, q.start) /\ Before(r.ts, q.end)
           mine == \E p \in own : Matches(p, k.index)
<1>1. b \in AnyBlock /\ RowsFit(b.rows) /\ \A e \in EventsOf(b.rows) : KeyOf(e) = k  BY BlockFacts
<1>2. b.rows \in Seq(AnyRow) /\ j \in DOMAIN b.rows  BY <1>1 DEF RowsFit
<1>3. r \in AnyRow  BY <1>2
<1>4. KeyOf(r.event) = k  BY <1>1, <1>2 DEF EventsOf
<1>5. k \in EventKeys  BY DEF StoreFits
<1>6. r.event \in Events  BY <1>3, RowFacts
<1>7. k.env \in {UserEnv, SystemEnv}  BY <1>4, <1>6, KeyFacts
<1>8. FilterExact(q, b, k)  BY <1>1, <1>5 DEF FilterFits
<1>9. j \in AllRows(b)  BY <1>2 DEF AllRows
<1>10. Matched(b, node, q) = Eval(b, node) \cap TimeRows(b, q)
  <2> HIDE DEF node
  <2> QED  BY MatchedIs DEF b
<1>11. j \in Matched(b, node, q) <=> j \in Eval(b, node) /\ here
  BY <1>9, <1>10 DEF TimeRows
<1> HIDE DEF b, r
<1>12. s.row = r /\ s.index = k.index /\ s.key = k  BY DEF StoredAt
<1>13. Meant(q, s) <=> (own = {} \/ mine) /\ j \in Eval(b, node)
  BY <1>8, <1>9 DEF FilterExact, StoredAt, r
<1>14. own = {} <=> \A w \in Words(q) : w.field # "index"  BY <1>8 DEF FilterExact
<1> HIDE DEF s
<1>15. InWindow(s, q) <=> days /\ here
  BY <1>3, <1>4, <1>12, WindowIs
<1>16. InScope(s, q) <=> /\ IF q.env = None THEN k.env = UserEnv ELSE k.env = q.env
                         /\ q.allow = {} \/ Allowed(q.allow, k)
                         /\ q.explicit = None \/ k \in q.explicit
                         /\ (q.index # None /\ own = {}) => Matches(q.index, k.index)
  BY <1>12, <1>14 DEF InScope
<1> HIDE DEF own, node
<1>17. k \in Planned(q) <=> /\ q.env = None \/ k.env = q.env
                            /\ IF own # {} THEN mine
                               ELSE q.index = None \/ Matches(q.index, k.index)
                            /\ days
                            /\ q.env = None => k.env # SystemEnv
                            /\ q.allow = {} \/ Allowed(q.allow, k)
                            /\ q.explicit = None \/ k \in q.explicit
  <2> DEFINE patterns == IF own # {} THEN own ELSE IF q.index = None THEN {} ELSE {q.index}
  <2>1. k \in Planned(q) <=> /\ q.env = None \/ k.env = q.env
                             /\ patterns = {} \/ \E p \in patterns : Matches(p, k.index)
                             /\ days
                             /\ q.env = None => k.env # SystemEnv
                             /\ q.allow = {} \/ Allowed(q.allow, k)
                             /\ q.explicit = None \/ k \in q.explicit
    BY DEF Planned, PlannedOf, FilterPartitions, own
  <2>2. (patterns = {} \/ \E p \in patterns : Matches(p, k.index))
          <=> IF own # {} THEN mine ELSE q.index = None \/ Matches(q.index, k.index)
    <3>1. CASE own # {}  BY <3>1
    <3>2. CASE own = {} /\ q.index = None  BY <3>2
    <3>3. CASE own = {} /\ q.index # None
      <4>1. patterns = {q.index}  BY <3>3
      <4> QED  BY <3>3, <4>1
    <3> QED  BY <3>1, <3>2, <3>3
  <2> HIDE DEF patterns, days, mine
  <2> QED  BY <2>1, <2>2
<1>18. (IF q.env = None THEN k.env = UserEnv ELSE k.env = q.env)
         <=> (q.env = None \/ k.env = q.env) /\ (q.env = None => k.env # SystemEnv)
  BY <1>7 DEF UserEnv, SystemEnv
<1>19. own # {} \/ ~mine  BY DEF mine
<1> HIDE DEF days, here, mine
<1>20. InWindow(s, q) /\ InScope(s, q) /\ Meant(q, s) <=> k \in Planned(q) /\ j \in Matched(b, node, q)
  BY <1>11, <1>13, <1>15, <1>16, <1>17, <1>18, <1>19
<1> QED  BY <1>20 DEF s, b, r, node

(* The catalog's order of the partitions.                                  *)
CatalogBefore(k, l) ==
  \/ k.index < l.index /\ k.env = l.env
  \/ k.env = SystemEnv /\ l.env = UserEnv
  \/ k.env = l.env /\ k.index = l.index /\ k.day > l.day

CatalogIn(S) == {p \in S \X S : CatalogBefore(p[1], p[2])}

LEMMA PlannedLists ==
  ASSUME StoreFits, NEW q
  PROVE  /\ Planned(q) \in SUBSET Keys /\ IsFiniteSet(Planned(q))
         /\ Cardinality(Planned(q)) \in Nat
         /\ Lists(PlannedKeys(q), Planned(q), CatalogIn(Planned(q)))
<1> DEFINE S == Planned(q)
           R == CatalogIn(S)
           First(x) == {y \in S : CatalogBefore(y, x)}
           o == PlannedKeys(q)
<1>1. S \in SUBSET Keys  BY DEF Planned, PlannedOf, FilterPartitions
<1>2. IsFiniteSet(S) /\ Cardinality(S) \in Nat
  <2>1. IsFiniteSet(Keys)  BY DEF StoreFits
  <2> HIDE DEF S
  <2> QED  BY <1>1, <2>1, FS_Subset, FS_CardinalityType
<1>3. \A k \in S : /\ k = [env |-> k.env, index |-> k.index, day |-> k.day]
                   /\ k.env \in {UserEnv, SystemEnv} /\ k.index \in Int /\ k.day \in Int
  <2> SUFFICES ASSUME NEW k \in S
               PROVE  /\ k = [env |-> k.env, index |-> k.index, day |-> k.day]
                      /\ k.env \in {UserEnv, SystemEnv} /\ k.index \in Int /\ k.day \in Int
    OBVIOUS
  <2>1. k \in EventKeys  BY <1>1 DEF StoreFits
  <2>2. PICK e \in Events : k = KeyOf(e)  BY <2>1 DEF EventKeys
  <2> QED  BY <2>2, KeyFacts
<1>4. \A k, l \in S : k.env = l.env /\ k.index = l.index /\ k.day = l.day => k = l
  <2> HIDE DEF S
  <2> SUFFICES ASSUME NEW k \in S, NEW l \in S, k.env = l.env, k.index = l.index, k.day = l.day
               PROVE  k = l
    OBVIOUS
  <2>1. k = [env |-> k.env, index |-> k.index, day |-> k.day]  BY <1>3
  <2>2. l = [env |-> l.env, index |-> l.index, day |-> l.day]  BY <1>3
  <2> QED  BY <2>1, <2>2
<1>5. \A k \in S : k.env \in {1, 2} /\ k.index \in Int /\ k.day \in Int
  BY <1>3 DEF UserEnv, SystemEnv
<1>6. o = [i \in 1..Cardinality(S) |-> CHOOSE x \in S : Cardinality(First(x)) = i - 1]
  BY DEF PlannedKeys, Ranked, CatalogBefore
<1> HIDE DEF S, o
<1>7. StrictOrder(S, R)
  <2>1. \A k, l \in S : <<k, l>> \in R <=> CatalogBefore(k, l)  BY DEF CatalogIn
  <2> HIDE DEF R
  <2>2. \A k \in S : ~CatalogBefore(k, k)
    <3> SUFFICES ASSUME NEW k \in S PROVE ~CatalogBefore(k, k)  OBVIOUS
    <3>1. k.env \in {1, 2} /\ k.index \in Int /\ k.day \in Int  BY <1>5
    <3> QED  BY <3>1 DEF CatalogBefore, UserEnv, SystemEnv
  <2>3. \A k, l \in S : k # l => CatalogBefore(k, l) \/ CatalogBefore(l, k)
    <3> SUFFICES ASSUME NEW k \in S, NEW l \in S, k # l
                 PROVE  CatalogBefore(k, l) \/ CatalogBefore(l, k)
      OBVIOUS
    <3>1. k.env # l.env \/ k.index # l.index \/ k.day # l.day  BY <1>4
    <3>2. /\ k.env \in {1, 2} /\ k.index \in Int /\ k.day \in Int
          /\ l.env \in {1, 2} /\ l.index \in Int /\ l.day \in Int
      BY <1>5
    <3> QED  BY <3>1, <3>2 DEF CatalogBefore, UserEnv, SystemEnv
  <2>4. \A k, l, m \in S : CatalogBefore(k, l) /\ CatalogBefore(l, m) => CatalogBefore(k, m)
    <3> SUFFICES ASSUME NEW k \in S, NEW l \in S, NEW m \in S,
                        CatalogBefore(k, l), CatalogBefore(l, m)
                 PROVE  CatalogBefore(k, m)
      OBVIOUS
    <3>2. /\ k.env \in {1, 2} /\ k.index \in Int /\ k.day \in Int
          /\ l.env \in {1, 2} /\ l.index \in Int /\ l.day \in Int
          /\ m.env \in {1, 2} /\ m.index \in Int /\ m.day \in Int
      BY <1>5
    <3> QED  BY <3>2 DEF CatalogBefore, UserEnv, SystemEnv
  <2>5. \A x \in S : <<x, x>> \notin R  BY <2>1, <2>2
  <2>6. \A x, y \in S : x # y => <<x, y>> \in R \/ <<y, x>> \in R  BY <2>1, <2>3
  <2>7. \A x, y, z \in S : <<x, y>> \in R /\ <<y, z>> \in R => <<x, z>> \in R  BY <2>1, <2>4
  <2> QED  BY <2>5, <2>6, <2>7 DEF StrictOrder
<1>8. \A x \in S : First(x) = Below(S, R, x)  BY DEF Below, CatalogIn
<1> HIDE DEF R, First
<1>9. Ranks(o, S, R)
  <2>2. ASSUME NEW i \in 1..Cardinality(S), \E x \in S : Cardinality(Below(S, R, x)) = i - 1
        PROVE  o[i] \in S /\ Cardinality(Below(S, R, o[i])) = i - 1
    <3>1. \E x \in S : Cardinality(First(x)) = i - 1  BY <1>8, <2>2
    <3>2. o[i] = CHOOSE x \in S : Cardinality(First(x)) = i - 1  BY <1>6
    <3>3. o[i] \in S /\ Cardinality(First(o[i])) = i - 1  BY <3>1, <3>2
    <3> QED  BY <1>8, <3>3
  <2>3. o = [i \in 1..Cardinality(S) |-> o[i]]  BY <1>6
  <2> QED  BY <2>2, <2>3 DEF Ranks
<1>10. Lists(o, S, R)  BY <1>2, <1>7, <1>9, RankedLists
<1> QED  BY <1>1, <1>2, <1>10 DEF S, R, o

(* The partitions' selections are as the lemmas on one partition want them.*)
LEMMA PlanSelects ==
  ASSUME StoreFits, CacheFits, NEW q, QueryFits(q), FilterFits(q), NEW k \in Keys
  PROVE  Selects(Blocks(k), MatchedIn(Blocks(k), PlannedNode(q), q), Len(Blocks(k)))
<1> DEFINE bs == Blocks(k)
           node == PlannedNode(q)
           sel == MatchedIn(bs, node, q)
           n == Len(bs)
<1>1. BlocksFit(bs, k, written, arrived) /\ k \in EventKeys  BY DEF StoreFits
<1>2. n \in Nat /\ DOMAIN bs = 1..n /\ Apart(bs)  BY <1>1 DEF BlocksFit
<1>3. ASSUME NEW i \in 1..n
      PROVE  RowsFit(bs[i].rows) /\ sel[i] \in SUBSET (DOMAIN bs[i].rows)
  <2>1. i \in DOMAIN bs  BY <1>2
  <2>2. bs[i] \in AnyBlock /\ RowsFit(bs[i].rows)  BY <2>1, BlockFacts
  <2>3. Matched(bs[i], node, q) = Eval(bs[i], node) \cap TimeRows(bs[i], q)
    <3> HIDE DEF node
    <3> QED  BY <2>1, MatchedIs
  <2>4. FilterExact(q, bs[i], k)  BY <1>1, <2>2 DEF FilterFits
  <2>5. Matched(bs[i], node, q) \in SUBSET (DOMAIN bs[i].rows)
    BY <2>3, <2>4 DEF FilterExact, AllRows
  <2>6. sel[i] = Matched(bs[i], node, q)  BY <2>1 DEF MatchedIn
  <2> QED  BY <2>2, <2>5, <2>6
<1>4. \A i, j \in 1..n : i # j => EventsOf(bs[i].rows) \cap EventsOf(bs[j].rows) = {}
  BY <1>2 DEF Apart
<1> HIDE DEF bs, sel, n, node
<1>5. Selects(bs, sel, n)  BY <1>2, <1>3, <1>4 DEF Selects
<1> QED  BY <1>5 DEF bs, sel, n, node

-----------------------------------------------------------------------------
(* What the partitions of the plan answer, and the rows that match.        *)

FoundIn(k, q) ==
  Found(Blocks(k), MatchedIn(Blocks(k), PlannedNode(q), q), Len(Blocks(k)))

LEMMA FoundHere ==
  ASSUME StoreFits, CacheFits, NEW q, QueryFits(q), FilterFits(q), NEW k \in Keys
  PROVE  /\ FoundIn(k, q) \in SUBSET Events /\ IsFiniteSet(FoundIn(k, q))
         /\ \A e \in FoundIn(k, q) : KeyOf(e) = k
         /\ \A e : e \in FoundIn(k, q)
              <=> \E i \in DOMAIN Blocks(k) : \E j \in DOMAIN Blocks(k)[i].rows :
                    /\ j \in Matched(Blocks(k)[i], PlannedNode(q), q)
                    /\ Blocks(k)[i].rows[j].event = e
<1> DEFINE bs == Blocks(k)
           node == PlannedNode(q)
           sel == MatchedIn(bs, node, q)
           n == Len(bs)
<1>1. Selects(bs, sel, n)
  <2> HIDE DEF bs
  <2> QED  BY PlanSelects DEF bs
<1>2. IsFiniteSet(FoundIn(k, q))  BY <1>1, FoundFinite DEF FoundIn
<1>3. FoundIn(k, q) \in SUBSET Events  BY DEF FoundIn, Found
<1>4. DOMAIN bs = 1..n  BY <1>1 DEF Selects
<1>5. \A i \in 1..n : sel[i] = Matched(bs[i], node, q)  BY <1>4 DEF MatchedIn
<1>6. \A i \in 1..n : sel[i] \in SUBSET (DOMAIN bs[i].rows)  BY <1>1 DEF Selects
<1>7. \A i \in 1..n : \A e \in EventsOf(bs[i].rows) : KeyOf(e) = k
  <2> SUFFICES ASSUME NEW i \in 1..n PROVE \A e \in EventsOf(bs[i].rows) : KeyOf(e) = k
    OBVIOUS
  <2>1. i \in DOMAIN Blocks(k)  BY <1>4
  <2> QED  BY <2>1, BlockFacts
<1>8. \A i \in 1..n : \A j \in sel[i] : bs[i].rows[j].event \in Events
  BY <1>1, PlaceFacts
<1>9. FoundIn(k, q) = {e \in Events : \E i \in 1..n : \E j \in sel[i] : bs[i].rows[j].event = e}
  BY DEF FoundIn, Found
<1> HIDE DEF bs, sel, n, node
<1>10. ASSUME NEW e, e \in FoundIn(k, q)
       PROVE  /\ KeyOf(e) = k
              /\ \E i \in 1..n : \E j \in DOMAIN bs[i].rows :
                   j \in Matched(bs[i], node, q) /\ bs[i].rows[j].event = e
  <2>1. PICK i \in 1..n : \E j \in sel[i] : bs[i].rows[j].event = e  BY <1>9, <1>10
  <2>2. PICK j \in sel[i] : bs[i].rows[j].event = e  BY <2>1
  <2>3. j \in DOMAIN bs[i].rows /\ j \in Matched(bs[i], node, q)  BY <1>5, <1>6, <2>1, <2>2
  <2>4. e \in EventsOf(bs[i].rows)  BY <2>2, <2>3 DEF EventsOf
  <2> QED  BY <1>7, <2>1, <2>2, <2>3, <2>4
<1>11. ASSUME NEW e, NEW i \in 1..n, NEW j \in DOMAIN bs[i].rows,
              j \in Matched(bs[i], node, q), bs[i].rows[j].event = e
       PROVE  e \in FoundIn(k, q)
  <2>1. j \in sel[i]  BY <1>5, <1>11
  <2>2. e \in Events  BY <1>8, <1>11, <2>1
  <2> QED  BY <1>9, <1>11, <2>1, <2>2
<1>12. \A e : e \in FoundIn(k, q)
         <=> \E i \in DOMAIN bs : \E j \in DOMAIN bs[i].rows :
               j \in Matched(bs[i], node, q) /\ bs[i].rows[j].event = e
  BY <1>4, <1>10, <1>11
<1>13. \A e \in FoundIn(k, q) : KeyOf(e) = k  BY <1>10
<1> QED  BY <1>2, <1>3, <1>12, <1>13 DEF bs, node

LEMMA PartitionExact ==
  ASSUME StoreFits, CacheFits, NEW q, QueryFits(q), FilterFits(q), NEW k \in Keys, NEW lim \in Nat
  PROVE  LET p == PartitionAnswer(k, PlannedNode(q), q, lim, q.interval)
         IN  /\ p.total = Cardinality(FoundIn(k, q))
             /\ PartHits(p.hits, FoundIn(k, q), lim)
             /\ q.interval # 0 => p.buckets = CountsOver({}, FoundIn(k, q), SlotOf(q.interval))
<1> DEFINE bs == Blocks(k)
           sel == MatchedIn(bs, PlannedNode(q), q)
           n == Len(bs)
           iv == q.interval
           total == SumSeq([i \in DOMAIN bs |-> Cardinality(sel[i])])
           hits == Take(Ranked(Candidates(bs, sel, lim), Sooner), lim)
           buckets == IF iv = 0 THEN <<>> ELSE AddAll([i \in DOMAIN bs |-> Buckets(bs[i], sel[i], iv)])
           p == PartitionAnswer(k, PlannedNode(q), q, lim, iv)
<1>1. Selects(bs, sel, n)
  <2> HIDE DEF bs
  <2> QED  BY PlanSelects DEF bs
<1>2. FoundIn(k, q) = Found(bs, sel, n)  BY DEF FoundIn
<1>3. p = [total |-> total, hits |-> hits, buckets |-> buckets]
  <2>1. p = RowsAnswer(bs, sel, lim, iv)  BY DEF PartitionAnswer
  <2> HIDE DEF bs, sel, iv, p
  <2> QED  BY <2>1 DEF RowsAnswer, Candidates, HitAt
<1> HIDE DEF bs, sel, n, p
<1>4. total = Cardinality(Found(bs, sel, n))  BY <1>1, TotalExact
<1>5. PartHits(hits, Found(bs, sel, n), lim)  BY <1>1, HitsExact
<1>6. iv # 0 => buckets = CountsOver({}, Found(bs, sel, n), SlotOf(iv))
  <2> HIDE DEF iv
  <2> QED  BY <1>1, BucketsExact
<1> HIDE DEF total, hits, buckets
<1>7. p.total = total /\ p.hits = hits /\ p.buckets = buckets  BY <1>3
<1> QED  BY <1>2, <1>4, <1>5, <1>6, <1>7 DEF p

FoundBy(q) == [i \in 1..Cardinality(Planned(q)) |-> FoundIn(PlannedKeys(q)[i], q)]
AllFound(q) == Together(FoundBy(q), 1..Cardinality(Planned(q)))

LEMMA PartsExact ==
  ASSUME StoreFits, CacheFits, NEW q, QueryFits(q), FilterFits(q), NEW lim \in Nat
  PROVE  LET ps == Parts(PlannedKeys(q), PlannedNode(q), q, lim)
             Es == FoundBy(q)
             m == Cardinality(Planned(q))
         IN  /\ Answers(ps, Es, m) /\ Len(ps) = m
             /\ \A i \in 1..m : PartHits(ps[i].hits, Es[i], lim)
             /\ q.interval # 0 => \A i \in 1..m : ps[i].buckets = CountsOver({}, Es[i], SlotOf(q.interval))
<1> DEFINE ks == PlannedKeys(q)
           node == PlannedNode(q)
           ps == Parts(ks, node, q, lim)
           Es == FoundBy(q)
           m == Cardinality(Planned(q))
<1>1. /\ Planned(q) \in SUBSET Keys /\ m \in Nat /\ ks \in [1..m -> Planned(q)]
      /\ \A i, j \in 1..m : i < j <=> <<ks[i], ks[j]>> \in CatalogIn(Planned(q))
      /\ \A i \in 1..m : Cardinality(Below(Planned(q), CatalogIn(Planned(q)), ks[i])) = i - 1
  BY PlannedLists DEF Lists
<1>2. \A i, j \in 1..m : ks[i] = ks[j] => i = j
  <2> SUFFICES ASSUME NEW i \in 1..m, NEW j \in 1..m, ks[i] = ks[j] PROVE i = j  OBVIOUS
  <2>1. i - 1 = j - 1  BY <1>1
  <2> QED  BY <2>1
<1>3. \A i \in 1..m : ks[i] \in Keys  BY <1>1
<1>4. DOMAIN ps = 1..m /\ \A i \in 1..m : ps[i] = PartitionAnswer(ks[i], node, q, lim, q.interval)
  <2>1. DOMAIN ks = 1..m  BY <1>1
  <2> HIDE DEF ks, node, m
  <2> QED  BY <2>1 DEF Parts
<1>5. Len(ps) = m
  <2>1. ps = [i \in 1..m |-> PartitionAnswer(ks[i], node, q, lim, q.interval)]
    <3>1. DOMAIN ks = 1..m  BY <1>1
    <3> HIDE DEF ks, node, m
    <3> QED  BY <3>1 DEF Parts
  <2>2. ps = [i \in 1..m |-> ps[i]]  BY <2>1
  <2> HIDE DEF ps, m
  <2> QED  BY <1>1, <2>2, LenProperties
<1>6. \A i \in 1..m : Es[i] = FoundIn(ks[i], q)  BY DEF FoundBy
<1> HIDE DEF ks, ps, Es, m
<1>7. ASSUME NEW i \in 1..m
      PROVE  /\ Es[i] \in SUBSET Events /\ IsFiniteSet(Es[i])
             /\ ps[i].total = Cardinality(Es[i]) /\ PartHits(ps[i].hits, Es[i], lim)
             /\ q.interval # 0 => ps[i].buckets = CountsOver({}, Es[i], SlotOf(q.interval))
             /\ \A e \in Es[i] : KeyOf(e) = ks[i]
  <2>1. PICK k \in Keys : k = ks[i]  BY <1>3
  <2>2. Es[i] = FoundIn(k, q) /\ ps[i] = PartitionAnswer(k, node, q, lim, q.interval)
    BY <1>4, <1>6, <2>1
  <2>3. /\ FoundIn(k, q) \in SUBSET Events /\ IsFiniteSet(FoundIn(k, q))
        /\ \A e \in FoundIn(k, q) : KeyOf(e) = k
    BY FoundHere
  <2>4. PICK p : p = PartitionAnswer(k, node, q, lim, q.interval)  OBVIOUS
  <2>5. /\ p.total = Cardinality(FoundIn(k, q))
        /\ PartHits(p.hits, FoundIn(k, q), lim)
        /\ q.interval # 0 => p.buckets = CountsOver({}, FoundIn(k, q), SlotOf(q.interval))
    BY <2>4, PartitionExact
  <2> QED  BY <2>1, <2>2, <2>3, <2>4, <2>5
<1>8. \A i, j \in 1..m : i # j => Es[i] \cap Es[j] = {}
  <2> SUFFICES ASSUME NEW i \in 1..m, NEW j \in 1..m, NEW e, e \in Es[i], e \in Es[j]
               PROVE  i = j
    OBVIOUS
  <2>1. ks[i] = ks[j]  BY <1>7
  <2> QED  BY <1>2, <2>1
<1>9. m \in Nat  BY <1>1
<1>10. Answers(ps, Es, m)  BY <1>4, <1>7, <1>8, <1>9 DEF Answers
<1> QED  BY <1>5, <1>7, <1>10 DEF ks, ps, Es, m, node

LEMMA StoredIs ==
  ASSUME NEW s
  PROVE  s \in Stored <=> \E k \in Keys : \E i \in DOMAIN Blocks(k) :
                            \E j \in DOMAIN Blocks(k)[i].rows : s = StoredAt(k, Blocks(k)[i].rows[j])
<1>1. s \in Stored <=> \E k \in Keys : \E b \in ToSet(Blocks(k)) : \E r \in ToSet(b.rows) :
                         s = StoredAt(k, r)
  BY DEF Stored, StoredAt
<1>2. \A f, x : x \in ToSet(f) <=> \E i \in DOMAIN f : x = f[i]  BY DEF ToSet
<1>3. ASSUME s \in Stored
      PROVE  \E k \in Keys : \E i \in DOMAIN Blocks(k) :
               \E j \in DOMAIN Blocks(k)[i].rows : s = StoredAt(k, Blocks(k)[i].rows[j])
  <2>1. PICK k \in Keys : \E b \in ToSet(Blocks(k)) : \E r \in ToSet(b.rows) : s = StoredAt(k, r)
    BY <1>1, <1>3
  <2>2. PICK b \in ToSet(Blocks(k)) : \E r \in ToSet(b.rows) : s = StoredAt(k, r)  BY <2>1
  <2>3. PICK r \in ToSet(b.rows) : s = StoredAt(k, r)  BY <2>2
  <2>4. PICK i \in DOMAIN Blocks(k) : b = Blocks(k)[i]  BY <1>2, <2>2
  <2>5. PICK j \in DOMAIN b.rows : r = b.rows[j]  BY <1>2, <2>3
  <2> QED  BY <2>3, <2>4, <2>5
<1>4. ASSUME NEW k \in Keys, NEW i \in DOMAIN Blocks(k), NEW j \in DOMAIN Blocks(k)[i].rows,
             s = StoredAt(k, Blocks(k)[i].rows[j])
      PROVE  s \in Stored
  <2>1. PICK b : b = Blocks(k)[i]  OBVIOUS
  <2>2. b \in ToSet(Blocks(k))  BY <1>2, <2>1
  <2>3. b.rows[j] \in ToSet(b.rows)  BY <1>2, <2>1
  <2> QED  BY <1>1, <1>4, <2>1, <2>2, <2>3
<1> QED  BY <1>3, <1>4

(* The rows that match are, one for one, the events found.                 *)
LEMMA MatchingFound ==
  ASSUME StoreFits, CacheFits, NEW q, QueryFits(q), FilterFits(q)
  PROVE  /\ AllFound(q) \in SUBSET Events /\ IsFiniteSet(AllFound(q))
         /\ \A s \in Matching(q) : s.row.event \in AllFound(q) /\ s.row.ts = Time(s.row.event)
         /\ \A e \in AllFound(q) : \E s \in Matching(q) : s.row.event = e
         /\ \A s, t \in Matching(q) : s.row.event = t.row.event => s = t
<1> DEFINE ks == PlannedKeys(q)
           m == Cardinality(Planned(q))
           Es == FoundBy(q)
           node == PlannedNode(q)
<1>1. /\ Planned(q) \in SUBSET Keys /\ m \in Nat /\ ks \in [1..m -> Planned(q)]
      /\ \A k \in Planned(q) : \E i \in 1..m : ks[i] = k
  BY PlannedLists DEF Lists
<1>2. \A i \in 1..m : Es[i] = FoundIn(ks[i], q)  BY DEF FoundBy
<1>3. AllFound(q) = UNION {Es[i] : i \in 1..m}  BY DEF AllFound, Together
<1>4. \A i \in 1..m : Es[i] \in SUBSET Events /\ IsFiniteSet(Es[i])
  <2> HIDE DEF m, Es, ks
  <2>1. \A k \in Keys : FoundIn(k, q) \in SUBSET Events /\ IsFiniteSet(FoundIn(k, q))
    BY FoundHere
  <2>2. \A i \in 1..m : ks[i] \in Keys  BY <1>1
  <2> QED  BY <1>2, <2>1, <2>2
<1>5. AllFound(q) \in SUBSET Events  BY <1>3, <1>4
<1>6. IsFiniteSet(AllFound(q))
  <2> HIDE DEF m, Es
  <2>1. 1..m \in SUBSET (1..m)  OBVIOUS
  <2> QED  BY <1>1, <1>4, <2>1, TogetherFacts DEF AllFound, m, Es
<1> HIDE DEF ks, m, Es
<1>7. \A e : e \in AllFound(q) <=> \E k \in Planned(q) : e \in FoundIn(k, q)
  <2>1. ASSUME NEW e, e \in AllFound(q) PROVE \E k \in Planned(q) : e \in FoundIn(k, q)
    <3>1. PICK i \in 1..m : e \in Es[i]  BY <1>3, <2>1
    <3>2. ks[i] \in Planned(q) /\ e \in FoundIn(ks[i], q)  BY <1>1, <1>2, <3>1
    <3> QED  BY <3>2
  <2>2. ASSUME NEW e, NEW k \in Planned(q), e \in FoundIn(k, q) PROVE e \in AllFound(q)
    <3>1. PICK i \in 1..m : ks[i] = k  BY <1>1
    <3>2. e \in Es[i]  BY <1>2, <2>2, <3>1
    <3> QED  BY <1>3, <3>2
  <2> QED  BY <2>1, <2>2
<1>8. \A s : s \in Matching(q) <=> /\ s \in Stored
                                  /\ InWindow(s, q) /\ InScope(s, q) /\ Meant(q, s)
  BY DEF Matching
<1>9. ASSUME NEW s \in Matching(q)
      PROVE  \E k \in Keys : \E i \in DOMAIN Blocks(k) : \E j \in DOMAIN Blocks(k)[i].rows :
               /\ s = StoredAt(k, Blocks(k)[i].rows[j])
               /\ k \in Planned(q) /\ j \in Matched(Blocks(k)[i], node, q)
  <2>1. s \in Stored  BY <1>8
  <2>2. PICK k \in Keys : \E i \in DOMAIN Blocks(k) : \E j \in DOMAIN Blocks(k)[i].rows :
          s = StoredAt(k, Blocks(k)[i].rows[j])
    BY <2>1, StoredIs
  <2>3. PICK i \in DOMAIN Blocks(k) : \E j \in DOMAIN Blocks(k)[i].rows :
          s = StoredAt(k, Blocks(k)[i].rows[j])
    BY <2>2
  <2>4. PICK j \in DOMAIN Blocks(k)[i].rows : s = StoredAt(k, Blocks(k)[i].rows[j])  BY <2>3
  <2>5. InWindow(s, q) /\ InScope(s, q) /\ Meant(q, s)  BY <1>8
  <2>6. k \in Planned(q) /\ j \in Matched(Blocks(k)[i], node, q)  BY <2>4, <2>5, PlanIs
  <2> QED  BY <2>4, <2>6
<1>10. ASSUME NEW k \in Keys, NEW r PROVE StoredAt(k, r).row = r  BY DEF StoredAt
<1>11. ASSUME NEW s \in Matching(q)
       PROVE  s.row.event \in AllFound(q) /\ s.row.ts = Time(s.row.event)
  <2>1. PICK k \in Keys : \E i \in DOMAIN Blocks(k) : \E j \in DOMAIN Blocks(k)[i].rows :
               /\ s = StoredAt(k, Blocks(k)[i].rows[j])
               /\ k \in Planned(q) /\ j \in Matched(Blocks(k)[i], node, q)
    BY <1>9
  <2>2. PICK i \in DOMAIN Blocks(k) : \E j \in DOMAIN Blocks(k)[i].rows :
               /\ s = StoredAt(k, Blocks(k)[i].rows[j])
               /\ k \in Planned(q) /\ j \in Matched(Blocks(k)[i], node, q)
    BY <2>1
  <2>3. PICK j \in DOMAIN Blocks(k)[i].rows :
               /\ s = StoredAt(k, Blocks(k)[i].rows[j])
               /\ k \in Planned(q) /\ j \in Matched(Blocks(k)[i], node, q)
    BY <2>2
  <2>4. PICK r : r = Blocks(k)[i].rows[j]  OBVIOUS
  <2>5. s.row = r  BY <1>10, <2>3, <2>4
  <2>6. r.event \in FoundIn(k, q)  BY <2>3, <2>4, FoundHere DEF node
  <2>7. r \in AnyRow
    <3>1. RowsFit(Blocks(k)[i].rows)  BY BlockFacts
    <3>2. PICK rs : rs = Blocks(k)[i].rows  OBVIOUS
    <3>3. rs \in Seq(AnyRow) /\ j \in DOMAIN rs /\ r = rs[j]  BY <2>4, <3>1, <3>2 DEF RowsFit
    <3> QED  BY <3>3
  <2>8. r.ts = Time(r.event)  BY <2>7, RowFacts DEF Time
  <2> QED  BY <1>7, <2>3, <2>5, <2>6, <2>8
<1>12. ASSUME NEW e \in AllFound(q) PROVE \E s \in Matching(q) : s.row.event = e
  <2>1. PICK k \in Planned(q) : e \in FoundIn(k, q)  BY <1>7
  <2>2. k \in Keys  BY <1>1
  <2>3. \E i \in DOMAIN Blocks(k) : \E j \in DOMAIN Blocks(k)[i].rows :
          j \in Matched(Blocks(k)[i], node, q) /\ Blocks(k)[i].rows[j].event = e
    BY <2>1, <2>2, FoundHere DEF node
  <2>4. PICK i \in DOMAIN Blocks(k) : \E j \in DOMAIN Blocks(k)[i].rows :
          j \in Matched(Blocks(k)[i], node, q) /\ Blocks(k)[i].rows[j].event = e
    BY <2>3
  <2>5. PICK j \in DOMAIN Blocks(k)[i].rows :
          j \in Matched(Blocks(k)[i], node, q) /\ Blocks(k)[i].rows[j].event = e
    BY <2>4
  <2>6. PICK s : s = StoredAt(k, Blocks(k)[i].rows[j])  OBVIOUS
  <2>7. InWindow(s, q) /\ InScope(s, q) /\ Meant(q, s)
    BY <2>1, <2>2, <2>5, <2>6, PlanIs DEF node
  <2>8. s \in Stored  BY <2>2, <2>6, StoredIs
  <2>9. s.row.event = e  BY <1>10, <2>2, <2>5, <2>6
  <2> QED  BY <1>8, <2>7, <2>8, <2>9
<1>13. ASSUME NEW s \in Stored
       PROVE  \E k \in Keys : \E i \in DOMAIN Blocks(k) : \E j \in DOMAIN Blocks(k)[i].rows :
                /\ s = StoredAt(k, Blocks(k)[i].rows[j])
                /\ s.row.event = Blocks(k)[i].rows[j].event
  <2>1. PICK k \in Keys : \E i \in DOMAIN Blocks(k) : \E j \in DOMAIN Blocks(k)[i].rows :
          s = StoredAt(k, Blocks(k)[i].rows[j])
    BY <1>13, StoredIs
  <2> QED  BY <1>10, <2>1
<1>14. ASSUME NEW s \in Stored, NEW t \in Stored, s.row.event = t.row.event PROVE s = t
  <2>1. PICK k \in Keys : \E i \in DOMAIN Blocks(k) : \E j \in DOMAIN Blocks(k)[i].rows :
          s = StoredAt(k, Blocks(k)[i].rows[j]) /\ s.row.event = Blocks(k)[i].rows[j].event
    BY <1>13
  <2>2. PICK i \in DOMAIN Blocks(k) : \E j \in DOMAIN Blocks(k)[i].rows :
          s = StoredAt(k, Blocks(k)[i].rows[j]) /\ s.row.event = Blocks(k)[i].rows[j].event
    BY <2>1
  <2>3. PICK j \in DOMAIN Blocks(k)[i].rows :
          s = StoredAt(k, Blocks(k)[i].rows[j]) /\ s.row.event = Blocks(k)[i].rows[j].event
    BY <2>2
  <2>4. PICK l \in Keys : \E x \in DOMAIN Blocks(l) : \E y \in DOMAIN Blocks(l)[x].rows :
          t = StoredAt(l, Blocks(l)[x].rows[y]) /\ t.row.event = Blocks(l)[x].rows[y].event
    BY <1>13
  <2>5. PICK x \in DOMAIN Blocks(l) : \E y \in DOMAIN Blocks(l)[x].rows :
          t = StoredAt(l, Blocks(l)[x].rows[y]) /\ t.row.event = Blocks(l)[x].rows[y].event
    BY <2>4
  <2>6. PICK y \in DOMAIN Blocks(l)[x].rows :
          t = StoredAt(l, Blocks(l)[x].rows[y]) /\ t.row.event = Blocks(l)[x].rows[y].event
    BY <2>5
  <2>7. PICK e : e = s.row.event  OBVIOUS
  <2>8. PICK rs : rs = Blocks(k)[i].rows  OBVIOUS
  <2>9. PICK rt : rt = Blocks(l)[x].rows  OBVIOUS
  <2>10. e \in EventsOf(rs) /\ e \in EventsOf(rt)
    BY <1>14, <2>3, <2>6, <2>7, <2>8, <2>9 DEF EventsOf
  <2>11. KeyOf(e) = k /\ Distinct(rs)
    <3>1. RowsFit(rs) /\ \A d \in EventsOf(rs) : KeyOf(d) = k  BY <2>8, BlockFacts
    <3> QED  BY <2>10, <3>1 DEF RowsFit
  <2>12. KeyOf(e) = l
    <3>1. \A d \in EventsOf(rt) : KeyOf(d) = l  BY <2>9, BlockFacts
    <3> QED  BY <2>10, <3>1
  <2>13. k = l  BY <2>11, <2>12
  <2>14. i = x
    <3>1. Apart(Blocks(k))  BY DEF StoreFits, BlocksFit
    <3> QED  BY <2>8, <2>9, <2>10, <2>13, <3>1 DEF Apart
  <2>15. j = y  BY <1>14, <2>3, <2>6, <2>8, <2>11, <2>13, <2>14 DEF Distinct
  <2> QED  BY <2>3, <2>6, <2>13, <2>14, <2>15
<1>15. \A s, t \in Matching(q) : s.row.event = t.row.event => s = t  BY <1>8, <1>14
<1> QED  BY <1>5, <1>6, <1>11, <1>12, <1>15

LEMMA MatchCount ==
  ASSUME StoreFits, CacheFits, NEW q, QueryFits(q), FilterFits(q),
         NEW S \in SUBSET Matching(q), NEW U \in SUBSET AllFound(q),
         \A s \in Matching(q) : s \in S <=> s.row.event \in U
  PROVE  Cardinality(S) = Cardinality(U)
<1> DEFINE g == [e \in U |-> CHOOSE s \in Matching(q) : s.row.event = e]
<1>1. /\ IsFiniteSet(AllFound(q))
      /\ \A e \in AllFound(q) : \E s \in Matching(q) : s.row.event = e
      /\ \A s, t \in Matching(q) : s.row.event = t.row.event => s = t
  BY MatchingFound
<1>2. \A e \in U : g[e] \in Matching(q) /\ g[e].row.event = e  BY <1>1
<1>3. g = [e \in U |-> g[e]]  OBVIOUS
<1> HIDE DEF g
<1>4. \A e \in U : g[e] \in S  BY <1>2
<1>5. g \in [U -> S]  BY <1>3, <1>4
<1>6. \A x, y \in U : g[x] = g[y] => x = y
  <2> SUFFICES ASSUME NEW x \in U, NEW y \in U, g[x] = g[y] PROVE x = y  OBVIOUS
  <2>1. g[x].row.event = x /\ g[y].row.event = y  BY <1>2
  <2> QED  BY <2>1
<1>7. \A s \in S : \E x \in U : g[x] = s
  <2> SUFFICES ASSUME NEW s \in S PROVE \E x \in U : g[x] = s  OBVIOUS
  <2>1. PICK e \in U : e = s.row.event  OBVIOUS
  <2>2. g[e] \in Matching(q) /\ g[e].row.event = e  BY <1>2
  <2>3. g[e] = s  BY <1>1, <2>1, <2>2
  <2> QED  BY <2>3
<1>8. IsFiniteSet(U)  BY <1>1, FS_Subset
<1> QED  BY <1>5, <1>6, <1>7, <1>8, SameCount

Width(q) == Max({q.limit, 1})

(* The answer's total and its page.                                        *)
LEMMA AnswerHits ==
  ASSUME StoreFits, CacheFits, NEW q, QueryFits(q), FilterFits(q)
  PROVE  /\ Answer(q).total = Cardinality(AllFound(q))
         /\ PageOf(Answer(q).hits, AllFound(q), q.offset, Width(q))
<1> DEFINE w == Width(q)
           off == q.offset
           lim == off + w
           ps == Parts(PlannedKeys(q), PlannedNode(q), q, lim)
           Es == FoundBy(q)
           m == Cardinality(Planned(q))
           G == StableSort(FlattenSeq([i \in DOMAIN ps |-> ps[i].hits]), LAMBDA h : -h.ts)
           total == SumSeq([i \in DOMAIN ps |-> ps[i].total])
           buckets == AddCounts(Prefill(q), AddAll([i \in DOMAIN ps |-> ps[i].buckets]))
           page == Take(Drop(G, off), w)
           a == Answer(q)
<1>1. off \in Nat /\ w \in Nat \ {0} /\ lim \in Nat
  <2>1. q.offset \in Nat /\ q.limit \in Nat  BY DEF QueryFits
  <2>2. w = IF q.limit >= 1 THEN q.limit ELSE 1  BY <2>1, OfTwo DEF Width
  <2> QED  BY <2>1, <2>2
<1>2. a = [total |-> total, hits |-> page, buckets |-> buckets]
  <2>1. a = MergedAnswer(q, ps)  BY DEF Answer, Width
  <2> HIDE DEF ps, a
  <2> QED  BY <2>1 DEF MergedAnswer, Width
<1> HIDE DEF w, a
<1>3. /\ Answers(ps, Es, m)
      /\ \A i \in 1..m : PartHits(ps[i].hits, Es[i], lim)
  <2> HIDE DEF lim
  <2> QED  BY <1>1, PartsExact
<1>4. AllFound(q) = Together(Es, 1..m)  BY DEF AllFound
<1> HIDE DEF ps, Es, m
<1>5. total = Cardinality(AllFound(q))  BY <1>3, <1>4, MergedTotal
<1>6. Whole(G, AllFound(q), lim)
  <2> HIDE DEF lim
  <2> QED  BY <1>1, <1>3, <1>4, MergedWhole
<1>7. AllFound(q) \in SUBSET Events /\ IsFiniteSet(AllFound(q))  BY MatchingFound
<1> HIDE DEF G
<1>8. PageOf(page, AllFound(q), off, w)
  <2>1. Whole(G, AllFound(q), off + w)  BY <1>6
  <2> HIDE DEF off
  <2> QED  BY <1>1, <1>7, <2>1, PageExact
<1> HIDE DEF total, page, buckets
<1>9. a.total = total /\ a.hits = page  BY <1>2
<1> QED  BY <1>5, <1>8, <1>9 DEF a, w

(* The window's empty buckets.                                             *)
Empties(q) ==
  IF q.start = None \/ q.end = None THEN {}
  ELSE {u \in FloorTo(q.start, q.interval)..q.end : u % q.interval = 0}

LEMMA PrefillIs ==
  ASSUME NEW q, q.interval # 0
  PROVE  Prefill(q) = CountsOver(Empties(q), {}, SlotOf(q.interval))
<1> DEFINE iv == SlotOf(q.interval)
<1>1. CASE q.start = None \/ q.end = None
  <2>1. Empties(q) = {}  BY <1>1 DEF Empties
  <2>2. Prefill(q) = <<>>  BY <1>1 DEF Prefill
  <2> QED  BY <2>1, <2>2, NoCounts
<1>2. CASE ~(q.start = None \/ q.end = None)
  <2>1. Prefill(q) = [t \in Empties(q) |-> 0]
    BY <1>2 DEF Prefill, Empties
  <2>2. Slots({}, iv) = {} /\ \A t : InSlot({}, t, iv) = {}  BY DEF Slots, InSlot
  <2>3. Cardinality({}) = 0  BY FS_EmptySet
  <2>4. CountsOver(Empties(q), {}, iv) = [t \in Empties(q) |-> 0]
    <3> HIDE DEF iv
    <3>1. Empties(q) \cup Slots({}, iv) = Empties(q)  BY <2>2
    <3>2. \A t : Cardinality(InSlot({}, t, iv)) = 0  BY <2>2, <2>3
    <3> QED  BY <3>1, <3>2 DEF CountsOver
  <2> QED  BY <2>1, <2>4
<1> QED  BY <1>1, <1>2

LEMMA AnswerBuckets ==
  ASSUME StoreFits, CacheFits, NEW q, QueryFits(q), FilterFits(q), q.interval # 0
  PROVE  Answer(q).buckets = CountsOver(Empties(q), AllFound(q), SlotOf(q.interval))
<1> DEFINE iv == SlotOf(q.interval)
           lim == q.offset + Width(q)
           ps == Parts(PlannedKeys(q), PlannedNode(q), q, lim)
           Es == FoundBy(q)
           m == Cardinality(Planned(q))
           Ds == [i \in 1..m |-> {}]
           bks == [i \in DOMAIN ps |-> ps[i].buckets]
           a == Answer(q)
           total == SumSeq([i \in DOMAIN ps |-> ps[i].total])
           page == Take(Drop(StableSort(FlattenSeq([i \in DOMAIN ps |-> ps[i].hits]),
                                        LAMBDA h : -h.ts), q.offset), Width(q))
           buckets == AddCounts(Prefill(q), AddAll(bks))
<1>1. lim \in Nat
  <2>1. q.offset \in Nat /\ q.limit \in Nat  BY DEF QueryFits
  <2>2. Width(q) = IF q.limit >= 1 THEN q.limit ELSE 1  BY <2>1, OfTwo DEF Width
  <2> QED  BY <2>1, <2>2
<1>2. a = [total |-> total, hits |-> page, buckets |-> buckets]
  <2>1. a = MergedAnswer(q, ps)  BY DEF Answer, Width
  <2> HIDE DEF ps, a
  <2> QED  BY <2>1 DEF MergedAnswer, Width
<1>3. a.buckets = buckets
  <2> HIDE DEF total, page, buckets, a
  <2> QED  BY <1>2
<1> HIDE DEF lim, a, total, page
<1>4. /\ Answers(ps, Es, m) /\ Len(ps) = m
      /\ \A i \in 1..m : ps[i].buckets = CountsOver({}, Es[i], iv)
  BY <1>1, PartsExact
<1>5. AllFound(q) = Together(Es, 1..m)  BY DEF AllFound
<1>6. IsFiniteSet(AllFound(q))  BY MatchingFound
<1> HIDE DEF ps, Es, m
<1>7. /\ m \in Nat /\ DOMAIN ps = 1..m
      /\ \A i \in 1..m : IsFiniteSet(Es[i])
      /\ \A i, j \in 1..m : i # j => Es[i] \cap Es[j] = {}
  BY <1>4 DEF Answers
<1>8. DOMAIN bks = 1..m /\ Len(bks) = m /\ \A i \in 1..m : bks[i] = CountsOver({}, Es[i], iv)
  <2>1. DOMAIN bks = 1..m  BY <1>7
  <2>2. \A i \in 1..m : bks[i] = CountsOver({}, Es[i], iv)  BY <1>4, <1>7
  <2>3. bks = [i \in 1..m |-> bks[i]]  BY <1>7
  <2> HIDE DEF bks
  <2>4. Len(bks) = m  BY <1>7, <2>3
  <2> QED  BY <2>1, <2>2, <2>4
<1>9. \A i \in 1..m : Ds[i] = {}  OBVIOUS
<1>10. Together(Ds, 1..m) = {}  BY <1>9 DEF Together
<1> HIDE DEF bks, Ds, iv
<1>11. AddAll(bks) = CountsOver({}, AllFound(q), iv)
  <2>1. \A i \in 1..m : IsFiniteSet(Es[i]) /\ bks[i] = CountsOver(Ds[i], Es[i], iv)
    BY <1>7, <1>8, <1>9
  <2>2. AddAll(bks) = CountsOver(Together(Ds, 1..m), Together(Es, 1..m), iv)
    BY <1>7, <1>8, <2>1, CountsAddUp
  <2> QED  BY <1>5, <1>10, <2>2
<1>12. Prefill(q) = CountsOver(Empties(q), {}, iv)  BY PrefillIs DEF iv
<1>13. IsFiniteSet({})  BY FS_EmptySet
<1>14. AddCounts(CountsOver(Empties(q), {}, iv), CountsOver({}, AllFound(q), iv))
         = CountsOver(Empties(q) \cup {}, {} \cup AllFound(q), iv)
  <2>1. {} \cap AllFound(q) = {}  OBVIOUS
  <2> QED  BY <1>6, <1>13, <2>1, CountsAdd
<1>15. Empties(q) \cup {} = Empties(q) /\ {} \cup AllFound(q) = AllFound(q)  OBVIOUS
<1>16. buckets = CountsOver(Empties(q), AllFound(q), iv)
  BY <1>11, <1>12, <1>14, <1>15
<1> QED  BY <1>3, <1>16 DEF a, iv

LEMMA HistogramBuckets ==
  ASSUME StoreFits, CacheFits, NEW q, QueryFits(q), FilterFits(q), q.interval # 0, Planned(q) # {}
  PROVE  Histogram(q) = CountsOver(Empties(q), AllFound(q), SlotOf(q.interval))
<1> DEFINE iv == SlotOf(q.interval)
           ps == Parts(PlannedKeys(q), PlannedNode(q), q, 0)
           Es == FoundBy(q)
           m == Cardinality(Planned(q))
           D == Empties(q)
           Ds == [i \in 1..m |-> D]
           bks == [i \in DOMAIN ps |-> AddCounts(Prefill(q), ps[i].buckets)]
<1>1. Histogram(q) = AddAll(bks)  BY DEF Histogram, MergedBuckets
<1>2. /\ Answers(ps, Es, m) /\ Len(ps) = m
      /\ \A i \in 1..m : ps[i].buckets = CountsOver({}, Es[i], iv)
  <2>1. 0 \in Nat  OBVIOUS
  <2> QED  BY <2>1, PartsExact
<1>3. AllFound(q) = Together(Es, 1..m)  BY DEF AllFound
<1>4. m # 0 /\ m \in Nat
  <2>1. IsFiniteSet(Planned(q)) /\ m \in Nat  BY PlannedLists
  <2> QED  BY <2>1, FS_EmptySet
<1> HIDE DEF ps, Es, m
<1>5. /\ DOMAIN ps = 1..m
      /\ \A i \in 1..m : IsFiniteSet(Es[i])
      /\ \A i, j \in 1..m : i # j => Es[i] \cap Es[j] = {}
  BY <1>2 DEF Answers
<1>6. Prefill(q) = CountsOver(D, {}, iv)  BY PrefillIs DEF iv
<1> HIDE DEF D, iv
<1>7. \A i \in 1..m : AddCounts(Prefill(q), ps[i].buckets) = CountsOver(D, Es[i], iv)
  <2> SUFFICES ASSUME NEW i \in 1..m
               PROVE  AddCounts(Prefill(q), ps[i].buckets) = CountsOver(D, Es[i], iv)
    OBVIOUS
  <2>1. PICK E : E = Es[i]  OBVIOUS
  <2>2. IsFiniteSet(E) /\ IsFiniteSet({}) /\ {} \cap E = {}  BY <1>5, <2>1, FS_EmptySet
  <2>3. AddCounts(CountsOver(D, {}, iv), CountsOver({}, E, iv)) = CountsOver(D \cup {}, {} \cup E, iv)
    BY <2>2, CountsAdd
  <2>4. D \cup {} = D /\ {} \cup E = E  OBVIOUS
  <2> QED  BY <1>2, <1>6, <2>1, <2>3, <2>4
<1>8. DOMAIN bks = 1..m /\ Len(bks) = m /\ \A i \in 1..m : bks[i] = CountsOver(D, Es[i], iv)
  <2>1. DOMAIN bks = 1..m  BY <1>5
  <2>2. \A i \in 1..m : bks[i] = CountsOver(D, Es[i], iv)  BY <1>5, <1>7
  <2>3. bks = [i \in 1..m |-> bks[i]]  BY <1>5
  <2> HIDE DEF bks
  <2>4. Len(bks) = m  BY <1>4, <2>3
  <2> QED  BY <2>1, <2>2, <2>4
<1>9. \A i \in 1..m : Ds[i] = D  OBVIOUS
<1>10. Together(Ds, 1..m) = D
  <2>1. 1 \in 1..m  BY <1>4
  <2> HIDE DEF Ds
  <2> QED  BY <1>9, <2>1 DEF Together
<1> HIDE DEF bks, Ds
<1>11. \A i \in 1..m : IsFiniteSet(Es[i]) /\ bks[i] = CountsOver(Ds[i], Es[i], iv)
  BY <1>5, <1>8, <1>9
<1>12. AddAll(bks) = CountsOver(Together(Ds, 1..m), Together(Es, 1..m), iv)
  BY <1>4, <1>5, <1>8, <1>11, CountsAddUp
<1> QED  BY <1>1, <1>3, <1>10, <1>12 DEF D, iv

LEMMA QueryExact ==
  ASSUME StoreFits, CacheFits, NEW q, QueryFits(q), FilterFits(q)
  PROVE  AnswerExact(q, Matching(q), Answer(q), Histogram(q))
<1> DEFINE m == Matching(q)
           a == Answer(q)
           h == Histogram(q)
           M == AllFound(q)
           off == q.offset
           iv == q.interval
           At(t) == {s \in m : FloorTo(s.row.ts, iv) = t}
           Fresher(t) == {s \in m : s.row.ts > t}
           Same(t) == {s \in m : s.row.ts >= t}
<1>1. /\ \A s \in m : s.row.event \in M /\ s.row.ts = Time(s.row.event)
      /\ \A e \in M : \E s \in m : s.row.event = e
  BY MatchingFound
<1>a. M \in SUBSET Events  BY MatchingFound
<1>2. Cardinality(m) = Cardinality(M)
  <2>1. \A s \in Matching(q) : s \in m <=> s.row.event \in M  BY <1>1
  <2>2. m \in SUBSET Matching(q) /\ M \in SUBSET AllFound(q)  OBVIOUS
  <2> HIDE DEF m, M
  <2> QED  BY <2>1, <2>2, MatchCount
<1>3. \A t : Cardinality(At(t)) = Cardinality(InSlot(M, t, SlotOf(iv)))
  <2> SUFFICES ASSUME NEW t PROVE Cardinality(At(t)) = Cardinality(InSlot(M, t, SlotOf(iv)))
    OBVIOUS
  <2>1. At(t) \in SUBSET Matching(q) /\ InSlot(M, t, SlotOf(iv)) \in SUBSET AllFound(q)
    BY DEF InSlot
  <2>2. \A s \in Matching(q) : s \in At(t) <=> s.row.event \in InSlot(M, t, SlotOf(iv))
    BY <1>1, <1>a DEF InSlot, SlotOf
  <2> HIDE DEF At, M, iv
  <2> QED  BY <2>1, <2>2, MatchCount
<1>4. \A t : Cardinality(Fresher(t)) = Cardinality(LaterThan(M, t))
  <2> SUFFICES ASSUME NEW t PROVE Cardinality(Fresher(t)) = Cardinality(LaterThan(M, t))
    OBVIOUS
  <2>1. Fresher(t) \in SUBSET Matching(q) /\ LaterThan(M, t) \in SUBSET AllFound(q)
    BY DEF LaterThan
  <2>2. \A s \in Matching(q) : s \in Fresher(t) <=> s.row.event \in LaterThan(M, t)
    BY <1>1 DEF LaterThan
  <2> HIDE DEF Fresher, M
  <2> QED  BY <2>1, <2>2, MatchCount
<1>5. \A t : Cardinality(Same(t)) = Cardinality(NoSooner(M, t))
  <2> SUFFICES ASSUME NEW t PROVE Cardinality(Same(t)) = Cardinality(NoSooner(M, t))
    OBVIOUS
  <2>1. Same(t) \in SUBSET Matching(q) /\ NoSooner(M, t) \in SUBSET AllFound(q)
    BY DEF NoSooner
  <2>2. \A s \in Matching(q) : s \in Same(t) <=> s.row.event \in NoSooner(M, t)
    BY <1>1 DEF NoSooner
  <2> HIDE DEF Same, M
  <2> QED  BY <2>1, <2>2, MatchCount
<1>6. a.total = Cardinality(M) /\ PageOf(a.hits, M, off, Width(q))  BY AnswerHits
<1>7. iv > 0 => a.buckets = CountsOver(Empties(q), M, SlotOf(iv))
  <2>1. iv > 0 => iv # 0  BY DEF QueryFits
  <2> QED  BY <2>1, AnswerBuckets
<1>8. iv > 0 /\ Planned(q) # {} => h = CountsOver(Empties(q), M, SlotOf(iv))
  <2>1. iv > 0 => iv # 0  BY DEF QueryFits
  <2> QED  BY <2>1, HistogramBuckets
<1>9. /\ DOMAIN CountsOver(Empties(q), M, SlotOf(iv)) = Empties(q) \cup Slots(M, SlotOf(iv))
      /\ \A t \in Empties(q) \cup Slots(M, SlotOf(iv)) :
           CountsOver(Empties(q), M, SlotOf(iv))[t] = Cardinality(InSlot(M, t, SlotOf(iv)))
  <2> HIDE DEF M, iv
  <2> QED  BY DEF CountsOver
<1> HIDE DEF m, a, h, M, off, iv
<1>10. a.total = Cardinality(m)  BY <1>2, <1>6
<1>11. /\ DOMAIN a.hits = 1..Len(a.hits) /\ IsInjective(a.hits)
       /\ Len(a.hits) = Max({0, Min({Width(q), a.total - off})})
  BY <1>6 DEF PageOf
<1>12. ASSUME NEW i \in DOMAIN a.hits
       PROVE  /\ \E s \in m : s.row.event = a.hits[i].event
              /\ Cardinality(Fresher(a.hits[i].ts)) < off + i
              /\ Cardinality(Same(a.hits[i].ts)) >= off + i
  <2>1. /\ a.hits[i].event \in M
        /\ Cardinality(LaterThan(M, a.hits[i].ts)) < off + i
        /\ Cardinality(NoSooner(M, a.hits[i].ts)) >= off + i
    BY <1>6, <1>11, <1>12 DEF PageOf
  <2> HIDE DEF Fresher, Same
  <2> QED  BY <1>1, <1>4, <1>5, <2>1
<1>13. ASSUME iv > 0
       PROVE  /\ \A t \in DOMAIN a.buckets : a.buckets[t] = Cardinality(At(t))
              /\ \A s \in m : FloorTo(s.row.ts, iv) \in DOMAIN a.buckets
              /\ Planned(q) # {} => h = a.buckets
  <2>1. a.buckets = CountsOver(Empties(q), M, SlotOf(iv))  BY <1>7, <1>13
  <2>2. \A t \in DOMAIN a.buckets : a.buckets[t] = Cardinality(At(t))
    <3> HIDE DEF At
    <3> QED  BY <1>3, <1>9, <2>1
  <2>3. \A s \in m : FloorTo(s.row.ts, iv) \in Slots(M, SlotOf(iv))  BY <1>1, <1>a DEF Slots, SlotOf
  <2> QED  BY <1>8, <1>9, <1>13, <2>1, <2>2, <2>3
<1>14. AnswerExact(q, m, a, h)
  BY <1>10, <1>11, <1>12, <1>13 DEF AnswerExact, Width, off, iv
<1> QED  BY <1>14 DEF m, a, h

QueriesFit == \A q \in Queries : QueryFits(q) /\ FilterFits(q)

(* A search answers with every stored row that matches, counted once,      *)
(* whatever blocks the rows are in and whatever the cache holds.           *)
THEOREM SearchIsExact ==
  ASSUME QueriesFit
  PROVE  StoreSpec => []SearchExact
<1>1. StoreFits /\ CacheFits => SearchExact
  <2> SUFFICES ASSUME StoreFits, CacheFits, NEW q \in Queries
               PROVE  AnswerExact(q, Matching(q), Answer(q), Histogram(q))
    BY DEF SearchExact
  <2>1. QueryFits(q) /\ FilterFits(q)  BY DEF QueriesFit
  <2> QED  BY <2>1, QueryExact
<1> QED  BY <1>1, StoreAlways, PTL

-----------------------------------------------------------------------------
(* The terms aggregation.  First the values of the events, and the most    *)
(* frequent values of a tally.                                             *)

ValueIn(e, field) ==
  IF field = "index" THEN KeyOf(e).index
  ELSE IF field = "n" THEN (IF e.n = <<>> THEN None ELSE Number(e.n[1]))
  ELSE e.source

ValuesOf(field) == [e \in Events |-> ValueIn(e, field)]
Valued(E, field) == {e \in E : ValueIn(e, field) # None}

LEMMA NumberFacts ==
  /\ Number(None) = None
  /\ \A x \in Int : Number(x) \in Int \cup {None}
<1>1. Number(None) = None  BY DEF Number
<1>2. ASSUME NEW x \in Int PROVE Number(x) \in Int \cup {None}
  <2>1. PICK p : p = Spacing(x)  OBVIOUS
  <2>2. p \in {1, 2, 4, 8}  BY <2>1 DEF Spacing
  <2>3. x \div p \in Int
    <3>1. CASE p = 1  BY <3>1
    <3>2. CASE p = 2  BY <3>2
    <3>3. CASE p = 4  BY <3>3
    <3>4. CASE p = 8  BY <3>4
    <3> QED  BY <2>2, <3>1, <3>2, <3>3, <3>4
  <2>4. Nearest(x, p) \in {x \div p, (x \div p) + 1}  BY DEF Nearest
  <2>5. PICK q : q = Nearest(x, p)  OBVIOUS
  <2>6. q \in Int  BY <2>3, <2>4, <2>5
  <2>7. q * p \in Int
    <3>1. CASE p = 1  BY <2>6, <3>1
    <3>2. CASE p = 2  BY <2>6, <3>2
    <3>3. CASE p = 4  BY <2>6, <3>3
    <3>4. CASE p = 8  BY <2>6, <3>4
    <3> QED  BY <2>2, <3>1, <3>2, <3>3, <3>4
  <2>8. AsF64(x) = q * p  BY <2>1, <2>5 DEF AsF64
  <2> QED  BY <2>7, <2>8 DEF Number
<1> QED  BY <1>1, <1>2

LEMMA ValueFacts ==
  ASSUME NEW e \in Events, NEW field
  PROVE  ValueIn(e, field) \in Int \cup {None}
<1>1. KeyOf(e).index \in Int  BY KeyFacts
<1>2. e.source \in Int \cup {None} /\ e.n \in Seq(Int)  BY BatchesAssumption
<1>3. e.n # <<>> => e.n[1] \in Int  BY <1>2
<1>4. e.n # <<>> => Number(e.n[1]) \in Int \cup {None}  BY <1>3, NumberFacts
<1> QED  BY <1>1, <1>2, <1>4 DEF ValueIn

LEMMA RowValue ==
  ASSUME NEW r \in AnyRow, NEW field, field # "index"
  PROVE  ValueOf(r, field) = ValueIn(r.event, field)
<1>1. PICK e \in Events : r = Row(e) \/ r = ReadBack(Row(e))  BY DEF AnyRow
<1>2. PICK w : w = Row(e)  OBVIOUS
<1> DEFINE f == IF e.n = <<>> THEN None ELSE e.n[1]
<1>3. w = [event |-> e, ts |-> w.ts, words |-> w.words, source |-> e.source,
           first |-> f, extra |-> w.extra]
  BY <1>2 DEF Row
<1> HIDE DEF f
<1>4. w.event = e /\ w.source = e.source /\ w.first = f  BY <1>3
<1>5. PICK v : v = ReadBack(w)  OBVIOUS
<1>6. v.event = e /\ v.source = e.source /\ v.first = f
  <2>1. v = [w EXCEPT !.extra = {}]  BY <1>5 DEF ReadBack
  <2> QED  BY <1>3, <2>1
<1>7. r.event = e /\ r.source = e.source /\ r.first = f  BY <1>1, <1>2, <1>4, <1>5, <1>6
<1>8. ValueOf(r, field) = IF field = "n" THEN Number(f) ELSE e.source  BY <1>7 DEF ValueOf
<1>9. Number(f) = IF e.n = <<>> THEN None ELSE Number(e.n[1])  BY NumberFacts DEF f
<1> QED  BY <1>7, <1>8, <1>9 DEF ValueIn

Tallies == {c \in UNION {[D -> Nat] : D \in SUBSET Int} : IsFiniteSet(DOMAIN c)}

LEMMA TallyIs ==
  ASSUME NEW c
  PROVE  c \in Tallies <=> /\ DOMAIN c \in SUBSET Int /\ IsFiniteSet(DOMAIN c)
                           /\ c = [x \in DOMAIN c |-> c[x]] /\ \A x \in DOMAIN c : c[x] \in Nat
<1>1. ASSUME c \in Tallies
      PROVE  /\ DOMAIN c \in SUBSET Int /\ IsFiniteSet(DOMAIN c)
             /\ c = [x \in DOMAIN c |-> c[x]] /\ \A x \in DOMAIN c : c[x] \in Nat
  <2>1. PICK D \in SUBSET Int : c \in [D -> Nat]  BY <1>1 DEF Tallies
  <2>2. IsFiniteSet(DOMAIN c)  BY <1>1 DEF Tallies
  <2> QED  BY <2>1, <2>2
<1>2. ASSUME DOMAIN c \in SUBSET Int, IsFiniteSet(DOMAIN c), c = [x \in DOMAIN c |-> c[x]],
             \A x \in DOMAIN c : c[x] \in Nat
      PROVE  c \in Tallies
  <2>1. c \in [DOMAIN c -> Nat]  BY <1>2
  <2> QED  BY <1>2, <2>1 DEF Tallies
<1> QED  BY <1>1, <1>2

MoreIn(c) == {p \in (DOMAIN c) \X (DOMAIN c) : MoreFrequent(c, p[1], p[2])}

LEMMA TallyRanked ==
  ASSUME NEW c \in Tallies
  PROVE  /\ IsFiniteSet(DOMAIN c) /\ Cardinality(DOMAIN c) \in Nat
         /\ Lists(Ranked(DOMAIN c, LAMBDA v, w : MoreFrequent(c, v, w)), DOMAIN c, MoreIn(c))
<1> DEFINE S == DOMAIN c
           R == MoreIn(c)
           First(x) == {y \in S : MoreFrequent(c, y, x)}
           o == Ranked(DOMAIN c, LAMBDA v, w : MoreFrequent(c, v, w))
<1>1. S \in SUBSET Int /\ IsFiniteSet(S) /\ \A x \in S : c[x] \in Nat  BY TallyIs
<1>2. Cardinality(S) \in Nat  BY <1>1, FS_CardinalityType
<1>3. o = [i \in 1..Cardinality(S) |-> CHOOSE x \in S : Cardinality(First(x)) = i - 1]
  BY DEF Ranked
<1>4. \A x, y \in S : <<x, y>> \in R <=> MoreFrequent(c, x, y)  BY DEF MoreIn
<1> HIDE DEF S, R, o
<1>5. StrictOrder(S, R)
  <2>1. \A x \in S : ~MoreFrequent(c, x, x)
    <3> SUFFICES ASSUME NEW x \in S PROVE ~MoreFrequent(c, x, x)  OBVIOUS
    <3>1. x \in Int /\ c[x] \in Nat  BY <1>1
    <3> QED  BY <3>1 DEF MoreFrequent
  <2>2. \A x, y \in S : x # y => MoreFrequent(c, x, y) \/ MoreFrequent(c, y, x)
    <3> SUFFICES ASSUME NEW x \in S, NEW y \in S, x # y
                 PROVE  MoreFrequent(c, x, y) \/ MoreFrequent(c, y, x)
      OBVIOUS
    <3>1. x \in Int /\ c[x] \in Nat /\ y \in Int /\ c[y] \in Nat  BY <1>1
    <3> QED  BY <3>1 DEF MoreFrequent
  <2>3. \A x, y, z \in S : MoreFrequent(c, x, y) /\ MoreFrequent(c, y, z) => MoreFrequent(c, x, z)
    <3> SUFFICES ASSUME NEW x \in S, NEW y \in S, NEW z \in S,
                        MoreFrequent(c, x, y), MoreFrequent(c, y, z)
                 PROVE  MoreFrequent(c, x, z)
      OBVIOUS
    <3>1. /\ x \in Int /\ c[x] \in Nat /\ y \in Int /\ c[y] \in Nat
          /\ z \in Int /\ c[z] \in Nat
      BY <1>1
    <3> QED  BY <3>1 DEF MoreFrequent
  <2>4. \A x \in S : <<x, x>> \notin R  BY <1>4, <2>1
  <2>5. \A x, y \in S : x # y => <<x, y>> \in R \/ <<y, x>> \in R  BY <1>4, <2>2
  <2>6. \A x, y, z \in S : <<x, y>> \in R /\ <<y, z>> \in R => <<x, z>> \in R  BY <1>4, <2>3
  <2> QED  BY <2>4, <2>5, <2>6 DEF StrictOrder
<1>6. \A x \in S : First(x) = Below(S, R, x)  BY <1>4 DEF Below
<1> HIDE DEF First
<1>7. Ranks(o, S, R)
  <2>2. ASSUME NEW i \in 1..Cardinality(S), \E x \in S : Cardinality(Below(S, R, x)) = i - 1
        PROVE  o[i] \in S /\ Cardinality(Below(S, R, o[i])) = i - 1
    <3>1. \E x \in S : Cardinality(First(x)) = i - 1  BY <1>6, <2>2
    <3>2. o[i] = CHOOSE x \in S : Cardinality(First(x)) = i - 1  BY <1>3
    <3>3. o[i] \in S /\ Cardinality(First(o[i])) = i - 1  BY <3>1, <3>2
    <3> QED  BY <1>6, <3>3
  <2>3. o = [i \in 1..Cardinality(S) |-> o[i]]  BY <1>3
  <2> QED  BY <2>2, <2>3 DEF Ranks
<1>8. Lists(o, S, R)  BY <1>1, <1>5, <1>7, RankedLists
<1> QED  BY <1>1, <1>2, <1>8 DEF S, R, o

LEMMA TopIs ==
  ASSUME NEW c \in Tallies, NEW n \in Nat
  PROVE  LET top == TopTerms(c, n)
             m == Cardinality(DOMAIN c)
         IN  /\ top \in Seq(DOMAIN c) /\ Len(top) = IF n < m THEN n ELSE m
             /\ \A i, j \in 1..Len(top) : top[i] = top[j] => i = j
             /\ \A i, j \in 1..Len(top) : i < j => c[top[i]] >= c[top[j]]
             /\ \A v \in DOMAIN c : \/ \E i \in 1..Len(top) : top[i] = v
                                    \/ \A i \in 1..Len(top) : c[v] <= c[top[i]]
             /\ m <= n => \A v \in DOMAIN c : \E i \in 1..Len(top) : top[i] = v
<1> DEFINE S == DOMAIN c
           m == Cardinality(S)
           o == Ranked(DOMAIN c, LAMBDA v, w : MoreFrequent(c, v, w))
           top == TopTerms(c, n)
           R == MoreIn(c)
<1>1. top = Take(o, n)  BY DEF TopTerms
<1>2. m \in Nat /\ Lists(o, S, R)  BY TallyRanked
<1>3. \A x \in S : x \in Int /\ c[x] \in Nat  BY TallyIs
<1>4. \A x, y \in S : <<x, y>> \in R => MoreFrequent(c, x, y)  BY DEF MoreIn
<1> HIDE DEF o, S, m, top, R
<1>5. /\ o \in [1..m -> S] /\ \A x \in S : \E i \in 1..m : o[i] = x
      /\ \A i, j \in 1..m : i < j <=> <<o[i], o[j]>> \in R
      /\ \A i \in 1..m : Cardinality(Below(S, R, o[i])) = i - 1
  BY <1>2 DEF Lists, m
<1>6. o \in Seq(S) /\ Len(o) = m
  <2>1. o = [i \in 1..m |-> o[i]]  BY <1>5
  <2> QED  BY <1>2, <1>5, <2>1
<1>7. /\ top \in Seq(S) /\ Len(top) = IF n < m THEN n ELSE m
      /\ \A x \in 1..Len(top) : top[x] = o[x]
  BY <1>1, <1>6, TakeIs
<1>8. \A i \in 1..Len(top) : i \in 1..m  BY <1>2, <1>7
<1>9. \A i, j \in 1..m : o[i] = o[j] => i = j
  <2> SUFFICES ASSUME NEW i \in 1..m, NEW j \in 1..m, o[i] = o[j] PROVE i = j  OBVIOUS
  <2>1. i - 1 = j - 1  BY <1>5
  <2> QED  BY <2>1
<1>10. \A i, j \in 1..m : i <= j => c[o[i]] >= c[o[j]]
  <2> SUFFICES ASSUME NEW i \in 1..m, NEW j \in 1..m, i <= j PROVE c[o[i]] >= c[o[j]]  OBVIOUS
  <2>1. o[i] \in S /\ o[j] \in S  BY <1>5
  <2>2. c[o[i]] \in Nat /\ c[o[j]] \in Nat  BY <1>3, <2>1
  <2>3. CASE i = j  BY <2>2, <2>3
  <2>4. CASE i < j
    <3>1. MoreFrequent(c, o[i], o[j])  BY <1>4, <1>5, <2>1, <2>4
    <3> QED  BY <2>2, <3>1 DEF MoreFrequent
  <2> QED  BY <2>3, <2>4
<1>11. \A i, j \in 1..Len(top) : top[i] = top[j] => i = j  BY <1>7, <1>8, <1>9
<1>12. \A i, j \in 1..Len(top) : i < j => c[top[i]] >= c[top[j]]  BY <1>7, <1>8, <1>10
<1>13. ASSUME NEW v \in S, ~\E i \in 1..Len(top) : top[i] = v
       PROVE  \A i \in 1..Len(top) : c[v] <= c[top[i]]
  <2>1. PICK x \in 1..m : o[x] = v  BY <1>5
  <2>2. x \notin 1..Len(top)  BY <1>7, <1>13, <2>1
  <2>3. \A i \in 1..Len(top) : i <= x  BY <1>2, <1>7, <2>2
  <2> SUFFICES ASSUME NEW i \in 1..Len(top) PROVE c[v] <= c[top[i]]  OBVIOUS
  <2>4. c[o[i]] >= c[o[x]]  BY <1>8, <1>10, <2>3
  <2>5. top[i] = o[i] /\ i \in 1..m  BY <1>7, <1>8
  <2>6. o[i] \in S /\ c[o[i]] \in Nat /\ c[v] \in Nat  BY <1>3, <1>5, <2>5
  <2> QED  BY <2>1, <2>4, <2>5, <2>6
<1>14. ASSUME m <= n, NEW v \in S PROVE \E i \in 1..Len(top) : top[i] = v
  <2>1. Len(top) = m  BY <1>2, <1>7, <1>14
  <2>2. PICK x \in 1..m : o[x] = v  BY <1>5
  <2> QED  BY <1>7, <2>1, <2>2
<1> QED  BY <1>7, <1>11, <1>12, <1>13, <1>14 DEF top, S, m

LEMMA MostFrequentIs ==
  ASSUME NEW c \in Tallies, NEW n \in Nat
  PROVE  LET f == MostFrequent(c, n)
         IN  /\ f \in Tallies /\ DOMAIN f \in SUBSET (DOMAIN c)
             /\ \A v \in DOMAIN f : f[v] = c[v]
             /\ Cardinality(DOMAIN c) <= n => f = c
<1> DEFINE f == MostFrequent(c, n)
           top == TopTerms(c, n)
<1>1. f = [v \in ToSet(top) |-> c[v]]  BY DEF MostFrequent
<1>2. /\ top \in Seq(DOMAIN c)
      /\ Cardinality(DOMAIN c) <= n => \A v \in DOMAIN c : \E i \in 1..Len(top) : top[i] = v
  BY TopIs
<1> HIDE DEF top
<1>3. DOMAIN top = 1..Len(top) /\ \A i \in 1..Len(top) : top[i] \in DOMAIN c  BY <1>2
<1>4. ToSet(top) = {top[i] : i \in 1..Len(top)}  BY <1>3 DEF ToSet
<1>5. ToSet(top) \in SUBSET (DOMAIN c)  BY <1>3, <1>4
<1>6. /\ DOMAIN c \in SUBSET Int /\ IsFiniteSet(DOMAIN c)
      /\ c = [x \in DOMAIN c |-> c[x]] /\ \A x \in DOMAIN c : c[x] \in Nat
  BY TallyIs
<1>7. IsFiniteSet(ToSet(top))  BY <1>5, <1>6, FS_Subset
<1>8. Cardinality(DOMAIN c) <= n => ToSet(top) = DOMAIN c  BY <1>2, <1>4, <1>5
<1> HIDE DEF f
<1>9. DOMAIN f = ToSet(top) /\ \A v \in DOMAIN f : f[v] = c[v]  BY <1>1
<1>10. f = [x \in DOMAIN f |-> f[x]]  BY <1>1
<1>11. f \in Tallies
  <2>1. DOMAIN f \in SUBSET Int /\ IsFiniteSet(DOMAIN f) /\ \A x \in DOMAIN f : f[x] \in Nat
    BY <1>5, <1>6, <1>7, <1>9
  <2> QED  BY <1>10, <2>1, TallyIs
<1>12. Cardinality(DOMAIN c) <= n => f = c  BY <1>1, <1>6, <1>8
<1> QED  BY <1>5, <1>9, <1>11, <1>12 DEF f

LEMMA ScaleIs ==
  ASSUME NEW c \in Nat, NEW total \in Nat, NEW sampled \in Nat \ {0}
  PROVE  Scale(c, total, sampled) \in Nat /\ (total = sampled => Scale(c, total, sampled) = c)
<1> DEFINE d == 2 * sampled
           x == 2 * c * total + sampled
           y == x \div d
<1>1. d \in Nat /\ d > 0 /\ d = 2 * sampled  OBVIOUS
<1>2. x \in Nat
  <2>1. c * total \in Nat  OBVIOUS
  <2>2. 2 * c * total = 2 * (c * total)  OBVIOUS
  <2> QED  BY <2>1, <2>2
<1>3. Scale(c, total, sampled) = y  BY DEF Scale
<1>4. total = sampled => x = d * c + sampled  OBVIOUS
<1> HIDE DEF d, x
<1>5. y \in Int /\ x % d \in Int /\ x = d * y + (x % d) /\ 0 <= x % d /\ x % d < d  BY <1>1, <1>2
<1> HIDE DEF y
<1>6. y >= 0
  <2> SUFFICES ASSUME y < 0 PROVE FALSE  BY <1>5
  <2>1. PICK z \in Nat : y = -1 - z
    <3>1. -1 - y \in Nat /\ y = -1 - (-1 - y)  BY <1>5
    <3> QED  BY <3>1
  <2>2. d * y = -d - d * z  BY <1>1, <2>1
  <2>3. d * z \in Nat  BY <1>1, <2>1
  <2> QED  BY <1>1, <1>2, <1>5, <2>2, <2>3
<1>7. ASSUME total = sampled PROVE y = c
  <2>1. x = d * c + sampled  BY <1>4, <1>7
  <2>2. ASSUME y > c PROVE FALSE
    <3>1. PICK z \in Nat : y = c + 1 + z
      <4>1. y - c - 1 \in Nat /\ y = c + 1 + (y - c - 1)  BY <1>5, <2>2
      <4> QED  BY <4>1
    <3>2. d * y = d * c + d + d * z  BY <1>1, <3>1
    <3>3. d * z \in Nat /\ d * c \in Nat  BY <1>1, <3>1
    <3> QED  BY <1>1, <1>2, <1>5, <2>1, <3>2, <3>3
  <2>3. ASSUME y < c PROVE FALSE
    <3>1. PICK z \in Nat : c = y + 1 + z
      <4>1. c - y - 1 \in Nat /\ c = y + 1 + (c - y - 1)  BY <1>5, <2>3
      <4> QED  BY <4>1
    <3>2. d * c = d * y + d + d * z  BY <1>1, <1>5, <3>1
    <3>3. d * z \in Nat /\ d * y \in Int  BY <1>1, <1>5, <3>1
    <3> QED  BY <1>1, <1>2, <1>5, <2>1, <3>2, <3>3
  <2> QED  BY <1>5, <2>2, <2>3
<1> QED  BY <1>3, <1>5, <1>6, <1>7

LEMMA ScaledIs ==
  ASSUME NEW c \in Tallies, NEW total \in Nat, NEW sampled \in Nat \ {0}
  PROVE  /\ Scaled(c, total, sampled) \in Tallies
         /\ total = sampled => Scaled(c, total, sampled) = c
<1> DEFINE f == Scaled(c, total, sampled)
<1>1. /\ DOMAIN c \in SUBSET Int /\ IsFiniteSet(DOMAIN c)
      /\ c = [x \in DOMAIN c |-> c[x]] /\ \A x \in DOMAIN c : c[x] \in Nat
  BY TallyIs
<1>2. f = [v \in DOMAIN c |-> Scale(c[v], total, sampled)]  BY DEF Scaled
<1>3. \A v \in DOMAIN c : /\ Scale(c[v], total, sampled) \in Nat
                          /\ total = sampled => Scale(c[v], total, sampled) = c[v]
  BY <1>1, ScaleIs
<1> HIDE DEF f
<1>4. DOMAIN f = DOMAIN c /\ \A v \in DOMAIN c : f[v] = Scale(c[v], total, sampled)  BY <1>2
<1>5. f = [x \in DOMAIN f |-> f[x]]  BY <1>2
<1>6. f \in Tallies
  <2>1. DOMAIN f \in SUBSET Int /\ IsFiniteSet(DOMAIN f) /\ \A x \in DOMAIN f : f[x] \in Nat
    BY <1>1, <1>3, <1>4
  <2> QED  BY <1>5, <2>1, TallyIs
<1>7. total = sampled => f = c  BY <1>1, <1>2, <1>3
<1> QED  BY <1>6, <1>7 DEF f

LEMMA NothingCounted == <<>> \in Tallies /\ DOMAIN <<>> = {}
<1>1. DOMAIN <<>> = {} /\ <<>> = [x \in {} |-> <<>>[x]]  OBVIOUS
<1>2. IsFiniteSet({})  BY FS_EmptySet
<1> QED  BY <1>1, <1>2, TallyIs

LEMMA TalliesAdd ==
  ASSUME NEW a \in Tallies, NEW b \in Tallies
  PROVE  /\ AddCounts(a, b) \in Tallies
         /\ DOMAIN AddCounts(a, b) = DOMAIN a \cup DOMAIN b
         /\ \A v \in DOMAIN a \cup DOMAIN b :
              /\ AddCounts(a, b)[v] = Count(a, v) + Count(b, v)
              /\ Count(a, v) \in Nat /\ Count(b, v) \in Nat
<1> DEFINE f == AddCounts(a, b)
           D == DOMAIN a \cup DOMAIN b
<1>1. f = [v \in D |-> Count(a, v) + Count(b, v)]  BY DEF AddCounts
<1>2. /\ DOMAIN a \in SUBSET Int /\ IsFiniteSet(DOMAIN a) /\ \A x \in DOMAIN a : a[x] \in Nat
      /\ DOMAIN b \in SUBSET Int /\ IsFiniteSet(DOMAIN b) /\ \A x \in DOMAIN b : b[x] \in Nat
  BY TallyIs
<1>3. \A v : Count(a, v) \in Nat /\ Count(b, v) \in Nat  BY <1>2 DEF Count
<1>4. D \in SUBSET Int /\ IsFiniteSet(D)  BY <1>2, FS_Union
<1> HIDE DEF f, D
<1>5. DOMAIN f = D /\ \A v \in D : f[v] = Count(a, v) + Count(b, v)  BY <1>1
<1>6. f = [x \in DOMAIN f |-> f[x]]  BY <1>1
<1>7. \A v \in D : f[v] \in Nat  BY <1>3, <1>5
<1>8. f \in Tallies  BY <1>4, <1>5, <1>6, <1>7, TallyIs
<1> QED  BY <1>3, <1>5, <1>8 DEF f, D

LEMMA TalliesAddIn ==
  ASSUME NEW n \in Nat, NEW s, DOMAIN s = 1..n, Len(s) = n, \A i \in 1..n : s[i] \in Tallies
  PROVE  AddAll(s) \in Tallies
<1> DEFINE B == [T \in SUBSET (1..n) |-> Tallies]
<1>1. <<>> \in B[{}]
  <2>1. {} \in SUBSET (1..n)  OBVIOUS
  <2> QED  BY <2>1, NothingCounted
<1>2. ASSUME NEW T \in SUBSET (1..n), NEW m \in T, NEW c \in B[T \ {m}]
      PROVE  AddCounts(c, s[m]) \in B[T]
  <2>1. T \ {m} \in SUBSET (1..n) /\ m \in 1..n  OBVIOUS
  <2>2. c \in Tallies /\ s[m] \in Tallies  BY <1>2, <2>1
  <2>3. AddCounts(c, s[m]) \in Tallies
    <3>1. PICK b : b = s[m]  OBVIOUS
    <3> QED  BY <2>2, <3>1, TalliesAdd
  <2> QED  BY <2>3
<1>3. 1..n \in SUBSET (1..n)  OBVIOUS
<1>4. B[1..n] = Tallies  BY <1>3
<1> HIDE DEF B
<1>5. AddAll(s) \in B[1..n]  BY <1>1, <1>2, AddAllWithin
<1> QED  BY <1>4, <1>5

(* c counts no value more often than g makes it of the events of E.        *)
Under(c, E, g) ==
  /\ c \in Tallies /\ DOMAIN c \in SUBSET Slots(E, g)
  /\ \A v \in DOMAIN c : c[v] <= Cardinality(InSlot(E, v, g))

LEMMA UnderAdds ==
  ASSUME NEW a, NEW b, NEW E, NEW E2, NEW g, Under(a, E, g), Under(b, E2, g),
         IsFiniteSet(E), IsFiniteSet(E2), E \cap E2 = {}
  PROVE  Under(AddCounts(a, b), E \cup E2, g)
<1> DEFINE f == AddCounts(a, b)
<1>1. a \in Tallies /\ b \in Tallies  BY DEF Under
<1>2. /\ f \in Tallies /\ DOMAIN f = DOMAIN a \cup DOMAIN b
      /\ \A v \in DOMAIN f : f[v] = Count(a, v) + Count(b, v)
      /\ \A v \in DOMAIN f : Count(a, v) \in Nat /\ Count(b, v) \in Nat
  BY <1>1, TalliesAdd
<1> HIDE DEF f
<1>3. Slots(E \cup E2, g) = Slots(E, g) \cup Slots(E2, g)  BY DEF Slots
<1>4. DOMAIN f \in SUBSET Slots(E \cup E2, g)  BY <1>2, <1>3 DEF Under
<1>5. ASSUME NEW v \in DOMAIN f PROVE f[v] <= Cardinality(InSlot(E \cup E2, v, g))
  <2> DEFINE A == InSlot(E, v, g)
             B == InSlot(E2, v, g)
  <2>1. InSlot(E \cup E2, v, g) = A \cup B /\ A \cap B = {}  BY DEF InSlot
  <2>2. /\ IsFiniteSet(A) /\ IsFiniteSet(B)
        /\ Cardinality(A) \in Nat /\ Cardinality(B) \in Nat
    BY SlotFacts
  <2>3. Count(a, v) <= Cardinality(A)
    <3>1. CASE v \in DOMAIN a  BY <3>1 DEF Count, Under
    <3>2. CASE v \notin DOMAIN a
      <4> HIDE DEF A
      <4> QED  BY <2>2, <3>2 DEF Count
    <3> QED  BY <3>1, <3>2
  <2>4. Count(b, v) <= Cardinality(B)
    <3>1. CASE v \in DOMAIN b  BY <3>1 DEF Count, Under
    <3>2. CASE v \notin DOMAIN b
      <4> HIDE DEF B
      <4> QED  BY <2>2, <3>2 DEF Count
    <3> QED  BY <3>1, <3>2
  <2> HIDE DEF A, B
  <2>5. Cardinality(A \cup B) = Cardinality(A) + Cardinality(B) - Cardinality(A \cap B)
    BY <2>2, FS_Union
  <2>6. Cardinality(A \cap B) = 0  BY <2>1, FS_EmptySet
  <2>7. Cardinality(A \cup B) = Cardinality(A) + Cardinality(B)  BY <2>2, <2>5, <2>6
  <2>8. f[v] = Count(a, v) + Count(b, v) /\ Count(a, v) \in Nat /\ Count(b, v) \in Nat
    BY <1>2
  <2> QED  BY <2>1, <2>2, <2>3, <2>4, <2>7, <2>8
<1>6. Under(f, E \cup E2, g)  BY <1>2, <1>4, <1>5 DEF Under
<1> QED  BY <1>6 DEF f

LEMMA UnderAddUp ==
  ASSUME NEW n \in Nat, NEW Es, NEW g, NEW s, DOMAIN s = 1..n, Len(s) = n,
         \A i \in 1..n : IsFiniteSet(Es[i]) /\ Under(s[i], Es[i], g),
         \A i, j \in 1..n : i # j => Es[i] \cap Es[j] = {}
  PROVE  Under(AddAll(s), Together(Es, 1..n), g)
<1> DEFINE Fits(T) == {c \in Tallies : Under(c, Together(Es, T), g)}
           B == [T \in SUBSET (1..n) |-> Fits(T)]
<1>1. <<>> \in Fits({})
  <2>1. <<>> \in Tallies /\ DOMAIN <<>> = {}  BY NothingCounted
  <2>2. Under(<<>>, Together(Es, {}), g)  BY <2>1 DEF Under
  <2> QED  BY <2>1, <2>2
<1>2. ASSUME NEW T \in SUBSET (1..n), NEW m \in T, NEW c \in Fits(T \ {m})
      PROVE  AddCounts(c, s[m]) \in Fits(T)
  <2>1. T \ {m} \in SUBSET (1..n) /\ m \in 1..n  OBVIOUS
  <2>2. PICK A : A = Together(Es, T \ {m})  OBVIOUS
  <2>3. PICK E : E = Es[m]  OBVIOUS
  <2>4. PICK b : b = s[m]  OBVIOUS
  <2>5. Together(Es, T) = A \cup E  BY <2>2, <2>3, TogetherFacts
  <2>6. IsFiniteSet(A)
    <3>1. \A i \in T \ {m} : IsFiniteSet(Es[i])  BY <2>1
    <3> QED  BY <2>1, <2>2, <3>1, TogetherFacts
  <2>7. IsFiniteSet(E) /\ Under(b, E, g)  BY <2>1, <2>3, <2>4
  <2>8. A \cap E = {}  BY <2>1, <2>2, <2>3 DEF Together
  <2>9. Under(c, A, g)  BY <1>2, <2>2
  <2>10. Under(AddCounts(c, b), A \cup E, g)  BY <2>6, <2>7, <2>8, <2>9, UnderAdds
  <2>11. AddCounts(c, b) \in Tallies  BY <2>10 DEF Under
  <2> QED  BY <2>4, <2>5, <2>10, <2>11
<1> HIDE DEF Fits
<1>3. <<>> \in B[{}]
  <2>1. {} \in SUBSET (1..n)  OBVIOUS
  <2> QED  BY <1>1, <2>1
<1>4. ASSUME NEW T \in SUBSET (1..n), NEW m \in T, NEW c \in B[T \ {m}]
      PROVE  AddCounts(c, s[m]) \in B[T]
  <2>1. T \ {m} \in SUBSET (1..n)  OBVIOUS
  <2>2. c \in Fits(T \ {m})  BY <1>4, <2>1
  <2> QED  BY <1>2, <2>2
<1>5. 1..n \in SUBSET (1..n)  OBVIOUS
<1>6. B[1..n] = Fits(1..n)  BY <1>5
<1> HIDE DEF B
<1>7. AddAll(s) \in B[1..n]  BY <1>3, <1>4, AddAllWithin
<1> QED  BY <1>6, <1>7 DEF Fits

LEMMA CountsUnder ==
  ASSUME NEW E, NEW g, IsFiniteSet(E), Slots(E, g) \in SUBSET Int
  PROVE  /\ CountsOver({}, E, g) \in Tallies /\ DOMAIN CountsOver({}, E, g) = Slots(E, g)
         /\ Under(CountsOver({}, E, g), E, g)
         /\ \A v \in Slots(E, g) : CountsOver({}, E, g)[v] = Cardinality(InSlot(E, v, g))
<1> DEFINE c == CountsOver({}, E, g)
           S == Slots(E, g)
<1>1. c = [t \in S |-> Cardinality(InSlot(E, t, g))]
  <2>1. {} \cup S = S  OBVIOUS
  <2> QED  BY <2>1 DEF CountsOver
<1>2. IsFiniteSet(S)
  <2> DEFINE f == [e \in E |-> g[e]]
  <2>1. f \in Surjection(E, S)  BY DEF Surjection, Slots
  <2> HIDE DEF f, S
  <2> QED  BY <2>1, FS_Surjection
<1> HIDE DEF c, S
<1>3. DOMAIN c = S /\ \A v \in S : c[v] = Cardinality(InSlot(E, v, g))  BY <1>1
<1>4. c = [x \in DOMAIN c |-> c[x]]  BY <1>1
<1>5. \A v \in S : Cardinality(InSlot(E, v, g)) \in Nat  BY SlotFacts
<1>6. c \in Tallies
  <2>1. DOMAIN c \in SUBSET Int /\ IsFiniteSet(DOMAIN c)  BY <1>2, <1>3 DEF S
  <2>2. \A x \in DOMAIN c : c[x] \in Nat  BY <1>3, <1>5
  <2> QED  BY <1>4, <2>1, <2>2, TallyIs
<1>7. Under(c, E, g)
  <2>1. \A v \in DOMAIN c : c[v] <= Cardinality(InSlot(E, v, g))
    <3> SUFFICES ASSUME NEW v \in DOMAIN c PROVE c[v] <= Cardinality(InSlot(E, v, g))  OBVIOUS
    <3>1. c[v] = Cardinality(InSlot(E, v, g)) /\ Cardinality(InSlot(E, v, g)) \in Nat
      BY <1>3, <1>5
    <3> QED  BY <3>1
  <2> QED  BY <1>3, <1>6, <2>1 DEF Under, S
<1> QED  BY <1>3, <1>6, <1>7 DEF c, S

(* A part of a partition's most frequent values.                           *)
LEMMA UnderPart ==
  ASSUME NEW c, NEW E, NEW g, Under(c, E, g), NEW n \in Nat
  PROVE  /\ Under(MostFrequent(c, n), E, g)
         /\ Cardinality(DOMAIN c) <= n => MostFrequent(c, n) = c
<1> DEFINE f == MostFrequent(c, n)
<1>1. c \in Tallies  BY DEF Under
<1>2. /\ f \in Tallies /\ DOMAIN f \in SUBSET (DOMAIN c)
      /\ \A v \in DOMAIN f : f[v] = c[v]
      /\ Cardinality(DOMAIN c) <= n => f = c
  BY <1>1, MostFrequentIs
<1> HIDE DEF f
<1>3. Under(f, E, g)  BY <1>2 DEF Under
<1> QED  BY <1>2, <1>3 DEF f

-----------------------------------------------------------------------------
(* The values of one partition.                                            *)

LEMMA BlockTermsExact ==
  ASSUME NEW bs, NEW sel, NEW n, Selects(bs, sel, n), NEW node, NEW q, q.field # "index",
         \A i \in 1..n : sel[i] = Matched(bs[i], node, q)
  PROVE  AddAll([i \in DOMAIN bs |-> BlockTerms(bs[i], node, q)])
           = CountsOver({}, Valued(Found(bs, sel, n), q.field), ValuesOf(q.field))
<1> DEFINE field == q.field
           s == [i \in DOMAIN bs |-> BlockTerms(bs[i], node, q)]
           has == [i \in 1..n |-> {j \in sel[i] : ValueOf(bs[i].rows[j], field) # None}]
           at == [i \in 1..n |-> [j \in has[i] |-> ValueOf(bs[i].rows[j], field)]]
           g == ValuesOf(field)
<1>1. n \in Nat /\ DOMAIN bs = 1..n  BY DEF Selects
<1>2. DOMAIN s = 1..n /\ \A i \in 1..n : s[i] = BlockTerms(bs[i], node, q)  BY <1>1
<1>3. Len(s) = n
  <2>1. s = [i \in 1..n |-> s[i]]  BY <1>1
  <2> HIDE DEF s
  <2> QED  BY <1>1, <2>1
<1>4. ASSUME NEW i \in 1..n PROVE has[i] = {j \in sel[i] : ValueOf(bs[i].rows[j], field) # None}
  OBVIOUS
<1>5. ASSUME NEW i \in 1..n, NEW j \in has[i]
      PROVE  at[i][j] = ValueOf(bs[i].rows[j], field)
  OBVIOUS
<1> HIDE DEF s, has, at
<1>6. ASSUME NEW i \in 1..n, NEW j \in sel[i]
      PROVE  /\ bs[i].rows[j].event \in Events
             /\ ValueOf(bs[i].rows[j], field) = ValueIn(bs[i].rows[j].event, field)
  <2>1. PICK r : r = bs[i].rows[j]  OBVIOUS
  <2>2. PICK rs : rs = bs[i].rows  OBVIOUS
  <2>3. rs \in Seq(AnyRow) /\ sel[i] \in SUBSET (DOMAIN rs)  BY <2>2 DEF Selects, RowsFit
  <2>4. r \in AnyRow  BY <2>1, <2>2, <2>3
  <2>5. ValueOf(r, field) = ValueIn(r.event, field)  BY <2>4, RowValue
  <2>6. bs[i].rows[j].event \in Events  BY PlaceFacts
  <2> QED  BY <2>1, <2>5, <2>6
<1>7. Selects(bs, has, n)
  <2>1. \A i \in 1..n : has[i] \in SUBSET sel[i]  BY <1>4
  <2> QED  BY <2>1 DEF Selects
<1>8. ASSUME NEW i \in 1..n, NEW j \in has[i] PROVE at[i][j] = g[bs[i].rows[j].event]
  <2>1. j \in sel[i]  BY <1>4
  <2> QED  BY <1>5, <1>6, <2>1 DEF ValuesOf
<1>9. ASSUME NEW i \in 1..n PROVE s[i] = Tally(at[i], has[i])
  <2> DEFINE rows == {j \in Matched(bs[i], node, q) : ValueOf(bs[i].rows[j], field) # None}
             Val(j) == ValueOf(bs[i].rows[j], field)
             S == has[i]
  <2>1. BlockTerms(bs[i], node, q)
          = [v \in {Val(j) : j \in rows} |-> Cardinality({j \in rows : Val(j) = v})]
    BY DEF BlockTerms, RowTerms
  <2>2. rows = S  BY <1>4
  <2>3. PICK a : a = at[i]  OBVIOUS
  <2>4. \A j \in S : a[j] = Val(j)  BY <1>5, <2>3
  <2> HIDE DEF Val, S, rows
  <2>5. {Val(j) : j \in S} = {a[j] : j \in S}  BY <2>4
  <2>6. ASSUME NEW v PROVE {j \in S : Val(j) = v} = {j \in S : a[j] = v}  BY <2>4
  <2>7. BlockTerms(bs[i], node, q)
          = [v \in {Val(j) : j \in S} |-> Cardinality({j \in S : Val(j) = v})]
    BY <2>1, <2>2
  <2>8. BlockTerms(bs[i], node, q) = Tally(a, S)  BY <2>5, <2>6, <2>7 DEF Tally
  <2> QED  BY <1>2, <2>3, <2>8 DEF S
<1>10. Found(bs, has, n) = Valued(Found(bs, sel, n), field)
  <2>1. ASSUME NEW e \in Found(bs, has, n) PROVE e \in Valued(Found(bs, sel, n), field)
    <3>1. PICK i \in 1..n : \E j \in has[i] : bs[i].rows[j].event = e  BY DEF Found
    <3>2. PICK j \in has[i] : bs[i].rows[j].event = e  BY <3>1
    <3>3. j \in sel[i] /\ ValueOf(bs[i].rows[j], field) # None  BY <1>4
    <3>4. ValueIn(e, field) # None /\ e \in Events  BY <1>6, <3>2, <3>3
    <3>5. e \in Found(bs, sel, n)  BY <3>2, <3>3, <3>4 DEF Found
    <3> QED  BY <3>4, <3>5 DEF Valued
  <2>2. ASSUME NEW e \in Valued(Found(bs, sel, n), field) PROVE e \in Found(bs, has, n)
    <3>1. e \in Found(bs, sel, n) /\ ValueIn(e, field) # None  BY DEF Valued
    <3>2. PICK i \in 1..n : \E j \in sel[i] : bs[i].rows[j].event = e  BY <3>1 DEF Found
    <3>3. PICK j \in sel[i] : bs[i].rows[j].event = e  BY <3>2
    <3>4. ValueOf(bs[i].rows[j], field) # None /\ e \in Events  BY <1>6, <3>1, <3>3
    <3>5. j \in has[i]  BY <1>4, <3>4
    <3> QED  BY <3>3, <3>4, <3>5 DEF Found
  <2> QED  BY <2>1, <2>2
<1> HIDE DEF g
<1>11. Tallied(s, at, bs, has, n, g)  BY <1>2, <1>3, <1>8, <1>9 DEF Tallied
<1>12. AddAll(s) = CountsOver({}, Found(bs, has, n), g)  BY <1>7, <1>11, TalliesAddUp
<1> QED  BY <1>10, <1>12 DEF s, g

LEMMA PartitionTermsIs ==
  ASSUME StoreFits, CacheFits, NEW q, QueryFits(q), FilterFits(q), NEW k \in Keys
  PROVE  LET E == Valued(FoundIn(k, q), q.field)
             g == ValuesOf(q.field)
             p == PartitionTerms(k, PlannedNode(q), q)
         IN  /\ IsFiniteSet(E) /\ Slots(E, g) \in SUBSET Int
             /\ Under(p, E, g)
             /\ Cardinality(Slots(E, g)) <= 2 * q.size => p = CountsOver({}, E, g)
<1> DEFINE bs == Blocks(k)
           node == PlannedNode(q)
           sel == MatchedIn(bs, node, q)
           n == Len(bs)
           F == FoundIn(k, q)
           E == Valued(F, q.field)
           g == ValuesOf(q.field)
           p == PartitionTerms(k, node, q)
<1>0. q.size \in Nat  BY DEF QueryFits
<1>1. F \in SUBSET Events /\ IsFiniteSet(F) /\ \A e \in F : KeyOf(e) = k  BY FoundHere
<1>2. Selects(bs, sel, n)
  <2> HIDE DEF bs
  <2> QED  BY PlanSelects DEF bs
<1>3. F = Found(bs, sel, n)  BY DEF FoundIn
<1>4. DOMAIN bs = 1..n /\ n \in Nat  BY <1>2 DEF Selects
<1>5. \A i \in 1..n : sel[i] = Matched(bs[i], node, q)  BY <1>4 DEF MatchedIn
<1> HIDE DEF bs, sel, n, F, node
<1>6. E \in SUBSET F  BY DEF Valued
<1>7. IsFiniteSet(E)  BY <1>1, <1>6, FS_Subset
<1>8. \A e \in E : g[e] = ValueIn(e, q.field) /\ g[e] \in Int
  <2> SUFFICES ASSUME NEW e \in E PROVE g[e] = ValueIn(e, q.field) /\ g[e] \in Int  OBVIOUS
  <2>1. e \in Events /\ ValueIn(e, q.field) # None  BY <1>1, <1>6 DEF Valued
  <2>2. ValueIn(e, q.field) \in Int  BY <2>1, ValueFacts
  <2> QED  BY <2>1, <2>2 DEF ValuesOf
<1>9. Slots(E, g) \in SUBSET Int  BY <1>8 DEF Slots
<1>10. CASE q.field = "index"
  <2> DEFINE total == SumSeq([i \in DOMAIN bs |-> Cardinality(Matched(bs[i], node, q))])
  <2>1. p = TotalAs(k.index, total)  BY <1>10 DEF PartitionTerms, bs, node
  <2>2. total = Cardinality(F)
    <3>1. SumSeq([i \in DOMAIN bs |-> Cardinality(sel[i])]) = Cardinality(Found(bs, sel, n))
      BY <1>2, TotalExact
    <3>2. [i \in DOMAIN bs |-> Cardinality(sel[i])]
            = [i \in DOMAIN bs |-> Cardinality(Matched(bs[i], node, q))]
      BY <1>4, <1>5
    <3> QED  BY <1>3, <3>1, <3>2
  <2>3. \A e \in F : ValueIn(e, q.field) = k.index /\ k.index \in Int
    BY <1>1, <1>10, KeyFacts DEF ValueIn
  <2>4. E = F  BY <2>3, NoneAssumption DEF Valued
  <2> HIDE DEF E, total, p, g
  <2>5. \A e \in E : g[e] = k.index  BY <1>8, <2>3, <2>4
  <2>6. p = [v \in (IF total = 0 THEN {} ELSE {k.index}) |-> total]  BY <2>1 DEF TotalAs
  <2>7. CountsOver({}, E, g) = [v \in Slots(E, g) |-> Cardinality(InSlot(E, v, g))]
    <3>1. {} \cup Slots(E, g) = Slots(E, g)  OBVIOUS
    <3> QED  BY <3>1 DEF CountsOver
  <2>8. Slots(E, g) = IF total = 0 THEN {} ELSE {k.index}
    <3>1. total = 0 <=> E = {}  BY <1>7, <2>2, <2>4, FS_EmptySet
    <3>2. CASE E = {}  BY <3>1, <3>2 DEF Slots
    <3>3. CASE E # {}  BY <2>5, <3>1, <3>3 DEF Slots
    <3> QED  BY <3>2, <3>3
  <2>9. \A v \in Slots(E, g) : Cardinality(InSlot(E, v, g)) = total
    <3> SUFFICES ASSUME NEW v \in Slots(E, g) PROVE Cardinality(InSlot(E, v, g)) = total
      OBVIOUS
    <3>1. InSlot(E, v, g) = E  BY <2>5 DEF Slots, InSlot
    <3> QED  BY <2>2, <2>4, <3>1
  <2>10. p = CountsOver({}, E, g)  BY <2>6, <2>7, <2>8, <2>9
  <2>11. Under(p, E, g)  BY <1>7, <1>9, <2>10, CountsUnder
  <2> QED  BY <1>7, <1>9, <2>10, <2>11 DEF E, p, g, F, node
<1>11. CASE q.field # "index"
  <2> DEFINE c == AddAll([i \in DOMAIN bs |-> BlockTerms(bs[i], node, q)])
  <2>1. p = MostFrequent(c, 2 * q.size)
    <3>1. p = MostFrequent(c, PerPartition(q.size))  BY <1>11 DEF PartitionTerms, bs, node
    <3> HIDE DEF c, p
    <3> QED  BY <3>1 DEF PerPartition
  <2>2. c = CountsOver({}, E, g)
    <3>1. c = CountsOver({}, Valued(Found(bs, sel, n), q.field), ValuesOf(q.field))
      BY <1>2, <1>5, <1>11, BlockTermsExact
    <3> HIDE DEF c
    <3> QED  BY <1>3, <3>1
  <2> HIDE DEF c, E, p, g
  <2>3. Under(c, E, g) /\ DOMAIN c = Slots(E, g)  BY <1>7, <1>9, <2>2, CountsUnder
  <2>4. 2 * q.size \in Nat  BY <1>0
  <2>5. PICK m \in Nat : m = 2 * q.size  BY <2>4
  <2>6. Under(MostFrequent(c, m), E, g) /\ (Cardinality(DOMAIN c) <= m => MostFrequent(c, m) = c)
    BY <2>3, UnderPart
  <2> QED  BY <1>7, <1>9, <2>1, <2>2, <2>3, <2>5, <2>6 DEF E, p, g, F, node
<1> QED  BY <1>10, <1>11

-----------------------------------------------------------------------------
(* The sample of the plan.                                                 *)

LEMMA ProductLess ==
  ASSUME NEW a \in Int, NEW b \in Nat \ {0}, NEW c \in Int, a * b < c * b
  PROVE  a < c
<1> SUFFICES ASSUME a >= c PROVE FALSE  OBVIOUS
<1>1. PICK d \in Nat : a = c + d
  <2>1. a - c \in Nat /\ a = c + (a - c)  OBVIOUS
  <2> QED  BY <2>1
<1>2. a * b = c * b + d * b  BY <1>1
<1>3. d * b \in Nat /\ c * b \in Int  OBVIOUS
<1> QED  BY <1>2, <1>3

LEMMA CeilDivIs ==
  ASSUME NEW a \in Nat, NEW b \in Nat \ {0}
  PROVE  LET c == CeilDiv(a, b)
         IN  /\ c \in Nat /\ c * b \in Nat /\ (c - 1) * b \in Int
             /\ a <= c * b /\ (c - 1) * b < a
             /\ b = 1 => c = a
<1> DEFINE x == a + b - 1
           c == CeilDiv(a, b)
<1>1. x \in Nat /\ x = a + b - 1  OBVIOUS
<1>2. c = x \div b  BY DEF CeilDiv
<1> HIDE DEF x, c
<1>3. c \in Int /\ x % b \in Int /\ x = b * c + (x % b) /\ 0 <= x % b /\ x % b < b
  BY <1>1, <1>2
<1>4. c * b = b * c /\ c * b \in Int  BY <1>3
<1>5. (c - 1) * b = c * b - b  BY <1>3
<1>6. a <= c * b /\ (c - 1) * b < a  BY <1>1, <1>3, <1>4, <1>5
<1>7. c >= 0
  <2>1. (-1) * b = -b  OBVIOUS
  <2>2. -1 * b < c * b  BY <1>4, <1>6, <2>1
  <2>3. -1 \in Int  OBVIOUS
  <2> QED  BY <1>3, <2>2, <2>3, ProductLess
<1>8. b = 1 => c = a  BY <1>1, <1>3
<1>9. c * b >= 0  BY <1>4, <1>6
<1> QED  BY <1>3, <1>4, <1>5, <1>6, <1>7, <1>8, <1>9 DEF c

LEMMA SampleIs ==
  ASSUME NEW S, NEW m \in Nat, NEW ks \in [1..m -> S], NEW approximate \in BOOLEAN
  PROVE  LET sample == SampleOf(ks, approximate)
             n == Len(sample)
         IN  /\ n \in Nat /\ n <= m /\ sample \in [1..n -> S]
             /\ approximate => n <= MaxPartitions
             /\ n = m => sample = ks
<1> DEFINE M == MaxPartitions
           stride == IF approximate /\ Len(ks) > M THEN CeilDiv(Len(ks), M) ELSE 1
           L == CeilDiv(m, stride)
           sample == SampleOf(ks, approximate)
<1>1. M \in Nat /\ M >= 1 /\ M \in Nat \ {0}  BY PartitionsAssumption
<1>2. Len(ks) = m
  <2>1. ks = [i \in 1..m |-> ks[i]]  OBVIOUS
  <2> QED  BY <2>1
<1>3. sample = [i \in 1..CeilDiv(Len(ks), stride) |-> ks[(i - 1) * stride + 1]]
  BY DEF SampleOf
<1> HIDE DEF sample
<1>4. stride = IF approximate /\ m > M THEN CeilDiv(m, M) ELSE 1  BY <1>2
<1>5. sample = [i \in 1..L |-> ks[(i - 1) * stride + 1]]
  <2> HIDE DEF stride
  <2> QED  BY <1>2, <1>3
<1> HIDE DEF stride, M
<1>6. /\ stride \in Nat \ {0}
      /\ approximate /\ m > M => m <= stride * M
      /\ ~(approximate /\ m > M) => stride = 1
  <2>1. CASE approximate /\ m > M
    <3>1. stride = CeilDiv(m, M)  BY <1>4, <2>1
    <3>2. stride \in Nat /\ m <= stride * M  BY <1>1, <3>1, CeilDivIs
    <3>3. stride # 0  BY <1>1, <2>1, <3>2
    <3> QED  BY <2>1, <3>2, <3>3
  <2>2. CASE ~(approximate /\ m > M)  BY <1>4, <2>2
  <2> QED  BY <2>1, <2>2
<1>7. /\ L \in Nat /\ m <= L * stride /\ (L - 1) * stride < m /\ (L - 1) * stride \in Int
      /\ stride = 1 => L = m
  BY <1>6, CeilDivIs
<1> HIDE DEF L
<1>8. L <= m
  <2>1. m <= m * stride
    <3>1. PICK d \in Nat : stride = 1 + d
      <4>1. stride - 1 \in Nat /\ stride = 1 + (stride - 1)  BY <1>6
      <4> QED  BY <4>1
    <3>2. m * stride = m + m * d /\ m * d \in Nat  BY <3>1
    <3> QED  BY <3>2
  <2>2. m * stride \in Int  BY <1>6
  <2>3. (L - 1) * stride < m * stride  BY <1>7, <2>1, <2>2
  <2>4. L - 1 \in Int  BY <1>7
  <2>5. L - 1 < m  BY <1>6, <2>3, <2>4, ProductLess
  <2> QED  BY <1>7, <2>5
<1>9. ASSUME approximate, m > M PROVE L <= M
  <2>1. m <= stride * M /\ stride * M = M * stride /\ M * stride \in Int  BY <1>1, <1>6, <1>9
  <2>2. (L - 1) * stride < M * stride  BY <1>7, <2>1
  <2>3. L - 1 \in Int /\ M \in Int  BY <1>1, <1>7
  <2>4. L - 1 < M  BY <1>6, <2>2, <2>3, ProductLess
  <2> QED  BY <1>1, <1>7, <2>4
<1>10. approximate => L <= M  BY <1>1, <1>6, <1>7, <1>9
<1>11. \A i \in 1..L : (i - 1) * stride + 1 \in 1..m
  <2> SUFFICES ASSUME NEW i \in 1..L PROVE (i - 1) * stride + 1 \in 1..m  OBVIOUS
  <2>1. PICK d \in Nat : L = i + d
    <3>1. L - i \in Nat /\ L = i + (L - i)  BY <1>7
    <3> QED  BY <3>1
  <2>2. PICK p \in Nat : p = (i - 1) * stride
    <3>1. i - 1 \in Nat  BY <1>7
    <3> QED  BY <1>6, <3>1
  <2>3. (L - 1) * stride = (i - 1) * stride + d * stride  BY <1>6, <1>7, <2>1
  <2>4. d * stride \in Nat  BY <1>6
  <2>5. p < m  BY <1>7, <2>2, <2>3, <2>4
  <2> QED  BY <2>2, <2>5
<1>12. sample \in [1..L -> S]  BY <1>5, <1>11
<1>13. Len(sample) = L
  <2>1. sample = [i \in 1..L |-> sample[i]]  BY <1>12
  <2> QED  BY <1>7, <2>1
<1>14. ASSUME L = m PROVE sample = ks
  <2>1. stride = 1  BY <1>1, <1>6, <1>9, <1>14
  <2>2. \A i \in 1..m : (i - 1) * stride + 1 = i  BY <2>1
  <2> QED  BY <1>5, <1>14, <2>2
<1> QED  BY <1>7, <1>8, <1>10, <1>12, <1>13, <1>14 DEF sample, M

-----------------------------------------------------------------------------
(* The rows that match, by their partition and their value.                *)

LEMMA MatchingKeys ==
  ASSUME StoreFits, CacheFits, NEW q, QueryFits(q), FilterFits(q)
  PROVE  /\ \A s \in Matching(q) : /\ s.key = KeyOf(s.row.event) /\ s.key \in Keys
                                   /\ FieldOf(s, q) = ValueIn(s.row.event, q.field)
         /\ \A k \in Planned(q) : \A e : e \in FoundIn(k, q) <=> e \in AllFound(q) /\ KeyOf(e) = k
<1>1. ASSUME NEW s \in Matching(q)
      PROVE  /\ s.key = KeyOf(s.row.event) /\ s.key \in Keys
             /\ FieldOf(s, q) = ValueIn(s.row.event, q.field)
  <2>1. s \in Stored  BY DEF Matching
  <2>2. PICK k \in Keys : \E i \in DOMAIN Blocks(k) : \E j \in DOMAIN Blocks(k)[i].rows :
          s = StoredAt(k, Blocks(k)[i].rows[j])
    BY <2>1, StoredIs
  <2>3. PICK i \in DOMAIN Blocks(k) : \E j \in DOMAIN Blocks(k)[i].rows :
          s = StoredAt(k, Blocks(k)[i].rows[j])
    BY <2>2
  <2>4. PICK j \in DOMAIN Blocks(k)[i].rows : s = StoredAt(k, Blocks(k)[i].rows[j])  BY <2>3
  <2>5. PICK rs : rs = Blocks(k)[i].rows  OBVIOUS
  <2>6. PICK r : r = rs[j]  OBVIOUS
  <2>7. s.row = r /\ s.index = k.index /\ s.key = k  BY <2>4, <2>5, <2>6 DEF StoredAt
  <2>8. RowsFit(rs) /\ \A e \in EventsOf(rs) : KeyOf(e) = k  BY <2>5, BlockFacts
  <2>9. r \in AnyRow /\ r.event \in EventsOf(rs)
    <3>1. rs \in Seq(AnyRow) /\ j \in DOMAIN rs  BY <2>5, <2>8 DEF RowsFit
    <3> QED  BY <2>6, <3>1 DEF EventsOf
  <2>10. KeyOf(r.event) = k  BY <2>8, <2>9
  <2>11. FieldOf(s, q) = ValueIn(r.event, q.field)
    <3>1. CASE q.field = "index"  BY <2>7, <2>10, <3>1 DEF FieldOf, ValueIn
    <3>2. CASE q.field # "index"
      <4>1. PICK f : f = q.field  OBVIOUS
      <4>2. ValueOf(r, f) = ValueIn(r.event, f)  BY <2>9, <3>2, <4>1, RowValue
      <4> QED  BY <2>7, <3>2, <4>1, <4>2 DEF FieldOf
    <3> QED  BY <3>1, <3>2
  <2> QED  BY <2>7, <2>10, <2>11
<1>2. \A e : e \in AllFound(q) <=> \E k \in Planned(q) : e \in FoundIn(k, q)
  <2> DEFINE ks == PlannedKeys(q)
             m == Cardinality(Planned(q))
  <2>1. ks \in [1..m -> Planned(q)] /\ \A k \in Planned(q) : \E i \in 1..m : ks[i] = k
    BY PlannedLists DEF Lists
  <2>2. AllFound(q) = UNION {FoundIn(ks[i], q) : i \in 1..m}
    BY DEF AllFound, Together, FoundBy
  <2> HIDE DEF ks, m
  <2> QED  BY <2>1, <2>2
<1>3. Planned(q) \in SUBSET Keys  BY PlannedLists
<1>4. \A k \in Planned(q) : \A e \in FoundIn(k, q) : KeyOf(e) = k  BY <1>3, FoundHere
<1>5. ASSUME NEW k \in Planned(q), NEW e
      PROVE  e \in FoundIn(k, q) <=> e \in AllFound(q) /\ KeyOf(e) = k
  BY <1>2, <1>4
<1> QED  BY <1>1, <1>5

-----------------------------------------------------------------------------
(* The counts of a terms aggregation, and its answer.                      *)

LEMMA ListedIs ==
  ASSUME NEW c \in Tallies, NEW n \in Nat
  PROVE  LET out == Listed(c, n)
             m == Cardinality(DOMAIN c)
         IN  /\ m \in Nat /\ DOMAIN out = 1..Len(out)
             /\ Len(out) = IF n < m THEN n ELSE m
             /\ Cardinality({out[i].value : i \in DOMAIN out}) = Len(out)
             /\ \A i \in DOMAIN out : /\ out[i].value \in DOMAIN c
                                      /\ out[i].count = c[out[i].value] /\ out[i].count \in Nat
             /\ \A i, j \in DOMAIN out : i < j => out[i].count >= out[j].count
             /\ \A v \in DOMAIN c : \/ \E i \in DOMAIN out : out[i].value = v
                                    \/ \A i \in DOMAIN out : c[v] <= out[i].count
<1> DEFINE m == Cardinality(DOMAIN c)
           top == TopTerms(c, n)
           N == Len(top)
           out == Listed(c, n)
<1>1. m \in Nat  BY TallyRanked
<1>2. /\ top \in Seq(DOMAIN c) /\ N = IF n < m THEN n ELSE m
      /\ \A i, j \in 1..N : top[i] = top[j] => i = j
      /\ \A i, j \in 1..N : i < j => c[top[i]] >= c[top[j]]
      /\ \A v \in DOMAIN c : \/ \E i \in 1..N : top[i] = v
                             \/ \A i \in 1..N : c[v] <= c[top[i]]
  BY TopIs
<1>3. out = [i \in DOMAIN top |-> [value |-> top[i], count |-> c[top[i]]]]  BY DEF Listed
<1>4. \A x \in DOMAIN c : c[x] \in Nat  BY TallyIs
<1> HIDE DEF top, out, m
<1>5. DOMAIN top = 1..N /\ N \in Nat /\ \A i \in 1..N : top[i] \in DOMAIN c  BY <1>2
<1> HIDE DEF N
<1>6. /\ DOMAIN out = 1..N
      /\ \A i \in 1..N : out[i].value = top[i] /\ out[i].count = c[top[i]]
  BY <1>3, <1>5
<1>7. Len(out) = N
  <2>1. out = [i \in 1..N |-> out[i]]  BY <1>3, <1>5
  <2> QED  BY <1>5, <2>1
<1>8. Cardinality({out[i].value : i \in DOMAIN out}) = N
  <2> DEFINE T == {out[i].value : i \in DOMAIN out}
             f == [i \in 1..N |-> top[i]]
  <2>1. T = {top[i] : i \in 1..N}  BY <1>6
  <2>2. f \in [1..N -> T] /\ \A y \in T : \E i \in 1..N : f[i] = y  BY <2>1
  <2>3. \A i, j \in 1..N : f[i] = f[j] => i = j  BY <1>2 DEF N
  <2>4. IsFiniteSet(1..N) /\ Cardinality(1..N) = N
    <3>1. 1 \in Int /\ N \in Int  BY <1>5
    <3>2. IsFiniteSet(1..N) /\ Cardinality(1..N) = IF 1 > N THEN 0 ELSE N - 1 + 1
      BY <3>1, FS_Interval
    <3> QED  BY <1>5, <3>2
  <2> HIDE DEF T, f
  <2>5. Cardinality(T) = Cardinality(1..N)  BY <2>2, <2>3, <2>4, SameCount
  <2> QED  BY <2>4, <2>5 DEF T
<1>9. \A i \in DOMAIN out : /\ out[i].value \in DOMAIN c
                            /\ out[i].count = c[out[i].value] /\ out[i].count \in Nat
  BY <1>4, <1>5, <1>6
<1>10. \A i, j \in DOMAIN out : i < j => out[i].count >= out[j].count
  BY <1>2, <1>6 DEF N
<1>11. \A v \in DOMAIN c : \/ \E i \in DOMAIN out : out[i].value = v
                           \/ \A i \in DOMAIN out : c[v] <= out[i].count
  BY <1>2, <1>6 DEF N
<1>12. N = IF n < m THEN n ELSE m  BY <1>2 DEF N
<1> QED  BY <1>1, <1>6, <1>7, <1>8, <1>9, <1>10, <1>11, <1>12 DEF out, m

(* What the partitions that were read add up to.                           *)
Summed(q) ==
  AddAll([i \in DOMAIN Sampled(q) |->
            Scaled(PartitionTerms(Sampled(q)[i], PlannedNode(q), q),
                   Cardinality(Planned(q)), Len(Sampled(q)))])

Has(q) == Valued(AllFound(q), q.field)

(* No partition has more values than it keeps.                             *)
Narrow(q) ==
  \A k \in Planned(q) :
    Cardinality(Slots(Valued(FoundIn(k, q), q.field), ValuesOf(q.field))) <= 2 * q.size

LEMMA SummedIs ==
  ASSUME StoreFits, CacheFits, NEW q, QueryFits(q), FilterFits(q)
  PROVE  /\ Summed(q) \in Tallies
         /\ Len(Sampled(q)) = Cardinality(Planned(q)) =>
              /\ Under(Summed(q), Has(q), ValuesOf(q.field))
              /\ Narrow(q) => Summed(q) = CountsOver({}, Has(q), ValuesOf(q.field))
<1> DEFINE node == PlannedNode(q)
           m == Cardinality(Planned(q))
           all == PlannedKeys(q)
           ks == Sampled(q)
           n == Len(ks)
           s == [i \in DOMAIN ks |-> Scaled(PartitionTerms(ks[i], node, q), m, n)]
           g == ValuesOf(q.field)
           Fs == FoundBy(q)
           Es == [i \in 1..m |-> Valued(Fs[i], q.field)]
           Ds == [i \in 1..m |-> {}]
<1>1. Planned(q) \in SUBSET Keys /\ m \in Nat /\ all \in [1..m -> Planned(q)]
  BY PlannedLists DEF Lists
<1>2. q.approximate \in BOOLEAN /\ q.size \in Nat  BY DEF QueryFits
<1>3. /\ n \in Nat /\ ks \in [1..n -> Planned(q)]
      /\ n = m => ks = all
  <2>1. PICK a \in BOOLEAN : a = q.approximate  BY <1>2
  <2>2. ks = SampleOf(all, a)  BY <2>1 DEF Sampled
  <2> HIDE DEF ks, m, all
  <2> QED  BY <1>1, <2>2, SampleIs
<1>4. Summed(q) = AddAll(s)  BY DEF Summed
<1>5. \A k \in Keys : LET E == Valued(FoundIn(k, q), q.field)
                          p == PartitionTerms(k, node, q)
                      IN  /\ IsFiniteSet(E) /\ Under(p, E, g) /\ p \in Tallies
                          /\ Cardinality(Slots(E, g)) <= 2 * q.size => p = CountsOver({}, E, g)
  <2> SUFFICES ASSUME NEW k \in Keys
               PROVE  LET E == Valued(FoundIn(k, q), q.field)
                          p == PartitionTerms(k, node, q)
                      IN  /\ IsFiniteSet(E) /\ Under(p, E, g) /\ p \in Tallies
                          /\ Cardinality(Slots(E, g)) <= 2 * q.size => p = CountsOver({}, E, g)
    OBVIOUS
  <2>1. PICK p : p = PartitionTerms(k, node, q)  OBVIOUS
  <2>2. PICK E : E = Valued(FoundIn(k, q), q.field)  OBVIOUS
  <2>3. /\ IsFiniteSet(E) /\ Under(p, E, g)
        /\ Cardinality(Slots(E, g)) <= 2 * q.size => p = CountsOver({}, E, g)
    BY <2>1, <2>2, PartitionTermsIs
  <2> QED  BY <2>1, <2>2, <2>3 DEF Under
<1> DEFINE P == [k \in Keys |-> PartitionTerms(k, node, q)]
           V == [k \in Keys |-> Valued(FoundIn(k, q), q.field)]
<1>6. \A k \in Keys : /\ IsFiniteSet(V[k]) /\ Under(P[k], V[k], g) /\ P[k] \in Tallies
                      /\ Cardinality(Slots(V[k], g)) <= 2 * q.size => P[k] = CountsOver({}, V[k], g)
  <2> HIDE DEF g
  <2> QED  BY <1>5
<1>7. \A i \in 1..n : ks[i] \in Keys  BY <1>1, <1>3
<1>8. DOMAIN s = 1..n /\ \A i \in 1..n : s[i] = Scaled(P[ks[i]], m, n)
  <2>1. DOMAIN ks = 1..n  BY <1>3
  <2> HIDE DEF ks, n, m, node
  <2> QED  BY <1>7, <2>1
<1>9. Len(s) = n
  <2>1. s = [i \in 1..n |-> Scaled(PartitionTerms(ks[i], node, q), m, n)]
    <3>1. DOMAIN ks = 1..n  BY <1>3
    <3> HIDE DEF ks, n, m, node
    <3> QED  BY <3>1
  <2>2. s = [i \in 1..n |-> s[i]]  BY <2>1
  <2> HIDE DEF s, n
  <2> QED  BY <1>3, <2>2, LenProperties
<1>10. \A i \in 1..m : Fs[i] = FoundIn(all[i], q)  BY DEF FoundBy
<1>11. \A i \in 1..m : Es[i] = V[all[i]] /\ Es[i] = Valued(Fs[i], q.field) /\ all[i] \in Keys
  <2>1. \A i \in 1..m : all[i] \in Keys  BY <1>1
  <2> HIDE DEF all, m, Fs
  <2> QED  BY <1>10, <2>1
<1>12. \A i, j \in 1..m : i # j => Fs[i] \cap Fs[j] = {}
  <2>1. 0 \in Nat  OBVIOUS
  <2>2. Answers(Parts(all, node, q, 0), Fs, m)  BY <2>1, PartsExact
  <2> HIDE DEF all, node, Fs, m
  <2> QED  BY <2>2 DEF Answers
<1>13. \A i \in 1..m : Ds[i] = {}  OBVIOUS
<1>14. Has(q) = Together(Es, 1..m)
  <2>1. AllFound(q) = UNION {Fs[i] : i \in 1..m}  BY DEF AllFound, Together
  <2> HIDE DEF Es, Fs, m
  <2>2. \A i \in 1..m : \A e : e \in Es[i] <=> e \in Fs[i] /\ ValueIn(e, q.field) # None
    BY <1>11 DEF Valued
  <2>3. \A e : e \in Has(q) <=> e \in AllFound(q) /\ ValueIn(e, q.field) # None
    BY DEF Has, Valued
  <2>4. \A e : e \in Together(Es, 1..m) <=> \E i \in 1..m : e \in Es[i]  BY DEF Together
  <2>5. \A e : e \in Has(q) <=> e \in Together(Es, 1..m)  BY <2>1, <2>2, <2>3, <2>4
  <2> QED  BY <2>5
<1>15. Narrow(q) => \A k \in Planned(q) : Cardinality(Slots(V[k], g)) <= 2 * q.size
  BY <1>1 DEF Narrow
<1> HIDE DEF s, P, V, Es, Ds, Fs, ks, n, m, all, node, g
<1>16. \A i \in 1..n : s[i] \in Tallies /\ (n = m => s[i] = P[ks[i]])
  <2> SUFFICES ASSUME NEW i \in 1..n PROVE s[i] \in Tallies /\ (n = m => s[i] = P[ks[i]])
    OBVIOUS
  <2>1. PICK c \in Tallies : c = P[ks[i]]  BY <1>6, <1>7
  <2>2. n \in Nat \ {0}  BY <1>3
  <2>3. Scaled(c, m, n) \in Tallies /\ (m = n => Scaled(c, m, n) = c)  BY <1>1, <2>2, ScaledIs
  <2> QED  BY <1>8, <2>1, <2>3
<1>17. AddAll(s) \in Tallies  BY <1>3, <1>8, <1>9, <1>16, TalliesAddIn
<1>18. ASSUME n = m
       PROVE  /\ Under(AddAll(s), Together(Es, 1..m), g)
              /\ Narrow(q) => AddAll(s) = CountsOver({}, Together(Es, 1..m), g)
  <2>1. \A i \in 1..m : s[i] = P[all[i]] /\ all[i] \in Keys /\ Es[i] = V[all[i]]
    BY <1>3, <1>11, <1>16, <1>18
  <2>2. \A i \in 1..m : IsFiniteSet(Es[i]) /\ Under(s[i], Es[i], g)
    <3> SUFFICES ASSUME NEW i \in 1..m PROVE IsFiniteSet(Es[i]) /\ Under(s[i], Es[i], g)
      OBVIOUS
    <3>1. PICK k \in Keys : k = all[i]  BY <2>1
    <3> QED  BY <1>6, <2>1, <3>1
  <2>3. \A i, j \in 1..m : i # j => Es[i] \cap Es[j] = {}
    <3>1. \A i \in 1..m : Es[i] \in SUBSET Fs[i]  BY <1>11 DEF Valued
    <3> QED  BY <1>12, <3>1
  <2>4. DOMAIN s = 1..m /\ Len(s) = m  BY <1>8, <1>9, <1>18
  <2>5. Under(AddAll(s), Together(Es, 1..m), g)  BY <1>1, <2>2, <2>3, <2>4, UnderAddUp
  <2>6. ASSUME Narrow(q) PROVE AddAll(s) = CountsOver({}, Together(Es, 1..m), g)
    <3>1. \A i \in 1..m : IsFiniteSet(Es[i]) /\ s[i] = CountsOver(Ds[i], Es[i], g)
      <4> SUFFICES ASSUME NEW i \in 1..m
                   PROVE  IsFiniteSet(Es[i]) /\ s[i] = CountsOver(Ds[i], Es[i], g)
        OBVIOUS
      <4>1. PICK k \in Planned(q) : k = all[i]  BY <1>1
      <4>2. k \in Keys  BY <1>1
      <4>3. Cardinality(Slots(V[k], g)) <= 2 * q.size  BY <1>15, <2>6
      <4>4. P[k] = CountsOver({}, V[k], g)  BY <1>6, <4>2, <4>3
      <4> QED  BY <1>13, <2>1, <2>2, <4>1, <4>4
    <3>2. AddAll(s) = CountsOver(Together(Ds, 1..m), Together(Es, 1..m), g)
      BY <1>1, <2>3, <2>4, <3>1, CountsAddUp
    <3>3. Together(Ds, 1..m) = {}  BY <1>13 DEF Together
    <3> QED  BY <3>2, <3>3
  <2> QED  BY <2>5, <2>6
<1> QED  BY <1>4, <1>14, <1>17, <1>18 DEF ks, n, m, g

LEMMA AggregateExact ==
  ASSUME StoreFits, CacheFits, NEW q, QueryFits(q), FilterFits(q)
  PROVE  TermsSound(q, Aggregate(q), WithField(q), Len(Sampled(q)), Cardinality(Planned(q)))
<1> DEFINE out == Aggregate(q)
           has == WithField(q)
           n == Len(Sampled(q))
           m == Cardinality(Planned(q))
           c == Summed(q)
           H == Has(q)
           g == ValuesOf(q.field)
           size == q.size
           Val(s) == FieldOf(s, q)
           True(v) == Cardinality({s \in has : Val(s) = v})
           shown == {out[i].value : i \in DOMAIN out}
           values == {Val(s) : s \in has}
           Of(k) == {Val(s) : s \in {x \in has : x.key = k}}
           wide == \E k \in Keys : Cardinality(Of(k)) > 2 * size
<1>1. /\ Planned(q) \in SUBSET Keys /\ m \in Nat
      /\ PlannedKeys(q) \in [1..m -> Planned(q)]
  BY PlannedLists DEF Lists
<1>2. n \in Nat /\ n <= m /\ (q.approximate => n <= MaxPartitions)
  <2>1. PICK a \in BOOLEAN : a = q.approximate  BY DEF QueryFits
  <2>2. PICK all \in [1..m -> Planned(q)] : all = PlannedKeys(q)  BY <1>1
  <2>3. PICK ks : ks = SampleOf(all, a)  OBVIOUS
  <2>4. n = Len(ks)  BY <2>1, <2>2, <2>3 DEF Sampled
  <2> HIDE DEF m, n
  <2>5. Len(ks) \in Nat /\ Len(ks) <= m /\ (a => Len(ks) <= MaxPartitions)
    BY <1>1, <2>3, SampleIs
  <2> QED  BY <2>1, <2>4, <2>5
<1>3. size \in Nat  BY DEF QueryFits
<1>4. out = Listed(c, size)  BY DEF Aggregate, AggregateOf, Summed
<1>5. /\ c \in Tallies
      /\ n = m => Under(c, H, g) /\ (Narrow(q) => c = CountsOver({}, H, g))
  BY SummedIs
<1>6. /\ AllFound(q) \in SUBSET Events /\ IsFiniteSet(AllFound(q))
      /\ \A s \in Matching(q) : s.row.event \in AllFound(q)
      /\ \A e \in AllFound(q) : \E s \in Matching(q) : s.row.event = e
  BY MatchingFound
<1>7. /\ \A s \in Matching(q) : /\ s.key = KeyOf(s.row.event) /\ s.key \in Keys
                                /\ Val(s) = ValueIn(s.row.event, q.field)
      /\ \A k \in Planned(q) : \A e : e \in FoundIn(k, q) <=> e \in AllFound(q) /\ KeyOf(e) = k
  BY MatchingKeys
<1>8. \A s : s \in has <=> s \in Matching(q) /\ Val(s) # None  BY DEF WithField
<1>9. \A e : e \in H <=> e \in AllFound(q) /\ ValueIn(e, q.field) # None  BY DEF Has, Valued
<1>10. \A e \in AllFound(q) : g[e] = ValueIn(e, q.field)  BY <1>6 DEF ValuesOf
<1> HIDE DEF out, has, n, m, c, H, g, size, Val
<1>11. IsFiniteSet(H) /\ H \in SUBSET AllFound(q)
  <2>1. H \in SUBSET AllFound(q)  BY <1>9
  <2> QED  BY <1>6, <2>1, FS_Subset
<1>12. \A s \in Matching(q) : s \in has <=> s.row.event \in H  BY <1>6, <1>7, <1>8, <1>9
<1>13. \A v : True(v) = Cardinality(InSlot(H, v, g)) /\ True(v) \in Nat
  <2> SUFFICES ASSUME NEW v PROVE True(v) = Cardinality(InSlot(H, v, g)) /\ True(v) \in Nat
    OBVIOUS
  <2> DEFINE S == {s \in has : Val(s) = v}
             U == InSlot(H, v, g)
  <2>1. S \in SUBSET Matching(q)  BY <1>8
  <2>2. U \in SUBSET AllFound(q)  BY <1>11 DEF InSlot
  <2>3. \A s \in Matching(q) : s \in S <=> s.row.event \in U
    BY <1>6, <1>7, <1>10, <1>12 DEF InSlot
  <2>4. Cardinality(U) \in Nat  BY <1>11, SlotFacts
  <2> HIDE DEF S, U
  <2>5. Cardinality(S) = Cardinality(U)  BY <2>1, <2>2, <2>3, MatchCount
  <2> QED  BY <2>4, <2>5 DEF S, U
<1>14. values = Slots(H, g)
  <2>1. ASSUME NEW s \in has PROVE Val(s) \in Slots(H, g)
    <3>1. s \in Matching(q) /\ s.row.event \in H  BY <1>8, <1>12
    <3>2. Val(s) = g[s.row.event]  BY <1>6, <1>7, <1>10, <3>1
    <3> QED  BY <3>1, <3>2 DEF Slots
  <2>2. ASSUME NEW e \in H PROVE g[e] \in values
    <3>1. PICK s \in Matching(q) : s.row.event = e  BY <1>6, <1>11
    <3>2. s \in has  BY <1>12, <3>1
    <3>3. Val(s) = g[e]  BY <1>7, <1>10, <1>11, <3>1
    <3> QED  BY <3>2, <3>3
  <2> QED  BY <2>1, <2>2 DEF Slots
<1>15. ~wide => Narrow(q)
  <2> SUFFICES ASSUME ~wide, NEW k \in Planned(q)
               PROVE  Cardinality(Slots(Valued(FoundIn(k, q), q.field), ValuesOf(q.field))) <= 2 * q.size
    BY DEF Narrow
  <2> DEFINE E == Valued(FoundIn(k, q), q.field)
  <2>1. \A e : e \in E <=> e \in H /\ KeyOf(e) = k  BY <1>7, <1>9 DEF Valued
  <2> HIDE DEF E
  <2>2. IsFiniteSet(E)
    <3>1. E \in SUBSET H  BY <2>1
    <3> QED  BY <1>11, <3>1, FS_Subset
  <2>3. Of(k) = Slots(E, g)
    <3>1. ASSUME NEW s \in has, s.key = k PROVE Val(s) \in Slots(E, g)
      <4>1. s \in Matching(q) /\ s.row.event \in H  BY <1>8, <1>12
      <4>2. Val(s) = g[s.row.event] /\ s.row.event \in E  BY <1>6, <1>7, <1>10, <2>1, <3>1, <4>1
      <4> QED  BY <4>2 DEF Slots
    <3>2. ASSUME NEW e \in E PROVE g[e] \in Of(k)
      <4>1. e \in H /\ KeyOf(e) = k  BY <2>1
      <4>2. PICK s \in Matching(q) : s.row.event = e  BY <1>6, <1>11, <4>1
      <4>3. s \in has /\ s.key = k  BY <1>7, <1>12, <4>1, <4>2
      <4>4. Val(s) = g[e]  BY <1>7, <1>10, <1>11, <4>1, <4>2
      <4> QED  BY <4>3, <4>4
    <3> QED  BY <3>1, <3>2 DEF Slots
  <2>4. Cardinality(Slots(E, g)) \in Nat
    <3> DEFINE f == [e \in E |-> g[e]]
    <3>1. f \in Surjection(E, Slots(E, g))  BY DEF Surjection, Slots
    <3> HIDE DEF f
    <3> QED  BY <2>2, <3>1, FS_Surjection, FS_CardinalityType
  <2>5. k \in Keys  BY <1>1
  <2>6. ~(Cardinality(Of(k)) > 2 * size)  BY <2>5
  <2> HIDE DEF Of
  <2>7. Cardinality(Slots(E, g)) <= 2 * size  BY <1>3, <2>3, <2>4, <2>6
  <2> QED  BY <2>7 DEF E, g, size
<1> HIDE DEF True, values, wide, Of
<1>16. LET d == Cardinality(DOMAIN c)
       IN  /\ d \in Nat /\ DOMAIN out = 1..Len(out)
           /\ Len(out) = IF size < d THEN size ELSE d
           /\ Cardinality(shown) = Len(out)
           /\ \A i \in DOMAIN out : /\ out[i].value \in DOMAIN c
                                    /\ out[i].count = c[out[i].value] /\ out[i].count \in Nat
           /\ \A i, j \in DOMAIN out : i < j => out[i].count >= out[j].count
           /\ \A v \in DOMAIN c : \/ \E i \in DOMAIN out : out[i].value = v
                                  \/ \A i \in DOMAIN out : c[v] <= out[i].count
  <2> DEFINE o == Listed(c, size)
  <2>1. LET d == Cardinality(DOMAIN c)
        IN  /\ d \in Nat /\ DOMAIN o = 1..Len(o)
            /\ Len(o) = IF size < d THEN size ELSE d
            /\ Cardinality({o[i].value : i \in DOMAIN o}) = Len(o)
            /\ \A i \in DOMAIN o : /\ o[i].value \in DOMAIN c
                                    /\ o[i].count = c[o[i].value] /\ o[i].count \in Nat
            /\ \A i, j \in DOMAIN o : i < j => o[i].count >= o[j].count
            /\ \A v \in DOMAIN c : \/ \E i \in DOMAIN o : o[i].value = v
                                   \/ \A i \in DOMAIN o : c[v] <= o[i].count
    BY <1>3, <1>5, ListedIs
  <2> HIDE DEF o
  <2>2. out = o  BY <1>4 DEF o
  <2>3. {o[i].value : i \in DOMAIN o} = shown  BY <2>2
  <2> HIDE DEF shown
  <2> QED  BY <2>1, <2>2, <2>3
<1>17. Len(out) <= size  BY <1>3, <1>16
<1>18. ASSUME n = m PROVE \A i \in DOMAIN out : out[i].count <= True(out[i].value)
  <2> SUFFICES ASSUME NEW i \in DOMAIN out PROVE out[i].count <= True(out[i].value)  OBVIOUS
  <2>1. PICK v \in DOMAIN c : v = out[i].value /\ out[i].count = c[v]  BY <1>16
  <2>2. c[v] <= Cardinality(InSlot(H, v, g))  BY <1>5, <1>18 DEF Under
  <2> QED  BY <1>13, <2>1, <2>2
<1>19. ASSUME n = m, ~wide
       PROVE  /\ \A i \in DOMAIN out : out[i].count = True(out[i].value)
              /\ Len(out) = Min({size, Cardinality(values)})
              /\ \A s \in has : Val(s) \notin shown =>
                   \A i \in DOMAIN out : True(Val(s)) <= out[i].count
  <2>1. c = CountsOver({}, H, g)  BY <1>5, <1>15, <1>19
  <2>2. Slots(H, g) \in SUBSET Int
    <3>1. \A e \in H : g[e] \in Int
      <4> SUFFICES ASSUME NEW e \in H PROVE g[e] \in Int  OBVIOUS
      <4>1. e \in Events /\ ValueIn(e, q.field) # None /\ g[e] = ValueIn(e, q.field)
        BY <1>6, <1>9, <1>10
      <4> QED  BY <4>1, ValueFacts
    <3> QED  BY <3>1 DEF Slots
  <2>3. /\ DOMAIN CountsOver({}, H, g) = Slots(H, g)
        /\ \A v \in Slots(H, g) : CountsOver({}, H, g)[v] = Cardinality(InSlot(H, v, g))
    BY <1>11, <2>2, CountsUnder
  <2>4. DOMAIN c = values /\ \A v \in values : c[v] = True(v)  BY <1>13, <1>14, <2>1, <2>3
  <2>5. \A i \in DOMAIN out : out[i].count = True(out[i].value)  BY <1>16, <2>4
  <2>6. Len(out) = Min({size, Cardinality(values)})
    <3>1. PICK d \in Nat : d = Cardinality(values) /\ Len(out) = IF size < d THEN size ELSE d
      BY <1>16, <2>4
    <3>2. size \in Int /\ d \in Int  BY <1>3
    <3>3. Min({size, d}) = IF size <= d THEN size ELSE d  BY <3>2, OfTwo
    <3> QED  BY <3>1, <3>2, <3>3
  <2>7. \A s \in has : Val(s) \in values  BY DEF values
  <2>8. \A s \in has : Val(s) \notin shown => \A i \in DOMAIN out : True(Val(s)) <= out[i].count
    <3> SUFFICES ASSUME NEW s \in has, Val(s) \notin shown, NEW i \in DOMAIN out
                 PROVE  True(Val(s)) <= out[i].count
      OBVIOUS
    <3>1. PICK v \in DOMAIN c : v = Val(s)  BY <2>4, <2>7
    <3>2. ~\E j \in DOMAIN out : out[j].value = v  BY <3>1
    <3>3. c[v] <= out[i].count  BY <1>16, <3>2
    <3> QED  BY <2>4, <3>1, <3>3
  <2> QED  BY <2>5, <2>6, <2>8
<1>20. TermsSound(q, out, has, n, m)
  <2> HIDE DEF shown
  <2>1. TermsSound(q, out, has, n, m) <=>
          /\ n <= m
          /\ q.approximate => n <= MaxPartitions
          /\ Len(out) <= size
          /\ Cardinality(shown) = Len(out)
          /\ \A i, j \in DOMAIN out : i < j => out[i].count >= out[j].count
          /\ n = m =>
               /\ \A i \in DOMAIN out : out[i].count <= True(out[i].value)
               /\ ~wide =>
                    /\ \A i \in DOMAIN out : out[i].count = True(out[i].value)
                    /\ Len(out) = Min({size, Cardinality(values)})
                    /\ \A s \in has : Val(s) \notin shown =>
                         \A i \in DOMAIN out : True(Val(s)) <= out[i].count
    BY DEF TermsSound, True, Val, shown, values, wide, Of, size
  <2> QED  BY <1>2, <1>16, <1>17, <1>18, <1>19, <2>1
<1> QED  BY <1>20 DEF out, has, n, m

(* A terms aggregation never counts a value more often than it occurs      *)
(* unless it scales a sample, and it is exact, the most frequent values    *)
(* first, as long as no partition has more values than it keeps.           *)
THEOREM AggregateIsSound ==
  ASSUME QueriesFit
  PROVE  StoreSpec => []AggregateSound
<1>1. StoreFits /\ CacheFits => AggregateSound
  <2> SUFFICES ASSUME StoreFits, CacheFits, NEW q \in Queries
               PROVE  TermsSound(q, Aggregate(q), WithField(q),
                                 Len(Sampled(q)), Cardinality(Planned(q)))
    BY DEF AggregateSound
  <2>1. QueryFits(q) /\ FilterFits(q)  BY DEF QueriesFit
  <2> QED  BY <2>1, AggregateExact
<1> QED  BY <1>1, StoreAlways, PTL
===============================================================================
